--------------------------- MODULE CheckpointProofs ---------------------------
(***************************************************************************)
(* What holds of CheckpointWriteBack for every pool, relation, budget and  *)
(* length of log.                                                          *)
(***************************************************************************)
EXTENDS CheckpointWriteBack, WellFoundedInduction, TLAPS

(* Each record past the durable log belongs to a frame that is still dirty *)
(* and has been since before the record.                                   *)
Covered ==
  \A n \in 1 .. lsn : flushed < n =>
     \E f \in Slot : /\ frames[f].dirty
                     /\ frames[f].rec < n
                     /\ n <= frames[f].lsn

(* What the running checkpoint has left to write of the changes before its *)
(* redo point.                                                             *)
MarkedLeft ==
  ckptActive =>
    \A f \in Slot : frames[f].dirty /\ frames[f].rec < ckptRedo
                      => f \in ckptTodo /\ frames[f].ckpt

(* Nothing dirty is older than the last checkpoint completed. *)
DoneSound ==
  /\ \A f \in Slot : frames[f].dirty => ckptDone <= frames[f].rec
  /\ ckptDone <= flushed

(* A frame's image flag, its changes and the images logged agree. *)
Imaged ==
  engine = "pg" =>
    \A f \in Slot : frames[f].page # NoBlock =>
      /\ ckptRedo < frames[f].lsn => frames[f].fpi
      /\ frames[f].fpi => images[frames[f].page] > 0

CkptStage == stage = "ckpt" => ckptActive

Inv == /\ TypeOK /\ WrittenIsLogged /\ Covered /\ MarkedLeft /\ DoneSound
       /\ Imaged /\ CkptStage

-------------------------------------------------------------------------------
(* A set of natural numbers that is not empty has a least element. *)
LEMMA LeastOf ==
  ASSUME NEW T, T \subseteq Nat, T # {}
  PROVE  \E x \in T : \A y \in T : x <= y
<1> DEFINE R == {ss \in Nat \X Nat : ss[1] < ss[2]}
<1>1. IsWellFoundedOn(R, Nat)
  BY NatLessThanWellFounded DEF OpToRel
<1>2. PICK x \in T : \A y \in T : ~(<<y, x>> \in R)
  BY <1>1, WFMin
<1>3. ASSUME NEW y \in T PROVE x <= y
  <2>1. x \in Nat /\ y \in Nat /\ ~(<<y, x>> \in R)
    BY <1>2
  <2>2. ~(y < x)
    BY <2>1
  <2>3. QED BY <2>1, <2>2
<1>4. QED BY <1>3

(* The pointers and the fields of the frames are numbers in order. *)
LEMMA Numbers ==
  ASSUME TypeOK
  PROVE  /\ lsn \in Nat /\ flushed \in Nat /\ prevLsn \in Nat
         /\ ckptRedo \in Nat /\ ckptDone \in Nat /\ Size \in Nat
         /\ flushed <= lsn /\ prevLsn <= lsn /\ ckptRedo <= lsn
         /\ ckptDone <= ckptRedo
         /\ \A f \in Slot : /\ frames[f] \in Frame
                            /\ frames[f].rec \in Nat /\ frames[f].lsn \in Nat
                            /\ frames[f].usage \in 0 .. MaxUsage
                            /\ frames[f].lsn <= lsn
                            /\ frames[f].dirty => frames[f].rec < frames[f].lsn
BY FramesAssumption, BudgetAssumption DEF TypeOK, Frame

LEMMA InitInv == Init => Inv
<1> SUFFICES ASSUME Init PROVE Inv
  OBVIOUS
<1>1. /\ \A f \in Slot : frames[f] = Empty
      /\ lsn = 0 /\ flushed = 0 /\ ckptDone = 0 /\ ckptActive = FALSE
  BY DEF Init
<1>2. TypeOK
  <2>1. Empty \in Frame
    BY FramesAssumption DEF Empty, Frame
  <2>2. 0 \in Slot /\ 0 \in 0 .. MaxLsn /\ 0 \in 0 .. Due /\ 0 \in 0 .. MaxIo
    BY FramesAssumption, BudgetAssumption DEF Slot
  <2>3. frames \in [Slot -> Frame]
    BY <2>1 DEF Init
  <2>4. \A f \in Slot : /\ frames[f].lsn <= lsn
                        /\ frames[f].dirty => frames[f].rec < frames[f].lsn
    BY <1>1 DEF Empty
  <2>5. engine \in {"pg", "innodb"} /\ images \in [Block -> Nat]
    BY DEF Init
  <2>6. hand = 0 /\ prevLsn = 0 /\ ckptRedo = 0 /\ since = 0 /\ left = 0
        /\ ckptTodo = {} /\ stage = "idle"
    BY DEF Init
  <2>7. /\ lsn \in 0 .. MaxLsn /\ flushed \in 0 .. lsn /\ prevLsn \in 0 .. lsn
        /\ ckptRedo \in 0 .. lsn /\ ckptDone \in 0 .. ckptRedo
        /\ since \in 0 .. Due /\ left \in 0 .. MaxIo /\ hand \in Slot
    BY <1>1, <2>2, <2>6
  <2>8. /\ stage \in {"idle", "work", "clean", "lru", "bgw", "ckpt"}
        /\ ckptActive \in BOOLEAN /\ ckptTodo \subseteq Slot
    BY <1>1, <2>6
  <2>9. /\ engine  \in {"pg", "innodb"}
        /\ stage   \in {"idle", "work", "clean", "lru", "bgw", "ckpt"}
        /\ images \in [Block -> Nat]
    BY <2>5, <2>8
  <2>10. QED BY <2>3, <2>4, <2>7, <2>8, <2>9 DEF TypeOK
<1>3. WrittenIsLogged /\ Covered /\ MarkedLeft /\ DoneSound /\ Imaged
  BY <1>1 DEF WrittenIsLogged, Covered, MarkedLeft, DoneSound, Imaged, Empty
<1>4. CkptStage
  BY DEF Init, CkptStage
<1>5. QED BY <1>2, <1>3, <1>4 DEF Inv, CkptStage

-------------------------------------------------------------------------------
(* Writing one dirty frame, whoever does it. *)
LEMMA WriteBackStep ==
  ASSUME Inv, NEW f \in Slot, frames[f].dirty, WriteBack(f),
         UNCHANGED <<engine, hand, lsn, prevLsn, ckptActive, ckptRedo, ckptDone,
                     since, images>>,
         stage' \in {"idle", "work", "clean", "lru", "bgw", "ckpt"},
         stage' = "ckpt" => ckptActive,
         left' \in 0 .. MaxIo, ckptTodo \ {f} \subseteq ckptTodo',
         ckptTodo' \subseteq ckptTodo
  PROVE  Inv'
<1>1. /\ TypeOK /\ WrittenIsLogged /\ Covered /\ MarkedLeft /\ DoneSound /\ Imaged
  BY DEF Inv
<1>2. /\ frames \in [Slot -> Frame]
      /\ frames' = [frames EXCEPT ![f] = Written(@)]
      /\ \A g \in Slot \ {f} : frames'[g] = frames[g]
      /\ frames'[f] = Written(frames[f])
  BY <1>1 DEF WriteBack, TypeOK
<1>3. flushed' \in Nat /\ flushed <= flushed' /\ frames[f].lsn <= flushed'
      /\ flushed' <= lsn
  BY <1>1, Numbers DEF WriteBack, FlushedFor, Later
<1>4. /\ frames'[f].page = frames[f].page /\ frames'[f].dirty = FALSE
      /\ frames'[f].rec = 0 /\ frames'[f].lsn = frames[f].lsn
      /\ frames'[f].fpi = frames[f].fpi /\ frames'[f] \in Frame
  BY <1>1, <1>2, Numbers DEF Written, Frame
<1>5. TypeOK'
  <2>1. frames' \in [Slot -> Frame]
    BY <1>2, <1>4
  <2>2. flushed' \in 0 .. lsn'
    BY <1>1, <1>3, Numbers
  <2>3. ASSUME NEW g \in Slot
        PROVE  /\ frames'[g].lsn <= lsn'
               /\ frames'[g].dirty => frames'[g].rec < frames'[g].lsn
    BY <1>1, <1>2, <1>4, Numbers
  <2>4. QED BY <1>1, <2>1, <2>2, <2>3 DEF TypeOK
<1>6. WrittenIsLogged'
  <2> SUFFICES ASSUME NEW g \in Slot, ~frames'[g].dirty
               PROVE  frames'[g].lsn <= flushed'
    BY DEF WrittenIsLogged
  <2>1. CASE g = f
    BY <2>1, <1>3, <1>4
  <2>2. CASE g # f
    BY <2>2, <1>1, <1>2, <1>3, Numbers DEF WrittenIsLogged
  <2>3. QED BY <2>1, <2>2
<1>7. Covered'
  <2> SUFFICES ASSUME NEW n \in 1 .. lsn, flushed' < n
               PROVE  \E g \in Slot : /\ frames'[g].dirty
                                      /\ frames'[g].rec < n
                                      /\ n <= frames'[g].lsn
    BY DEF Covered
  <2>1. n \in Nat /\ flushed < n
    BY <1>1, <1>3, Numbers
  <2>2. PICK g \in Slot : /\ frames[g].dirty
                          /\ frames[g].rec < n
                          /\ n <= frames[g].lsn
    BY <1>1, <2>1 DEF Covered
  <2>3. g # f
    BY <1>1, <1>3, <2>1, <2>2, Numbers
  <2>4. QED BY <1>2, <2>2, <2>3
<1>8. MarkedLeft' /\ DoneSound'
  BY <1>1, <1>2, <1>3, <1>4, Numbers DEF MarkedLeft, DoneSound
<1>9. Imaged'
  BY <1>1, <1>2, <1>4 DEF Imaged
<1>10. QED BY <1>5, <1>6, <1>7, <1>8, <1>9 DEF Inv, CkptStage

(* Steps that leave the frames alone and flush no less. *)
LEMMA IdleStep ==
  ASSUME Inv,
         UNCHANGED <<engine, frames, hand, lsn, ckptRedo, images>>,
         UNCHANGED <<ckptActive, ckptDone, ckptTodo>>,
         flushed' \in 0 .. lsn, flushed <= flushed', prevLsn' \in 0 .. lsn,
         stage' \in {"idle", "work", "clean", "lru", "bgw", "ckpt"},
         stage' = "ckpt" => ckptActive,
         left' \in 0 .. MaxIo, since' \in 0 .. Due
  PROVE  Inv'
<1>1. /\ TypeOK /\ WrittenIsLogged /\ Covered /\ MarkedLeft /\ DoneSound /\ Imaged
  BY DEF Inv
<1>2. TypeOK'
  BY <1>1 DEF TypeOK, Slot
<1>3. WrittenIsLogged' /\ Covered' /\ DoneSound'
  BY <1>1, Numbers DEF WrittenIsLogged, Covered, DoneSound, Slot
<1>4. MarkedLeft' /\ Imaged'
  BY <1>1 DEF MarkedLeft, Imaged, Slot
<1>5. QED BY <1>2, <1>3, <1>4 DEF Inv, CkptStage

-------------------------------------------------------------------------------
(* One modification of frame v, which holds d: the resident page, or the   *)
(* page loaded over a victim that has been written.                        *)
Holds(v, d) ==
  \/ d = frames[v] /\ flushed' = flushed
  \/ /\ d.dirty = FALSE /\ d.fpi = FALSE
     /\ frames[v].dirty => frames[v].lsn <= flushed'

Kept(g) ==
  /\ frames'[g].page = frames[g].page
  /\ frames'[g].dirty = frames[g].dirty
  /\ frames'[g].rec = frames[g].rec
  /\ frames'[g].lsn = frames[g].lsn
  /\ frames'[g].fpi = frames[g].fpi
  /\ frames'[g].ckpt = frames[g].ckpt

LEMMA ModifyStep ==
  ASSUME Inv, NEW v \in Slot, NEW b \in Block, NEW d \in Frame, d.page = b,
         Holds(v, d), Log(b, d),
         frames' \in [Slot -> Frame], frames'[v] = Modified(d),
         \A g \in Slot \ {v} : Kept(g),
         flushed' \in 0 .. lsn, flushed <= flushed', hand' \in Slot
  PROVE  Inv'
<1>1. /\ TypeOK /\ WrittenIsLogged /\ Covered /\ MarkedLeft /\ DoneSound /\ Imaged
  BY DEF Inv
<1>2. /\ lsn' = lsn + 1 /\ lsn < MaxLsn /\ stage' = "work"
      /\ UNCHANGED <<engine, prevLsn, ckptActive, ckptRedo, ckptDone, ckptTodo,
                     since, left>>
      /\ images' = [images EXCEPT ![b] = IF Images(d) THEN @ + 1 ELSE @]
  BY DEF Log, ckptVars
<1>3. /\ frames'[v].page = b
      /\ frames'[v].dirty = TRUE
      /\ frames'[v].rec = IF d.dirty THEN d.rec ELSE lsn
      /\ frames'[v].lsn = lsn + 1
      /\ frames'[v].fpi = (d.fpi \/ Images(d))
      /\ frames'[v].ckpt = d.ckpt
  BY DEF Modified, FirstDirtied, Frame
<1>4. /\ flushed' \in Nat /\ lsn \in Nat /\ flushed \in Nat /\ flushed' <= lsn
  BY <1>1, Numbers
(* Either the frame was dirty since d.rec, or it is dirty from here on. *)
<1>5. \/ /\ d = frames[v] /\ flushed' = flushed /\ d.dirty
         /\ frames'[v].rec = d.rec /\ frames'[v].rec < lsn
      \/ frames'[v].rec = lsn
  BY <1>1, <1>3, Numbers DEF Holds
<1>6. TypeOK'
  <2>1. images' \in [Block -> Nat]
    BY <1>1, <1>2 DEF TypeOK
  <2>2. /\ lsn' \in 0 .. MaxLsn /\ flushed' \in 0 .. lsn' /\ prevLsn' \in 0 .. lsn'
        /\ ckptRedo' \in 0 .. lsn'
    BY <1>1, <1>2, <1>4, Numbers, BudgetAssumption
  <2>3. ASSUME NEW g \in Slot
        PROVE  /\ frames'[g].lsn <= lsn'
               /\ frames'[g].dirty => frames'[g].rec < frames'[g].lsn
    <3>1. CASE g = v
      BY <3>1, <1>2, <1>3, <1>4, <1>5, Numbers, <1>1
    <3>2. CASE g # v
      <4>1. frames'[g].lsn = frames[g].lsn /\ frames'[g].rec = frames[g].rec
            /\ frames'[g].dirty = frames[g].dirty
        BY <3>2 DEF Kept
      <4>2. QED BY <4>1, <1>1, <1>2, <1>4, Numbers
    <3>3. QED BY <3>1, <3>2
  <2>4. QED BY <1>1, <1>2, <2>1, <2>2, <2>3 DEF TypeOK
<1>7. WrittenIsLogged'
  <2> SUFFICES ASSUME NEW g \in Slot, ~frames'[g].dirty
               PROVE  frames'[g].lsn <= flushed'
    BY DEF WrittenIsLogged
  <2>1. g # v
    BY <1>3
  <2>2. ~frames[g].dirty /\ frames'[g].lsn = frames[g].lsn
    BY <2>1 DEF Kept
  <2>3. QED BY <2>2, <1>1, <1>4, Numbers DEF WrittenIsLogged
<1>8. Covered'
  <2> SUFFICES ASSUME NEW n \in 1 .. lsn + 1, flushed' < n
               PROVE  \E g \in Slot : /\ frames'[g].dirty
                                      /\ frames'[g].rec < n
                                      /\ n <= frames'[g].lsn
    BY <1>2 DEF Covered
  <2>1. CASE n = lsn + 1
    <3>1. frames'[v].dirty /\ frames'[v].rec < n /\ n <= frames'[v].lsn
      BY <2>1, <1>1, <1>3, <1>4, <1>5, Numbers
    <3>2. QED BY <3>1
  <2>2. CASE n # lsn + 1
    <3>1. n \in 1 .. lsn /\ flushed < n
      BY <2>2, <1>4
    <3>2. PICK g \in Slot : /\ frames[g].dirty
                            /\ frames[g].rec < n
                            /\ n <= frames[g].lsn
      BY <3>1, <1>1 DEF Covered
    <3>3. CASE g # v
      BY <3>2, <3>3 DEF Kept
    <3>4. CASE g = v
      <4>1. ~(frames[v].lsn <= flushed')
        BY <3>1, <3>2, <3>4, <1>1, <1>4, Numbers
      <4>2. d = frames[v]
        BY <3>2, <3>4, <4>1 DEF Holds
      <4>3. frames'[v].rec = frames[v].rec
        BY <3>2, <3>4, <4>2, <1>3
      <4>4. n <= lsn + 1
        BY <3>1
      <4>5. QED BY <3>2, <3>4, <4>3, <4>4, <1>3
    <3>5. QED BY <3>3, <3>4
  <2>3. QED BY <2>1, <2>2
<1>9. MarkedLeft'
  <2> SUFFICES ASSUME ckptActive, NEW g \in Slot, frames'[g].dirty,
                      frames'[g].rec < ckptRedo
               PROVE  g \in ckptTodo /\ frames'[g].ckpt
    BY <1>2 DEF MarkedLeft
  <2>1. CASE g = v
    <3>1. frames'[v].rec # lsn
      BY <2>1, <1>1, <1>4, Numbers
    <3>2. d = frames[v] /\ frames[v].dirty /\ frames[v].rec < ckptRedo
      BY <2>1, <3>1, <1>5
    <3>3. QED BY <2>1, <3>2, <1>1, <1>3 DEF MarkedLeft
  <2>2. CASE g # v
    BY <2>2, <1>1 DEF MarkedLeft, Kept
  <2>3. QED BY <2>1, <2>2
<1>10. DoneSound'
  <2>1. ASSUME NEW g \in Slot, frames'[g].dirty PROVE ckptDone <= frames'[g].rec
    <3>1. CASE g = v /\ frames'[v].rec = lsn
      BY <3>1, <1>1, Numbers
    <3>2. CASE g = v /\ frames'[v].rec # lsn
      BY <3>2, <1>1, <1>5 DEF DoneSound
    <3>3. CASE g # v
      BY <3>3, <2>1, <1>1 DEF DoneSound, Kept
    <3>4. QED BY <3>1, <3>2, <3>3
  <2>2. ckptDone <= flushed'
    BY <1>1, <1>4, Numbers DEF DoneSound
  <2>3. QED BY <1>2, <2>1, <2>2 DEF DoneSound
<1>11. Imaged'
  <2> SUFFICES ASSUME engine = "pg", NEW g \in Slot, frames'[g].page # NoBlock
               PROVE  /\ ckptRedo < frames'[g].lsn => frames'[g].fpi
                      /\ frames'[g].fpi => images'[frames'[g].page] > 0
    BY <1>2 DEF Imaged
  <2>1. \A c \in Block : images[c] \in Nat /\ images'[c] \in Nat
                         /\ images[c] <= images'[c]
    BY <1>1, <1>2 DEF TypeOK
  <2>2. CASE g = v
    <3>1. CASE Images(d)
      <4>1. images'[b] = images[b] + 1
        BY <3>1, <1>1, <1>2 DEF TypeOK
      <4>2. images'[b] > 0
        BY <2>1, <4>1
      <4>3. QED BY <2>2, <3>1, <4>2, <1>3
    <3>2. CASE ~Images(d)
      <4>1. d.fpi /\ d = frames[v] /\ frames'[v].fpi
        BY <3>2, <1>3 DEF Images, Holds
      <4>2. images[b] > 0
        BY <4>1, <2>2, <1>1, BlockAssumption DEF Imaged
      <4>3. images'[b] > 0
        BY <2>1, <4>2
      <4>4. QED BY <2>2, <4>1, <4>3, <1>3
    <3>3. QED BY <3>1, <3>2
  <2>3. CASE g # v
    <3>1. Kept(g) /\ frames[g] \in Frame
      BY <2>3, <1>1, Numbers
    <3>2. frames[g].page \in Block
      BY <3>1 DEF Frame, Kept
    <3>3. /\ ckptRedo < frames[g].lsn => frames[g].fpi
          /\ frames[g].fpi => images[frames[g].page] > 0
      BY <3>1, <1>1 DEF Imaged, Kept
    <3>4. images[frames[g].page] > 0 => images'[frames[g].page] > 0
      BY <2>1, <3>2
    <3>5. QED BY <3>1, <3>3, <3>4 DEF Kept
  <2>4. QED BY <2>2, <2>3
<1>12. QED BY <1>2, <1>6, <1>7, <1>8, <1>9, <1>10, <1>11 DEF Inv, CkptStage

LEMMA ResidentStep == ASSUME Inv, NEW b \in Block, ModifyResident(b) PROVE Inv'
<1>1. PICK f \in Slot : /\ frames[f].page = b
                        /\ Log(b, frames[f])
                        /\ frames' = [frames EXCEPT ![f] = Modified(@)]
                        /\ UNCHANGED <<hand, flushed>>
  BY DEF ModifyResident
<1>2. TypeOK /\ frames \in [Slot -> Frame] /\ frames[f] \in Frame
  BY DEF Inv, TypeOK
<1>3. Modified(frames[f]) \in Frame
  <2>1. FirstDirtied(frames[f]) \in Nat /\ lsn + 1 \in Nat
    BY <1>2, Numbers DEF FirstDirtied
  <2>2. Bumped(frames[f].usage) \in 0 .. MaxUsage
    BY <1>2, Numbers, FramesAssumption DEF Bumped
  <2>3. (frames[f].fpi \/ Images(frames[f])) \in BOOLEAN
    OBVIOUS
  <2>4. QED BY <1>2, <2>1, <2>2, <2>3 DEF Modified, Frame
<1>4. /\ frames' \in [Slot -> Frame] /\ frames'[f] = Modified(frames[f])
      /\ \A g \in Slot \ {f} : Kept(g)
  BY <1>1, <1>2, <1>3 DEF Kept
<1>5. Holds(f, frames[f]) /\ flushed' \in 0 .. lsn /\ flushed <= flushed'
      /\ hand' \in Slot
  BY <1>1, <1>2, Numbers DEF Holds, TypeOK
<1>6. QED BY <1>1, <1>2, <1>4, <1>5, ModifyStep

LEMMA SweptUsage ==
  ASSUME TypeOK, NEW v \in Slot, IsVictim(v, Slot, Usage, hand, Size),
         NEW f \in Slot
  PROVE  UsageAfter(f, v, Slot, Usage, hand, Size) \in 0 .. MaxUsage
<1>1. /\ Usage[f] \in 0 .. MaxUsage /\ Usage[v] \in 0 .. MaxUsage
      /\ MaxUsage \in Nat
  BY Numbers, FramesAssumption DEF Usage
<1>2. Distance(f, hand, Size) \in Int /\ Distance(v, hand, Size) \in Int
  BY FramesAssumption DEF TypeOK, Distance, Slot
<1>3. \/ Usage[v] < Usage[f]
      \/ /\ Usage[v] = Usage[f]
         /\ Distance(v, hand, Size) <= Distance(f, hand, Size)
  BY DEF IsVictim
<1>4. QED BY <1>1, <1>2, <1>3 DEF UsageAfter

LEMMA LoadStep == ASSUME Inv, NEW b \in Block, ModifyLoad(b) PROVE Inv'
<1>1. PICK v \in Slot :
        /\ IsVictim(v, Slot, Usage, hand, Size)
        /\ Log(b, Loaded(v, b))
        /\ frames'  = [f \in Slot |->
                         IF f = v THEN Modified(Loaded(v, b))
                         ELSE [frames[f] EXCEPT !.usage =
                                 UsageAfter(f, v, Slot, Usage, hand, Size)]]
        /\ flushed' = IF frames[v].dirty THEN FlushedFor(v) ELSE flushed
        /\ hand'    = HandAfter(v, Size)
  BY DEF ModifyLoad
<1>2. TypeOK /\ frames \in [Slot -> Frame] /\ frames[v] \in Frame
  BY DEF Inv, TypeOK
<1>3. PICK d : d = Loaded(v, b)
  OBVIOUS
<1>4. d \in Frame /\ d.page = b /\ d.dirty = FALSE /\ d.fpi = FALSE
  <2>1. PICK w : w = Written(frames[v])
    OBVIOUS
  <2>2. w \in Frame /\ w.dirty = FALSE
    BY <1>2, <2>1 DEF Written, Frame
  <2>3. d = [w EXCEPT !.page = b, !.usage = 0, !.fpi = FALSE, !.lsn = 0]
    BY <1>3, <2>1 DEF Loaded
  <2>4. 0 \in 0 .. MaxUsage
    BY FramesAssumption
  <2>5. QED BY <2>2, <2>3, <2>4 DEF Frame
<1>5. Modified(d) \in Frame
  <2>1. FirstDirtied(d) \in Nat /\ lsn + 1 \in Nat
    BY <1>2, <1>4, Numbers DEF FirstDirtied
  <2>2. Bumped(d.usage) \in 0 .. MaxUsage
    BY <1>4, FramesAssumption DEF Bumped, Frame
  <2>3. (d.fpi \/ Images(d)) \in BOOLEAN
    OBVIOUS
  <2>4. QED BY <1>4, <2>1, <2>2, <2>3 DEF Modified, Frame
<1>6. ASSUME NEW g \in Slot \ {v} PROVE frames'[g] \in Frame /\ Kept(g)
  <2>1. frames'[g] = [frames[g] EXCEPT !.usage =
                        UsageAfter(g, v, Slot, Usage, hand, Size)]
    BY <1>1
  <2>2. UsageAfter(g, v, Slot, Usage, hand, Size) \in 0 .. MaxUsage
    BY <1>1, <1>2, SweptUsage
  <2>3. frames[g] \in Frame
    BY <1>2
  <2>4. QED BY <2>1, <2>2, <2>3 DEF Frame, Kept
<1>7. frames'[v] = Modified(d)
  BY <1>1, <1>3
<1>8. frames' \in [Slot -> Frame]
  <2>1. \A g \in Slot : frames'[g] \in Frame
    BY <1>5, <1>6, <1>7
  <2>2. QED BY <1>1, <2>1
<1>9. flushed' \in 0 .. lsn /\ flushed <= flushed'
      /\ (frames[v].dirty => frames[v].lsn <= flushed')
  BY <1>1, <1>2, Numbers DEF FlushedFor, Later
<1>10. hand' \in Slot
  BY <1>1, FramesAssumption DEF HandAfter, Slot
<1>11. Holds(v, d) /\ Log(b, d)
  BY <1>1, <1>3, <1>4, <1>9 DEF Holds
<1>12. QED BY <1>4, <1>6, <1>7, <1>8, <1>9, <1>10, <1>11, ModifyStep

LEMMA CkptStartStep == ASSUME Inv, CkptStart PROVE Inv'
<1>1. /\ TypeOK /\ WrittenIsLogged /\ Covered /\ MarkedLeft /\ DoneSound /\ Imaged
  BY DEF Inv
<1>2. /\ ckptActive' = TRUE /\ ckptRedo' = lsn
      /\ ckptTodo' = {f \in Slot : frames[f].dirty}
      /\ since' = 0 /\ left' = 0 /\ stage' = "ckpt"
      /\ images' = [b \in Block |-> 0]
      /\ UNCHANGED <<engine, hand, lsn, flushed, prevLsn, ckptDone>>
  BY DEF CkptStart, Marked, Dirty
<1>3. ASSUME NEW f \in Slot
      PROVE  /\ frames'[f] \in Frame
             /\ frames'[f].page = frames[f].page
             /\ frames'[f].dirty = frames[f].dirty
             /\ frames'[f].rec = frames[f].rec
             /\ frames'[f].lsn = frames[f].lsn
             /\ frames'[f].fpi = FALSE
             /\ frames[f].dirty => frames'[f].ckpt
  <2>1. frames'[f] = [frames[f] EXCEPT !.ckpt = @ \/ f \in Marked,
                                       !.fpi  = @ /\ ~Lapsed(f)]
    BY DEF CkptStart
  <2>2. frames[f] \in Frame /\ (f \in Marked <=> frames[f].dirty)
    BY <1>1, Numbers DEF Marked, Dirty
  <2>3. QED BY <2>1, <2>2 DEF Lapsed, Frame
<1>4. TypeOK'
  <2>1. frames' \in [Slot -> Frame]
    BY <1>3 DEF CkptStart
  <2>2. 0 \in 0 .. Due /\ 0 \in 0 .. MaxIo /\ images' \in [Block -> Nat]
    BY <1>2, BudgetAssumption
  <2>3. ckptRedo' \in 0 .. lsn' /\ ckptDone' \in 0 .. ckptRedo'
    BY <1>1, <1>2, Numbers
  <2>4. \A f \in Slot : /\ frames'[f].lsn <= lsn'
                        /\ frames'[f].dirty => frames'[f].rec < frames'[f].lsn
    BY <1>1, <1>2, <1>3, Numbers
  <2>5. QED BY <1>1, <1>2, <2>1, <2>2, <2>3, <2>4 DEF TypeOK
<1>5. WrittenIsLogged' /\ DoneSound'
  BY <1>1, <1>2, <1>3 DEF WrittenIsLogged, DoneSound
<1>6. Covered'
  BY <1>1, <1>2, <1>3 DEF Covered
<1>7. MarkedLeft'
  BY <1>1, <1>2, <1>3 DEF MarkedLeft
<1>8. Imaged'
  <2>1. ASSUME NEW f \in Slot
        PROVE  frames'[f].fpi = FALSE /\ ~(ckptRedo' < frames'[f].lsn)
    <3>1. frames'[f].lsn = frames[f].lsn /\ frames'[f].fpi = FALSE
      BY <1>3
    <3>2. frames[f].lsn \in Nat /\ lsn \in Nat /\ frames[f].lsn <= lsn
      BY <1>1, Numbers
    <3>3. ~(ckptRedo' < frames'[f].lsn)
      BY <1>2, <3>1, <3>2
    <3>4. QED BY <3>1, <3>3
  <2>2. QED BY <2>1 DEF Imaged
<1>9. QED BY <1>2, <1>4, <1>5, <1>6, <1>7, <1>8 DEF Inv, CkptStage

(* When the checkpoint has nothing left to write, every record before its  *)
(* redo point is on a page that was written since, so the log is flushed   *)
(* through that point.                                                     *)
LEMMA CkptEndsStep == ASSUME Inv, CkptEnds PROVE Inv'
<1>1. /\ TypeOK /\ WrittenIsLogged /\ Covered /\ MarkedLeft /\ DoneSound /\ Imaged
  BY DEF Inv
<1>2. /\ ckptTodo = {} /\ ckptActive' = FALSE /\ ckptDone' = ckptRedo
      /\ since' = 0 /\ left' = 0 /\ stage' = "idle"
      /\ UNCHANGED <<engine, frames, hand, lsn, flushed, prevLsn, ckptRedo,
                     ckptTodo, images>>
  BY DEF CkptEnds, RedoAtEnd
<1>3. ckptActive
  BY DEF Inv, CkptStage, CkptEnds
<1>4. ASSUME NEW f \in Slot, frames[f].dirty PROVE ckptRedo <= frames[f].rec
  BY <1>1, <1>2, <1>3, <1>4, Numbers DEF MarkedLeft
<1>5. ckptRedo <= flushed
  <2> SUFFICES ASSUME flushed < ckptRedo PROVE FALSE
    BY <1>1, Numbers
  <2>1. flushed + 1 \in 1 .. lsn /\ flushed < flushed + 1
        /\ flushed + 1 <= ckptRedo
    BY <1>1, Numbers
  <2>2. PICK f \in Slot : frames[f].dirty /\ frames[f].rec < flushed + 1
    BY <1>1, <2>1 DEF Covered
  <2>3. QED BY <1>1, <1>4, <2>1, <2>2, Numbers
<1>6. TypeOK'
  <2>1. 0 \in 0 .. Due /\ 0 \in 0 .. MaxIo
    BY BudgetAssumption
  <2>2. ckptDone' \in 0 .. ckptRedo'
    BY <1>1, <1>2, Numbers
  <2>3. QED BY <1>1, <1>2, <2>1, <2>2 DEF TypeOK
<1>7. WrittenIsLogged' /\ Covered' /\ Imaged'
  BY <1>1, <1>2 DEF WrittenIsLogged, Covered, Imaged
<1>8. MarkedLeft' /\ DoneSound' /\ CkptStage'
  BY <1>2, <1>4, <1>5 DEF MarkedLeft, DoneSound, CkptStage
<1>9. QED BY <1>6, <1>7, <1>8 DEF Inv

LEMMA CkptWriteStep == ASSUME Inv, CkptWrite PROVE Inv'
<1>1. /\ TypeOK /\ WrittenIsLogged /\ Covered /\ MarkedLeft /\ DoneSound /\ Imaged
      /\ CkptStage
  BY DEF Inv
<1>2. PICK f \in ckptTodo :
        /\ ckptTodo' = ckptTodo \ {f}
        /\ IF frames[f].dirty /\ frames[f].ckpt
           THEN WriteBack(f) /\ left' = left - 1
           ELSE UNCHANGED <<frames, flushed, left>>
  BY DEF CkptWrite
<1>3. /\ stage = "ckpt" /\ left \in 0 .. MaxIo /\ left > 0 /\ f \in Slot
      /\ UNCHANGED <<engine, stage, hand, lsn, prevLsn, ckptActive, ckptRedo,
                     ckptDone, since, images>>
  BY <1>1, <1>2 DEF CkptWrite, TypeOK
<1>4. CASE frames[f].dirty /\ frames[f].ckpt
  <2>1. WriteBack(f) /\ left' \in 0 .. MaxIo
    BY <1>2, <1>3, <1>4, BudgetAssumption
  <2>2. stage' = "ckpt" /\ ckptActive
    BY <1>1, <1>3 DEF CkptStage
  <2>3. QED BY <1>2, <1>3, <1>4, <2>1, <2>2, WriteBackStep
<1>5. CASE ~(frames[f].dirty /\ frames[f].ckpt)
  <2>1. UNCHANGED <<frames, flushed, left>>
    BY <1>2, <1>5
  <2>2. TypeOK'
    BY <1>1, <1>2, <1>3, <2>1 DEF TypeOK
  <2>3. WrittenIsLogged' /\ Covered' /\ DoneSound' /\ Imaged' /\ CkptStage'
    BY <1>1, <1>3, <2>1
    DEF WrittenIsLogged, Covered, DoneSound, Imaged, CkptStage
  <2>4. MarkedLeft'
    BY <1>1, <1>2, <1>3, <1>5, <2>1 DEF MarkedLeft
  <2>5. QED BY <2>2, <2>3, <2>4 DEF Inv
<1>6. QED BY <1>4, <1>5

LEMMA NextInv == ASSUME Inv, [Next]_vars PROVE Inv'
<1>1. TypeOK /\ CkptStage /\ 0 \in 0 .. MaxIo
  BY BudgetAssumption DEF Inv
<1>2. ASSUME NEW b \in Block, ModifyResident(b) \/ ModifyLoad(b) PROVE Inv'
  BY <1>2, ResidentStep, LoadStep
<1>3. CASE WalWriter
  <2>1. flushed' \in 0 .. lsn /\ flushed <= flushed' /\ prevLsn' \in 0 .. lsn
    BY <1>1, <1>3, Numbers DEF WalWriter, Later
  <2>2. QED
    BY <1>1, <1>3, <2>1, IdleStep DEF WalWriter, ckptVars, TypeOK
<1>4. CASE CleanOldest \/ FlushLru \/ BackgroundWrite \/ ForceEvict
  <2>1. PICK f \in Slot : frames[f].dirty /\ WriteBack(f)
    BY <1>4 DEF CleanOldest, FlushLru, BackgroundWrite, ForceEvict, Oldest,
                First, Dirty, Cold
  <2>2. UNCHANGED <<engine, hand, lsn, prevLsn, ckptVars, images>>
        /\ stage' \in {"clean", "lru", "bgw", "idle"}
    BY <1>1, <1>4 DEF CleanOldest, FlushLru, BackgroundWrite, ForceEvict
  <2>3. ckptTodo' = ckptTodo /\ left' \in 0 .. MaxIo /\ stage' # "ckpt"
        /\ UNCHANGED <<ckptActive, ckptRedo, ckptDone, since>>
    BY <1>1, <2>2 DEF ckptVars, TypeOK
  <2>4. QED BY <2>1, <2>2, <2>3, WriteBackStep
<1>5. CASE TickEnds \/ NoCheckpoint \/ CkptPauses
  <2>1. /\ UNCHANGED <<engine, frames, hand, lsn, flushed, prevLsn, images>>
        /\ UNCHANGED <<ckptActive, ckptRedo, ckptDone, ckptTodo, since, left>>
        /\ stage' = "idle"
    BY <1>5 DEF TickEnds, NoCheckpoint, CkptPauses, ckptVars
  <2>2. flushed' \in 0 .. lsn /\ flushed <= flushed' /\ prevLsn' \in 0 .. lsn
        /\ left' \in 0 .. MaxIo /\ since' \in 0 .. Due
    BY <1>1, <2>1, Numbers DEF TypeOK
  <2>3. QED BY <2>1, <2>2, IdleStep
<1>6. CASE CkptGoesOn
  <2>1. /\ UNCHANGED <<engine, frames, hand, lsn, flushed, prevLsn, images>>
        /\ UNCHANGED <<ckptActive, ckptRedo, ckptDone, ckptTodo>>
        /\ stage' = "ckpt" /\ ckptActive
        /\ since' = IF since < Due THEN since + 1 ELSE since
        /\ left' \in Grant(since')
    BY <1>6 DEF CkptGoesOn
  <2>2. since' \in 0 .. Due
    BY <1>1, <2>1, BudgetAssumption DEF TypeOK
  <2>3. Grant(since') \subseteq 0 .. MaxIo
    BY BudgetAssumption DEF Grant
  <2>4. flushed' \in 0 .. lsn /\ flushed <= flushed' /\ prevLsn' \in 0 .. lsn
    BY <1>1, <2>1, Numbers
  <2>5. left' \in 0 .. MaxIo
    BY <2>1, <2>3
  <2>6. QED BY <2>1, <2>2, <2>4, <2>5, IdleStep
<1>7. CASE CkptStart \/ CkptWrite \/ CkptEnds
  BY <1>7, CkptStartStep, CkptWriteStep, CkptEndsStep
<1>8. CASE Reset
  <2>1. Init'
    BY <1>8 DEF Reset, Init
  <2>2. Init' => Inv'
    BY InitInv, PTL
  <2>3. QED BY <2>1, <2>2
<1>9. CASE UNCHANGED vars
  <2>1. UNCHANGED <<engine, stage, frames, hand, lsn, flushed, prevLsn>>
        /\ UNCHANGED <<ckptActive, ckptRedo, ckptDone, ckptTodo, since, left>>
        /\ UNCHANGED images
    BY <1>9 DEF vars
  <2>2. flushed' \in 0 .. lsn /\ flushed <= flushed' /\ prevLsn' \in 0 .. lsn
    BY <1>1, <2>1, Numbers
  <2>3. left' \in 0 .. MaxIo /\ since' \in 0 .. Due
        /\ stage' \in {"idle", "work", "clean", "lru", "bgw", "ckpt"}
        /\ (stage' = "ckpt" => ckptActive)
    BY <1>1, <2>1 DEF TypeOK, CkptStage
  <2>4. QED BY <2>1, <2>2, <2>3, IdleStep
<1>10. QED
  BY <1>2, <1>3, <1>4, <1>5, <1>6, <1>7, <1>8, <1>9
  DEF Next, Tick, Modify, Clean, Ckpt

LEMMA InvHolds == Spec => []Inv
BY InitInv, NextInv, PTL DEF Spec

-------------------------------------------------------------------------------
(* Positions, budgets and usage counts keep their bounds, and every dirty  *)
(* frame has a first change before its last.                               *)
THEOREM TypeCorrect == Spec => []TypeOK
<1>1. Inv => TypeOK
  BY DEF Inv
<1>2. QED BY <1>1, InvHolds, PTL

(* Whoever writes a frame, its log is durable first. *)
THEOREM LogGoesFirst == Spec => []WrittenIsLogged
<1>1. Inv => WrittenIsLogged
  BY DEF Inv
<1>2. QED BY <1>1, InvHolds, PTL

(* What was changed since the redo point has an image after it. *)
THEOREM ImagesKept == Spec => []ImagedSinceRedo
<1>1. Inv => ImagedSinceRedo
  <2> SUFFICES ASSUME Inv, engine = "pg", NEW f \in Slot,
                      frames[f].page # NoBlock, frames[f].lsn > ckptRedo
               PROVE  images[frames[f].page] > 0
    BY DEF ImagedSinceRedo
  <2>1. ckptRedo < frames[f].lsn
    BY Numbers DEF Inv
  <2>2. QED BY <2>1 DEF Inv, Imaged
<1>2. QED BY <1>1, InvHolds, PTL

(* Recovery's start, told by cases. *)
StartIs ==
  /\ RecoveryStart \in 0 .. lsn
  /\ engine = "pg" => RecoveryStart = ckptDone
  /\ engine # "pg" =>
       /\ \A f \in Slot : frames[f].dirty => RecoveryStart <= frames[f].rec
       /\ \/ RecoveryStart = lsn
          \/ \E f \in Slot : frames[f].dirty /\ frames[f].rec = RecoveryStart

LEMMA StartKnown == TypeOK => StartIs
<1> SUFFICES ASSUME TypeOK PROVE StartIs
  OBVIOUS
<1>1. CASE engine = "pg"
  <2>1. ckptDone \in 0 .. lsn
    BY Numbers
  <2>2. RecoveryStart = ckptDone
    BY <1>1, <2>1 DEF RecoveryStart, IsStart
  <2>3. QED BY <1>1, <2>1, <2>2 DEF StartIs
<1>2. CASE engine # "pg" /\ Dirty = {}
  <2>1. lsn \in 0 .. lsn
    BY Numbers
  <2>2. RecoveryStart = lsn
    BY <1>2, <2>1 DEF RecoveryStart, IsStart
  <2>3. QED BY <1>2, <2>1, <2>2 DEF StartIs, Dirty
<1>3. CASE engine # "pg" /\ Dirty # {}
  <2>1. PICK f \in Dirty : \A g \in Dirty : frames[f].rec <= frames[g].rec
    <3> DEFINE T == {frames[g].rec : g \in Dirty}
    <3>1. T \subseteq Nat /\ T # {}
      BY <1>3, Numbers DEF Dirty
    <3>2. PICK x \in T : \A y \in T : x <= y
      BY <3>1, LeastOf
    <3>3. QED BY <3>2
  <2>2. f \in Slot /\ Oldest(f, Dirty)
    BY <2>1 DEF Oldest, Dirty
  <2>3. frames[f].rec \in 0 .. lsn
    BY <2>1, Numbers DEF Dirty
  <2>4. ASSUME NEW n \in 0 .. lsn, IsStart(n) PROVE n = frames[f].rec
    <3>1. PICK g \in Slot : Oldest(g, Dirty) /\ n = frames[g].rec
      BY <1>3, <2>4 DEF IsStart
    <3>2. /\ frames[f].rec <= frames[g].rec /\ frames[g].rec <= frames[f].rec
          /\ frames[f].rec \in Nat /\ frames[g].rec \in Nat
      BY <2>2, <3>1, Numbers DEF Oldest
    <3>3. QED BY <3>1, <3>2
  <2>5. IsStart(frames[f].rec)
    BY <1>3, <2>2 DEF IsStart
  <2>6. RecoveryStart = frames[f].rec
    BY <2>3, <2>4, <2>5 DEF RecoveryStart
  <2>7. QED BY <1>3, <2>1, <2>3, <2>6 DEF StartIs, Dirty
<1>4. QED BY <1>1, <1>2, <1>3

(* No change that is only in memory lies before recovery's start. *)
THEOREM NothingLost == Spec => []NothingSkipped
<1>1. Inv => NothingSkipped
  BY StartKnown DEF Inv, StartIs, DoneSound, NothingSkipped, Dirty
<1>2. QED BY <1>1, InvHolds, PTL

(* Recovery starts within the durable log. *)
THEOREM StartDurable == Spec => []StartIsDurable
<1>1. Inv => StartIsDurable
  <2> SUFFICES ASSUME Inv PROVE RecoveryStart <= flushed
    BY DEF StartIsDurable
  <2>1. TypeOK /\ Covered /\ DoneSound /\ StartIs /\ RecoveryStart \in Nat
        /\ RecoveryStart <= lsn /\ flushed \in Nat /\ lsn \in Nat
    BY StartKnown, Numbers DEF Inv, StartIs
  <2>2. CASE engine = "pg"
    BY <2>1, <2>2 DEF StartIs, DoneSound
  <2>3. ASSUME engine # "pg", flushed < RecoveryStart PROVE FALSE
    <3>1. flushed + 1 \in 1 .. lsn /\ flushed < flushed + 1
      BY <2>1, <2>3
    <3>2. PICK f \in Slot : frames[f].dirty /\ frames[f].rec < flushed + 1
      BY <2>1, <3>1 DEF Covered
    <3>3. RecoveryStart <= frames[f].rec /\ frames[f].rec \in Nat
      BY <2>1, <2>3, <3>2, Numbers DEF StartIs
    <3>4. QED BY <2>1, <2>3, <3>2, <3>3
  <2>4. QED BY <2>1, <2>2, <2>3
<1>2. QED BY <1>1, InvHolds, PTL

(* What a step does to where recovery starts: pointers only grow and a     *)
(* frame is dirty since before the step or since the insert point.         *)
Forward ==
  /\ engine' = engine /\ lsn <= lsn' /\ ckptDone <= ckptDone'
  /\ \A g \in Slot : frames'[g].dirty =>
       \/ frames[g].dirty /\ frames'[g].rec = frames[g].rec
       \/ lsn <= frames'[g].rec

LEMMA StepForward == ASSUME Inv, Tick \/ ForceEvict PROVE Forward
<1>1. TypeOK /\ frames \in [Slot -> Frame]
      /\ \A g \in Slot : frames[g] \in Frame
  BY Numbers DEF Inv, TypeOK
<1>2. ASSUME NEW b, NEW v \in Slot, NEW d, Log(b, d), frames'[v] = Modified(d),
             d.dirty => d = frames[v], d \in Frame,
             \A g \in Slot \ {v} : frames'[g].dirty = frames[g].dirty
                                   /\ frames'[g].rec = frames[g].rec
      PROVE  Forward
  <2>1. engine' = engine /\ lsn' = lsn + 1 /\ ckptDone' = ckptDone
    BY <1>2 DEF Log, ckptVars
  <2>2. frames'[v].rec = IF d.dirty THEN d.rec ELSE lsn
    BY <1>2 DEF Modified, FirstDirtied, Frame
  <2>3. lsn <= lsn + 1 /\ lsn <= lsn /\ ckptDone <= ckptDone
    BY <1>1, Numbers
  <2>4. ASSUME NEW g \in Slot, frames'[g].dirty
        PROVE  \/ frames[g].dirty /\ frames'[g].rec = frames[g].rec
               \/ lsn <= frames'[g].rec
    BY <1>2, <2>2, <2>3, <2>4
  <2>5. QED BY <2>1, <2>3, <2>4 DEF Forward
<1>3. ASSUME NEW b \in Block, ModifyResident(b) PROVE Forward
  <2>1. PICK f \in Slot : Log(b, frames[f])
                          /\ frames' = [frames EXCEPT ![f] = Modified(@)]
    BY <1>3 DEF ModifyResident
  <2>2. QED BY <1>1, <1>2, <2>1
<1>4. ASSUME NEW b \in Block, ModifyLoad(b) PROVE Forward
  <2>1. PICK v \in Slot :
          /\ Log(b, Loaded(v, b))
          /\ frames' = [f \in Slot |->
                          IF f = v THEN Modified(Loaded(v, b))
                          ELSE [frames[f] EXCEPT !.usage =
                                  UsageAfter(f, v, Slot, Usage, hand, Size)]]
    BY <1>4 DEF ModifyLoad
  <2>2. PICK d : d = Loaded(v, b)
    OBVIOUS
  <2>3. d \in Frame /\ d.dirty = FALSE
    <3>1. PICK w : w = Written(frames[v])
      OBVIOUS
    <3>2. w \in Frame /\ w.dirty = FALSE
      BY <1>1, <3>1 DEF Written, Frame
    <3>3. d = [w EXCEPT !.page = b, !.usage = 0, !.fpi = FALSE, !.lsn = 0]
      BY <2>2, <3>1 DEF Loaded
    <3>4. 0 \in 0 .. MaxUsage
      BY FramesAssumption
    <3>5. QED BY <3>2, <3>3, <3>4 DEF Frame
  <2>4. ASSUME NEW g \in Slot \ {v}
        PROVE  frames'[g].dirty = frames[g].dirty /\ frames'[g].rec = frames[g].rec
    BY <1>1, <2>1 DEF Frame
  <2>5. QED BY <1>2, <2>1, <2>2, <2>3, <2>4
<1>5. ASSUME NEW f \in Slot, WriteBack(f) 
      PROVE  \A g \in Slot : frames'[g].dirty =>
                frames[g].dirty /\ frames'[g].rec = frames[g].rec
  BY <1>1, <1>5 DEF WriteBack, Written, Frame
<1>6. lsn <= lsn /\ ckptDone <= ckptDone /\ ckptDone <= ckptRedo
  BY <1>1, Numbers
<1>7. CASE CleanOldest \/ FlushLru \/ BackgroundWrite \/ ForceEvict
  <2>1. \E f \in Slot : WriteBack(f)
    BY <1>7 DEF CleanOldest, FlushLru, BackgroundWrite, ForceEvict, Dirty
  <2>2. engine' = engine /\ lsn' = lsn /\ ckptDone' = ckptDone
    BY <1>7 DEF CleanOldest, FlushLru, BackgroundWrite, ForceEvict, ckptVars
  <2>3. QED BY <1>5, <1>6, <2>1, <2>2 DEF Forward
<1>8. CASE CkptWrite
  <2>1. PICK f \in ckptTodo : WriteBack(f) \/ frames' = frames
    BY <1>8 DEF CkptWrite
  <2>2. engine' = engine /\ lsn' = lsn /\ ckptDone' = ckptDone /\ f \in Slot
    BY <1>1, <1>8 DEF CkptWrite, TypeOK
  <2>3. QED BY <1>5, <1>6, <2>1, <2>2 DEF Forward
<1>9. CASE CkptStart
  <2>1. \A g \in Slot : frames'[g].dirty = frames[g].dirty
                        /\ frames'[g].rec = frames[g].rec
    BY <1>1, <1>9 DEF CkptStart, Frame
  <2>2. engine' = engine /\ lsn' = lsn /\ ckptDone' = ckptDone
    BY <1>9 DEF CkptStart
  <2>3. QED BY <1>6, <2>1, <2>2 DEF Forward
<1>10. CASE WalWriter \/ TickEnds \/ NoCheckpoint \/ CkptPauses \/ CkptGoesOn
            \/ CkptEnds
  <2>1. engine' = engine /\ lsn' = lsn /\ frames' = frames
        /\ ckptDone' \in {ckptDone, ckptRedo}
    BY <1>10 DEF WalWriter, TickEnds, NoCheckpoint, CkptPauses, CkptGoesOn,
                 CkptEnds, RedoAtEnd, ckptVars
  <2>2. QED BY <1>6, <2>1 DEF Forward
<1>11. QED
  BY <1>3, <1>4, <1>7, <1>8, <1>9, <1>10 DEF Tick, Modify, Clean, Ckpt

(* Recovery's start moves only forward, until the pool is reset. *)
THEOREM StartForward == Spec => StartMovesForward
<1>1. ASSUME Inv, Inv', StartIs, StartIs', [Next]_vars, ~Reset
      PROVE  RecoveryStart' >= RecoveryStart
  <2>1. /\ RecoveryStart \in Nat /\ RecoveryStart' \in Nat
        /\ RecoveryStart <= lsn /\ lsn \in Nat /\ lsn' \in Nat
        /\ ckptDone \in Nat
    BY <1>1, Numbers DEF Inv, StartIs, TypeOK
  <2>2. CASE UNCHANGED vars
    <3>1. RecoveryStart' = RecoveryStart
      BY <2>2 DEF vars, RecoveryStart, IsStart, Dirty, Oldest
    <3>2. QED BY <2>1, <3>1
  <2>3. CASE Forward
    <3>1. CASE engine = "pg"
      <4>1. RecoveryStart = ckptDone /\ RecoveryStart' = ckptDone'
        BY <1>1, <2>3, <3>1 DEF StartIs, Forward
      <4>2. QED BY <2>1, <2>3, <4>1 DEF Forward
    <3>2. CASE engine # "pg" /\ RecoveryStart' = lsn'
      BY <2>1, <2>3, <3>2 DEF Forward
    <3>3. ASSUME engine # "pg", NEW f \in Slot, frames'[f].dirty,
                 frames'[f].rec = RecoveryStart'
          PROVE  RecoveryStart' >= RecoveryStart
      <4>1. CASE frames[f].dirty /\ frames'[f].rec = frames[f].rec
        <5>1. RecoveryStart <= frames[f].rec
          BY <1>1, <3>3, <4>1 DEF StartIs
        <5>2. QED BY <2>1, <3>3, <4>1, <5>1
      <4>2. CASE lsn <= frames'[f].rec
        BY <2>1, <3>3, <4>2
      <4>3. QED BY <2>3, <3>3, <4>1, <4>2 DEF Forward
    <3>4. engine' = engine
      BY <2>3 DEF Forward
    <3>5. QED BY <1>1, <3>1, <3>2, <3>3, <3>4 DEF StartIs
  <2>4. QED BY <1>1, <2>2, <2>3, StepForward DEF Next
<1>2. Inv => StartIs
  BY StartKnown DEF Inv
<1>3. QED BY <1>1, <1>2, InvHolds, PTL DEF Spec, StartMovesForward
===============================================================================
