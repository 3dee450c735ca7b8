--------------------------- MODULE BufferPoolProofs ---------------------------
(***************************************************************************)
(* What holds of BufferPool for every number of backends, pages and        *)
(* frames.                                                                 *)
(***************************************************************************)
EXTENDS BufferPool, FiniteSetTheorems, SequenceTheorems, WellFoundedInduction, TLAPS

-------------------------------------------------------------------------------
(* The operations on one descriptor give descriptors. *)
LEMMA BlankType == Blank \in FrameDesc
BY UsageAssumption DEF FrameDesc, Blank

LEMMA ReadingType ==
  ASSUME NEW t \in Page PROVE Reading(t) \in FrameDesc
BY UsageAssumption DEF FrameDesc, Reading

LEMMA PinnedType ==
  ASSUME NEW d \in FrameDesc PROVE Pinned(d) \in FrameDesc
<1>1. ASSUME NEW p \in Nat, NEW w \in 0 .. MaxUsage
      PROVE  [d EXCEPT !.pin = p, !.usage = w] \in FrameDesc
  BY DEF FrameDesc
<1>2. /\ d.pin + 1 \in Nat
      /\ (IF d.usage < MaxUsage THEN d.usage + 1 ELSE d.usage)
           \in 0 .. MaxUsage
  BY UsageAssumption DEF FrameDesc
<1>3. QED BY <1>1, <1>2 DEF Pinned

LEMMA ReleasedType ==
  ASSUME NEW d \in FrameDesc, NEW n \in Nat PROVE Released(d, n) \in FrameDesc
BY DEF FrameDesc, Released

LEMMA AgedType ==
  ASSUME NEW d \in FrameDesc, NEW u \in 0 .. MaxUsage
  PROVE  Aged(d, u) \in FrameDesc
BY DEF FrameDesc, Aged

LEMMA FlagTypes ==
  ASSUME NEW d \in FrameDesc
  PROVE  /\ [d EXCEPT !.dirty = FALSE] \in FrameDesc
         /\ [d EXCEPT !.dirty = TRUE] \in FrameDesc
         /\ [d EXCEPT !.io = FALSE, !.valid = TRUE] \in FrameDesc
BY DEF FrameDesc

(* What they change. *)
LEMMA DescFields ==
  ASSUME NEW d \in FrameDesc, NEW u, NEW n \in Nat
  PROVE  /\ Pinned(d).tag = d.tag /\ Pinned(d).pin = d.pin + 1
         /\ Pinned(d).valid = d.valid /\ Pinned(d).io = d.io
         /\ Aged(d, u).tag = d.tag /\ Aged(d, u).pin = d.pin
         /\ Aged(d, u).valid = d.valid /\ Aged(d, u).io = d.io
         /\ Released(d, n).tag = d.tag
         /\ Released(d, n).valid = d.valid /\ Released(d, n).io = d.io
         /\ n <= d.pin => Released(d, n).pin = d.pin - n
BY DEF FrameDesc, Pinned, Released, Aged

(* A sweep leaves every usage count in range. *)
LEMMA SweepUsage ==
  ASSUME TypeOK, NEW v \in Candidate,
         IsVictim(v, Candidate, Usage, hand, size),
         NEW f \in Slot
  PROVE  UsageAfter(f, v, Candidate, Usage, hand, size) \in 0 .. MaxUsage
<1>1. /\ \A g \in Slot : frames[g].usage \in 0 .. MaxUsage
      /\ v \in Slot
      /\ MaxUsage \in Nat
  BY UsageAssumption DEF TypeOK, FrameDesc, Candidate, Live
<1>2. CASE f \notin Candidate
  BY <1>1, <1>2 DEF UsageAfter, Usage
<1>3. CASE f \in Candidate
  <2>1. /\ Distance(f, hand, size) \in Int
        /\ Distance(v, hand, size) \in Int
    BY <1>1, FramesAssumption DEF TypeOK, Distance, Slot
  <2>2. \/ frames[v].usage < frames[f].usage
        \/ /\ frames[v].usage = frames[f].usage
           /\ Distance(v, hand, size) <= Distance(f, hand, size)
    BY <1>1, <1>3 DEF IsVictim, Usage
  <2>3. QED
    BY <1>1, <1>3, <2>1, <2>2 DEF UsageAfter, Usage
<1>4. QED BY <1>2, <1>3

-------------------------------------------------------------------------------
(* A request that may still pin a frame leaves room for the pin, and a     *)
(* backend past its first request wants a page.                            *)
Room ==
  \A b \in Backend :
    /\ phase[b] \in {"lookup", "victim", "writeback", "swap"}
         => Len(pins[b]) < MaxPins
    /\ phase[b] # "idle" => want[b] \in Page

(* PinContract, and what it rests on: the frame a backend holds for the    *)
(* request in hand carries its tag from the moment it is pinned, and a     *)
(* frame that is waited for is still being read.                           *)
Contract ==
  \A b \in Backend :
    /\ phase[b] = "wait" => buf[b] \in HeldBy(b)
    /\ phase[b] \in {"io", "wait", "done"} /\ buf[b] \in HeldBy(b)
         => frames[buf[b]].tag = want[b]
    /\ phase[b] = "done" /\ buf[b] \in HeldBy(b) => frames[buf[b]].valid
    /\ phase[b] = "wait" => frames[buf[b]].io \/ ~frames[buf[b]].valid

(* Some backend is reading each page that is not there yet. *)
Readers ==
  \A f \in Live :
    frames[f].io \/ (frames[f].tag # NoPage /\ ~frames[f].valid)
      => \E c \in Backend : phase[c] = "io" /\ buf[c] = f

Types == TypeOK /\ Room
IInv  == Types /\ PinsCounted /\ OneFramePerPage /\ Contract /\ Readers

-------------------------------------------------------------------------------
(* The refcount of a frame some backend holds is positive, so no sweep,    *)
(* swap or shrink touches it.                                              *)
LEMMA HoldsFinite == ASSUME NEW f PROVE IsFiniteSet(Holds(f))
<1>1. IsFiniteSet(Backend \X (1 .. MaxPins))
  <2>1. IsFiniteSet(1 .. MaxPins)
    BY PinsAssumption, FS_Interval
  <2>2. QED BY <2>1, BackendAssumption, FS_Product
<1>2. Holds(f) \subseteq Backend \X (1 .. MaxPins)
  BY DEF Holds
<1>3. QED BY <1>1, <1>2, FS_Subset

LEMMA HeldPinned ==
  ASSUME Types, PinsCounted, NEW b \in Backend, NEW f \in HeldBy(b)
  PROVE  /\ f \in Live
         /\ frames[f].pin \in Nat
         /\ frames[f].pin > 0
<1>1. PICK i \in DOMAIN pins[b] : f = pins[b][i]
  BY DEF HeldBy
<1>2. /\ f \in Slot
      /\ i \in 1 .. Len(pins[b])
      /\ Len(pins[b]) \in Nat
      /\ Len(pins[b]) <= MaxPins
  BY <1>1 DEF Types, TypeOK
<1>3. <<b, i>> \in Holds(f)
  BY <1>1, <1>2, PinsAssumption DEF Holds
<1>4. Cardinality(Holds(f)) \in Nat /\ Cardinality(Holds(f)) # 0
  BY <1>3, HoldsFinite, FS_CardinalityType, FS_EmptySet
<1>5. frames[f].pin \in Nat /\ frames[f].pin > 0
  BY <1>2, <1>4 DEF PinsCounted
<1>6. f \in Live
  BY <1>2, <1>5 DEF Types, TypeOK, Blank
<1>7. QED BY <1>5, <1>6

-------------------------------------------------------------------------------
LEMMA InitIInv == Init => IInv
<1> SUFFICES ASSUME Init PROVE IInv
  OBVIOUS
<1>1. Types
  <2>1. /\ size \in MinFrames .. MaxFrames
        /\ hand \in 0 .. size - 1
    BY FramesAssumption DEF Init
  <2>2. frames \in [Slot -> FrameDesc]
    BY BlankType DEF Init
  <2>3. /\ phase \in [Backend -> Phase]
        /\ want \in [Backend -> Page \union {NoPage}]
        /\ buf \in [Backend -> Slot \union {None}]
        /\ victim \in [Backend -> Slot \union {None}]
    BY DEF Init, Phase
  <2>4. /\ pins \in [Backend -> Seq(Slot)]
        /\ \A b \in Backend : Len(pins[b]) <= MaxPins
    BY PinsAssumption DEF Init
  <2>5. \A f \in Slot \ Live : frames[f] = Blank
    BY DEF Init
  <2>6. Room
    BY DEF Init, Room
  <2>7. QED BY <2>1, <2>2, <2>3, <2>4, <2>5, <2>6 DEF Types, TypeOK
<1>2. PinsCounted
  <2>1. ASSUME NEW f \in Slot PROVE Holds(f) = {}
    BY DEF Init, Holds
  <2>2. QED BY <2>1, FS_EmptySet DEF PinsCounted, Init, Blank
<1>3. OneFramePerPage /\ Readers
  BY DEF OneFramePerPage, Readers, Init, Blank, Live
<1>4. Contract
  BY DEF Contract, Init
<1>5. QED BY <1>1, <1>2, <1>3, <1>4 DEF IInv

(* A step that only moves the request of b between lookup, victim,         *)
(* writeback, swap and error.                                              *)
LEMMA QuietStep ==
  ASSUME IInv, NEW b \in Backend,
         UNCHANGED <<size, frames, hand, pins>>,
         NEW p \in {"lookup", "victim", "swap", "error"},
         phase' = [phase EXCEPT ![b] = p],
         phase[b] \notin {"io", "wait"},
         p # "error" => Len(pins[b]) < MaxPins,
         want' \in [Backend -> Page \union {NoPage}],
         buf' \in [Backend -> Slot \union {None}],
         victim' \in [Backend -> Slot \union {None}],
         want'[b] \in Page,
         \A c \in Backend \ {b} : want'[c] = want[c] /\ buf'[c] = buf[c]
  PROVE  IInv'
<1>1. Types'
  <2>1. phase' \in [Backend -> Phase]
    BY DEF IInv, Types, TypeOK, Phase
  <2>2. Room'
    BY DEF IInv, Types, TypeOK, Room
  <2>3. QED BY <2>1, <2>2 DEF IInv, Types, TypeOK, Live
<1>2. PinsCounted'
  BY DEF IInv, PinsCounted, Holds
<1>3. OneFramePerPage'
  BY DEF IInv, OneFramePerPage, Live
<1>4. Contract'
  BY DEF IInv, Types, TypeOK, Contract, HeldBy
<1>5. Readers'
  <2>1. ASSUME NEW c \in Backend, phase[c] = "io"
        PROVE  phase'[c] = "io" /\ buf'[c] = buf[c]
    BY <2>1 DEF IInv, Types, TypeOK
  <2>2. QED BY <2>1 DEF IInv, Readers, Live
<1>6. QED BY <1>1, <1>2, <1>3, <1>4, <1>5 DEF IInv

LEMMA QuietActions ==
  ASSUME IInv, NEW b \in Backend,
         \/ \E t \in Page : Request(b, t)
         \/ LookupMiss(b) \/ TakeFree(b) \/ SweepFails(b) \/ VictimGone(b)
  PROVE  IInv'
<1>1. ASSUME NEW t \in Page, Request(b, t) PROVE IInv'
  <2>1. /\ want' \in [Backend -> Page \union {NoPage}]
        /\ buf' \in [Backend -> Slot \union {None}]
        /\ victim' \in [Backend -> Slot \union {None}]
        /\ want'[b] \in Page
        /\ \A c \in Backend \ {b} : want'[c] = want[c] /\ buf'[c] = buf[c]
    BY <1>1 DEF Request, IInv, Types, TypeOK
  <2>2. /\ UNCHANGED <<size, frames, hand, pins>>
        /\ phase' = [phase EXCEPT ![b] = "lookup"]
        /\ phase[b] \notin {"io", "wait"}
        /\ Len(pins[b]) < MaxPins
    BY <1>1 DEF Request
  <2>3. QED BY <2>1, <2>2, QuietStep
<1>2. CASE LookupMiss(b)
  <2>1. /\ UNCHANGED <<size, frames, hand, pins, want, buf, victim>>
        /\ phase' = [phase EXCEPT ![b] = "victim"]
        /\ phase[b] = "lookup"
    BY <1>2 DEF LookupMiss
  <2>2. Len(pins[b]) < MaxPins /\ want'[b] \in Page
    BY <2>1 DEF IInv, Types, Room
  <2>3. QED BY <2>1, <2>2, QuietStep DEF IInv, Types, TypeOK
<1>3. CASE TakeFree(b)
  <2>1. /\ UNCHANGED <<size, frames, hand, pins, want, buf>>
        /\ phase' = [phase EXCEPT ![b] = "swap"]
        /\ phase[b] = "victim"
        /\ victim' \in [Backend -> Slot \union {None}]
    BY <1>3 DEF TakeFree, IInv, Types, TypeOK, Free, Live
  <2>2. Len(pins[b]) < MaxPins /\ want'[b] \in Page
    BY <2>1 DEF IInv, Types, Room
  <2>3. QED BY <2>1, <2>2, QuietStep DEF IInv, Types, TypeOK
<1>4. CASE SweepFails(b)
  <2>1. /\ UNCHANGED <<size, frames, hand, pins, want, buf, victim>>
        /\ phase' = [phase EXCEPT ![b] = "error"]
        /\ phase[b] = "victim"
    BY <1>4 DEF SweepFails
  <2>2. want'[b] \in Page
    BY <2>1 DEF IInv, Types, Room
  <2>3. QED BY <2>1, <2>2, QuietStep DEF IInv, Types, TypeOK
<1>5. CASE VictimGone(b)
  <2>1. /\ UNCHANGED <<size, frames, hand, pins, want, buf, victim>>
        /\ phase' = [phase EXCEPT ![b] = "victim"]
        /\ phase[b] \in {"writeback", "swap"}
    BY <1>5 DEF VictimGone
  <2>2. Len(pins[b]) < MaxPins /\ want'[b] \in Page
    BY <2>1 DEF IInv, Types, Room
  <2>3. QED BY <2>1, <2>2, QuietStep DEF IInv, Types, TypeOK
<1>6. QED BY <1>1, <1>2, <1>3, <1>4, <1>5

-------------------------------------------------------------------------------
(* Appending a pin to b's list adds one holder to the frame it names. *)
LEMMA PinAppended ==
  ASSUME Types, NEW b \in Backend, NEW f \in Slot,
         Len(pins[b]) < MaxPins,
         pins' = [pins EXCEPT ![b] = Append(@, f)]
  PROVE  /\ pins' \in [Backend -> Seq(Slot)]
         /\ \A c \in Backend : Len(pins'[c]) <= MaxPins
         /\ HeldBy(b)' = HeldBy(b) \union {f}
         /\ \A c \in Backend \ {b} : HeldBy(c)' = HeldBy(c)
         /\ Cardinality(Holds(f)') = Cardinality(Holds(f)) + 1
         /\ \A g \in Slot \ {f} : Holds(g)' = Holds(g)
<1> DEFINE n == Len(pins[b]) + 1
<1>1. /\ pins \in [Backend -> Seq(Slot)]
      /\ Len(pins[b]) \in Nat
      /\ n \in 1 .. MaxPins
      /\ \A c \in Backend : Len(pins[c]) <= MaxPins
  BY PinsAssumption DEF Types, TypeOK
<1>2. /\ pins'[b] \in Seq(Slot)
      /\ Len(pins'[b]) = n
      /\ pins'[b][n] = f
      /\ \A i \in 1 .. Len(pins[b]) : pins'[b][i] = pins[b][i]
      /\ \A c \in Backend \ {b} : pins'[c] = pins[c]
  BY <1>1
<1>3. /\ pins' \in [Backend -> Seq(Slot)]
      /\ \A c \in Backend : Len(pins'[c]) <= MaxPins
  BY <1>1, <1>2, PinsAssumption
<1>4. /\ HeldBy(b)' = HeldBy(b) \union {f}
      /\ \A c \in Backend \ {b} : HeldBy(c)' = HeldBy(c)
  <2>1. DOMAIN pins[b] = 1 .. Len(pins[b]) /\ DOMAIN pins'[b] = 1 .. n
    BY <1>1, <1>2
  <2>2. n \in DOMAIN pins'[b] /\ DOMAIN pins'[b] = DOMAIN pins[b] \union {n}
    BY <2>1, <1>1
  <2>3. QED BY <1>2, <2>1, <2>2 DEF HeldBy
<1>5. ASSUME NEW h \in Backend \X (1 .. MaxPins), NEW g
      PROVE  h \in Holds(g)' <=> h \in Holds(g) \/ (g = f /\ h = <<b, n>>)
  <2>1. CASE h[1] # b
    BY <1>2, <2>1 DEF Holds
  <2>2. CASE h[1] = b /\ h[2] = n
    <3>1. h = <<b, n>>
      BY <2>2
    <3>2. QED BY <1>1, <1>2, <2>2, <3>1 DEF Holds
  <2>3. CASE h[1] = b /\ h[2] # n
    <3>1. h[2] \in 1 .. MaxPins /\ (h[2] <= n <=> h[2] <= Len(pins[b]))
      BY <1>1, <2>3, PinsAssumption
    <3>2. QED BY <1>1, <1>2, <2>3, <3>1 DEF Holds
  <2>4. QED BY <2>1, <2>2, <2>3
<1>6. \A g : /\ Holds(g) \subseteq Backend \X (1 .. MaxPins)
             /\ Holds(g)' \subseteq Backend \X (1 .. MaxPins)
  BY DEF Holds
<1>7. <<b, n>> \in Backend \X (1 .. MaxPins) /\ <<b, n>> \notin Holds(f)
  BY <1>1 DEF Holds
<1>8. Holds(f)' = Holds(f) \union {<<b, n>>}
  BY <1>5, <1>6, <1>7
<1>9. Cardinality(Holds(f)') = Cardinality(Holds(f)) + 1
  BY <1>7, <1>8, HoldsFinite, FS_AddElement
<1>10. ASSUME NEW g \in Slot \ {f} PROVE Holds(g)' = Holds(g)
  <2>1. \A h \in Backend \X (1 .. MaxPins) : h \in Holds(g)' <=> h \in Holds(g)
    BY <1>5
  <2>2. QED BY <2>1, <1>6
<1>11. QED BY <1>3, <1>4, <1>9, <1>10

(* A frame that already carries the tag is pinned. *)
LEMMA PinFoundStep ==
  ASSUME IInv, NEW b \in Backend, NEW f \in Live, PinFound(b, f),
         phase[b] \in {"lookup", "swap"},
         frames[f].tag = want[b],
         victim' \in [Backend -> Slot \union {None}],
         UNCHANGED <<size, hand, want>>
  PROVE  IInv'
<1>1. /\ f \in Slot
      /\ frames[f] \in FrameDesc
      /\ frames[f].pin \in Nat
      /\ Len(pins[b]) < MaxPins
      /\ pins' = [pins EXCEPT ![b] = Append(@, f)]
  BY DEF Live, IInv, Types, TypeOK, Room, PinFound, FrameDesc
<1>2. /\ pins' \in [Backend -> Seq(Slot)]
      /\ \A c \in Backend : Len(pins'[c]) <= MaxPins
      /\ HeldBy(b)' = HeldBy(b) \union {f}
      /\ \A c \in Backend \ {b} : HeldBy(c)' = HeldBy(c)
      /\ Cardinality(Holds(f)') = Cardinality(Holds(f)) + 1
      /\ \A g \in Slot \ {f} : Holds(g)' = Holds(g)
  BY <1>1, PinAppended DEF IInv
<1>3. /\ frames' \in [Slot -> FrameDesc]
      /\ frames'[f].pin = frames[f].pin + 1
      /\ \A g \in Slot \ {f} : frames'[g] = frames[g]
      /\ \A g \in Slot : /\ frames'[g].tag = frames[g].tag
                         /\ frames'[g].io = frames[g].io
                         /\ frames'[g].valid = frames[g].valid
  <2>1. /\ Pinned(frames[f]) \in FrameDesc
        /\ Pinned(frames[f]).pin = frames[f].pin + 1
        /\ Pinned(frames[f]).tag = frames[f].tag
        /\ Pinned(frames[f]).io = frames[f].io
        /\ Pinned(frames[f]).valid = frames[f].valid
    BY <1>1, PinnedType, DescFields, 0 \in Nat
  <2>2. frames' = [frames EXCEPT ![f] = Pinned(frames[f])]
    BY DEF PinFound
  <2>3. QED BY <1>1, <2>1, <2>2 DEF IInv, Types, TypeOK
<1>4. /\ phase' \in [Backend -> Phase]
      /\ buf' \in [Backend -> Slot \union {None}]
      /\ phase'[b] = IF frames[f].io \/ ~frames[f].valid
                     THEN "wait" ELSE "done"
      /\ buf'[b] = f
      /\ \A c \in Backend \ {b} : phase'[c] = phase[c] /\ buf'[c] = buf[c]
  BY <1>1 DEF PinFound, IInv, Types, TypeOK, Phase
<1>5. Types'
  <2>1. \A g \in Slot \ Live' : frames'[g] = Blank
    BY <1>3 DEF IInv, Types, TypeOK, Live
  <2>2. Room'
    BY <1>1, <1>4 DEF IInv, Types, Room, PinFound
  <2>3. QED BY <1>2, <1>3, <1>4, <2>1, <2>2 DEF IInv, Types, TypeOK
<1>6. PinsCounted'
  BY <1>1, <1>2, <1>3 DEF IInv, PinsCounted
<1>7. OneFramePerPage'
  BY <1>3 DEF IInv, OneFramePerPage, Live
<1>8. Contract'
  <2>1. ASSUME NEW c \in Backend \ {b}
        PROVE  buf[c] \in HeldBy(c) => buf[c] \in Slot
    BY HeldPinned DEF IInv, Live
  <2>2. QED BY <1>1, <1>2, <1>3, <1>4, <2>1 DEF IInv, Contract
<1>9. Readers'
  BY <1>3, <1>4 DEF IInv, Readers, Live
<1>10. QED BY <1>5, <1>6, <1>7, <1>8, <1>9 DEF IInv

LEMMA PinActions ==
  ASSUME IInv, NEW b \in Backend, LookupHit(b) \/ SwapLosesRace(b)
  PROVE  IInv'
<1>1. CASE LookupHit(b)
  <2>1. PICK f \in Live : First(f, Tagged(want[b])) /\ PinFound(b, f)
    BY <1>1 DEF LookupHit
  <2>2. /\ phase[b] = "lookup"
        /\ UNCHANGED <<size, hand, want, victim>>
        /\ victim' \in [Backend -> Slot \union {None}]
    BY <1>1 DEF LookupHit, IInv, Types, TypeOK
  <2>3. frames[f].tag = want[b]
    BY <2>1 DEF First, Tagged
  <2>4. QED BY <2>1, <2>2, <2>3, PinFoundStep
<1>2. CASE SwapLosesRace(b)
  <2>1. PICK f \in RacedBy(b) : First(f, RacedBy(b)) /\ PinFound(b, f)
    BY <1>2 DEF SwapLosesRace
  <2>2. /\ phase[b] = "swap"
        /\ UNCHANGED <<size, hand, want>>
        /\ victim' \in [Backend -> Slot \union {None}]
    BY <1>2 DEF SwapLosesRace, VictimReady, IInv, Types, TypeOK
  <2>3. f \in Live /\ frames[f].tag = want[b]
    BY <2>1 DEF RacedBy, Tagged
  <2>4. QED BY <2>1, <2>2, <2>3, PinFoundStep
<1>3. QED BY <1>1, <1>2

(* The victim nobody holds is given the new tag and its first pin. *)
LEMMA SwapTagStep ==
  ASSUME IInv, NEW b \in Backend, SwapTag(b) PROVE IInv'
<1> DEFINE v == victim[b]
<1>1. /\ v \in Live /\ v \in Slot
      /\ frames[v].pin = 0
      /\ phase[b] = "swap"
      /\ want[b] \in Page
      /\ Len(pins[b]) < MaxPins
      /\ pins' = [pins EXCEPT ![b] = Append(@, v)]
      /\ UNCHANGED <<size, hand, want, victim>>
  BY DEF SwapTag, VictimReady, Live, IInv, Types, Room
<1>2. /\ pins' \in [Backend -> Seq(Slot)]
      /\ \A c \in Backend : Len(pins'[c]) <= MaxPins
      /\ HeldBy(b)' = HeldBy(b) \union {v}
      /\ \A c \in Backend \ {b} : HeldBy(c)' = HeldBy(c)
      /\ Cardinality(Holds(v)') = Cardinality(Holds(v)) + 1
      /\ \A g \in Slot \ {v} : Holds(g)' = Holds(g)
  BY <1>1, PinAppended DEF IInv
<1>3. /\ frames' \in [Slot -> FrameDesc]
      /\ frames'[v] = Reading(want[b])
      /\ \A g \in Slot \ {v} : frames'[g] = frames[g]
  BY <1>1, ReadingType DEF SwapTag, IInv, Types, TypeOK
<1>4. /\ phase' \in [Backend -> Phase]
      /\ buf' \in [Backend -> Slot \union {None}]
      /\ phase'[b] = "io" /\ buf'[b] = v
      /\ \A c \in Backend \ {b} : phase'[c] = phase[c] /\ buf'[c] = buf[c]
  BY <1>1 DEF SwapTag, IInv, Types, TypeOK, Phase
<1>5. Types'
  <2>1. \A g \in Slot \ Live' : frames'[g] = Blank
    BY <1>1, <1>3 DEF IInv, Types, TypeOK, Live
  <2>2. Room'
    BY <1>1, <1>4 DEF IInv, Types, Room, SwapTag
  <2>3. QED BY <1>1, <1>2, <1>3, <1>4, <2>1, <2>2 DEF IInv, Types, TypeOK
<1>6. PinsCounted'
  <2>1. frames'[v].pin = frames[v].pin + 1
    BY <1>1, <1>3 DEF Reading
  <2>2. QED BY <1>1, <1>2, <1>3, <2>1 DEF IInv, PinsCounted
<1>7. OneFramePerPage'
  <2>1. \A g \in Live \ {v} : frames[g].tag # want[b]
    BY DEF SwapTag, RacedBy, Tagged
  <2>2. QED
    BY <1>1, <1>3, <2>1 DEF IInv, OneFramePerPage, Live, Reading
<1>8. Contract'
  <2>1. ASSUME NEW c \in Backend, buf[c] \in HeldBy(c)
        PROVE  buf[c] \in Slot \ {v}
    BY <1>1, <2>1, HeldPinned DEF IInv, Live
  <2>2. /\ frames'[v].tag = want[b]
        /\ want' = want
    BY <1>1, <1>3 DEF Reading
  <2>3. ASSUME NEW c \in Backend \ {b}
        PROVE  /\ phase'[c] = "wait" => buf'[c] \in HeldBy(c)'
               /\ phase'[c] \in {"io", "wait", "done"}
                    /\ buf'[c] \in HeldBy(c)'
                    => frames'[buf'[c]].tag = want'[c]
               /\ phase'[c] = "done" /\ buf'[c] \in HeldBy(c)'
                    => frames'[buf'[c]].valid
               /\ phase'[c] = "wait"
                    => frames'[buf'[c]].io \/ ~frames'[buf'[c]].valid
    <3>1. /\ phase'[c] = phase[c] /\ buf'[c] = buf[c] /\ want'[c] = want[c]
          /\ HeldBy(c)' = HeldBy(c)
      BY <1>2, <1>4, <2>2
    <3>2. buf[c] \in HeldBy(c) => frames'[buf[c]] = frames[buf[c]]
      BY <1>3, <2>1
    <3>3. QED BY <3>1, <3>2 DEF IInv, Contract
  <2>4. QED BY <1>2, <1>4, <2>2, <2>3 DEF Contract
<1>9. Readers'
  BY <1>1, <1>3, <1>4 DEF IInv, Readers, Live
<1>10. QED BY <1>5, <1>6, <1>7, <1>8, <1>9 DEF IInv

-------------------------------------------------------------------------------
(* A step that touches only usage counts and dirty bits. *)
LEMMA FlagStep ==
  ASSUME IInv,
         UNCHANGED <<size, want, buf, pins>>,
         hand' \in 0 .. size - 1,
         frames' \in [Slot -> FrameDesc],
         \A g \in Slot : /\ frames'[g].tag = frames[g].tag
                         /\ frames'[g].pin = frames[g].pin
                         /\ frames'[g].io = frames[g].io
                         /\ frames'[g].valid = frames[g].valid,
         \A g \in Slot \ Live : frames'[g] = frames[g],
         victim' \in [Backend -> Slot \union {None}],
         phase' \in [Backend -> Phase],
         \A c \in Backend :
            \/ phase'[c] = phase[c]
            \/ /\ phase[c] \in {"victim", "writeback"}
               /\ phase'[c] \in {"writeback", "swap"}
  PROVE  IInv'
<1>1. Types'
  BY DEF IInv, Types, TypeOK, Room, Live
<1>2. PinsCounted'
  <2>1. \A g : Holds(g)' = Holds(g)
    BY DEF Holds
  <2>2. QED BY <2>1 DEF IInv, PinsCounted
<1>3. OneFramePerPage'
  BY DEF IInv, OneFramePerPage, Live
<1>4. Contract'
  <2>1. ASSUME NEW c \in Backend, buf[c] \in HeldBy(c)
        PROVE  buf[c] \in Slot
    BY <2>1, HeldPinned DEF IInv, Live
  <2>2. QED BY <2>1 DEF IInv, Contract, HeldBy
<1>5. Readers'
  BY DEF IInv, Readers, Live
<1>6. QED BY <1>1, <1>2, <1>3, <1>4, <1>5 DEF IInv

LEMMA SweepStep ==
  ASSUME IInv, NEW b \in Backend, Sweep(b) PROVE IInv'
<1>1. PICK v \in Candidate :
        /\ IsVictim(v, Candidate, Usage, hand, size)
        /\ frames' = [f \in Slot |-> Aged(frames[f],
                         UsageAfter(f, v, Candidate, Usage, hand, size))]
        /\ hand'   = HandAfter(v, size)
        /\ victim' = [victim EXCEPT ![b] = v]
        /\ phase'  = [phase EXCEPT ![b] =
                        IF frames[v].dirty THEN "writeback" ELSE "swap"]
  BY DEF Sweep
<1>2. /\ phase[b] = "victim"
      /\ UNCHANGED <<size, want, buf, pins>>
      /\ v \in Slot /\ v < size
  BY DEF Sweep, Candidate, Live
<1>3. hand' \in 0 .. size - 1
  BY <1>1, <1>2, FramesAssumption
     DEF HandAfter, Slot, IInv, Types, TypeOK
<1>4. ASSUME NEW g \in Slot
      PROVE  /\ frames'[g] \in FrameDesc
             /\ frames'[g].tag = frames[g].tag
             /\ frames'[g].pin = frames[g].pin
             /\ frames'[g].io = frames[g].io
             /\ frames'[g].valid = frames[g].valid
  <2> DEFINE u == UsageAfter(g, v, Candidate, Usage, hand, size)
  <2>1. frames[g] \in FrameDesc /\ frames'[g] = Aged(frames[g], u)
    BY <1>1 DEF IInv, Types, TypeOK
  <2>2. u \in 0 .. MaxUsage
    BY <1>1, SweepUsage DEF IInv, Types
  <2>3. Aged(frames[g], u) \in FrameDesc
    BY <2>1, <2>2, AgedType
  <2>4. QED BY <2>1, <2>3, DescFields, 0 \in Nat
<1>5. ASSUME NEW g \in Slot \ Live PROVE frames'[g] = frames[g]
  <2>1. g \notin Candidate /\ frames[g] = Blank
    BY DEF Candidate, IInv, Types, TypeOK
  <2>2. UsageAfter(g, v, Candidate, Usage, hand, size) = 0
    BY <2>1 DEF UsageAfter, Usage, Blank
  <2>3. QED BY <1>1, <2>1, <2>2 DEF Aged, Blank
<1>6. frames' \in [Slot -> FrameDesc]
  BY <1>1, <1>4
<1>7. /\ victim' \in [Backend -> Slot \union {None}]
      /\ phase' \in [Backend -> Phase]
      /\ \A c \in Backend : \/ phase'[c] = phase[c]
                            \/ /\ phase[c] \in {"victim", "writeback"}
                               /\ phase'[c] \in {"writeback", "swap"}
  BY <1>1, <1>2 DEF IInv, Types, TypeOK, Phase
<1>8. QED BY <1>2, <1>3, <1>4, <1>5, <1>6, <1>7, FlagStep

LEMMA DirtyBitStep ==
  ASSUME IInv, NEW b \in Backend, WriteBack(b) \/ MarkDirty(b) PROVE IInv'
<1>1. CASE WriteBack(b)
  <2>1. /\ victim[b] \in Live /\ victim[b] \in Slot
        /\ phase[b] = "writeback"
        /\ UNCHANGED <<size, hand, want, buf, victim, pins>>
    BY <1>1 DEF WriteBack, Live
  <2>2. /\ frames' \in [Slot -> FrameDesc]
        /\ \A g \in Slot \ Live : frames'[g] = frames[g]
    BY <1>1, <2>1, FlagTypes DEF WriteBack, IInv, Types, TypeOK
  <2>3. \A g \in Slot : /\ frames'[g].tag = frames[g].tag
                        /\ frames'[g].pin = frames[g].pin
                        /\ frames'[g].io = frames[g].io
                        /\ frames'[g].valid = frames[g].valid
    BY <1>1, <2>1 DEF WriteBack, IInv, Types, TypeOK, FrameDesc
  <2>4. /\ phase' \in [Backend -> Phase]
        /\ \A c \in Backend : \/ phase'[c] = phase[c]
                              \/ /\ phase[c] \in {"victim", "writeback"}
                                 /\ phase'[c] \in {"writeback", "swap"}
    BY <1>1, <2>1 DEF WriteBack, IInv, Types, TypeOK, Phase
  <2>5. /\ hand' \in 0 .. size - 1
        /\ victim' \in [Backend -> Slot \union {None}]
    BY <2>1 DEF IInv, Types, TypeOK
  <2>6. QED BY <2>1, <2>2, <2>3, <2>4, <2>5, FlagStep
<1>2. CASE MarkDirty(b)
  <2> DEFINE f == pins[b][Len(pins[b])]
  <2>1. /\ UNCHANGED <<size, hand, phase, want, buf, victim, pins>>
        /\ frames' = [frames EXCEPT ![f] = [@ EXCEPT !.dirty = TRUE]]
        /\ pins[b] # <<>>
    BY <1>2 DEF MarkDirty
  <2>2. f \in HeldBy(b)
    BY <2>1 DEF HeldBy, IInv, Types, TypeOK
  <2>3. f \in Live /\ f \in Slot
    BY <2>2, HeldPinned DEF IInv, Live
  <2>4. /\ frames' \in [Slot -> FrameDesc]
        /\ \A g \in Slot \ Live : frames'[g] = frames[g]
    BY <2>1, <2>3, FlagTypes DEF IInv, Types, TypeOK
  <2>5. \A g \in Slot : /\ frames'[g].tag = frames[g].tag
                        /\ frames'[g].pin = frames[g].pin
                        /\ frames'[g].io = frames[g].io
                        /\ frames'[g].valid = frames[g].valid
    BY <2>1, <2>3 DEF IInv, Types, TypeOK, FrameDesc
  <2>6. /\ hand' \in 0 .. size - 1
        /\ phase' \in [Backend -> Phase]
        /\ \A c \in Backend : phase'[c] = phase[c]
        /\ victim' \in [Backend -> Slot \union {None}]
    BY <2>1 DEF IInv, Types, TypeOK
  <2>7. QED BY <2>1, <2>4, <2>5, <2>6, FlagStep
<1>3. QED BY <1>1, <1>2

-------------------------------------------------------------------------------
(* The page arrives: the reader and everyone who waits on the frame hold a *)
(* valid page.                                                             *)
LEMMA ReadDoneStep ==
  ASSUME IInv, NEW b \in Backend, ReadDone(b) PROVE IInv'
<1> DEFINE f == buf[b]
<1>1. /\ f \in Live /\ f \in Slot
      /\ phase[b] = "io"
      /\ UNCHANGED <<size, hand, want, buf, victim, pins>>
  BY DEF ReadDone, Live
<1>2. /\ frames' \in [Slot -> FrameDesc]
      /\ frames'[f].valid = TRUE /\ frames'[f].io = FALSE
      /\ \A g \in Slot : /\ frames'[g].tag = frames[g].tag
                         /\ frames'[g].pin = frames[g].pin
      /\ \A g \in Slot \ {f} : frames'[g] = frames[g]
  <2>1. frames' = [frames EXCEPT ![f] =
                     [frames[f] EXCEPT !.io = FALSE, !.valid = TRUE]]
    BY DEF ReadDone
  <2>2. frames[f] \in FrameDesc
    BY <1>1 DEF IInv, Types, TypeOK
  <2>3. [frames[f] EXCEPT !.io = FALSE, !.valid = TRUE] \in FrameDesc
    BY <2>2, FlagTypes
  <2>4. frames \in [Slot -> FrameDesc]
    BY DEF IInv, Types, TypeOK
  <2>5. /\ frames' \in [Slot -> FrameDesc]
        /\ \A g \in Slot \ {f} : frames'[g] = frames[g]
    BY <1>1, <2>1, <2>3, <2>4
  <2>6. /\ frames'[f].valid = TRUE /\ frames'[f].io = FALSE
        /\ frames'[f].tag = frames[f].tag
        /\ frames'[f].pin = frames[f].pin
    BY <1>1, <2>1, <2>2, <2>4 DEF FrameDesc
  <2>7. QED BY <2>5, <2>6
<1>3. \A c \in Backend :
        phase'[c] = IF c = b \/ (phase[c] = "wait" /\ buf[c] = f)
                    THEN "done" ELSE phase[c]
  BY DEF ReadDone
<1>4. Types'
  <2>1. phase' \in [Backend -> Phase]
    BY DEF ReadDone, IInv, Types, TypeOK, Phase
  <2>2. Room'
    BY <1>1, <1>3 DEF IInv, Types, Room
  <2>3. \A g \in Slot \ Live' : frames'[g] = Blank
    BY <1>1, <1>2 DEF IInv, Types, TypeOK, Live
  <2>4. QED BY <1>1, <1>2, <2>1, <2>2, <2>3 DEF IInv, Types, TypeOK
<1>5. PinsCounted'
  <2>1. \A g : Holds(g)' = Holds(g)
    BY <1>1 DEF Holds
  <2>2. QED BY <1>2, <2>1 DEF IInv, PinsCounted
<1>6. OneFramePerPage'
  BY <1>1, <1>2 DEF IInv, OneFramePerPage, Live
<1>7. Contract'
  <2>1. ASSUME NEW c \in Backend
        PROVE  /\ HeldBy(c)' = HeldBy(c)
               /\ buf[c] \in HeldBy(c) => buf[c] \in Slot
    BY <1>1, HeldPinned DEF HeldBy, IInv, Live
  <2>2. QED BY <1>1, <1>2, <1>3, <2>1 DEF IInv, Contract
<1>8. Readers'
  BY <1>1, <1>2, <1>3 DEF IInv, Readers, Live
<1>9. QED BY <1>4, <1>5, <1>6, <1>7, <1>8 DEF IInv

-------------------------------------------------------------------------------
(* A backend gives back some of its pins. *)
LEMMA ReleaseStep ==
  ASSUME IInv, NEW b \in Backend, NEW left, BackToIdle(b, left),
         phase[b] # "wait",
         UNCHANGED <<size, hand, want, victim>>,
         pins' \in [Backend -> Seq(Slot)],
         \A c \in Backend : Len(pins'[c]) <= Len(pins[c]),
         HeldBy(b)' \subseteq HeldBy(b),
         \A c \in Backend \ {b} : HeldBy(c)' = HeldBy(c),
         frames' \in [Slot -> FrameDesc],
         \A g \in Slot : /\ frames'[g].tag = frames[g].tag
                         /\ frames'[g].io = frames[g].io
                         /\ frames'[g].valid = frames[g].valid
                         /\ frames'[g].pin = Cardinality(Holds(g)'),
         \A g \in Slot \ Live : frames'[g] = frames[g]
  PROVE  IInv'
<1>1. /\ phase' \in [Backend -> Phase]
      /\ buf' \in [Backend -> Slot \union {None}]
      /\ \A c \in Backend \ {b} : phase'[c] = phase[c] /\ buf'[c] = buf[c]
      /\ \/ phase'[b] = phase[b] /\ buf'[b] = buf[b]
         \/ phase[b] = "done" /\ phase'[b] = "idle"
  BY DEF BackToIdle, IInv, Types, TypeOK, Phase
<1>2. Types'
  <2>1. \A c \in Backend : Len(pins'[c]) \in Nat /\ Len(pins[c]) \in Nat
    BY DEF IInv, Types, TypeOK
  <2>2. \A c \in Backend : Len(pins'[c]) <= MaxPins
    BY <2>1, PinsAssumption DEF IInv, Types, TypeOK
  <2>3. Room'
    <3>1. \A c \in Backend : phase'[c] # "idle" => phase'[c] = phase[c]
      BY <1>1
    <3>2. QED BY <2>1, <3>1, PinsAssumption DEF IInv, Types, Room
  <2>4. \A g \in Slot \ Live' : frames'[g] = Blank
    BY DEF IInv, Types, TypeOK, Live
  <2>5. QED BY <1>1, <2>2, <2>3, <2>4 DEF IInv, Types, TypeOK
<1>3. PinsCounted'
  BY DEF PinsCounted
<1>4. OneFramePerPage'
  BY DEF IInv, OneFramePerPage, Live
<1>5. Contract'
  <2>1. ASSUME NEW c \in Backend, buf[c] \in HeldBy(c)
        PROVE  buf[c] \in Slot
    BY <2>1, HeldPinned DEF IInv, Live
  <2>2. ASSUME NEW c \in Backend
        PROVE  /\ HeldBy(c)' \subseteq HeldBy(c)
               /\ phase'[c] = "wait" => HeldBy(c)' = HeldBy(c)
               /\ phase'[c] # "idle" => phase'[c] = phase[c] /\ buf'[c] = buf[c]
    <3>1. CASE c = b
      BY <1>1, <3>1
    <3>2. CASE c # b
      BY <1>1, <3>2
    <3>3. QED BY <3>1, <3>2
  <2>3. ASSUME NEW c \in Backend, phase'[c] # "idle"
        PROVE  /\ phase'[c] = "wait" => buf'[c] \in HeldBy(c)'
               /\ phase'[c] \in {"io", "wait", "done"}
                    /\ buf'[c] \in HeldBy(c)'
                    => frames'[buf'[c]].tag = want'[c]
               /\ phase'[c] = "done" /\ buf'[c] \in HeldBy(c)'
                    => frames'[buf'[c]].valid
               /\ phase'[c] = "wait"
                    => frames'[buf'[c]].io \/ ~frames'[buf'[c]].valid
    BY <2>1, <2>2, <2>3 DEF IInv, Contract
  <2>4. QED BY <2>3 DEF Contract
<1>6. Readers'
  <2>1. \A c \in Backend :
          phase[c] = "io" => phase'[c] = "io" /\ buf'[c] = buf[c]
    BY <1>1
  <2>2. QED BY <2>1 DEF IInv, Readers, Live
<1>7. QED BY <1>2, <1>3, <1>4, <1>5, <1>6 DEF IInv

LEMMA ReleasedFrame ==
  ASSUME IInv, NEW g \in Slot, NEW n \in Nat, n <= frames[g].pin
  PROVE  /\ Released(frames[g], n) \in FrameDesc
         /\ Released(frames[g], n).tag = frames[g].tag
         /\ Released(frames[g], n).io = frames[g].io
         /\ Released(frames[g], n).valid = frames[g].valid
         /\ Released(frames[g], n).pin = Cardinality(Holds(g)) - n
         /\ frames[g].pin = Cardinality(Holds(g))
<1>1. frames[g] \in FrameDesc /\ frames[g].pin = Cardinality(Holds(g))
  BY DEF IInv, Types, TypeOK, PinsCounted
<1>2. Released(frames[g], n) \in FrameDesc
  BY <1>1, ReleasedType
<1>3. /\ Released(frames[g], n).tag = frames[g].tag
      /\ Released(frames[g], n).io = frames[g].io
      /\ Released(frames[g], n).valid = frames[g].valid
      /\ Released(frames[g], n).pin = frames[g].pin - n
  BY <1>1, DescFields
<1>4. QED BY <1>1, <1>2, <1>3

(* What is left of a list once its last element is dropped. *)
LEMMA FrontOf ==
  ASSUME NEW S, NEW s \in Seq(S), s # <<>>
  PROVE  /\ Len(s) \in Nat /\ Len(s) >= 1 /\ Len(s) \in DOMAIN s
         /\ SubSeq(s, 1, Len(s) - 1) \in Seq(S)
         /\ Len(SubSeq(s, 1, Len(s) - 1)) = Len(s) - 1
         /\ \A i \in 1 .. Len(s) - 1 : SubSeq(s, 1, Len(s) - 1)[i] = s[i]
<1>1. /\ Len(s) \in Nat /\ Len(s) >= 1 /\ Len(s) \in DOMAIN s
      /\ \A i \in 1 .. Len(s) - 1 : s[i] \in S
  OBVIOUS
<1>2. ASSUME NEW k \in Int, \A i \in 1 .. k : s[i] \in S, k >= 0
      PROVE  /\ SubSeq(s, 1, k) \in Seq(S)
             /\ Len(SubSeq(s, 1, k)) = k
             /\ \A i \in 1 .. k : SubSeq(s, 1, k)[i] = s[i]
  <2>1. /\ SubSeq(s, 1, k) \in Seq(S)
        /\ Len(SubSeq(s, 1, k)) = IF 1 <= k THEN k - 1 + 1 ELSE 0
        /\ \A i \in 1 .. k - 1 + 1 : SubSeq(s, 1, k)[i] = s[1 + i - 1]
    BY <1>2, 1 \in Int, SubSeqProperties
  <2>2. QED BY <1>2, <2>1
<1>3. Len(s) - 1 \in Int /\ Len(s) - 1 >= 0
  BY <1>1
<1>4. QED BY <1>1, <1>2, <1>3

LEMMA UnpinLastStep ==
  ASSUME IInv, NEW b \in Backend, UnpinLast(b) PROVE IInv'
<1>0. pins[b] \in Seq(Slot) /\ pins[b] # <<>>
  BY DEF UnpinLast, IInv, Types, TypeOK
<1>a. PICK n \in Nat, f \in Slot, left \in Seq(Slot) :
        /\ n = Len(pins[b])
        /\ f = pins[b][n]
        /\ left = SubSeq(pins[b], 1, n - 1)
  <2>1. /\ Len(pins[b]) \in Nat
        /\ Len(pins[b]) \in DOMAIN pins[b]
        /\ SubSeq(pins[b], 1, Len(pins[b]) - 1) \in Seq(Slot)
    BY <1>0, FrontOf
  <2>2. pins[b][Len(pins[b])] \in Slot
    BY <1>0, <2>1
  <2>3. QED BY <2>1, <2>2
<1>1. /\ phase[b] # "wait"
      /\ pins[b] # <<>>
      /\ frames' = [frames EXCEPT ![f] = Released(@, 1)]
      /\ pins' = [pins EXCEPT ![b] = left]
      /\ BackToIdle(b, left)
      /\ UNCHANGED <<size, hand, want, victim>>
  BY <1>a DEF UnpinLast
<1>2. /\ pins \in [Backend -> Seq(Slot)]
      /\ n \in Nat /\ n >= 1 /\ n <= MaxPins
      /\ n \in DOMAIN pins[b]
      /\ left \in Seq(Slot) /\ Len(left) = n - 1
      /\ \A i \in 1 .. n - 1 : left[i] = pins[b][i]
  <2>1. pins \in [Backend -> Seq(Slot)] /\ n <= MaxPins
    BY <1>a DEF IInv, Types, TypeOK
  <2>2. QED BY <1>0, <1>a, <2>1, FrontOf
<1>3. f \in HeldBy(b) /\ f \in Live /\ f \in Slot /\ frames[f].pin \in Nat
      /\ 1 <= frames[f].pin
  <2>1. f \in HeldBy(b)
    BY <1>2, <1>a DEF HeldBy
  <2>2. QED BY <2>1, HeldPinned DEF IInv, Live
<1>4. /\ pins' \in [Backend -> Seq(Slot)]
      /\ pins'[b] = left
      /\ \A c \in Backend \ {b} : pins'[c] = pins[c]
  BY <1>1, <1>2
<1>5. ASSUME NEW c \in Backend PROVE Len(pins'[c]) <= Len(pins[c])
  <2>1. CASE c = b
    BY <1>2, <1>4, <1>a, <2>1
  <2>2. CASE c # b
    <3>1. Len(pins[c]) \in Nat /\ pins'[c] = pins[c]
      BY <1>2, <1>4, <2>2
    <3>2. QED BY <3>1
  <2>3. QED BY <2>1, <2>2
<1>6. /\ HeldBy(b)' \subseteq HeldBy(b)
      /\ \A c \in Backend \ {b} : HeldBy(c)' = HeldBy(c)
  <2>1. DOMAIN pins'[b] = 1 .. n - 1 /\ DOMAIN pins[b] = 1 .. n
    BY <1>2, <1>4, <1>a
  <2>2. 1 .. n - 1 \subseteq 1 .. n
    BY <1>2
  <2>3. QED BY <1>2, <1>4, <2>1, <2>2 DEF HeldBy
<1>7. ASSUME NEW h \in Backend \X (1 .. MaxPins), NEW g
      PROVE  h \in Holds(g)' <=> h \in Holds(g) /\ h # <<b, n>>
  <2>1. CASE h[1] # b
    BY <1>4, <2>1 DEF Holds
  <2>2. CASE h[1] = b /\ h[2] = n
    BY <1>2, <1>4, <1>a, <2>2 DEF Holds
  <2>3. CASE h[1] = b /\ h[2] # n
    <3>1. h[2] \in 1 .. MaxPins /\ (h[2] <= n <=> h[2] <= n - 1)
      BY <1>2, <2>3, PinsAssumption
    <3>2. h[2] <= n - 1 => left[h[2]] = pins[b][h[2]]
      BY <1>2, <3>1
    <3>3. h # <<b, n>>
      BY <2>3
    <3>4. QED BY <1>2, <1>4, <1>a, <2>3, <3>1, <3>2, <3>3 DEF Holds
  <2>4. QED BY <2>1, <2>2, <2>3
<1>8. ASSUME NEW g PROVE Holds(g)' = Holds(g) \ {<<b, n>>}
  <2>1. /\ Holds(g) \subseteq Backend \X (1 .. MaxPins)
        /\ Holds(g)' \subseteq Backend \X (1 .. MaxPins)
    BY DEF Holds
  <2>2. QED BY <1>7, <2>1
<1>9. /\ <<b, n>> \in Holds(f)
      /\ \A g : g # f => <<b, n>> \notin Holds(g)
  BY <1>2, <1>a, PinsAssumption DEF Holds
<1>10. Cardinality(Holds(f)') = Cardinality(Holds(f)) - 1
  <2>1. Holds(f)' = Holds(f) \ {<<b, n>>} /\ <<b, n>> \in Holds(f)
    BY <1>8, <1>9
  <2>2. IsFiniteSet(Holds(f))
    BY HoldsFinite
  <2>3. QED BY <2>1, <2>2, FS_RemoveElement
<1>11. \A g \in Slot \ {f} : Holds(g)' = Holds(g)
  BY <1>8, <1>9
<1>12. /\ frames' \in [Slot -> FrameDesc]
       /\ \A g \in Slot : /\ frames'[g].tag = frames[g].tag
                          /\ frames'[g].io = frames[g].io
                          /\ frames'[g].valid = frames[g].valid
                          /\ frames'[g].pin = Cardinality(Holds(g)')
       /\ \A g \in Slot \ Live : frames'[g] = frames[g]
  <2>1. /\ Released(frames[f], 1) \in FrameDesc
        /\ Released(frames[f], 1).tag = frames[f].tag
        /\ Released(frames[f], 1).io = frames[f].io
        /\ Released(frames[f], 1).valid = frames[f].valid
        /\ Released(frames[f], 1).pin = Cardinality(Holds(f)) - 1
    BY <1>3, 1 \in Nat, ReleasedFrame
  <2>2. frames \in [Slot -> FrameDesc] /\ PinsCounted
    BY DEF IInv, Types, TypeOK
  <2>3. /\ frames' \in [Slot -> FrameDesc]
        /\ frames'[f] = Released(frames[f], 1)
        /\ \A g \in Slot \ {f} : frames'[g] = frames[g]
    BY <1>1, <1>3, <2>1, <2>2
  <2>4. ASSUME NEW g \in Slot
        PROVE  /\ frames'[g].tag = frames[g].tag
               /\ frames'[g].io = frames[g].io
               /\ frames'[g].valid = frames[g].valid
               /\ frames'[g].pin = Cardinality(Holds(g)')
    <3>1. CASE g = f
      BY <1>10, <2>1, <2>3, <3>1
    <3>2. CASE g # f
      BY <1>11, <2>2, <2>3, <3>2 DEF PinsCounted
    <3>3. QED BY <3>1, <3>2
  <2>5. QED BY <1>3, <2>3, <2>4
<1>13. QED BY <1>1, <1>4, <1>5, <1>6, <1>12, ReleaseStep

LEMMA UnpinAllStep ==
  ASSUME IInv, NEW b \in Backend, UnpinAll(b) PROVE IInv'
<1>1. /\ phase[b] # "wait"
      /\ frames' = [g \in Slot |->
                      Released(frames[g], Cardinality(PinsOn(b, g)))]
      /\ pins' = [pins EXCEPT ![b] = <<>>]
      /\ BackToIdle(b, <<>>)
      /\ UNCHANGED <<size, hand, want, victim>>
  BY DEF UnpinAll
<1>2. /\ pins' \in [Backend -> Seq(Slot)]
      /\ pins'[b] = <<>>
      /\ \A c \in Backend \ {b} : pins'[c] = pins[c]
      /\ \A c \in Backend : Len(pins[c]) \in Nat
      /\ \A c \in Backend : Len(pins'[c]) <= Len(pins[c])
  BY <1>1 DEF IInv, Types, TypeOK
<1>3. /\ HeldBy(b)' \subseteq HeldBy(b)
      /\ \A c \in Backend \ {b} : HeldBy(c)' = HeldBy(c)
  BY <1>2 DEF HeldBy
<1>4. ASSUME NEW g \in Slot
      PROVE  /\ Cardinality(PinsOn(b, g)) \in Nat
             /\ Cardinality(PinsOn(b, g)) <= Cardinality(Holds(g))
             /\ Cardinality(Holds(g)') =
                  Cardinality(Holds(g)) - Cardinality(PinsOn(b, g))
  <2>1. PinsOn(b, g) \subseteq Holds(g)
    BY DEF PinsOn
  <2>2. Holds(g)' = Holds(g) \ PinsOn(b, g)
    <3>1. ASSUME NEW h \in Backend \X (1 .. MaxPins)
          PROVE  h \in Holds(g)' <=> h \in Holds(g) /\ h[1] # b
      BY <1>2 DEF Holds
    <3>2. /\ Holds(g) \subseteq Backend \X (1 .. MaxPins)
          /\ Holds(g)' \subseteq Backend \X (1 .. MaxPins)
      BY DEF Holds
    <3>3. QED BY <3>1, <3>2 DEF PinsOn
  <2>3. /\ IsFiniteSet(Holds(g))
        /\ IsFiniteSet(PinsOn(b, g))
        /\ Cardinality(PinsOn(b, g)) <= Cardinality(Holds(g))
    BY <2>1, HoldsFinite, FS_Subset
  <2>4. Holds(g) \cap PinsOn(b, g) = PinsOn(b, g)
    BY <2>1
  <2>5. Cardinality(Holds(g)') =
          Cardinality(Holds(g)) - Cardinality(PinsOn(b, g))
    BY <2>2, <2>3, <2>4, FS_Difference
  <2>6. QED BY <2>3, <2>5, FS_CardinalityType
<1>5. ASSUME NEW g \in Slot
      PROVE  /\ frames'[g] \in FrameDesc
             /\ frames'[g].tag = frames[g].tag
             /\ frames'[g].io = frames[g].io
             /\ frames'[g].valid = frames[g].valid
             /\ frames'[g].pin = Cardinality(Holds(g)')
  <2>1. frames[g].pin = Cardinality(Holds(g))
    BY DEF IInv, PinsCounted
  <2>2. frames'[g] = Released(frames[g], Cardinality(PinsOn(b, g)))
    BY <1>1
  <2>3. QED BY <1>4, <2>1, <2>2, ReleasedFrame
<1>6. frames' \in [Slot -> FrameDesc]
  BY <1>1, <1>5
<1>7. ASSUME NEW g \in Slot \ Live PROVE frames'[g] = frames[g]
  <2>1. frames[g] = Blank /\ Cardinality(Holds(g)) = 0
    BY DEF IInv, Types, TypeOK, PinsCounted, Blank
  <2>2. Cardinality(PinsOn(b, g)) = 0
    BY <1>4, <2>1
  <2>3. QED BY <1>1, <2>1, <2>2 DEF Released, Blank
<1>8. QED BY <1>1, <1>2, <1>3, <1>5, <1>6, <1>7, ReleaseStep

-------------------------------------------------------------------------------
LEMMA GrowStep ==
  ASSUME IInv, NEW n \in MinFrames .. MaxFrames, Grow(n) PROVE IInv'
<1>1. /\ n > size /\ size' = n
      /\ UNCHANGED <<frames, hand, phase, want, buf, victim, pins>>
      /\ size \in Nat
  BY FramesAssumption DEF Grow, IInv, Types, TypeOK
<1>2. Live \subseteq Live'
  BY <1>1, FramesAssumption DEF Live, Slot
<1>3. \A g \in Live' \ Live : frames[g] = Blank
  BY DEF Live, IInv, Types, TypeOK
<1>4. Types'
  <2>1. hand' \in 0 .. size' - 1 /\ size' \in MinFrames .. MaxFrames
    BY <1>1, FramesAssumption DEF IInv, Types, TypeOK
  <2>2. \A g \in Slot \ Live' : frames'[g] = Blank
    BY <1>1, <1>2 DEF IInv, Types, TypeOK
  <2>3. Room'
    BY <1>1 DEF IInv, Types, Room
  <2>4. QED BY <1>1, <2>1, <2>2, <2>3 DEF IInv, Types, TypeOK
<1>5. PinsCounted'
  BY <1>1 DEF IInv, PinsCounted, Holds
<1>6. OneFramePerPage' /\ Readers'
  BY <1>1, <1>3 DEF IInv, OneFramePerPage, Readers, Blank
<1>7. Contract'
  BY <1>1 DEF IInv, Contract, HeldBy
<1>8. QED BY <1>4, <1>5, <1>6, <1>7 DEF IInv

(* A shrink stops above every frame that is pinned or being read, so it    *)
(* takes nothing a backend holds.                                          *)
LEMMA ShrinkStep ==
  ASSUME IInv, NEW n \in MinFrames .. MaxFrames, Shrink(n) PROVE IInv'
<1>1. PICK m \in n .. size :
        /\ ShrunkTo(m, n)
        /\ size'   = m
        /\ hand'   = hand % m
        /\ frames' = [f \in Slot |-> IF f < m THEN frames[f] ELSE Blank]
        /\ pins'   = [b \in Backend |-> KeepPins(pins[b], m)]
        /\ buf'    = [b \in Backend |-> IF buf[b] >= m THEN None ELSE buf[b]]
        /\ victim' = [b \in Backend |->
                        IF victim[b] >= m THEN None ELSE victim[b]]
  BY DEF Shrink
<1>2. /\ UNCHANGED <<phase, want>>
      /\ m \in MinFrames .. MaxFrames /\ m <= size /\ m \in Nat \ {0}
      /\ hand \in Nat
      /\ size \in Nat
  BY <1>1, FramesAssumption DEF Shrink, IInv, Types, TypeOK
<1>3. ASSUME NEW b \in Backend, NEW f \in HeldBy(b) PROVE f \in Slot /\ f < m
  <2>1. f \in Live /\ frames[f].pin > 0
    BY HeldPinned DEF IInv
  <2>2. f \in Slot /\ f < size
    BY <2>1 DEF Live
  <2>3. f \in Nat
    BY <2>2 DEF Slot
  <2>4. ~(m <= f /\ f <= size - 1)
    BY <1>1, <1>2, <2>1, <2>3 DEF ShrunkTo, Blocked
  <2>5. QED BY <1>2, <2>2, <2>3, <2>4
<1>4. pins' = pins
  <2>1. \A b \in Backend : KeepPins(pins[b], m) = pins[b]
    BY <1>3 DEF KeepPins, HeldBy
  <2>2. QED BY <1>1, <2>1 DEF IInv, Types, TypeOK
<1>5. Live' \subseteq Live /\ \A f \in Slot : f \in Live' <=> f < m
  BY <1>1, <1>2 DEF Live, Slot
<1>6. /\ frames' \in [Slot -> FrameDesc]
      /\ \A f \in Slot : f < m => frames'[f] = frames[f]
      /\ \A f \in Slot : ~(f < m) => frames'[f] = Blank
  BY <1>1, BlankType DEF IInv, Types, TypeOK
<1>7. /\ buf' \in [Backend -> Slot \union {None}]
      /\ victim' \in [Backend -> Slot \union {None}]
      /\ \A b \in Backend : buf'[b] = buf[b] \/ buf'[b] = None
      /\ \A b \in Backend : buf[b] \in Slot /\ buf[b] < m => buf'[b] = buf[b]
  BY <1>1, <1>2 DEF IInv, Types, TypeOK, Slot, None
<1>8. Types'
  <2>1. hand' \in 0 .. size' - 1
    BY <1>1, <1>2
  <2>2. \A g \in Slot \ Live' : frames'[g] = Blank
    BY <1>5, <1>6
  <2>3. Room'
    BY <1>2, <1>4 DEF IInv, Types, Room
  <2>4. QED BY <1>1, <1>2, <1>4, <1>6, <1>7, <2>1, <2>2, <2>3
            DEF IInv, Types, TypeOK
<1>9. PinsCounted'
  <2>1. ASSUME NEW f \in Slot PROVE frames'[f].pin = Cardinality(Holds(f)')
    <3>1. Holds(f)' = Holds(f)
      BY <1>4 DEF Holds
    <3>2. CASE f < m
      BY <1>6, <3>1, <3>2 DEF IInv, PinsCounted
    <3>3. CASE ~(f < m)
      <4>1. ASSUME NEW h \in Holds(f) PROVE FALSE
        <5>1. h[1] \in Backend /\ f \in HeldBy(h[1])
          BY DEF Holds, HeldBy, IInv, Types, TypeOK
        <5>2. QED BY <1>3, <3>3, <5>1
      <4>2. Cardinality(Holds(f)') = 0
        BY <3>1, <4>1, FS_EmptySet
      <4>3. QED BY <1>6, <3>3, <4>2 DEF Blank
    <3>4. QED BY <3>2, <3>3
  <2>2. QED BY <2>1 DEF PinsCounted
<1>10. OneFramePerPage'
  BY <1>5, <1>6 DEF IInv, OneFramePerPage, Live
<1>11. Contract'
  <2>1. ASSUME NEW c \in Backend
        PROVE  /\ HeldBy(c)' = HeldBy(c)
               /\ phase'[c] = phase[c] /\ want'[c] = want[c]
               /\ buf[c] \in HeldBy(c) =>
                    buf'[c] = buf[c] /\ frames'[buf[c]] = frames[buf[c]]
               /\ buf'[c] \in HeldBy(c) => buf'[c] = buf[c]
    <3>1. HeldBy(c)' = HeldBy(c)
      BY <1>4 DEF HeldBy
    <3>2. None \notin HeldBy(c)
      BY <1>3 DEF None, Slot
    <3>3. QED BY <1>2, <1>3, <1>6, <1>7, <3>1, <3>2
  <2>2. QED BY <2>1 DEF IInv, Contract
<1>12. Readers'
  <2>1. ASSUME NEW f \in Live',
               frames'[f].io \/ (frames'[f].tag # NoPage /\ ~frames'[f].valid)
        PROVE  \E c \in Backend : phase'[c] = "io" /\ buf'[c] = f
    <3>1. f \in Live /\ f \in Slot /\ f < m /\ frames'[f] = frames[f]
      BY <1>5, <1>6 DEF Live
    <3>2. PICK c \in Backend : phase[c] = "io" /\ buf[c] = f
      BY <2>1, <3>1 DEF IInv, Readers
    <3>3. QED BY <1>2, <1>7, <3>1, <3>2
  <2>2. QED BY <2>1 DEF Readers
<1>13. QED BY <1>8, <1>9, <1>10, <1>11, <1>12 DEF IInv

(* Reset is Init with primes. *)
LEMMA ResetStep == Reset => IInv'
<1>1. Reset => Init'
  BY DEF Reset, Init
<1>2. Init' => IInv'
  BY InitIInv, PTL
<1>3. QED BY <1>1, <1>2

-------------------------------------------------------------------------------
LEMMA NextIInv == IInv /\ [Next]_vars => IInv'
<1> SUFFICES ASSUME IInv, [Next]_vars PROVE IInv'
  OBVIOUS
<1>1. ASSUME NEW b \in Backend,
             \/ \E t \in Page : Request(b, t)
             \/ Step(b) \/ MarkDirty(b) \/ UnpinLast(b) \/ UnpinAll(b)
      PROVE  IInv'
  BY <1>1, QuietActions, PinActions, SwapTagStep, SweepStep, DirtyBitStep,
     ReadDoneStep, UnpinLastStep, UnpinAllStep DEF Step
<1>2. CASE Resize
  BY <1>2, GrowStep, ShrinkStep DEF Resize
<1>3. CASE Reset
  BY <1>3, ResetStep
<1>4. CASE UNCHANGED vars
  <2>1. /\ Types' /\ OneFramePerPage' /\ Readers'
    BY <1>4 DEF vars, IInv, Types, TypeOK, Room, Live, OneFramePerPage, Readers
  <2>2. PinsCounted' /\ Contract'
    BY <1>4 DEF vars, IInv, PinsCounted, Holds, Contract, HeldBy
  <2>3. QED BY <2>1, <2>2 DEF IInv
<1>5. QED BY <1>1, <1>2, <1>3, <1>4 DEF Next

LEMMA IInvHolds == Spec => []IInv
BY InitIInv, NextIInv, PTL DEF Spec

(* Every variable keeps its type: the refcounts, usage counts and hand stay *)
(* in range, and frames beyond the pool are blank.                          *)
THEOREM TypeCorrect == Spec => []TypeOK
<1>1. IInv => TypeOK
  BY DEF IInv, Types
<1>2. QED BY <1>1, IInvHolds, PTL

(* No page is ever in two frames. *)
THEOREM PageTableUnique == Spec => []OneFramePerPage
<1>1. IInv => OneFramePerPage
  BY DEF IInv
<1>2. QED BY <1>1, IInvHolds, PTL

(* A refcount is the number of pins held. *)
THEOREM RefcountsExact == Spec => []PinsCounted
<1>1. IInv => PinsCounted
  BY DEF IInv
<1>2. QED BY <1>1, IInvHolds, PTL

(* A page stays put, valid, for as long as the pin on it is kept. *)
THEOREM PinnedPageStays == Spec => []PinContract
<1>1. IInv => PinContract
  BY DEF IInv, Contract, PinContract
<1>2. QED BY <1>1, IInvHolds, PTL

(* Nobody waits for a read that no backend is doing. *)
THEOREM NoOrphanWaiter == Spec => []WaiterHasReader
<1>1. IInv => WaiterHasReader
  <2> SUFFICES ASSUME IInv, NEW b \in Backend, phase[b] = "wait"
               PROVE  /\ buf[b] \in HeldBy(b)
                      /\ \E c \in Backend \ {b} :
                            phase[c] = "io" /\ buf[c] = buf[b]
    BY DEF WaiterHasReader
  <2>1. /\ buf[b] \in HeldBy(b)
        /\ frames[buf[b]].tag = want[b]
        /\ frames[buf[b]].io \/ ~frames[buf[b]].valid
    BY DEF IInv, Contract
  <2>2. buf[b] \in Live /\ want[b] # NoPage
    BY <2>1, HeldPinned, PageAssumption DEF IInv, Types, Room
  <2>3. \E c \in Backend : phase[c] = "io" /\ buf[c] = buf[b]
    BY <2>1, <2>2 DEF IInv, Readers
  <2>4. QED BY <2>1, <2>3
<1>2. QED BY <1>1, IInvHolds, PTL

-------------------------------------------------------------------------------
(* A set of natural numbers that is not empty has a least element. *)
LEMMA LeastOf ==
  ASSUME NEW T, T \subseteq Nat, T # {}
  PROVE  \E x \in T : \A y \in T : x <= y
<1> DEFINE R == {ss \in Nat \X Nat : ss[1] < ss[2]}
<1>1. IsWellFoundedOn(R, Nat)
  BY NatLessThanWellFounded DEF OpToRel
<1>2. PICK x \in T : \A y \in T : ~(<<y, x>> \in R)
  BY <1>1, WFMin
<1>3. ASSUME NEW y \in T PROVE x <= y
  <2>1. x \in Nat /\ y \in Nat /\ ~(<<y, x>> \in R)
    BY <1>2
  <2>2. ~(y < x)
    BY <2>1
  <2>3. QED BY <2>1, <2>2
<1>4. QED BY <1>3

(* A pool of n descriptors, those of cand to be had, with their counts.    *)
Ring(cand, U, h, n, D, m) ==
  /\ n \in Nat \ {0} /\ h \in 0 .. n - 1 /\ m \in Nat
  /\ cand \subseteq 0 .. n - 1 /\ cand \subseteq D
  /\ U \in [D -> 0 .. m]

(* The descriptors of a ring, by their distance from the hand. *)
LEMMA Around ==
  ASSUME NEW cand, NEW U, NEW h, NEW n, NEW D, NEW m, Ring(cand, U, h, n, D, m)
  PROVE  /\ \A f \in 0 .. n - 1 : /\ Distance(f, h, n) \in 0 .. n - 1
                                  /\ (h + Distance(f, h, n)) % n = f
         /\ \A j \in 0 .. n - 1 : /\ (h + j) % n \in 0 .. n - 1
                                  /\ Distance((h + j) % n, h, n) = j
                                  /\ (((h + j) % n) + 1) % n = IF j + 1 = n THEN h ELSE (h + (j + 1)) % n
<1> n \in Nat \ {0} /\ h \in 0 .. n - 1
  BY DEF Ring
<1>1. ASSUME NEW f \in 0 .. n - 1
      PROVE  /\ Distance(f, h, n) \in 0 .. n - 1
             /\ (h + Distance(f, h, n)) % n = f
  <2>1. f + n - h \in 0 .. n + n - 1
    OBVIOUS
  <2>2. Distance(f, h, n) = IF f + n - h < n THEN f + n - h ELSE f - h
    BY <2>1 DEF Distance
  <2>3. h + Distance(f, h, n) \in 0 .. n + n - 1 /\ Distance(f, h, n) \in 0 .. n - 1
    BY <2>2
  <2>4. (h + Distance(f, h, n)) % n = IF h + Distance(f, h, n) < n THEN h + Distance(f, h, n)
                                      ELSE h + Distance(f, h, n) - n
    BY <2>3
  <2> QED BY <2>2, <2>3, <2>4
<1>2. ASSUME NEW j \in 0 .. n - 1
      PROVE  /\ (h + j) % n \in 0 .. n - 1
             /\ Distance((h + j) % n, h, n) = j
             /\ (((h + j) % n) + 1) % n = IF j + 1 = n THEN h ELSE (h + (j + 1)) % n
  <2> DEFINE f == (h + j) % n
  <2>1. h + j \in 0 .. n + n - 1
    OBVIOUS
  <2>2. f = IF h + j < n THEN h + j ELSE h + j - n
    BY <2>1
  <2>3. f \in 0 .. n - 1
    BY <2>2
  <2> HIDE DEF f
  <2>4. f + n - h \in 0 .. n + n - 1 /\ f + 1 \in 0 .. n + n - 1
    BY <2>3
  <2>5. Distance(f, h, n) = IF f + n - h < n THEN f + n - h ELSE f + n - h - n
    BY <2>3, <2>4 DEF Distance
  <2>6. (f + 1) % n = IF f + 1 < n THEN f + 1 ELSE f + 1 - n
    BY <2>3, <2>4
  <2>7. j + 1 # n => (h + (j + 1)) % n = IF h + j + 1 < n THEN h + j + 1 ELSE h + j + 1 - n
    <3>1. j + 1 # n => h + (j + 1) \in 0 .. n + n - 1
      OBVIOUS
    <3>2. j + 1 # n => (h + (j + 1)) % n = IF h + (j + 1) < n THEN h + (j + 1) ELSE h + (j + 1) - n
      BY <3>1
    <3> QED BY <3>2
  <2>8. Distance(f, h, n) = j
    BY <2>2, <2>5
  <2>9. (f + 1) % n = IF j + 1 = n THEN h ELSE (h + (j + 1)) % n
    BY <2>2, <2>6, <2>7
  <2> QED BY <2>3, <2>8, <2>9 DEF f
<1> QED BY <1>1, <1>2

-------------------------------------------------------------------------------
(* The count of a descriptor q turns and j places after the sweep began.   *)
Worn(f, q, j, cand, U, h, n) ==
  IF f \notin cand THEN U[f]
  ELSE IF Distance(f, h, n) < j THEN U[f] - q - 1 ELSE U[f] - q

(* The loop after q turns and j places in which it found nothing, and when *)
(* it has found something.                                                 *)
Swept(s, q, j, cand, U, h, n, D) ==
  /\ s = [usage  |-> [f \in D |-> Worn(f, q, j, cand, U, h, n)],
          hand   |-> (h + j) % n,
          chosen |-> NoFrame]
  /\ \A f \in cand : /\ q <= U[f]
                     /\ Distance(f, h, n) < j => q + 1 <= U[f]

Found(s, cand, U, h, n, D) ==
  /\ IsVictim(s.chosen, cand, U, h, n)
  /\ s.hand = HandAfter(s.chosen, n)
  /\ s.usage = [f \in D |-> UsageAfter(f, s.chosen, cand, U, h, n)]

LEMMA ProbeFound ==
  ASSUME NEW cand, NEW U, NEW h, NEW n, NEW D, NEW m, Ring(cand, U, h, n, D, m),
         NEW s, Found(s, cand, U, h, n, D)
  PROVE  Probe(s, cand, n) = s
<1>1. s.chosen \in cand /\ cand \subseteq 0 .. n - 1
  BY DEF Found, IsVictim, Ring
<1>2. s.chosen # NoFrame
  BY <1>1 DEF NoFrame
<1> QED BY <1>2 DEF Probe

LEMMA ProbeSwept ==
  ASSUME NEW cand, NEW U, NEW h, NEW n, NEW D, NEW m, Ring(cand, U, h, n, D, m),
         NEW q \in Nat, NEW j \in 0 .. n - 1, NEW s, Swept(s, q, j, cand, U, h, n, D)
  PROVE  \/ Found(Probe(s, cand, n), cand, U, h, n, D)
         \/ j + 1 # n /\ Swept(Probe(s, cand, n), q, j + 1, cand, U, h, n, D)
         \/ j + 1 = n /\ Swept(Probe(s, cand, n), q + 1, 0, cand, U, h, n, D)
<1> DEFINE f == (h + j) % n
           d(g) == Distance(g, h, n)
           W == [g \in D |-> Worn(g, q, j, cand, U, h, n)]
           t == Probe(s, cand, n)
<1>1. /\ n \in Nat \ {0} /\ h \in 0 .. n - 1 /\ m \in Nat
      /\ cand \subseteq 0 .. n - 1 /\ cand \subseteq D
      /\ U \in [D -> 0 .. m]
  BY DEF Ring
<1>2. /\ s = [usage |-> W, hand |-> f, chosen |-> NoFrame]
      /\ \A g \in cand : q <= U[g] /\ (d(g) < j => q + 1 <= U[g])
  BY DEF Swept
<1>3. /\ f \in 0 .. n - 1 /\ d(f) = j
      /\ (f + 1) % n = IF j + 1 = n THEN h ELSE (h + (j + 1)) % n
      /\ \A g \in cand : d(g) \in 0 .. n - 1 /\ (d(g) = j => g = f)
  <2>1. /\ \A g \in 0 .. n - 1 : d(g) \in 0 .. n - 1 /\ (h + d(g)) % n = g
        /\ \A i \in 0 .. n - 1 : /\ (h + i) % n \in 0 .. n - 1
                                 /\ d((h + i) % n) = i
                                 /\ (((h + i) % n) + 1) % n = IF i + 1 = n THEN h ELSE (h + (i + 1)) % n
    BY Around
  <2>2. f \in 0 .. n - 1 /\ d(f) = j
    BY <2>1
  <2>3. (f + 1) % n = IF j + 1 = n THEN h ELSE (h + (j + 1)) % n
    BY <2>1
  <2>4. ASSUME NEW g \in cand PROVE d(g) \in 0 .. n - 1 /\ (d(g) = j => g = f)
    <3>1. g \in 0 .. n - 1
      BY <1>1
    <3> HIDE DEF d
    <3> QED BY <2>1, <3>1
  <2> QED BY <2>2, <2>3, <2>4
<1>4. \A g \in cand : U[g] \in Nat /\ g \in D
  BY <1>1
<1>5. /\ \A g \in D : g \notin cand => W[g] = U[g]
      /\ \A g \in cand : W[g] = IF d(g) < j THEN U[g] - q - 1 ELSE U[g] - q
  BY <1>4 DEF Worn
<1>6. t = [usage  |-> IF f \in cand /\ W[f] # 0 THEN [W EXCEPT ![f] = @ - 1] ELSE W,
           hand   |-> (f + 1) % n,
           chosen |-> IF f \in cand /\ W[f] = 0 THEN f ELSE NoFrame]
  BY <1>2 DEF Probe
<1>7. f \in cand => W[f] = U[f] - q /\ f \in D
  <2> HIDE DEF f, W
  <2> QED BY <1>3, <1>4, <1>5
<1>8. j \in Nat /\ q \in Nat /\ n \in Nat
  BY <1>1
<1> DEFINE X == IF f \in cand /\ W[f] # 0 THEN [W EXCEPT ![f] = @ - 1] ELSE W
<1>9. W \in [D -> Int]
  <2>1. ASSUME NEW g \in D PROVE W[g] \in Int
    <3>1. U[g] \in Int
      BY <1>1
    <3> HIDE DEF W
    <3> QED BY <1>5, <1>8, <3>1
  <2> QED BY <2>1
<1>10. X = [g \in D |-> X[g]]
  BY <1>9
<1> HIDE DEF f, W, t
<1>11. CASE f \in cand /\ W[f] = 0
  <2>1. t.chosen = f /\ t.hand = (f + 1) % n /\ t.usage = W
    BY <1>6, <1>11
  <2>2. U[f] = q
    BY <1>4, <1>7, <1>8, <1>11
  <2>3. IsVictim(f, cand, U, h, n)
    <3>1. ASSUME NEW g \in cand
          PROVE  \/ U[f] < U[g]
                 \/ U[f] = U[g] /\ d(f) <= d(g)
      BY <1>2, <1>3, <1>4, <1>8, <2>2
    <3> HIDE DEF d
    <3>2. \A g \in cand : \/ U[f] < U[g]
                          \/ U[f] = U[g] /\ d(f) <= d(g)
      BY <3>1
    <3> QED BY <1>11, <3>2 DEF IsVictim, d
  <2>4. W = [g \in D |-> UsageAfter(g, f, cand, U, h, n)]
    <3>1. ASSUME NEW g \in D PROVE W[g] = UsageAfter(g, f, cand, U, h, n)
      <4>1. CASE g \notin cand
        BY <1>5, <4>1 DEF UsageAfter
      <4>2. CASE g \in cand
        BY <1>3, <1>5, <2>2, <4>2 DEF UsageAfter
      <4> QED BY <4>1, <4>2
    <3> QED BY <1>9, <3>1
  <2>5. Found(t, cand, U, h, n, D)
    BY <2>1, <2>3, <2>4 DEF Found, HandAfter
  <2> QED BY <2>5 DEF t
<1>12. CASE ~(f \in cand /\ W[f] = 0)
  <2>1. t = [usage |-> X, hand |-> (f + 1) % n, chosen |-> NoFrame]
    BY <1>6, <1>12
  <2>2. f \in cand => q + 1 <= U[f]
    BY <1>2, <1>4, <1>7, <1>8, <1>12
  <2>3. ASSUME NEW g \in cand, d(g) <= j PROVE q + 1 <= U[g]
    <3>1. d(g) = j => g = f
      BY <1>3
    <3>2. d(g) \in Nat
      BY <1>3
    <3> QED BY <1>2, <1>8, <2>2, <2>3, <3>1, <3>2
  <2>4. ASSUME NEW g \in D
        PROVE  X[g] = IF g \notin cand THEN U[g]
                      ELSE IF d(g) <= j THEN U[g] - q - 1 ELSE U[g] - q
    <3>1. CASE g \notin cand
      <4>1. X[g] = W[g]
        BY <1>9, <3>1
      <4> QED BY <1>5, <3>1, <4>1
    <3>2. CASE g = f /\ g \in cand
      <4>1. W[f] # 0 /\ X[f] = W[f] - 1
        BY <1>9, <1>12, <3>2
      <4> QED BY <1>3, <1>4, <1>7, <1>8, <3>2, <4>1
    <3>3. CASE g # f /\ g \in cand
      <4>1. X[g] = W[g]
        BY <1>9, <3>3
      <4>2. d(g) \in Nat /\ d(g) # j
        BY <1>3, <3>3
      <4> QED BY <1>5, <1>8, <3>3, <4>1, <4>2
    <3> QED BY <3>1, <3>2, <3>3
  <2> HIDE DEF X
  <2>5. CASE j + 1 # n
    <3>1. ASSUME NEW g \in D PROVE X[g] = Worn(g, q, j + 1, cand, U, h, n)
      <4>1. CASE g \notin cand
        BY <2>4, <4>1 DEF Worn
      <4>2. CASE g \in cand
        <5>1. d(g) \in Nat
          BY <1>3, <4>2
        <5>2. d(g) <= j <=> d(g) < j + 1
          BY <1>8, <5>1
        <5> QED BY <2>4, <4>2, <5>2 DEF Worn
      <4> QED BY <4>1, <4>2
    <3>2. X = [g \in D |-> Worn(g, q, j + 1, cand, U, h, n)]
      BY <1>10, <3>1
    <3>3. (f + 1) % n = (h + (j + 1)) % n
      BY <1>3, <2>5
    <3>4. ASSUME NEW g \in cand PROVE q <= U[g] /\ (d(g) < j + 1 => q + 1 <= U[g])
      <4>1. d(g) \in Nat
        BY <1>3
      <4>2. d(g) < j + 1 => d(g) <= j
        BY <1>8, <4>1
      <4> QED BY <1>2, <2>3, <4>2
    <3>5. Swept(t, q, j + 1, cand, U, h, n, D)
      BY <2>1, <3>2, <3>3, <3>4 DEF Swept
    <3> QED BY <2>5, <3>5 DEF t
  <2>6. CASE j + 1 = n
    <3>1. \A g \in cand : d(g) \in Nat /\ d(g) <= j
      BY <1>3, <1>8, <2>6
    <3>2. ASSUME NEW g \in D PROVE X[g] = Worn(g, q + 1, 0, cand, U, h, n)
      <4>1. CASE g \notin cand
        BY <2>4, <4>1 DEF Worn
      <4>2. CASE g \in cand
        <5>1. X[g] = U[g] - q - 1 /\ ~(d(g) < 0) /\ U[g] \in Nat
          BY <1>4, <2>4, <3>1, <4>2
        <5>2. Worn(g, q + 1, 0, cand, U, h, n) = U[g] - (q + 1)
          BY <4>2, <5>1 DEF Worn
        <5> QED BY <1>8, <5>1, <5>2
      <4> QED BY <4>1, <4>2
    <3>3. X = [g \in D |-> Worn(g, q + 1, 0, cand, U, h, n)]
      BY <1>10, <3>2
    <3>4. (f + 1) % n = (h + 0) % n
      BY <1>1, <1>3, <2>6
    <3>5. \A g \in cand : q + 1 <= U[g] /\ ~(d(g) < 0)
      BY <2>3, <3>1
    <3>6. Swept(t, q + 1, 0, cand, U, h, n, D)
      BY <2>1, <3>3, <3>4, <3>5 DEF Swept
    <3> QED BY <2>6, <3>6 DEF t
  <2> QED BY <2>5, <2>6
<1> QED BY <1>11, <1>12

-------------------------------------------------------------------------------
(* The loop exists: the states it goes through, one for every probe.       *)
Looping(cand, U, h, n, k, g) ==
  g = [i \in 0 .. k |-> IF i = 0 THEN [usage |-> U, hand |-> h, chosen |-> NoFrame]
                        ELSE Probe(g[i - 1], cand, n)]
Loops(cand, U, h, n, k) == \E g : Looping(cand, U, h, n, k, g)

LEMMA LoopExists ==
  ASSUME NEW cand, NEW U, NEW h, NEW n
  PROVE  \A k \in Nat : Loops(cand, U, h, n, k)
<1> DEFINE T == {k \in Nat : ~Loops(cand, U, h, n, k)}
           first == [usage |-> U, hand |-> h, chosen |-> NoFrame]
<1> SUFFICES ASSUME T # {} PROVE FALSE
  OBVIOUS
<1>1. PICK k \in T : \A i \in T : k <= i
  BY LeastOf
<1>2. k \in Nat /\ ~Loops(cand, U, h, n, k)
  BY <1>1
<1> HIDE DEF first
<1>3. k # 0
  <2> SUFFICES ASSUME k = 0 PROVE FALSE
    OBVIOUS
  <2> DEFINE g == [i \in 0 .. 0 |-> first]
  <2>1. g = [i \in 0 .. 0 |-> IF i = 0 THEN first ELSE Probe(g[i - 1], cand, n)]
    OBVIOUS
  <2> HIDE DEF g
  <2>2. Looping(cand, U, h, n, k, g)
    BY <2>1 DEF Looping, first
  <2> QED BY <1>2, <2>2 DEF Loops
<1>4. k - 1 \in Nat /\ Loops(cand, U, h, n, k - 1)
  <2>1. k - 1 \in Nat /\ ~(k <= k - 1)
    BY <1>2, <1>3
  <2> QED BY <1>1, <2>1
<1>5. PICK g : Looping(cand, U, h, n, k - 1, g)
  BY <1>4 DEF Loops
<1>6. g = [i \in 0 .. k - 1 |-> IF i = 0 THEN first ELSE Probe(g[i - 1], cand, n)]
  BY <1>5 DEF Looping, first
<1> DEFINE e == [i \in 0 .. k |-> IF i = k THEN Probe(g[k - 1], cand, n) ELSE g[i]]
<1>7. \A i \in 0 .. k - 1 : g[i] = IF i = 0 THEN first ELSE Probe(g[i - 1], cand, n)
  BY <1>2, <1>3, <1>6
<1>8. ASSUME NEW i \in 0 .. k
      PROVE  e[i] = IF i = 0 THEN first ELSE Probe(e[i - 1], cand, n)
  <2>1. CASE i = k
    <3>1. k - 1 \in 0 .. k /\ k - 1 # k /\ k \in 0 .. k
      BY <1>2, <1>3
    <3>2. e[k] = Probe(g[k - 1], cand, n) /\ e[k - 1] = g[k - 1]
      BY <3>1
    <3> QED BY <1>3, <2>1, <3>2
  <2>2. CASE i # k
    <3>1. i \in 0 .. k - 1 /\ e[i] = g[i]
      BY <1>2, <2>2
    <3>2. CASE i = 0
      BY <1>7, <3>1, <3>2
    <3>3. CASE i # 0
      <4>1. i - 1 \in 0 .. k /\ i - 1 # k
        BY <1>2, <2>2, <3>3
      <4>2. e[i - 1] = g[i - 1]
        BY <4>1
      <4> QED BY <1>7, <3>1, <3>3, <4>2
    <3> QED BY <3>2, <3>3
  <2> QED BY <2>1, <2>2
<1>9. e = [i \in 0 .. k |-> e[i]]
  OBVIOUS
<1> HIDE DEF e
<1>10. e = [i \in 0 .. k |-> IF i = 0 THEN first ELSE Probe(e[i - 1], cand, n)]
  BY <1>8, <1>9
<1>11. Looping(cand, U, h, n, k, e)
  BY <1>10 DEF Looping, first
<1> QED BY <1>2, <1>11 DEF Loops

(* Where the loop can be after k probes.                                   *)
Reached(k, s, cand, U, h, n, D) ==
  \/ Found(s, cand, U, h, n, D)
  \/ \E q \in Nat, j \in 0 .. n - 1 :
       k = n * q + j /\ Swept(s, q, j, cand, U, h, n, D)

LEMMA ProbeReaches ==
  ASSUME NEW cand, NEW U, NEW h, NEW n, NEW D, NEW m, Ring(cand, U, h, n, D, m),
         NEW k \in Nat, NEW s, Reached(k, s, cand, U, h, n, D)
  PROVE  Reached(k + 1, Probe(s, cand, n), cand, U, h, n, D)
<1>1. CASE Found(s, cand, U, h, n, D)
  BY <1>1, ProbeFound DEF Reached
<1>2. CASE ~Found(s, cand, U, h, n, D)
  <2>1. PICK q \in Nat, j \in 0 .. n - 1 :
          k = n * q + j /\ Swept(s, q, j, cand, U, h, n, D)
    BY <1>2 DEF Reached
  <2>2. \/ Found(Probe(s, cand, n), cand, U, h, n, D)
        \/ j + 1 # n /\ Swept(Probe(s, cand, n), q, j + 1, cand, U, h, n, D)
        \/ j + 1 = n /\ Swept(Probe(s, cand, n), q + 1, 0, cand, U, h, n, D)
    BY <2>1, ProbeSwept
  <2>3. CASE Found(Probe(s, cand, n), cand, U, h, n, D)
    BY <2>3 DEF Reached
  <2>4. CASE j + 1 # n /\ Swept(Probe(s, cand, n), q, j + 1, cand, U, h, n, D)
    <3>1. n \in Nat
      BY DEF Ring
    <3>2. n * q \in Nat
      BY <3>1
    <3>3. k + 1 = n * q + (j + 1) /\ j + 1 \in 0 .. n - 1
      BY <2>1, <2>4, <3>1, <3>2
    <3> QED BY <2>4, <3>3 DEF Reached
  <2>5. CASE j + 1 = n /\ Swept(Probe(s, cand, n), q + 1, 0, cand, U, h, n, D)
    <3>1. n \in Nat \ {0}
      BY DEF Ring
    <3>2. n * q \in Nat /\ n * (q + 1) = n * q + n
      BY <3>1
    <3>3. k + 1 = n * (q + 1) + 0 /\ 0 \in 0 .. n - 1 /\ q + 1 \in Nat
      BY <2>1, <2>5, <3>1, <3>2
    <3> QED BY <2>5, <3>3 DEF Reached
  <2> QED BY <2>2, <2>3, <2>4, <2>5
<1> QED BY <1>1, <1>2

(* The loop ends with what it has found, or has found nothing there.       *)
LEMMA SweepLoopEnds ==
  ASSUME NEW cand, NEW U, NEW h, NEW n, NEW D, NEW m, Ring(cand, U, h, n, D, m)
  PROVE  \/ Found(SweepLoop(cand, U, h, n, m), cand, U, h, n, D)
         \/ /\ cand = {}
            /\ SweepLoop(cand, U, h, n, m) = [usage |-> U, hand |-> h, chosen |-> NoFrame]
<1> DEFINE k == Limit(n, m)
           g == CHOOSE g : Looping(cand, U, h, n, k, g)
           R(i) == Reached(i, g[i], cand, U, h, n, D)
<1>1. /\ n \in Nat \ {0} /\ h \in 0 .. n - 1 /\ m \in Nat
      /\ cand \subseteq 0 .. n - 1 /\ cand \subseteq D /\ U \in [D -> 0 .. m]
  BY DEF Ring
<1>2. k = n * (m + 1) /\ k \in Nat
  BY <1>1 DEF Limit
<1>3. Looping(cand, U, h, n, k, g)
  <2> HIDE DEF k
  <2> QED BY <1>2, LoopExists DEF Loops
<1>4. SweepLoop(cand, U, h, n, m) = g[k]
  BY DEF SweepLoop, Looping
<1> HIDE DEF g, k
<1>5. g = [i \in 0 .. k |-> IF i = 0 THEN [usage |-> U, hand |-> h, chosen |-> NoFrame]
                            ELSE Probe(g[i - 1], cand, n)]
  BY <1>3 DEF Looping
<1>6. ASSUME NEW i \in 0 .. k
      PROVE  /\ i = 0 => g[i] = [usage |-> U, hand |-> h, chosen |-> NoFrame]
             /\ i # 0 => g[i] = Probe(g[i - 1], cand, n)
  BY <1>5
<1>7. R(0)
  <2>1. g[0] = [usage |-> U, hand |-> h, chosen |-> NoFrame]
    BY <1>2, <1>6
  <2>2. \A f \in 0 .. n - 1 : Distance(f, h, n) \in 0 .. n - 1
    BY Around
  <2>3. \A f \in cand : ~(Distance(f, h, n) < 0) /\ U[f] \in Nat
    BY <1>1, <2>2
  <2>4. U = [f \in D |-> Worn(f, 0, 0, cand, U, h, n)]
    <3>1. ASSUME NEW f \in D PROVE U[f] = Worn(f, 0, 0, cand, U, h, n)
      BY <2>3 DEF Worn
    <3> QED BY <1>1, <3>1
  <2>5. (h + 0) % n = h
    BY <1>1
  <2>6. Swept(g[0], 0, 0, cand, U, h, n, D)
    BY <2>1, <2>3, <2>4, <2>5 DEF Swept
  <2>7. 0 = n * 0 + 0 /\ 0 \in 0 .. n - 1
    BY <1>1
  <2> QED BY <2>6, <2>7 DEF Reached
<1> DEFINE T == {i \in 0 .. k : ~R(i)}
<1>8. T = {}
  <2> SUFFICES ASSUME T # {} PROVE FALSE
    OBVIOUS
  <2>1. T \subseteq Nat
    BY <1>2
  <2>2. PICK i \in T : \A j \in T : i <= j
    <3> HIDE DEF T
    <3> QED BY <2>1, LeastOf
  <2>3. i \in 0 .. k /\ ~R(i)
    BY <2>2
  <2>4. i # 0
    BY <1>7, <2>3
  <2>5. i - 1 \in Nat /\ i - 1 \in 0 .. k /\ ~(i <= i - 1) /\ i - 1 + 1 = i
    BY <1>2, <2>3, <2>4
  <2>6. Reached(i - 1, g[i - 1], cand, U, h, n, D)
    BY <2>2, <2>5
  <2>7. Reached(i - 1 + 1, Probe(g[i - 1], cand, n), cand, U, h, n, D)
    BY <2>5, <2>6, ProbeReaches
  <2> QED BY <1>6, <2>3, <2>4, <2>5, <2>7
<1>9. R(k)
  BY <1>2, <1>8
<1>10. CASE Found(g[k], cand, U, h, n, D)
  BY <1>4, <1>10
<1>11. CASE ~Found(g[k], cand, U, h, n, D)
  <2>1. PICK q \in Nat, j \in 0 .. n - 1 :
          k = n * q + j /\ Swept(g[k], q, j, cand, U, h, n, D)
    BY <1>9, <1>11 DEF Reached
  <2>2. q = m + 1 /\ j = 0
    <3>1. n * q + j = n * (m + 1)
      BY <1>2, <2>1
    <3>2. ~(q <= m)
      <4> SUFFICES ASSUME q <= m PROVE FALSE
        OBVIOUS
      <4>1. PICK e \in Nat : m = q + e
        <5>1. m - q \in Nat /\ m = q + (m - q)
          BY <1>1
        <5> QED BY <5>1
      <4>2. n * (m + 1) = n * q + n * e + n /\ n * e \in Nat /\ n * q \in Nat
        BY <1>1, <4>1
      <4> QED BY <1>1, <3>1, <4>2
    <3>3. ~(q > m + 1)
      <4> SUFFICES ASSUME q > m + 1 PROVE FALSE
        OBVIOUS
      <4>1. PICK e \in Nat : q = m + 1 + 1 + e
        <5>1. q - m - 2 \in Nat /\ q = m + 1 + 1 + (q - m - 2)
          BY <1>1
        <5> QED BY <5>1
      <4>2. n * q = n * (m + 1) + n + n * e /\ n * e \in Nat /\ n * (m + 1) \in Nat
        BY <1>1, <4>1
      <4> QED BY <1>1, <3>1, <4>2
    <3>4. q = m + 1
      BY <1>1, <3>2, <3>3
    <3> QED BY <1>1, <1>2, <3>1, <3>4
  <2>3. cand = {}
    <3> SUFFICES ASSUME NEW f \in cand PROVE FALSE
      OBVIOUS
    <3>1. q <= U[f] /\ U[f] \in 0 .. m
      BY <1>1, <2>1 DEF Swept
    <3> QED BY <1>1, <2>2, <3>1
  <2>4. g[k] = [usage |-> [f \in D |-> U[f]], hand |-> (h + 0) % n, chosen |-> NoFrame]
    <3>1. \A f \in D : Worn(f, q, j, cand, U, h, n) = U[f]
      BY <2>3 DEF Worn
    <3> QED BY <2>1, <2>2, <3>1 DEF Swept
  <2>5. (h + 0) % n = h /\ [f \in D |-> U[f]] = U
    BY <1>1
  <2> QED BY <1>4, <2>3, <2>4, <2>5
<1> QED BY <1>10, <1>11

(* The loop over the descriptors returns what the sweep is modelled by:    *)
(* the candidate with the least count, the nearest to the hand among       *)
(* those, after MAX_USAGE + 1 turns at the latest, with every count worn   *)
(* down as often as the hand has passed it; and nothing, leaving no trace, *)
(* only if there is no candidate.                                          *)
THEOREM SweepTakesVictim == Spec => []SweepCorrect
<1>1. ASSUME TypeOK PROVE SweepCorrect
  <2> DEFINE s == SweepLoop(Candidate, Usage, hand, size, MaxUsage)
  <2>1. Ring(Candidate, Usage, hand, size, Slot, MaxUsage)
    <3>1. size \in Nat \ {0} /\ hand \in 0 .. size - 1 /\ MaxUsage \in Nat
      BY <1>1, FramesAssumption, UsageAssumption DEF TypeOK
    <3>2. Candidate \subseteq 0 .. size - 1 /\ Candidate \subseteq Slot
      BY <1>1, FramesAssumption DEF TypeOK, Candidate, Live, Slot
    <3>3. Usage \in [Slot -> 0 .. MaxUsage]
      <4>1. \A f \in Slot : frames[f].usage \in 0 .. MaxUsage
        BY <1>1 DEF TypeOK, FrameDesc
      <4> QED BY <4>1 DEF Usage
    <3> QED BY <3>1, <3>2, <3>3 DEF Ring
  <2>2. \/ Found(s, Candidate, Usage, hand, size, Slot)
        \/ Candidate = {} /\ s = [usage |-> Usage, hand |-> hand, chosen |-> NoFrame]
    BY <2>1, SweepLoopEnds
  <2> HIDE DEF s
  <2>3. CASE Found(s, Candidate, Usage, hand, size, Slot)
    <3>1. /\ IsVictim(s.chosen, Candidate, Usage, hand, size)
          /\ s.hand = HandAfter(s.chosen, size)
          /\ s.usage = [f \in Slot |-> UsageAfter(f, s.chosen, Candidate, Usage, hand, size)]
      BY <2>3 DEF Found
    <3>2. Candidate # {}
      BY <3>1 DEF IsVictim
    <3>3. \A f \in Live : s.usage[f] = UsageAfter(f, s.chosen, Candidate, Usage, hand, size)
      BY <3>1 DEF Live
    <3> QED BY <3>1, <3>2, <3>3 DEF SweepCorrect, s
  <2>4. CASE Candidate = {} /\ s = [usage |-> Usage, hand |-> hand, chosen |-> NoFrame]
    BY <2>4 DEF SweepCorrect, s
  <2> QED BY <2>2, <2>3, <2>4
<1> QED BY <1>1, TypeCorrect, PTL
===============================================================================
