-------------------------- MODULE CheckpointWriteBack --------------------------
(***************************************************************************)
(* Dirty frames, write-back and where recovery would start, as             *)
(* DirtyPageWriteBackLab.tsx plays them for two engines.  One tick of the  *)
(* code is the sequence of actions its parts make: some modifications, the *)
(* WAL writer, then the flushers of the engine (stage says which part).    *)
(*                                                                         *)
(* An LSN is only compared: a record takes one unit, from lsn to lsn + 1.  *)
(* How many pages a part writes comes from sliders, clocks and byte rates: *)
(* here it is any number, at least one per tick for a checkpoint past its  *)
(* target.  The checkpoint writes its frames in any order (the code sorts  *)
(* them by block).  Byte counts, statistics and narration are left out.    *)
(***************************************************************************)
EXTENDS Integers, FiniteSets, ClockSweep

CONSTANTS
  Block,     \* the pages of the relation
  NoBlock,   \* the page of an empty frame
  Size,      \* FRAMES
  MaxUsage,  \* the cap of the usage count (5 in the code)
  MaxIo,     \* the largest write budget of a checkpoint in one tick
  Due,       \* the ticks after which a checkpoint should be done
  MaxLsn     \* bound: the records ever logged

ASSUME BlockAssumption  == NoBlock \notin Block
ASSUME FramesAssumption == Size \in Nat \ {0} /\ MaxUsage \in Nat \ {0}
ASSUME BudgetAssumption == MaxIo \in Nat \ {0} /\ Due \in Nat /\ MaxLsn \in Nat

VARIABLES
  engine,      \* "pg" or "innodb"
  stage,       \* the part of the tick that runs
  frames,      \* the pool
  hand,        \* the clock hand
  lsn,         \* the WAL insert pointer
  flushed,     \* the WAL durable pointer
  prevLsn,     \* where the insert pointer stood one tick ago
  ckptActive,  \* a checkpoint runs
  ckptRedo,    \* the redo point of the last checkpoint begun
  ckptDone,    \* the redo point of the last checkpoint completed
  ckptTodo,    \* the frames the checkpoint has not looked at yet
  since,       \* the ticks since it began, up to Due
  left,        \* the writes it may still do in this tick
  images       \* history: the images logged of a block since the redo point

ckptVars == <<ckptActive, ckptRedo, ckptDone, ckptTodo, since, left>>
vars == <<engine, stage, frames, hand, lsn, flushed, prevLsn, ckptActive,
          ckptRedo, ckptDone, ckptTodo, since, left, images>>

Slot  == 0 .. Size - 1
Frame == [page : Block \union {NoBlock}, dirty : BOOLEAN, rec : Nat, lsn : Nat,
          usage : 0 .. MaxUsage, fpi : BOOLEAN, ckpt : BOOLEAN]
Empty == [page |-> NoBlock, dirty |-> FALSE, rec |-> 0, lsn |-> 0, usage |-> 0,
          fpi |-> FALSE, ckpt |-> FALSE]

(* blank(); switching the engine resets the pool as the Reset button does. *)
Init ==
  /\ engine     \in {"pg", "innodb"}
  /\ stage      = "idle"
  /\ frames     = [f \in Slot |-> Empty]
  /\ hand       = 0
  /\ lsn        = 0
  /\ flushed    = 0
  /\ prevLsn    = 0
  /\ ckptActive = FALSE
  /\ ckptRedo   = 0
  /\ ckptDone   = 0
  /\ ckptTodo   = {}
  /\ since      = 0
  /\ left       = 0
  /\ images     = [b \in Block |-> 0]

Reset ==
  /\ stage = "idle"
  /\ engine'     \in {"pg", "innodb"}
  /\ stage'      = "idle"
  /\ frames'     = [f \in Slot |-> Empty]
  /\ hand'       = 0
  /\ lsn'        = 0
  /\ flushed'    = 0
  /\ prevLsn'    = 0
  /\ ckptActive' = FALSE
  /\ ckptRedo'   = 0
  /\ ckptDone'   = 0
  /\ ckptTodo'   = {}
  /\ since'      = 0
  /\ left'       = 0
  /\ images'     = [b \in Block |-> 0]

-------------------------------------------------------------------------------
Dirty == {f \in Slot : frames[f].dirty}
Later(m, n) == IF m < n THEN n ELSE m

(* writeBack: the log goes out through the frame's pageLSN first. *)
FlushedFor(f) == Later(flushed, frames[f].lsn)
Written(d)    == [d EXCEPT !.dirty = FALSE, !.rec = 0, !.ckpt = FALSE]

WriteBack(f) ==
  /\ flushed' = FlushedFor(f)
  /\ frames'  = [frames EXCEPT ![f] = Written(@)]

(* Bug: recLSN is not stamped. *)
FirstDirtiedNever(d) == d.rec
FirstDirtied(d)      == IF d.dirty THEN d.rec ELSE lsn

(* Bug: the usage count has no cap. *)
BumpedFreely(u) == u + 1
Bumped(u)       == IF u < MaxUsage THEN u + 1 ELSE u

Images(d) == engine = "pg" /\ ~d.fpi

(* The frame after one modification logged at the insert point. *)
Modified(d) == [d EXCEPT !.dirty = TRUE,
                         !.rec   = FirstDirtied(d),
                         !.lsn   = lsn + 1,
                         !.usage = Bumped(@),
                         !.fpi   = @ \/ Images(d)]

Log(b, d) ==
  /\ stage \in {"idle", "work"}
  /\ lsn < MaxLsn
  /\ stage'  = "work"
  /\ lsn'    = lsn + 1
  /\ images' = [images EXCEPT ![b] = IF Images(d) THEN @ + 1 ELSE @]
  /\ UNCHANGED <<engine, prevLsn, ckptVars>>

ModifyResident(b) ==
  \E f \in Slot :
    /\ frames[f].page = b
    /\ Log(b, frames[f])
    /\ frames' = [frames EXCEPT ![f] = Modified(@)]
    /\ UNCHANGED <<hand, flushed>>

(* The usage counts the sweep leaves behind, and the frame it loads. *)
Usage == [f \in Slot |-> frames[f].usage]
Loaded(v, b) == [Written(frames[v]) EXCEPT !.page = b, !.usage = 0,
                                           !.fpi = FALSE, !.lsn = 0]

(* A miss: pickVictim, the victim written by the backend itself if dirty. *)
ModifyLoad(b) ==
  /\ \A f \in Slot : frames[f].page # b
  /\ \E v \in Slot :
        /\ IsVictim(v, Slot, Usage, hand, Size)
        /\ Log(b, Loaded(v, b))
        /\ frames'  = [f \in Slot |->
                         IF f = v THEN Modified(Loaded(v, b))
                         ELSE [frames[f] EXCEPT !.usage =
                                 UsageAfter(f, v, Slot, Usage, hand, Size)]]
        /\ flushed' = IF frames[v].dirty THEN FlushedFor(v) ELSE flushed
        /\ hand'    = HandAfter(v, Size)

(* A tick modifies at least one page; at the bound it modifies none. *)
WalWriter ==
  /\ stage = "work" \/ (stage = "idle" /\ lsn = MaxLsn)
  /\ flushed' = Later(flushed, prevLsn)
  /\ prevLsn' = lsn
  /\ stage'   = IF engine = "innodb" THEN "clean" ELSE "bgw"
  /\ UNCHANGED <<engine, frames, hand, lsn, ckptVars, images>>

Oldest(f, set) == f \in set /\ \A g \in set : frames[f].rec <= frames[g].rec
First(f, set)  == f \in set /\ \A g \in set : f <= g
Cold           == {f \in Dirty : frames[f].usage = 0}

(* InnoDB's page cleaner drains the flush list from its old end. *)
CleanOldest ==
  /\ stage = "clean"
  /\ \E f \in Slot : Oldest(f, Dirty) /\ WriteBack(f)
  /\ UNCHANGED <<engine, stage, hand, lsn, prevLsn, ckptVars, images>>

(* ... and writes cold frames so that they can be taken without a write. *)
FlushLru ==
  /\ stage \in {"clean", "lru"}
  /\ stage' = "lru"
  /\ \E f \in Slot : First(f, Cold) /\ WriteBack(f)
  /\ UNCHANGED <<engine, hand, lsn, prevLsn, ckptVars, images>>

TickEnds ==
  /\ stage \in {"clean", "lru"}
  /\ stage' = "idle"
  /\ UNCHANGED <<engine, frames, hand, lsn, flushed, prevLsn, ckptVars, images>>

(* PostgreSQL's background writer. *)
BackgroundWrite ==
  /\ stage = "bgw"
  /\ \E f \in Slot : Oldest(f, Cold) /\ WriteBack(f)
  /\ UNCHANGED <<engine, stage, hand, lsn, prevLsn, ckptVars, images>>

(* Bugs: the checkpoint marks the frames whose log is durable; it takes    *)
(* its redo point when it ends; it lets images lapse where it writes.      *)
MarkedIfFlushed  == {f \in Dirty : frames[f].lsn <= flushed}
RedoWhenDone     == lsn
LapsedIfMarked(f) == frames[f].dirty

Marked    == Dirty
RedoAtEnd == ckptRedo
Lapsed(f) == TRUE

(* The redo point is taken before any buffer is written; every dirty frame *)
(* is marked and every block needs an image again.                         *)
CkptStart ==
  /\ stage = "bgw"
  /\ ~ckptActive
  /\ ckptActive' = TRUE
  /\ ckptRedo'   = lsn
  /\ ckptTodo'   = Marked
  /\ frames'     = [f \in Slot |->
                      [frames[f] EXCEPT !.ckpt = @ \/ f \in Marked,
                                        !.fpi  = @ /\ ~Lapsed(f)]]
  /\ images'     = [b \in Block |-> 0]
  /\ since'      = 0
  /\ left'       = 0
  /\ stage'      = "ckpt"
  /\ UNCHANGED <<engine, hand, lsn, flushed, prevLsn, ckptDone>>

(* A bug: past its target the checkpoint may still be granted nothing. *)
GrantNone(n) == 0 .. MaxIo

(* IsCheckpointOnSchedule: any pace before the target, some after it. *)
Grant(n) == IF n = Due THEN 1 .. MaxIo ELSE 0 .. MaxIo

CkptGoesOn ==
  /\ stage = "bgw"
  /\ ckptActive
  /\ since' = IF since < Due THEN since + 1 ELSE since
  /\ left'  \in Grant(since')
  /\ stage' = "ckpt"
  /\ UNCHANGED <<engine, frames, hand, lsn, flushed, prevLsn, ckptActive,
                 ckptRedo, ckptDone, ckptTodo, images>>

NoCheckpoint ==
  /\ stage = "bgw"
  /\ ~ckptActive
  /\ stage' = "idle"
  /\ UNCHANGED <<engine, frames, hand, lsn, flushed, prevLsn, ckptVars, images>>

(* A frame written meanwhile is passed over, free of charge. *)
CkptWrite ==
  /\ stage = "ckpt"
  /\ left > 0
  /\ \E f \in ckptTodo :
       /\ ckptTodo' = ckptTodo \ {f}
       /\ IF frames[f].dirty /\ frames[f].ckpt
          THEN WriteBack(f) /\ left' = left - 1
          ELSE UNCHANGED <<frames, flushed, left>>
  /\ UNCHANGED <<engine, stage, hand, lsn, prevLsn, ckptActive, ckptRedo,
                 ckptDone, since, images>>

(* Recovery's start moves when nothing is left to write. *)
CkptPauses ==
  /\ stage = "ckpt"
  /\ left = 0
  /\ ckptTodo # {}
  /\ stage' = "idle"
  /\ UNCHANGED <<engine, frames, hand, lsn, flushed, prevLsn, ckptVars, images>>

CkptEnds ==
  /\ stage = "ckpt"
  /\ ckptTodo = {}
  /\ ckptActive' = FALSE
  /\ ckptDone'   = RedoAtEnd
  /\ since'      = 0
  /\ left'       = 0
  /\ stage'      = "idle"
  /\ UNCHANGED <<engine, frames, hand, lsn, flushed, prevLsn, ckptRedo,
                 ckptTodo, images>>

(* The "Evict a dirty frame" button takes the one changed last. *)
ForceEvict ==
  /\ stage = "idle"
  /\ \E f \in Dirty : /\ \A g \in Dirty : frames[g].lsn <= frames[f].lsn
                      /\ WriteBack(f)
  /\ UNCHANGED <<engine, stage, hand, lsn, prevLsn, ckptVars, images>>

Modify == \E b \in Block : ModifyResident(b) \/ ModifyLoad(b)
Clean  == CleanOldest \/ FlushLru \/ TickEnds
Ckpt   == CkptStart \/ CkptGoesOn \/ NoCheckpoint \/ CkptWrite \/ CkptPauses
          \/ CkptEnds
Tick   == Modify \/ WalWriter \/ Clean \/ BackgroundWrite \/ Ckpt

Next == Tick \/ ForceEvict \/ Reset
Spec == Init /\ [][Next]_vars

(* With Run pressed the ticker calls step() again and again. *)
RunningSpec == Spec /\ WF_vars(Tick)

-------------------------------------------------------------------------------
(* Pointers are ordered, counts are within their caps, and a frame is      *)
(* dirty from its first change to its last.                                *)
TypeOK ==
  /\ engine  \in {"pg", "innodb"}
  /\ stage   \in {"idle", "work", "clean", "lru", "bgw", "ckpt"}
  /\ frames  \in [Slot -> Frame]
  /\ hand    \in Slot
  /\ lsn     \in 0 .. MaxLsn
  /\ flushed \in 0 .. lsn
  /\ prevLsn \in 0 .. lsn
  /\ ckptActive \in BOOLEAN
  /\ ckptRedo \in 0 .. lsn
  /\ ckptDone \in 0 .. ckptRedo
  /\ ckptTodo \subseteq Slot
  /\ since   \in 0 .. Due
  /\ left    \in 0 .. MaxIo
  /\ images  \in [Block -> Nat]
  /\ \A f \in Slot : /\ frames[f].lsn <= lsn
                     /\ frames[f].dirty => frames[f].rec < frames[f].lsn

(* recoveryStart: where a crash now would make recovery read from. *)
IsStart(n) ==
  IF engine = "pg" THEN n = ckptDone
  ELSE IF Dirty = {} THEN n = lsn
  ELSE \E f \in Slot : Oldest(f, Dirty) /\ n = frames[f].rec

RecoveryStart == CHOOSE n \in 0 .. lsn : IsStart(n)

(* A frame that is clean holds nothing the durable log does not: whoever   *)
(* wrote it, backend, cleaner, background writer, checkpointer or button,  *)
(* the log went first.                                                     *)
WrittenIsLogged == \A f \in Slot : ~frames[f].dirty => frames[f].lsn <= flushed

(* No change that is still only in memory was logged before the point      *)
(* recovery would start from.                                              *)
NothingSkipped == \A f \in Dirty : RecoveryStart <= frames[f].rec

(* Recovery never starts beyond the durable log, although nobody flushes   *)
(* it when the start moves: the writes that let it move have done so.      *)
StartIsDurable == RecoveryStart <= flushed

(* Until the pool is reset recovery's start only moves forward. *)
StartMovesForward == [][~Reset => RecoveryStart' >= RecoveryStart]_vars

(* A resident page changed since the redo point has an image in the log    *)
(* after that point.                                                       *)
ImagedSinceRedo ==
  engine = "pg" =>
    \A f \in Slot : frames[f].page # NoBlock /\ frames[f].lsn > ckptRedo
                       => images[frames[f].page] > 0

(* While the ticker runs a checkpoint that began comes to its end. *)
CkptCompletes == ckptActive ~> ~ckptActive
===============================================================================
