------------------------------ MODULE BufferPool ------------------------------
(***************************************************************************)
(* The shared buffer pool of BufferFrameDescriptorLab.tsx: an array of     *)
(* frame descriptors, the page table (a tag is found by looking through    *)
(* the descriptors), the clock hand, and backends that walk a ReadBuffer() *)
(* request one micro-operation at a time:                                  *)
(*                                                                         *)
(*   lookup -> victim -> [writeback ->] swap -> io -> done                 *)
(*        \-> done / wait              \-> done / wait                     *)
(*                                                                         *)
(* Nothing is locked between two micro-operations, so the victim a backend *)
(* has chosen may be pinned, dirtied, retagged or withdrawn by another one *)
(* before it swaps the tag.  The hit, read, eviction and write counters,   *)
(* the narration and the event log are left out.                           *)
(***************************************************************************)
EXTENDS Integers, Sequences, FiniteSets, ClockSweep

CONSTANTS
  Backend,    \* the processes sharing the pool ("A" and "B" in the code)
  Page,       \* the pages on disk (PAGES)
  NoPage,     \* the tag of a free frame
  MinFrames,  \* the smallest pool the slider offers
  MaxFrames,  \* MAX_FRAMES: the largest, and the initial, pool
  MaxUsage,   \* MAX_USAGE: BM_MAX_USAGE_COUNT
  MaxPins     \* bound: the pins one backend may hold at once

ASSUME BackendAssumption == IsFiniteSet(Backend)
ASSUME PageAssumption    == NoPage \notin Page
ASSUME FramesAssumption  == /\ MinFrames \in Nat \ {0}
                            /\ MaxFrames \in Nat
                            /\ MinFrames <= MaxFrames
ASSUME UsageAssumption   == MaxUsage \in Nat \ {0}
ASSUME PinsAssumption    == MaxPins \in Nat

VARIABLES
  size,    \* the number of frames in the pool
  frames,  \* the descriptors; those at size and beyond are Blank
  hand,    \* the clock hand
  phase,   \* the micro-operation each backend runs next
  want,    \* the tag each backend asked for
  buf,     \* the frame its request resolved to
  victim,  \* the frame it chose to evict
  pins     \* the frames it holds pinned, oldest first

vars  == <<size, frames, hand, phase, want, buf, victim, pins>>

Phase == {"idle", "lookup", "victim", "writeback", "swap", "io", "wait",
          "done", "error"}

Slot  == 0 .. MaxFrames - 1
None  == -1                      \* a null frame id
Live  == {f \in Slot : f < size} \* the frames the pool has now

Blank == [tag |-> NoPage, pin |-> 0, usage |-> 0,
          dirty |-> FALSE, valid |-> FALSE, io |-> FALSE]

FrameDesc == [tag : Page \union {NoPage}, pin : Nat, usage : 0 .. MaxUsage,
              dirty : BOOLEAN, valid : BOOLEAN, io : BOOLEAN]

Init ==
  /\ size   = MaxFrames
  /\ frames = [f \in Slot |-> Blank]
  /\ hand   = 0
  /\ phase  = [b \in Backend |-> "idle"]
  /\ want   = [b \in Backend |-> NoPage]
  /\ buf    = [b \in Backend |-> None]
  /\ victim = [b \in Backend |-> None]
  /\ pins   = [b \in Backend |-> <<>>]

-------------------------------------------------------------------------------
(* ReadBuffer(t): a backend between requests asks for a page. *)
Request(b, t) ==
  /\ phase[b] \in {"idle", "done", "error"}
  /\ Len(pins[b]) < MaxPins
  /\ want'   = [want EXCEPT ![b] = t]
  /\ buf'    = [buf EXCEPT ![b] = None]
  /\ victim' = [victim EXCEPT ![b] = None]
  /\ phase'  = [phase EXCEPT ![b] = "lookup"]
  /\ UNCHANGED <<size, frames, hand, pins>>

Tagged(t) == {f \in Live : frames[f].tag = t}
First(f, S) == f \in S /\ \A g \in S : f <= g    \* Array.find

(* A bug for the mutants to plant: the usage count is not capped. *)
PinnedUncapped(d) == [d EXCEPT !.pin = @ + 1, !.usage = @ + 1]

Pinned(d) == [d EXCEPT !.pin   = @ + 1,
                       !.usage = IF @ < MaxUsage THEN @ + 1 ELSE @]

(* PinBuffer: pin the frame, bump its usage count, and wait if its page is *)
(* still being read by someone else.                                       *)
PinFound(b, f) ==
  /\ frames' = [frames EXCEPT ![f] = Pinned(@)]
  /\ buf'    = [buf EXCEPT ![b] = f]
  /\ pins'   = [pins EXCEPT ![b] = Append(@, f)]
  /\ phase'  = [phase EXCEPT ![b] =
                  IF frames[f].io \/ ~frames[f].valid THEN "wait" ELSE "done"]

LookupHit(b) ==
  /\ phase[b] = "lookup"
  /\ \E f \in Live : First(f, Tagged(want[b])) /\ PinFound(b, f)
  /\ UNCHANGED <<size, hand, want, victim>>

LookupMiss(b) ==
  /\ phase[b] = "lookup"
  /\ Tagged(want[b]) = {}
  /\ phase' = [phase EXCEPT ![b] = "victim"]
  /\ UNCHANGED <<size, frames, hand, want, buf, victim, pins>>

Free      == {f \in Live : /\ frames[f].tag = NoPage
                           /\ frames[f].pin = 0
                           /\ ~frames[f].io}
Candidate == {f \in Live : frames[f].pin = 0 /\ ~frames[f].io}
Usage     == [f \in Slot |-> frames[f].usage]

(* StrategyGetBuffer: a frame off the free list when there is one ... *)
TakeFree(b) ==
  /\ phase[b] = "victim"
  /\ \E f \in Free : First(f, Free) /\ victim' = [victim EXCEPT ![b] = f]
  /\ phase' = [phase EXCEPT ![b] = "swap"]
  /\ UNCHANGED <<size, frames, hand, want, buf, pins>>

Aged(d, u) == [d EXCEPT !.usage = u]

(* ... otherwise the clock sweep; the victim is chosen but not reserved. *)
Sweep(b) ==
  /\ phase[b] = "victim"
  /\ Free = {}
  /\ \E v \in Candidate :
        /\ IsVictim(v, Candidate, Usage, hand, size)
        /\ frames' = [f \in Slot |-> Aged(frames[f],
                         UsageAfter(f, v, Candidate, Usage, hand, size))]
        /\ hand'   = HandAfter(v, size)
        /\ victim' = [victim EXCEPT ![b] = v]
        /\ phase'  = [phase EXCEPT ![b] =
                        IF frames[v].dirty THEN "writeback" ELSE "swap"]
  /\ UNCHANGED <<size, want, buf, pins>>

(* Every frame is pinned or being read: the request fails. *)
SweepFails(b) ==
  /\ phase[b] = "victim"
  /\ Candidate = {}
  /\ phase' = [phase EXCEPT ![b] = "error"]
  /\ UNCHANGED <<size, frames, hand, want, buf, victim, pins>>

(* FlushBuffer: the dirty victim is written before the tag is swapped. *)
WriteBack(b) ==
  /\ phase[b] = "writeback"
  /\ victim[b] \in Live
  /\ frames' = [frames EXCEPT ![victim[b]] = [@ EXCEPT !.dirty = FALSE]]
  /\ phase'  = [phase EXCEPT ![b] = "swap"]
  /\ UNCHANGED <<size, hand, want, buf, victim, pins>>

(* The victim was withdrawn by a resize, or pinned by another backend *)
(* since it was chosen: choose again.                                 *)
VictimGone(b) ==
  /\ \/ phase[b] = "writeback" /\ victim[b] \notin Live
     \/ /\ phase[b] = "swap"
        /\ \/ victim[b] \notin Live
           \/ victim[b] \in Live /\ frames[victim[b]].pin > 0
  /\ phase' = [phase EXCEPT ![b] = "victim"]
  /\ UNCHANGED <<size, frames, hand, want, buf, victim, pins>>

(* A bug: the victim's pin count is not looked at again before the swap. *)
VictimUnchecked(b) == phase[b] = "swap" /\ victim[b] \in Live

VictimReady(b) == /\ phase[b] = "swap"
                  /\ victim[b] \in Live
                  /\ frames[victim[b]].pin = 0

(* A bug: the insert does not look for an entry made in the meantime. *)
NoReprobe(b) == {}

(* BufTableInsert re-probes: another backend's entry for the tag wins and *)
(* the victim is handed back.                                             *)
RacedBy(b) == Tagged(want[b]) \ {victim[b]}

SwapLosesRace(b) ==
  /\ VictimReady(b)
  /\ \E f \in RacedBy(b) : First(f, RacedBy(b)) /\ PinFound(b, f)
  /\ victim' = [victim EXCEPT ![b] = None]
  /\ UNCHANGED <<size, hand, want>>

Reading(t) == [tag |-> t, pin |-> 1, usage |-> 1,
               dirty |-> FALSE, valid |-> FALSE, io |-> TRUE]

(* The victim's old tag is deleted and the new one inserted. *)
SwapTag(b) ==
  /\ VictimReady(b)
  /\ RacedBy(b) = {}
  /\ frames' = [frames EXCEPT ![victim[b]] = Reading(want[b])]
  /\ buf'    = [buf EXCEPT ![b] = victim[b]]
  /\ pins'   = [pins EXCEPT ![b] = Append(@, victim[b])]
  /\ phase'  = [phase EXCEPT ![b] = "io"]
  /\ UNCHANGED <<size, hand, want, victim>>

(* A bug: the read ends without waking the backends that wait for it. *)
ReadDoneWakesNobody(b) ==
  /\ phase[b] = "io"
  /\ buf[b] \in Live
  /\ frames' = [frames EXCEPT ![buf[b]] =
                  [@ EXCEPT !.io = FALSE, !.valid = TRUE]]
  /\ phase'  = [phase EXCEPT ![b] = "done"]
  /\ UNCHANGED <<size, hand, want, buf, victim, pins>>

(* TerminateBufferIO: the page is valid, and whoever waits on the frame wakes. *)
ReadDone(b) ==
  /\ phase[b] = "io"
  /\ buf[b] \in Live
  /\ frames' = [frames EXCEPT ![buf[b]] =
                  [@ EXCEPT !.io = FALSE, !.valid = TRUE]]
  /\ phase'  = [c \in Backend |->
                  IF \/ c = b
                     \/ phase[c] = "wait" /\ buf[c] = buf[b]
                  THEN "done" ELSE phase[c]]
  /\ UNCHANGED <<size, hand, want, buf, victim, pins>>

(* One press of Step for backend b. *)
Step(b) ==
  \/ LookupHit(b) \/ LookupMiss(b)
  \/ TakeFree(b) \/ Sweep(b) \/ SweepFails(b)
  \/ WriteBack(b) \/ VictimGone(b) \/ SwapLosesRace(b) \/ SwapTag(b)
  \/ ReadDone(b)

-------------------------------------------------------------------------------
(* MarkBufferDirty on the buffer pinned last. *)
MarkDirty(b) ==
  /\ phase[b] # "wait"
  /\ pins[b] # <<>>
  /\ LET f == pins[b][Len(pins[b])]
     IN /\ frames[f].valid
        /\ ~frames[f].dirty
        /\ frames' = [frames EXCEPT ![f] = [@ EXCEPT !.dirty = TRUE]]
  /\ UNCHANGED <<size, hand, phase, want, buf, victim, pins>>

(* A bug: however many pins are given back, one is counted. *)
ReleasedOne(d, n) == [d EXCEPT !.pin = IF @ >= 1 THEN @ - 1 ELSE 0]

(* Give back n pins; the code never counts below zero. *)
Released(d, n) == [d EXCEPT !.pin = IF @ >= n THEN @ - n ELSE 0]

(* ReleaseBuffer leaves a backend that holds nothing more idle; nothing *)
(* keeps a backend from releasing the frame it is still reading.         *)
BackToIdle(b, left) ==
  IF left = <<>> /\ phase[b] = "done"
  THEN /\ phase' = [phase EXCEPT ![b] = "idle"]
       /\ buf'   = [buf EXCEPT ![b] = None]
  ELSE UNCHANGED <<phase, buf>>

UnpinLast(b) ==
  /\ phase[b] # "wait"
  /\ pins[b] # <<>>
  /\ LET n    == Len(pins[b])
         left == SubSeq(pins[b], 1, n - 1)
     IN /\ frames' = [frames EXCEPT ![pins[b][n]] = Released(@, 1)]
        /\ pins'   = [pins EXCEPT ![b] = left]
        /\ BackToIdle(b, left)
  /\ UNCHANGED <<size, hand, want, victim>>

(* The pins on a frame, as <<backend, position in its list>>. *)
Holds(f) == {h \in Backend \X (1 .. MaxPins) :
               /\ h[2] <= Len(pins[h[1]])
               /\ pins[h[1]][h[2]] = f}

PinsOn(b, f) == {h \in Holds(f) : h[1] = b}

UnpinAll(b) ==
  /\ phase[b] # "wait"
  /\ pins[b] # <<>>
  /\ frames' = [f \in Slot |->
                  Released(frames[f], Cardinality(PinsOn(b, f)))]
  /\ pins'   = [pins EXCEPT ![b] = <<>>]
  /\ BackToIdle(b, <<>>)
  /\ UNCHANGED <<size, hand, want, victim>>

-------------------------------------------------------------------------------
Grow(n) ==
  /\ n > size
  /\ size' = n
  /\ UNCHANGED <<frames, hand, phase, want, buf, victim, pins>>

(* The frames a shrink cannot take: it stops above the last of them. *)
Blocked(f) == frames[f].pin > 0 \/ frames[f].io

ShrunkTo(m, n) ==
  /\ m \in n .. size
  /\ \A f \in m .. size - 1 : ~Blocked(f)
  /\ m > n => Blocked(m - 1)

(* The ids of withdrawn frames are filtered out of the pin lists. *)
KeepPins(s, m) ==
  IF \A i \in DOMAIN s : s[i] < m THEN s
  ELSE SelectSeq(s, LAMBDA f : f < m)

Shrink(n) ==
  /\ n < size
  /\ \E m \in n .. size :
        /\ ShrunkTo(m, n)
        /\ size'   = m
        /\ hand'   = hand % m
        /\ frames' = [f \in Slot |-> IF f < m THEN frames[f] ELSE Blank]
        /\ pins'   = [b \in Backend |-> KeepPins(pins[b], m)]
        /\ buf'    = [b \in Backend |-> IF buf[b] >= m THEN None ELSE buf[b]]
        /\ victim' = [b \in Backend |->
                        IF victim[b] >= m THEN None ELSE victim[b]]
  /\ UNCHANGED <<phase, want>>

Resize == \E n \in MinFrames .. MaxFrames : Grow(n) \/ Shrink(n)

(* The Reset button. *)
Reset ==
  /\ size'   = MaxFrames
  /\ frames' = [f \in Slot |-> Blank]
  /\ hand'   = 0
  /\ phase'  = [b \in Backend |-> "idle"]
  /\ want'   = [b \in Backend |-> NoPage]
  /\ buf'    = [b \in Backend |-> None]
  /\ victim' = [b \in Backend |-> None]
  /\ pins'   = [b \in Backend |-> <<>>]

Next ==
  \/ \E b \in Backend :
        \/ \E t \in Page : Request(b, t)
        \/ Step(b)
        \/ MarkDirty(b)
        \/ UnpinLast(b)
        \/ UnpinAll(b)
  \/ Resize
  \/ Reset

(* A backend that has started a request keeps taking its steps; users need *)
(* not request, dirty, release or resize anything.                         *)
Fairness == \A b \in Backend : WF_vars(Step(b))

Spec     == Init /\ [][Next]_vars
FairSpec == Spec /\ Fairness

-------------------------------------------------------------------------------
TypeOK ==
  /\ size   \in MinFrames .. MaxFrames
  /\ frames \in [Slot -> FrameDesc]
  /\ hand   \in 0 .. size - 1
  /\ phase  \in [Backend -> Phase]
  /\ want   \in [Backend -> Page \union {NoPage}]
  /\ buf    \in [Backend -> Slot \union {None}]
  /\ victim \in [Backend -> Slot \union {None}]
  /\ pins   \in [Backend -> Seq(Slot)]
  /\ \A b \in Backend : Len(pins[b]) <= MaxPins
  /\ \A f \in Slot \ Live : frames[f] = Blank

(* The page table has at most one entry per page: two backends that miss   *)
(* the same page at the same time never read it into two frames.  It is    *)
(* the re-probe before the insert (SwapLosesRace) that keeps this true.    *)
OneFramePerPage ==
  \A f, g \in Live :
    /\ frames[f].tag # NoPage
    /\ frames[f].tag = frames[g].tag
    => f = g

(* A descriptor's refcount is exactly the number of pins the backends hold *)
(* on it, whatever races, releases and resizes happened in between.        *)
PinsCounted == \A f \in Slot : frames[f].pin = Cardinality(Holds(f))

HeldBy(b) == {pins[b][i] : i \in DOMAIN pins[b]}

(* The pin contract: as long as a backend keeps the pin its finished       *)
(* request gave it, that frame holds the page it asked for, with its bytes *)
(* marked valid; no sweep, swap or resize of another backend takes it.     *)
PinContract ==
  \A b \in Backend :
    /\ phase[b] = "done"
    /\ buf[b] \in HeldBy(b)
    => /\ frames[buf[b]].tag = want[b]
       /\ frames[buf[b]].valid

(* Whoever waits for a page waits on a frame some other backend is still   *)
(* reading, so no wake-up is lost.                                         *)
WaiterHasReader ==
  \A b \in Backend : phase[b] = "wait" =>
    /\ buf[b] \in HeldBy(b)
    /\ \E c \in Backend \ {b} : phase[c] = "io" /\ buf[c] = buf[b]

(* From every pool the backends can reach, the clock-sweep loop takes the  *)
(* victim Sweep names and leaves the counts and the hand Sweep leaves; it  *)
(* comes back empty-handed only when no frame can be taken at all - so     *)
(* MAX_USAGE + 1 turns wear down any counts - and then leaves no trace.    *)
SweepCorrect ==
  LET s == SweepLoop(Candidate, Usage, hand, size, MaxUsage)
  IN IF Candidate = {}
     THEN s = [usage |-> Usage, hand |-> hand, chosen |-> NoFrame]
     ELSE /\ IsVictim(s.chosen, Candidate, Usage, hand, size)
          /\ s.hand = HandAfter(s.chosen, size)
          /\ \A f \in Live :
               s.usage[f] = UsageAfter(f, s.chosen, Candidate, Usage, hand, size)

(* A backend blocked in WaitIO is woken: "Step the other backend to        *)
(* completion and this one wakes."                                         *)
WaitEnds == \A b \in Backend : phase[b] = "wait" ~> phase[b] # "wait"

(* "a victim search writes it out": a dirty page leaves the pool, or turns *)
(* clean, only in a write-back or in a shrink, which writes what it drops. *)
DirtyIsWritten ==
  [][\A f \in Slot : frames[f].dirty =>
       \/ frames'[f].dirty /\ frames'[f].tag = frames[f].tag
       \/ \E b \in Backend : phase[b] = "writeback" /\ victim[b] = f
       \/ size' < size
       \/ Reset]_vars

(* A backend that has issued its read finishes it. *)
ReadEnds == \A b \in Backend : phase[b] = "io" ~> phase[b] # "io"
===============================================================================
