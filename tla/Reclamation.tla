------------------------------ MODULE Reclamation ------------------------------
(***************************************************************************)
(* Safe memory reclamation as ReclamationSchemesRaceLab.tsx plays it: one  *)
(* writer inserts nodes into a linked list and unlinks others, readers     *)
(* walk the list without latches, and a scheme - epochs, hazard pointers,  *)
(* RCU, or none - decides when an unlinked node's memory is freed, to be   *)
(* used again by a later insert.                                           *)
(*                                                                         *)
(* A tick is the writer's turn, one turn of every reader in order, and the *)
(* scheme's own turn.  Whether the writer and each reader do something in  *)
(* a tick, where the writer inserts, what it unlinks and how far a lookup  *)
(* goes are settings, pauses and a seeded random sequence in the code;     *)
(* here they are free, so a paused reader is one that lets its turns pass. *)
(* A node's key and generation only serve to tell whether the memory under *)
(* a reader has been freed since it got there: lost holds those readers.   *)
(* Epochs count up for ever but only their differences are used, so lag    *)
(* and age hold the distance to the global epoch.  The free list is a set. *)
(***************************************************************************)
EXTENDS Integers, FiniteSets

CONSTANTS
  N,          \* the number of readers, 1 .. N
  Slot,       \* addresses; those not in use yet are free like the others
  Nil,        \* the null pointer
  ListLen,    \* LIST_LEN: the nodes in the list
  Threshold,  \* hpThreshold: R, the retire-list length that triggers a scan
  Schemes     \* the reclamation schemes offered

ASSUME ReadersAssumption   == N \in Nat
ASSUME SlotAssumption      == Nil \notin Slot /\ IsFiniteSet(Slot)
ASSUME ListAssumption      == ListLen \in Nat \ {0}
ASSUME ThresholdAssumption == Threshold \in Nat \ {0}
ASSUME SchemesAssumption   == Schemes \subseteq {"ebr", "hp", "rcu", "none"}

VARIABLES
  scheme, qsbr,   \* the scheme, and RCU's QSBR variant
  turn,           \* 0 the writer's, 1 .. N the readers', N + 1 the scheme's
  state,          \* of every slot: "live", "retired" (unlinked) or "free"
  next,           \* the next pointer of every slot
  head,           \* the first node of the list
  pos,            \* the node each reader stands on; Nil between operations
  lost,           \* the readers whose node was freed under them
  lag,            \* EBR: epochs since each reader pinned; Unpinned
  age,            \* EBR: epochs since each node was retired
  hp,             \* HP: the node each reader has published
  rlist,          \* HP: the writer's retire list
  inCS,           \* RCU: the readers inside a read-side critical section
  batch,          \* RCU: the nodes of the grace period that runs, if any
  wait,           \* RCU: the readers it waits for
  nextBatch       \* RCU: the nodes queued for the next grace period

config == <<scheme, qsbr>>
list   == <<state, next, head>>
ebr    == <<lag, age>>
hazard == <<hp, rlist>>
rcu    == <<inCS, batch, wait, nextBatch>>
vars   == <<config, turn, list, pos, lost, ebr, hazard, rcu>>

Reader   == 1 .. N
Unpinned == -1

Live    == {s \in Slot : state[s] = "live"}
Retired == {s \in Slot : state[s] = "retired"}
Free    == {s \in Slot : state[s] = "free"}

(* h, and what next leads to from there, is a list of the nodes in S. *)
IsList(h, nx, S) ==
  \E f \in [1 .. ListLen -> S] :
    /\ \A s \in S : \E i \in 1 .. ListLen : f[i] = s
    /\ h = f[1]
    /\ \A i \in 1 .. ListLen - 1 : nx[f[i]] = f[i + 1]
    /\ nx[f[ListLen]] = Nil

Init ==
  /\ scheme \in Schemes
  /\ qsbr \in IF scheme = "rcu" THEN BOOLEAN ELSE {FALSE}
  /\ turn = 0
  /\ \E S \in SUBSET Slot :
       /\ Cardinality(S) = ListLen
       /\ state = [s \in Slot |-> IF s \in S THEN "live" ELSE "free"]
       /\ head \in S
       /\ next \in [Slot -> S \union {Nil}]
       /\ IsList(head, next, S)
       /\ \A s \in Slot \ S : next[s] = Nil
  /\ pos   = [r \in Reader |-> Nil]
  /\ lost  = {}
  /\ lag   = [r \in Reader |-> Unpinned]
  /\ age   = [s \in Slot |-> 0]
  /\ hp    = [r \in Reader |-> Nil]
  /\ rlist = {}
  /\ inCS  = {}
  /\ batch = {}
  /\ wait  = {}
  /\ nextBatch = {}

-------------------------------------------------------------------------------
(* freeSlot: the memory of the nodes in S may be used again. *)
Frees(S, st) ==
  /\ state' = [s \in Slot |-> IF s \in S THEN "free" ELSE st[s]]
  /\ lost'  = lost \union {r \in Reader : pos[r] \in S}

(* setNext, for the head and for a node. *)
HeadSet(p, x, h)  == IF p = Nil THEN x ELSE h
NextSet(p, x, nx) == IF p = Nil THEN nx ELSE [nx EXCEPT ![p] = x]

(* A bug: a list a scan has left at the threshold is never scanned again. *)
ScanDueOnce(S) == Cardinality(S) = Threshold
ScanDue(S)     == Cardinality(S) >= Threshold

Held == {hp[r] : r \in Reader}

(* What becomes of the node v that was just unlinked; st is the state of   *)
(* the slots after it.                                                     *)
RetireEbr(v, st) ==
  /\ scheme = "ebr"
  /\ age' = [age EXCEPT ![v] = 0]
  /\ Frees({}, st)
  /\ UNCHANGED <<lag, hazard, rcu>>

RetireHp(v, st) ==
  LET S == rlist \union {v}
      F == IF ScanDue(S) THEN S \ Held ELSE {}
  IN /\ scheme = "hp"
     /\ rlist' = S \ F
     /\ Frees(F, st)
     /\ UNCHANGED <<ebr, hp, rcu>>

RetireRcu(v, st) ==
  /\ scheme = "rcu"
  /\ nextBatch' = nextBatch \union {v}
  /\ Frees({}, st)
  /\ UNCHANGED <<ebr, hazard, inCS, batch, wait>>

RetireNone(v, st) ==
  /\ scheme = "none"
  /\ Frees({v}, st)
  /\ UNCHANGED <<ebr, hazard, rcu>>

(* A node goes in behind p (Nil: at the head), a node v that follows q is *)
(* unlinked; v keeps its next pointer.                                     *)
WriterStep(n, p, v, q) ==
  LET h1  == HeadSet(p, n, head)
      nx1 == NextSet(p, n, [next EXCEPT ![n] = IF p = Nil THEN head ELSE next[p]])
      st  == [state EXCEPT ![n] = "live", ![v] = "retired"]
  IN /\ n \in Free
     /\ p \in Live \union {Nil}
     /\ v \in Live
     /\ IF q = Nil THEN h1 = v ELSE nx1[q] = v
     /\ head' = HeadSet(q, nx1[v], h1)
     /\ next' = NextSet(q, nx1[v], nx1)
     /\ \/ RetireEbr(v, st)
        \/ RetireHp(v, st)
        \/ RetireRcu(v, st)
        \/ RetireNone(v, st)

WriterTurn ==
  /\ turn = 0
  /\ turn' = 1
  /\ \/ \E n, v \in Slot, p, q \in Slot \union {Nil} :
          q \in Live \union {n, Nil} /\ WriterStep(n, p, v, q)
     \/ UNCHANGED <<list, lost, ebr, hazard, rcu>>
  /\ UNCHANGED <<config, pos>>

-------------------------------------------------------------------------------
(* The reader takes up node s, which may be free memory already. *)
Visit(r, s) ==
  /\ pos'  = [pos EXCEPT ![r] = s]
  /\ hp'   = [hp EXCEPT ![r] = IF scheme = "hp" THEN s ELSE Nil]
  /\ lost' = IF state[s] = "free" THEN lost \union {r} ELSE lost \ {r}

BeginOp(r) ==
  /\ pos[r] = Nil
  /\ Visit(r, head)
  /\ lag'  = [lag EXCEPT ![r] = IF scheme = "ebr" THEN 0 ELSE Unpinned]
  /\ inCS' = IF scheme = "rcu" /\ ~qsbr THEN inCS \union {r} ELSE inCS
  /\ UNCHANGED <<age, rlist, batch, wait, nextBatch>>

(* A bug: the node the reader comes from is not validated. *)
MustRestartNever(r) == FALSE

(* Validation: the node it stands on has been unlinked. *)
MustRestart(r) == scheme = "hp" /\ state[pos[r]] = "retired"

Restart(r) ==
  /\ pos[r] # Nil
  /\ MustRestart(r)
  /\ Visit(r, head)
  /\ UNCHANGED <<ebr, rlist, rcu>>

Advance(r) ==
  /\ pos[r] # Nil
  /\ ~MustRestart(r)
  /\ next[pos[r]] # Nil
  /\ Visit(r, next[pos[r]])
  /\ UNCHANGED <<ebr, rlist, rcu>>

(* A bug: the end of an operation is not reported to the grace period. *)
WaitKept(r)  == wait
WaitAfter(r) == wait \ {r}

(* The end of the list, or the depth of the lookup. *)
EndOp(r) ==
  /\ pos[r] # Nil
  /\ ~MustRestart(r)
  /\ pos'  = [pos EXCEPT ![r] = Nil]
  /\ lost' = lost \ {r}
  /\ lag'  = [lag EXCEPT ![r] = Unpinned]
  /\ hp'   = [hp EXCEPT ![r] = Nil]
  /\ inCS' = inCS \ {r}
  /\ wait' = WaitAfter(r)
  /\ UNCHANGED <<age, rlist, batch, nextBatch>>

ReaderTurn ==
  /\ turn \in Reader
  /\ turn' = turn + 1
  /\ \/ BeginOp(turn)
     \/ Restart(turn)
     \/ Advance(turn)
     \/ EndOp(turn)
     \/ UNCHANGED <<pos, lost, ebr, hazard, rcu>>
  /\ UNCHANGED <<config, list>>

-------------------------------------------------------------------------------
(* A bug: the epoch advances past readers that are pinned behind it. *)
MayAdvanceAlways == TRUE
MayAdvance == \A r \in Reader : lag[r] \in {Unpinned, 0}

(* Nodes retired two epochs ago are freed. *)
ReclaimEbr ==
  LET d    == IF MayAdvance THEN 1 ELSE 0
      done == {s \in Retired : age[s] + d >= 2}
  IN /\ scheme = "ebr"
     /\ lag' = [r \in Reader |-> IF lag[r] = Unpinned THEN Unpinned ELSE lag[r] + d]
     /\ age' = [s \in Slot |-> IF s \in Retired \ done THEN age[s] + d ELSE 0]
     /\ Frees(done, state)
     /\ UNCHANGED <<hazard, rcu>>

(* The readers a grace period that starts now waits for. *)
MustWaitFor == IF qsbr THEN Reader ELSE inCS

(* A grace period that has waited for everybody ends, and the next starts; *)
(* it ends at once when there is nobody to wait for.                       *)
ReclaimRcu ==
  LET ended   == IF wait = {} THEN batch ELSE {}
      starts  == batch = ended /\ nextBatch # {}
      atOnce  == IF starts /\ MustWaitFor = {} THEN nextBatch ELSE {}
  IN /\ scheme = "rcu"
     /\ Frees(ended \union atOnce, state)
     /\ IF starts
        THEN /\ batch'     = nextBatch \ atOnce
             /\ wait'      = MustWaitFor
             /\ nextBatch' = {}
        ELSE /\ batch'     = batch \ ended
             /\ UNCHANGED <<wait, nextBatch>>
     /\ UNCHANGED <<ebr, hazard, inCS>>

ReclaimTurn ==
  /\ turn = N + 1
  /\ turn' = 0
  /\ \/ ReclaimEbr
     \/ ReclaimRcu
     \/ scheme \in {"hp", "none"} /\ UNCHANGED <<state, lost, ebr, hazard, rcu>>
  /\ UNCHANGED <<config, next, head, pos>>

Next == WriterTurn \/ ReaderTurn \/ ReclaimTurn

(* The ticker calls for one tick after another. *)
Spec == Init /\ [][Next]_vars /\ WF_vars(Next)

-------------------------------------------------------------------------------
TypeOK ==
  /\ scheme \in Schemes
  /\ qsbr  \in BOOLEAN
  /\ turn  \in 0 .. N + 1
  /\ state \in [Slot -> {"live", "retired", "free"}]
  /\ next  \in [Slot -> Slot \union {Nil}]
  /\ head  \in Live
  /\ pos   \in [Reader -> Slot \union {Nil}]
  /\ lost  \subseteq Reader
  /\ lag   \in [Reader -> {Unpinned, 0, 1}]
  /\ age   \in [Slot -> {0, 1}]
  /\ hp    \in [Reader -> Slot \union {Nil}]
  /\ rlist \subseteq Retired
  /\ inCS  \subseteq Reader
  /\ batch \subseteq Retired
  /\ wait  \subseteq Reader
  /\ nextBatch \subseteq Retired

Walking == {r \in Reader : pos[r] # Nil}

(* The list is whole: the live nodes, each once, from head to the end. *)
ListWhole == Cardinality(Live) = ListLen /\ IsList(head, next, Live)

(* The nodes next pointers lead to from s. *)
Ahead(s) ==
  LET after[i \in 0 .. Cardinality(Slot)] ==
        IF i = 0 THEN {s}
        ELSE after[i - 1] \union ({next[x] : x \in after[i - 1]} \ {Nil})
  IN after[Cardinality(Slot)]

(* Under every scheme no reader ever stands on memory that was freed since *)
(* it got the pointer; under epochs and RCU nor is any node freed that it  *)
(* can still reach from there.  The list a new reader enters is whole.     *)
ReadersSafe ==
  /\ ListWhole
  /\ scheme # "none" =>
       /\ lost = {}
       /\ scheme # "hp" =>
            \A r \in Walking : Ahead(pos[r]) \subseteq Live \union Retired

(* "Memory is bounded by R and the number of hazard pointers, whatever the *)
(* readers do": by the larger of R - 1 and that number.                    *)
HpBounded ==
  scheme = "hp" => \/ Cardinality(Retired) < Threshold
                   \/ Cardinality(Retired) <= N

(* No reader stays in an operation for ever, nor, with QSBR, out of one.    *)
NobodyStalls ==
  \A r \in Reader : /\ []<>(pos[r] = Nil)
                    /\ []<>(qsbr => pos[r] # Nil)

(* Memory is given back: if no reader stalls for ever, every unlinked node *)
(* is freed in the end under epochs and RCU - a reader reported late or a  *)
(* batch that waits behind another grace period does not keep it.          *)
AllFreed ==
  NobodyStalls =>
    \A s \in Slot : (state[s] = "retired" /\ scheme \in {"ebr", "rcu"})
                      ~> state[s] = "free"
===============================================================================
