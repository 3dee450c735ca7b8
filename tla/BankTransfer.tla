----------------------------- MODULE BankTransfer -----------------------------
(***************************************************************************)
(* The lab of BankTransferInterleaveLab.tsx: transaction 1 moves money     *)
(* from row A to row B, transaction 2 from B to A.  Each reads a balance,  *)
(* computes, and writes the result back as a literal.  The user chooses    *)
(* whether a transfer is one transaction or each statement its own,        *)
(* whether rows are locked from the first touch to the end, in which order *)
(* the steps are issued, and where the power is cut.                       *)
(*                                                                         *)
(* A step that meets a lock leaves its transaction blocked and stays in    *)
(* the queue.  When nobody in the queue can run, the transaction that was  *)
(* blocked last is rolled back.                                            *)
(***************************************************************************)
EXTENDS Integers, Sequences, FiniteSets

CONSTANTS
  Start,         \* the balance both rows start with
  Move1,         \* what transaction 1 moves from A to B
  Move2,         \* what transaction 2 moves from B to A
  FreeSchedule   \* any order of the steps, or only those the sliders build

BankAssumption ==
  /\ Start \in Nat /\ Move1 \in Nat \ {0} /\ Move2 \in Nat \ {0}
  /\ FreeSchedule \in BOOLEAN

VARIABLES
  mode,         \* "explicit" or "autocommit"
  iso,          \* strict two-phase locking is switched on
  queue,        \* whose steps are still to be issued, in order
  val, ver,     \* the rows: balance, and number of writes
  lock,         \* who holds the row
  blocked,      \* the row a transaction waits for
  pc, state,    \* the next step of a transaction; run, committed, aborted
  reg,          \* what a transaction has read of a row
  readFrom,     \* whose uncommitted writes a transaction has read
  undo,         \* undo records, oldest first
  staleWrites,  \* undo records of writes computed from an old version
  lastBlocked, victim, crashed

settings == <<mode, iso>>
rows     == <<val, ver>>
vars     == <<settings, queue, rows, lock, blocked, pc, state, reg, readFrom,
              undo, staleWrites, lastBlocked, victim, crashed>>

Txn == {1, 2}
Row == {"A", "B"}
Nobody  == 0
NoRow   == "none"
NotRead == [v |-> 0, ver |-> -1]

other(t) == 3 - t

(* PROGRAM: read and write one row, then the other, then commit. *)
Path  == << <<"A", "B">>, <<"B", "A">> >>
Delta == << [A |-> -Move1, B |-> Move1], [A |-> Move2, B |-> -Move2] >>

Reading(t)    == pc[t] \in {0, 2}
Writing(t)    == pc[t] \in {1, 3}
Committing(t) == pc[t] = 4
Touched(t)    == Path[t][(pc[t] \div 2) + 1]

locking == iso /\ mode = "explicit"

-------------------------------------------------------------------------------
(* buildOrder(): lead steps of transaction 1, then stride steps of either  *)
(* in turn, beginning with 2; after ten turns nothing is left.             *)
Times(t, n) == [i \in 1 .. n |-> t]
Least(m, n) == IF m < n THEN m ELSE n

take(s, n) ==
  LET k == Least(n, s.left[s.turn]) IN
  [left |-> [s.left EXCEPT ![s.turn] = @ - k],
   turn |-> other(s.turn),
   out  |-> s.out \o Times(s.turn, k)]

Led(lead) == [left |-> [t \in Txn |-> IF t = 1 THEN 5 - lead ELSE 5],
              turn |-> 2,
              out  |-> Times(1, lead)]

buildOrder(lead, stride) ==
  LET run[i \in 0 .. 10] == IF i = 0 THEN Led(lead) ELSE take(run[i - 1], stride)
  IN  run[10].out

SliderOrders == {buildOrder(lead, stride) : lead \in 0 .. 5, stride \in 1 .. 5}

(* Every order of five steps each, the sliders' among them. *)
AllOrders ==
  {[i \in 1 .. 10 |-> IF i \in mine THEN 1 ELSE 2] :
     mine \in {s \in SUBSET (1 .. 10) : Cardinality(s) = 5}}

Init ==
  /\ mode \in {"explicit", "autocommit"}
  /\ iso \in BOOLEAN
  /\ queue \in IF FreeSchedule THEN AllOrders ELSE SliderOrders
  /\ val         = [r \in Row |-> Start]
  /\ ver         = [r \in Row |-> 0]
  /\ lock        = [r \in Row |-> Nobody]
  /\ blocked     = [t \in Txn |-> NoRow]
  /\ pc          = [t \in Txn |-> 0]
  /\ state       = [t \in Txn |-> "run"]
  /\ reg         = [t \in Txn |-> [r \in Row |-> NotRead]]
  /\ readFrom    = [t \in Txn |-> {}]
  /\ undo        = <<>>
  /\ staleWrites = {}
  /\ lastBlocked = Nobody
  /\ victim      = Nobody
  /\ crashed     = FALSE

-------------------------------------------------------------------------------
Runnable(t) == state[t] = "run" /\ blocked[t] = NoRow

(* A bug: only the head of the queue is looked at. *)
FirstHead(i) == i = 1 /\ Runnable(queue[1])

(* findIndex: the first step in the queue whose transaction can run. *)
First(i) == Runnable(queue[i]) /\ \A j \in 1 .. i - 1 : ~Runnable(queue[j])
Turn(t)  == \E i \in DOMAIN queue : First(i) /\ queue[i] = t

Without(i) == SubSeq(queue, 1, i - 1) \o SubSeq(queue, i + 1, Len(queue))

(* The step is done: it leaves the queue and the program moves on. *)
Done(t) ==
  /\ \E i \in DOMAIN queue : First(i) /\ queue' = Without(i)
  /\ pc' = [pc EXCEPT ![t] = @ + 1]

(* A bug: only a writer asks whether the row is locked. *)
LockedOutWriters(t, r) == locking /\ lock[r] = other(t) /\ Writing(t)

LockedOut(t, r) == locking /\ lock[r] = other(t)

Taken(t, r) == IF locking THEN [lock EXCEPT ![r] = t] ELSE lock

(* release(): who waits for a row that is free now may go on. *)
Freed(t)   == [r \in Row |-> IF lock[r] = t THEN Nobody ELSE lock[r]]

(* A bug: the locks go, and nobody is told. *)
WaitingStill(t) == blocked

Waiting(t) ==
  [o \in Txn |->
     IF o = other(t) /\ blocked[o] # NoRow /\ Freed(t)[blocked[o]] = Nobody
       THEN NoRow ELSE blocked[o]]

(* The open undo records of the transactions ts, applied newest first:     *)
(* what is left on a row is the image in the oldest of them.               *)
Open(ts)     == {i \in DOMAIN undo : undo[i].txn \in ts /\ undo[i].open}
OpenOn(ts, r) == {i \in Open(ts) : undo[i].row = r}

Oldest(s) == CHOOSE i \in s : \A j \in s : i <= j
Before(ts) ==
  [r \in Row |-> IF OpenOn(ts, r) = {} THEN val[r]
                 ELSE undo[Oldest(OpenOn(ts, r))].before]

Reverted(ts) ==
  [i \in DOMAIN undo |->
     IF i \in Open(ts) THEN [undo[i] EXCEPT !.open = FALSE, !.reverted = TRUE]
                       ELSE undo[i]]

-------------------------------------------------------------------------------
Wait(t) ==
  /\ Reading(t) \/ Writing(t)
  /\ LockedOut(t, Touched(t))
  /\ blocked'     = [blocked EXCEPT ![t] = Touched(t)]
  /\ lastBlocked' = t
  /\ UNCHANGED <<queue, rows, lock, pc, state, reg, readFrom, undo, staleWrites,
                 victim>>

Dirty(t, r) == {undo[i].txn : i \in OpenOn({other(t)}, r)}

Read(t) ==
  LET r == Touched(t) IN
  /\ Reading(t)
  /\ ~LockedOut(t, r)
  /\ lock'     = Taken(t, r)
  /\ reg'      = [reg EXCEPT ![t][r] = [v |-> val[r], ver |-> ver[r]]]
  /\ readFrom' = [readFrom EXCEPT ![t] = @ \cup Dirty(t, r)]
  /\ Done(t)
  /\ UNCHANGED <<rows, blocked, state, undo, staleWrites, lastBlocked, victim>>

Base(t, r) == IF reg[t][r] = NotRead THEN val[r] ELSE reg[t][r].v

Stale(t, r) == reg[t][r] # NotRead /\ reg[t][r].ver # ver[r]

(* A bug: the index after the last record. *)
StaleIndexNext(records) == Len(records) + 1

StaleIndex(records) == Len(records)

Write(t) ==
  LET r == Touched(t) IN
  /\ Writing(t)
  /\ ~LockedOut(t, r)
  /\ lock' = Taken(t, r)
  /\ undo' = Append(undo, [txn |-> t, row |-> r, before |-> val[r],
                           open |-> mode = "explicit", reverted |-> FALSE])
  /\ val'  = [val EXCEPT ![r] = Base(t, r) + Delta[t][r]]
  /\ ver'  = [ver EXCEPT ![r] = @ + 1]
  /\ staleWrites' = IF Stale(t, r) THEN staleWrites \cup {StaleIndex(undo')}
                                   ELSE staleWrites
  /\ Done(t)
  /\ UNCHANGED <<blocked, state, reg, readFrom, lastBlocked, victim>>

Commit(t) ==
  /\ Committing(t)
  /\ state' = [state EXCEPT ![t] = "committed"]
  /\ IF mode = "autocommit"
       THEN UNCHANGED <<undo, lock, blocked>>
       ELSE /\ undo' = [i \in DOMAIN undo |->
                          IF undo[i].txn = t THEN [undo[i] EXCEPT !.open = FALSE]
                                             ELSE undo[i]]
            /\ lock'    = Freed(t)
            /\ blocked' = Waiting(t)
  /\ Done(t)
  /\ UNCHANGED <<rows, reg, readFrom, staleWrites, lastBlocked, victim>>

Issue(t) ==
  /\ Turn(t)
  /\ Wait(t) \/ Read(t) \/ Write(t) \/ Commit(t)

(* What stays in the queue without t: the steps of the other one, which are *)
(* alike, unless it is over.                                               *)
StepsOf(t)   == Cardinality({i \in DOMAIN queue : queue[i] = t})
Remaining(t) == IF state[other(t)] = "run" THEN Times(other(t), StepsOf(other(t)))
                                           ELSE <<>>

(* rollback(): nobody in the queue can run, the last to be blocked goes. *)
Rollback(t) ==
  /\ \E i \in DOMAIN queue : state[queue[i]] = "run"
  /\ \A i \in DOMAIN queue : ~Runnable(queue[i])
  /\ t = lastBlocked
  /\ val'     = Before({t})
  /\ undo'    = Reverted({t})
  /\ state'   = [state EXCEPT ![t] = "aborted"]
  /\ victim'  = t
  /\ lock'    = Freed(t)
  /\ blocked' = [Waiting(t) EXCEPT ![t] = NoRow]
  /\ queue'   = Remaining(t)
  /\ UNCHANGED <<ver, pc, reg, readFrom, staleWrites, lastBlocked>>

(* One turn of the loop in simulate(). *)
Run ==
  /\ ~crashed
  /\ \E t \in Txn : Issue(t) \/ Rollback(t)
  /\ UNCHANGED <<settings, crashed>>

(* The power goes after a step, and recovery undoes what is open. *)
Crash ==
  /\ ~crashed
  /\ \E t \in Txn : pc[t] > 0
  /\ crashed' = TRUE
  /\ val'     = Before(Txn)
  /\ undo'    = Reverted(Txn)
  /\ UNCHANGED <<settings, queue, ver, lock, blocked, pc, state, reg, readFrom,
                 staleWrites, lastBlocked, victim>>

Next == Run \/ Crash

Spec == Init /\ [][Next]_vars

-------------------------------------------------------------------------------
(* The verdict simulate() returns when the loop is over. *)
Over == crashed \/ queue = <<>>

Kept(t)    == {undo[i].row : i \in {j \in DOMAIN undo :
                                      undo[j].txn = t /\ ~undo[j].reverted}}
Durable(t) == Kept(t) # {}
Torn(t)    == Kept(t) # {} /\ Kept(t) # Row

LostUpdate == \E i \in staleWrites : ~undo[i].reverted

(* A bug: writes undone after a crash are forgotten. *)
WasAborted(t) == state[t] = "aborted"

WasReverted(t) == \E i \in DOMAIN undo : undo[i].txn = t /\ undo[i].reverted

DirtyRead  == \E t \in Txn : Durable(t) /\ \E s \in readFrom[t] : WasReverted(s)
Unbalanced == val["A"] + val["B"] # 2 * Start

NoAnomaly ==
  /\ ~LostUpdate
  /\ \A t \in Txn : ~Torn(t)
  /\ ~DirtyRead
  /\ ~Unbalanced

-------------------------------------------------------------------------------
TypeOK ==
  /\ mode \in {"explicit", "autocommit"} /\ iso \in BOOLEAN
  /\ queue \in Seq(Txn)
  /\ val \in [Row -> Int] /\ ver \in [Row -> Nat]
  /\ lock \in [Row -> Txn \cup {Nobody}]
  /\ blocked \in [Txn -> Row \cup {NoRow}]
  /\ pc \in [Txn -> 0 .. 5]
  /\ state \in [Txn -> {"run", "committed", "aborted"}]
  /\ reg \in [Txn -> [Row -> [v : Int, ver : Int]]]
  /\ readFrom \in [Txn -> SUBSET Txn]
  /\ undo \in Seq([txn : Txn, row : Row, before : Int, open : BOOLEAN,
                   reverted : BOOLEAN])
  /\ staleWrites \subseteq DOMAIN undo
  /\ lastBlocked \in Txn \cup {Nobody}
  /\ victim \in Txn \cup {Nobody}
  /\ crashed \in BOOLEAN

(* What a set of transfers, each applied once and whole, leaves. *)
Effect(t, ts, r)   == IF t \in ts THEN Delta[t][r] ELSE 0
Transferred(ts, r) == Start + Effect(1, ts, r) + Effect(2, ts, r)

Committed == {t \in Txn : state[t] = "committed"}

(* Under strict two-phase locking the rows, with every open write taken    *)
(* back, hold at every moment what the committed transfers make of them,   *)
(* as if these had run one after the other: no update is lost, no transfer *)
(* is half there, and a deadlock victim or a power cut at any step takes   *)
(* nothing else with it.                                                   *)
SerialWhenLocked ==
  locking => \A r \in Row : Before(Txn)[r] = Transferred(Committed, r)

(* The verdict misses nothing: when the lab reports no anomaly, whatever   *)
(* the mode, the locking, the order and the power cut, the balances are    *)
(* those of the durable transfers alone, and in explicit mode these are    *)
(* the committed ones.                                                     *)
VerdictSound ==
  Over /\ NoAnomaly =>
    LET ts == {t \in Txn : Durable(t)} IN
    /\ \A r \in Row : val[r] = Transferred(ts, r)
    /\ mode = "explicit" => ts = Committed

(* Only a real deadlock has a victim: each of the two waits for a row the  *)
(* other one holds.                                                        *)
VictimIsDeadlocked ==
  victim' # victim =>
    \A t \in Txn : /\ state[t] = "run"
                   /\ blocked[t] # NoRow
                   /\ lock[blocked[t]] = other(t)

(* A schedule is at its end: both transfers have committed, or one was the *)
(* victim of a deadlock and the other has committed, or the power went.    *)
ScheduleOver ==
  crashed \/ /\ queue = <<>>
             /\ \A t \in Txn : state[t] # "run"
             /\ Committed # {}

(* What the lab says of a run without crash, victim and anomaly: "Every    *)
(* read saw a value that was committed or its own".                        *)
ReadsWereCommitted ==
  Over /\ ~crashed /\ victim = Nobody /\ NoAnomaly =>
    \A t \in Txn : readFrom[t] = {}
===============================================================================
