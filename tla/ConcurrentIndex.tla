--------------------------- MODULE ConcurrentIndex ----------------------------
(***************************************************************************)
(* CREATE INDEX CONCURRENTLY as CreateIndexConcurrentlyLab.tsx plays it:   *)
(* three commits with a wait after each, while transactions insert, update *)
(* and delete rows of the table and others hold snapshots.                 *)
(*                                                                         *)
(* The code runs a timetable of ticks; here anything may happen between    *)
(* two steps of the build, which is what a timetable can choose from.  A   *)
(* writer's view of the index list is fixed when it first writes.  Every   *)
(* update changes the indexed column, so each version of a row has a key   *)
(* of its own and is named by its place in the heap; an entry holds the    *)
(* key of a version and the root of its HOT chain.  Every transaction      *)
(* commits in the end.                                                     *)
(***************************************************************************)
EXTENDS Integers, Sequences, FiniteSets

CONSTANTS
  Writer,       \* the transactions that write the table
  Reader,       \* those that hold one snapshot (R1, the report)
  Loaded,       \* who wrote the rows the table begins with ("pre")
  NoOne,        \* who deleted a version that is live
  Rows,         \* how many rows the table begins with
  MaxVersions   \* bound: the versions the heap may hold

CicAssumption ==
  /\ {Loaded, NoOne} \intersect (Writer \union Reader) = {} /\ Loaded # NoOne
  /\ Writer \intersect Reader = {} /\ IsFiniteSet(Writer)
  /\ Rows \in Nat /\ MaxVersions \in Nat

VARIABLES
  stage,     \* where the build stands
  exists,    \* the pg_index row is committed
  ready,     \* indisready
  valid,     \* indisvalid
  lockers,   \* the transactions the present wait is for
  s1, s2,    \* the snapshots of the build and of the validation
  have,      \* the roots that had an entry when s2 was taken
  entries,   \* the index: [v, root, src]
  heap,      \* the versions: [by, dead, root]
  saw,       \* the index list each writer works with
  xids,      \* the writers, in the order of their first writes
  ended,     \* the transactions that have committed
  snap       \* the snapshot each reader holds

cicVars == <<stage, exists, ready, valid, lockers, s1, s2, have>>
txnVars == <<saw, xids, ended, snap>>
vars == <<stage, exists, ready, valid, lockers, s1, s2, have, entries, heap,
          saw, xids, ended, snap>>

Version == 1 .. Len(heap)
Running == {w \in Writer : saw[w] # "nothing"} \ ended

(* The oldest running xid, or the next one to be given out. *)
Xmin ==
  IF \A i \in DOMAIN xids : xids[i] \in ended THEN Len(xids) + 1
  ELSE CHOOSE i \in DOMAIN xids :
         /\ xids[i] \notin ended
         /\ \A j \in 1 .. i - 1 : xids[j] \in ended

(* A snapshot sees what these transactions have done. *)
Now        == [seen |-> ended, xmin |-> Xmin]
NoSnapshot == [seen |-> {}, xmin |-> 0]

Visible(v, s) ==
  /\ heap[v].by \in s.seen \union {Loaded}
  /\ heap[v].dead \notin s.seen

Init ==
  /\ stage   = "idle"
  /\ exists  = FALSE
  /\ ready   = FALSE
  /\ valid   = FALSE
  /\ lockers = {}
  /\ s1      = NoSnapshot
  /\ s2      = NoSnapshot
  /\ have    = {}
  /\ entries = {}
  /\ heap    = [v \in 1 .. Rows |-> [by |-> Loaded, dead |-> NoOne, root |-> v]]
  /\ saw     = [w \in Writer |-> "nothing"]
  /\ xids    = <<>>
  /\ ended   = {}
  /\ snap    = [r \in Reader |-> NoSnapshot]

-------------------------------------------------------------------------------
(* The first write takes the lock, the xid and the list of indexes. *)
FirstWrite(w) ==
  IF saw[w] # "nothing" THEN UNCHANGED <<saw, xids>>
  ELSE /\ saw'  = [saw EXCEPT ![w] = IF ready THEN "ready"
                                     ELSE IF exists THEN "entry" ELSE "no index"]
       /\ xids' = Append(xids, w)

(* A HOT update: the writer does not know that the column is indexed. *)
Hot(w) == saw'[w] = "no index"

(* A new version that is not HOT gets an entry from a writer that knows of *)
(* an index that is ready.                                                 *)
AddVersion(w, h, root) ==
  LET n == Len(heap) + 1
  IN /\ n <= MaxVersions
     /\ heap' = Append(h, [by |-> w, dead |-> NoOne, root |-> root])
     /\ entries' = entries \union
          IF saw'[w] = "ready" /\ root = n
          THEN {[v |-> n, root |-> n, src |-> "writer"]} ELSE {}

Writes(w) ==
  /\ w \notin ended
  /\ FirstWrite(w)
  /\ UNCHANGED <<cicVars, ended, snap>>

Insert(w) ==
  /\ Writes(w)
  /\ AddVersion(w, heap, Len(heap) + 1)

(* The newest version of a row (the code's tip).  The timetables have no   *)
(* two transactions at one row at a time: a row lock would prevent it.     *)
Newest(v, w) ==
  /\ heap[v].dead = NoOne
  /\ heap[v].by \in ended \union {Loaded, w}

Killed(v, w) == [heap EXCEPT ![v].dead = w]

Update(w, v) ==
  /\ Newest(v, w)
  /\ Writes(w)
  /\ AddVersion(w, Killed(v, w), IF Hot(w) THEN heap[v].root ELSE Len(heap) + 1)

Delete(w, v) ==
  /\ Newest(v, w)
  /\ Writes(w)
  /\ heap' = Killed(v, w)
  /\ UNCHANGED entries

TakeSnapshot(r) ==
  /\ r \notin ended
  /\ snap[r] = NoSnapshot
  /\ snap' = [snap EXCEPT ![r] = Now]
  /\ UNCHANGED <<cicVars, entries, heap, saw, xids, ended>>

End(t) ==
  /\ t \in Running \union {r \in Reader : snap[r] # NoSnapshot}
  /\ t \notin ended
  /\ ended' = ended \union {t}
  /\ UNCHANGED <<cicVars, entries, heap, saw, xids, snap>>

-------------------------------------------------------------------------------
Cic(from, to) == stage = from /\ stage' = to

(* Transaction 1: the pg_index row, neither ready nor valid. *)
CommitCreate ==
  /\ Cic("idle", "created")
  /\ exists' = TRUE
  /\ UNCHANGED <<ready, valid, lockers, s1, s2, have, entries, heap, txnVars>>

(* Bugs for the mutants to plant: no wait, the "Skip a wait" of the lab. *)
NoOneToWaitFor == {}

(* WaitForLockers(ShareLock): every writer of the table at this moment. *)
WritersToWaitFor == Running

WaitBegins(from, to, who) ==
  /\ Cic(from, to)
  /\ lockers' = who
  /\ UNCHANGED <<exists, ready, valid, s1, s2, have, entries, heap, txnVars>>

Wait1 == WaitBegins("created", "wait1", WritersToWaitFor)

WaitOver == lockers \subseteq ended

StartBuild ==
  /\ Cic("wait1", "building")
  /\ WaitOver
  /\ s1' = Now
  /\ UNCHANGED <<exists, ready, valid, lockers, s2, have, entries, heap,
                 txnVars>>

(* A bug: the place in the heap counted from zero in one place and from    *)
(* one in the other.                                                       *)
EntriesForNext(vs, from) ==
  {[v |-> v + 1, root |-> heap[v].root, src |-> from] : v \in vs}

EntriesFor(vs, from) ==
  {[v |-> v, root |-> heap[v].root, src |-> from] : v \in vs}

(* index_build under s1; indisready is set by the commit. *)
CommitBuild ==
  /\ Cic("building", "built")
  /\ ready' = TRUE
  /\ entries' = entries \union
       EntriesFor({v \in Version : Visible(v, s1)}, "build")
  /\ UNCHANGED <<exists, valid, lockers, s1, s2, have, heap, txnVars>>

Wait2 == WaitBegins("built", "wait2", WritersToWaitFor)

StartValidation ==
  /\ Cic("wait2", "validating")
  /\ WaitOver
  /\ s2' = Now
  /\ have' = {e.root : e \in entries}
  /\ UNCHANGED <<exists, ready, valid, lockers, s1, entries, heap, txnVars>>

(* validate_index: the visible tuples whose root has no entry. *)
Missing == {v \in Version : Visible(v, s2) /\ heap[v].root \notin have}

CommitValidation ==
  /\ Cic("validating", "validated")
  /\ entries' = entries \union EntriesFor(Missing, "validate")
  /\ UNCHANGED <<exists, ready, valid, lockers, s1, s2, have, heap, txnVars>>

(* WaitForOlderSnapshots: whoever may still see what s2 did not. *)
ReadersToWaitFor ==
  {r \in Reader \ ended : snap[r] # NoSnapshot /\ snap[r].xmin <= s2.xmin}

Wait3 == WaitBegins("validated", "wait3", ReadersToWaitFor)

CommitValid ==
  /\ Cic("wait3", "valid")
  /\ WaitOver
  /\ valid' = TRUE
  /\ UNCHANGED <<exists, ready, lockers, s1, s2, have, entries, heap, txnVars>>

(* A cancelled build leaves what it has committed behind. *)
Cancel ==
  /\ stage \notin {"idle", "valid", "failed"}
  /\ stage' = "failed"
  /\ UNCHANGED <<exists, ready, valid, lockers, s1, s2, have, entries, heap,
                 txnVars>>

Next ==
  \/ \E w \in Writer :
        \/ Insert(w)
        \/ \E v \in Version : Update(w, v) \/ Delete(w, v)
  \/ \E r \in Reader : TakeSnapshot(r)
  \/ \E t \in Writer \union Reader : End(t)
  \/ CommitCreate \/ Wait1 \/ StartBuild \/ CommitBuild
  \/ Wait2 \/ StartValidation \/ CommitValidation
  \/ Wait3 \/ CommitValid
  \/ Cancel

Spec == Init /\ [][Next]_vars

-------------------------------------------------------------------------------
Snapshot == [seen : SUBSET (Writer \union Reader), xmin : Nat]

TypeOK ==
  /\ stage \in {"idle", "created", "wait1", "building", "built", "wait2",
                "validating", "validated", "wait3", "valid", "failed"}
  /\ {exists, ready, valid} \subseteq BOOLEAN
  /\ lockers \subseteq Writer \union Reader
  /\ {s1, s2} \subseteq Snapshot
  /\ have \subseteq Version
  /\ entries \subseteq [v : Version, root : Version,
                        src : {"build", "writer", "validate"}]
  /\ heap \in Seq([by : Writer \union {Loaded}, dead : Writer \union {NoOne},
                   root : Version])
  /\ saw \in [Writer -> {"nothing", "no index", "entry", "ready"}]
  /\ xids \in Seq(Writer)
  /\ ended \subseteq Writer \union Reader
  /\ snap \in [Reader -> Snapshot]

Indexed(v) == \E e \in entries : e.v = v

(* Once the planner may use the index, every row that is visible, now or   *)
(* to an older snapshot, has an entry with its root and its key: no row is *)
(* missing and no key is that of an older version, whatever the writers    *)
(* did during the build.  None has two: the build, the writers and the     *)
(* validation never enter the same version.                                *)
CurrentRowsIndexed ==
  /\ valid =>
       \A s \in {Now} \union {snap[r] : r \in Reader \ ended} :
         s # NoSnapshot => \A v \in Version : Visible(v, s) => Indexed(v)
  /\ \A e, f \in entries : e.v = f.v => e = f

(* From the build's snapshot on nobody makes a HOT chain the new index     *)
(* would have to follow: at most one version of a root is not dead.        *)
ChainsUnbroken ==
  stage \in {"building", "built", "wait2", "validating", "validated"} =>
    \A v, w \in Version :
      heap[v].root = heap[w].root /\ v < w => heap[v].dead \in s1.seen
===============================================================================
