------------------------------- MODULE MetaFlip -------------------------------
(***************************************************************************)
(* The copy-on-write half of BepsilonCowTreeLab.tsx: a tree of three       *)
(* levels, as LMDB and bbolt keep it.  A commit copies every leaf it       *)
(* changes, their branches and the root to other pages and then writes one *)
(* of two meta pages; a freed page is used again under the rule of the     *)
(* engine, past one open reader.  As in the lab the state is the controls  *)
(* and the leaves each commit changed; the file follows from them.         *)
(***************************************************************************)
EXTENDS Integers, Sequences, FiniteSets, FiniteSetsExt, Functions

CONSTANTS
  COW_BRANCHES, PerBranch,   \* the shape: COW_LEAVES = COW_BRANCHES * PerBranch
  Changes,                   \* bound: the sets of leaves a commit changes
  MAX_TXN

VARIABLES
  file,      \* the engine, the leaves of each commit, those of the one in flight
  reader,    \* the commit the oldest reader began after, and the last it saw begin
  phase,     \* of the commit in flight, 0 if none is
  crashed

flipVars == <<file, reader, phase, crashed>>

Branch     == 0 .. COW_BRANCHES - 1
CowLeaf    == 0 .. COW_BRANCHES * PerBranch - 1
BranchOf(leaf) == leaf \div PerBranch
Infinity   == MAX_TXN + 1
META_PAGES == 2
Boot       == 1 + COW_BRANCHES + COW_BRANCHES * PerBranch

FlipAssumption ==
  /\ COW_BRANCHES \in Nat \ {0} /\ PerBranch \in Nat \ {0} /\ MAX_TXN \in Nat \ {0}
  /\ Changes \subseteq (SUBSET CowLeaf) \ {{}}

(* The nodes of a tree; a snapshot gives each of them its page.            *)
TreeNode == {<<"root", 0>>} \cup ({"branch"} \X Branch) \cup ({"leaf"} \X CowLeaf)
BootPage(n) ==
  META_PAGES + (CASE n[1] = "root" -> 0
                  [] n[1] = "branch" -> 1 + n[2]
                  [] n[1] = "leaf" -> 1 + COW_BRANCHES + n[2])
Pages(snapshot) == {snapshot[n] : n \in TreeNode}

(* What a commit of these leaves copies, in the order it takes new pages.  *)
Copied(leaves) ==
  {<<"root", 0>>} \cup {<<"branch", BranchOf(l)>> : l \in leaves} \cup {<<"leaf", l>> : l \in leaves}
Rank(n, ns) == Cardinality({m \in ns : BootPage(m) < BootPage(n)}) + 1

-------------------------------------------------------------------------------
readerPresent(r, t) == r.start >= 1 /\ r.start < t /\ t <= r.end

(* May write transaction t use this freed page again?                      *)
reusable(engine, e, t, r) ==
  LET present == readerPresent(r, t)
      oldest  == IF present THEN Min({r.start, t - 1}) ELSE t - 1
  IN  IF engine = "lmdb" THEN e.freedBy < oldest
      ELSE present => e.freedBy < r.start \/ e.alloc > r.start

(* planCommit(): the pages of the copies, the lowest reusable ones first.  *)
Planned(run, engine, leaves, r) ==
  LET t     == Len(run.snapshots) + 1
      prev  == run.snapshots[t - 1]
      nodes == Copied(leaves)
      spare == {e.pgno : e \in {f \in run.free : reusable(engine, f, t, r)}}
      page  == [n \in nodes |->
                  LET i == Rank(n, nodes)
                  IN  IF i > Cardinality(spare) THEN run.fileEnd + i - Cardinality(spare) - 1
                      ELSE CHOOSE p \in spare : Cardinality({q \in spare : q < p}) = i - 1]
  IN  [old |-> {prev[n] : n \in nodes}, new |-> Range(page),
      next |-> [n \in TreeNode |-> IF n \in nodes THEN page[n] ELSE prev[n]]]

(* applyPlan().  written: the transaction that wrote a page last.          *)
Applied(run, engine, leaves, r) ==
  LET t    == Len(run.snapshots) + 1
      plan == Planned(run, engine, leaves, r)
      end  == Max({run.fileEnd} \cup {p + 1 : p \in plan.new})
  IN  [snapshots |-> Append(run.snapshots, plan.next),
       free    |-> {e \in run.free : e.pgno \notin plan.new}
                     \cup {[pgno |-> p, freedBy |-> t, alloc |-> run.alloc[p]] : p \in plan.old},
       alloc   |-> [p \in (DOMAIN run.alloc \ plan.old) \cup plan.new |->
                      IF p \in plan.new THEN t ELSE run.alloc[p]],
       written |-> [p \in META_PAGES .. end - 1 |->
                      IF p \in plan.new THEN t ELSE run.written[p]],
       fileEnd |-> end]

(* runCow(): the first load is transaction 1.                              *)
Booted ==
  LET pages == META_PAGES .. META_PAGES + Boot - 1
  IN  [snapshots |-> <<[n \in TreeNode |-> BootPage(n)]>>, free |-> {},
       alloc |-> [p \in pages |-> 1], written |-> [p \in pages |-> 1],
       fileEnd |-> META_PAGES + Boot]

Run ==
  LET after[n \in 0 .. Len(file.commits)] ==
        IF n = 0 THEN Booted
        ELSE Applied(after[n - 1], file.engine, file.commits[n], reader)
  IN  after[Len(file.commits)]
txn == Len(file.commits) + 1

-------------------------------------------------------------------------------
FlipInit ==
  /\ file \in [engine : {"lmdb", "bbolt"}, commits : {<<>>}, pending : {{}}]
  /\ reader = [start |-> 0, end |-> 0] /\ phase = 0 /\ crashed = FALSE

Idle == phase' = 0 /\ crashed' = FALSE

CommitAll(leaves) ==
  /\ phase = 0 /\ txn < MAX_TXN
  /\ file' = [file EXCEPT !.commits = Append(@, leaves)]
  /\ Idle /\ UNCHANGED reader

StepThrough(leaves) ==
  /\ phase = 0 /\ txn < MAX_TXN
  /\ phase' = 1 /\ file' = [file EXCEPT !.pending = leaves]
  /\ UNCHANGED <<reader, crashed>>

NextPhase ==
  /\ phase \in 1 .. 3 /\ ~crashed
  /\ phase' = phase + 1
  /\ UNCHANGED <<file, reader, crashed>>

FinishCommit ==
  /\ phase = 4 /\ ~crashed
  /\ file' = [file EXCEPT !.commits = Append(@, file.pending), !.pending = {}]
  /\ Idle /\ UNCHANGED reader

CrashNow ==
  /\ phase > 0 /\ ~crashed
  /\ crashed' = TRUE
  /\ UNCHANGED <<file, reader, phase>>

(* The reader of the controls ends with the crash; its last transaction    *)
(* is set even when an earlier crash had ended it.                         *)
Continue ==
  /\ crashed
  /\ reader' = IF reader.start >= 1 THEN [reader EXCEPT !.end = txn] ELSE reader
  /\ file' = [file EXCEPT !.pending = {}]
  /\ Idle

(* The slider, or dragging along the commits.                              *)
SetReader(t) ==
  /\ t \in 0 .. txn
  /\ reader' = [start |-> t, end |-> Infinity]
  /\ file' = [file EXCEPT !.pending = {}]
  /\ Idle

SetEngine(engine) ==
  /\ file' = [file EXCEPT !.engine = engine, !.pending = {}]
  /\ Idle /\ UNCHANGED reader

FlipStep ==
  \/ \E leaves \in Changes : CommitAll(leaves) \/ StepThrough(leaves)
  \/ NextPhase \/ FinishCommit \/ CrashNow \/ Continue
  \/ \E t \in 0 .. MAX_TXN : SetReader(t)
  \/ \E engine \in {"lmdb", "bbolt"} : SetEngine(engine)

-------------------------------------------------------------------------------
FlipTypeOK ==
  /\ file \in [engine : {"lmdb", "bbolt"}, commits : Seq(Changes), pending : Changes \cup {{}}]
  /\ Len(file.commits) < MAX_TXN
  /\ phase \in 0 .. 4 /\ (phase = 0) = (file.pending = {}) /\ (crashed => phase > 0)
  /\ reader.start \in 0 .. txn /\ reader.end \in 0 .. Infinity

(* The pages of a snapshot hold what it wrote: no later commit wrote to    *)
(* them, and not the one in flight once it has written its copies.         *)
InFlight(run) ==
  IF phase >= 2 THEN Planned(run, file.engine, file.pending, reader).new ELSE {}
Intact(run, s) ==
  \A p \in Pages(run.snapshots[s]) : run.written[p] <= s /\ p \notin InFlight(run)

(* Wherever a commit is interrupted the newest committed tree is whole;    *)
(* so is the tree of the reader, as long as it is open; and with LMDB,     *)
(* whose meta page has no checksum, the tree of the other meta page too.   *)
SnapshotsIntact ==
  LET run == Run
  IN  /\ Intact(run, txn)
      /\ ~crashed /\ readerPresent(reader, txn + 1) => Intact(run, reader.start)
      /\ file.engine = "lmdb" /\ txn >= 2 => Intact(run, txn - 1)

(* Every page of the file is in the newest tree or on the free list, once. *)
PagesAccounted ==
  LET run  == Run
      free == {e.pgno : e \in run.free}
  IN  /\ Cardinality(run.free) = Cardinality(free)
      /\ free \cap Pages(run.snapshots[txn]) = {}
      /\ free \cup Pages(run.snapshots[txn]) = META_PAGES .. run.fileEnd - 1
      /\ DOMAIN run.alloc = Pages(run.snapshots[txn])
===============================================================================
