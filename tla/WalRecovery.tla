------------------------------ MODULE WalRecovery ------------------------------
(***************************************************************************)
(* Write-ahead logging as WalLogBeforePageLab.tsx plays it: updates change *)
(* a block in memory and append a log record, the log is flushed, dirty    *)
(* blocks are written when the log allows it, checkpoints move the redo    *)
(* point, and after a crash redo is stepped over what the log kept.        *)
(*                                                                         *)
(* An LSN is a byte offset in the code and only ever compared; every       *)
(* record takes at least one byte, so here record i occupies [i - 1, i):   *)
(* its lsn is i - 1, its end i, and the insert point Len(recs).  A block's *)
(* value is the number of updates it has absorbed (the code adds 10 to a   *)
(* starting balance).  Transaction numbers are labels: there is at most    *)
(* one open transaction.  Counters, texts and the table of redo decisions  *)
(* are left out.                                                           *)
(***************************************************************************)
EXTENDS Integers, Sequences, FiniteSets

CONSTANTS
  Page,         \* the heap blocks (PAGE_NAMES)
  NoPage,       \* the page of a record that has none
  MaxRecs,      \* bound and MAX_RECS: the records the strip can hold
  FpwChoices,   \* the settings of full_page_writes the user switches between
  SyncChoices   \* ... and of "flush, then ack" (TRUE) / "ack, then flush"

ASSUME PageAssumption == NoPage \notin Page
ASSUME RecsAssumption == MaxRecs \in Nat
ASSUME FlagAssumption == FpwChoices \subseteq BOOLEAN /\ SyncChoices \subseteq BOOLEAN

VARIABLES
  recs,     \* the log: every record inserted so far
  flushed,  \* flushedLSN: the log is durable through here
  redo,     \* redoLSN: the redo point of the last checkpoint
  mem,      \* the copies of the blocks in the buffer pool
  disk,     \* the copies on disk; lsn is the block's pageLSN
  dirty,    \* the blocks changed in memory since they were written
  since,    \* the blocks changed since the last checkpoint
  open,     \* a transaction is open
  acks,     \* the commits the client was told "ok" for, durable or on trust
  phase,    \* "run", "crashed", "replay" or "done"
  cursor    \* how many surviving records redo has left behind

vars == <<recs, flushed, redo, mem, disk, dirty, since, open, acks, phase,
          cursor>>

Rec   == [kind : {"update", "commit", "ckpt"}, page : Page \union {NoPage},
          val : Nat, fpi : BOOLEAN]
Block == [val : Nat, lsn : Nat]
Insert == Len(recs)

Init ==
  /\ recs    = <<>>
  /\ flushed = 0
  /\ redo    = 0
  /\ mem     = [p \in Page |-> [val |-> 0, lsn |-> 0]]
  /\ disk    = [p \in Page |-> [val |-> 0, lsn |-> 0]]
  /\ dirty   = {}
  /\ since   = {}
  /\ open    = FALSE
  /\ acks    = {}
  /\ phase   = "run"
  /\ cursor  = 0

-------------------------------------------------------------------------------
(* A bug for the mutants to plant: the strip takes one record too many. *)
HasRoomForOneMore == Insert <= MaxRecs
HasRoom           == Insert < MaxRecs

Appends(r) ==
  /\ phase = "run"
  /\ HasRoom
  /\ recs' = Append(recs, r)

UpdateRec(p, fpw) == [kind |-> "update", page |-> p, val |-> mem[p].val + 1,
                      fpi |-> fpw /\ p \notin since]
PlainRec(k)       == [kind |-> k, page |-> NoPage, val |-> 0, fpi |-> FALSE]

(* The change goes to the block in memory and to the log, never to disk. *)
Update(p, fpw) ==
  /\ Appends(UpdateRec(p, fpw))
  /\ mem'   = [mem EXCEPT ![p] = [val |-> @.val + 1, lsn |-> Insert + 1]]
  /\ dirty' = dirty \union {p}
  /\ since' = since \union {p}
  /\ open'  = TRUE
  /\ UNCHANGED <<flushed, redo, disk, acks, phase, cursor>>

(* A bug: the flush that precedes the ack stops short of the commit record. *)
FlushedBeforeCommit(sync) == IF sync THEN Insert ELSE flushed

FlushedByCommit(sync) == IF sync THEN Insert + 1 ELSE flushed

(* The client is told "ok" after the flush, or before any. *)
Commit(sync) ==
  /\ open
  /\ Appends(PlainRec("commit"))
  /\ flushed' = FlushedByCommit(sync)
  /\ acks'    = acks \union {[lsn |-> Insert + 1, durable |-> sync]}
  /\ open'    = FALSE
  /\ UNCHANGED <<redo, mem, disk, dirty, since, phase, cursor>>

(* XLogFlush. *)
FlushLog ==
  /\ phase = "run"
  /\ flushed # Insert
  /\ flushed' = Insert
  /\ UNCHANGED <<recs, redo, mem, disk, dirty, since, open, acks, phase,
                 cursor>>

(* A bug: a dirty block is written without looking at the log. *)
WritableUnlogged(p) == p \in dirty

(* The WAL rule. *)
Writable(p) == p \in dirty /\ mem[p].lsn <= flushed

WriteBlock(p) ==
  /\ phase = "run"
  /\ Writable(p)
  /\ disk'  = [disk EXCEPT ![p] = mem[p]]
  /\ dirty' = dirty \ {p}
  /\ UNCHANGED <<recs, flushed, redo, mem, since, open, acks, phase, cursor>>

(* A bug: the checkpoint passes over the blocks whose log is not flushed. *)
CkptWritesFlushed == {p \in dirty : mem[p].lsn <= flushed}
CkptWrites        == dirty

(* A bug: only the blocks the checkpoint writes need a new image. *)
SinceUnwritten == since \ dirty
SinceAfterCkpt == {}

(* The redo point is taken first, then the dirty blocks and the record go  *)
(* out and the log is flushed through it.                                  *)
Checkpoint ==
  /\ Appends(PlainRec("ckpt"))
  /\ redo'    = Insert
  /\ flushed' = Insert + 1
  /\ disk'    = [p \in Page |-> IF p \in CkptWrites THEN mem[p] ELSE disk[p]]
  /\ dirty'   = dirty \ CkptWrites
  /\ since'   = SinceAfterCkpt
  /\ UNCHANGED <<mem, open, acks, phase, cursor>>

-------------------------------------------------------------------------------
(* The records that survive the crash: those that end by flushedLSN. *)
Survivors == 1 .. flushed

(* Redo starts at the first surviving record at or after the redo point. *)
RedoRange == {i \in Survivors : i - 1 >= redo}
RedoStart(i) == i \in RedoRange /\ \A j \in RedoRange : i <= j

(* The buffer pool, the log's unflushed tail and the transaction are gone. *)
Crash ==
  /\ phase = "run"
  /\ phase' = "crashed"
  /\ mem'   = disk
  /\ dirty' = {}
  /\ open'  = FALSE
  /\ \/ RedoRange = {} /\ cursor' = flushed
     \/ \E i \in RedoRange : RedoStart(i) /\ cursor' = i - 1
  /\ UNCHANGED <<recs, flushed, redo, disk, since, acks>>

(* A bug: a record is compared by where it starts. *)
NewerByStart(i, p) == i - 1 > disk[p].lsn

(* The comparison that makes replay idempotent. *)
Newer(i, p) == i > disk[p].lsn

Redo(i) ==
  LET r == recs[i]
  IN IF r.kind = "update" /\ Newer(i, r.page)
     THEN /\ disk' = [disk EXCEPT ![r.page] = [val |-> r.val, lsn |-> i]]
          /\ mem'  = [mem EXCEPT ![r.page] = [val |-> r.val, lsn |-> i]]
     ELSE UNCHANGED <<disk, mem>>

RedoStep ==
  /\ phase \in {"crashed", "replay"}
  /\ \/ /\ cursor >= flushed
        /\ phase' = "done"
        /\ UNCHANGED <<disk, mem, cursor>>
     \/ /\ cursor < flushed
        /\ Redo(cursor + 1)
        /\ cursor' = cursor + 1
        /\ phase'  = IF cursor + 1 >= flushed THEN "done" ELSE "replay"
  /\ UNCHANGED <<recs, flushed, redo, dirty, since, open, acks>>

(* The Reset button. *)
Reset ==
  /\ recs'    = <<>>
  /\ flushed' = 0
  /\ redo'    = 0
  /\ mem'     = [p \in Page |-> [val |-> 0, lsn |-> 0]]
  /\ disk'    = [p \in Page |-> [val |-> 0, lsn |-> 0]]
  /\ dirty'   = {}
  /\ since'   = {}
  /\ open'    = FALSE
  /\ acks'    = {}
  /\ phase'   = "run"
  /\ cursor'  = 0

Next ==
  \/ \E p \in Page, fpw \in FpwChoices : Update(p, fpw)
  \/ \E sync \in SyncChoices : Commit(sync)
  \/ FlushLog
  \/ \E p \in Page : WriteBlock(p)
  \/ Checkpoint
  \/ Crash
  \/ RedoStep
  \/ Reset

Spec == Init /\ [][Next]_vars

-------------------------------------------------------------------------------
TypeOK ==
  /\ recs    \in Seq(Rec)
  /\ Insert  <= MaxRecs
  /\ flushed \in 0 .. Insert
  /\ redo    \in 0 .. flushed
  /\ mem     \in [Page -> Block]
  /\ disk    \in [Page -> Block]
  /\ dirty   \subseteq Page
  /\ since   \subseteq Page
  /\ open    \in BOOLEAN
  /\ acks    \subseteq [lsn : 1 .. Insert, durable : BOOLEAN]
  /\ phase   \in {"run", "crashed", "replay", "done"}
  /\ cursor  \in 0 .. flushed

(* The updates of a block among the first n records, and the value the    *)
(* last of them gave it.                                                  *)
Updates(p, n) == {i \in 1 .. n : recs[i].kind = "update" /\ recs[i].page = p}
IsLast(i, p, n) == /\ i \in Updates(p, n) \union {0}
                   /\ \A j \in Updates(p, n) : j <= i
Last(p, n)  == CHOOSE i \in 0 .. n : IsLast(i, p, n)
ValAt(i)    == IF i = 0 THEN 0 ELSE recs[i].val

(* The WAL rule: no block on disk carries a change whose log record is not *)
(* durable.                                                                *)
WalRule == \A p \in Page : disk[p].lsn <= flushed

(* "Everything before the redo point is guaranteed to be on disk already." *)
RedoPointSound ==
  \A p \in Page : \A i \in Updates(p, redo) : i <= disk[p].lsn

(* Redo brings every block to the last change the log kept, however often  *)
(* and however early the block was written before the crash; so a second   *)
(* recovery would find nothing to do.                                      *)
RecoveredAll ==
  phase = "done" =>
    \A p \in Page : disk[p] = [val |-> ValAt(Last(p, flushed)),
                               lsn |-> Last(p, flushed)]

(* Whoever was told "ok" after a flush keeps the transaction, whatever the *)
(* commits acknowledged before their flush do.                            *)
AckedDurable == \A a \in acks : a.durable => a.lsn <= flushed

(* With full_page_writes on, the first change to a block after the redo    *)
(* point carries the whole image, so redo never needs a torn block.        *)
FirstTouchImaged ==
  FALSE \notin FpwChoices =>
    \A p \in Page : \A i \in Updates(p, Insert) :
      i > redo => \E j \in Updates(p, i) : j > redo /\ recs[j].fpi

(* Redo never takes a block back to an older version on the way. *)
RedoForward ==
  [][RedoStep => \A p \in Page : disk'[p].lsn >= disk[p].lsn]_vars

(* The log and the blocks together keep the promise of DurableStore. *)
Saved == [p \in Page |-> ValAt(Last(p, flushed))]
View  == CASE phase = "run"  -> [p \in Page |-> mem[p].val]
           [] phase = "done" -> [p \in Page |-> disk[p].val]
           [] OTHER          -> Saved
Status == CASE phase = "run" -> "up" [] phase = "done" -> "restored"
            [] OTHER -> "down"

Store == INSTANCE DurableStore WITH view <- View, saved <- Saved, status <- Status
KeepsPromise == Store!Spec
===============================================================================
