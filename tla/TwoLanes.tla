------------------------------- MODULE TwoLanes -------------------------------
(***************************************************************************)
(* The lab of FileVsEngineLanes.tsx: the same orders go to a flat file and *)
(* to a table with a log and a key, through interleaved writers, a power   *)
(* cut in the middle of a write, a restart, a retry of what had committed, *)
(* and a malformed row.                                                    *)
(***************************************************************************)
EXTENDS Integers, Sequences, SequencesExt

CONSTANTS
  MAX_ORDERS,   \* bound: the orders of a run
  MAX_LINES     \* bound: the lines of the file, which retries make longer

VARIABLES
  lanes         \* file, table, log, the next order, the last that committed, crashed, counters

LanesAssumption == MAX_ORDERS \in Nat /\ MAX_LINES \in Nat

Line(id, kind) == [id |-> id, kind |-> kind]
Count(s, kinds) == Len(SelectSeq(s, LAMBDA l : l.kind \in kinds))

Fresh ==
  [file |-> <<>>, table |-> <<>>, wal |-> <<>>, next |-> 1, lastOk |-> 0,
   crashed |-> FALSE, fileBroken |-> 0, dbRejects |-> 0]

LanesInit == lanes = Fresh

(* Two clients, one order each.  Without O_APPEND interleaved writers take *)
(* the same offset, and the second's bytes land on the first's.            *)
AppendBoth(interleave, oappend) ==
  LET a == lanes.next
      b == lanes.next + 1
      clobbered == interleave /\ ~oappend
      both      == <<Line(a, "ok"), Line(b, "ok")>>
  IN  /\ ~lanes.crashed
      /\ b <= MAX_ORDERS /\ Len(lanes.file) + 2 <= MAX_LINES
      /\ lanes' = [lanes EXCEPT
           !.next = b + 1,
           !.file = @ \o (IF clobbered THEN <<Line(a, "clobbered")>> ELSE both),
           !.fileBroken = @ + (IF clobbered THEN 1 ELSE 0),
           !.wal = @ \o both, !.table = @ \o both, !.lastOk = b]

(* Power goes in the middle of a write: a prefix of the line, a record     *)
(* whose CRC does not match, a row no snapshot will see.                   *)
CrashMidWrite ==
  /\ ~lanes.crashed
  /\ lanes.next <= MAX_ORDERS /\ Len(lanes.file) < MAX_LINES
  /\ lanes' = [lanes EXCEPT
       !.next = @ + 1, !.file = Append(@, Line(lanes.next, "torn")), !.fileBroken = @ + 1,
       !.wal = Append(@, Line(lanes.next, "inflight")),
       !.table = Append(@, Line(lanes.next, "inflight")), !.crashed = TRUE]

RestartLanes ==
  /\ lanes.crashed
  /\ lanes' = [lanes EXCEPT
       !.wal = [i \in DOMAIN @ |-> IF @[i].kind = "inflight" THEN Line(@[i].id, "gone") ELSE @[i]],
       !.table = SelectSeq(@, LAMBDA t : t.kind # "inflight"),
       !.crashed = FALSE]

Retry ==
  /\ ~lanes.crashed /\ lanes.lastOk # 0
  /\ Len(lanes.file) < MAX_LINES
  /\ lanes' = [lanes EXCEPT
       !.file = Append(@, Line(lanes.lastOk, "dup")), !.fileBroken = @ + 1, !.dbRejects = @ + 1]

BadRow ==
  /\ ~lanes.crashed
  /\ lanes.next <= MAX_ORDERS /\ Len(lanes.file) < MAX_LINES
  /\ lanes' = [lanes EXCEPT
       !.next = @ + 1, !.file = Append(@, Line(lanes.next, "bad")),
       !.fileBroken = @ + 1, !.dbRejects = @ + 1]

ResetLanes == lanes' = Fresh

LanesStep ==
  \/ \E interleave, oappend \in BOOLEAN : AppendBoth(interleave, oappend)
  \/ CrashMidWrite \/ RestartLanes \/ Retry \/ BadRow \/ ResetLanes

-------------------------------------------------------------------------------
LanesTypeOK ==
  /\ lanes.file \in Seq([id : 1 .. MAX_ORDERS, kind : {"ok", "torn", "dup", "clobbered", "bad"}])
  /\ lanes.table \in Seq([id : 1 .. MAX_ORDERS, kind : {"ok", "inflight"}])
  /\ lanes.wal \in Seq([id : 1 .. MAX_ORDERS, kind : {"ok", "inflight", "gone"}])
  /\ lanes.crashed \in BOOLEAN

Valid(s) == SelectSeq(s, LAMBDA l : l.kind = "ok")

(* Through power cuts and retries the table is what the valid records of   *)
(* the log say, each order once and in order, and nothing else once the    *)
(* engine is up; a retry is of an order it holds.                          *)
TableIsTheLog ==
  /\ Valid(lanes.table) = Valid(lanes.wal)
  /\ \A i, j \in DOMAIN lanes.table : i < j => lanes.table[i].id < lanes.table[j].id
  /\ ~lanes.crashed => Valid(lanes.table) = lanes.table
  /\ \A l \in ToSet(lanes.file) : l.kind = "dup" => Line(l.id, "ok") \in ToSet(lanes.table)

(* The two counters tell what separates the lanes: an order of the table   *)
(* is an intact line or under a clobbered one, and every other line is one *)
(* the file broke, of which the engine refused the retried and the bad.    *)
CountersTell ==
  /\ Count(lanes.table, {"ok"}) = Count(lanes.file, {"ok"}) + 2 * Count(lanes.file, {"clobbered"})
  /\ lanes.fileBroken = Len(lanes.file) - Count(lanes.file, {"ok"})
  /\ lanes.dbRejects = Count(lanes.file, {"dup", "bad"})
===============================================================================
