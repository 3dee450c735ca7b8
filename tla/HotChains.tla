------------------------------- MODULE HotChains -------------------------------
(***************************************************************************)
(* HotChainPruneLab.tsx: the update path on one heap page.  PostgreSQL     *)
(* writes a new version, on the page without an index entry (HOT) when no  *)
(* indexed column changed and it fits, else with an entry, here or on      *)
(* another page; a page read or VACUUM prunes the chains, and VACUUM's two *)
(* passes release line pointers.  InnoDB updates in place and keeps the    *)
(* version before in an undo record until purge.                           *)
(*                                                                         *)
(* Sizes are in bytes as in the code.  Which row an update takes is drawn  *)
(* from a fixed table there and free here.  The number of indexes only     *)
(* multiplies the counters: one index stands for all of them.              *)
(***************************************************************************)
EXTENDS Integers, Sequences, FiniteSets

CONSTANTS
  BLCKSZ, PAGE_HDR, LP_BYTES, TUP_HDR,
  MAX_LPS,                \* line pointers of the page
  Fillfactor, RowBytes,   \* what the sliders offer
  MaxXid                  \* bound: the last transaction

HotAssumption ==
  /\ {BLCKSZ, PAGE_HDR, TUP_HDR, MAX_LPS, MaxXid} \subseteq Nat /\ LP_BYTES \in Nat \ {0}
  /\ Fillfactor \subseteq 1 .. 100 /\ RowBytes \subseteq Nat

VARIABLES
  engine, ff, rowBytes,   \* the controls that load the page anew
  lps,                    \* line pointers: [state, redirect, ver]
  idx,                    \* index entries: [row, page, lp, killed]
  xid,
  prunePending,           \* pd_prune_xid is set
  vacPass1, deadTids,     \* what VACUUM's first pass has collected
  recs, undoLog,          \* InnoDB: records [trx, roll], undo [row, trx, purged]
  snapXid                 \* the open snapshot

hotVars == <<engine, ff, rowBytes, lps, idx, xid, prunePending, vacPass1,
             deadTids, recs, undoLog, snapXid>>
pageVars == <<lps, idx, prunePending, vacPass1, deadTids>>

LoadXid    == 100
NoSnapshot == 0
Live       == 0     \* the xmax of a version that is not superseded
NoVer      == [row |-> 0]

-------------------------------------------------------------------------------
align8(n) == ((n + 7) \div 8) * 8
tupLen    == align8(TUP_HDR + rowBytes)

AtLeastTwo(n) == IF n < 2 THEN 2 ELSE n
LoadedRows(f, len) ==
  AtLeastTwo(((BLCKSZ - PAGE_HDR) * f) \div (100 * (len + LP_BYTES)))

Lp(state, redirect, ver) == [state |-> state, redirect |-> redirect, ver |-> ver]
clearVer(state)          == Lp(state, 0, NoVer)
Version(row, min, isHot) ==
  [row |-> row, xmin |-> min, xmax |-> Live, hot |-> isHot, link |-> 0]
Entry(row, page, lp) == [row |-> row, page |-> page, lp |-> lp, killed |-> FALSE]

(* initial(): the rows that fit below the fillfactor, each with an entry. *)
rows     == 1 .. LoadedRows(ff, tupLen)
loaded   == [r \in rows |-> Lp("normal", 0, Version(r, LoadXid, FALSE))]
entries  == [r \in rows |-> Entry(r, 0, r)]
inPlace  == [r \in rows |-> [trx |-> LoadXid, roll |-> 0]]

HotInit ==
  /\ engine \in {"pg", "innodb"} /\ ff \in Fillfactor /\ rowBytes \in RowBytes
  /\ lps = loaded /\ idx = entries /\ recs = inPlace
  /\ xid = LoadXid + 1
  /\ prunePending = FALSE
  /\ vacPass1 = FALSE /\ deadTids = {}
  /\ undoLog = <<>>
  /\ snapXid = NoSnapshot

-------------------------------------------------------------------------------
LpId     == DOMAIN lps
HasVer(i) == lps[i].ver # NoVer
pageFree == BLCKSZ - (PAGE_HDR + LP_BYTES * Len(lps)
                      + tupLen * Cardinality({i \in LpId : HasVer(i)}))

horizon == IF snapXid = NoSnapshot THEN xid ELSE snapXid

(* A bug: what the horizon's own transaction superseded is dead already. *)
DeadAtHorizon(v) == v.xmax # Live /\ v.xmax <= horizon

isDead(v) == v.xmax # Live /\ v.xmax < horizon

liveRowsOnPage ==
  {i \in LpId : lps[i].state = "normal" /\ HasVer(i) /\ lps[i].ver.xmax = Live}

Unused     == {i \in LpId : lps[i].state = "unused"}
First(s)   == CHOOSE i \in s : \A j \in s : i <= j
needsNewLp == Unused = {}
target     == IF needsNewLp THEN Len(lps) + 1 ELSE First(Unused)
fits       == /\ pageFree >= tupLen + (IF needsNewLp THEN LP_BYTES ELSE 0)
              /\ needsNewLp => Len(lps) < MAX_LPS

Place(page, i, lp) ==
  IF i = Len(page) + 1 THEN Append(page, lp) ELSE [page EXCEPT ![i] = lp]

Away == Cardinality({i \in DOMAIN idx : idx[i].page = 1})

(* pgUpdate() of the live version at line pointer i; keyed: an indexed     *)
(* column changes.                                                         *)
pgUpdate(i, keyed) ==
  LET old == lps[i].ver
      hot == ~keyed /\ fits
      superseded == [lps EXCEPT ![i].ver.xmax = xid,
                                ![i].ver.link = IF hot THEN target ELSE 0]
  IN
  /\ engine = "pg" /\ xid < MaxXid
  /\ i \in liveRowsOnPage
  /\ lps' = IF fits THEN Place(superseded, target,
                               Lp("normal", 0, Version(old.row, xid, hot)))
                    ELSE superseded
  /\ idx' = IF hot THEN idx
            ELSE Append(idx, IF fits THEN Entry(old.row, 0, target)
                                     ELSE Entry(old.row, 1, Away + 1))
  /\ prunePending' = TRUE
  /\ xid' = xid + 1
  /\ UNCHANGED <<engine, ff, rowBytes, vacPass1, deadTids, recs, undoLog, snapXid>>

-------------------------------------------------------------------------------
(* The next version of the page after those of c, a chain from i. *)
Follow(c, i) ==
  LET at == IF c = <<>> THEN i ELSE lps[c[Len(c)]].ver.link
  IN  IF at \in LpId /\ HasVer(at) THEN Append(c, at) ELSE c

(* The chain of versions that begins at line pointer i. *)
ChainFrom(i) ==
  LET walk[n \in 0 .. Len(lps)] == IF n = 0 THEN <<>> ELSE Follow(walk[n - 1], i)
  IN  walk[Len(lps)]

Chain(i) == ChainFrom(IF lps[i].state = "redirect" THEN lps[i].redirect ELSE i)

Root(i) == \/ lps[i].state = "normal" /\ HasVer(i) /\ ~lps[i].ver.hot
           \/ lps[i].state = "redirect"

(* How many versions at the head of the chain c are dead. *)
DeadHead(c) ==
  CHOOSE k \in 0 .. Len(c) :
    /\ \A j \in 1 .. k : isDead(lps[c[j]].ver)
    /\ k < Len(c) => ~isDead(lps[c[k + 1]].ver)

Removed ==
  LET Gone(c) == {c[k] : k \in 1 .. DeadHead(c)}
  IN  UNION {Gone(Chain(i)) : i \in {r \in LpId : Root(r)}}

(* A bug: the root of a chain that is all dead can be used again at once,  *)
(* with an index entry still pointing at it.                               *)
StubUnused(i) == clearVer("unused")

(* What is left of the line pointer of a dead version: an index entry may  *)
(* point at one that is not heap-only.                                     *)
Stub(i) == clearVer(IF lps[i].ver.hot THEN "unused" ELSE "dead")

PrunedLp(i, removed) ==
  LET c == Chain(i)
      k == DeadHead(c)
  IN  IF Root(i) /\ k > 0
        THEN IF k < Len(c) THEN Lp("redirect", c[k + 1], NoVer)
             ELSE IF lps[i].state = "redirect" THEN clearVer("dead") ELSE Stub(i)
      ELSE IF i \in removed THEN Stub(i)
      ELSE lps[i]

(* heap_page_prune(): the dead head of every chain goes. *)
prune ==
  LET removed == Removed
  IN  /\ lps' = [i \in LpId |-> PrunedLp(i, removed)]
      /\ prunePending' = (prunePending /\ removed = {})

(* A page read prunes when an update has left a candidate and little room. *)
pgRead ==
  /\ engine = "pg"
  /\ prunePending
  /\ 100 * pageFree < BLCKSZ * (100 - ff) \/ 10 * pageFree < BLCKSZ
  /\ prune
  /\ UNCHANGED <<engine, ff, rowBytes, idx, xid, vacPass1, deadTids, recs, undoLog,
                 snapXid>>

pgVacuum1 ==
  /\ engine = "pg"
  /\ prune
  /\ deadTids' = {i \in LpId : lps'[i].state = "dead"}
  /\ vacPass1' = TRUE
  /\ UNCHANGED <<engine, ff, rowBytes, idx, xid, recs, undoLog, snapXid>>

(* The entries that the index vacuum leaves, in their order.               *)
Left(c, e) == IF e.page = 0 /\ e.lp \in deadTids THEN c ELSE Append(c, e)
idxLeft ==
  LET walk[n \in 0 .. Len(idx)] == IF n = 0 THEN <<>> ELSE Left(walk[n - 1], idx[n])
  IN  walk[Len(idx)]

(* The index vacuum, then the second pass over the heap. *)
pgVacuum2 ==
  LET released == [i \in LpId |-> IF i \in deadTids THEN clearVer("unused") ELSE lps[i]]
      used     == {0} \cup {i \in LpId : released[i].state # "unused"}
      last     == CHOOSE i \in used : \A j \in used : j <= i
  IN
  /\ engine = "pg" /\ vacPass1
  /\ idx' = idxLeft
  /\ lps' = SubSeq(released, 1, last)
  /\ deadTids' = {}
  /\ vacPass1' = FALSE
  /\ UNCHANGED <<engine, ff, rowBytes, xid, prunePending, recs, undoLog, snapXid>>

-------------------------------------------------------------------------------
(* Where an index scan gets to from line pointer i. *)
LiveIn(i) == LET c == Chain(i) IN {j \in DOMAIN c : lps[c[j]].ver.xmax = Live}
Hops(i)   == (IF lps[i].state = "redirect" THEN 1 ELSE 0) + First(LiveIn(i)) - 1

Chased    == {i \in LpId : LiveIn(i) # {} /\ Hops(i) > 0}
Flat      == {i \in LpId : LiveIn(i) # {} /\ Hops(i) = 0}

OnPage(e)  == ~e.killed /\ e.page = 0
RowsTo(to) == {idx[j].row : j \in {k \in DOMAIN idx : OnPage(idx[k]) /\ idx[k].lp \in to}}

(* The scan prefers a row whose entry has a chain to walk. *)
ScannedRows ==
  LET chased == RowsTo(Chased)
      flat   == RowsTo(Flat)
  IN  IF chased # {} THEN chased ELSE IF flat # {} THEN flat ELSE RowsTo(LpId)

(* pgScan(): the entries of a row up to the first that leads to its live   *)
(* version; the line pointers that are dead or unused lose their entry.    *)
pgScan(row) ==
  LET of     == {j \in DOMAIN idx : OnPage(idx[j]) /\ idx[j].row = row}
      found  == {j \in of : LiveIn(idx[j].lp) # {}}
      tried  == {j \in of : \A k \in found : j < k}
      killed == {j \in tried : lps[idx[j].lp].state \in {"dead", "unused"}}
  IN
  /\ engine = "pg"
  /\ row \in ScannedRows
  /\ idx' = [j \in DOMAIN idx |-> IF j \in killed THEN [idx[j] EXCEPT !.killed = TRUE]
                                                  ELSE idx[j]]
  /\ UNCHANGED <<engine, ff, rowBytes, lps, xid, prunePending, vacPass1, deadTids,
                 recs, undoLog, snapXid>>

-------------------------------------------------------------------------------
ibUpdate(row) ==
  /\ engine = "innodb" /\ xid < MaxXid
  /\ undoLog' = Append(undoLog, [row |-> row, trx |-> recs[row].trx, purged |-> FALSE])
  /\ recs' = [recs EXCEPT ![row] = [trx |-> xid, roll |-> Len(undoLog) + 1]]
  /\ xid' = xid + 1
  /\ UNCHANGED <<engine, ff, rowBytes, pageVars, snapXid>>

ibPurge ==
  /\ engine = "innodb"
  /\ undoLog' = [i \in DOMAIN undoLog |->
                   IF undoLog[i].trx < horizon THEN [undoLog[i] EXCEPT !.purged = TRUE]
                                               ELSE undoLog[i]]
  /\ UNCHANGED <<engine, ff, rowBytes, pageVars, xid, recs, snapXid>>

ToggleSnapshot ==
  /\ snapXid' = IF snapXid = NoSnapshot THEN xid ELSE NoSnapshot
  /\ UNCHANGED <<engine, ff, rowBytes, pageVars, xid, recs, undoLog>>

HotStep ==
  \/ \E i \in LpId, keyed \in BOOLEAN : pgUpdate(i, keyed)
  \/ pgRead \/ pgVacuum1 \/ pgVacuum2
  \/ \E r \in DOMAIN recs : pgScan(r) \/ ibUpdate(r)
  \/ ibPurge
  \/ ToggleSnapshot

HotSpec == HotInit /\ [][HotStep]_hotVars

-------------------------------------------------------------------------------
Xid == LoadXid .. MaxXid

HotTypeOK ==
  /\ engine \in {"pg", "innodb"} /\ ff \in Fillfactor /\ rowBytes \in RowBytes
  /\ \A i \in LpId :
       /\ lps[i].state \in {"unused", "normal", "redirect", "dead"}
       /\ (lps[i].state = "normal") = HasVer(i)
       /\ lps[i].redirect \in 0 .. Len(lps)
       /\ (lps[i].state = "redirect") = (lps[i].redirect # 0)
  /\ Len(lps) <= MAX_LPS
  /\ pageFree >= 0
  /\ xid \in Xid /\ snapXid \in {NoSnapshot} \cup Xid
  /\ deadTids \subseteq LpId
  /\ \A r \in DOMAIN recs : recs[r].roll \in 0 .. Len(undoLog)

(* The versions an index entry leads to are those of its own row, and      *)
(* every version somebody may still see is led to by an entry that no scan *)
(* has killed; a line pointer that may be used again has no entry.         *)
EntriesLead ==
  LET here    == {idx[j] : j \in {k \in DOMAIN idx : idx[k].page = 0}}
      Led(e)  == {Chain(e.lp)[k] : k \in 1 .. Len(Chain(e.lp))}
  IN
  /\ \A e \in here :
       /\ e.lp \in LpId \ Unused
       /\ \A i \in Led(e) : lps[i].ver.row = e.row
  /\ \A i \in LpId :
       HasVer(i) /\ ~isDead(lps[i].ver) =>
         \E e \in here : ~e.killed /\ i \in Led(e)

(* The version of each row on the page that the snapshot sees. *)
OnPageFor(s) ==
  {<<lps[i].ver.row, lps[i].ver.xmin>> :
     i \in {j \in LpId : /\ HasVer(j) /\ lps[j].ver.xmin < s
                         /\ lps[j].ver.xmax = Live \/ lps[j].ver.xmax >= s}}

(* While a snapshot is open no step takes a version from it. *)
SnapshotKeepsItsRows ==
  snapXid # NoSnapshot /\ snapXid' = snapXid => OnPageFor(snapXid)' = OnPageFor(snapXid)

(* "with an open snapshot, nothing that snapshot might still need can be   *)
(* removed": the version of a record from before the read view is in the   *)
(* record or in an undo record that has not been purged.                   *)
ViewCanRead ==
  engine = "innodb" /\ snapXid # NoSnapshot =>
    \A r \in DOMAIN recs :
      \/ recs[r].trx < snapXid
      \/ \E i \in DOMAIN undoLog :
           undoLog[i].row = r /\ undoLog[i].trx < snapXid /\ ~undoLog[i].purged
===============================================================================
