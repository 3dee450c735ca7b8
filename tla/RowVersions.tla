------------------------------ MODULE RowVersions ------------------------------
(***************************************************************************)
(* Eight labs on transactions and the versions of rows, one of which is in *)
(* use: two transfers interleaved, an index built beside writers, the      *)
(* update path of a heap page, a collector behind a garbage horizon, index *)
(* scans that skip the table, summaries of block ranges, an inverted index *)
(* with a pending list, and a catalog cache that is told of changes.  Each *)
(* leaves the others alone.                                                *)
(***************************************************************************)
EXTENDS Integers, Sequences, FiniteSets

CONSTANTS
  Start, Move1, Move2, FreeSchedule,
  Writer, Reader, Loaded, NoOne, Rows, MaxVersions,
  BLCKSZ, PAGE_HDR, LP_BYTES, TUP_HDR, MAX_LPS, Fillfactor, RowBytes, MaxXid,
  START_XID, MAX_VERSIONS, MAX_SPAN, MAX_READERS,
  LAB_PAGES, ROWS_PER_PAGE, InitialRows, Hit, Choosable, MAX_ENTRIES, MaxTrx,
  Columns, MaxColumns, MaxIndexes, BOOT,
  PAGE_ROWS, START_PAGES, MAX_PAGES, PPR_OPTIONS, VALUES_PER_RANGE,
  InOrderCount, LateCount, LateValue, MaxTs,
  RowKeys, PENDING_PAGE_ENTRIES, PageLimits, INITIAL_ROWS, MAX_ROWS

VARIABLES
  lab,
  mode, iso, queue, val, ver, lock, blocked, pc, state, reg, readFrom, undo,
  staleWrites, lastBlocked, victim, crashed,
  stage, exists, ready, valid, lockers, s1, s2, have, entries, heap, saw, xids,
  ended, snap,
  engine, ff, rowBytes, lps, idx, xid, prunePending, vacPass1, deadTids, recs,
  undoLog, snapXid,
  nextId, versions, readers, deleted,
  server, def, orders, vm, pageXid, leaf, leafMaxTrxId, nextTrx, ltxXid,
  ddl, stepIx, committed, working, aOpen, pending, unread, bEntry, bValid,
  bReset, bMapStale, bLocked, booting, boot, initFile,
  brin, gin

Bank    == INSTANCE BankTransfer
Cic     == INSTANCE ConcurrentIndex
Hot     == INSTANCE HotChains
Garbage == INSTANCE GarbageHorizon
Scan    == INSTANCE IndexOnlyScan
Catalog == INSTANCE CatalogCache
Brin    == INSTANCE BrinRanges
Gin     == INSTANCE GinPending

Lab == {"bank", "cic", "hot", "garbage", "scan", "catalog", "brin", "gin"}

ASSUME Assumption ==
  /\ Bank!BankAssumption /\ Cic!CicAssumption /\ Hot!HotAssumption
  /\ Garbage!GarbageAssumption /\ Scan!ScanAssumption /\ Catalog!CatalogAssumption
  /\ Brin!BrinAssumption /\ Gin!GinAssumption

bankVars    == <<mode, iso, queue, val, ver, lock, blocked, pc, state, reg, readFrom,
                 undo, staleWrites, lastBlocked, victim, crashed>>
cicVars     == <<stage, exists, ready, valid, lockers, s1, s2, have, entries, heap,
                 saw, xids, ended, snap>>
hotVars     == <<engine, ff, rowBytes, lps, idx, xid, prunePending, vacPass1,
                 deadTids, recs, undoLog, snapXid>>
garbageVars == <<nextId, versions, readers, deleted>>
scanVars    == <<server, def, orders, vm, pageXid, leaf, leafMaxTrxId, nextTrx,
                 ltxXid>>
catalogVars == <<ddl, stepIx, committed, working, aOpen, pending, unread, bEntry,
                 bValid, bReset, bMapStale, bLocked, booting, boot, initFile>>
vars        == <<lab, bankVars, cicVars, hotVars, garbageVars, scanVars, catalogVars,
                 brin, gin>>

Others(l) ==
  /\ l # "bank"    => UNCHANGED bankVars
  /\ l # "cic"     => UNCHANGED cicVars
  /\ l # "hot"     => UNCHANGED hotVars
  /\ l # "garbage" => UNCHANGED garbageVars
  /\ l # "scan"    => UNCHANGED scanVars
  /\ l # "catalog" => UNCHANGED catalogVars
  /\ l # "brin"    => UNCHANGED brin
  /\ l # "gin"     => UNCHANGED gin

(* Every lab is as it is loaded; the controls of those that are not in use *)
(* have one of their values.                                               *)
Init ==
  /\ lab \in Lab
  /\ Bank!Init
  /\ lab # "bank" => mode = "explicit" /\ iso /\ queue = Bank!buildOrder(3, 2)
  /\ Cic!Init
  /\ Hot!HotInit
  /\ lab # "hot"  => /\ engine = "pg"
                     /\ \A f \in Fillfactor : ff <= f
                     /\ \A b \in RowBytes : rowBytes <= b
  /\ Garbage!GarbageInit
  /\ Scan!ScanInit
  /\ lab # "scan" => \A r \in DOMAIN orders : orders[r] = [who |-> "customer", status |-> "open"]
  /\ Catalog!CatalogInit
  /\ Brin!BrinInit
  /\ lab # "brin" => brin = Brin!newLab(CHOOSE h \in Brin!Heaps : TRUE,
                                        CHOOSE n \in PPR_OPTIONS : TRUE, "minmax")
  /\ Gin!GinInit
  /\ lab # "gin"  => \A i \in DOMAIN gin.keys : gin.keys[i] = (CHOOSE ks \in RowKeys : TRUE)

Step ==
  \/ lab = "bank"    /\ Bank!Next
  \/ lab = "cic"     /\ Cic!Next
  \/ lab = "hot"     /\ Hot!HotStep
  \/ lab = "garbage" /\ Garbage!GarbageStep
  \/ lab = "scan"    /\ Scan!ScanStep
  \/ lab = "catalog" /\ Catalog!CatalogStep
  \/ lab = "brin"    /\ Brin!BrinStep
  \/ lab = "gin"     /\ Gin!GinStep

Next == Step /\ Others(lab) /\ UNCHANGED lab

(* simulate() runs its loop to the end; nobody has to go on elsewhere. *)
Simulate == lab = "bank" /\ Bank!Run /\ Others(lab) /\ UNCHANGED lab

Spec == Init /\ [][Next]_vars /\ WF_vars(Simulate)

-------------------------------------------------------------------------------
TypeOK ==
  /\ lab \in Lab
  /\ lab = "bank"    => Bank!TypeOK
  /\ lab = "cic"     => Cic!TypeOK
  /\ lab = "hot"     => Hot!HotTypeOK
  /\ lab = "garbage" => Garbage!GarbageTypeOK
  /\ lab = "scan"    => Scan!ScanTypeOK
  /\ lab = "catalog" => Catalog!CatalogTypeOK
  /\ lab = "brin"    => Brin!BrinTypeOK
  /\ lab = "gin"     => Gin!GinTypeOK

(* Strictly locked transfers leave, at every moment and after every crash  *)
(* or rollback, what the committed ones make of the balances.              *)
SerialWhenLocked == lab = "bank" => Bank!SerialWhenLocked

(* Where the lab reports no anomaly, whatever was interleaved how, the     *)
(* balances are those of the durable transfers alone.                      *)
VerdictSound == lab = "bank" => Bank!VerdictSound

(* Only a transaction in a real deadlock is rolled back. *)
OnlyDeadlocksAbort == [][lab = "bank" => Bank!VictimIsDeadlocked]_vars

(* Every schedule of the transfers comes to its end. *)
EveryScheduleEnds == <>(lab = "bank" => Bank!ScheduleOver)

(* The index that was built beside writers has one entry for every row     *)
(* that anybody may look for in it.                                        *)
CurrentRowsIndexed == lab = "cic" => Cic!CurrentRowsIndexed

(* From the build's snapshot on there is no chain it would have to follow. *)
ChainsUnbroken == lab = "cic" => Cic!ChainsUnbroken

(* No pruning, vacuum or collection takes a version from a snapshot that   *)
(* sees it.                                                                *)
SnapshotsKept ==
  [][/\ lab = "garbage" => Garbage!ReadersKeepTheirVersion
     /\ lab = "hot"     => Hot!SnapshotKeepsItsRows]_vars

(* What is read through an index or a cache is right: the entries of a     *)
(* page lead to the versions of their rows, a scan that skips the table    *)
(* returns the table's rows, no block range with a match is left out, a    *)
(* row is in the inverted index or on its way to it, once; and a cached    *)
(* definition that is out of date is found out at the next drain.          *)
AnswersRight ==
  /\ lab = "hot"     => Hot!EntriesLead
  /\ lab = "scan"    => Scan!ScanReturnsRows /\ Scan!UncheckedIsSettled
  /\ lab = "catalog" => Catalog!StaleIsFoundOut
  /\ lab = "brin"    => Brin!NothingMissed /\ Brin!SummariesFit
  /\ lab = "gin"     => Gin!EachOnce /\ Gin!PendingFits
===============================================================================
