# Verification of db-internals

db-internals is a book of web pages about databases. Its program logic is in
the *labs* under `src/components/viz` of the repository (140 components, about
111,000 lines of TypeScript): each one is a simulator of one mechanism of a
database - a buffer pool, a write-ahead log, a latch protocol - written as pure
functions over a state, with buttons, sliders and a ticker that call them.
This directory holds TLA+ specifications of those simulators, the
configurations that model-check them, and machine-checked proofs of what holds
of them at any size. There is no test in the repository; what a lab promises is
said in its comments and in the text it shows.

Paths below are relative to the repository; `viz/X` stands for
`src/components/viz/X.tsx`.

## 1. Inventory

The labs do not call each other. Inside one, the pieces that interact are
several actors of the simulation (backends, threads, transactions, readers, a
checkpointer), the user, who may press any enabled button between two steps,
and the animation ticker (`Viz.tsx`), which repeats a step while it runs.

### Components modelled

**Shared buffer pool** (`viz/BufferFrameDescriptorLab`).
*State*: an array of frame descriptors (tag, refcount, usage count, dirty,
valid, I/O in progress), the clock hand, and for each backend the phase of its
`ReadBuffer()` request, the frame it chose as victim, the frame it resolved to
and the pins it keeps. *Operations*: a request; one micro-operation of a
request (`step`: lookup, victim, write-back, swap, I/O, wake-up);
mark dirty; unpin; resize; reset. *Hard*: nothing is locked between two
micro-operations, so a victim may be pinned, dirtied, retagged or withdrawn
before it is used, two backends may miss the same page, one may wait for a
read another one has to finish, and a resize may pull the frame away.
*Correct if*: a page is in one frame, refcounts equal pins, a pinned page stays,
no waiter is forgotten, the sweep finds the right victim.

**Write-ahead log and recovery** (`viz/WalLogBeforePageLab`).
*State*: log records, flush pointer, redo point, blocks in memory and on disk,
dirty blocks, those changed since the checkpoint, acknowledged commits, the
replay cursor. *Operations*: update, commit (flush before or after the
acknowledgement), flush, write a block, checkpoint, crash, redo one record or
all, reset, two switches. *Hard*: a crash between any two of them; two paths by
which a block reaches disk; a redo point fixed before the blocks are written.
*Correct if*: no block is ahead of the log, nothing before the redo point is
missing on disk, redo rebuilds what the log kept and no more, acknowledged
commits survive.

**Dirty page write-back and checkpoints** (`viz/DirtyPageWriteBackLab`).
*State*: frames with first and last LSN of their changes, image flag and
checkpoint mark; insert and flush pointers; the running checkpoint. *Operations*:
the parts of a tick - modifications (which may evict), the WAL writer, the page
cleaner and LRU flush (InnoDB) or the background writer and the checkpointer
(PostgreSQL) - and the buttons. *Hard*: five writers take frames from each other
while a checkpoint is spread over ticks. *Correct if*: recovery would start
before every unwritten change, within the durable log, and never moves back;
checkpoints end.

**B+tree latch protocols** (`viz/BLinkLatchProtocolLab`).
*State*: a three-level tree, its latches or versions, and the position of an
inserter and a reader, each with its own stack of pages. *Operations*: one step
of either thread under latch crabbing (pessimistic or optimistic), the index
lock of InnoDB 5.6 and 5.7, optimistic lock coupling, and B-link; the switches
and Reset. *Hard*: every interleaving of the two threads, with splits that climb
zero, one or two levels. *Correct if*: the tree keeps every key in order, a
reader finds the key that is there, nobody changes a page it has not latched, no
cycle of waiting, both threads end.

**CREATE INDEX CONCURRENTLY** (`viz/CreateIndexConcurrentlyLab`).
*State*: the index's catalog flags, two snapshots, the entries, the heap with its
HOT chains, running transactions and what each knows of the index list.
*Operations*: the steps of the build with its three waits, cancellation;
insert, update, delete, commit of a writer; begin and end of a reader. *Hard*:
writers that learned of the index too early or too late. *Correct if*: once
valid, the index finds every row exactly once for every snapshot that may use it.

**Memory reclamation** (`viz/ReclamationSchemesRaceLab`).
*State*: a linked list in reusable slots, readers standing on nodes, and each
scheme's own bookkeeping (epochs, hazard pointers and a retire list, grace
periods). *Operations*: insert and unlink, begin / advance / restart / end of a
lookup, pause, reclaim. *Hard*: memory freed and reused under a reader that
stopped anywhere. *Correct if*: no reader meets freed memory unless there is no
scheme, memory is bounded or given back.

**Transactions, interleaved** (`viz/BankTransferInterleaveLab`).
*State*: the queue of issued steps, balances, row locks, each transfer's program counter,
registers and undo records, the trace's anomalies. *Operations*: one step, which
runs the first step in the queue that is not blocked, or rolls a deadlock's
victim back; power cut and recovery; the verdict. *Hard*: 252 orders of ten steps, blocked
steps that stay in the queue, a crash between any two. *Correct if*: locked runs
are serial, the verdict reports every anomaly there was, only deadlocks abort,
every schedule ends.

**Versions and the garbage horizon** (`viz/GarbageHorizonTimeline`), **HOT chains and
pruning** (`viz/HotChainPruneLab`). *State*: versions of one row with the
transactions that began and ended them, open snapshots; the line pointers, chains, index
entries and undo records of one page. *Operations*: update, delete, insert, open
and close a reader, reclaim; HOT and cold updates, pruning when a page is read,
VACUUM's two passes, purge. *Hard*: long sequences that leave redirects and
stubs behind, cleanup while a snapshot is open. *Correct if*: no version a
snapshot sees is taken, an index entry leads to its row.

**Index-only scans** (`viz/IndexOnlyScanVisibilityLab`), **catalog caches**
(`viz/CatalogBootstrapInvalidationLab`). *State*: visibility bits and the last
writer of an index page beside the rows; a cached catalog entry and unread
invalidation messages. *Operations*: updates, inserts, vacuum, purge, scans; DDL scripts
of several transactions, drains, overruns, cold starts. *Hard*: something checked earlier is
used later. *Correct if*: a scan that skips the table returns what the table
holds; a stale entry is found out before it is used.

**Durability stack** (`viz/DurabilityStackLab`), **safe file replacement**
(`viz/CrashReplaceOrderingPuzzle`). *State*: which records are in the page
cache, the drive's cache and on media, pending write errors, what the program
was told; a program of system calls. *Operations*: write, write-back, flush, fsync,
FUA, an injected error, power cut, reboot; editing the program. *Hard*: an error is
reported once and the page is clean afterwards; each file system orders effects
in its own way. *Correct if*: what a sync returned for survives; the safe protocol leaves the old or
the new file on every file system.

**Split crash recovery** (`viz/SplitCrashRecoveryLab`), **LSM manifest recovery**
(`viz/ManifestRecoveryLab`). *State*: the discipline or events, the crash point,
what is durable. *Operations*: crash after any write, recover, descend, repair. *Correct
if*: what recovery finds is the state before or after, and what the lab says is the matter is.

**Append-only log store** (`viz/BitcaskAppendLogLab`), **hash directories**
(`viz/ExtendibleLinearHashLab`), **flash translation layer** (`viz/FlashTranslationLab`),
**B+tree structure changes** (`viz/BtreeSplitMergeConsole`), **Bw-tree**
(`viz/BwTreeMappingTableLab`). *State*: files and a key directory; buckets behind
a directory or a split pointer; pages behind a map; linked pages; delta chains behind a mapping table.
*Operations*: writes and deletes; rolling, merging, doubling, splitting, garbage
collection, borrowing, merging, VACUUM, consolidation; crash and restart (Bitcask); lost
races of two threads (Bw-tree). *Hard*: reorganisation moves what a reader looks
for, after sequences no example shows. *Correct if*: each is a map or a set of
keys, and its structure is whole after every step.

**Persistent trees** (`viz/PathCopyPersistenceLab`). *State*: the versions, the
heads of the main line and a branch, a reader, and the nodes - immutable pages, fat nodes with
stamps, or nodes with extra slots. *Operations*: commit to a line, open and close a reader,
branch, drop, reclaim after each. *Hard*: a freed page is the next to be written. *Correct if*:
every retained version shows what its history wrote.

**Sequence lock** (`viz/SeqlockFenceLab`). *State*: the fences, the stores a reader
sees, the values it loaded. *Operations*: a store becomes visible, a load is satisfied, in any
order the machine and the fences allow. *Correct if*: an accepted record is a whole one.

**Who owns the cached copy** (`viz/CachePathOwnershipLab`). *State*: frames of the
pool and of the page cache, the data file, the log. *Operations*: read, change, sync the
log, kernel write-back, power cut, under three modes. *Hard*: an old copy below a new
one, and two parties that write. *Correct if*: the newest copy is found, and with a pool nothing
reaches the disk ahead of the log.

**Buffered and copy-on-write trees** (`viz/BepsilonCowTreeLab`). *State*: buffers of messages above
the leaves; the leaves each commit changed, the phase of the one in flight, an open reader, the two
meta pages. *Operations*: insert, upsert, delete with cascading flushes, lookup; commit in phases,
crash in any of them, reopen, open and close the reader, under the page rules of two engines. *Hard*:
messages for one key in several buffers; a freed page is the next to be written, in a file the reader
maps. *Correct if*: the tree is a map at every moment; the trees of both meta pages and of the reader are whole.

**Files against an engine** (`viz/FileVsEngineLanes`), **ingestion of files and compaction of
tombstones** (`viz/SstIngestLab`, first panel of `viz/TombstoneZombieLab`). *State*: the lines of a
file, the rows of a table and its log, the order counter; the ranges of an LSM tree's files, open
snapshots. *Operations*: two appends at once, power cut, restart, retry, a malformed row; choosing a
level for a file; choosing the versions to keep. *Hard*: a retry of what had committed; a file placed
below a level with newer keys; a tombstone dropped above what it hides. *Correct if*: the table holds
each acknowledged order once; every snapshot reads what it read before.

**Block range summaries** (`viz/BrinZoneMapPruningLab`), **inverted index with a pending list**
(`viz/GinPostingListLab`). *State*: pages of rows with a summary per range, or none; posting lists
and pages of pending entries. *Operations*: inserts in order and late, HOT updates, deletes, vacuum,
summarize, desummarize, reindex; inserts with and without fastupdate, clean-up, vacuum. *Hard*: a
summary made while its range still grows, a merge of intervals; a limit passed in the middle of a
statement. *Correct if*: no range with a match is left out; every row is found by each of its keys once.

### Components not modelled

`PROJECT.json` lists every component with its files and the reason.

| Group | Labs | State and hard part | Properties wanted |
|---|---|---|---|
| Caches | PageCacheStepper, ReplacementPolicyPlayground, ScanFloodRing, Swizzle*, SubmissionRing | lists and counters with limits | one copy per page, counts equal contents, limits kept |
| Stores | LSM maintenance (CompactionPolicySim, WritePathStall) | picking what to compact, stalls | no key hidden by an older one, writers go on |
| Structures | SlottedPage, HeapGrowthFreeSpace, MemoryContextArena, bitmaps of row addresses | long sequences of operations at boundaries | contents equal a map, pages in use never reused |
| Pure algorithms | ReuseDistanceMrc, OptCompetitiveReplay, relational algorithms | results against definitions | equality with a reference definition |
| Scripted races | AbaTaggedPointer, SkipListCasRace | one fixed script each; the general case, nodes used after they were freed, is in `Reclamation` | nothing a model adds to the script |
| Statistics and formulas | contention models, cost calculators, planners, vector search, index building | sliders to real numbers | none in integer arithmetic |
| Formats and text | encodings, compression, checksums, torn sectors, collation, SQL interpreters, course navigation, pages, scripts, `Viz.tsx` | one pass over an input, or display | a model would repeat the code |

## 2. Modules

| Module | Models | Uses |
|---|---|---|
| `ClockSweep` | the victim search: as one step (the usage counts it leaves, the victim it stops at) and as the loop of the code | |
| `BufferPool` | the buffer pool | `ClockSweep` |
| `DurableStore` | what a write-ahead log is for: a store that saves its contents and, after a crash, is restored to exactly what it last saved | |
| `WalRecovery` | the WAL lab; implements `DurableStore` | `DurableStore` by refinement |
| `CheckpointWriteBack` | the write-back lab, both engines | `ClockSweep` |
| `LatchedTree` | the tree, the latch matrix, search, leaf and inner splits | |
| `LatchCrabbing`, `InnodbIndexLock`, `OptimisticCoupling`, `BlinkTree` | one protocol each: the steps of the two threads | `LatchedTree` |
| `LatchProtocols` | the lab: the protocol that is selected, the switches, Reset | the four protocols |
| `Reclamation` | the reclamation lab, four schemes | |
| `KeyMap` | what a keyed structure is for: a map, changed by writes under their own keys only | |
| `BwTree` | the Bw-tree: two threads, each compare-and-swap a step; refines `KeyMap` | `KeyMap` |
| `CopyTree` | a tree whose versions share what they did not change: three representations, two rules of reclamation | |
| `SeqLock` | one writer and one reader under a sequence lock, on two machines | |
| `MetaFlip` | a copy-on-write file with two meta pages and a reader, under the page rules of LMDB and bbolt | |
| `LatchFree` | the five labs read without latches, one of them in use | `Reclamation` and the four modules before it |
| `BankTransfer` | two interleaved transfers: schedules, locks, deadlock victims, crash, verdict | |
| `ConcurrentIndex` | the PostgreSQL side of the index build | |
| `HotChains`, `GarbageHorizon` | versions on a heap page and in undo; versions of a row against snapshots | |
| `IndexOnlyScan`, `CatalogCache` | scans that skip the table; a cached definition and its invalidations | |
| `BrinRanges`, `GinPending` | summaries of block ranges; an inverted index whose insertions wait | |
| `RowVersions` | the eight labs on transactions, versions and indexes of rows, one of them in use | the eight modules before it |
| `DurabilityStack`, `FileReplace` | what a sync promises; what a crash leaves of a program of calls | |
| `SplitCrash` | recovery of a logged split, for every crash point | |
| `Bitcask`, `FlashTranslation` | the log store and the flash device; refine `KeyMap` | `KeyMap` |
| `HashIndex`, `BtreeConsole` | extendible and linear hashing; the B-tree with its three deletion rules | |
| `PageOwnership` | the copies of a page in a pool, the page cache and the file | |
| `BufferedTree` | a tree with buffers of messages; refines `KeyMap` | `KeyMap` |
| `TwoLanes` | a file and a logged table fed with the same orders | |
| `LsmStore` | recovery of an LSM store from its manifest, for every crash point; where an ingested file goes; which versions of a key a compaction keeps | |
| `StoredData` | the thirteen labs on data kept and found again, one of them in use | `WalRecovery` and the eleven modules before it |
| `BufferPoolProofs`, `WalRecoveryProofs`, `CheckpointProofs`, `LatchFreeProofs` | theorems | their component |
| `RowVersionsProofs`, `TransferProofs` | theorems on the labs of `RowVersions`; the transfers and the index build, whose invariants speak of who waits for whom, are in `TransferProofs` | `RowVersions` |
| `StoredDataProofs` | theorems on two labs of `StoredData`, each by itself | `DurabilityStack`, `PageOwnership` |

How they correspond to the code:

- A variable is a field of the lab's state, with the field's name where
  possible; an action is one branch of its step function or one button's
  handler, with the branch's conditions as guards. `PROJECT.json` gives the
  lines of every definition.
- An early `return prev` is an action that is not enabled. A loop inside one
  handler (the clock sweep, a checkpoint's writes of all dirty blocks, redo's
  look for the first record) is one action; the sweep loop is also written out
  and compared with it (`SweepCorrect`). Repeated-step buttons ("Finish request",
  "Redo all") are repeated steps.
- LSNs are byte offsets in the code and are only compared, so a record is one
  unit long. In `WalRecovery` record `i` occupies `[i-1, i)`, which keeps the
  code's distinction of a record's start from its end.
- Random and timed choices (which page a workload touches, how many pages a
  cleaner writes in a tick, when a checkpoint is due, the seeded writer of the
  reclamation lab, the timetable of the index build) are free choices: the
  models contain every behaviour the settings can select.
- Epoch numbers grow for ever in the code but only differences matter:
  `Reclamation` keeps the distances `lag` and `age`.
- `Reclamation`'s `lost` and `CheckpointWriteBack`'s `images` are history
  variables: the readers whose memory was freed under them (the code's check of
  a node's generation), and the images logged since the redo point.
- Counters, narration, event logs and drawing are left out everywhere.

## 3. Runs

| Run | Instance | What it shows |
|---|---|---|
| `buffer_pool` | 2 backends, 3 pages, 1-2 frames, 2 pins each, usage up to 1 | types; one frame per page; refcounts equal pins; a finished request's page stays, valid, while pinned; the sweep loop does what the one-step sweep says; a backend waiting for another one's read is woken |
| `checkpoint` | 3 blocks, 2 frames, 5 records, both engines | the recovery start is behind every unwritten change, durable, moves forward only; images cover changes since the redo point; checkpoints complete |
| `latch_protocols` | 2 threads, insert of key 12 or 27, parent full or not, 4 protocols with their switches | the tree is sound, the reader finds its key, pages are changed under latches, latch order, both threads end |
| `latch_free` | 2 readers, list of 1 in 4 slots, scan at 2, 4 schemes; Bw-tree of up to 3 leaves, keys 20 and 30, values 1 and 2, chains of up to 2 deltas; a tree of 2 leaves, 4 commits, one old version kept; a copy-on-write file of 2 branches with 2 leaves each, 4 transactions; all orders of 4 stores and 4 loads | types; no reader on freed memory, hazard pointers bound the retire list; retained versions stay readable, and so do the committed trees of the file wherever a commit is cut off; accepted records are whole; the Bw-tree is a map, no page is out of reach |
| `reclaim_progress` | 2 readers, list of 1 in 3 slots, epochs, RCU, QSBR | unlinked nodes are freed if no reader stalls for ever |
| `row_versions` | all 252 orders of two transfers, with and without locks, a crash after any step; index build with 2 writers, 1 reader, 3 versions; a page of 40 bytes and 5 line pointers, 4 transactions; 4 versions, 2 readers; 2 pages of 2 rows, 2 transactions; all DDL scripts over 1-2 columns, 1 index; 1-3 heap pages of 2 rows in ranges of 1 or 2 pages; 1-4 rows with up to 3 keys, pending pages of 2 entries | locked transfers are serial, the verdict reports what happened, only deadlocks abort, schedules end; all visible rows indexed once, chains unbroken; snapshots keep their rows, answers from index and cache are right, no range with a match is pruned, no row is lost between pending list and index |
| `stored_data` | WAL: 2 blocks, 6 records, both acknowledgement orders, images on; 2 records in the durability stack, 4 written; programs of up to 4 of the 9 calls; 2 blocks of 2 flash pages, 1-2 spare; all crash points of split and manifest; 2 Bitcask keys and values, 3 files; 5 hashed keys of 3 bits, depth 2; a tree of 10 keys, 3 to a page, 5 of them inserted and deleted; 4 pages, 3 frames of RAM, 2 changes, three modes; a buffered tree of 4 leaves, 3 keys, 4 operations; 6 orders in file and table; 11 end points for the ingested range, all sets of snapshots | redo point, completeness of recovery, durable acknowledgements, images on first touch, refinement of `DurableStore`; what is promised to survive survives in the other labs; structures are whole; maps are maps; acknowledged orders are in the table once |
| `pool_lost_write` | violation expected | finding 1 below |
| `pool_stuck_read` | violation expected | finding 2 below |
| `bank_dirty_read` | violation expected | finding 3 below |
| `hot_undo_purge` | violation expected | finding 4 below |
| `btree_rules` | violation expected | finding 5 below |

Labs that leave each other alone share a run: the initial state chooses the lab
that is in use, and the others keep their variables (`OthersKept`), which in `LatchFree` are empty
(`Closed`) but for the list's, over which its theorems range. A property that speaks of
several of them (`ReadsSafe`, `StructuresSound`, `RecoveryComplete`, `ActsAsMap`,
`AnswersRight`, `SnapshotsKept`) is a conjunction with a part for each, defined and commented in the
lab's own module; the parts hold each on its own. Where Reset leads back to an initial state it adds no
behaviour that a safety property could tell, and it is left out unless the settings change with it.

**Why the bounds are enough.**

- *Pool.* It needs a third page so that a victim's old page can be asked for again, and
  a second pin so that a refcount can be 2 by one backend; resizes go both ways.
- *WAL.* Six records are enough for two transactions with a checkpoint among
  them, an image that is needed again after it, a crash, recovery, and an update that
  reuses the recovered state; with images off the other safety invariants are
  covered by the theorems and left out of the run for size.
- *Checkpoint.* One more page than frames, so that frames are evicted and
  reloaded while a checkpoint holds them on its list, and two units of usage so that
  the sweep laps.
- *Latches.* The tree and the two keys are the lab's own: 12 goes into a leaf
  with room, 27 splits a full leaf and, if the parent is full, the parent too. The
  lab stops after `MAX_ACTIONS = 160` presses, far more than any run of the two
  threads needs, so the bound is not modelled.
- *Reclamation.* Three free slots: one to insert into and two for nodes that are
  kept while a third is retired; with fewer the bound on the retire list could not be broken.
  A list of two in five slots was searched as well; the theorems hold for any list and memory.
- *Bw-tree.* Three leaves let a leaf that came from a split be split again, before
  and after its index entry is posted; at chain length 2 consolidation is due (`T`).
  Chains of 3 were searched as well.
- *Persistent trees.* Two leaves under a root: with one extra slot the fourth commit copies the
  root, and a fifth page is reused while the reader's version, a branch or the kept version still
  reaches the others. Three levels and both settings of "keep" were searched as well.
- *Copy-on-write file.* Two branches, so that a commit leaves one shared; four transactions let a page
  freed by the first be taken by the third while the reader holds the second, with a crash in between.
- *Buffered tree.* Node sizes 3 and 4 with fan-out 2 leave room for one or two messages, so that four
  operations cascade through both levels.
- *Lanes, ingestion.* Three pairs of appends with a crash and a retry among them; the end points lie
  inside, between and at the edges of the files of each level.
- *Ranges, pending list.* Four values to a summary make the third distinct interval force a merge; a range
  of two pages is summarized half full and filled later; pending limits of one and two pages are passed within
  one statement.
- *Copies.* One page more than frames, so that pool and page cache both evict, with one
  or two of three frames in the pool.
- *Transfers.* The schedules are complete: 10 steps, 252 orders; amounts 30 and 50 of 100.
- *Index build.* Two writers and a reader are what each hazard takes; three
  versions give a HOT chain of two beside a new row.
- *HOT page.* 40 bytes hold three rows of 6 bytes with their headers, so that an
  update finds the page full, prunes it, or goes to another one; two fill factors.
- *Horizon, scans, catalog.* Two readers with an order between them; two pages so that one is
  all-visible and the other not (3 initial rows and 3 transactions were searched as well; the theorem holds
  for any number of either); a column and an
  index are enough for each script to change something (2 growing to 3 columns searched as well).
- *Durability, files.* A record on media beside one in a cache, rewritten once each;
  four calls hold every protocol the puzzle offers (the five calls that matter to the temporary file
  were searched to six).
- *Flash.* Four addresses on six or eight pages: with one spare block collection
  runs on nearly every write. The guard is 24 rounds in the code; no collection here needs five.
- *Bitcask.* One record to a file makes every put roll; three files let a merge take two
  and leave one.
- *Hashing.* Directories double twice and stop at the depth limit, a bucket then
  overflows; the linear table makes a full round of splits and starts the next.
- *B-tree.* Ten keys of three to a page make three levels, the smallest tree in
  which an inner page borrows, merges and loses its last child. The keys inserted and
  deleted empty a leaf at the left end, fill one at the right end and leave one in
  between that does not fit its sibling; six were searched as well.

`ConcurrentIndex` and `BankTransfer` may stop (everyone has committed, the
schedule is over), so `RowVersions.cfg` turns the deadlock check off; all others keep it.

**Fairness.** `BufferPool.FairSpec`: every backend with a request is stepped on
(the lab's step and finish buttons are always available for it); nothing is
assumed of the user's other buttons. `CheckpointWriteBack.RunningSpec`: the ticker runs.
`LatchProtocols.Spec`: each thread that can step does so, as "Race to the end" does;
`BothEnd` excludes the behaviours in which Reset is pressed again and again.
`Reclamation.Spec`: ticks go on; a pause that never ends is excluded only by
the hypothesis `NobodyStalls` of `AllFreed`, and with good reason: without it
the property fails, which is what the lab is there to show. `RowVersions.Spec`: the
simulation of the transfers is a loop that runs to its end; nothing is assumed of
the other labs, whose steps are buttons.

**Bugs the properties detect.** For every property of a passing run,
`PROJECT.json` names a definition and a changed form of it that a slip in the
code would produce: an unchecked re-probe of the page table, a sweep one turn
short, a redo comparison by start, a latch let go too early, a wait that is
skipped. The changed forms stand beside the definitions in the modules and are
used by no action; with one in place TLC finds the property violated.

## 4. What the models found

1. **A write is lost** (`pool_lost_write`, property `DirtyIsWritten`). A
   backend that found its victim clean swaps it later after re-checking only the
   pin (`viz/BufferFrameDescriptorLab:363`, `:405`). If another backend pins,
   dirties and releases the page in between, the dirty bit is dropped unwritten,
   although the lab's own text (`:511`) calls it the only copy until it is written out.
2. **A request never ends** (`pool_stuck_read`, property `ReadEnds`). A backend
   may release its pin during the read; if a resize then removes the frame, its
   buffer id is cleared and `step` returns the state unchanged for ever
   (`:427`, `:552`), while the I/O phase blocks new requests; the button promises to
   run the request to completion (`:660`).
3. **A dirty read is called clean** (`bank_dirty_read`, property
   `ReadsWereCommitted`). A read of an uncommitted balance counts as an anomaly
   only if that write is undone later (`viz/BankTransferInterleaveLab:350`); with locks off and both
   transfers committed the page says that every read saw a value that was
   committed or its own (`:443`).
4. **Purge takes what a snapshot sees** (`hot_undo_purge`, property `ViewCanRead`).
   An undo record carries the transaction of the version it saves (`viz/HotChainPruneLab:623`)
   and is purged as soon as that is older than the horizon (`:660`) - which the version the
   open snapshot sees always is. The lab says nothing that snapshot needs can be removed (`:173`).
5. **VACUUM deletes a page with keys** (`btree_rules`, property `OnlyEmptyDeleted`).
   Under the PostgreSQL rules an emptied leaf is marked; after a switch to the
   textbook rules a merge from the right fills it and keeps the mark
   (`viz/BtreeSplitMergeConsole:424`); back under the PostgreSQL rules VACUUM removes it, keys and
   all, though only completely empty pages are to be deleted (`:787`). In
   `stored_data` the rules are therefore chosen before the first key is deleted (`AnyTime`), which is
   where `TreeWhole` and `BtreeActsAsSet` hold.

Seen on the way, and not counted as a finding: in the file puzzle delayed
allocation orders a file's extents after a later rename even when an fsync has
already forced them out (`viz/CrashReplaceOrderingPuzzle:202`), so that the image
with the new extents and without the rename - the old file, intact - is not among those shown.
In the copy-on-write lab "Continue after reopen" extends the reader to the current transaction
(`viz/BepsilonCowTreeLab:1038`) even when an earlier crash had already ended it, although open readers
die with the process (`:32`); the model does the same. In the GIN lab a comment says that row addresses arrive in
increasing order (`viz/GinPostingListLab:25`); with fastupdate turned off while rows are pending, VACUUM merges
older ones behind newer.

## 5. What is proved

Every theorem holds for any value of the constants that satisfies the named
assumptions beside them. The assumptions are on the constants only: sets of
backends and pages are given (finite where counted), limits are numbers, a null
value is not a member. In each module `Init => Inv`, `Inv /\ [Next]_vars => Inv'`
(one step per action) and `Inv => property` are lemmas, and the last step of a
theorem combines them.

**BufferPoolProofs.** `TypeCorrect`, `PageTableUnique` (`OneFramePerPage`),
`RefcountsExact` (`PinsCounted`), `PinnedPageStays` (`PinContract`),
`NoOrphanWaiter`, `SweepTakesVictim` (`SweepCorrect`). None is inductive alone: the refcounts need to know that a
request about to pin has room; that a pinned page stays needs the refcounts
(a frame somebody holds has a positive count, so no victim search, swap or
resize takes it); that a request in its I/O or wait phase holds the page it asked
for rests on both. `IInv` is therefore the conjunction of `TypeOK`, `Room`,
`PinsCounted`, `OneFramePerPage`, `Contract` (the pin contract from the moment
of pinning) and `Readers` (some backend reads each page that is not valid yet).
The clock sweep is written twice, as the code's loop and in one step, and the two agree for every
number of frames and every usage limit: after `k` probes the hand has gone round `k \div n` times and
each frame it passed has lost that many counts (or is at zero), which is shown for every `k` by way of
the least `k` for which it would fail; the loop therefore stops at the frame the one-step form names.

**WalRecoveryProofs.** `Inv` says: every block on disk is a version the durable
log knows (`DiskInv`); a block in memory is its latest version and, if clean,
the one on disk (`MemInv`); the redo point is sound; redo has brought every
block past the records it left behind (`CursorInv`). From it:
`TypeCorrect`, `LogBeforePage` (the WAL rule), `RedoPointSafe`,
`RecoveryComplete`, `RedoMovesForward`, and - with separate invariants for
acknowledgements and images - `CommitsDurable` and `ImagesSuffice`.
`KeepsThePromise` is the refinement: under the mapping of `View`, `Saved` and
`Status` the initial state and every step are an initial state and a step, or a
stutter, of `DurableStore`. `LogBeforePage` and `RedoMovesForward` state
properties no run lists, because the refinement and the redo invariant already
fail when they do.

**CheckpointProofs.** `Inv` adds to the types: a clean frame is within the
durable log (`WrittenIsLogged`); each record not yet durable belongs to a frame
dirty since before it (`Covered`); what the running checkpoint has not written
of the changes before its redo point is still on its list and marked
(`MarkedLeft`); nothing dirty is older than the last completed checkpoint
(`DoneSound`); flags and images agree (`Imaged`). `Covered` is the interesting part: the
recovery start of InnoDB is computed from dirty frames without a look at the flush pointer, and
is durable only because every undurable record has its dirty frame. It gives
`TypeCorrect`, `LogGoesFirst`, `NothingLost`, `StartDurable`, `ImagesKept` and
`StartForward`.

**LatchFreeProofs.** The reclamation lab, the sequence lock and the file with two meta pages.
`RecInv` is the conjunction of the types and, for each scheme, of what makes it
safe. The list is a bijection of `1 .. ListLen` with the live nodes (`ListStands`). Hazard pointers: a
reader has published where it stands, and the retire list is all that is unlinked (`Published`). Epochs: a walking reader stands
on a node that is live or was unlinked no longer ago than it pinned, and an unlinked node leads only to
nodes unlinked no earlier than itself (`Pinned`). RCU: a reader nobody waits for stands on no node of the
running grace period, and no node queued for the next one leads to one (`GraceHolds`). It gives
`ReclaimTypeCorrect`, `RetireListBounded` (`HpBounded`) and `ReadersStandSafe` (`ReadersSafe`, the
reclamation lab's part of `ReadsSafe`). `ListStaysSafe` says it for `LatchFree`, whichever of its labs is in use.
The sequence lock: what is visible is closed under the order the fences keep (`InOrder`), and if the fences the machine needs are
all there, a first load that found the counter at 2 finds only new halves after it, and a last load that finds it at 0
comes after two old halves (`SeqSeen`). A record is accepted when the two loads agree: `AcceptedIsWholeRecord`.
The file with two meta pages is computed by replaying its commits, so the invariant speaks of every prefix of them. `RunFits`: after
each commit the tree's pages are distinct, and they and the free list make up the file, each page once. `KeepsTree`: the pages of a tree that
is kept - the newest, the open reader's, with LMDB the other meta page's - were written no later than it, and are still in use or were
freed by a later commit, which is why a commit that takes only what was freed before every kept tree's successor touches none of
them. `FlipShaped` adds to the types that a commit is begun only while there is room for one more, without which the replay could
be asked for a transaction beyond the bound. It gives `SnapshotsStayIntact`.

**TransferProofs.** `BankInv` says which locks a transfer holds at which step, that a row is in one of three
states (as committed, debited and not yet credited, credited and not yet committed), and that a blocked
transfer waits for a row the other one holds. From it `LockedTransfersSerial` (`SerialWhenLocked`),
over every schedule the sliders can build: that their loop has a result is part of the proof. `QueueFits` adds that
each transfer has as many places in the queue as steps left, so that a queue nobody can run means
that both wait: `VictimsDeadlocked` (`OnlyDeadlocksAbort`). `VerdictFits` relates the lab's log - who read from whom, which writes were stale - to the
balances; where no anomaly is logged they are those of the durable transfers: `VerdictMissesNothing`
(`VerdictSound`), without locks and with crashes as well.
`CicInv` (the index build): flags and stage agree; a writer that has not looked at the index's flags since they
changed is among those the next wait is for; a HOT chain the index would have to follow is opened only by
a writer all of whose contemporaries are in the first wait; what is visible to the second snapshot and not indexed
is ended; whoever may hold an older snapshot is waited for, because `Xmin` only grows. It gives
`IndexesCurrentRows` (`CurrentRowsIndexed`) and `LeavesChainsUnbroken` (`ChainsUnbroken`).

**RowVersionsProofs.** Six labs, each with an invariant that holds while it is in use.
`GarbageInv` (the garbage horizon): the versions of a row follow one another, the last is not superseded,
no snapshot is of the future. `HotInv` (the heap page): a line pointer's state goes with what it holds, what
VACUUM's first pass noted holds nothing, no snapshot is of the future. The walk along a chain is a recursive function; that it exists,
and that the head a pruning cuts off is dead to every snapshot, are lemmas of their own. Together:
`SnapshotsKeepTheirVersions` (`SnapshotsKept`).
`LeadInv` adds to `HotInv` how the page hangs together (`ChainsStand`, `EntriesStand`): a link goes to a younger heap-only version
of the same row, a redirect to a heap-only version, each heap-only version is led to from exactly one place, an entry for the page is
at a root of its row or at a dead line pointer, and each root has an entry that is not killed. Ages grow along a chain, so
no chain is longer than the page (the pigeonhole principle) and the walk is not cut short; chains of different roots are therefore
disjoint and every version is on one; what a pruning removes is the head of its chain, so what is left still hangs together.
It gives `EntriesLeadToRows`.
`ScanInv` (index-only scans): the table fits its pages; a row has one live entry, with the row's status if the index stores
it; a row's death is recorded on its page and a dead entry's on its leaf; a set bit of the visibility map means that the
last write to the page is behind every open transaction and that none of its entries is dead. It gives `ScansAnswerRight`.
`CatalogInv` (the catalog cache): with no message pending nothing has changed since the last one; an entry that is valid with
nothing unread is the committed definition; a stale file map is answered by a reset or a message that is unread. It gives
`CacheFindsOut`.
`BrinInv` (block ranges): every range of the table has a place for a summary, and a summary that is made covers the
value of each row of its range, by intervals that lie apart and are within the limit. The last part is about
`compact()`: the cuts between the intervals have different ranks, so at most as many stay as the limit leaves room for, and the
hulls between the cuts that stay are one more. What widens a summary covers what it covered. It gives `RangesMissNothing`: no
range with a match is pruned, for any heap, range size and limit.
`GinInv` (the inverted index): the loop of `mergePending` posts each waiting row once under each of its keys (`Posts`); the pending pages
account for the pending rows; a posting list has no row twice because a row's number is new when it is inserted; sizes stay within their limits.
It gives `PostingsAreOnce`: each row is found under each of its keys just once, be it in its posting list or pending.
`EntriesLeadToRows`, `ScansAnswerRight`, `CacheFindsOut`, `RangesMissNothing` and `PostingsAreOnce` are the
parts of `AnswersRight`: `ReadsThroughIndexesAreRight`.

**StoredDataProofs.** Two labs of `StoredData`, each stated of its own specification (`DurabilitySpec`, `OwnershipSpec`), for
`StoredData` reaches the RECURSIVE operator of the buffered tree. While a lab is in use `StoredData` takes that lab's steps alone, so
the theorems are those labs' parts of `RecoveryComplete` and `StructuresSound`.
`DurInv` (the durability stack): what was promised is on the media, a record that was dropped was reported or will be by the next
sync, and nothing is lost before a power cut - the last two are what makes a sync that returns 0 a promise the next step keeps. It
gives `SyncKeepsItsPromise`.
`OwnInv` (the copies of a page): `Shape` - each list has a page once and fits its share of the RAM, no pool under a mapped file, no
page cache under direct I/O; `Logged` - nothing is ahead of the log and, unless the file is mapped, nothing the kernel has is ahead of
the durable log; `Coherent` - a clean frame in the page cache is what is on disk, a frame in the pool is the last change, and of a page
that has no frame in the pool, or a clean one, the last change is what lies below. A power cut breaks `Coherent` only, and a
crashed lab can only start over. Each helper (room in the cache, room in the pool, a write of the engine, a fetch) has a lemma that says it
keeps all three and shows of the other pages what it showed before; an access composes them. It gives `AccessFindsTheNewest` (`NewestFound`)
and `KernelHasOnlyLogged` (`KernelSeesOnlyLogged`).

**Loops.** Where the code folds over a sequence (the build of an index, `mergePending`, the rows a delete keeps, the
insertion of rows), the model writes the loop as a function of the number of rounds. An induction over the numbers is then within reach, by way of
the least number for which a statement fails; one over sequences or sets is not stated anywhere.

**Only model-checked.** Liveness (`WaitEnds`, `CkptCompletes`, `BothEnd`, `AllFreed`,
`EveryScheduleEnds`), which rests on fairness; the five findings; of `StoredData`'s three
properties of many labs, `StructuresSound`, `RecoveryComplete` and `ActsAsMap`, all but the durability stack and the copies of a page: what
a replay, a split, a program of system calls or a collection of garbage computes is induction over data, and the
buffered tree is written with a RECURSIVE operator besides; of `ReadsSafe` the part of the path-copying tree (the rest of it is
proved), and `RowVersions.TypeOK`. `TreeSound` and `ReaderFinds` speak of one tree and two keys that are the lab's own: the run
already visits all there is, and a proof would add nothing.

## 6. Limits

The models abstract what section 2 says. In particular the InnoDB throttle on
the redo capacity (it only lowers the number of modifications in a tick) and
the InnoDB panel of the index lab (times and log sizes in fractions) have no
counterpart, and the "Skip a wait" switch of the index lab appears only as a
changed form that must break a property. The models cover twenty-nine labs of 140, the
ones with the most concurrency, failure and history; most of the code of the others - and
of these - is text, drawing and arithmetic on sliders, which is why the lines the models stand for
are a small part of the repository.

## 7. Plan

In this order, the most important behaviour first:

1. *Proofs on what is there.* `Bitcask`: the directory points at the newest record of each key, hence
   `BitcaskActsAsMap`. The path-copying tree: no page of a retained version is used again.
2. *More structures*: swizzled pages (where a full cooling queue may evict an inner page whose child was
   faulted back, a case to look at), the limits of the page cache, against `KeyMap` and `DurableStore`.
3. *Pure algorithms*: stack distances, optimal replacement, closures, as
   recursive functions against reference definitions.

Related labs share a run, as the four latch protocols do, so that a run stays one
question asked of one part of the book, and a property is kept only while it
says something the others do not.
