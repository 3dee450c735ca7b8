------------------------------- MODULE StoredData -------------------------------
(***************************************************************************)
(* Thirteen labs on how data is kept and found again, one of which is in   *)
(* use: the write-ahead log, the durability stack, the replacement of a    *)
(* file, the flash device, a logged split, an LSM store and its manifest,  *)
(* its ingested files and its tombstones, the copies of a page in pool and *)
(* page cache, a flat file beside an engine; and an append-only log under  *)
(* a hash directory, extendible and linear hashing, the B-tree console and *)
(* a tree with message buffers.  Each leaves the others alone.             *)
(***************************************************************************)
EXTENDS WalRecovery

CONSTANTS
  MAX_RECS, MaxWritten,
  Calls, MaxSteps,
  DATA_BLOCKS, PAGES_PER_BLOCK, SpareBlocks, MaxRounds,
  BitcaskKey, BitcaskValue, MAX_ACTIVE, MAX_SEGS, Traffic,
  HashKey, DUPLICATE_KEY, SKEW_BITS, Bits, MAX_GLOBAL_DEPTH, MAX_KEYS, DEFAULT_KEYS,
  Many, MAX_LINEAR_BUCKETS, Capacity, Initial, Percent,
  BtreeKey, Cap, SeedSize, Thresholds, Used, AnyTime,
  DataPage, RAM, PoolSlots, MaxLsn,
  BeFanout, BeLevels, NodeSizes, KEYS_PER_LEAF, MessageKey, MAX_OPS,
  MAX_ORDERS, MAX_LINES,
  EndPoints

VARIABLES
  lab,
  copies, sizeDirty, errArmed, errPending, frozen, told, promised,
  steps,
  flash,
  engine, crashAt, extraDown, rolledBack,
  crash, walMode,
  segs, keydir, down,
  keys, pattern, control,
  tree, mode,
  host, latest,
  be,
  lanes,
  ask

Durability == INSTANCE DurabilityStack
File       == INSTANCE FileReplace
Flash      == INSTANCE FlashTranslation
Split      == INSTANCE SplitCrash
Bitcask    == INSTANCE Bitcask
Hash       == INSTANCE HashIndex
Btree      == INSTANCE BtreeConsole
Ownership  == INSTANCE PageOwnership
Buffered   == INSTANCE BufferedTree
Lanes      == INSTANCE TwoLanes
Lsm        == INSTANCE LsmStore

Lab == {"wal", "durability", "file", "flash", "split", "manifest", "bitcask",
        "hash", "btree", "ownership", "betree", "lanes", "lsm"}

ASSUME LabAssumption ==
  /\ Durability!DurabilityAssumption /\ Flash!FlashAssumption
  /\ Bitcask!BitcaskAssumption /\ Hash!HashAssumption /\ Btree!BtreeAssumption
  /\ Ownership!OwnershipAssumption /\ Buffered!BufferedAssumption
  /\ Lanes!LanesAssumption /\ Lsm!LsmAssumption

labVars ==
  <<vars, lab, copies, sizeDirty, errArmed, errPending, frozen, told, promised,
    steps, flash, engine, crashAt, extraDown, rolledBack, crash, walMode,
    segs, keydir, down, keys, pattern, control, tree, mode, host, latest,
    be, lanes, ask>>

OthersKept ==
  /\ lab # "wal"        => UNCHANGED vars
  /\ lab # "durability" => UNCHANGED <<copies, sizeDirty, errArmed, errPending,
                                       frozen, told, promised>>
  /\ lab # "file"       => UNCHANGED steps
  /\ lab # "flash"      => UNCHANGED flash
  /\ lab # "split"      => UNCHANGED <<engine, crashAt, extraDown, rolledBack>>
  /\ lab # "manifest"   => UNCHANGED <<crash, walMode>>
  /\ lab # "bitcask"    => UNCHANGED <<segs, keydir, down>>
  /\ lab # "hash"       => UNCHANGED <<keys, pattern, control>>
  /\ lab # "btree"      => UNCHANGED <<tree, mode>>
  /\ lab # "ownership"  => UNCHANGED <<host, latest>>
  /\ lab # "betree"     => UNCHANGED be
  /\ lab # "lanes"      => UNCHANGED lanes
  /\ lab # "lsm"        => UNCHANGED ask

LabInit ==
  /\ lab \in Lab
  /\ Init
  /\ Durability!DurabilityInit
  /\ File!FileInit
  /\ Flash!FlashInit
  /\ lab # "flash" => flash = Flash!Fresh(CHOOSE spare \in SpareBlocks : TRUE)
  /\ Split!SplitInit
  /\ Lsm!ManifestInit
  /\ Bitcask!BitcaskInit
  /\ Hash!HashInit
  /\ lab # "hash" => control.scheme = "extendible"
  /\ Btree!BtreeInit
  /\ Ownership!OwnershipInit
  /\ lab # "ownership" => host.mode = "pool" /\ host.slots = 1
  /\ Buffered!BufferedInit
  /\ lab # "betree" => be.nodeSize = (CHOOSE b \in NodeSizes : TRUE)
  /\ Lanes!LanesInit
  /\ Lsm!LsmInit

(* The Reset button of the log store; those of the other labs lead back to *)
(* where they began.                                                       *)
ResetBitcask ==
  /\ lab = "bitcask"
  /\ segs' = <<Bitcask!EmptyFile>> /\ down' = FALSE
  /\ keydir' = [k \in BitcaskKey |-> Bitcask!NoEntry]

LabStep ==
  \/ lab = "wal"        /\ Next
  \/ lab = "durability" /\ Durability!DurabilityStep
  \/ lab = "file"       /\ File!FileStep
  \/ lab = "flash"      /\ Flash!FlashStep
  \/ lab = "split"      /\ Split!SplitStep
  \/ lab = "manifest"   /\ Lsm!ManifestStep
  \/ lab = "bitcask"    /\ Bitcask!BitcaskStep
  \/ ResetBitcask
  \/ lab = "hash"       /\ Hash!HashStep
  \/ lab = "btree"      /\ Btree!BtreeStep
  \/ lab = "ownership"  /\ Ownership!OwnershipStep
  \/ lab = "betree"     /\ Buffered!BufferedStep
  \/ lab = "lanes"      /\ Lanes!LanesStep
  \/ lab = "lsm"        /\ Lsm!LsmStep

LabNext == LabStep /\ OthersKept /\ UNCHANGED lab
LabSpec == LabInit /\ [][LabNext]_labVars

-------------------------------------------------------------------------------
(* What is kept stays within reach.  Every page of the B-tree console is   *)
(* found from the root and along its siblings, after any row of splits,    *)
(* borrowings, merges and passes of VACUUM; each hashed key is in the      *)
(* bucket it is looked for in, as often as it was inserted, however often  *)
(* the directory has doubled or the pointer has moved; the flash device's  *)
(* map and its pages agree, whatever was collected when; of a page's       *)
(* copies in RAM and on disk the newest is the one that is found; no       *)
(* message of a buffered tree overtakes another for its key; and a search  *)
(* of the LSM levels meets an ingested file, and a compaction drops what   *)
(* lies in them, in the order of the versions.                             *)
StructuresSound ==
  /\ lab = "btree" => Btree!BtreeTypeOK /\ Btree!TreeWhole
  /\ lab = "hash"  => Hash!HashTypeOK /\ Hash!HashSound
  /\ lab = "flash" => Flash!FlashTypeOK /\ Flash!FlashSound
  /\ lab = "ownership" => Ownership!NewestFound
  /\ lab = "betree" => Buffered!BufferedTypeOK /\ Buffered!MessagesInOrder
  /\ lab = "lsm"   => Lsm!IngestedInOrder /\ Lsm!CompactionUnseen

(* Whatever is durable when the power fails is what the lab promised would *)
(* be: a record a sync returned for; the old or the new file, if the       *)
(* program follows the protocol; the tree and the downlink that recovery   *)
(* finds, and what it says is the matter; the keys of the LSM store; no    *)
(* page ahead of the log, unless the file is mapped; and the orders whose  *)
(* records in the log are whole, while the flat file keeps what it broke.  *)
RecoveryComplete ==
  /\ lab = "durability" => Durability!DurabilityTypeOK /\ Durability!PromiseKept
  /\ lab = "file"       => /\ File!FileTypeOK
                           /\ File!SafeReplace /\ File!RenameImages
  /\ lab = "split"      => /\ Split!SplitTypeOK
                           /\ Split!VerdictTells /\ Split!LoggedTogether
  /\ lab = "manifest"   => Lsm!ManifestTypeOK /\ Lsm!NothingLost
  /\ lab = "ownership"  => Ownership!OwnershipTypeOK /\ Ownership!KernelSeesOnlyLogged
  /\ lab = "lanes"      => Lanes!LanesTypeOK /\ Lanes!TableIsTheLog /\ Lanes!CountersTell

(* The log store, the flash device, the B-tree console and the tree with   *)
(* buffers are maps: a write changes what is found under its own key, and  *)
(* nothing else ever changes what is found - not rolling, merging, a crash *)
(* and a restart, not the collection of garbage, not the removal of a      *)
(* page, not a cascade of flushes.                                         *)
ActsAsMap ==
  /\ [](lab = "bitcask" => Bitcask!BitcaskTypeOK)
  /\ [][\/ ResetBitcask
        \/ /\ lab = "bitcask" => Bitcask!BitcaskActsAsMap
           /\ lab = "flash"   => Flash!FlashActsAsMap
           /\ lab = "btree"   => Btree!BtreeActsAsSet
           /\ lab = "betree"  => Buffered!BufferedActsAsMap]_labVars
===============================================================================
