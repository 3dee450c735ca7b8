------------------------------- MODULE LatchFree -------------------------------
(***************************************************************************)
(* Five labs on structures that are read without latches, one of which is  *)
(* in use: a linked list whose nodes a reclamation scheme frees; a         *)
(* Bw-tree, whose pages change by a compare-and-swap of a mapping table's  *)
(* slot; a tree whose updates copy what they change; a file of such a      *)
(* tree, committed by one of two meta pages; and a record under a sequence *)
(* lock.  Each leaves the others alone.                                    *)
(***************************************************************************)
EXTENDS Reclamation, Sequences, TLC

CONSTANTS
  BwKey, MaxVal, MAX_LEAVES, T, MaxChain,
  Fanout, Levels, Updated, ExtraSlots, KeepOld, MAX_COMMITS,
  COW_BRANCHES, PerBranch, Changes, MAX_TXN

VARIABLES
  lab,
  slot, goals, held,
  setting, versions, heads, nodes,
  machine, fences, visible, loaded,
  file, reader, phase, crashed

BwTree   == INSTANCE BwTree
CopyTree == INSTANCE CopyTree
SeqLock  == INSTANCE SeqLock
MetaFlip == INSTANCE MetaFlip

ASSUME LabAssumption ==
  BwTree!BwTreeAssumption /\ CopyTree!CopyTreeAssumption /\ MetaFlip!FlipAssumption

labVars ==
  <<vars, lab, slot, goals, held, setting, versions, heads, nodes,
    machine, fences, visible, loaded, file, reader, phase, crashed>>

OthersKept ==
  /\ lab # "reclamation" => UNCHANGED vars
  /\ lab # "bwtree"      => UNCHANGED <<slot, goals, held>>
  /\ lab # "copytree"    => UNCHANGED <<setting, versions, heads, nodes>>
  /\ lab # "seqlock"     => UNCHANGED <<machine, fences, visible, loaded>>
  /\ lab # "metaflip"    => UNCHANGED <<file, reader, phase, crashed>>

(* A lab that is not in use has no state; the list is always there.        *)
Closed == <<>>

LabInit ==
  /\ lab \in {"reclamation", "bwtree", "copytree", "seqlock", "metaflip"}
  /\ Init
  /\ lab # "reclamation" => scheme = (CHOOSE s \in Schemes : TRUE) /\ ~qsbr
  /\ IF lab = "bwtree" THEN BwTree!BwInit
     ELSE slot = Closed /\ goals = Closed /\ held = Closed
  /\ IF lab = "copytree" THEN CopyTree!CopyInit
     ELSE setting = Closed /\ versions = Closed /\ heads = Closed /\ nodes = Closed
  /\ IF lab = "seqlock" THEN SeqLock!SeqInit
     ELSE machine = Closed /\ fences = Closed /\ visible = Closed /\ loaded = Closed
  /\ IF lab = "metaflip" THEN MetaFlip!FlipInit
     ELSE file = Closed /\ reader = Closed /\ phase = Closed /\ crashed = Closed

ResetBw ==
  /\ slot'  = BwTree!initialSlots
  /\ goals' = [a \in BwTree!Actor |-> <<>>]
  /\ held'  = [a \in BwTree!Actor |-> BwTree!Nothing]

LabNext ==
  /\ \/ lab = "reclamation" /\ Next
     \/ lab = "bwtree"      /\ (BwTree!BwStep \/ ResetBw)
     \/ lab = "copytree"    /\ CopyTree!CopyStep
     \/ lab = "seqlock"     /\ SeqLock!SeqStep
     \/ lab = "metaflip"    /\ MetaFlip!FlipStep
  /\ OthersKept
  /\ UNCHANGED lab

LabSpec == LabInit /\ [][LabNext]_labVars

(* Addresses are interchangeable: no operation orders them.                *)
SlotSymmetry == Permutations(Slot)

-------------------------------------------------------------------------------
(* No reader takes anything but what was there for it, though nobody waits *)
(* for it: a walk through the list stays on memory that was not freed      *)
(* under it; every version that is retained shows for each leaf what its   *)
(* history wrote last, whichever pages were used again; the newest tree of *)
(* a file and that of its reader are whole, wherever a commit is cut off;  *)
(* and a record that is accepted is a whole one, if the fences are there.  *)
ReadsSafe ==
  /\ ReadersSafe
  /\ lab = "copytree" =>
       CopyTree!CopyTypeOK /\ CopyTree!VersionsReadable /\ CopyTree!WatermarkSafe
  /\ lab = "seqlock" => SeqLock!SeqTypeOK /\ SeqLock!AcceptedIsWhole
  /\ lab = "metaflip" =>
       MetaFlip!FlipTypeOK /\ MetaFlip!SnapshotsIntact /\ MetaFlip!PagesAccounted

(* The Bw-tree is a map: the swap that installs a write changes what is    *)
(* found under its key, and nothing else ever does - not consolidating,    *)
(* splitting, helping or a lost race.  No page is unknown to the root and  *)
(* to every pending split, whichever of two threads installs, helps or     *)
(* gives up a split.                                                       *)
ChainsActAsMap ==
  /\ [](lab = "bwtree" => BwTree!BwTypeOK /\ BwTree!NothingOrphaned)
  /\ [][lab = "bwtree" => ResetBw \/ BwTree!BwActsAsMap]_labVars
===============================================================================
