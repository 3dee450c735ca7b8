---------------------------- MODULE GarbageHorizon ----------------------------
(***************************************************************************)
(* GarbageHorizonTimeline.tsx: one logical row, a version for every write, *)
(* readers that each hold a snapshot, and a collector that may take what   *)
(* ended before the oldest of them.  The oldest reader's snapshot can be   *)
(* dragged to any id.  The three engines only name things differently.     *)
(***************************************************************************)
EXTENDS Integers, Sequences, FiniteSets, SequencesExt

CONSTANTS
  START_XID,
  MAX_VERSIONS,   \* versions of the row
  MAX_SPAN,       \* ids on the axis before writes are cut off
  MAX_READERS     \* readers open at a time

GarbageAssumption ==
  /\ START_XID \in Nat \ {0} /\ MAX_VERSIONS \in Nat
  /\ MAX_SPAN \in Nat \ {0} /\ MAX_READERS \in Nat

VARIABLES
  nextId,     \* the next id to be handed out
  versions,   \* [xmin, xmax]: who wrote it and who superseded it
  readers,    \* the snapshots, in the order they were opened
  deleted     \* the row has no current version

garbageVars == <<nextId, versions, readers, deleted>>

Current == 0    \* the xmax of the version nobody has superseded

(* A snapshot at s sees every id below s as finished. *)
visibleTo(v, s) == v.xmin < s /\ (v.xmax = Current \/ v.xmax >= s)

Oldest    == CHOOSE s \in ToSet(readers) : \A r \in ToSet(readers) : s <= r
horizonOf == IF readers = <<>> THEN nextId ELSE Oldest

(* The reader that is closed or dragged: the first of the oldest. *)
OldestReader ==
  CHOOSE i \in DOMAIN readers :
    readers[i] = Oldest /\ \A j \in 1 .. i - 1 : readers[j] # Oldest

GarbageInit ==
  /\ nextId   = START_XID + 1
  /\ versions = {[xmin |-> START_XID, xmax |-> Current]}
  /\ readers  = <<START_XID + 1>>
  /\ deleted  = FALSE

-------------------------------------------------------------------------------
SpanLeft == nextId - START_XID < MAX_SPAN
MayWrite == SpanLeft /\ Cardinality(versions) < MAX_VERSIONS

Superseded ==
  {IF v.xmax = Current THEN [v EXCEPT !.xmax = nextId] ELSE v : v \in versions}
Appended == [xmin |-> nextId, xmax |-> Current]

RowWrite(vs, gone) ==
  /\ MayWrite
  /\ versions' = vs
  /\ deleted'  = gone
  /\ nextId'   = nextId + 1
  /\ UNCHANGED readers

RowUpdate == ~deleted /\ RowWrite(Superseded \cup {Appended}, FALSE)
RowDelete == ~deleted /\ RowWrite(Superseded, TRUE)
RowInsert == deleted  /\ RowWrite(versions \cup {Appended}, FALSE)

OpenReader ==
  /\ Len(readers) < MAX_READERS /\ SpanLeft
  /\ readers' = Append(readers, nextId)
  /\ UNCHANGED <<nextId, versions, deleted>>

CloseOldest ==
  /\ readers # <<>>
  /\ readers' = RemoveAt(readers, OldestReader)
  /\ UNCHANGED <<nextId, versions, deleted>>

DragOldest(s) ==
  /\ readers # <<>>
  /\ readers' = [readers EXCEPT ![OldestReader] = s]
  /\ UNCHANGED <<nextId, versions, deleted>>

(* A bug: what ended at the horizon is taken with what ended before it. *)
CollectableToo == {v \in versions : v.xmax # Current /\ v.xmax <= horizonOf}

Collectable == {v \in versions : v.xmax # Current /\ v.xmax < horizonOf}

Reclaim ==
  /\ \E v \in versions : v.xmax # Current
  /\ versions' = versions \ Collectable
  /\ UNCHANGED <<nextId, readers, deleted>>

GarbageStep ==
  \/ RowUpdate \/ RowDelete \/ RowInsert
  \/ OpenReader \/ CloseOldest
  \/ \E s \in START_XID .. nextId : DragOldest(s)
  \/ Reclaim

-------------------------------------------------------------------------------
GarbageTypeOK ==
  /\ nextId \in START_XID + 1 .. START_XID + MAX_SPAN
  /\ versions \subseteq [xmin : START_XID .. nextId,
                         xmax : {Current} \cup (START_XID .. nextId)]
  /\ readers \in Seq(START_XID .. nextId) /\ Len(readers) <= MAX_READERS
  /\ deleted = (\A v \in versions : v.xmax # Current)

SeenBy(s) == {v.xmin : v \in {x \in versions : visibleTo(x, s)}}

(* A snapshot that is held before and after a step sees the same version,  *)
(* and never two.                                                          *)
ReadersKeepTheirVersion ==
  /\ \A s \in ToSet(readers) \cap ToSet(readers') : SeenBy(s)' = SeenBy(s)
  /\ \A s \in ToSet(readers) : Cardinality(SeenBy(s)) <= 1
===============================================================================
