------------------------------- MODULE Bitcask --------------------------------
(***************************************************************************)
(* The lab of BitcaskAppendLogLab.tsx: files of records, of which the last *)
(* is written to, under a directory in memory that points each key at its  *)
(* newest record.  A delete appends a tombstone; a merge rewrites the      *)
(* closed files; a crash loses the directory, a restart replays the files. *)
(*                                                                         *)
(* A file is named by its place among the files and a record by its place  *)
(* in the file: ids, offsets and timestamps only ever serve to tell which  *)
(* is which and which is older.  The size of a value stands for the value. *)
(***************************************************************************)
EXTENDS Integers, Sequences, SequencesExt, FiniteSets

CONSTANTS
  BitcaskKey, BitcaskValue,
  MAX_ACTIVE,    \* records before the active file rolls
  MAX_SEGS,      \* files
  Traffic        \* writes of one press of "Run 6 ops"

BitcaskAssumption ==
  /\ MAX_ACTIVE \in Nat \ {0} /\ MAX_SEGS \in Nat \ {0, 1} /\ Traffic \in Nat

VARIABLES segs, keydir, down

bitcaskVars == <<segs, keydir, down>>

Tombstone == "tombstone"
NoEntry   == [file |-> 0, off |-> 0, tomb |-> FALSE]
EmptyFile == [recs |-> <<>>, closed |-> FALSE]

Record == [key : BitcaskKey, val : BitcaskValue \cup {Tombstone}]

active(files) == Last(files)

BitcaskInit ==
  /\ segs   = <<EmptyFile>>
  /\ keydir = [k \in BitcaskKey |-> NoEntry]
  /\ down   = FALSE

-------------------------------------------------------------------------------
Closed(file) == [file EXCEPT !.closed = TRUE]

(* A full active file is closed and a new one opened, if there is room.    *)
Rolled(files) ==
  IF Len(active(files).recs) >= MAX_ACTIVE /\ Len(files) < MAX_SEGS
    THEN Append([files EXCEPT ![Len(files)] = Closed(@)], EmptyFile)
    ELSE files

(* append(): the record goes to the tail, the directory is pointed at it.  *)
Appended(db, rec) ==
  LET files == [db.segs EXCEPT ![Len(db.segs)].recs = Append(@, rec)]
      entry == [file |-> Len(files), off |-> Len(active(files).recs),
                tomb |-> rec.val = Tombstone]
  IN  [segs   |-> Rolled(files),
       keydir |-> [db.keydir EXCEPT ![rec.key] = entry]]

Full == Len(segs) >= MAX_SEGS /\ Len(active(segs).recs) >= MAX_ACTIVE

Written(recs) ==
  LET db == FoldLeft(Appended, [segs |-> segs, keydir |-> keydir], recs) IN
  /\ ~down
  /\ ~Full
  /\ segs'   = db.segs
  /\ keydir' = db.keydir
  /\ UNCHANGED down

Put(k, v) == Written(<<[key |-> k, val |-> v]>>)
Delete(k) == Written(<<[key |-> k, val |-> Tombstone]>>)

(* "Run 6 ops": any puts and deletes, the script's among them. *)
RunOps(recs) == Written(recs)

Roll ==
  /\ ~down
  /\ active(segs).recs # <<>>
  /\ Len(segs) < MAX_SEGS
  /\ segs' = Append([segs EXCEPT ![Len(segs)] = Closed(@)], EmptyFile)
  /\ UNCHANGED <<keydir, down>>

(* merge(): what the directory points at in the closed files is copied,    *)
(* oldest first, to one file in front of the active one; its tombstones    *)
(* are dropped from the directory too.                                     *)
InClosed(k) == keydir[k] # NoEntry /\ segs[keydir[k].file].closed

Older(e, f) == e.file < f.file \/ (e.file = f.file /\ e.off < f.off)

Dropped(k) == InClosed(k) /\ keydir[k].tomb

Survivors ==
  SetToSortSeq({k \in BitcaskKey : InClosed(k) /\ ~keydir[k].tomb},
               LAMBDA k, l : Older(keydir[k], keydir[l]))

Pointed(k) == segs[keydir[k].file].recs[keydir[k].off]

Remapped(k) ==
  IF keydir[k] = NoEntry \/ Dropped(k) THEN NoEntry
  ELSE IF InClosed(k)
    THEN [file |-> 1, off |-> CHOOSE i \in DOMAIN Survivors : Survivors[i] = k,
          tomb |-> FALSE]
    ELSE [keydir[k] EXCEPT !.file = 2]

Merge ==
  /\ ~down
  /\ \E i \in DOMAIN segs : segs[i].closed
  /\ segs' = << [recs   |-> [i \in DOMAIN Survivors |-> Pointed(Survivors[i])],
                 closed |-> TRUE],
                IF active(segs).closed THEN EmptyFile ELSE active(segs) >>
  /\ keydir' = [k \in BitcaskKey |-> Remapped(k)]
  /\ UNCHANGED down

Crash ==
  /\ ~down
  /\ down'   = TRUE
  /\ keydir' = [k \in BitcaskKey |-> NoEntry]
  /\ UNCHANGED segs

(* rebuild(): the files replayed oldest first.  The newest record of a key *)
(* counts, a tombstone leaves no entry.                                    *)
Places(k) ==
  UNION {{[file |-> f, off |-> o, tomb |-> FALSE] :
            o \in {o \in DOMAIN segs[f].recs : segs[f].recs[o].key = k}}
         : f \in DOMAIN segs}

Newest(places) == CHOOSE e \in places : \A f \in places : f = e \/ Older(f, e)

(* A bug: the replay passes over the tombstones. *)
RebuiltOfPuts(k) ==
  LET puts == {e \in Places(k) : segs[e.file].recs[e.off].val # Tombstone} IN
  IF puts = {} THEN NoEntry ELSE Newest(puts)

Rebuilt(k) ==
  IF Places(k) = {} THEN NoEntry
  ELSE LET e == Newest(Places(k)) IN
       IF segs[e.file].recs[e.off].val = Tombstone THEN NoEntry ELSE e

(* The files are closed and a new one opened, if there is room; otherwise  *)
(* the active file goes on.                                                *)
Restart ==
  /\ down
  /\ keydir' = [k \in BitcaskKey |-> Rebuilt(k)]
  /\ segs'   = IF Len(segs) < MAX_SEGS
                 THEN Append([i \in DOMAIN segs |-> Closed(segs[i])], EmptyFile)
                 ELSE segs
  /\ down'   = FALSE

Batches == [1 .. Traffic -> Record]

BitcaskStep ==
  \/ \E k \in BitcaskKey, v \in BitcaskValue : Put(k, v)
  \/ \E k \in BitcaskKey : Delete(k)
  \/ \E recs \in Batches : RunOps(recs)
  \/ Roll \/ Merge \/ Crash \/ Restart

-------------------------------------------------------------------------------
Entry == [file : 0 .. MAX_SEGS, off : Nat, tomb : BOOLEAN]

BitcaskTypeOK ==
  /\ segs \in Seq([recs : Seq(Record), closed : BOOLEAN])
  /\ Len(segs) \in 1 .. MAX_SEGS
  /\ ~active(segs).closed
  /\ keydir \in [BitcaskKey -> Entry]
  /\ down \in BOOLEAN

(* What is found under a key: through the directory, or, while the process *)
(* is down, through the directory a restart would build.                   *)
Absent == "absent"
EntryOf(k) == IF down THEN Rebuilt(k) ELSE keydir[k]
Found(k) ==
  LET e == EntryOf(k) IN
  IF e = NoEntry \/ e.tomb THEN Absent ELSE segs[e.file].recs[e.off].val

Contents == [k \in BitcaskKey |-> Found(k)]

Map == INSTANCE KeyMap WITH Key <- BitcaskKey, map <- Contents,
                            Value <- BitcaskValue \cup {Absent}

Shown(rec) == <<rec.key, IF rec.val = Tombstone THEN Absent ELSE rec.val>>

(* Puts and deletes change what is found under their own keys, in their    *)
(* order; rolling, merging, crashing and restarting change nothing.        *)
BitcaskActsAsMap ==
  \/ (Roll \/ Crash \/ Restart \/ Merge) /\ Map!Keep
  \/ \E k \in BitcaskKey, v \in BitcaskValue : Put(k, v) /\ Map!Set(k, v)
  \/ \E k \in BitcaskKey : Delete(k) /\ Map!Set(k, Absent)
  \/ \E recs \in Batches :
        RunOps(recs) /\ Map!SetAll([i \in DOMAIN recs |-> Shown(recs[i])])
===============================================================================
