-------------------------------- MODULE LsmStore -------------------------------
(***************************************************************************)
(* Three labs on an LSM store.  Recovery (ManifestRecoveryLab.tsx): the    *)
(* events of an engine that writes its log, flushes, compacts and changes  *)
(* its manifest, the points at which the power may fail, and what is       *)
(* rebuilt from what is on disk then: CURRENT, the manifest it names, the  *)
(* files this names, and the log.  And two rules on where the versions of  *)
(* a key may lie, each a function of what the controls ask: the ingestion  *)
(* of a file built elsewhere (SstIngestLab.tsx) and the compaction of a    *)
(* deleted key's versions past open snapshots (the first panel of          *)
(* TombstoneZombieLab.tsx).                                                *)
(***************************************************************************)
EXTENDS Integers, Sequences, SequencesExt, FiniteSets, FiniteSetsExt

CONSTANTS
  EndPoints     \* bound: the positions of the sliders "Smallest key", "Largest key"

VARIABLES
  crash, walMode,
  ask           \* the controls: of the ingestion, and of the compaction

LsmAssumption == EndPoints \subseteq 0 .. 1000 /\ EndPoints # {}

Put(wal, k, v)  == [kind |-> "put", wal |-> wal, key |-> k, val |-> v]
Sst(file, rows) == [kind |-> "sst", file |-> file, rows |-> rows]
Edit(add, del, logNumber) ==
  [kind |-> "edit", add |-> add, del |-> del, logNumber |-> logNumber]
WalOpen(wal)    == [kind |-> "wal-open", wal |-> wal]
ManifestNew(m)  == [kind |-> "manifest-new", manifest |-> m]
Current(m)      == [kind |-> "current", manifest |-> m]

Rows == {<<"a", 1>>, <<"b", 2>>}

EVENTS ==
  << ManifestNew(5), WalOpen(7), Put(7, "a", 1), Put(7, "b", 2), WalOpen(8),
     Sst(9, Rows), Edit({9}, {}, 8), Put(8, "c", 3), Sst(10, Rows),
     Edit({10}, {9}, 0), Put(8, "d", 4), ManifestNew(11), Current(11) >>

(* How many events are on disk, whether the last is torn, and the file of  *)
(* which a part is there.                                                  *)
Crash(n, torn, partialSst) == [events |-> n, torn |-> torn, partialSst |-> partialSst]

CRASHES ==
  {Crash(5, FALSE, 9), Crash(6, FALSE, 0), Crash(7, FALSE, 0), Crash(9, FALSE, 0),
   Crash(11, TRUE, 0), Crash(12, FALSE, 0), Crash(13, FALSE, 0)}

ManifestInit == crash = Crash(6, FALSE, 0) /\ walMode = "point-in-time"

ManifestStep ==
  /\ crash' \in CRASHES
  /\ walMode' \in {"point-in-time", "absolute"}

-------------------------------------------------------------------------------
(* recover() *)
disk     == SubSeq(EVENTS, 1, crash.events)
Of(kind) == {i \in DOMAIN disk : disk[i].kind = kind}

manifest == IF Of("current") = {} THEN 5 ELSE 11

(* The edits of the manifest in their order; manifest 11 begins with a     *)
(* snapshot of what they made.                                             *)
Replayed ==
  FoldLeft(LAMBDA v, e :
             IF e.kind # "edit" THEN v
             ELSE [live      |-> (v.live \cup e.add) \ e.del,
                   logNumber |-> IF e.logNumber # 0 THEN e.logNumber ELSE v.logNumber],
           [live |-> {}, logNumber |-> 7], disk)

Version == IF manifest = 11 THEN [live |-> {10}, logNumber |-> 8] ELSE Replayed

onDiskSst == {disk[i].file : i \in Of("sst")}
               \cup (IF crash.partialSst = 0 THEN {} ELSE {crash.partialSst})
orphanSst == onDiskSst \ Version.live
orphanManifest ==
  IF manifest # 11 /\ \E i \in Of("manifest-new") : disk[i].manifest = 11
    THEN {11} ELSE {}

Torn(i) == crash.torn /\ \A j \in Of("put") : j <= i

(* A bug: the log is replayed from the number before the flush. *)
ReplayableAny(i) == ~Torn(i) /\ disk[i].wal > Version.logNumber

Replayable(i) == ~Torn(i) /\ disk[i].wal >= Version.logNumber

failed == walMode = "absolute"
            /\ \E i \in Of("put") : Torn(i) /\ disk[i].wal >= Version.logNumber

memtable == {<<disk[i].key, disk[i].val>> : i \in {j \in Of("put") : Replayable(j)}}

FromFiles == UNION {disk[i].rows : i \in {j \in Of("sst") : disk[j].file \in Version.live}}

visible == IF failed THEN {} ELSE FromFiles \cup memtable

written == {<<disk[i].key, disk[i].val>> : i \in {j \in Of("put") : ~Torn(j)}}

-------------------------------------------------------------------------------
ManifestTypeOK == crash \in CRASHES /\ walMode \in {"point-in-time", "absolute"}

(* Whenever the power fails, a recovery that opens the database brings     *)
(* back exactly what was written, once each: the log that is skipped is in *)
(* files and the files that are named are whole.  A new manifest's         *)
(* snapshot is what its predecessor's edits made.  Only a torn record      *)
(* under absolute consistency refuses.                                     *)
NothingLost ==
  /\ failed <=> crash.torn /\ walMode = "absolute"
  /\ ~failed => visible = written /\ FromFiles \cap memtable = {}
  /\ Version.live \subseteq onDiskSst \ {crash.partialSst}
  /\ manifest = 11 => Version = Replayed

-------------------------------------------------------------------------------
(* The files of each level, L0 first.                                      *)
LEVELED ==
  <<{<<300, 420>>},
    {<<0, 140>>, <<230, 480>>, <<520, 760>>},
    {<<0, 90>>, <<100, 180>>, <<240, 500>>, <<510, 640>>, <<650, 800>>},
    {<<0, 120>>, <<130, 260>>, <<270, 390>>, <<400, 560>>, <<570, 740>>, <<750, 880>>},
    {<<0, 100>>, <<100, 250>>, <<250, 400>>, <<400, 560>>, <<560, 720>>, <<720, 900>>}>>
UNIVERSAL_BEHIND ==
  <<{<<300, 420>>},
    {<<0, 140>>, <<230, 480>>, <<520, 760>>},
    {<<0, 260>>, <<270, 560>>, <<570, 880>>},
    {<<0, 300>>, <<300, 600>>, <<600, 900>>},
    {<<0, 180>>}>>
MEMTABLE == <<440, 470>>
LAST_SEQ == 18204
LastLevel     == 4

overlap(a, b) == a[1] <= b[2] /\ b[1] <= a[2]

File(q)      == <<Min({q.lo, q.hi}), Max({q.lo, q.hi})>>
Flushed(q)   == overlap(File(q), MEMTABLE) /\ q.blocking
Level(q, l)  ==
  (IF q.mode = "behind" THEN UNIVERSAL_BEHIND ELSE LEVELED)[l + 1]
    \cup (IF l = 0 /\ Flushed(q) THEN {MEMTABLE} ELSE {})
Covered(q, l) == \E f \in Level(q, l) : overlap(File(q), f)

Refused == [ok |-> FALSE, level |-> -1, seq |-> -1]

(* ingest(): down from L0 until a level has keys of the file; the level    *)
(* above it is where the file goes, L0 if there is none.                   *)
ingest(q) ==
  LET blocked == {l \in 0 .. LastLevel : Covered(q, l)}
      target  == IF blocked = {} THEN LastLevel ELSE Max({0, Min(blocked) - 1})
      seq     == IF blocked # {} \/ q.snapshot THEN LAST_SEQ + 1 ELSE 0
  IN  CASE overlap(File(q), MEMTABLE) /\ ~q.blocking -> Refused
        [] q.mode = "behind" /\ Covered(q, LastLevel) -> Refused
        [] OTHER -> IF q.mode = "behind" THEN [ok |-> TRUE, level |-> LastLevel, seq |-> 0]
                    ELSE [ok |-> TRUE, level |-> target, seq |-> seq]

-------------------------------------------------------------------------------
(* The versions of one key: two puts, and a delete over them.              *)
HISTORY  == {[seq |-> 30, kind |-> "del"], [seq |-> 20, kind |-> "put"], [seq |-> 10, kind |-> "put"]}
Snapshots == {15, 25}
Latest   == 100    \* a read at the latest sequence number

NewestUpTo(vs, at) ==
  LET seen == {v \in vs : v.seq <= at}
  IN  IF seen = {} THEN {} ELSE {CHOOSE v \in seen : \A w \in seen : w.seq <= v.seq}

(* compact(): what survives, given the open snapshots.                     *)
compact(snaps, bottommost) ==
  LET earliest == Min(snaps \cup {Latest})
      hidden   == {v \in HISTORY : \E t \in HISTORY :
                     t.kind = "del" /\ t.seq >= v.seq /\ t.seq <= earliest}
      seen     == UNION {NewestUpTo(HISTORY, r) : r \in snaps \cup {Latest}}
      deletes  == {v \in HISTORY : v.kind = "del"}
  IN  (seen \cup deletes) \ (IF bottommost THEN hidden ELSE {})

-------------------------------------------------------------------------------
LsmInit ==
  ask = [lo |-> Min(EndPoints), hi |-> Max(EndPoints), mode |-> "normal", blocking |-> TRUE,
         snapshot |-> FALSE, snaps |-> {25}, bottommost |-> TRUE]

LsmStep ==
  \/ \E k \in EndPoints : ask' = [ask EXCEPT !.lo = k] \/ ask' = [ask EXCEPT !.hi = k]
  \/ \E m \in {"normal", "behind"} : ask' = [ask EXCEPT !.mode = m]
  \/ ask' = [ask EXCEPT !.blocking = ~@] \/ ask' = [ask EXCEPT !.snapshot = ~@]
  \/ \E s \in Snapshots : ask' = [ask EXCEPT !.snaps = SymDiff(@, {s})]
  \/ ask' = [ask EXCEPT !.bottommost = ~@]

-------------------------------------------------------------------------------
(* A file that was ingested is where a search meets it in the right order: *)
(* normally before every older version of its keys, with a number that     *)
(* tells it from them and from what a snapshot may see, and as deep as     *)
(* that allows; behind, after all of them; never in a level where another  *)
(* file has its keys, but for L0; and never beside a memtable that has.    *)
IngestedInOrder ==
  LET r     == ingest(ask)
      above == {l \in 0 .. LastLevel : Covered(ask, l) /\ l < r.level}
      below == {l \in 0 .. LastLevel : Covered(ask, l) /\ l > r.level}
      old   == {l \in 0 .. LastLevel : Covered(ask, l)}
  IN  r.ok =>
        /\ overlap(File(ask), MEMTABLE) => Covered(ask, 0)
        /\ r.level > 0 => ~Covered(ask, r.level)
        /\ ask.mode = "behind" => below = {} /\ r.seq = 0
        /\ ask.mode = "normal" =>
             /\ above = {}
             /\ old # {} \/ ask.snapshot => r.seq > LAST_SEQ
             /\ r.level < LastLevel => Covered(ask, r.level) \/ Covered(ask, r.level + 1)

(* What the compaction drops nobody misses: each snapshot and the latest   *)
(* read find the row they found, or none, also when a level further down   *)
(* still holds a version older than all of these.                          *)
CompactionUnseen ==
  LET lower == IF ask.bottommost THEN {} ELSE {[seq |-> 5, kind |-> "put"]}
      found(vs, at) == {v \in NewestUpTo(vs \cup lower, at) : v.kind = "put"}
  IN  \A at \in ask.snaps \cup {Latest} :
        found(compact(ask.snaps, ask.bottommost), at) = found(HISTORY, at)
===============================================================================
