--------------------------- MODULE DurabilityStack ----------------------------
(***************************************************************************)
(* The lab of DurabilityStackLab.tsx: records on their way from the page   *)
(* cache through the drive's cache to the media, the calls that move them, *)
(* write errors and a power cut.                                           *)
(*                                                                         *)
(* fsync and fdatasync differ in the time stamps of the inode, which bring *)
(* no record back, and are one action here; a kill takes nothing from the  *)
(* kernel.  The settings may change between two calls.                     *)
(***************************************************************************)
EXTENDS Integers, Sequences, FiniteSets

CONSTANTS
  MAX_RECS,    \* records that were not dropped
  MaxWritten   \* bound: all records

DurabilityAssumption == MAX_RECS \in Nat /\ MaxWritten \in Nat

VARIABLES
  copies,                 \* where the newest copy of each record is
  sizeDirty,              \* the length of the file is not on media
  errArmed, errPending,   \* the next write-back fails; an EIO nobody was told of
  frozen,                 \* a power cut or a PANIC: only a reboot goes on
  told, promised          \* history: the records that were gone when a sync
                          \* said EIO, and those a call said were durable

durabilityVars == <<copies, sizeDirty, errArmed, errPending, frozen, told, promised>>

Place == {"page cache", "drive cache", "media", "dropped", "lost"}

In(place, rs) == {i \in DOMAIN rs : rs[i] = place}

DurabilityInit ==
  /\ copies = <<>>
  /\ sizeDirty = FALSE
  /\ errArmed = FALSE /\ errPending = FALSE
  /\ frozen = FALSE
  /\ told = {} /\ promised = {}

(* The records that were not dropped count against the limit. *)
Room ==
  /\ Len(copies) < MaxWritten
  /\ Cardinality(DOMAIN copies \ In("dropped", copies)) < MAX_RECS

-------------------------------------------------------------------------------
Moved(rs, from, to) == [i \in DOMAIN rs |-> IF rs[i] = from THEN to ELSE rs[i]]

(* doWriteback(): every dirty page goes to the drive.  If that fails, the  *)
(* pages are clean all the same, and gone.                                 *)
Rejected    == errArmed /\ In("page cache", copies) # {}
WrittenBack == Moved(copies, "page cache", IF errArmed THEN "dropped" ELSE "drive cache")

PendingAfter == errPending \/ Rejected

Write(append) ==
  /\ Room
  /\ copies' = Append(copies, "page cache")
  /\ sizeDirty' = (sizeDirty \/ append)
  /\ UNCHANGED <<errArmed, errPending, frozen, told, promised>>

Writeback ==
  /\ copies' = WrittenBack
  /\ errArmed' = (errArmed /\ ~Rejected)
  /\ errPending' = PendingAfter
  /\ UNCHANGED <<sizeDirty, frozen, told, promised>>

Flush ==
  /\ copies' = Moved(copies, "drive cache", "media")
  /\ UNCHANGED <<sizeDirty, errArmed, errPending, frozen, told, promised>>

(* -1 EIO, once; a PANIC unless the engine retries. *)
SyncFails(panic) ==
  /\ PendingAfter
  /\ copies' = WrittenBack
  /\ errArmed' = (errArmed /\ ~Rejected)
  /\ errPending' = FALSE
  /\ frozen' = panic
  /\ told' = told \cup In("dropped", copies')
  /\ UNCHANGED <<sizeDirty, promised>>

SyncReturns ==
  /\ ~PendingAfter
  /\ copies' = Moved(WrittenBack, "drive cache", "media")
  /\ sizeDirty' = FALSE
  /\ promised' = promised \cup (DOMAIN copies \ told)
  /\ UNCHANGED <<errArmed, errPending, frozen, told>>

Sync(panic) == SyncFails(panic) \/ SyncReturns

(* A write with O_DIRECT and O_DSYNC goes past both caches, and takes the  *)
(* length of the file along.                                               *)
Fua ==
  /\ Room
  /\ copies' = Append(copies, "media")
  /\ sizeDirty' = FALSE
  /\ promised' = promised \cup {Len(copies')}
  /\ UNCHANGED <<errArmed, errPending, frozen, told>>

Inject ==
  /\ ~errArmed
  /\ errArmed' = TRUE
  /\ UNCHANGED <<copies, sizeDirty, errPending, frozen, told, promised>>

(* The drive's cache survives if it is protected (plp). *)
Power(plp) ==
  /\ copies' = [i \in DOMAIN copies |->
                CASE copies[i] = "page cache"  -> "lost"
                  [] copies[i] = "drive cache" -> IF plp THEN "media" ELSE "lost"
                  [] OTHER                   -> copies[i]]
  /\ frozen' = TRUE
  /\ UNCHANGED <<sizeDirty, errArmed, errPending, told, promised>>

Apply ==
  \/ \E append \in BOOLEAN : Write(append)
  \/ Fua \/ Writeback \/ Flush \/ Inject
  \/ \E panic \in BOOLEAN : Sync(panic)
  \/ \E plp \in BOOLEAN : Power(plp)

Reboot ==
  /\ copies' = <<>>
  /\ sizeDirty' = FALSE
  /\ errArmed' = FALSE /\ errPending' = FALSE
  /\ frozen' = FALSE
  /\ told' = {} /\ promised' = {}

DurabilityStep == (~frozen /\ Apply) \/ Reboot

-------------------------------------------------------------------------------
DurabilityTypeOK ==
  /\ copies \in Seq(Place) /\ Len(copies) <= MaxWritten
  /\ sizeDirty \in BOOLEAN /\ errArmed \in BOOLEAN /\ errPending \in BOOLEAN
  /\ frozen \in BOOLEAN
  /\ told \subseteq DOMAIN copies /\ promised \subseteq DOMAIN copies

(* The durability contract: what a sync or a FUA write has returned for is *)
(* on the media and stays there, and the length of the file covers it.  A  *)
(* sync may return 0 with a record gone only after an earlier one said EIO *)
(* of that very record.                                                    *)
PromiseKept ==
  /\ \A i \in promised : copies[i] = "media"
  /\ promised = DOMAIN copies => ~sizeDirty
===============================================================================
