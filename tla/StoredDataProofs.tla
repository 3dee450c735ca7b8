---------------------------- MODULE StoredDataProofs ----------------------------
(***************************************************************************)
(* What holds of two labs of StoredData for every value of their           *)
(* constants: the durability stack keeps what it promised, whatever number *)
(* of records it takes, and of the copies of a page the newest is found,   *)
(* for any pages, any RAM and any share of it that the pool takes.  Each   *)
(* is stated of the lab's own behaviours; while one lab of StoredData is   *)
(* in use, it takes the steps of that lab alone.                           *)
(***************************************************************************)
EXTENDS Integers, Sequences, FiniteSetTheorems, WellFoundedInduction, TLAPS

CONSTANTS MAX_RECS, MaxWritten, DataPage, RAM, PoolSlots, MaxLsn

VARIABLES
  copies, sizeDirty, errArmed, errPending, frozen, told, promised,
  host, latest

Durability == INSTANCE DurabilityStack
Ownership  == INSTANCE PageOwnership

-------------------------------------------------------------------------------
(* DurabilityStackLab. *)

(* A record and the rest of the log: what an append makes of it. *)
LEMMA OneMore ==
  ASSUME NEW s \in Seq(Durability!Place), NEW e \in Durability!Place
  PROVE  /\ Append(s, e) \in Seq(Durability!Place)
         /\ Len(s) \in Nat /\ Len(Append(s, e)) = Len(s) + 1
         /\ DOMAIN s = 1 .. Len(s) /\ DOMAIN Append(s, e) = 1 .. Len(s) + 1
         /\ \A i \in DOMAIN s : Append(s, e)[i] = s[i]
         /\ Append(s, e)[Len(s) + 1] = e
OBVIOUS

LEMMA MovedPlaces ==
  ASSUME NEW s \in Seq(Durability!Place), NEW f \in Durability!Place, NEW t \in Durability!Place
  PROVE  /\ Durability!Moved(s, f, t) \in Seq(Durability!Place)
         /\ Len(Durability!Moved(s, f, t)) = Len(s)
         /\ DOMAIN Durability!Moved(s, f, t) = DOMAIN s
         /\ \A i \in DOMAIN s :
              Durability!Moved(s, f, t)[i] = IF s[i] = f THEN t ELSE s[i]
<1>1. Durability!Moved(s, f, t) = [i \in 1 .. Len(s) |-> IF s[i] = f THEN t ELSE s[i]]
  BY DEF Durability!Moved
<1> QED BY <1>1

LEMMA WrittenPlaces ==
  ASSUME copies \in Seq(Durability!Place)
  PROVE  /\ Durability!WrittenBack \in Seq(Durability!Place)
         /\ Len(Durability!WrittenBack) = Len(copies)
         /\ DOMAIN Durability!WrittenBack = DOMAIN copies
         /\ \A i \in DOMAIN copies :
              Durability!WrittenBack[i] =
                IF copies[i] = "page cache" THEN IF errArmed THEN "dropped" ELSE "drive cache"
                ELSE copies[i]
<1> DEFINE t == IF errArmed THEN "dropped" ELSE "drive cache"
<1>1. t \in Durability!Place /\ "page cache" \in Durability!Place
  BY DEF Durability!Place
<1>2. Durability!WrittenBack = Durability!Moved(copies, "page cache", t)
  BY DEF Durability!WrittenBack
<1> HIDE DEF t
<1>3. /\ Durability!WrittenBack \in Seq(Durability!Place)
      /\ Len(Durability!WrittenBack) = Len(copies)
      /\ DOMAIN Durability!WrittenBack = DOMAIN copies
      /\ \A i \in DOMAIN copies :
           Durability!WrittenBack[i] = IF copies[i] = "page cache" THEN t ELSE copies[i]
  <2>1. \A f, u \in Durability!Place :
          /\ Durability!Moved(copies, f, u) \in Seq(Durability!Place)
          /\ Len(Durability!Moved(copies, f, u)) = Len(copies)
          /\ DOMAIN Durability!Moved(copies, f, u) = DOMAIN copies
          /\ \A i \in DOMAIN copies :
               Durability!Moved(copies, f, u)[i] = IF copies[i] = f THEN u ELSE copies[i]
    BY MovedPlaces
  <2> QED BY <1>1, <1>2, <2>1
<1> QED BY <1>3 DEF t

(* A record that is gone was reported, or will be by the next sync; nothing *)
(* is lost before a power cut; and what was promised is kept.              *)
DurShape ==
  /\ MaxWritten \in Nat
  /\ copies \in Seq(Durability!Place) /\ Len(copies) <= MaxWritten
  /\ told \subseteq DOMAIN copies /\ promised \subseteq DOMAIN copies
DurFlags ==
  /\ sizeDirty \in BOOLEAN /\ errArmed \in BOOLEAN /\ errPending \in BOOLEAN
  /\ frozen \in BOOLEAN
Promised == \A i \in promised : copies[i] = "media"
Covered  == promised = DOMAIN copies => ~sizeDirty
Untold   == \A i \in DOMAIN copies : copies[i] = "dropped" => i \in told \/ errPending
Unlost   == ~frozen => \A i \in DOMAIN copies : copies[i] # "lost"

DurInv == DurShape /\ DurFlags /\ Promised /\ Covered /\ Untold /\ Unlost

LEMMA PlacesNamed ==
  /\ "page cache" \in Durability!Place /\ "media" \in Durability!Place
  /\ "drive cache" \in Durability!Place /\ "dropped" \in Durability!Place
  /\ "lost" \in Durability!Place
BY DEF Durability!Place

LEMMA DrainedPlaces ==
  ASSUME NEW s \in Seq(Durability!Place)
  PROVE  LET d == Durability!Moved(s, "drive cache", "media") IN
         /\ d \in Seq(Durability!Place) /\ Len(d) = Len(s) /\ DOMAIN d = DOMAIN s
         /\ \A i \in DOMAIN s : d[i] = IF s[i] = "drive cache" THEN "media" ELSE s[i]
<1>1. \A f, u \in Durability!Place :
          /\ Durability!Moved(s, f, u) \in Seq(Durability!Place)
          /\ Len(Durability!Moved(s, f, u)) = Len(s)
          /\ DOMAIN Durability!Moved(s, f, u) = DOMAIN s
          /\ \A i \in DOMAIN s : Durability!Moved(s, f, u)[i] = IF s[i] = f THEN u ELSE s[i]
  BY MovedPlaces
<1> QED BY <1>1, PlacesNamed

(* A new record, wherever it is. *)
LEMMA NewRecord ==
  ASSUME DurShape, NEW e \in Durability!Place, copies' = Append(copies, e), Durability!Room
  PROVE  /\ copies' \in Seq(Durability!Place) /\ Len(copies') <= MaxWritten
         /\ Len(copies') \in DOMAIN copies' /\ Len(copies') \notin DOMAIN copies
         /\ DOMAIN copies' = DOMAIN copies \cup {Len(copies')}
         /\ \A i \in DOMAIN copies : copies'[i] = copies[i]
         /\ copies'[Len(copies')] = e
<1>1. MaxWritten \in Nat
  BY DEF DurShape
<1>2. Len(copies) < MaxWritten
  BY DEF Durability!Room
<1>3. /\ copies' \in Seq(Durability!Place) /\ Len(copies) \in Nat /\ Len(copies') = Len(copies) + 1
      /\ DOMAIN copies = 1 .. Len(copies) /\ DOMAIN copies' = 1 .. Len(copies) + 1
      /\ \A i \in DOMAIN copies : copies'[i] = copies[i]
      /\ copies'[Len(copies) + 1] = e
  BY OneMore DEF DurShape
<1>4. 1 .. Len(copies) + 1 = (1 .. Len(copies)) \cup {Len(copies) + 1}
  BY <1>3
<1>5. Len(copies) + 1 \notin 1 .. Len(copies)
  BY <1>3
<1>6. Len(copies') <= MaxWritten
  BY <1>1, <1>2, <1>3
<1> QED BY <1>3, <1>4, <1>5, <1>6

LEMMA DurWrite ==
  ASSUME DurInv, NEW append \in BOOLEAN, Durability!Write(append) PROVE DurInv'
<1>1. DurShape /\ DurFlags /\ Promised /\ Untold /\ Unlost
  BY DEF DurInv
<1>2. /\ copies' = Append(copies, "page cache") /\ Durability!Room
      /\ UNCHANGED <<errArmed, errPending, frozen, told, promised>>
      /\ sizeDirty' = (sizeDirty \/ append)
  BY DEF Durability!Write
<1>3. /\ copies' \in Seq(Durability!Place) /\ Len(copies') <= MaxWritten
      /\ Len(copies') \in DOMAIN copies' /\ Len(copies') \notin DOMAIN copies
      /\ DOMAIN copies' = DOMAIN copies \cup {Len(copies')}
      /\ \A i \in DOMAIN copies : copies'[i] = copies[i]
      /\ copies'[Len(copies')] = "page cache"
  BY <1>1, <1>2, PlacesNamed, NewRecord
<1>4. DurShape'
  BY <1>1, <1>2, <1>3 DEF DurShape
<1>5. DurFlags'
  BY <1>1, <1>2 DEF DurFlags
<1>6. Promised'
  BY <1>1, <1>2, <1>3 DEF Promised, DurShape
<1>7. Covered'
  <2>1. promised \subseteq DOMAIN copies /\ promised' = promised
    BY <1>1, <1>2 DEF DurShape
  <2> QED BY <2>1, <1>3 DEF Covered
<1>8. Untold' /\ Unlost'
  BY <1>1, <1>2, <1>3 DEF Untold, Unlost
<1> QED BY <1>4, <1>5, <1>6, <1>7, <1>8 DEF DurInv

LEMMA DurFua == ASSUME DurInv, Durability!Fua PROVE DurInv'
<1>1. DurShape /\ DurFlags /\ Promised /\ Untold /\ Unlost
  BY DEF DurInv
<1>2. /\ copies' = Append(copies, "media") /\ Durability!Room
      /\ UNCHANGED <<errArmed, errPending, frozen, told>>
      /\ sizeDirty' = FALSE /\ promised' = promised \cup {Len(copies')}
  BY DEF Durability!Fua
<1>3. /\ copies' \in Seq(Durability!Place) /\ Len(copies') <= MaxWritten
      /\ Len(copies') \in DOMAIN copies'
      /\ DOMAIN copies' = DOMAIN copies \cup {Len(copies')}
      /\ \A i \in DOMAIN copies : copies'[i] = copies[i]
      /\ copies'[Len(copies')] = "media"
  BY <1>1, <1>2, PlacesNamed, NewRecord
<1>4. DurShape'
  BY <1>1, <1>2, <1>3 DEF DurShape
<1>5. DurFlags'
  BY <1>1, <1>2 DEF DurFlags
<1>6. Promised'
  BY <1>1, <1>2, <1>3 DEF Promised, DurShape
<1>7. Covered'
  BY <1>2 DEF Covered
<1>8. Untold' /\ Unlost'
  BY <1>1, <1>2, <1>3 DEF Untold, Unlost
<1> QED BY <1>4, <1>5, <1>6, <1>7, <1>8 DEF DurInv

LEMMA DurWriteback == ASSUME DurInv, Durability!Writeback PROVE DurInv'
<1>1. DurShape /\ DurFlags /\ Promised /\ Covered /\ Untold /\ Unlost
  BY DEF DurInv
<1>2. /\ copies' = Durability!WrittenBack /\ errPending' = Durability!PendingAfter
      /\ errArmed' = (errArmed /\ ~Durability!Rejected)
      /\ UNCHANGED <<sizeDirty, frozen, told, promised>>
  BY DEF Durability!Writeback
<1>3. errPending' = (errPending \/ Durability!Rejected)
  BY <1>2 DEF Durability!PendingAfter
<1>4. ASSUME NEW i \in DOMAIN copies, copies[i] = "page cache", errArmed PROVE Durability!Rejected
  BY <1>4 DEF Durability!Rejected, Durability!In
<1>5. /\ copies' \in Seq(Durability!Place) /\ Len(copies') = Len(copies)
      /\ DOMAIN copies' = DOMAIN copies
      /\ \A i \in DOMAIN copies :
              copies'[i] =
                IF copies[i] = "page cache" THEN IF errArmed THEN "dropped" ELSE "drive cache"
                ELSE copies[i]
  BY <1>1, <1>2, WrittenPlaces DEF DurShape
<1>6. DurShape'
  BY <1>1, <1>2, <1>5 DEF DurShape
<1>7. DurFlags'
  BY <1>1, <1>2, <1>3 DEF DurFlags, Durability!Rejected
<1>8. Promised' /\ Covered'
  BY <1>1, <1>2, <1>5 DEF Promised, Covered, DurShape
<1>9. Untold'
  BY <1>1, <1>2, <1>3, <1>4, <1>5 DEF Untold
<1>10. Unlost'
  BY <1>1, <1>2, <1>5 DEF Unlost
<1> QED BY <1>6, <1>7, <1>8, <1>9, <1>10 DEF DurInv

LEMMA DurFlush == ASSUME DurInv, Durability!Flush PROVE DurInv'
<1>1. DurShape /\ DurFlags /\ Promised /\ Covered /\ Untold /\ Unlost
  BY DEF DurInv
<1>2. /\ copies' = Durability!Moved(copies, "drive cache", "media")
      /\ UNCHANGED <<sizeDirty, errArmed, errPending, frozen, told, promised>>
  BY DEF Durability!Flush
<1>3. /\ copies' \in Seq(Durability!Place) /\ Len(copies') = Len(copies)
      /\ DOMAIN copies' = DOMAIN copies
      /\ \A i \in DOMAIN copies : copies'[i] = IF copies[i] = "drive cache" THEN "media" ELSE copies[i]
  BY <1>1, <1>2, DrainedPlaces DEF DurShape
<1>4. DurShape' /\ DurFlags'
  BY <1>1, <1>2, <1>3 DEF DurShape, DurFlags
<1>5. Promised' /\ Covered'
  BY <1>1, <1>2, <1>3 DEF Promised, Covered, DurShape
<1>6. Untold' /\ Unlost'
  BY <1>1, <1>2, <1>3 DEF Untold, Unlost
<1> QED BY <1>4, <1>5, <1>6 DEF DurInv

LEMMA DurSyncFails ==
  ASSUME DurInv, NEW panic \in BOOLEAN, ~frozen, Durability!SyncFails(panic) PROVE DurInv'
<1>1. DurShape /\ DurFlags /\ Promised /\ Covered /\ Untold /\ Unlost
  BY DEF DurInv
<1>2. /\ copies' = Durability!WrittenBack /\ errPending' = FALSE
      /\ errArmed' = (errArmed /\ ~Durability!Rejected) /\ frozen' = panic
      /\ told' = told \cup Durability!In("dropped", copies')
      /\ UNCHANGED <<sizeDirty, promised>>
  BY DEF Durability!SyncFails
<1>3. Durability!In("dropped", copies') = {i \in DOMAIN copies' : copies'[i] = "dropped"}
  BY DEF Durability!In
<1>5. /\ copies' \in Seq(Durability!Place) /\ Len(copies') = Len(copies)
      /\ DOMAIN copies' = DOMAIN copies
      /\ \A i \in DOMAIN copies :
              copies'[i] =
                IF copies[i] = "page cache" THEN IF errArmed THEN "dropped" ELSE "drive cache"
                ELSE copies[i]
  BY <1>1, <1>2, WrittenPlaces DEF DurShape
<1>6. DurShape'
  BY <1>1, <1>2, <1>3, <1>5 DEF DurShape
<1>7. DurFlags'
  BY <1>1, <1>2 DEF DurFlags, Durability!Rejected
<1>8. Promised' /\ Covered'
  BY <1>1, <1>2, <1>5 DEF Promised, Covered, DurShape
<1>9. Untold'
  BY <1>2, <1>3 DEF Untold
<1>10. Unlost'
  BY <1>1, <1>5 DEF Unlost
<1> QED BY <1>6, <1>7, <1>8, <1>9, <1>10 DEF DurInv

LEMMA DurSyncReturns == ASSUME DurInv, ~frozen, Durability!SyncReturns PROVE DurInv'
<1>1. DurShape /\ DurFlags /\ Promised /\ Covered /\ Untold /\ Unlost
  BY DEF DurInv
<1>2. /\ copies' = Durability!Moved(Durability!WrittenBack, "drive cache", "media")
      /\ sizeDirty' = FALSE /\ promised' = promised \cup (DOMAIN copies \ told)
      /\ UNCHANGED <<errArmed, errPending, frozen, told>>
      /\ ~errPending /\ ~Durability!Rejected
  BY DEF Durability!SyncReturns, Durability!PendingAfter
<1> DEFINE w == Durability!WrittenBack
<1>3. /\ w \in Seq(Durability!Place) /\ Len(w) = Len(copies) /\ DOMAIN w = DOMAIN copies
      /\ \A i \in DOMAIN copies :
              w[i] = IF copies[i] = "page cache" THEN IF errArmed THEN "dropped" ELSE "drive cache"
                     ELSE copies[i]
  BY <1>1, WrittenPlaces DEF DurShape
<1>4. copies' = Durability!Moved(w, "drive cache", "media")
  BY <1>2
<1> HIDE DEF w
<1>5. /\ copies' \in Seq(Durability!Place) /\ Len(copies') = Len(w) /\ DOMAIN copies' = DOMAIN w
      /\ \A i \in DOMAIN w : copies'[i] = IF w[i] = "drive cache" THEN "media" ELSE w[i]
  BY <1>3, <1>4, DrainedPlaces
<1>6. ASSUME NEW i \in DOMAIN copies, copies[i] = "page cache" PROVE ~errArmed
  BY <1>2, <1>6 DEF Durability!Rejected, Durability!In
<1>7. \A i \in DOMAIN copies :
        copies'[i] = IF copies[i] = "page cache" \/ copies[i] = "drive cache" THEN "media" ELSE copies[i]
  BY <1>3, <1>5, <1>6
<1>8. ASSUME NEW i \in DOMAIN copies, i \notin told PROVE copies'[i] = "media"
  <2>1. copies[i] \in Durability!Place
    BY <1>1 DEF DurShape
  <2>2. copies[i] # "dropped" /\ copies[i] # "lost"
    BY <1>1, <1>2, <1>8 DEF Untold, Unlost
  <2> QED BY <1>7, <2>1, <2>2 DEF Durability!Place
<1>9. DurShape'
  BY <1>1, <1>2, <1>3, <1>5 DEF DurShape
<1>10. DurFlags'
  BY <1>1, <1>2 DEF DurFlags
<1>11. Promised'
  <2> SUFFICES ASSUME NEW i \in promised' PROVE copies'[i] = "media"
    BY DEF Promised
  <2>1. i \in DOMAIN copies
    BY <1>1, <1>2 DEF DurShape
  <2>2. CASE i \in promised
    BY <1>1, <1>7, <2>1, <2>2 DEF Promised
  <2>3. CASE i \notin promised
    BY <1>2, <1>8, <2>1, <2>3
  <2> QED BY <2>2, <2>3
<1>12. Covered'
  BY <1>2 DEF Covered
<1>13. Untold' /\ Unlost'
  BY <1>1, <1>2, <1>3, <1>5, <1>7 DEF Untold, Unlost
<1> QED BY <1>9, <1>10, <1>11, <1>12, <1>13 DEF DurInv

LEMMA DurPower == ASSUME DurInv, NEW plp \in BOOLEAN, Durability!Power(plp) PROVE DurInv'
<1>1. DurShape /\ DurFlags /\ Promised /\ Covered /\ Untold
  BY DEF DurInv
<1> DEFINE c(i) == CASE copies[i] = "page cache"  -> "lost"
                     [] copies[i] = "drive cache" -> IF plp THEN "media" ELSE "lost"
                     [] OTHER                   -> copies[i]
<1>2. /\ copies' = [i \in DOMAIN copies |-> c(i)] /\ frozen' = TRUE
      /\ UNCHANGED <<sizeDirty, errArmed, errPending, told, promised>>
  BY DEF Durability!Power
<1>3. ASSUME NEW i \in DOMAIN copies
      PROVE  /\ c(i) \in Durability!Place
             /\ copies[i] = "media" => c(i) = "media"
             /\ c(i) = "dropped" => copies[i] = "dropped"
  <2>1. copies[i] \in Durability!Place
    BY <1>1 DEF DurShape
  <2>2. CASE copies[i] = "page cache"
    <3>1. c(i) = "lost"
      BY <2>2
    <3> HIDE DEF c
    <3> QED BY <2>2, <3>1, PlacesNamed
  <2>3. CASE copies[i] = "drive cache"
    <3>1. c(i) = "lost" \/ c(i) = "media"
      BY <2>3
    <3> HIDE DEF c
    <3> QED BY <2>3, <3>1, PlacesNamed
  <2>4. CASE copies[i] # "page cache" /\ copies[i] # "drive cache"
    <3>1. c(i) = copies[i]
      BY <2>4
    <3> HIDE DEF c
    <3> QED BY <2>1, <3>1
  <2> QED BY <2>2, <2>3, <2>4
<1> HIDE DEF c
<1>4. copies' \in Seq(Durability!Place) /\ Len(copies') = Len(copies) /\ DOMAIN copies' = DOMAIN copies
  <2>1. DOMAIN copies = 1 .. Len(copies) /\ Len(copies) \in Nat
    BY <1>1 DEF DurShape
  <2>2. copies' = [i \in 1 .. Len(copies) |-> c(i)]
    BY <1>2, <2>1
  <2>3. \A i \in 1 .. Len(copies) : c(i) \in Durability!Place
    BY <1>3, <2>1
  <2> QED BY <2>1, <2>2, <2>3
<1>5. \A i \in DOMAIN copies : copies'[i] = c(i)
  BY <1>2
<1>6. DurShape'
  BY <1>1, <1>2, <1>4 DEF DurShape
<1>7. DurFlags'
  BY <1>1, <1>2 DEF DurFlags
<1>8. Promised' /\ Covered'
  BY <1>1, <1>2, <1>3, <1>4, <1>5 DEF Promised, Covered, DurShape
<1>9. Untold' /\ Unlost'
  BY <1>1, <1>2, <1>3, <1>4, <1>5 DEF Untold, Unlost
<1> QED BY <1>6, <1>7, <1>8, <1>9 DEF DurInv

LEMMA DurEmpty ==
  ASSUME NEW c, c = <<>>, MaxWritten \in Nat
  PROVE  c \in Seq(Durability!Place) /\ Len(c) <= MaxWritten /\ DOMAIN c = {}
<1>2. c \in Seq(Durability!Place) /\ Len(c) = 0 /\ DOMAIN c = {}
  OBVIOUS
<1> QED BY <1>2

LEMMA DurReboot == ASSUME MaxWritten \in Nat, Durability!Reboot PROVE DurInv'
<1>1. /\ copies' = <<>> /\ sizeDirty' = FALSE /\ errArmed' = FALSE /\ errPending' = FALSE
      /\ frozen' = FALSE /\ told' = {} /\ promised' = {}
  BY DEF Durability!Reboot
<1>2. copies' \in Seq(Durability!Place) /\ Len(copies') <= MaxWritten /\ DOMAIN copies' = {}
  BY <1>1, DurEmpty
<1>3. DurShape' /\ DurFlags'
  BY <1>1, <1>2 DEF DurShape, DurFlags
<1>4. Promised' /\ Covered' /\ Untold' /\ Unlost'
  BY <1>1, <1>2 DEF Promised, Covered, Untold, Unlost
<1> QED BY <1>3, <1>4 DEF DurInv

LEMMA DurStarts ==
  ASSUME Durability!DurabilityAssumption, Durability!DurabilityInit PROVE DurInv
<1>0. MaxWritten \in Nat
  BY DEF Durability!DurabilityAssumption
<1>1. /\ copies = <<>> /\ sizeDirty = FALSE /\ errArmed = FALSE /\ errPending = FALSE
      /\ frozen = FALSE /\ told = {} /\ promised = {}
  BY DEF Durability!DurabilityInit
<1>2. copies \in Seq(Durability!Place) /\ Len(copies) <= MaxWritten /\ DOMAIN copies = {}
  BY <1>0, <1>1, DurEmpty
<1>3. DurShape /\ DurFlags
  BY <1>0, <1>1, <1>2 DEF DurShape, DurFlags
<1>4. Promised /\ Covered /\ Untold /\ Unlost
  BY <1>1, <1>2 DEF Promised, Covered, Untold, Unlost
<1> QED BY <1>3, <1>4 DEF DurInv

LEMMA DurStepHolds == DurInv /\ [Durability!DurabilityStep]_(Durability!durabilityVars) => DurInv'
<1> SUFFICES ASSUME DurInv, [Durability!DurabilityStep]_(Durability!durabilityVars) PROVE DurInv'
  OBVIOUS
<1>1. CASE UNCHANGED Durability!durabilityVars
  BY <1>1 DEF Durability!durabilityVars, DurInv, DurShape, DurFlags, Promised, Covered, Untold, Unlost
<1>2. CASE Durability!Inject
  <2>1. /\ errArmed' = TRUE
        /\ UNCHANGED <<copies, sizeDirty, errPending, frozen, told, promised>>
    BY <1>2 DEF Durability!Inject
  <2> QED BY <2>1 DEF DurInv, DurShape, DurFlags, Promised, Covered, Untold, Unlost
<1>3. MaxWritten \in Nat
  BY DEF DurInv, DurShape
<1> QED
  BY <1>1, <1>2, <1>3, DurWrite, DurFua, DurWriteback, DurFlush, DurSyncFails, DurSyncReturns, DurPower,
     DurReboot
  DEF Durability!DurabilityStep, Durability!Apply, Durability!Sync

DurabilitySpec == Durability!DurabilityInit /\ [][Durability!DurabilityStep]_(Durability!durabilityVars)

(* DurabilityStackLab: what a sync or a write with FUA has returned for is *)
(* on the media and stays there, through write errors, rejected syncs and  *)
(* power cuts; a record that is gone was reported first.                   *)
THEOREM SyncKeepsItsPromise ==
  ASSUME Durability!DurabilityAssumption
  PROVE  DurabilitySpec => [](Durability!DurabilityTypeOK /\ Durability!PromiseKept)
<1>1. Durability!DurabilityInit => DurInv
  BY DurStarts
<1>2. DurInv => Durability!DurabilityTypeOK /\ Durability!PromiseKept
  BY DEF DurInv, DurShape, DurFlags, Promised, Covered, Durability!DurabilityTypeOK,
         Durability!PromiseKept
<1> QED BY <1>1, <1>2, DurStepHolds, PTL DEF DurabilitySpec

-------------------------------------------------------------------------------
(* CachePathOwnershipLab. *)

(* A set of natural numbers that is not empty has a least element. *)
LEMMA LeastIn ==
  ASSUME NEW T, T \subseteq Nat, T # {}
  PROVE  \E x \in T : \A y \in T : x <= y
<1> DEFINE R == {p \in Nat \X Nat : p[1] < p[2]}
<1>1. IsWellFoundedOn(R, Nat)
  BY NatLessThanWellFounded DEF OpToRel
<1>2. PICK x \in T : \A y \in T : ~(<<y, x>> \in R)
  BY <1>1, WFMin
<1>3. ASSUME NEW y \in T PROVE x <= y
  <2>1. x \in Nat /\ y \in Nat /\ ~(<<y, x>> \in R)
    BY <1>2
  <2>2. ~(y < x)
    BY <2>1
  <2> QED BY <2>1, <2>2
<1> QED BY <1>3

FrameT == [page : DataPage, dirty : BOOLEAN, lsn : 0 .. MaxLsn, t : Nat]

(* A list of frames: what it shows of a page. *)
Once(l)     == \A i, j \in DOMAIN l : l[i].page = l[j].page => i = j
Has(l, p)   == \E i \in DOMAIN l : l[i].page = p
Sees(l, p, n) == \E i \in DOMAIN l : l[i].page = p /\ l[i].lsn = n
Clean(l, p) == \E i \in DOMAIN l : l[i].page = p /\ ~l[i].dirty

LEMMA FrameLists ==
  ASSUME NEW l \in Seq(FrameT)
  PROVE  /\ Len(l) \in Nat /\ DOMAIN l = 1 .. Len(l)
         /\ \A i \in DOMAIN l :
              /\ l[i] \in FrameT /\ l[i].page \in DataPage /\ l[i].lsn \in 0 .. MaxLsn
              /\ l[i].dirty \in BOOLEAN /\ l[i].t \in Nat
<1>1. Len(l) \in Nat /\ DOMAIN l = 1 .. Len(l) /\ \A i \in DOMAIN l : l[i] \in FrameT
  OBVIOUS
<1> QED BY <1>1 DEF FrameT

LEMMA Appended ==
  ASSUME NEW l \in Seq(FrameT), NEW f \in FrameT, ~Has(l, f.page), Once(l)
  PROVE  LET a == Append(l, f) IN
         /\ a \in Seq(FrameT) /\ Len(a) = Len(l) + 1 /\ Once(a)
         /\ \A p : Has(a, p) <=> Has(l, p) \/ p = f.page
         /\ \A p, n : Sees(a, p, n) <=> Sees(l, p, n) \/ (p = f.page /\ n = f.lsn)
         /\ \A p : Clean(a, p) <=> Clean(l, p) \/ (p = f.page /\ ~f.dirty)
<1> DEFINE a == Append(l, f)
<1>1. /\ a \in Seq(FrameT) /\ Len(a) = Len(l) + 1 /\ Len(l) \in Nat
      /\ DOMAIN l = 1 .. Len(l) /\ DOMAIN a = 1 .. Len(l) + 1
      /\ \A i \in 1 .. Len(l) : a[i] = l[i]
      /\ a[Len(l) + 1] = f
  OBVIOUS
<1> HIDE DEF a
<1>2. DOMAIN a = DOMAIN l \cup {Len(l) + 1} /\ Len(l) + 1 \notin DOMAIN l
  BY <1>1
<1>3. \A i \in DOMAIN l : a[i] = l[i]
  BY <1>1
<1>4. Once(a)
  <2>1. \A i \in DOMAIN l : l[i].page # f.page
    BY DEF Has
  <2> QED BY <1>1, <1>2, <1>3, <2>1 DEF Once
<1>5. \A p : Has(a, p) <=> Has(l, p) \/ p = f.page
  BY <1>1, <1>2, <1>3 DEF Has
<1>6. \A p, n : Sees(a, p, n) <=> Sees(l, p, n) \/ (p = f.page /\ n = f.lsn)
  BY <1>1, <1>2, <1>3 DEF Sees
<1>7. \A p : Clean(a, p) <=> Clean(l, p) \/ (p = f.page /\ ~f.dirty)
  BY <1>1, <1>2, <1>3 DEF Clean
<1> QED BY <1>1, <1>4, <1>5, <1>6, <1>7 DEF a

LEMMA Joined ==
  ASSUME NEW x \in Seq(FrameT), NEW y \in Seq(FrameT)
  PROVE  /\ x \o y \in Seq(FrameT) /\ Len(x \o y) = Len(x) + Len(y)
         /\ \A j \in 1 .. Len(x) + Len(y) :
              (x \o y)[j] = IF j <= Len(x) THEN x[j] ELSE y[j - Len(x)]
<1>1. x \o y \in Seq(FrameT) /\ Len(x \o y) = Len(x) + Len(y)
  OBVIOUS
<1>2. ASSUME NEW j \in 1 .. Len(x) + Len(y)
      PROVE  (x \o y)[j] = IF j <= Len(x) THEN x[j] ELSE y[j - Len(x)]
  OBVIOUS
<1> QED BY <1>1, <1>2

LEMMA Removed ==
  ASSUME NEW l \in Seq(FrameT), NEW i \in DOMAIN l, Once(l)
  PROVE  LET a == Ownership!RemoveAt(l, i) IN
         /\ a \in Seq(FrameT) /\ Len(a) = Len(l) - 1 /\ Once(a)
         /\ \A p : Has(a, p) <=> Has(l, p) /\ p # l[i].page
         /\ \A p, n : Sees(a, p, n) <=> Sees(l, p, n) /\ p # l[i].page
         /\ \A p : Clean(a, p) <=> Clean(l, p) /\ p # l[i].page
<1> DEFINE a == Ownership!RemoveAt(l, i)
           old(j) == IF j < i THEN j ELSE j + 1
<1>1. Len(l) \in Nat /\ DOMAIN l = 1 .. Len(l) /\ i \in 1 .. Len(l)
  OBVIOUS
<1>2. /\ a \in Seq(FrameT) /\ Len(a) = Len(l) - 1 /\ DOMAIN a = 1 .. Len(l) - 1
      /\ \A j \in 1 .. Len(l) - 1 : a[j] = IF j < i THEN l[j] ELSE l[j + 1]
  <2> DEFINE x == SubSeq(l, 1, i - 1)
             y == SubSeq(l, i + 1, Len(l))
  <2>1. /\ x \in Seq(FrameT) /\ Len(x) = i - 1
        /\ \A j \in 1 .. i - 1 : x[j] = l[j]
    BY <1>1
  <2>2. /\ y \in Seq(FrameT) /\ Len(y) = Len(l) - i
        /\ \A j \in 1 .. Len(l) - i : y[j] = l[i + j]
    BY <1>1
  <2>3. a = x \o y
    BY DEF Ownership!RemoveAt
  <2> HIDE DEF x, y, a
  <2>4. /\ x \o y \in Seq(FrameT) /\ Len(x \o y) = Len(x) + Len(y)
        /\ \A j \in 1 .. Len(x) + Len(y) : (x \o y)[j] = IF j <= Len(x) THEN x[j] ELSE y[j - Len(x)]
    BY <2>1, <2>2, Joined
  <2>5. Len(a) = Len(l) - 1 /\ DOMAIN a = 1 .. Len(l) - 1 /\ a \in Seq(FrameT)
    <3>1. a \in Seq(FrameT) /\ Len(a) = Len(x) + Len(y)
      BY <2>3, <2>4
    <3>2. Len(x) + Len(y) = Len(l) - 1
      BY <1>1, <2>1, <2>2
    <3>3. DOMAIN a = 1 .. Len(a)
      BY <3>1
    <3> QED BY <3>1, <3>2, <3>3
  <2>6. ASSUME NEW j \in 1 .. Len(l) - 1 PROVE a[j] = IF j < i THEN l[j] ELSE l[j + 1]
    <3>1. CASE j < i
      <4>1. j \in 1 .. i - 1 /\ j <= Len(x) /\ j \in 1 .. Len(x) + Len(y)
        BY <1>1, <2>1, <2>2, <3>1
      <4> QED BY <2>1, <2>3, <2>4, <3>1, <4>1
    <3>2. CASE ~(j < i)
      <4>1. j - Len(x) \in 1 .. Len(l) - i /\ ~(j <= Len(x)) /\ j \in 1 .. Len(x) + Len(y)
        BY <1>1, <2>1, <2>2, <3>2
      <4>2. i + (j - Len(x)) = j + 1
        BY <1>1, <2>1
      <4> QED BY <2>2, <2>3, <2>4, <3>2, <4>1, <4>2
    <3> QED BY <3>1, <3>2
  <2> QED BY <2>5, <2>6
<1> HIDE DEF a
<1>3. \A j \in DOMAIN a : old(j) \in DOMAIN l /\ old(j) # i /\ a[j] = l[old(j)]
  BY <1>1, <1>2
<1>4. \A j, k \in DOMAIN a : old(j) = old(k) => j = k
  BY <1>1, <1>2
<1>5. \A k \in DOMAIN l : k # i => \E j \in DOMAIN a : old(j) = k
  <2> SUFFICES ASSUME NEW k \in DOMAIN l, k # i PROVE \E j \in DOMAIN a : old(j) = k
    OBVIOUS
  <2>1. CASE k < i
    <3>1. k \in DOMAIN a /\ old(k) = k
      BY <1>1, <1>2, <2>1
    <3> QED BY <3>1
  <2>2. CASE ~(k < i)
    <3>1. k - 1 \in DOMAIN a /\ old(k - 1) = k
      BY <1>1, <1>2, <2>2
    <3> QED BY <3>1
  <2> QED BY <2>1, <2>2
<1> HIDE DEF old
<1>6. \A k \in DOMAIN l : l[k].page = l[i].page => k = i
  BY DEF Once
<1>7. Once(a)
  BY <1>3, <1>4 DEF Once
<1>8. \A p : Has(a, p) <=> Has(l, p) /\ p # l[i].page
  BY <1>3, <1>5, <1>6 DEF Has
<1>9. \A p, n : Sees(a, p, n) <=> Sees(l, p, n) /\ p # l[i].page
  BY <1>3, <1>5, <1>6 DEF Sees
<1>10. \A p : Clean(a, p) <=> Clean(l, p) /\ p # l[i].page
  BY <1>3, <1>5, <1>6 DEF Clean
<1> QED BY <1>2, <1>7, <1>8, <1>9, <1>10 DEF a

(* A frame of a page that has one takes its place. *)
LEMMA Replaced ==
  ASSUME NEW l \in Seq(FrameT), NEW f \in FrameT, Has(l, f.page), Once(l)
  PROVE  LET a == Ownership!Put(l, f) IN
         /\ a \in Seq(FrameT) /\ Len(a) = Len(l) /\ Once(a)
         /\ \A p : Has(a, p) <=> Has(l, p)
         /\ \A p, n : Sees(a, p, n) <=> IF p = f.page THEN n = f.lsn ELSE Sees(l, p, n)
         /\ \A p : Clean(a, p) <=> IF p = f.page THEN ~f.dirty ELSE Clean(l, p)
<1> DEFINE a == Ownership!Put(l, f)
<1>0. /\ Len(l) \in Nat /\ DOMAIN l = 1 .. Len(l)
      /\ \A i \in DOMAIN l : l[i] \in FrameT
  BY FrameLists
<1>1. PICK k \in DOMAIN l : l[k].page = f.page
  BY DEF Has
<1>2. Ownership!At(l, f.page) # {}
  BY <1>1 DEF Ownership!At
<1>3. a = [i \in DOMAIN l |-> IF i \in Ownership!At(l, f.page) THEN f ELSE l[i]]
  BY <1>2 DEF Ownership!Put
<1>4. \A i \in DOMAIN l : i \in Ownership!At(l, f.page) <=> i = k
  BY <1>1 DEF Ownership!At, Once
<1>5. a = [i \in 1 .. Len(l) |-> IF i = k THEN f ELSE l[i]]
  BY <1>0, <1>3, <1>4
<1> HIDE DEF a
<1>6. \A i \in 1 .. Len(l) : (IF i = k THEN f ELSE l[i]) \in FrameT
  BY <1>0
<1>7. a \in Seq(FrameT) /\ Len(a) = Len(l) /\ DOMAIN a = DOMAIN l
  BY <1>0, <1>5, <1>6
<1>8. a[k] = f /\ \A i \in DOMAIN l : i # k => a[i] = l[i]
  BY <1>0, <1>1, <1>5
<1>9. \A i \in DOMAIN l : a[i].page = l[i].page
  BY <1>1, <1>8
<1>10. \A i \in DOMAIN l : l[i].page = f.page => i = k
  BY <1>1 DEF Once
<1>11. Once(a)
  BY <1>7, <1>9 DEF Once
<1>12. \A p : Has(a, p) <=> Has(l, p)
  BY <1>7, <1>9 DEF Has
<1>13. \A p, n : Sees(a, p, n) <=> IF p = f.page THEN n = f.lsn ELSE Sees(l, p, n)
  BY <1>1, <1>7, <1>8, <1>9, <1>10 DEF Sees
<1>14. \A p : Clean(a, p) <=> IF p = f.page THEN ~f.dirty ELSE Clean(l, p)
  BY <1>1, <1>7, <1>8, <1>9, <1>10 DEF Clean
<1> QED BY <1>7, <1>11, <1>12, <1>13, <1>14 DEF a

(* Lists that differ in the ages only. *)
Alike(a, l) ==
  /\ a \in Seq(FrameT) /\ Len(a) = Len(l) /\ DOMAIN a = DOMAIN l
  /\ \A i \in DOMAIN l : /\ a[i].page = l[i].page /\ a[i].lsn = l[i].lsn
                         /\ a[i].dirty <=> l[i].dirty

LEMMA AlikeShows ==
  ASSUME NEW l, NEW a, Alike(a, l), Once(l)
  PROVE  /\ Once(a)
         /\ \A p : Has(a, p) <=> Has(l, p)
         /\ \A p, n : Sees(a, p, n) <=> Sees(l, p, n)
         /\ \A p : Clean(a, p) <=> Clean(l, p)
<1>1. Once(a)
  BY DEF Alike, Once
<1>2. \A p : Has(a, p) <=> Has(l, p)
  BY DEF Alike, Has
<1>3. \A p, n : Sees(a, p, n) <=> Sees(l, p, n)
  BY DEF Alike, Sees
<1>4. \A p : Clean(a, p) <=> Clean(l, p)
  BY DEF Alike, Clean
<1> QED BY <1>1, <1>2, <1>3, <1>4

LEMMA TouchedIsAlike ==
  ASSUME NEW l \in Seq(FrameT), NEW p, RAM \in Nat
  PROVE  Alike(Ownership!Touched(l, p), l)
<1> DEFINE g(i) == IF l[i].page = p THEN [l[i] EXCEPT !.t = Ownership!Now] ELSE l[i]
           a == Ownership!Touched(l, p)
<1>0. Len(l) \in Nat /\ DOMAIN l = 1 .. Len(l) /\ \A i \in DOMAIN l : l[i] \in FrameT
  BY FrameLists
<1>1. Ownership!Now \in Nat
  BY DEF Ownership!Now
<1>2. ASSUME NEW i \in DOMAIN l
      PROVE  g(i) \in FrameT /\ g(i).page = l[i].page /\ g(i).lsn = l[i].lsn /\ g(i).dirty = l[i].dirty
  <2>1. l[i] \in FrameT
    BY <1>0
  <2> QED BY <1>1, <2>1 DEF FrameT
<1>3. a = [i \in 1 .. Len(l) |-> g(i)]
  BY <1>0 DEF Ownership!Touched
<1> HIDE DEF g, a
<1>4. a \in Seq(FrameT) /\ Len(a) = Len(l) /\ DOMAIN a = DOMAIN l /\ \A i \in DOMAIN l : a[i] = g(i)
  BY <1>0, <1>2, <1>3
<1>5. Alike(a, l)
  BY <1>2, <1>4 DEF Alike
<1> QED BY <1>5 DEF a

(* The ages of a list are finitely many, and their ranks are numbers. *)
LEMMA Counted == ASSUME NEW S PROVE Ownership!Cardinality(S) = Cardinality(S)
BY DEF Ownership!Cardinality, Cardinality

LEMMA FewAges ==
  ASSUME NEW l \in Seq(FrameT), NEW S, S \subseteq {l[j].t : j \in DOMAIN l}
  PROVE  Ownership!Cardinality(S) \in Nat
<1> DEFINE T == {l[j].t : j \in DOMAIN l}
           f == [j \in DOMAIN l |-> l[j].t]
<1>1. IsFiniteSet(DOMAIN l)
  <2>1. Len(l) \in Nat /\ DOMAIN l = 1 .. Len(l)
    OBVIOUS
  <2>2. IsFiniteSet(1 .. Len(l))
    <3>1. 1 \in Int /\ Len(l) \in Int
      BY <2>1
    <3> HIDE DEF f, T
    <3> QED BY <3>1, FS_Interval
  <2> QED BY <2>1, <2>2
<1>2. f \in Surjection(DOMAIN l, T)
  <2>1. f \in [DOMAIN l -> T] /\ \A j \in DOMAIN l : f[j] = l[j].t
    OBVIOUS
  <2>2. \A t \in T : \E j \in DOMAIN l : f[j] = t
    OBVIOUS
  <2> QED BY <2>1, <2>2 DEF Surjection
<1>3. IsFiniteSet(T)
  BY <1>1, <1>2, FS_Surjection
<1>4. IsFiniteSet(S)
  BY <1>3, FS_Subset
<1> QED BY <1>4, FS_CardinalityType, Counted

LEMMA RankedIsAlike ==
  ASSUME NEW l \in Seq(FrameT) PROVE Alike(Ownership!Ranked(l), l)
<1> DEFINE younger(i) == {f.t : f \in {g \in Ownership!ToSet(l) : g.t < l[i].t}}
           r(i) == Ownership!Cardinality(younger(i))
           g(i) == [l[i] EXCEPT !.t = r(i)]
           a == Ownership!Ranked(l)
<1>0. Len(l) \in Nat /\ DOMAIN l = 1 .. Len(l) /\ \A i \in DOMAIN l : l[i] \in FrameT
  BY FrameLists
<1>1. ASSUME NEW i \in DOMAIN l PROVE r(i) \in Nat
  <2>1. younger(i) \subseteq {l[j].t : j \in DOMAIN l}
    BY DEF Ownership!ToSet
  <2> HIDE DEF younger
  <2> QED BY <2>1, FewAges
<1>2. a = [i \in DOMAIN l |-> g(i)]
  BY DEF Ownership!Ranked
<1> HIDE DEF r
<1>3. ASSUME NEW i \in DOMAIN l
      PROVE  g(i) \in FrameT /\ g(i).page = l[i].page /\ g(i).lsn = l[i].lsn /\ g(i).dirty = l[i].dirty
  <2>1. l[i] \in FrameT
    BY <1>0
  <2> QED BY <1>1, <2>1 DEF FrameT
<1> HIDE DEF g, a
<1>4. a \in Seq(FrameT) /\ Len(a) = Len(l) /\ DOMAIN a = DOMAIN l /\ \A i \in DOMAIN l : a[i] = g(i)
  <2>1. a = [i \in 1 .. Len(l) |-> g(i)] /\ \A i \in 1 .. Len(l) : g(i) \in FrameT
    BY <1>0, <1>2, <1>3
  <2> QED BY <1>0, <2>1
<1>5. Alike(a, l)
  BY <1>3, <1>4 DEF Alike
<1> QED BY <1>5 DEF a

(* Two frames of a list that has one for a page show the same of it. *)
LEMMA SeesOne ==
  ASSUME NEW l, Once(l), NEW p, NEW n, NEW m, Sees(l, p, n), Sees(l, p, m)
  PROVE  n = m
BY DEF Once, Sees

LEMMA SeesHas ==
  ASSUME NEW l \in Seq(FrameT), NEW p
  PROVE  /\ Has(l, p) => p \in DataPage /\ \E n \in 0 .. MaxLsn : Sees(l, p, n)
         /\ \A n : Sees(l, p, n) => Has(l, p) /\ n \in 0 .. MaxLsn
         /\ Clean(l, p) => Has(l, p)
<1>1. \A i \in DOMAIN l : l[i].page \in DataPage /\ l[i].lsn \in 0 .. MaxLsn
  BY FrameLists
<1> QED BY <1>1 DEF Has, Sees, Clean

LEMMA ChosenSees ==
  ASSUME NEW l, Once(l), NEW p, Has(l, p)
  PROVE  /\ Ownership!At(l, p) # {}
         /\ Sees(l, p, l[CHOOSE i \in Ownership!At(l, p) : TRUE].lsn)
<1> DEFINE k == CHOOSE i \in Ownership!At(l, p) : TRUE
<1>1. Ownership!At(l, p) # {}
  BY DEF Has, Ownership!At
<1>2. k \in Ownership!At(l, p)
  BY <1>1
<1> HIDE DEF k
<1>3. Sees(l, p, l[k].lsn)
  BY <1>2 DEF Ownership!At, Sees
<1> QED BY <1>1, <1>3 DEF k

LEMMA AtIsHas == ASSUME NEW l, NEW p PROVE Ownership!At(l, p) # {} <=> Has(l, p)
BY DEF Ownership!At, Has

(* The least recently used frame is a frame of the list. *)
LEMMA LruInList ==
  ASSUME NEW l \in Seq(FrameT), Len(l) # 0
  PROVE  Ownership!lru(l) \in DOMAIN l
<1>0. Len(l) \in Nat /\ DOMAIN l = 1 .. Len(l) /\ \A i \in DOMAIN l : l[i].t \in Nat
  BY FrameLists
<1> DEFINE T == {l[i].t : i \in DOMAIN l}
<1>1. T \subseteq Nat /\ T # {}
  <2>1. 1 \in DOMAIN l
    BY <1>0
  <2> QED BY <1>0, <2>1
<1>2. PICK m \in T : \A y \in T : m <= y
  <2> HIDE DEF T
  <2> QED BY <1>1, LeastIn
<1> DEFINE I == {i \in DOMAIN l : l[i].t = m}
<1>3. I \subseteq Nat /\ I # {}
  BY <1>0, <1>2
<1>4. PICK k \in I : \A j \in I : k <= j
  <2> HIDE DEF I
  <2> QED BY <1>3, LeastIn
<1>5. k \in DOMAIN l /\ l[k].t = m /\ m \in Nat
  BY <1>1, <1>2, <1>4
<1>6. ASSUME NEW j \in DOMAIN l
      PROVE  l[k].t < l[j].t \/ (l[k].t = l[j].t /\ k <= j)
  <2>1. m <= l[j].t /\ l[j].t \in Nat
    BY <1>0, <1>2
  <2>2. CASE l[j].t = m
    BY <1>4, <1>5, <2>2
  <2>3. CASE l[j].t # m
    <3>1. m < l[j].t
      BY <1>5, <2>1, <2>3
    <3> QED BY <1>5, <3>1
  <2> QED BY <2>2, <2>3
<1>7. \E i \in DOMAIN l : \A j \in DOMAIN l :
        l[i].t < l[j].t \/ (l[i].t = l[j].t /\ i <= j)
  BY <1>5, <1>6
<1> QED BY <1>7 DEF Ownership!lru

(* A page that had no frame gets one, a page that had one keeps one. *)
LEMMA PutShows ==
  ASSUME NEW l \in Seq(FrameT), NEW f \in FrameT, Once(l)
  PROVE  LET a == Ownership!Put(l, f) IN
         /\ a \in Seq(FrameT) /\ Len(a) = IF Has(l, f.page) THEN Len(l) ELSE Len(l) + 1
         /\ Once(a)
         /\ \A p : Has(a, p) <=> Has(l, p) \/ p = f.page
         /\ \A p, n : Sees(a, p, n) <=> IF p = f.page THEN n = f.lsn ELSE Sees(l, p, n)
         /\ \A p : Clean(a, p) <=> IF p = f.page THEN ~f.dirty ELSE Clean(l, p)
<1>1. CASE Has(l, f.page)
  BY <1>1, Replaced
<1>2. CASE ~Has(l, f.page)
  <2>1. Ownership!Put(l, f) = Append(l, f)
    BY <1>2, AtIsHas DEF Ownership!Put
  <2>2. ~Clean(l, f.page) /\ \A n : ~Sees(l, f.page, n)
    BY <1>2, SeesHas
  <2> QED BY <1>2, <2>1, <2>2, Appended
<1> QED BY <1>1, <1>2

(* A frame that the code makes. *)
LEMMA FrameMade ==
  ASSUME RAM \in Nat, NEW p \in DataPage, NEW d \in BOOLEAN, NEW n \in 0 .. MaxLsn
  PROVE  LET f == Ownership!Frame(p, d, n, Ownership!Now) IN
         f \in FrameT /\ f.page = p /\ (f.dirty <=> d) /\ f.lsn = n
BY DEF Ownership!Frame, Ownership!Now, FrameT

LEMMA ChangeMade ==
  ASSUME RAM \in Nat, NEW p \in DataPage, NEW n \in 0 .. MaxLsn
  PROVE  LET f == Ownership!Frame(p, TRUE, n, Ownership!Now) IN
         f \in FrameT /\ f.page = p /\ f.dirty /\ f.lsn = n
BY DEF Ownership!Frame, Ownership!Now, FrameT

-------------------------------------------------------------------------------
(* A host, and what it is to change one part of it. *)
HostT == [mode : {"pool", "direct", "mmap"}, slots : PoolSlots, pool : Seq(FrameT),
          cache : Seq(FrameT), disk : [DataPage -> 0 .. MaxLsn], walLsn : 0 .. MaxLsn,
          durableLsn : 0 .. MaxLsn, crashed : BOOLEAN, lost : SUBSET DataPage]

LEMMA HostParts ==
  ASSUME NEW h \in HostT
  PROVE  /\ h.mode \in {"pool", "direct", "mmap"} /\ h.slots \in PoolSlots
         /\ h.pool \in Seq(FrameT) /\ h.cache \in Seq(FrameT)
         /\ h.disk \in [DataPage -> 0 .. MaxLsn]
         /\ h.walLsn \in 0 .. MaxLsn /\ h.durableLsn \in 0 .. MaxLsn
         /\ h.crashed \in BOOLEAN /\ h.lost \in SUBSET DataPage
BY DEF HostT

LEMMA NewPool ==
  ASSUME NEW h \in HostT, NEW x \in Seq(FrameT)
  PROVE  LET r == [h EXCEPT !.pool = x] IN
         /\ r \in HostT /\ r.mode = h.mode /\ r.slots = h.slots /\ r.pool = x
         /\ r.cache = h.cache /\ r.disk = h.disk /\ r.walLsn = h.walLsn
         /\ r.durableLsn = h.durableLsn /\ r.crashed = h.crashed /\ r.lost = h.lost
BY DEF HostT

LEMMA NewCache ==
  ASSUME NEW h \in HostT, NEW x \in Seq(FrameT)
  PROVE  LET r == [h EXCEPT !.cache = x] IN
         /\ r \in HostT /\ r.mode = h.mode /\ r.slots = h.slots /\ r.pool = h.pool
         /\ r.cache = x /\ r.disk = h.disk /\ r.walLsn = h.walLsn
         /\ r.durableLsn = h.durableLsn /\ r.crashed = h.crashed /\ r.lost = h.lost
BY DEF HostT

LEMMA NewDisk ==
  ASSUME NEW h \in HostT, NEW p \in DataPage, NEW n \in 0 .. MaxLsn
  PROVE  LET r == [h EXCEPT !.disk[p] = n] IN
         /\ r \in HostT /\ r.mode = h.mode /\ r.slots = h.slots /\ r.pool = h.pool
         /\ r.cache = h.cache /\ r.walLsn = h.walLsn
         /\ r.durableLsn = h.durableLsn /\ r.crashed = h.crashed /\ r.lost = h.lost
         /\ \A q \in DataPage : r.disk[q] = IF q = p THEN n ELSE h.disk[q]
BY DEF HostT

LEMMA NewDurable ==
  ASSUME NEW h \in HostT, NEW n \in 0 .. MaxLsn
  PROVE  LET r == [h EXCEPT !.durableLsn = n] IN
         /\ r \in HostT /\ r.mode = h.mode /\ r.slots = h.slots /\ r.pool = h.pool
         /\ r.cache = h.cache /\ r.disk = h.disk /\ r.walLsn = h.walLsn
         /\ r.durableLsn = n /\ r.crashed = h.crashed /\ r.lost = h.lost
BY DEF HostT

-------------------------------------------------------------------------------
(* What the kernel has of a page: its frame in the page cache, or the disk. *)
Below(h, p, n) == IF Has(h.cache, p) THEN Sees(h.cache, p, n) ELSE h.disk[p] = n

Sizes == RAM \in Nat /\ MaxLsn \in Nat /\ PoolSlots \subseteq 1 .. RAM - 1

Shape(h) ==
  /\ h \in HostT /\ Once(h.pool) /\ Once(h.cache)
  /\ Len(h.pool) <= h.slots /\ Len(h.cache) <= Ownership!cacheCap(h)
  /\ h.mode = "mmap" => h.pool = <<>>
  /\ h.mode = "direct" => h.cache = <<>>

(* Nothing is ahead of the log, and what the kernel has of a page is not   *)
(* ahead of the durable log, unless the file is mapped.                    *)
Logged(h) ==
  /\ h.durableLsn <= h.walLsn
  /\ \A p, n : Sees(h.pool, p, n) => n <= h.walLsn
  /\ \A p, n : Sees(h.cache, p, n) => n <= h.walLsn /\ (h.mode # "mmap" => n <= h.durableLsn)
  /\ \A p \in DataPage :
       h.disk[p] <= h.walLsn /\ (h.mode # "mmap" => h.disk[p] <= h.durableLsn)
  /\ h.mode # "mmap" => h.lost = {}

(* A clean frame is what lies below it, and a page that has no frame in    *)
(* the pool, or a clean one, has its last change below.                    *)
Coherent(h, lt) ==
  /\ \A p, n : Clean(h.cache, p) /\ Sees(h.cache, p, n) => h.disk[p] = n
  /\ \A p, n : Sees(h.pool, p, n) => n = lt[p]
  /\ \A p \in DataPage : Clean(h.pool, p) \/ ~Has(h.pool, p) => Below(h, p, lt[p])
  /\ \A p, n : Sees(h.cache, p, n) => n <= lt[p]

Good(h, lt) == Shape(h) /\ Logged(h) /\ Coherent(h, lt)

(* What the steps of an access leave alone. *)
Kept(r, h) ==
  /\ r.mode = h.mode /\ r.slots = h.slots /\ r.walLsn = h.walLsn /\ r.crashed = h.crashed
  /\ r.lost = h.lost

LEMMA Caps ==
  ASSUME Sizes, NEW h \in HostT
  PROVE  /\ h.slots \in Nat /\ h.slots > 0 /\ Ownership!cacheCap(h) \in Nat
         /\ Ownership!cacheCap(h) > 0
         /\ h.mode # "mmap" => h.slots + Ownership!cacheCap(h) = RAM
         /\ h.mode = "mmap" => Ownership!cacheCap(h) = RAM
<1>1. h.slots \in 1 .. RAM - 1 /\ RAM \in Nat
  BY HostParts DEF Sizes
<1>2. CASE h.mode = "mmap"
  BY <1>1, <1>2 DEF Ownership!cacheCap
<1>3. CASE h.mode # "mmap"
  BY <1>1, <1>3 DEF Ownership!cacheCap
<1> QED BY <1>2, <1>3

LEMMA RoomInCache ==
  ASSUME Sizes, NEW h, NEW lt, Good(h, lt)
  PROVE  LET r == Ownership!CacheRoom(h) IN
         /\ Good(r, lt) /\ Kept(r, h) /\ r.pool = h.pool /\ r.durableLsn = h.durableLsn
         /\ Len(r.cache) < Ownership!cacheCap(r)
         /\ \A p : Has(r.cache, p) => Has(h.cache, p)
<1> DEFINE r == Ownership!CacheRoom(h)
<1>0. Shape(h) /\ Logged(h) /\ Coherent(h, lt) /\ h \in HostT
  BY DEF Good, Shape
<1>1. CASE Len(h.cache) < Ownership!cacheCap(h)
  <2>1. r = h
    BY <1>1 DEF Ownership!CacheRoom
  <2> QED BY <1>1, <2>1 DEF Kept
<1>2. CASE ~(Len(h.cache) < Ownership!cacheCap(h))
  <2> DEFINE i == Ownership!lru(h.cache)
             e == h.cache[i]
             w == IF e.dirty THEN Ownership!KernelWrite(h, e) ELSE h
  <2>1. Len(h.cache) \in Nat /\ Len(h.cache) # 0 /\ h.cache \in Seq(FrameT)
    BY <1>0, <1>2, Caps, HostParts
  <2>2. i \in DOMAIN h.cache
    BY <2>1, LruInList
  <2>3. e \in FrameT /\ e.page \in DataPage /\ e.lsn \in 0 .. MaxLsn
    BY <2>1, <2>2, FrameLists
  <2>4. Sees(h.cache, e.page, e.lsn) /\ Has(h.cache, e.page)
    BY <2>2 DEF Sees, Has
  <2>5. ~e.dirty => h.disk[e.page] = e.lsn
    <3>1. ~e.dirty => Clean(h.cache, e.page)
      BY <2>2 DEF Clean
    <3> HIDE DEF e
    <3> QED BY <1>0, <2>4, <3>1 DEF Coherent
  <2>6. r = [w EXCEPT !.cache = Ownership!RemoveAt(w.cache, i)]
    BY <1>2 DEF Ownership!CacheRoom
  <2>7. /\ w \in HostT /\ Kept(w, h) /\ w.pool = h.pool /\ w.durableLsn = h.durableLsn
        /\ w.cache = h.cache
        /\ \A q \in DataPage : w.disk[q] = IF q = e.page THEN e.lsn ELSE h.disk[q]
    <3>1. CASE e.dirty
      <4>1. w = [h EXCEPT !.disk[e.page] = e.lsn]
        BY <3>1 DEF Ownership!KernelWrite
      <4> HIDE DEF w, e
      <4> QED BY <1>0, <2>3, <4>1, NewDisk DEF Kept
    <3>2. CASE ~e.dirty
      <4>1. w = h
        BY <3>2
      <4> HIDE DEF w, e
      <4> QED BY <1>0, <2>5, <3>2, <4>1 DEF Kept
    <3> QED BY <3>1, <3>2
  <2> DEFINE x == Ownership!RemoveAt(h.cache, i)
  <2>8. /\ x \in Seq(FrameT) /\ Len(x) = Len(h.cache) - 1 /\ Once(x)
        /\ \A p : Has(x, p) <=> Has(h.cache, p) /\ p # e.page
        /\ \A p, n : Sees(x, p, n) <=> Sees(h.cache, p, n) /\ p # e.page
        /\ \A p : Clean(x, p) <=> Clean(h.cache, p) /\ p # e.page
    BY <1>0, <2>1, <2>2, Removed DEF Shape
  <2>9. r = [w EXCEPT !.cache = x]
    BY <2>6, <2>7
  <2> HIDE DEF w, e, x, i, r
  <2>10. /\ r \in HostT /\ r.mode = h.mode /\ r.slots = h.slots /\ r.walLsn = h.walLsn
         /\ r.crashed = h.crashed /\ r.lost = h.lost /\ r.pool = h.pool
         /\ r.durableLsn = h.durableLsn /\ r.cache = x
         /\ \A q \in DataPage : r.disk[q] = IF q = e.page THEN e.lsn ELSE h.disk[q]
    BY <2>7, <2>8, <2>9, NewCache DEF Kept
  <2>11. Ownership!cacheCap(r) = Ownership!cacheCap(h)
    BY <2>10 DEF Ownership!cacheCap
  <2>12. Len(r.cache) < Ownership!cacheCap(r)
    <3>1. Len(h.cache) <= Ownership!cacheCap(h) /\ Ownership!cacheCap(h) \in Nat
      BY <1>0, Caps DEF Shape
    <3>2. Len(r.cache) = Len(h.cache) - 1
      BY <2>8, <2>10
    <3> QED BY <2>1, <2>11, <3>1, <3>2
  <2>13. Shape(r)
    <3>1. h.mode # "direct"
      <4>1. h.mode = "direct" => Len(h.cache) = 0
        BY <1>0 DEF Shape
      <4> QED BY <2>1, <4>1
    <3>2. Len(r.cache) <= Ownership!cacheCap(r)
      <4>1. Len(r.cache) \in Nat /\ Ownership!cacheCap(r) \in Nat
        BY <2>8, <2>10, Caps
      <4> QED BY <2>12, <4>1
    <3>3. Once(r.cache) /\ Once(r.pool) /\ Len(r.pool) <= r.slots
      BY <1>0, <2>8, <2>10 DEF Shape
    <3> QED BY <1>0, <2>10, <3>1, <3>2, <3>3 DEF Shape
  <2>14. Logged(r)
    BY <1>0, <2>3, <2>4, <2>8, <2>10 DEF Logged
  <2>15. Coherent(r, lt)
    <3>1. \A p, n : Clean(r.cache, p) /\ Sees(r.cache, p, n) => r.disk[p] = n
      <4> SUFFICES ASSUME NEW p, NEW n, Clean(x, p), Sees(x, p, n) PROVE r.disk[p] = n
        BY <2>10
      <4>1. Clean(h.cache, p) /\ Sees(h.cache, p, n) /\ p # e.page /\ Has(h.cache, p)
        BY <2>8, SeesHas, <2>1
      <4>2. p \in DataPage
        BY <4>1, <2>1, SeesHas
      <4> QED BY <1>0, <2>10, <4>1, <4>2 DEF Coherent
    <3>2. ASSUME NEW p \in DataPage, Clean(r.pool, p) \/ ~Has(r.pool, p) PROVE Below(r, p, lt[p])
      <4>1. Below(h, p, lt[p])
        BY <1>0, <2>10, <3>2 DEF Coherent
      <4>2. CASE p = e.page
        <5>1. lt[p] = e.lsn
          BY <1>0, <2>4, <4>1, <4>2, SeesOne DEF Below, Shape
        <5> QED BY <2>8, <2>10, <4>2, <5>1 DEF Below
      <4>3. CASE p # e.page
        BY <2>8, <2>10, <4>1, <4>3 DEF Below
      <4> QED BY <4>2, <4>3
    <3> QED BY <1>0, <2>8, <2>10, <3>1, <3>2 DEF Coherent
  <2>16. Good(r, lt) /\ Kept(r, h)
    BY <2>10, <2>13, <2>14, <2>15 DEF Good, Kept
  <2> QED BY <2>8, <2>10, <2>12, <2>16 DEF r
<1> QED BY <1>1, <1>2

(* A frame comes into the page cache: a copy of the disk, or a change that *)
(* is in the durable log.                                                  *)
LEMMA IntoCache ==
  ASSUME Sizes, NEW h, NEW lt, Good(h, lt), h.mode # "direct", NEW f \in FrameT,
         Has(h.cache, f.page) \/ Len(h.cache) < Ownership!cacheCap(h),
         f.lsn <= h.walLsn, h.mode # "mmap" => f.lsn <= h.durableLsn,
         f.lsn = lt[f.page], ~f.dirty => h.disk[f.page] = f.lsn
  PROVE  LET r == [h EXCEPT !.cache = Ownership!Put(h.cache, f)] IN
         /\ Good(r, lt) /\ Kept(r, h) /\ r.pool = h.pool /\ r.durableLsn = h.durableLsn
         /\ Sees(r.cache, f.page, f.lsn) /\ Has(r.cache, f.page)
<1> DEFINE x == Ownership!Put(h.cache, f)
           r == [h EXCEPT !.cache = x]
<1>0. Shape(h) /\ Logged(h) /\ Coherent(h, lt) /\ h \in HostT /\ h.cache \in Seq(FrameT)
  BY HostParts DEF Good, Shape
<1>1. /\ x \in Seq(FrameT) /\ Once(x)
      /\ Len(x) = IF Has(h.cache, f.page) THEN Len(h.cache) ELSE Len(h.cache) + 1
      /\ \A p : Has(x, p) <=> Has(h.cache, p) \/ p = f.page
      /\ \A p, n : Sees(x, p, n) <=> IF p = f.page THEN n = f.lsn ELSE Sees(h.cache, p, n)
      /\ \A p : Clean(x, p) <=> IF p = f.page THEN ~f.dirty ELSE Clean(h.cache, p)
  BY <1>0, PutShows DEF Shape
<1> HIDE DEF x, r
<1>2. /\ r \in HostT /\ r.mode = h.mode /\ r.slots = h.slots /\ r.pool = h.pool
      /\ r.cache = x /\ r.disk = h.disk /\ r.walLsn = h.walLsn
      /\ r.durableLsn = h.durableLsn /\ r.crashed = h.crashed /\ r.lost = h.lost
  BY <1>0, <1>1, NewCache DEF r
<1>3. Ownership!cacheCap(r) = Ownership!cacheCap(h)
  BY <1>2 DEF Ownership!cacheCap
<1>4. Shape(r)
  <2>1. Len(h.cache) \in Nat /\ Ownership!cacheCap(h) \in Nat /\ Len(h.cache) <= Ownership!cacheCap(h)
    BY <1>0, Caps DEF Shape
  <2>2. Len(x) <= Ownership!cacheCap(h)
    BY <1>1, <2>1
  <2> QED BY <1>0, <1>1, <1>2, <1>3, <2>2 DEF Shape
<1>5. Logged(r)
  BY <1>0, <1>1, <1>2 DEF Logged
<1>6. f.lsn \in 0 .. MaxLsn /\ MaxLsn \in Nat
  BY DEF FrameT, Sizes
<1>7. Coherent(r, lt)
  <2>1. ASSUME NEW p, NEW n, Clean(x, p), Sees(x, p, n) PROVE r.disk[p] = n
    <3>1. CASE p = f.page
      BY <1>1, <1>2, <2>1, <3>1
    <3>2. CASE p # f.page
      BY <1>0, <1>1, <1>2, <2>1, <3>2 DEF Coherent
    <3> QED BY <3>1, <3>2
  <2>2. ASSUME NEW p \in DataPage, Clean(r.pool, p) \/ ~Has(r.pool, p) PROVE Below(r, p, lt[p])
    <3>1. Below(h, p, lt[p])
      BY <1>0, <1>2, <2>2 DEF Coherent
    <3> QED BY <1>1, <1>2, <3>1 DEF Below
  <2>3. \A p, n : Sees(x, p, n) => n <= lt[p]
    BY <1>0, <1>1, <1>6 DEF Coherent
  <2> QED BY <1>0, <1>2, <2>1, <2>2, <2>3 DEF Coherent
<1>8. Sees(x, f.page, f.lsn) /\ Has(x, f.page)
  BY <1>1
<1> QED BY <1>2, <1>4, <1>5, <1>7, <1>8 DEF Good, Kept, r, x

(* A list whose pages are used again, or aged, shows what it showed. *)
LEMMA PoolAlike ==
  ASSUME Sizes, NEW h, NEW lt, Good(h, lt), NEW x, Alike(x, h.pool)
  PROVE  LET r == [h EXCEPT !.pool = x] IN
         /\ Good(r, lt) /\ Kept(r, h) /\ r.pool = x /\ r.cache = h.cache
         /\ \A p : Has(x, p) <=> Has(h.pool, p)
<1> DEFINE r == [h EXCEPT !.pool = x]
<1>0. Shape(h) /\ Logged(h) /\ Coherent(h, lt) /\ h \in HostT
  BY DEF Good, Shape
<1>1. /\ Once(x) /\ Len(x) = Len(h.pool) /\ x \in Seq(FrameT)
      /\ \A q : Has(x, q) <=> Has(h.pool, q)
      /\ \A q, n : Sees(x, q, n) <=> Sees(h.pool, q, n)
      /\ \A q : Clean(x, q) <=> Clean(h.pool, q)
  <2>1. Once(h.pool)
    BY <1>0 DEF Shape
  <2>2. Len(x) = Len(h.pool) /\ x \in Seq(FrameT)
    BY DEF Alike
  <2> QED BY <2>1, <2>2, AlikeShows
<1> HIDE DEF r
<1>2. /\ r \in HostT /\ r.mode = h.mode /\ r.slots = h.slots /\ r.pool = x
      /\ r.cache = h.cache /\ r.disk = h.disk /\ r.walLsn = h.walLsn
      /\ r.durableLsn = h.durableLsn /\ r.crashed = h.crashed /\ r.lost = h.lost
  BY <1>0, <1>1, NewPool DEF r
<1>3. Ownership!cacheCap(r) = Ownership!cacheCap(h)
  BY <1>2 DEF Ownership!cacheCap
<1>4. h.mode = "mmap" => x = <<>>
  <2>1. h.pool = <<>> => Len(x) = 0
    BY <1>1
  <2>2. Len(x) = 0 => x = <<>>
    BY <1>1
  <2> QED BY <1>0, <2>1, <2>2 DEF Shape
<1>5. Shape(r)
  BY <1>0, <1>1, <1>2, <1>3, <1>4 DEF Shape
<1>6. Logged(r)
  BY <1>0, <1>1, <1>2 DEF Logged
<1>7. Coherent(r, lt)
  BY <1>0, <1>1, <1>2 DEF Coherent, Below
<1> QED BY <1>1, <1>2, <1>5, <1>6, <1>7 DEF Good, Kept, r

LEMMA CacheAlike ==
  ASSUME Sizes, NEW h, NEW lt, Good(h, lt), NEW x, Alike(x, h.cache)
  PROVE  LET r == [h EXCEPT !.cache = x] IN
         /\ Good(r, lt) /\ Kept(r, h) /\ r.pool = h.pool /\ r.cache = x
         /\ r.durableLsn = h.durableLsn
         /\ \A p : Has(x, p) <=> Has(h.cache, p)
<1> DEFINE r == [h EXCEPT !.cache = x]
<1>0. Shape(h) /\ Logged(h) /\ Coherent(h, lt) /\ h \in HostT
  BY DEF Good, Shape
<1>1. /\ Once(x) /\ Len(x) = Len(h.cache) /\ x \in Seq(FrameT)
      /\ \A q : Has(x, q) <=> Has(h.cache, q)
      /\ \A q, n : Sees(x, q, n) <=> Sees(h.cache, q, n)
      /\ \A q : Clean(x, q) <=> Clean(h.cache, q)
  <2>1. Once(h.cache)
    BY <1>0 DEF Shape
  <2>2. Len(x) = Len(h.cache) /\ x \in Seq(FrameT)
    BY DEF Alike
  <2> QED BY <2>1, <2>2, AlikeShows
<1> HIDE DEF r
<1>2. /\ r \in HostT /\ r.mode = h.mode /\ r.slots = h.slots /\ r.pool = h.pool
      /\ r.cache = x /\ r.disk = h.disk /\ r.walLsn = h.walLsn
      /\ r.durableLsn = h.durableLsn /\ r.crashed = h.crashed /\ r.lost = h.lost
  BY <1>0, <1>1, NewCache DEF r
<1>3. Ownership!cacheCap(r) = Ownership!cacheCap(h)
  BY <1>2 DEF Ownership!cacheCap
<1>4. h.mode = "direct" => x = <<>>
  <2>1. h.cache = <<>> => Len(x) = 0
    BY <1>1
  <2>2. Len(x) = 0 => x = <<>>
    BY <1>1
  <2> QED BY <1>0, <2>1, <2>2 DEF Shape
<1>5. Shape(r)
  BY <1>0, <1>1, <1>2, <1>3, <1>4 DEF Shape
<1>6. Logged(r)
  BY <1>0, <1>1, <1>2 DEF Logged
<1>7. Coherent(r, lt)
  BY <1>0, <1>1, <1>2 DEF Coherent, Below
<1> QED BY <1>1, <1>2, <1>5, <1>6, <1>7 DEF Good, Kept, r

(* A page of the file comes into the page cache, where it has no frame in  *)
(* the pool.                                                               *)
LEMMA IsCached ==
  ASSUME Sizes, NEW h, NEW lt, Good(h, lt), h.mode # "direct", NEW p \in DataPage,
         ~Has(h.pool, p)
  PROVE  LET r == Ownership!Cached(h, p) IN
         /\ Good(r, lt) /\ Kept(r, h) /\ r.pool = h.pool /\ r.durableLsn = h.durableLsn
         /\ Has(r.cache, p)
<1> DEFINE r == Ownership!Cached(h, p)
<1>0. Shape(h) /\ Logged(h) /\ Coherent(h, lt) /\ h \in HostT /\ h.cache \in Seq(FrameT)
  BY HostParts DEF Good, Shape
<1>1. CASE Has(h.cache, p)
  <2> DEFINE x == Ownership!Touched(h.cache, p)
  <2>1. r = [h EXCEPT !.cache = x]
    BY <1>1, AtIsHas DEF Ownership!Cached
  <2>2. Alike(x, h.cache)
    BY <1>0, TouchedIsAlike DEF Sizes
  <2> HIDE DEF x, r
  <2>3. /\ Good(r, lt) /\ Kept(r, h) /\ r.pool = h.pool /\ r.cache = x
        /\ r.durableLsn = h.durableLsn /\ Has(x, p)
    BY <1>1, <2>1, <2>2, CacheAlike
  <2> QED BY <2>3 DEF r
<1>2. CASE ~Has(h.cache, p)
  <2> DEFINE c == Ownership!CacheRoom(h)
             f == Ownership!Frame(p, FALSE, c.disk[p], Ownership!Now)
  <2>1. /\ Good(c, lt) /\ Kept(c, h) /\ c.pool = h.pool /\ c.durableLsn = h.durableLsn
        /\ Len(c.cache) < Ownership!cacheCap(c) /\ ~Has(c.cache, p)
    BY <1>2, RoomInCache
  <2>2. r = [c EXCEPT !.cache = Append(c.cache, f)]
    BY <1>2, AtIsHas DEF Ownership!Cached
  <2> HIDE DEF c
  <2>3. c \in HostT /\ Logged(c) /\ Coherent(c, lt) /\ c.disk[p] \in 0 .. MaxLsn
    BY <2>1, HostParts DEF Good, Shape
  <2>4. f \in FrameT /\ f.page = p /\ ~f.dirty /\ f.lsn = c.disk[p]
    BY <2>3, FrameMade DEF Sizes
  <2>5. c.disk[p] = lt[p]
    BY <2>1, <2>3 DEF Coherent, Below
  <2>6. c.disk[p] <= c.walLsn /\ (c.mode # "mmap" => c.disk[p] <= c.durableLsn)
    BY <2>3 DEF Logged
  <2> HIDE DEF f, r
  <2>7. Append(c.cache, f) = Ownership!Put(c.cache, f)
    BY <2>1, <2>4, AtIsHas DEF Ownership!Put
  <2>8. c.mode # "direct"
    BY <2>1 DEF Kept
  <2>9. /\ Good(r, lt) /\ Kept(r, c) /\ r.pool = c.pool /\ r.durableLsn = c.durableLsn
        /\ Has(r.cache, p)
    BY <2>1, <2>2, <2>4, <2>5, <2>6, <2>7, <2>8, IntoCache
  <2> QED BY <2>1, <2>9 DEF Kept, r
<1> QED BY <1>1, <1>2

(* The engine writes a frame of its pool: the log goes first. *)
LEMMA EngineHasWritten ==
  ASSUME Sizes, NEW h, NEW lt, Good(h, lt), NEW f \in FrameT, Sees(h.pool, f.page, f.lsn),
         h.mode # "mmap"
  PROVE  LET r == Ownership!EngineWrite(h, f) IN
         Good(r, lt) /\ Kept(r, h) /\ r.pool = h.pool /\ Below(r, f.page, lt[f.page])
<1> DEFINE d == IF f.lsn > h.durableLsn THEN f.lsn ELSE h.durableLsn
           g == [h EXCEPT !.durableLsn = d]
           r == Ownership!EngineWrite(h, f)
<1>0. Shape(h) /\ Logged(h) /\ Coherent(h, lt) /\ h \in HostT /\ MaxLsn \in Nat
  BY DEF Good, Shape, Sizes
<1>1. /\ f.page \in DataPage /\ f.lsn \in 0 .. MaxLsn
      /\ h.durableLsn \in 0 .. MaxLsn /\ h.walLsn \in 0 .. MaxLsn
  BY <1>0, HostParts DEF FrameT
<1>2. f.lsn = lt[f.page] /\ f.lsn <= h.walLsn
  BY <1>0 DEF Coherent, Logged
<1>3. d \in 0 .. MaxLsn /\ h.durableLsn <= d /\ d <= h.walLsn /\ f.lsn <= d
  BY <1>0, <1>1, <1>2 DEF Logged
<1>4. \/ /\ h.mode = "direct" /\ r = [g EXCEPT !.disk[f.page] = f.lsn]
      \/ /\ h.mode # "direct"
         /\ LET c == IF Ownership!At(g.cache, f.page) = {} THEN Ownership!CacheRoom(g) ELSE g
            IN  r = [c EXCEPT !.cache = Ownership!Put(c.cache, Ownership!Frame(f.page, TRUE, f.lsn, Ownership!Now))]
  BY DEF Ownership!EngineWrite
<1> HIDE DEF d, g, r
<1>5. /\ g \in HostT /\ g.mode = h.mode /\ g.slots = h.slots /\ g.pool = h.pool
      /\ g.cache = h.cache /\ g.disk = h.disk /\ g.walLsn = h.walLsn
      /\ g.durableLsn = d /\ g.crashed = h.crashed /\ g.lost = h.lost
  BY <1>0, <1>3, NewDurable DEF g
<1>6. Good(g, lt)
  <2>1. Ownership!cacheCap(g) = Ownership!cacheCap(h)
    BY <1>5 DEF Ownership!cacheCap
  <2>2. Shape(g)
    BY <1>0, <1>5, <2>1 DEF Shape
  <2>3. Logged(g)
    <3>1. ASSUME NEW p, NEW n, Sees(h.cache, p, n) PROVE n <= h.walLsn /\ n <= d
      <4>1. n \in 0 .. MaxLsn
        BY <1>0, <3>1, SeesHas, HostParts
      <4>2. n <= h.walLsn /\ n <= h.durableLsn
        BY <1>0, <3>1 DEF Logged
      <4> QED BY <1>1, <1>3, <4>1, <4>2
    <3>2. ASSUME NEW p \in DataPage PROVE h.disk[p] <= h.walLsn /\ h.disk[p] <= d
      <4>1. h.disk[p] \in 0 .. MaxLsn
        BY <1>0, HostParts
      <4>2. h.disk[p] <= h.walLsn /\ h.disk[p] <= h.durableLsn
        BY <1>0 DEF Logged
      <4> QED BY <1>1, <1>3, <4>1, <4>2
    <3> QED BY <1>0, <1>3, <1>5, <3>1, <3>2 DEF Logged
  <2>4. Coherent(g, lt)
    BY <1>0, <1>5 DEF Coherent, Below
  <2> QED BY <2>2, <2>3, <2>4 DEF Good
<1>7. CASE h.mode = "direct"
  <2>1. r = [g EXCEPT !.disk[f.page] = f.lsn]
    BY <1>4, <1>7
  <2>2. /\ r \in HostT /\ r.mode = g.mode /\ r.slots = g.slots /\ r.pool = g.pool
        /\ r.cache = g.cache /\ r.walLsn = g.walLsn
        /\ r.durableLsn = g.durableLsn /\ r.crashed = g.crashed /\ r.lost = g.lost
        /\ \A q \in DataPage : r.disk[q] = IF q = f.page THEN f.lsn ELSE g.disk[q]
    BY <1>1, <1>5, <2>1, NewDisk
  <2>3. g.cache = <<>> /\ Shape(g) /\ Logged(g) /\ Coherent(g, lt)
    BY <1>5, <1>6, <1>7 DEF Good, Shape
  <2>4. Ownership!cacheCap(r) = Ownership!cacheCap(g)
    BY <2>2 DEF Ownership!cacheCap
  <2>5. \A p : ~Has(<<>>, p) /\ ~Clean(<<>>, p) /\ \A n : ~Sees(<<>>, p, n)
    BY DEF Has, Clean, Sees
  <2>6. Shape(r)
    BY <2>2, <2>3, <2>4 DEF Shape
  <2>7. Logged(r)
    BY <1>2, <1>3, <1>5, <2>2, <2>3 DEF Logged
  <2>8. \A p \in DataPage : Below(g, p, lt[p]) => Below(r, p, lt[p])
    BY <1>2, <2>2, <2>3, <2>5 DEF Below
  <2>9. Coherent(r, lt) /\ Below(r, f.page, lt[f.page])
    <3>1. Below(r, f.page, lt[f.page])
      BY <1>1, <1>2, <2>2, <2>3, <2>5 DEF Below
    <3>2. Coherent(r, lt)
      BY <2>2, <2>3, <2>5, <2>8 DEF Coherent
    <3> QED BY <3>1, <3>2
  <2> QED BY <1>5, <2>2, <2>6, <2>7, <2>9 DEF Good, Kept, r
<1>8. CASE h.mode # "direct"
  <2> DEFINE c == IF Ownership!At(g.cache, f.page) = {} THEN Ownership!CacheRoom(g) ELSE g
             e == Ownership!Frame(f.page, TRUE, f.lsn, Ownership!Now)
  <2>1. r = [c EXCEPT !.cache = Ownership!Put(c.cache, e)]
    BY <1>4, <1>8
  <2>2. /\ Good(c, lt) /\ Kept(c, g) /\ c.pool = g.pool /\ c.durableLsn = g.durableLsn
        /\ Has(c.cache, f.page) \/ Len(c.cache) < Ownership!cacheCap(c)
    <3>1. CASE Has(g.cache, f.page)
      <4>1. c = g
        BY <3>1, AtIsHas
      <4> HIDE DEF c
      <4> QED BY <1>6, <3>1, <4>1 DEF Kept
    <3>2. CASE ~Has(g.cache, f.page)
      <4>1. c = Ownership!CacheRoom(g)
        BY <3>2, AtIsHas
      <4> HIDE DEF c
      <4> QED BY <1>6, <4>1, RoomInCache
    <3> QED BY <3>1, <3>2
  <2> HIDE DEF c
  <2>3. e \in FrameT /\ e.page = f.page /\ e.dirty /\ e.lsn = f.lsn
    <3>1. RAM \in Nat
      BY DEF Sizes
    <3> QED BY <1>1, <3>1, ChangeMade
  <2> HIDE DEF e
  <2>4. c.mode = h.mode /\ c.walLsn = h.walLsn /\ c.durableLsn = d /\ c.pool = h.pool
    BY <1>5, <2>2 DEF Kept
  <2>5. /\ Good(r, lt) /\ Kept(r, c) /\ r.pool = c.pool
        /\ Sees(r.cache, f.page, f.lsn) /\ Has(r.cache, f.page)
    BY <1>2, <1>3, <1>8, <2>1, <2>2, <2>3, <2>4, IntoCache
  <2>6. Below(r, f.page, lt[f.page])
    BY <1>2, <2>5 DEF Below
  <2> QED BY <1>5, <2>2, <2>4, <2>5, <2>6 DEF Kept, r
<1> QED BY <1>7, <1>8

(* The pool gives up a frame: what the page has is below it by then. *)
LEMMA RoomInPool ==
  ASSUME Sizes, NEW h, NEW lt, Good(h, lt), h.mode # "mmap"
  PROVE  LET r == Ownership!PoolRoom(h) IN
         /\ Good(r, lt) /\ Kept(r, h) /\ Len(r.pool) < r.slots
         /\ \A p : Has(r.pool, p) => Has(h.pool, p)
<1> DEFINE r == Ownership!PoolRoom(h)
<1>0. Shape(h) /\ Logged(h) /\ Coherent(h, lt) /\ h \in HostT
  BY DEF Good, Shape
<1>1. CASE Len(h.pool) < h.slots
  <2>1. r = h
    BY <1>1 DEF Ownership!PoolRoom
  <2> QED BY <1>1, <2>1 DEF Kept
<1>2. CASE ~(Len(h.pool) < h.slots)
  <2> DEFINE i == Ownership!lru(h.pool)
             e == h.pool[i]
             w == IF e.dirty THEN Ownership!EngineWrite(h, e) ELSE h
             x == Ownership!RemoveAt(h.pool, i)
  <2>1. Len(h.pool) \in Nat /\ Len(h.pool) # 0 /\ h.pool \in Seq(FrameT) /\ h.slots \in Nat
    BY <1>0, <1>2, Caps, HostParts
  <2>2. i \in DOMAIN h.pool
    BY <2>1, LruInList
  <2>3. e \in FrameT /\ e.page \in DataPage
    BY <2>1, <2>2, FrameLists
  <2>4. Sees(h.pool, e.page, e.lsn) /\ (~e.dirty => Clean(h.pool, e.page))
    BY <2>2 DEF Sees, Clean
  <2>5. r = [w EXCEPT !.pool = Ownership!RemoveAt(w.pool, i)]
    BY <1>2 DEF Ownership!PoolRoom
  <2>6. /\ x \in Seq(FrameT) /\ Len(x) = Len(h.pool) - 1 /\ Once(x)
        /\ \A p : Has(x, p) <=> Has(h.pool, p) /\ p # e.page
        /\ \A p, n : Sees(x, p, n) <=> Sees(h.pool, p, n) /\ p # e.page
        /\ \A p : Clean(x, p) <=> Clean(h.pool, p) /\ p # e.page
    BY <1>0, <2>1, <2>2, Removed DEF Shape
  <2>7. Good(w, lt) /\ Kept(w, h) /\ w.pool = h.pool /\ Below(w, e.page, lt[e.page])
    <3>1. CASE e.dirty
      <4>1. w = Ownership!EngineWrite(h, e)
        BY <3>1
      <4> HIDE DEF w, e
      <4> QED BY <2>3, <2>4, <4>1, EngineHasWritten
    <3>2. CASE ~e.dirty
      <4>1. w = h
        BY <3>2
      <4> HIDE DEF w, e
      <4> QED BY <1>0, <2>3, <2>4, <3>2, <4>1 DEF Kept, Coherent
    <3> QED BY <3>1, <3>2
  <2>8. r = [w EXCEPT !.pool = x]
    BY <2>5, <2>7
  <2> HIDE DEF w, e, x, i, r
  <2>9. w \in HostT /\ Shape(w) /\ Logged(w) /\ Coherent(w, lt)
    BY <2>7 DEF Good, Shape
  <2>10. /\ r \in HostT /\ r.mode = w.mode /\ r.slots = w.slots /\ r.walLsn = w.walLsn
         /\ r.crashed = w.crashed /\ r.lost = w.lost /\ r.pool = x
         /\ r.durableLsn = w.durableLsn /\ r.cache = w.cache /\ r.disk = w.disk
    BY <2>6, <2>8, <2>9, NewPool
  <2>11. Ownership!cacheCap(r) = Ownership!cacheCap(w)
    BY <2>10 DEF Ownership!cacheCap
  <2>12. w.mode # "mmap" /\ w.slots = h.slots
    BY <2>7 DEF Kept
  <2>13. Len(x) < r.slots /\ Len(x) <= r.slots
    <3>1. Len(h.pool) <= h.slots
      BY <1>0 DEF Shape
    <3>2. r.slots = h.slots /\ r.slots \in Nat
      BY <2>1, <2>10, <2>12
    <3> QED BY <2>1, <2>6, <3>1, <3>2
  <2>14. Shape(r)
    BY <2>6, <2>9, <2>10, <2>11, <2>12, <2>13 DEF Shape
  <2>15. Logged(r)
    BY <2>6, <2>7, <2>9, <2>10 DEF Logged
  <2>16. Coherent(r, lt)
    <3>1. ASSUME NEW p \in DataPage, Clean(x, p) \/ ~Has(x, p) PROVE Below(r, p, lt[p])
      <4>1. Below(w, p, lt[p])
        <5>1. CASE p = e.page
          BY <2>7, <5>1
        <5>2. CASE p # e.page
          BY <2>6, <2>7, <2>9, <3>1, <5>2 DEF Coherent
        <5> QED BY <5>1, <5>2
      <4> QED BY <2>10, <4>1 DEF Below
    <3> QED BY <2>6, <2>7, <2>9, <2>10, <3>1 DEF Coherent
  <2>17. Good(r, lt) /\ Kept(r, h)
    BY <2>7, <2>10, <2>14, <2>15, <2>16 DEF Good, Kept
  <2> QED BY <2>6, <2>10, <2>13, <2>17 DEF r
<1> QED BY <1>1, <1>2

(* A page comes into the pool: what it gets there is its last change. *)
LEMMA IntoPool ==
  ASSUME Sizes, NEW h, NEW lt, Good(h, lt), h.mode # "mmap", NEW f \in FrameT,
         ~Has(h.pool, f.page), Len(h.pool) < h.slots, ~f.dirty, f.lsn = lt[f.page],
         f.lsn <= h.walLsn
  PROVE  LET r == [h EXCEPT !.pool = Append(h.pool, f)] IN
         Good(r, lt) /\ Kept(r, h) /\ Has(r.pool, f.page)
<1> DEFINE x == Append(h.pool, f)
           r == [h EXCEPT !.pool = x]
<1>0. /\ Shape(h) /\ Logged(h) /\ Coherent(h, lt) /\ h \in HostT
      /\ h.pool \in Seq(FrameT) /\ h.slots \in Nat /\ Len(h.pool) \in Nat
  <2>1. Shape(h) /\ Logged(h) /\ Coherent(h, lt) /\ h \in HostT
    BY DEF Good, Shape
  <2>2. h.pool \in Seq(FrameT) /\ h.slots \in Nat
    BY <2>1, HostParts, Caps
  <2> QED BY <2>1, <2>2, FrameLists
<1>1. /\ x \in Seq(FrameT) /\ Len(x) = Len(h.pool) + 1 /\ Once(x)
      /\ \A p : Has(x, p) <=> Has(h.pool, p) \/ p = f.page
      /\ \A p, n : Sees(x, p, n) <=> Sees(h.pool, p, n) \/ (p = f.page /\ n = f.lsn)
      /\ \A p : Clean(x, p) <=> Clean(h.pool, p) \/ (p = f.page /\ ~f.dirty)
  BY <1>0, Appended DEF Shape
<1> HIDE DEF x, r
<1>2. /\ r \in HostT /\ r.mode = h.mode /\ r.slots = h.slots /\ r.pool = x
      /\ r.cache = h.cache /\ r.disk = h.disk /\ r.walLsn = h.walLsn
      /\ r.durableLsn = h.durableLsn /\ r.crashed = h.crashed /\ r.lost = h.lost
  BY <1>0, <1>1, NewPool DEF r
<1>3. Ownership!cacheCap(r) = Ownership!cacheCap(h)
  BY <1>2 DEF Ownership!cacheCap
<1>4. Len(x) <= r.slots
  BY <1>0, <1>1, <1>2
<1>5. Shape(r)
  BY <1>0, <1>1, <1>2, <1>3, <1>4 DEF Shape
<1>6. Logged(r)
  BY <1>0, <1>1, <1>2 DEF Logged
<1>7. Coherent(r, lt)
  <2>1. ASSUME NEW p \in DataPage, Clean(x, p) \/ ~Has(x, p) PROVE Below(r, p, lt[p])
    <3>1. Clean(h.pool, p) \/ ~Has(h.pool, p)
      BY <1>1, <2>1
    <3>2. Below(h, p, lt[p])
      BY <1>0, <3>1 DEF Coherent
    <3> QED BY <1>2, <3>2 DEF Below
  <2> QED BY <1>0, <1>1, <1>2, <2>1 DEF Coherent
<1>8. Has(r.pool, f.page)
  BY <1>1, <1>2
<1>9. Good(r, lt) /\ Kept(r, h)
  BY <1>2, <1>5, <1>6, <1>7 DEF Good, Kept
<1> QED BY <1>8, <1>9 DEF r, x

LEMMA Fetched ==
  ASSUME Sizes, NEW h, NEW lt, Good(h, lt), NEW p \in DataPage
  PROVE  LET r == Ownership!fetch(h, p) IN
         /\ Good(r, lt) /\ Kept(r, h)
         /\ IF h.mode = "mmap" THEN Has(r.cache, p) ELSE Has(r.pool, p)
<1> DEFINE r == Ownership!fetch(h, p)
<1>0. h \in HostT /\ Shape(h) /\ h.pool \in Seq(FrameT)
  BY HostParts DEF Good, Shape
<1>1. CASE h.mode = "mmap"
  <2>1. ~Has(h.pool, p)
    <3>1. h.pool = <<>>
      BY <1>0, <1>1 DEF Shape
    <3>2. ~Has(<<>>, p)
      BY DEF Has
    <3> QED BY <3>1, <3>2
  <2>2. r = Ownership!Cached(h, p)
    BY <1>1, <2>1, AtIsHas DEF Ownership!fetch
  <2> QED BY <1>1, <2>1, <2>2, IsCached
<1>2. CASE h.mode # "mmap" /\ Has(h.pool, p)
  <2> DEFINE x == Ownership!Touched(h.pool, p)
  <2>1. r = [h EXCEPT !.pool = x]
    BY <1>2, AtIsHas DEF Ownership!fetch
  <2>2. Alike(x, h.pool)
    BY <1>0, TouchedIsAlike DEF Sizes
  <2> HIDE DEF x, r
  <2>3. Good(r, lt) /\ Kept(r, h) /\ r.pool = x /\ Has(x, p)
    BY <1>2, <2>1, <2>2, PoolAlike
  <2> QED BY <1>2, <2>3 DEF r
<1>3. CASE h.mode # "mmap" /\ ~Has(h.pool, p)
  <2> DEFINE g == Ownership!PoolRoom(h)
             c == IF h.mode = "direct" THEN g ELSE Ownership!Cached(g, p)
             read == IF h.mode = "direct" THEN c.disk[p]
                     ELSE c.cache[CHOOSE i \in Ownership!At(c.cache, p) : TRUE].lsn
             f == Ownership!Frame(p, FALSE, read, Ownership!Now)
  <2>1. r = [c EXCEPT !.pool = Append(c.pool, f)]
    BY <1>3, AtIsHas DEF Ownership!fetch
  <2>2. Good(g, lt) /\ Kept(g, h) /\ Len(g.pool) < g.slots /\ ~Has(g.pool, p)
    BY <1>3, RoomInPool
  <2>3. /\ Good(c, lt) /\ Kept(c, h) /\ Len(c.pool) < c.slots /\ ~Has(c.pool, p)
        /\ h.mode # "direct" => Has(c.cache, p)
    <3>1. CASE h.mode = "direct"
      <4>1. c = g
        BY <3>1
      <4> HIDE DEF c, g
      <4> QED BY <2>2, <3>1, <4>1
    <3>2. CASE h.mode # "direct"
      <4>1. c = Ownership!Cached(g, p) /\ g.mode # "direct"
        BY <2>2, <3>2 DEF Kept
      <4> HIDE DEF c, g
      <4>2. Good(c, lt) /\ Kept(c, g) /\ c.pool = g.pool /\ Has(c.cache, p)
        BY <2>2, <4>1, IsCached
      <4> QED BY <2>2, <4>2 DEF Kept
    <3> QED BY <3>1, <3>2
  <2> HIDE DEF g, c
  <2>4. c \in HostT /\ Shape(c) /\ Logged(c) /\ Coherent(c, lt) /\ c.mode = h.mode
    BY <2>3 DEF Good, Shape, Kept
  <2>5. Below(c, p, lt[p])
    BY <2>3, <2>4 DEF Coherent
  <2>6. read = lt[p] /\ read \in 0 .. MaxLsn /\ read <= c.walLsn
    <3>1. CASE h.mode = "direct"
      <4>1. c.cache = <<>> /\ read = c.disk[p]
        BY <2>4, <3>1 DEF Shape
      <4>2. ~Has(<<>>, p)
        BY DEF Has
      <4> HIDE DEF read
      <4> QED BY <2>4, <2>5, <4>1, <4>2, HostParts DEF Below, Logged
    <3>2. CASE h.mode # "direct"
      <4>1. read = c.cache[CHOOSE i \in Ownership!At(c.cache, p) : TRUE].lsn
        BY <3>2
      <4>2. Sees(c.cache, p, read) /\ Sees(c.cache, p, lt[p])
        BY <2>3, <2>4, <2>5, <3>2, <4>1, ChosenSees DEF Below, Shape
      <4> HIDE DEF read
      <4>3. read = lt[p]
        BY <2>4, <4>2, SeesOne DEF Shape
      <4>4. read \in 0 .. MaxLsn
        BY <2>4, <4>2, SeesHas, HostParts
      <4>5. read <= c.walLsn
        BY <2>4, <4>2 DEF Logged
      <4> QED BY <4>3, <4>4, <4>5
    <3> QED BY <3>1, <3>2
  <2> HIDE DEF read
  <2>7. f \in FrameT /\ f.page = p /\ ~f.dirty /\ f.lsn = read
    BY <2>6, FrameMade DEF Sizes
  <2> HIDE DEF f, r
  <2>8. Good(r, lt) /\ Kept(r, c) /\ Has(r.pool, p)
    BY <1>3, <2>1, <2>3, <2>4, <2>6, <2>7, IntoPool
  <2> QED BY <1>3, <2>3, <2>8 DEF Kept, r
<1> QED BY <1>1, <1>2, <1>3

LEMMA AgedIsGood ==
  ASSUME Sizes, NEW h, NEW lt, Good(h, lt)
  PROVE  Good(Ownership!Aged(h), lt) /\ Kept(Ownership!Aged(h), h)
<1> DEFINE x == Ownership!Ranked(h.pool)
           y == Ownership!Ranked(h.cache)
           g == [h EXCEPT !.pool = x]
           r == [g EXCEPT !.cache = y]
<1>0. h \in HostT /\ h.pool \in Seq(FrameT) /\ h.cache \in Seq(FrameT)
  BY HostParts DEF Good, Shape
<1>1. Alike(x, h.pool) /\ Alike(y, h.cache)
  BY <1>0, RankedIsAlike
<1>2. Ownership!Aged(h) = r
  BY <1>0 DEF Ownership!Aged, HostT
<1> HIDE DEF x, y
<1>3. Good(g, lt) /\ Kept(g, h) /\ g.cache = h.cache
  BY <1>1, PoolAlike
<1> HIDE DEF g
<1>4. Good(r, lt) /\ Kept(r, g)
  BY <1>1, <1>3, CacheAlike
<1> QED BY <1>2, <1>3, <1>4 DEF Kept

-------------------------------------------------------------------------------
(* The steps of the lab. *)
OwnInv ==
  /\ Sizes /\ Shape(host) /\ Logged(host)
  /\ latest \in [DataPage -> 0 .. MaxLsn]
  /\ ~host.crashed => Coherent(host, latest)

LEMMA OwnGood == ASSUME OwnInv, ~host.crashed PROVE Good(host, latest)
BY DEF OwnInv, Good

LEMMA OwnNext ==
  ASSUME Sizes, Good(host', latest'), latest' \in [DataPage -> 0 .. MaxLsn] PROVE OwnInv'
<1>1. Shape(host') /\ Logged(host') /\ Coherent(host', latest')
  BY DEF Good
<1> QED BY <1>1 DEF OwnInv, Sizes

LEMMA OwnRead ==
  ASSUME OwnInv, ~host.crashed, NEW p \in DataPage, Ownership!Read(p) PROVE OwnInv'
<1> DEFINE h == Ownership!fetch(host, p)
<1>1. Sizes /\ Good(host, latest) /\ latest \in [DataPage -> 0 .. MaxLsn]
  BY OwnGood DEF OwnInv
<1>2. Good(h, latest)
  BY <1>1, Fetched
<1>3. host' = Ownership!Aged(h) /\ latest' = latest
  BY DEF Ownership!Read
<1> HIDE DEF h
<1>4. Good(host', latest')
  BY <1>1, <1>2, <1>3, AgedIsGood
<1> QED BY <1>1, <1>3, <1>4, OwnNext

(* A change of a page that has a frame: the frame has the newest number of *)
(* the log.                                                                *)
LEMMA ChangedInPool ==
  ASSUME Sizes, NEW h, NEW lt \in [DataPage -> 0 .. MaxLsn], Good(h, lt), h.mode # "mmap",
         NEW p \in DataPage, Has(h.pool, p), NEW n \in 0 .. MaxLsn, n = h.walLsn + 1,
         NEW f \in FrameT, f.page = p, f.dirty, f.lsn = n
  PROVE  Good([h EXCEPT !.walLsn = n, !.pool = Ownership!Put(@, f)], [lt EXCEPT ![p] = n])
<1> DEFINE x == Ownership!Put(h.pool, f)
           r == [h EXCEPT !.walLsn = n, !.pool = Ownership!Put(@, f)]
           ln == [lt EXCEPT ![p] = n]
<1>0. /\ Shape(h) /\ Logged(h) /\ Coherent(h, lt) /\ h \in HostT
      /\ h.pool \in Seq(FrameT) /\ h.cache \in Seq(FrameT)
      /\ h.walLsn \in 0 .. MaxLsn /\ h.durableLsn \in 0 .. MaxLsn /\ MaxLsn \in Nat
  BY HostParts DEF Good, Shape, Sizes
<1>1. /\ x \in Seq(FrameT) /\ Once(x) /\ Len(x) = Len(h.pool)
      /\ \A q : Has(x, q) <=> Has(h.pool, q)
      /\ \A q, m : Sees(x, q, m) <=> IF q = p THEN m = n ELSE Sees(h.pool, q, m)
      /\ \A q : Clean(x, q) <=> IF q = p THEN FALSE ELSE Clean(h.pool, q)
  <2>1. Once(h.pool)
    BY <1>0 DEF Shape
  <2>2. /\ x \in Seq(FrameT) /\ Len(x) = (IF Has(h.pool, f.page) THEN Len(h.pool) ELSE Len(h.pool) + 1)
        /\ Once(x)
        /\ \A q : Has(x, q) <=> Has(h.pool, q) \/ q = f.page
        /\ \A q, m : Sees(x, q, m) <=> IF q = f.page THEN m = f.lsn ELSE Sees(h.pool, q, m)
        /\ \A q : Clean(x, q) <=> IF q = f.page THEN ~f.dirty ELSE Clean(h.pool, q)
    BY <1>0, <2>1, PutShows
  <2> HIDE DEF x
  <2> QED BY <2>2
<1> HIDE DEF x
<1>2. /\ r \in HostT /\ r.mode = h.mode /\ r.slots = h.slots /\ r.pool = x
      /\ r.cache = h.cache /\ r.disk = h.disk /\ r.walLsn = n
      /\ r.durableLsn = h.durableLsn /\ r.crashed = h.crashed /\ r.lost = h.lost
  BY <1>0, <1>1 DEF HostT, x
<1> HIDE DEF r
<1>3. ln[p] = n /\ \A q \in DataPage : q # p => ln[q] = lt[q]
  OBVIOUS
<1> HIDE DEF ln
<1>4. Ownership!cacheCap(r) = Ownership!cacheCap(h)
  BY <1>2 DEF Ownership!cacheCap
<1>5. Shape(r)
  BY <1>0, <1>1, <1>2, <1>4 DEF Shape
<1>6. Logged(r)
  <2>1. r.durableLsn <= r.walLsn
    BY <1>0, <1>2 DEF Logged
  <2>2. ASSUME NEW q, NEW m, Sees(x, q, m) PROVE m <= r.walLsn
    <3>1. CASE q = p
      BY <1>1, <1>2, <2>2, <3>1
    <3>2. CASE q # p
      <4>1. Sees(h.pool, q, m)
        BY <1>1, <2>2, <3>2
      <4>2. m <= h.walLsn /\ m \in 0 .. MaxLsn
        BY <1>0, <4>1, SeesHas DEF Logged
      <4> QED BY <1>0, <1>2, <4>2
    <3> QED BY <3>1, <3>2
  <2>3. ASSUME NEW q, NEW m, Sees(h.cache, q, m)
        PROVE  m <= r.walLsn /\ (h.mode # "mmap" => m <= h.durableLsn)
    <3>1. m <= h.walLsn /\ m <= h.durableLsn /\ m \in 0 .. MaxLsn
      BY <1>0, <2>3, SeesHas DEF Logged
    <3> QED BY <1>0, <1>2, <3>1
  <2>4. ASSUME NEW q \in DataPage
        PROVE  h.disk[q] <= r.walLsn /\ (h.mode # "mmap" => h.disk[q] <= h.durableLsn)
    <3>1. h.disk[q] <= h.walLsn /\ h.disk[q] <= h.durableLsn /\ h.disk[q] \in 0 .. MaxLsn
      BY <1>0, HostParts DEF Logged
    <3> QED BY <1>0, <1>2, <3>1
  <2> QED BY <1>0, <1>2, <2>1, <2>2, <2>3, <2>4 DEF Logged
<1>7. Coherent(r, ln)
  <2>1. \A q, m : Sees(h.cache, q, m) => m <= ln[q]
    <3> SUFFICES ASSUME NEW q, NEW m, Sees(h.cache, q, m) PROVE m <= ln[q]
      OBVIOUS
    <3>1. m <= lt[q] /\ m <= h.walLsn /\ m \in 0 .. MaxLsn /\ q \in DataPage
      BY <1>0, SeesHas DEF Coherent, Logged
    <3>2. m <= n
      BY <1>0, <3>1
    <3> QED BY <1>3, <3>1, <3>2
  <2>2. ASSUME NEW q, NEW m, Sees(x, q, m) PROVE m = ln[q]
    <3>1. CASE q = p
      BY <1>1, <1>3, <2>2, <3>1
    <3>2. CASE q # p
      <4>1. Sees(h.pool, q, m)
        BY <1>1, <2>2, <3>2
      <4>2. q \in DataPage /\ m = lt[q]
        BY <1>0, <4>1, SeesHas DEF Coherent
      <4> QED BY <1>3, <3>2, <4>2
    <3> QED BY <3>1, <3>2
  <2>3. ASSUME NEW q \in DataPage, Clean(x, q) \/ ~Has(x, q) PROVE Below(r, q, ln[q])
    <3>1. q # p
      BY <1>1, <2>3
    <3>2. Below(h, q, lt[q])
      BY <1>0, <1>1, <2>3, <3>1 DEF Coherent
    <3> QED BY <1>2, <1>3, <3>1, <3>2 DEF Below
  <2> QED BY <1>0, <1>2, <2>1, <2>2, <2>3 DEF Coherent
<1> QED BY <1>5, <1>6, <1>7 DEF Good, r, ln

(* The same in a mapped file, whose pages have frames in the page cache    *)
(* only.                                                                   *)
LEMMA ChangedInCache ==
  ASSUME Sizes, NEW h, NEW lt \in [DataPage -> 0 .. MaxLsn], Good(h, lt), h.mode = "mmap",
         NEW p \in DataPage, Has(h.cache, p), NEW n \in 0 .. MaxLsn, n = h.walLsn + 1,
         NEW f \in FrameT, f.page = p, f.dirty, f.lsn = n
  PROVE  Good([h EXCEPT !.walLsn = n, !.cache = Ownership!Put(@, f)], [lt EXCEPT ![p] = n])
<1> DEFINE x == Ownership!Put(h.cache, f)
           r == [h EXCEPT !.walLsn = n, !.cache = Ownership!Put(@, f)]
           ln == [lt EXCEPT ![p] = n]
<1>0. /\ Shape(h) /\ Logged(h) /\ Coherent(h, lt) /\ h \in HostT
      /\ h.pool = <<>> /\ h.cache \in Seq(FrameT)
      /\ h.walLsn \in 0 .. MaxLsn /\ h.durableLsn \in 0 .. MaxLsn /\ MaxLsn \in Nat
  BY HostParts DEF Good, Shape, Sizes
<1>1. /\ x \in Seq(FrameT) /\ Once(x) /\ Len(x) = Len(h.cache)
      /\ \A q : Has(x, q) <=> Has(h.cache, q)
      /\ \A q, m : Sees(x, q, m) <=> IF q = p THEN m = n ELSE Sees(h.cache, q, m)
      /\ \A q : Clean(x, q) <=> IF q = p THEN FALSE ELSE Clean(h.cache, q)
  BY <1>0, PutShows DEF Shape
<1> HIDE DEF x
<1>2. /\ r \in HostT /\ r.mode = h.mode /\ r.slots = h.slots /\ r.pool = h.pool
      /\ r.cache = x /\ r.disk = h.disk /\ r.walLsn = n
      /\ r.durableLsn = h.durableLsn /\ r.crashed = h.crashed /\ r.lost = h.lost
  BY <1>0, <1>1 DEF HostT, x
<1> HIDE DEF r
<1>3. ln[p] = n /\ \A q \in DataPage : q # p => ln[q] = lt[q]
  OBVIOUS
<1> HIDE DEF ln
<1>4. Ownership!cacheCap(r) = Ownership!cacheCap(h)
  BY <1>2 DEF Ownership!cacheCap
<1>5. Shape(r)
  BY <1>0, <1>1, <1>2, <1>4 DEF Shape
<1>6. \A q : ~Has(h.pool, q) /\ ~Clean(h.pool, q) /\ \A m : ~Sees(h.pool, q, m)
  <2>1. \A q : ~Has(<<>>, q) /\ ~Clean(<<>>, q) /\ \A m : ~Sees(<<>>, q, m)
    BY DEF Has, Clean, Sees
  <2> QED BY <1>0, <2>1
<1>7. Logged(r)
  <2>1. r.durableLsn <= r.walLsn
    BY <1>0, <1>2 DEF Logged
  <2>2. ASSUME NEW q, NEW m, Sees(x, q, m) PROVE m <= r.walLsn
    <3>1. CASE q = p
      BY <1>1, <1>2, <2>2, <3>1
    <3>2. CASE q # p
      <4>1. Sees(h.cache, q, m)
        BY <1>1, <2>2, <3>2
      <4>2. m <= h.walLsn /\ m \in 0 .. MaxLsn
        BY <1>0, <4>1, SeesHas DEF Logged
      <4> QED BY <1>0, <1>2, <4>2
    <3> QED BY <3>1, <3>2
  <2>3. ASSUME NEW q \in DataPage PROVE h.disk[q] <= r.walLsn
    <3>1. h.disk[q] <= h.walLsn /\ h.disk[q] \in 0 .. MaxLsn
      BY <1>0, HostParts DEF Logged
    <3> QED BY <1>0, <1>2, <3>1
  <2> QED BY <1>2, <1>6, <2>1, <2>2, <2>3 DEF Logged
<1>8. Coherent(r, ln)
  <2>1. ASSUME NEW q, NEW m, Sees(x, q, m) PROVE m <= ln[q]
    <3>1. CASE q = p
      BY <1>0, <1>1, <1>3, <2>1, <3>1
    <3>2. CASE q # p
      <4>1. Sees(h.cache, q, m)
        BY <1>1, <2>1, <3>2
      <4>2. q \in DataPage /\ m <= lt[q]
        BY <1>0, <4>1, SeesHas DEF Coherent
      <4> QED BY <1>3, <3>2, <4>2
    <3> QED BY <3>1, <3>2
  <2>2. ASSUME NEW q, NEW m, Clean(x, q), Sees(x, q, m) PROVE h.disk[q] = m
    <3>1. Clean(h.cache, q) /\ Sees(h.cache, q, m)
      BY <1>1, <2>2
    <3> QED BY <1>0, <3>1 DEF Coherent
  <2>3. ASSUME NEW q \in DataPage PROVE Below(r, q, ln[q])
    <3>1. CASE q = p
      BY <1>1, <1>2, <1>3, <3>1 DEF Below
    <3>2. CASE q # p
      <4>1. Below(h, q, lt[q])
        BY <1>0, <1>6 DEF Coherent
      <4> QED BY <1>1, <1>2, <1>3, <3>2, <4>1 DEF Below
    <3> QED BY <3>1, <3>2
  <2> QED BY <1>2, <1>6, <2>1, <2>2, <2>3 DEF Coherent
<1> QED BY <1>5, <1>7, <1>8 DEF Good, r, ln

LEMMA OwnWrite ==
  ASSUME OwnInv, ~host.crashed, NEW p \in DataPage, Ownership!Write(p) PROVE OwnInv'
<1> DEFINE h == Ownership!fetch(host, p)
           n == host.walLsn + 1
           f == Ownership!Frame(p, TRUE, n, Ownership!Now)
           c == [h EXCEPT !.walLsn = n, !.cache = Ownership!Put(@, f)]
           b == [h EXCEPT !.walLsn = n, !.pool = Ownership!Put(@, f)]
           g == IF h.mode = "mmap" THEN c ELSE b
           ln == [latest EXCEPT ![p] = n]
<1>1. /\ Sizes /\ Good(host, latest) /\ latest \in [DataPage -> 0 .. MaxLsn]
      /\ host.walLsn \in 0 .. MaxLsn /\ MaxLsn \in Nat
  BY OwnGood, HostParts DEF OwnInv, Shape, Sizes
<1>2. /\ Good(h, latest) /\ Kept(h, host)
      /\ IF h.mode = "mmap" THEN Has(h.cache, p) ELSE Has(h.pool, p)
  <2>1. /\ Good(h, latest) /\ Kept(h, host)
        /\ IF host.mode = "mmap" THEN Has(h.cache, p) ELSE Has(h.pool, p)
    BY <1>1, Fetched
  <2> QED BY <2>1 DEF Kept
<1>3. n <= MaxLsn /\ host' = Ownership!Aged(g) /\ latest' = ln
  BY DEF Ownership!Write
<1>4. n \in 0 .. MaxLsn /\ n = h.walLsn + 1
  BY <1>1, <1>2, <1>3 DEF Kept
<1> HIDE DEF h, n
<1>5. f \in FrameT /\ f.page = p /\ f.dirty /\ f.lsn = n
  <2>1. RAM \in Nat
    BY <1>1 DEF Sizes
  <2> QED BY <1>4, <2>1, ChangeMade
<1>6. ln \in [DataPage -> 0 .. MaxLsn]
  BY <1>1, <1>4
<1> HIDE DEF f
<1>7. CASE h.mode = "mmap"
  <2>1. g = c
    BY <1>7
  <2> HIDE DEF g
  <2>2. Good(c, ln)
    BY <1>1, <1>2, <1>4, <1>5, <1>7, ChangedInCache
  <2> HIDE DEF c, ln
  <2>3. Good(host', latest')
    BY <1>1, <1>3, <2>1, <2>2, AgedIsGood
  <2> QED BY <1>1, <1>3, <1>6, <2>3, OwnNext
<1>8. CASE h.mode # "mmap"
  <2>1. g = b
    BY <1>8
  <2> HIDE DEF g
  <2>2. Good(b, ln)
    BY <1>1, <1>2, <1>4, <1>5, <1>8, ChangedInPool
  <2> HIDE DEF b, ln
  <2>3. Good(host', latest')
    BY <1>1, <1>3, <2>1, <2>2, AgedIsGood
  <2> QED BY <1>1, <1>3, <1>6, <2>3, OwnNext
<1> QED BY <1>7, <1>8

LEMMA OwnSync ==
  ASSUME OwnInv, ~host.crashed, Ownership!SyncWal PROVE OwnInv'
<1>1. /\ Sizes /\ Shape(host) /\ Logged(host) /\ Coherent(host, latest) /\ host \in HostT
      /\ latest \in [DataPage -> 0 .. MaxLsn] /\ host.walLsn \in 0 .. MaxLsn
      /\ host.durableLsn \in 0 .. MaxLsn /\ MaxLsn \in Nat
  BY HostParts DEF OwnInv, Shape, Sizes
<1>2. host' = [host EXCEPT !.durableLsn = host.walLsn] /\ latest' = latest
  BY DEF Ownership!SyncWal
<1>3. /\ host' \in HostT /\ host'.mode = host.mode /\ host'.slots = host.slots
      /\ host'.pool = host.pool /\ host'.cache = host.cache /\ host'.disk = host.disk
      /\ host'.walLsn = host.walLsn /\ host'.durableLsn = host.walLsn
      /\ host'.crashed = host.crashed /\ host'.lost = host.lost
  BY <1>1, <1>2, NewDurable
<1>4. Ownership!cacheCap(host') = Ownership!cacheCap(host)
  BY <1>3 DEF Ownership!cacheCap
<1>5. Shape(host')
  BY <1>1, <1>3, <1>4 DEF Shape
<1>6. Logged(host')
  BY <1>1, <1>3 DEF Logged
<1>7. Coherent(host', latest')
  BY <1>1, <1>2, <1>3 DEF Coherent, Below
<1> QED BY <1>1, <1>2, <1>5, <1>6, <1>7, OwnNext DEF Good

(* What the kernel writes back is what the page cache shows. *)
LEMMA OwnWriteback ==
  ASSUME OwnInv, ~host.crashed, Ownership!Writeback PROVE OwnInv'
<1> DEFINE l == host.cache
           dirty == {f \in Ownership!ToSet(l) : f.dirty}
           d(p) == IF \E f \in dirty : f.page = p
                   THEN (CHOOSE f \in dirty : f.page = p).lsn ELSE host.disk[p]
           x == [i \in DOMAIN l |-> [l[i] EXCEPT !.dirty = FALSE]]
<1>1. /\ Sizes /\ Shape(host) /\ Logged(host) /\ Coherent(host, latest) /\ host \in HostT
      /\ latest \in [DataPage -> 0 .. MaxLsn] /\ l \in Seq(FrameT)
      /\ host.disk \in [DataPage -> 0 .. MaxLsn] /\ Once(l)
  BY HostParts DEF OwnInv, Shape, Sizes
<1>2. host' = [host EXCEPT !.disk = [p \in DataPage |-> d(p)], !.cache = x] /\ latest' = latest
  BY DEF Ownership!Writeback
<1>3. ASSUME NEW p \in DataPage
      PROVE  /\ Below(host, p, d(p)) /\ d(p) \in 0 .. MaxLsn
  <2>1. CASE \E f \in dirty : f.page = p
    <3> DEFINE e == CHOOSE f \in dirty : f.page = p
    <3>1. e \in dirty /\ e.page = p
      BY <2>1
    <3>2. d(p) = e.lsn
      BY <2>1
    <3> HIDE DEF e
    <3>3. PICK i \in DOMAIN l : e = l[i]
      BY <3>1 DEF Ownership!ToSet
    <3>4. Sees(l, p, d(p))
      BY <3>1, <3>2, <3>3 DEF Sees
    <3> HIDE DEF d
    <3> QED BY <1>1, <3>4, SeesHas DEF Below
  <2>2. CASE ~(\E f \in dirty : f.page = p)
    <3>1. d(p) = host.disk[p] /\ host.disk[p] \in 0 .. MaxLsn
      BY <1>1, <2>2
    <3>2. Has(l, p) => Clean(l, p)
      <4> SUFFICES ASSUME NEW i \in DOMAIN l, l[i].page = p PROVE ~l[i].dirty
        BY DEF Has, Clean
      <4>1. l[i] \in Ownership!ToSet(l)
        BY DEF Ownership!ToSet
      <4> QED BY <2>2, <4>1
    <3> HIDE DEF d, dirty
    <3>3. ASSUME Has(l, p) PROVE Sees(l, p, host.disk[p])
      <4>1. PICK n \in 0 .. MaxLsn : Sees(l, p, n)
        BY <1>1, <3>3, SeesHas
      <4>2. n = host.disk[p]
        BY <1>1, <3>2, <3>3, <4>1 DEF Coherent
      <4> QED BY <4>1, <4>2
    <3> QED BY <3>1, <3>3 DEF Below
  <2> QED BY <2>1, <2>2
<1>4. /\ x \in Seq(FrameT) /\ Len(x) = Len(l) /\ Once(x)
      /\ \A p : Has(x, p) <=> Has(l, p)
      /\ \A p, n : Sees(x, p, n) <=> Sees(l, p, n)
      /\ \A p : Clean(x, p) <=> Has(l, p)
  <2> DEFINE g(i) == [l[i] EXCEPT !.dirty = FALSE]
  <2>0. Len(l) \in Nat /\ DOMAIN l = 1 .. Len(l) /\ \A i \in DOMAIN l : l[i] \in FrameT
    BY <1>1, FrameLists
  <2>1. ASSUME NEW i \in DOMAIN l
        PROVE  g(i) \in FrameT /\ g(i).page = l[i].page /\ g(i).lsn = l[i].lsn /\ ~g(i).dirty
    <3>1. l[i] \in FrameT
      BY <2>0
    <3> QED BY <3>1 DEF FrameT
  <2>2. x = [i \in 1 .. Len(l) |-> g(i)]
    BY <2>0
  <2> HIDE DEF g, x
  <2>3. x \in Seq(FrameT) /\ Len(x) = Len(l) /\ DOMAIN x = DOMAIN l /\ \A i \in DOMAIN l : x[i] = g(i)
    BY <2>0, <2>1, <2>2
  <2>4. Once(x)
    BY <1>1, <2>1, <2>3 DEF Once
  <2>5. \A p : Has(x, p) <=> Has(l, p)
    BY <2>1, <2>3 DEF Has
  <2>6. \A p, n : Sees(x, p, n) <=> Sees(l, p, n)
    BY <2>1, <2>3 DEF Sees
  <2>7. \A p : Clean(x, p) <=> Has(l, p)
    BY <2>1, <2>3 DEF Clean, Has
  <2> QED BY <2>3, <2>4, <2>5, <2>6, <2>7
<1> HIDE DEF dirty, x, d
<1>5. /\ host' \in HostT /\ host'.mode = host.mode /\ host'.slots = host.slots
      /\ host'.pool = host.pool /\ host'.cache = x
      /\ host'.walLsn = host.walLsn /\ host'.durableLsn = host.durableLsn
      /\ host'.crashed = host.crashed /\ host'.lost = host.lost
      /\ \A p \in DataPage : host'.disk[p] = d(p)
  <2>1. [p \in DataPage |-> d(p)] \in [DataPage -> 0 .. MaxLsn]
    BY <1>3
  <2> QED BY <1>1, <1>2, <1>4, <2>1 DEF HostT
<1>6. Ownership!cacheCap(host') = Ownership!cacheCap(host)
  BY <1>5 DEF Ownership!cacheCap
<1>7. Shape(host')
  <2>1. host.mode = "direct" => x = <<>>
    <3>1. l = <<>> => Len(x) = 0
      BY <1>4
    <3>2. Len(x) = 0 => x = <<>>
      BY <1>4
    <3> QED BY <1>1, <3>1, <3>2 DEF Shape
  <2> QED BY <1>1, <1>4, <1>5, <1>6, <2>1 DEF Shape
<1>8. Logged(host')
  <2>1. ASSUME NEW p \in DataPage
        PROVE  d(p) <= host.walLsn /\ (host.mode # "mmap" => d(p) <= host.durableLsn)
    <3>1. Sees(l, p, d(p)) \/ d(p) = host.disk[p]
      BY <1>3 DEF Below
    <3> QED BY <1>1, <3>1 DEF Logged
  <2> QED BY <1>1, <1>4, <1>5, <2>1 DEF Logged
<1>9. Coherent(host', latest')
  <2>1. ASSUME NEW p, NEW n, Sees(x, p, n) PROVE host'.disk[p] = n
    <3>1. Sees(l, p, n) /\ Has(l, p) /\ p \in DataPage
      BY <1>1, <1>4, <2>1, SeesHas
    <3>2. Sees(l, p, d(p))
      BY <1>3, <3>1 DEF Below
    <3>3. d(p) = n
      BY <1>1, <3>1, <3>2, SeesOne
    <3> QED BY <1>5, <3>1, <3>3
  <2>2. ASSUME NEW p \in DataPage, Clean(host.pool, p) \/ ~Has(host.pool, p)
        PROVE  Below(host', p, latest[p])
    <3>1. Below(host, p, latest[p])
      BY <1>1, <2>2 DEF Coherent
    <3>2. ~Has(l, p) => d(p) = host.disk[p]
      BY <1>3 DEF Below
    <3> QED BY <1>4, <1>5, <3>1, <3>2 DEF Below
  <2>3. \A p, n : Sees(host'.pool, p, n) => n = latest'[p]
    BY <1>1, <1>2, <1>5 DEF Coherent
  <2>4. \A p, n : Sees(host'.cache, p, n) => n <= latest'[p]
    BY <1>1, <1>2, <1>4, <1>5 DEF Coherent
  <2>5. \A p, n : Clean(host'.cache, p) /\ Sees(host'.cache, p, n) => host'.disk[p] = n
    BY <1>5, <2>1
  <2>6. \A p \in DataPage : Clean(host'.pool, p) \/ ~Has(host'.pool, p) => Below(host', p, latest'[p])
    BY <1>2, <1>5, <2>2
  <2> HIDE DEF l
  <2> QED BY <2>3, <2>4, <2>5, <2>6 DEF Coherent
<1> QED BY <1>1, <1>2, <1>7, <1>8, <1>9, OwnNext DEF Good

LEMMA NothingShown == \A p : ~Has(<<>>, p) /\ ~Clean(<<>>, p) /\ \A n : ~Sees(<<>>, p, n)
BY DEF Has, Clean, Sees

LEMMA EmptyList == <<>> \in Seq(FrameT) /\ Len(<<>>) = 0 /\ Once(<<>>)
<1>1. <<>> \in Seq(FrameT) /\ Len(<<>>) = 0
  OBVIOUS
<1>2. Once(<<>>)
  BY DEF Once
<1> QED BY <1>1, <1>2

LEMMA OwnCrash ==
  ASSUME OwnInv, ~host.crashed, Ownership!Crash PROVE OwnInv'
<1> DEFINE gone == {p \in DataPage : host.disk[p] > host.durableLsn}
<1>1. /\ Sizes /\ Shape(host) /\ Logged(host) /\ host \in HostT
      /\ latest \in [DataPage -> 0 .. MaxLsn]
      /\ host.disk \in [DataPage -> 0 .. MaxLsn] /\ host.durableLsn \in 0 .. MaxLsn /\ MaxLsn \in Nat
  BY HostParts DEF OwnInv, Shape, Sizes
<1>2. /\ host' = [host EXCEPT !.crashed = TRUE, !.pool = <<>>, !.cache = <<>>, !.lost = gone]
      /\ latest' = latest
  BY DEF Ownership!Crash
<1>3. host.mode # "mmap" => gone = {}
  <2>1. ASSUME host.mode # "mmap", NEW p \in DataPage PROVE ~(host.disk[p] > host.durableLsn)
    <3>1. host.disk[p] <= host.durableLsn
      BY <1>1, <2>1 DEF Logged
    <3> QED BY <1>1, <3>1
  <2> QED BY <2>1
<1>4. gone \in SUBSET DataPage
  OBVIOUS
<1> HIDE DEF gone
<1>5. /\ host' \in HostT /\ host'.mode = host.mode /\ host'.slots = host.slots
      /\ host'.pool = <<>> /\ host'.cache = <<>> /\ host'.disk = host.disk
      /\ host'.walLsn = host.walLsn /\ host'.durableLsn = host.durableLsn
      /\ host'.crashed = TRUE /\ host'.lost = gone
  BY <1>1, <1>2, <1>4, EmptyList DEF HostT
<1>6. Shape(host')
  <2>1. host'.slots \in Nat /\ Ownership!cacheCap(host') \in Nat
    BY <1>1, <1>5, Caps
  <2>2. Len(<<>>) <= host'.slots /\ Len(<<>>) <= Ownership!cacheCap(host')
    BY <2>1, EmptyList
  <2> QED BY <1>5, <2>2, EmptyList DEF Shape
<1>7. Logged(host')
  BY <1>1, <1>3, <1>5, NothingShown DEF Logged
<1> QED BY <1>1, <1>2, <1>5, <1>6, <1>7 DEF OwnInv, Sizes

(* The machine as it starts. *)
LEMMA Started ==
  ASSUME Sizes, NEW m \in {"pool", "direct", "mmap"}, NEW k \in PoolSlots
  PROVE  Good(Ownership!INITIAL(m, k), [p \in DataPage |-> 0])
<1> DEFINE h == Ownership!INITIAL(m, k)
           z == [p \in DataPage |-> 0]
<1>1. /\ h.mode = m /\ h.slots = k /\ h.pool = <<>> /\ h.cache = <<>>
      /\ h.disk = z /\ h.walLsn = 0 /\ h.durableLsn = 0 /\ h.lost = {}
  BY DEF Ownership!INITIAL
<1>2. h \in HostT
  <2>1. 0 \in 0 .. MaxLsn
    BY DEF Sizes
  <2>2. z \in [DataPage -> 0 .. MaxLsn] /\ <<>> \in Seq(FrameT)
    BY <2>1, EmptyList
  <2> HIDE DEF z
  <2>3. Ownership!INITIAL(m, k) =
          [mode |-> m, slots |-> k, pool |-> <<>>, cache |-> <<>>, disk |-> z,
           walLsn |-> 0, durableLsn |-> 0, crashed |-> FALSE, lost |-> {}]
    BY DEF Ownership!INITIAL, z
  <2> QED BY <2>1, <2>2, <2>3 DEF HostT
<1> HIDE DEF h
<1>3. \A p \in DataPage : z[p] = 0
  OBVIOUS
<1> HIDE DEF z
<1>4. Shape(h)
  <2>1. h.slots \in Nat /\ Ownership!cacheCap(h) \in Nat
    BY <1>2, Caps
  <2>2. Len(<<>>) <= h.slots /\ Len(<<>>) <= Ownership!cacheCap(h)
    BY <2>1, EmptyList
  <2> QED BY <1>1, <1>2, <2>2, EmptyList DEF Shape
<1>5. Logged(h)
  <2>1. \A p, n : ~Sees(h.pool, p, n) /\ ~Sees(h.cache, p, n)
    BY <1>1, NothingShown
  <2>2. \A p \in DataPage : h.disk[p] <= h.walLsn /\ h.disk[p] <= h.durableLsn
    BY <1>1, <1>3
  <2>3. h.durableLsn <= h.walLsn /\ h.lost = {}
    BY <1>1
  <2> QED BY <2>1, <2>2, <2>3 DEF Logged
<1>6. Coherent(h, z)
  BY <1>1, <1>3, NothingShown DEF Coherent, Below
<1> QED BY <1>4, <1>5, <1>6 DEF Good, h, z

LEMMA OwnStarts ==
  ASSUME Ownership!OwnershipAssumption, Ownership!OwnershipInit PROVE OwnInv
<1>1. Sizes
  BY DEF Ownership!OwnershipAssumption, Sizes
<1>2. PICK m \in {"pool", "direct", "mmap"}, k \in PoolSlots : host = Ownership!INITIAL(m, k)
  BY DEF Ownership!OwnershipInit
<1>3. latest = [p \in DataPage |-> 0]
  BY DEF Ownership!OwnershipInit
<1>4. Good(host, latest)
  BY <1>1, <1>2, <1>3, Started
<1>5. latest \in [DataPage -> 0 .. MaxLsn]
  BY <1>1, <1>3 DEF Sizes
<1> QED BY <1>1, <1>4, <1>5 DEF OwnInv, Good

LEMMA OwnStartsOver ==
  ASSUME OwnInv, Ownership!StartOver PROVE OwnInv'
<1>1. Sizes
  BY DEF OwnInv
<1>2. PICK m \in {"pool", "direct", "mmap"}, k \in PoolSlots : host' = Ownership!INITIAL(m, k)
  BY DEF Ownership!StartOver
<1>3. latest' = [p \in DataPage |-> 0]
  BY DEF Ownership!StartOver
<1>4. Good(host', latest')
  BY <1>1, <1>2, <1>3, Started
<1>5. latest' \in [DataPage -> 0 .. MaxLsn]
  BY <1>1, <1>3 DEF Sizes
<1> QED BY <1>1, <1>4, <1>5, OwnNext

LEMMA OwnStep ==
  OwnInv /\ [Ownership!OwnershipStep]_(Ownership!ownershipVars) => OwnInv'
<1> SUFFICES ASSUME OwnInv, [Ownership!OwnershipStep]_(Ownership!ownershipVars) PROVE OwnInv'
  OBVIOUS
<1>1. CASE UNCHANGED Ownership!ownershipVars
  <2>1. host' = host /\ latest' = latest
    BY <1>1 DEF Ownership!ownershipVars
  <2> QED BY <2>1 DEF OwnInv, Sizes
<1> QED
  BY <1>1, OwnRead, OwnWrite, OwnSync, OwnWriteback, OwnCrash, OwnStartsOver
  DEF Ownership!OwnershipStep

-------------------------------------------------------------------------------
(* What the invariant says of the copies. *)
LEMMA OwnTypes == ASSUME OwnInv PROVE Ownership!OwnershipTypeOK
<1>1. /\ host \in HostT /\ Logged(host) /\ latest \in [DataPage -> 0 .. MaxLsn] /\ MaxLsn \in Nat
  BY DEF OwnInv, Shape, Sizes
<1>2. /\ host.mode \in {"pool", "direct", "mmap"} /\ host.slots \in PoolSlots
      /\ host.pool \in Seq(FrameT) /\ host.cache \in Seq(FrameT)
      /\ host.disk \in [DataPage -> 0 .. MaxLsn]
      /\ host.walLsn \in 0 .. MaxLsn /\ host.durableLsn \in 0 .. MaxLsn
  BY <1>1, HostParts
<1>3. ASSUME NEW l \in Seq(FrameT), NEW f \in Ownership!ToSet(l)
      PROVE  f.page \in DataPage /\ f.dirty \in BOOLEAN /\ f.lsn \in 0 .. MaxLsn
  <2>1. PICK i \in DOMAIN l : f = l[i]
    BY <1>3 DEF Ownership!ToSet
  <2> QED BY <2>1, FrameLists
<1>4. \A l \in {host.pool, host.cache} : \A f \in Ownership!ToSet(l) :
        f.page \in DataPage /\ f.dirty \in BOOLEAN /\ f.lsn \in 0 .. MaxLsn
  BY <1>2, <1>3
<1>5. host.durableLsn \in 0 .. host.walLsn
  BY <1>1, <1>2 DEF Logged
<1>6. \A p \in DataPage : host.disk[p] \in 0 .. MaxLsn /\ latest[p] \in 0 .. MaxLsn
  BY <1>1, <1>2
<1> QED BY <1>2, <1>4, <1>5, <1>6 DEF Ownership!OwnershipTypeOK

LEMMA OwnLogged == ASSUME OwnInv PROVE Ownership!KernelSeesOnlyLogged
<1>1. Logged(host)
  BY DEF OwnInv
<1>2. ASSUME NEW f \in Ownership!ToSet(host.cache) PROVE Sees(host.cache, f.page, f.lsn)
  BY <1>2 DEF Ownership!ToSet, Sees
<1> QED BY <1>1, <1>2 DEF Logged, Ownership!KernelSeesOnlyLogged

LEMMA OneFrame ==
  ASSUME NEW l, Once(l), NEW p PROVE Ownership!Cardinality(Ownership!At(l, p)) <= 1
<1> DEFINE S == Ownership!At(l, p)
<1>1. CASE S = {}
  <2>1. Cardinality({}) = 0
    BY FS_EmptySet
  <2> QED BY <1>1, <2>1, Counted
<1>2. CASE S # {}
  <2>1. PICK i : i \in S
    BY <1>2
  <2>2. S = {i}
    BY <2>1 DEF Ownership!At, Once
  <2>3. Cardinality({i}) = 1
    BY FS_Singleton
  <2> HIDE DEF S
  <2>4. Ownership!Cardinality(S) = 1
    BY <2>2, <2>3, Counted
  <2> QED BY <2>4 DEF S
<1> QED BY <1>1, <1>2

LEMMA OwnFound == ASSUME OwnInv PROVE Ownership!NewestFound
<1>1. /\ Sizes /\ Shape(host) /\ host \in HostT /\ latest \in [DataPage -> 0 .. MaxLsn]
      /\ host.pool \in Seq(FrameT) /\ host.cache \in Seq(FrameT)
      /\ Once(host.pool) /\ Once(host.cache)
  BY HostParts DEF OwnInv, Shape
<1>2. ASSUME ~host.crashed, NEW p \in DataPage PROVE Ownership!Found(p) = latest[p]
  <2>1. Coherent(host, latest)
    BY <1>2 DEF OwnInv
  <2>2. CASE Has(host.pool, p)
    <3> DEFINE n == host.pool[CHOOSE i \in Ownership!At(host.pool, p) : TRUE].lsn
    <3>1. Ownership!At(host.pool, p) # {} /\ Sees(host.pool, p, n)
      BY <1>1, <2>2, ChosenSees
    <3>2. Ownership!Found(p) = n
      BY <3>1 DEF Ownership!Found
    <3> HIDE DEF n
    <3> QED BY <2>1, <3>1, <3>2 DEF Coherent
  <2>3. CASE ~Has(host.pool, p) /\ Has(host.cache, p)
    <3> DEFINE n == host.cache[CHOOSE i \in Ownership!At(host.cache, p) : TRUE].lsn
    <3>1. Ownership!At(host.cache, p) # {} /\ Sees(host.cache, p, n)
      BY <1>1, <2>3, ChosenSees
    <3>2. Ownership!Found(p) = n
      BY <2>3, <3>1, AtIsHas DEF Ownership!Found
    <3> HIDE DEF n
    <3>3. Sees(host.cache, p, latest[p])
      BY <2>1, <2>3 DEF Coherent, Below
    <3> QED BY <1>1, <3>1, <3>2, <3>3, SeesOne
  <2>4. CASE ~Has(host.pool, p) /\ ~Has(host.cache, p)
    <3>1. Ownership!Found(p) = host.disk[p]
      BY <2>4, AtIsHas DEF Ownership!Found
    <3> QED BY <2>1, <2>4, <3>1 DEF Coherent, Below
  <2> QED BY <2>2, <2>3, <2>4
<1>3. ASSUME ~host.crashed, NEW p \in DataPage, NEW n \in Ownership!Copies(p) PROVE n <= latest[p]
  <2>1. Coherent(host, latest)
    BY <1>3 DEF OwnInv
  <2>2. Sees(host.pool, p, n) \/ Sees(host.cache, p, n)
    BY <1>3 DEF Ownership!Copies, Ownership!ToSet, Sees
  <2>3. latest[p] \in 0 .. MaxLsn
    BY <1>1
  <2> QED BY <2>1, <2>2, <2>3 DEF Coherent
<1>4. Len(host.pool) + Len(host.cache) <= RAM
  <2>1. /\ Len(host.pool) \in Nat /\ Len(host.cache) \in Nat
        /\ Len(host.pool) <= host.slots /\ Len(host.cache) <= Ownership!cacheCap(host)
        /\ host.slots \in Nat /\ Ownership!cacheCap(host) \in Nat /\ RAM \in Nat
    BY <1>1, Caps, FrameLists DEF Shape, Sizes
  <2>2. CASE host.mode = "mmap"
    <3>1. Len(host.pool) = 0 /\ Ownership!cacheCap(host) = RAM
      BY <1>1, <2>2, Caps DEF Shape
    <3> QED BY <2>1, <3>1
  <2>3. CASE host.mode # "mmap"
    <3>1. host.slots + Ownership!cacheCap(host) = RAM
      BY <1>1, <2>3, Caps
    <3> DEFINE a == Len(host.pool)
               b == Len(host.cache)
               c == Ownership!cacheCap(host)
               k == host.slots
    <3>2. a \in Nat /\ b \in Nat /\ c \in Nat /\ k \in Nat /\ a <= k /\ b <= c /\ k + c = RAM
      BY <2>1, <3>1
    <3> HIDE DEF a, b, c, k
    <3>3. a + b <= RAM
      BY <3>2
    <3> QED BY <3>3 DEF a, b
  <2> QED BY <2>2, <2>3
<1>5. \A p \in DataPage :
        /\ Ownership!Cardinality(Ownership!At(host.pool, p)) <= 1
        /\ Ownership!Cardinality(Ownership!At(host.cache, p)) <= 1
  BY <1>1, OneFrame
<1> QED BY <1>2, <1>3, <1>4, <1>5 DEF Ownership!NewestFound

OwnershipSpec == Ownership!OwnershipInit /\ [][Ownership!OwnershipStep]_(Ownership!ownershipVars)

(* CachePathOwnershipLab: for any number of pages and any share of the RAM *)
(* that the pool takes, the copy that an access finds - in the pool, in    *)
(* the page cache, on disk - is the last change of the page, however its   *)
(* frames were evicted and written, and the copies stay within the RAM.    *)
THEOREM AccessFindsTheNewest ==
  ASSUME Ownership!OwnershipAssumption
  PROVE  OwnershipSpec => [](Ownership!OwnershipTypeOK /\ Ownership!NewestFound)
<1>1. Ownership!OwnershipInit => OwnInv
  BY OwnStarts
<1>2. OwnInv => Ownership!OwnershipTypeOK /\ Ownership!NewestFound
  BY OwnTypes, OwnFound
<1> QED BY <1>1, <1>2, OwnStep, PTL DEF OwnershipSpec

(* CachePathOwnershipLab: unless the file is mapped, what the engine has   *)
(* handed to the kernel, whenever the kernel writes it, is in the durable  *)
(* log, and a power cut leaves nothing on disk that redo cannot explain.   *)
THEOREM KernelHasOnlyLogged ==
  ASSUME Ownership!OwnershipAssumption
  PROVE  OwnershipSpec => []Ownership!KernelSeesOnlyLogged
<1>1. Ownership!OwnershipInit => OwnInv
  BY OwnStarts
<1>2. OwnInv => Ownership!KernelSeesOnlyLogged
  BY OwnLogged
<1> QED BY <1>1, <1>2, OwnStep, PTL DEF OwnershipSpec

===============================================================================
