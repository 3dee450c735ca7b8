--------------------------- MODULE WalRecoveryProofs ---------------------------
(***************************************************************************)
(* What holds of WalRecovery for every set of blocks, every length of log  *)
(* and every setting of the switches, up to the promise of DurableStore.   *)
(***************************************************************************)
EXTENDS WalRecovery, TLAPS

(* Each block on disk is a version the durable log knows. *)
DiskInv ==
  \A p \in Page :
    /\ disk[p].lsn \in Updates(p, flushed) \union {0}
    /\ disk[p].val = ValAt(disk[p].lsn)

(* Each block in memory is its latest version, and a clean one is on disk. *)
MemInv ==
  phase = "run" =>
    \A p \in Page : /\ IsLast(mem[p].lsn, p, Insert)
                    /\ mem[p].val = ValAt(mem[p].lsn)
                    /\ p \notin dirty => disk[p] = mem[p]

(* Redo has brought every block past the records it has left behind. *)
CursorInv ==
  /\ phase # "run" =>
       \A p \in Page : \A i \in Updates(p, cursor) : i <= disk[p].lsn
  /\ phase = "done" => cursor = flushed

Inv == TypeOK /\ DiskInv /\ MemInv /\ RedoPointSound /\ CursorInv

-------------------------------------------------------------------------------
(* Appending a record changes nothing about the records before it. *)
LEMMA AppendRec ==
  ASSUME TypeOK, NEW r \in Rec, recs' = Append(recs, r)
  PROVE  /\ recs' \in Seq(Rec)
         /\ Insert \in Nat
         /\ Insert' = Insert + 1
         /\ recs'[Insert + 1] = r
         /\ \A i \in 1 .. Insert : recs'[i] = recs[i]
BY DEF TypeOK, Insert

LEMMA AppendUpdates ==
  ASSUME TypeOK, NEW r \in Rec, recs' = Append(recs, r), NEW p
  PROVE  /\ \A n \in 0 .. Insert : Updates(p, n)' = Updates(p, n)
         /\ \A i \in 0 .. Insert : ValAt(i)' = ValAt(i)
         /\ Updates(p, Insert)' = IF r.kind = "update" /\ r.page = p
                                   THEN Updates(p, Insert) \union {Insert + 1}
                                   ELSE Updates(p, Insert)
<1>1. /\ Insert \in Nat
      /\ Insert' = Insert + 1
      /\ recs'[Insert + 1] = r
      /\ \A i \in 1 .. Insert : recs'[i] = recs[i]
  BY AppendRec
<1>2. ASSUME NEW n \in 0 .. Insert PROVE Updates(p, n)' = Updates(p, n)
  <2>1. n \in Nat /\ n <= Insert
    BY <1>1
  <2>2. \A i \in 1 .. n : i \in 1 .. Insert
    BY <1>1, <2>1
  <2>3. \A i \in 1 .. n : recs'[i] = recs[i]
    BY <1>1, <2>2
  <2>4. QED BY <2>3 DEF Updates
<1>3. ASSUME NEW i \in 0 .. Insert PROVE ValAt(i)' = ValAt(i)
  <2>1. i # 0 => recs'[i] = recs[i]
    <3>1. i # 0 => i \in 1 .. Insert
      BY <1>1
    <3>2. QED BY <1>1, <3>1
  <2>2. QED BY <2>1 DEF ValAt
<1>4. 1 .. Insert' = (1 .. Insert) \union {Insert + 1}
  BY <1>1
<1>5. Updates(p, Insert)' = IF r.kind = "update" /\ r.page = p
                             THEN Updates(p, Insert) \union {Insert + 1}
                             ELSE Updates(p, Insert)
  BY <1>1, <1>4 DEF Updates
<1>6. QED BY <1>2, <1>3, <1>5

(* Keeping the log keeps what is said about it. *)
LEMMA SameLog ==
  ASSUME recs' = recs, NEW p, NEW n
  PROVE  /\ Updates(p, n)' = Updates(p, n)
         /\ \A i : ValAt(i)' = ValAt(i)
         /\ \A i : IsLast(i, p, n)' <=> IsLast(i, p, n)
BY DEF Updates, ValAt, IsLast

LEMMA UpdatesRange ==
  ASSUME NEW p, NEW n \in Nat
  PROVE  /\ Updates(p, n) \subseteq 1 .. n
         /\ 0 \notin Updates(p, n)
         /\ \A m \in Nat : m <= n => Updates(p, m) \subseteq Updates(p, n)
         /\ \A i \in Updates(p, n), m \in Nat : i <= m => i \in Updates(p, m)
BY DEF Updates

LEMMA LastIs ==
  ASSUME NEW p, NEW n \in Nat, NEW i, IsLast(i, p, n)
  PROVE  Last(p, n) = i
<1>1. i \in 0 .. n
  BY UpdatesRange DEF IsLast
<1>2. ASSUME NEW j \in 0 .. n, IsLast(j, p, n) PROVE j = i
  <2>1. /\ i \in Nat /\ j \in Nat
        /\ i = 0 \/ i \in Updates(p, n)
        /\ j = 0 \/ j \in Updates(p, n)
    BY <1>1, <1>2 DEF IsLast
  <2>2. /\ i \in Updates(p, n) => i <= j
        /\ j \in Updates(p, n) => j <= i
    BY <1>2 DEF IsLast
  <2>3. QED BY <2>1, <2>2
<1>3. QED BY <1>1, <1>2 DEF Last

-------------------------------------------------------------------------------
LEMMA InitInv == Init => Inv
<1> SUFFICES ASSUME Init PROVE Inv
  OBVIOUS
<1>1. /\ recs = <<>> /\ Insert = 0 /\ flushed = 0 /\ redo = 0 /\ cursor = 0
      /\ phase = "run" /\ mem = disk
      /\ \A p \in Page : disk[p] = [val |-> 0, lsn |-> 0]
  BY DEF Init, Insert
<1>2. TypeOK
  <2>1. recs \in Seq(Rec) /\ Insert <= MaxRecs
    BY <1>1, RecsAssumption
  <2>2. mem \in [Page -> Block] /\ disk \in [Page -> Block]
    BY DEF Init, Block
  <2>3. /\ flushed \in 0 .. Insert /\ redo \in 0 .. flushed
        /\ cursor \in 0 .. flushed
    BY <1>1
  <2>4. /\ dirty \subseteq Page /\ since \subseteq Page /\ open \in BOOLEAN
        /\ acks \subseteq [lsn : 1 .. Insert, durable : BOOLEAN]
    BY DEF Init
  <2>5. QED BY <1>1, <2>1, <2>2, <2>3, <2>4 DEF TypeOK
<1>3. \A p : Updates(p, 0) = {}
  BY DEF Updates
<1>4. DiskInv
  BY <1>1, <1>3 DEF DiskInv, ValAt
<1>5. MemInv
  BY <1>1, <1>3 DEF MemInv, ValAt, IsLast
<1>6. RedoPointSound /\ CursorInv
  BY <1>1, <1>3 DEF RedoPointSound, CursorInv
<1>7. QED BY <1>2, <1>4, <1>5, <1>6 DEF Inv

(* A step that keeps the log or appends to it, and what it leaves alone. *)
LogStep == recs' = recs \/ \E r \in Rec : recs' = Append(recs, r)

LEMMA OldRecs ==
  ASSUME TypeOK, LogStep
  PROVE  /\ recs' \in Seq(Rec)
         /\ Insert \in Nat /\ Insert' \in Nat /\ Insert <= Insert'
         /\ \A q : \A n \in 0 .. Insert : Updates(q, n)' = Updates(q, n)
         /\ \A i \in 0 .. Insert : ValAt(i)' = ValAt(i)
<1>1. CASE recs' = recs
  BY <1>1, SameLog DEF TypeOK, Insert
<1>2. ASSUME NEW r \in Rec, recs' = Append(recs, r)
      PROVE  /\ recs' \in Seq(Rec)
             /\ Insert \in Nat /\ Insert' \in Nat /\ Insert <= Insert'
             /\ \A q : \A n \in 0 .. Insert : Updates(q, n)' = Updates(q, n)
             /\ \A i \in 0 .. Insert : ValAt(i)' = ValAt(i)
  <2>1. /\ recs' \in Seq(Rec) /\ Insert \in Nat /\ Insert' = Insert + 1
    BY <1>2, AppendRec
  <2>2. /\ \A q : \A n \in 0 .. Insert : Updates(q, n)' = Updates(q, n)
        /\ \A i \in 0 .. Insert : ValAt(i)' = ValAt(i)
    BY <1>2, AppendUpdates
  <2>3. QED BY <2>1, <2>2
<1>3. QED BY <1>1, <1>2 DEF LogStep

(* The blocks on disk stay within the durable log as it grows. *)
LEMMA DiskKept ==
  ASSUME TypeOK, DiskInv, LogStep, disk' = disk,
         flushed' \in Nat, flushed <= flushed'
  PROVE  DiskInv'
<1> SUFFICES ASSUME NEW q \in Page, NEW n \in Nat, n = flushed'
             PROVE  /\ disk[q].lsn \in Updates(q, n)' \union {0}
                    /\ disk[q].val = ValAt(disk[q].lsn)'
  BY DEF DiskInv, Updates, ValAt
<1> DEFINE d == disk[q].lsn
<1>1. /\ d \in Updates(q, flushed) \union {0}
      /\ disk[q].val = ValAt(d)
      /\ flushed \in 0 .. Insert /\ flushed \in Nat
  BY OldRecs DEF DiskInv, TypeOK
<1>2. /\ d \in 0 .. Insert
      /\ d # 0 => d \in 1 .. flushed
      /\ d # 0 => d \in 1 .. n
  BY <1>1, OldRecs, UpdatesRange
<1>3. ValAt(d)' = ValAt(d)
  <2>1. \A i \in 0 .. Insert : ValAt(i)' = ValAt(i)
    BY OldRecs
  <2>2. QED BY <1>2, <2>1 DEF ValAt
<1>4. d # 0 => d \in Updates(q, n)'
  <2>1. d # 0 => d \in Updates(q, flushed)
    BY <1>1
  <2>2. ASSUME NEW m \in 0 .. Insert PROVE Updates(q, m)' = Updates(q, m)
    BY OldRecs
  <2>3. d # 0 => recs'[d].kind = "update" /\ recs'[d].page = q
    <3>1. ASSUME NEW m \in 0 .. Insert, m = flushed, d # 0
          PROVE  d \in Updates(q, m)'
      BY <2>1, <2>2, <3>1
    <3>2. QED BY <1>1, <3>1 DEF Updates
  <2>4. QED BY <1>2, <2>3 DEF Updates
<1>5. QED BY <1>1, <1>3, <1>4

(* Nothing new appears before the redo point. *)
LEMMA RedoKept ==
  ASSUME TypeOK, RedoPointSound, LogStep, redo' = redo,
         \A p \in Page : disk[p].lsn <= disk'[p].lsn,
         disk' \in [Page -> Block]
  PROVE  RedoPointSound'
<1>1. redo \in 0 .. Insert
  BY OldRecs DEF TypeOK
<1>2. ASSUME NEW p \in Page, NEW i \in Updates(p, redo)' PROVE i <= disk'[p].lsn
  <2>1. ASSUME NEW m \in 0 .. Insert, m = redo PROVE i \in Updates(p, m)
    <3>1. Updates(p, m)' = Updates(p, m)
      BY OldRecs
    <3>2. QED BY <2>1, <3>1 DEF Updates
  <2>2. i \in Updates(p, redo)
    BY <1>1, <2>1
  <2>3. i <= disk[p].lsn /\ i \in Nat
    BY <1>1, <2>2, UpdatesRange, OldRecs DEF RedoPointSound
  <2>4. disk[p].lsn \in Nat /\ disk'[p].lsn \in Nat
    BY DEF TypeOK, Block
  <2>5. QED BY <2>3, <2>4
<1>3. QED BY <1>2 DEF RedoPointSound

LEMMA NewestKept ==
  ASSUME TypeOK, NEW r \in Rec, recs' = Append(recs, r), r.kind # "update",
         NEW p, NEW i, IsLast(i, p, Insert)
  PROVE  IsLast(i, p, Insert)' /\ ValAt(i)' = ValAt(i)
<1>1. Updates(p, Insert)' = Updates(p, Insert) /\ Insert \in Nat
  BY AppendUpdates, AppendRec
<1>2. i \in 0 .. Insert
  BY <1>1, UpdatesRange DEF IsLast
<1>3. \A j \in 0 .. Insert : ValAt(j)' = ValAt(j)
  BY AppendUpdates
<1>4. QED BY <1>1, <1>2, <1>3 DEF IsLast, ValAt

-------------------------------------------------------------------------------
LEMMA UpdateStep ==
  ASSUME Inv, NEW p \in Page, NEW fpw \in BOOLEAN, Update(p, fpw)
  PROVE  Inv'
<1> DEFINE r == UpdateRec(p, fpw)
<1>1. /\ phase = "run" /\ Insert < MaxRecs
      /\ recs' = Append(recs, r)
      /\ mem' = [mem EXCEPT ![p] = [val |-> mem[p].val + 1, lsn |-> Insert + 1]]
      /\ dirty' = dirty \union {p}
      /\ since' = since \union {p}
      /\ open' = TRUE
      /\ UNCHANGED <<flushed, redo, disk, acks, phase, cursor>>
  BY DEF Update, Appends, HasRoom
<1>2. /\ TypeOK /\ Insert \in Nat
      /\ flushed \in Nat /\ flushed <= Insert
      /\ mem[p].val \in Nat
  BY DEF Inv, TypeOK, Insert, Block
<1>3. r \in Rec /\ r.kind = "update" /\ r.page = p /\ r.val = mem[p].val + 1
  BY <1>2 DEF UpdateRec, Rec
<1>4. /\ recs' \in Seq(Rec) /\ Insert' = Insert + 1 /\ recs'[Insert + 1] = r
  BY <1>1, <1>2, <1>3, AppendRec
<1>5. LogStep
  BY <1>1, <1>3 DEF LogStep
<1>6. TypeOK'
  <2>1. mem' \in [Page -> Block]
    BY <1>1, <1>2 DEF TypeOK, Block
  <2>2. Insert' <= MaxRecs /\ flushed' \in 0 .. Insert'
    BY <1>1, <1>2, <1>4, RecsAssumption
  <2>3. acks' \subseteq [lsn : 1 .. Insert', durable : BOOLEAN]
    BY <1>1, <1>2, <1>4 DEF TypeOK
  <2>4. QED BY <1>1, <1>2, <1>4, <2>1, <2>2, <2>3 DEF TypeOK
<1>7. DiskInv'
  BY <1>1, <1>2, <1>5, DiskKept DEF Inv
<1>8. MemInv'
  <2> SUFFICES ASSUME NEW q \in Page
               PROVE  /\ IsLast(mem[q].lsn, q, Insert)'
                      /\ mem'[q].val = ValAt(mem[q].lsn)'
                      /\ q \notin dirty' => disk'[q] = mem'[q]
    BY DEF MemInv
  <2>1. /\ IsLast(mem[q].lsn, q, Insert)
        /\ mem[q].val = ValAt(mem[q].lsn)
        /\ q \notin dirty => disk[q] = mem[q]
    BY <1>1 DEF Inv, MemInv
  <2>2. /\ Updates(q, Insert)' = IF p = q
                                 THEN Updates(q, Insert) \union {Insert + 1}
                                 ELSE Updates(q, Insert)
        /\ \A i \in 0 .. Insert : ValAt(i)' = ValAt(i)
    BY <1>1, <1>2, <1>3, AppendUpdates
  <2>3. CASE q = p
    <3>1. mem'[q] = [val |-> mem[p].val + 1, lsn |-> Insert + 1]
      BY <1>1, <2>3 DEF Inv, TypeOK
    <3>2. IsLast(mem[q].lsn, q, Insert)'
      BY <1>2, <2>2, <2>3, <3>1, UpdatesRange DEF IsLast
    <3>3. mem'[q].val = ValAt(mem[q].lsn)'
      BY <1>2, <1>3, <1>4, <3>1 DEF ValAt
    <3>4. QED BY <1>1, <2>3, <3>2, <3>3
  <2>4. CASE q # p
    <3>1. mem'[q] = mem[q]
      BY <1>1, <2>4 DEF Inv, TypeOK
    <3>2. mem[q].lsn \in 0 .. Insert
      BY <1>2, <2>1, UpdatesRange DEF IsLast
    <3>3. IsLast(mem[q].lsn, q, Insert)'
      BY <2>1, <2>2, <2>4, <3>1 DEF IsLast
    <3>4. mem'[q].val = ValAt(mem[q].lsn)'
      BY <2>1, <2>2, <3>1, <3>2 DEF ValAt
    <3>5. QED BY <1>1, <2>1, <2>4, <3>1, <3>3, <3>4
  <2>5. QED BY <2>3, <2>4
<1>9. RedoPointSound'
  BY <1>1, <1>2, <1>5, RedoKept DEF Inv, TypeOK, Block
<1>10. CursorInv'
  BY <1>1 DEF CursorInv
<1>11. QED BY <1>6, <1>7, <1>8, <1>9, <1>10 DEF Inv

LEMMA PlainRecType ==
  ASSUME NEW k \in {"commit", "ckpt"}
  PROVE  PlainRec(k) \in Rec /\ PlainRec(k).kind = k
BY DEF PlainRec, Rec

LEMMA CommitStep ==
  ASSUME Inv, NEW sync \in BOOLEAN, Commit(sync) PROVE Inv'
<1> DEFINE r == PlainRec("commit")
<1>1. /\ phase = "run" /\ Insert < MaxRecs
      /\ recs' = Append(recs, r)
      /\ flushed' = IF sync THEN Insert + 1 ELSE flushed
      /\ acks' = acks \union {[lsn |-> Insert + 1, durable |-> sync]}
      /\ open' = FALSE
      /\ UNCHANGED <<redo, mem, disk, dirty, since, phase, cursor>>
  BY DEF Commit, Appends, HasRoom, FlushedByCommit
<1>2. /\ TypeOK /\ Insert \in Nat
      /\ flushed \in Nat /\ flushed <= Insert
      /\ redo \in 0 .. flushed /\ cursor \in 0 .. flushed
  BY DEF Inv, TypeOK, Insert
<1>3. r \in Rec /\ r.kind # "update"
  BY PlainRecType
<1>4. recs' \in Seq(Rec) /\ Insert' = Insert + 1
  BY <1>1, <1>2, <1>3, AppendRec
<1>5. LogStep
  BY <1>1, <1>3 DEF LogStep
<1>6. flushed' \in Nat /\ flushed <= flushed' /\ flushed' <= Insert'
  BY <1>1, <1>2, <1>4
<1>7. TypeOK'
  <2>1. Insert' <= MaxRecs /\ flushed' \in 0 .. Insert'
        /\ redo' \in 0 .. flushed' /\ cursor' \in 0 .. flushed'
    BY <1>1, <1>2, <1>4, <1>6, RecsAssumption
  <2>2. acks' \subseteq [lsn : 1 .. Insert', durable : BOOLEAN]
    BY <1>1, <1>2, <1>4 DEF TypeOK
  <2>3. QED BY <1>1, <1>2, <1>4, <2>1, <2>2 DEF TypeOK
<1>8. DiskInv'
  BY <1>1, <1>2, <1>5, <1>6, DiskKept DEF Inv
<1>9. MemInv'
  <2> SUFFICES ASSUME NEW q \in Page
               PROVE  /\ IsLast(mem[q].lsn, q, Insert)'
                      /\ mem'[q].val = ValAt(mem[q].lsn)'
                      /\ q \notin dirty' => disk'[q] = mem'[q]
    BY DEF MemInv
  <2>1. /\ IsLast(mem[q].lsn, q, Insert)
        /\ mem[q].val = ValAt(mem[q].lsn)
        /\ q \notin dirty => disk[q] = mem[q]
    BY <1>1 DEF Inv, MemInv
  <2>2. ASSUME NEW i, i = mem[q].lsn
        PROVE  IsLast(i, q, Insert)' /\ ValAt(i)' = ValAt(i)
    BY <1>1, <1>2, <1>3, <2>1, <2>2, NewestKept
  <2>3. QED BY <1>1, <2>1, <2>2 DEF IsLast, ValAt
<1>10. RedoPointSound'
  BY <1>1, <1>2, <1>5, RedoKept DEF Inv, TypeOK, Block
<1>11. CursorInv'
  BY <1>1 DEF CursorInv
<1>12. QED BY <1>7, <1>8, <1>9, <1>10, <1>11 DEF Inv

LEMMA FlushLogStep == ASSUME Inv, FlushLog PROVE Inv'
<1>1. /\ phase = "run" /\ flushed' = Insert
      /\ UNCHANGED <<recs, redo, mem, disk, dirty, since, open, acks, phase,
                     cursor>>
  BY DEF FlushLog
<1>2. /\ TypeOK /\ Insert \in Nat /\ Insert' = Insert /\ LogStep
      /\ flushed \in Nat /\ flushed <= flushed' /\ flushed' \in Nat
      /\ redo \in 0 .. flushed /\ cursor \in 0 .. flushed
  BY <1>1 DEF Inv, TypeOK, Insert, LogStep
<1>3. TypeOK'
  <2>1. /\ flushed' \in 0 .. Insert'
        /\ redo' \in 0 .. flushed' /\ cursor' \in 0 .. flushed'
    BY <1>1, <1>2
  <2>2. QED BY <1>1, <1>2, <2>1 DEF TypeOK
<1>4. DiskInv'
  BY <1>1, <1>2, DiskKept DEF Inv
<1>5. MemInv'
  BY <1>1, <1>2, SameLog DEF Inv, MemInv, IsLast, ValAt, Updates
<1>6. RedoPointSound'
  BY <1>1, <1>2, RedoKept DEF Inv, TypeOK, Block
<1>7. CursorInv'
  BY <1>1 DEF CursorInv
<1>8. QED BY <1>3, <1>4, <1>5, <1>6, <1>7 DEF Inv

(* Writing blocks whose log is durable, in place or at a checkpoint. *)
LEMMA WriteBlockStep ==
  ASSUME Inv, NEW p \in Page, WriteBlock(p) PROVE Inv'
<1>1. /\ phase = "run" /\ mem[p].lsn <= flushed
      /\ disk' = [disk EXCEPT ![p] = mem[p]]
      /\ dirty' = dirty \ {p}
      /\ UNCHANGED <<recs, flushed, redo, mem, since, open, acks, phase, cursor>>
  BY DEF WriteBlock, Writable
<1>2. /\ TypeOK /\ Insert \in Nat /\ Insert' = Insert /\ LogStep
      /\ flushed \in Nat /\ mem[p] \in Block
      /\ IsLast(mem[p].lsn, p, Insert) /\ mem[p].val = ValAt(mem[p].lsn)
  BY <1>1 DEF Inv, TypeOK, Insert, LogStep, MemInv
<1>3. TypeOK'
  BY <1>1, <1>2 DEF TypeOK
<1>4. /\ disk'[p] = mem[p]
      /\ \A q \in Page \ {p} : disk'[q] = disk[q]
  BY <1>1, <1>2 DEF TypeOK
<1>5. mem[p].lsn \in Updates(p, flushed) \union {0}
  BY <1>1, <1>2, UpdatesRange DEF IsLast
<1>6. DiskInv'
  <2>1. DiskInv
    BY DEF Inv
  <2>2. QED BY <1>1, <1>2, <1>4, <1>5, <2>1 DEF DiskInv, Updates, ValAt
<1>7. MemInv'
  BY <1>1, <1>4 DEF Inv, MemInv, IsLast, ValAt, Updates, Insert
<1>8. \A q \in Page : disk[q].lsn <= disk'[q].lsn
  <2>1. disk[p].lsn \in Updates(p, Insert) \union {0}
    BY <1>2, UpdatesRange DEF Inv, DiskInv, TypeOK
  <2>2. disk[p].lsn <= mem[p].lsn
    BY <1>2, <2>1 DEF IsLast, Block
  <2>3. \A q \in Page : disk[q].lsn \in Nat
    BY DEF Inv, TypeOK, Block
  <2>4. QED BY <1>4, <2>2, <2>3
<1>9. RedoPointSound'
  BY <1>1, <1>2, <1>3, <1>8, RedoKept DEF Inv, TypeOK
<1>10. CursorInv'
  BY <1>1 DEF CursorInv
<1>11. QED BY <1>3, <1>6, <1>7, <1>9, <1>10 DEF Inv

LEMMA CheckpointStep == ASSUME Inv, Checkpoint PROVE Inv'
<1> DEFINE r == PlainRec("ckpt")
<1>1. /\ phase = "run" /\ Insert < MaxRecs
      /\ recs' = Append(recs, r)
      /\ redo' = Insert /\ flushed' = Insert + 1
      /\ disk' = [p \in Page |-> IF p \in dirty THEN mem[p] ELSE disk[p]]
      /\ dirty' = {} /\ since' = {}
      /\ UNCHANGED <<mem, open, acks, phase, cursor>>
  BY DEF Checkpoint, Appends, HasRoom, CkptWrites, SinceAfterCkpt
<1>2. /\ TypeOK /\ Insert \in Nat
      /\ flushed \in 0 .. Insert /\ cursor \in 0 .. flushed
  BY DEF Inv, TypeOK, Insert
<1>3. r \in Rec /\ r.kind # "update"
  BY PlainRecType
<1>4. /\ recs' \in Seq(Rec) /\ Insert' = Insert + 1
      /\ flushed' = Insert' /\ flushed' \in Nat
  BY <1>1, <1>2, <1>3, AppendRec
<1>5. ASSUME NEW p \in Page PROVE disk'[p] = mem[p]
  BY <1>1 DEF Inv, MemInv
<1>6. TypeOK'
  <2>1. /\ Insert' <= MaxRecs /\ flushed' \in 0 .. Insert'
        /\ redo' \in 0 .. flushed' /\ cursor' \in 0 .. flushed'
    BY <1>1, <1>2, <1>4, RecsAssumption
  <2>2. acks' \subseteq [lsn : 1 .. Insert', durable : BOOLEAN]
    BY <1>1, <1>2, <1>4 DEF TypeOK
  <2>3. disk' \in [Page -> Block]
    BY <1>1, <1>2 DEF TypeOK
  <2>4. QED BY <1>1, <1>2, <1>4, <2>1, <2>2, <2>3 DEF TypeOK
<1>7. ASSUME NEW p \in Page
      PROVE  /\ IsLast(mem[p].lsn, p, Insert)'
             /\ mem'[p].val = ValAt(mem[p].lsn)'
             /\ \A i \in Updates(p, Insert) : i <= mem[p].lsn
  <2>1. IsLast(mem[p].lsn, p, Insert) /\ mem[p].val = ValAt(mem[p].lsn)
    BY <1>1 DEF Inv, MemInv
  <2>2. ASSUME NEW i, i = mem[p].lsn
        PROVE  IsLast(i, p, Insert)' /\ ValAt(i)' = ValAt(i)
    BY <1>1, <1>2, <1>3, <2>1, <2>2, NewestKept
  <2>3. QED BY <1>1, <2>1, <2>2 DEF IsLast, ValAt
<1>8. DiskInv'
  BY <1>1, <1>4, <1>5, <1>7 DEF DiskInv, IsLast, ValAt, Updates
<1>9. MemInv'
  BY <1>1, <1>5, <1>7 DEF MemInv
<1>10. RedoPointSound'
  <2>1. ASSUME NEW p \in Page, NEW i \in Updates(p, redo)'
        PROVE  i <= disk'[p].lsn
    <3>1. ASSUME NEW n \in 0 .. Insert, n = Insert PROVE i \in Updates(p, n)
      <4>1. Updates(p, n)' = Updates(p, n)
        BY <1>1, <1>2, <1>3, AppendUpdates
      <4>2. QED BY <1>1, <3>1, <4>1 DEF Updates
    <3>2. i \in Updates(p, Insert)
      BY <1>2, <3>1
    <3>3. QED BY <1>5, <1>7, <3>2
  <2>2. QED BY <2>1 DEF RedoPointSound
<1>11. CursorInv'
  BY <1>1 DEF CursorInv
<1>12. QED BY <1>6, <1>8, <1>9, <1>10, <1>11 DEF Inv

(* Redo starts exactly where the redo point guarantees it may. *)
LEMMA CrashStart ==
  ASSUME TypeOK, Crash PROVE cursor' = redo
<1>1. redo \in Nat /\ flushed \in Nat /\ redo <= flushed
  BY DEF TypeOK, Insert
<1>2. CASE RedoRange = {} /\ cursor' = flushed
  <2>1. redo < flushed => redo + 1 \in RedoRange
    BY <1>1 DEF RedoRange, Survivors
  <2>2. QED BY <1>1, <1>2, <2>1
<1>3. ASSUME NEW i \in RedoRange, RedoStart(i), cursor' = i - 1
      PROVE  cursor' = redo
  <2>1. i \in Nat /\ i <= flushed /\ i - 1 >= redo
    BY <1>1 DEF RedoRange, Survivors
  <2>2. redo + 1 \in RedoRange
    BY <1>1, <2>1 DEF RedoRange, Survivors
  <2>3. i <= redo + 1
    BY <1>3, <2>2 DEF RedoStart
  <2>4. QED BY <1>1, <1>3, <2>1, <2>3
<1>4. QED BY <1>2, <1>3 DEF Crash

LEMMA CrashStep == ASSUME Inv, Crash PROVE Inv'
<1>1. /\ phase' = "crashed" /\ mem' = disk /\ dirty' = {} /\ open' = FALSE
      /\ UNCHANGED <<recs, flushed, redo, disk, since, acks>>
      /\ cursor' = redo
  BY CrashStart DEF Crash, Inv
<1>2. TypeOK'
  BY <1>1 DEF Inv, TypeOK, Insert
<1>3. DiskInv' /\ RedoPointSound'
  BY <1>1 DEF Inv, DiskInv, RedoPointSound, Updates, ValAt
<1>4. MemInv'
  BY <1>1 DEF MemInv
<1>5. CursorInv'
  BY <1>1 DEF Inv, RedoPointSound, CursorInv, Updates
<1>6. QED BY <1>2, <1>3, <1>4, <1>5 DEF Inv

(* What replaying record i does to the blocks. *)
LEMMA RedoBlock ==
  ASSUME Inv, NEW i \in 1 .. flushed, Redo(i), NEW p \in Page
  PROVE  /\ disk'[p] = IF recs[i].kind = "update" /\ recs[i].page = p
                          /\ i > disk[p].lsn
                       THEN [val |-> recs[i].val, lsn |-> i]
                       ELSE disk[p]
         /\ disk[p].lsn \in Nat
         /\ disk[p].lsn <= disk'[p].lsn
<1>1. disk \in [Page -> Block] /\ disk[p].lsn \in Nat /\ i \in Nat
  BY DEF Inv, TypeOK, Block, Insert
<1>2. disk'[p] = IF recs[i].kind = "update" /\ recs[i].page = p
                    /\ i > disk[p].lsn
                 THEN [val |-> recs[i].val, lsn |-> i]
                 ELSE disk[p]
  BY <1>1 DEF Redo, Newer
<1>3. QED BY <1>1, <1>2

LEMMA RedoRecStep ==
  ASSUME Inv, RedoStep, cursor < flushed PROVE Inv'
<1> DEFINE i == cursor + 1
           r == recs[i]
<1>1. /\ phase \in {"crashed", "replay"}
      /\ Redo(i) /\ cursor' = i
      /\ phase' = IF i >= flushed THEN "done" ELSE "replay"
      /\ UNCHANGED <<recs, flushed, redo, dirty, since, open, acks>>
  <2>1. cursor \in Nat /\ flushed \in Nat
    BY DEF Inv, TypeOK, Insert
  <2>2. QED BY <2>1 DEF RedoStep
<1>2. /\ TypeOK /\ LogStep /\ Insert \in Nat /\ Insert' = Insert
      /\ cursor \in Nat /\ flushed \in Nat /\ flushed <= Insert
      /\ i \in 1 .. flushed /\ i \in 1 .. Insert
      /\ r \in Rec
  BY <1>1 DEF Inv, TypeOK, LogStep, Insert
<1>3. ASSUME NEW p \in Page
      PROVE  /\ disk'[p] = IF r.kind = "update" /\ r.page = p /\ i > disk[p].lsn
                           THEN [val |-> r.val, lsn |-> i] ELSE disk[p]
             /\ disk[p].lsn \in Nat
             /\ disk[p].lsn <= disk'[p].lsn
  BY <1>1, <1>2, RedoBlock
<1>4. [val |-> r.val, lsn |-> i] \in Block
  BY <1>2 DEF Rec, Block
<1>5. disk' \in [Page -> Block] /\ mem' \in [Page -> Block]
  BY <1>1, <1>2, <1>4 DEF Redo, TypeOK
<1>6. TypeOK'
  <2>1. cursor' \in 0 .. flushed'
    BY <1>1, <1>2
  <2>2. QED BY <1>1, <1>2, <1>5, <2>1 DEF TypeOK
<1>7. DiskInv'
  <2> SUFFICES ASSUME NEW p \in Page
               PROVE  /\ disk'[p].lsn \in Updates(p, flushed) \union {0}
                      /\ disk'[p].val = ValAt(disk[p].lsn)'
    BY <1>1 DEF DiskInv, Updates
  <2>1. /\ disk[p].lsn \in Updates(p, flushed) \union {0}
        /\ disk[p].val = ValAt(disk[p].lsn)
    BY DEF Inv, DiskInv
  <2>2. CASE r.kind = "update" /\ r.page = p /\ i > disk[p].lsn
    <3>1. disk'[p] = [val |-> r.val, lsn |-> i]
      BY <1>3, <2>2
    <3>2. i \in Updates(p, flushed) /\ i # 0
      BY <1>2, <2>2 DEF Updates
    <3>3. QED BY <1>1, <3>1, <3>2 DEF ValAt
  <2>3. CASE ~(r.kind = "update" /\ r.page = p /\ i > disk[p].lsn)
    <3>1. disk'[p] = disk[p]
      BY <1>3, <2>3
    <3>2. QED BY <1>1, <2>1, <3>1 DEF ValAt
  <2>4. QED BY <2>2, <2>3
<1>8. MemInv'
  BY <1>1 DEF MemInv
<1>9. RedoPointSound'
  BY <1>1, <1>2, <1>3, <1>5, RedoKept DEF Inv
<1>10. CursorInv'
  <2>1. phase' = "done" => cursor' = flushed'
    BY <1>1, <1>2
  <2>2. ASSUME NEW p \in Page, NEW j \in Updates(p, i) PROVE j <= disk'[p].lsn
    <3>1. j \in Nat /\ (j = i \/ j \in Updates(p, cursor))
      BY <1>2 DEF Updates
    <3>2. CASE j = i
      <4>1. r.kind = "update" /\ r.page = p
        BY <3>2 DEF Updates
      <4>2. QED BY <1>2, <1>3, <3>2, <4>1
    <3>3. CASE j \in Updates(p, cursor)
      <4>1. j <= disk[p].lsn
        BY <1>1, <3>3 DEF Inv, CursorInv
      <4>2. disk'[p].lsn \in Nat
        BY <1>5 DEF Block
      <4>3. QED BY <1>3, <3>1, <4>1, <4>2
    <3>4. QED BY <3>1, <3>2, <3>3
  <2>3. QED BY <1>1, <2>1, <2>2 DEF CursorInv, Updates
<1>11. QED BY <1>6, <1>7, <1>8, <1>9, <1>10 DEF Inv

LEMMA RedoEndStep ==
  ASSUME Inv, RedoStep, ~(cursor < flushed) PROVE Inv'
<1>1. cursor \in 0 .. flushed /\ flushed \in Nat
  BY DEF Inv, TypeOK, Insert
<1>2. /\ phase \in {"crashed", "replay"} /\ phase' = "done"
      /\ cursor = flushed
      /\ UNCHANGED <<recs, flushed, redo, mem, disk, dirty, since, open, acks,
                     cursor>>
  BY <1>1 DEF RedoStep
<1>3. TypeOK'
  BY <1>2 DEF Inv, TypeOK, Insert
<1>4. DiskInv' /\ RedoPointSound'
  BY <1>2 DEF Inv, DiskInv, RedoPointSound, Updates, ValAt
<1>5. MemInv' /\ CursorInv'
  BY <1>2 DEF Inv, MemInv, CursorInv, Updates
<1>6. QED BY <1>3, <1>4, <1>5 DEF Inv

LEMMA ResetStep == Reset => Inv'
<1>1. Reset => Init'
  BY DEF Reset, Init
<1>2. Init' => Inv'
  BY InitInv, PTL
<1>3. QED BY <1>1, <1>2

LEMMA NextInv == Inv /\ [Next]_vars => Inv'
<1> SUFFICES ASSUME Inv, [Next]_vars PROVE Inv'
  OBVIOUS
<1>1. ASSUME NEW p \in Page, NEW fpw \in FpwChoices, Update(p, fpw) PROVE Inv'
  BY <1>1, UpdateStep, FlagAssumption
<1>2. ASSUME NEW sync \in SyncChoices, Commit(sync) PROVE Inv'
  BY <1>2, CommitStep, FlagAssumption
<1>3. ASSUME NEW p \in Page, WriteBlock(p) PROVE Inv'
  BY <1>3, WriteBlockStep
<1>4. CASE FlushLog \/ Checkpoint \/ Crash \/ Reset
  BY <1>4, FlushLogStep, CheckpointStep, CrashStep, ResetStep
<1>5. CASE RedoStep
  BY <1>5, RedoRecStep, RedoEndStep
<1>6. CASE UNCHANGED vars
  <2>1. TypeOK' /\ DiskInv' /\ RedoPointSound'
    BY <1>6 DEF vars, Inv, TypeOK, Insert, DiskInv, RedoPointSound, Updates, ValAt
  <2>2. MemInv' /\ CursorInv'
    BY <1>6 DEF vars, Inv, MemInv, CursorInv, IsLast, Updates, ValAt, Insert
  <2>3. QED BY <2>1, <2>2 DEF Inv
<1>7. QED BY <1>1, <1>2, <1>3, <1>4, <1>5, <1>6 DEF Next

LEMMA InvHolds == Spec => []Inv
BY InitInv, NextInv, PTL DEF Spec

-------------------------------------------------------------------------------
(* Positions stay within the log: nothing is flushed, made the redo point  *)
(* or replayed that was not inserted before.                               *)
THEOREM TypeCorrect == Spec => []TypeOK
<1>1. Inv => TypeOK
  BY DEF Inv
<1>2. QED BY <1>1, InvHolds, PTL

(* The WAL rule, of every write the code does and not of WriteBlock alone. *)
THEOREM LogBeforePage == Spec => []WalRule
<1>1. Inv => WalRule
  <2> SUFFICES ASSUME Inv, NEW p \in Page PROVE disk[p].lsn <= flushed
    BY DEF WalRule
  <2>1. disk[p].lsn \in Updates(p, flushed) \union {0} /\ flushed \in Nat
    BY DEF Inv, DiskInv, TypeOK, Insert
  <2>2. QED BY <2>1, UpdatesRange
<1>2. QED BY <1>1, InvHolds, PTL

(* What lies before the redo point is on disk. *)
THEOREM RedoPointSafe == Spec => []RedoPointSound
<1>1. Inv => RedoPointSound
  BY DEF Inv
<1>2. QED BY <1>1, InvHolds, PTL

(* A block that is past all the updates of a prefix is at the last of them. *)
LEMMA DiskIsLast ==
  ASSUME Inv, phase = "done", NEW p \in Page
  PROVE  IsLast(disk[p].lsn, p, flushed)
BY DEF Inv, DiskInv, CursorInv, IsLast

LEMMA RecoveredNow == Inv => RecoveredAll
<1> SUFFICES ASSUME Inv, phase = "done", NEW p \in Page
             PROVE  disk[p] = [val |-> ValAt(Last(p, flushed)),
                               lsn |-> Last(p, flushed)]
  BY DEF RecoveredAll
<1>1. IsLast(disk[p].lsn, p, flushed) /\ flushed \in Nat
  BY DiskIsLast DEF Inv, TypeOK, Insert
<1>2. Last(p, flushed) = disk[p].lsn
  BY <1>1, LastIs
<1>3. disk[p] \in Block /\ disk[p].val = ValAt(disk[p].lsn)
  BY DEF Inv, TypeOK, DiskInv
<1>4. QED BY <1>2, <1>3 DEF Block

(* Redo rebuilds exactly what the log kept, however much of it was on disk. *)
THEOREM RecoveryComplete == Spec => []RecoveredAll
BY RecoveredNow, InvHolds, PTL

(* Redo never takes a block back. *)
THEOREM RedoMovesForward == Spec => RedoForward
<1>1. Inv /\ RedoStep => \A p \in Page : disk'[p].lsn >= disk[p].lsn
  <2> SUFFICES ASSUME Inv, RedoStep, NEW p \in Page
               PROVE  disk'[p].lsn >= disk[p].lsn
    OBVIOUS
  <2>1. cursor \in Nat /\ flushed \in Nat /\ disk[p].lsn \in Nat
    BY DEF Inv, TypeOK, Insert, Block
  <2>2. CASE cursor < flushed
    <3>1. Redo(cursor + 1) /\ cursor + 1 \in 1 .. flushed
      BY <2>1, <2>2 DEF RedoStep
    <3> DEFINE i == cursor + 1
               hit == recs[i].kind = "update" /\ recs[i].page = p /\ i > disk[p].lsn
    <3>2. /\ disk'[p] = IF hit THEN [val |-> recs[i].val, lsn |-> i] ELSE disk[p]
          /\ disk[p].lsn <= disk'[p].lsn
      BY <3>1, RedoBlock
    <3>3. disk'[p].lsn = i \/ disk'[p].lsn = disk[p].lsn
      BY <3>2
    <3>4. QED BY <2>1, <3>2, <3>3
  <2>3. CASE ~(cursor < flushed)
    BY <2>1, <2>3 DEF RedoStep
  <2>4. QED BY <2>2, <2>3
<1>2. QED BY <1>1, InvHolds, PTL DEF RedoForward

LEMMA AckStep == ASSUME Inv, AckedDurable, [Next]_vars PROVE AckedDurable'
<1>1. /\ flushed \in Nat /\ Insert \in Nat /\ flushed <= Insert
      /\ acks \subseteq [lsn : 1 .. Insert, durable : BOOLEAN]
      /\ \A a \in acks : a.durable => a.lsn <= flushed
  BY DEF Inv, TypeOK, AckedDurable, Insert
<1> SUFFICES ASSUME NEW a \in acks', a.durable
             PROVE  a.lsn <= flushed'
  BY DEF AckedDurable
<1>2. CASE \E sync \in SyncChoices : Commit(sync)
  <2>1. PICK sync \in SyncChoices : Commit(sync)
    BY <1>2
  <2>2. /\ flushed' = IF sync THEN Insert + 1 ELSE flushed
        /\ acks' = acks \union {[lsn |-> Insert + 1, durable |-> sync]}
    BY <2>1 DEF Commit, FlushedByCommit
  <2>3. CASE a \in acks
    <3>1. a.lsn <= flushed /\ a.lsn \in Nat
      BY <1>1, <2>3
    <3>2. QED BY <1>1, <2>2, <3>1
  <2>4. CASE a = [lsn |-> Insert + 1, durable |-> sync]
    BY <1>1, <2>2, <2>4
  <2>5. QED BY <2>2, <2>3, <2>4
<1>3. CASE Checkpoint \/ FlushLog
  <2>1. flushed' \in {Insert, Insert + 1} /\ acks' = acks
    BY <1>3 DEF Checkpoint, FlushLog
  <2>2. a.lsn <= flushed /\ a.lsn \in Nat
    BY <1>1, <2>1
  <2>3. QED BY <1>1, <2>1, <2>2
<1>4. CASE Reset
  BY <1>4 DEF Reset
<1>5. CASE \/ \E p \in Page, fpw \in FpwChoices : Update(p, fpw)
           \/ \E p \in Page : WriteBlock(p)
           \/ Crash \/ RedoStep \/ UNCHANGED vars
  <2>1. flushed' = flushed /\ acks' = acks
    BY <1>5 DEF Update, WriteBlock, Crash, RedoStep, vars
  <2>2. QED BY <1>1, <2>1
<1>6. QED BY <1>2, <1>3, <1>4, <1>5 DEF Next

(* Whoever was told "ok" after a flush keeps the transaction. *)
THEOREM CommitsDurable == Spec => []AckedDurable
<1>1. Init => AckedDurable
  BY DEF Init, AckedDurable
<1>2. Inv /\ AckedDurable /\ [Next]_vars => AckedDurable'
  BY AckStep
<1>3. QED BY <1>1, <1>2, InvHolds, PTL DEF Spec

(* With images on, the pages in since are those changed after the redo     *)
(* point, and each of them has an image there, before any other change.    *)
Touches(i, p) == /\ i \in 1 .. Insert /\ redo < i
                 /\ recs[i].kind = "update" /\ recs[i].page = p
ImageInv ==
  FALSE \notin FpwChoices =>
    \A p \in Page :
      /\ \A i : Touches(i, p) =>
           p \in since /\ \E j : Touches(j, p) /\ j <= i /\ recs[j].fpi
      /\ p \in since => \E j : Touches(j, p) /\ recs[j].fpi

LEMMA ImageUpdate ==
  ASSUME Inv, ImageInv, FALSE \notin FpwChoices, NEW q \in Page,
         NEW fpw \in FpwChoices, Update(q, fpw)
  PROVE  ImageInv'
<1>1. /\ Insert \in Nat /\ Insert' = Insert + 1
      /\ redo \in Nat /\ redo <= Insert /\ redo' = redo
      /\ \A i \in 1 .. Insert : recs'[i] = recs[i]
      /\ recs'[Insert + 1] = UpdateRec(q, fpw)
      /\ since' = since \union {q}
  <2>1. UpdateRec(q, fpw) \in Rec
    BY FlagAssumption DEF UpdateRec, Rec, Inv, TypeOK, Block
  <2>2. recs' = Append(recs, UpdateRec(q, fpw)) /\ TypeOK
    BY DEF Update, Appends, Inv
  <2>3. PICK r : r = UpdateRec(q, fpw)
    OBVIOUS
  <2>4. /\ Insert \in Nat /\ Insert' = Insert + 1
        /\ \A i \in 1 .. Insert : recs'[i] = recs[i]
        /\ recs'[Insert + 1] = r
    BY <2>1, <2>2, <2>3, AppendRec
  <2>5. redo \in 0 .. flushed /\ flushed \in 0 .. Insert
    BY <2>2 DEF TypeOK
  <2>6. redo' = redo /\ since' = since \union {q}
    BY DEF Update
  <2>7. redo \in Nat /\ redo <= Insert
    BY <2>4, <2>5
  <2>8. QED BY <2>3, <2>4, <2>6, <2>7
<1>2. fpw = TRUE
  BY FlagAssumption
<1>3. PICK k : k = Insert + 1
  OBVIOUS
<1>4. /\ recs'[k].kind = "update" /\ recs'[k].page = q
      /\ recs'[k].fpi = (q \notin since)
  BY <1>1, <1>2, <1>3 DEF UpdateRec
<1>5. ASSUME NEW i, NEW p, Touches(i, p)
      PROVE  /\ Touches(i, p)' /\ recs'[i] = recs[i] /\ i < k /\ i \in Nat
  BY <1>1, <1>3, <1>5 DEF Touches
<1>6. ASSUME NEW i, NEW p, Touches(i, p)'
      PROVE  (i = k /\ p = q) \/ (Touches(i, p) /\ recs'[i] = recs[i])
  BY <1>1, <1>3, <1>4, <1>6 DEF Touches
<1>7. Touches(k, q)' /\ k \in Nat
  BY <1>1, <1>3, <1>4 DEF Touches
<1>8. ASSUME NEW p \in Page, p \in since'
      PROVE  \E j : Touches(j, p)' /\ j <= k /\ recs'[j].fpi
  <2>1. CASE p \in since
    <3>1. PICK j : Touches(j, p) /\ recs[j].fpi
      BY <2>1 DEF ImageInv
    <3>2. Touches(j, p)' /\ recs'[j].fpi /\ j < k /\ j \in Nat
      BY <3>1, <1>5
    <3>3. QED BY <3>2, <1>7
  <2>2. CASE p = q /\ p \notin since
    <3>1. recs'[k].fpi
      BY <2>2, <1>4
    <3>2. Touches(k, p)'
      BY <2>2, <1>7
    <3>3. k <= k
      BY <1>7
    <3>4. QED BY <3>1, <3>2, <3>3
  <2>3. QED BY <1>1, <1>8, <2>1, <2>2
<1>9. ASSUME NEW p \in Page, NEW i, Touches(i, p)'
      PROVE  p \in since' /\ \E j : Touches(j, p)' /\ j <= i /\ recs'[j].fpi
  <2>1. CASE i = k /\ p = q
    BY <2>1, <1>1, <1>8
  <2>2. CASE Touches(i, p)
    <3>1. p \in since
      BY <2>2 DEF ImageInv
    <3>2. PICK j : Touches(j, p) /\ j <= i /\ recs[j].fpi
      BY <2>2 DEF ImageInv
    <3>3. Touches(j, p)' /\ recs'[j].fpi
      BY <3>2, <1>5
    <3>4. QED BY <3>1, <3>2, <3>3, <1>1
  <2>3. QED BY <1>6, <1>9, <2>1, <2>2
<1>10. QED BY <1>8, <1>9 DEF ImageInv

LEMMA ImageStep == ASSUME Inv, ImageInv, [Next]_vars PROVE ImageInv'
<1> SUFFICES ASSUME FALSE \notin FpwChoices PROVE ImageInv'
  BY DEF ImageInv
<1>1. ASSUME NEW q \in Page, NEW fpw \in FpwChoices, Update(q, fpw)
      PROVE  ImageInv'
  BY <1>1, ImageUpdate
<1>2. ASSUME NEW sync \in SyncChoices, Commit(sync) PROVE ImageInv'
  <2>1. /\ Insert \in Nat /\ Insert' = Insert + 1
        /\ \A i \in 1 .. Insert : recs'[i] = recs[i]
        /\ recs'[Insert + 1].kind = "commit"
    <3>1. PICK r \in Rec : r = PlainRec("commit")
      BY DEF PlainRec, Rec
    <3>2. recs' = Append(recs, r) /\ TypeOK /\ r.kind = "commit"
      BY <1>2, <3>1 DEF Commit, Appends, Inv, PlainRec
    <3>3. QED BY <3>2, AppendRec
  <2>2. redo' = redo /\ since' = since
    BY <1>2 DEF Commit
  <2>3. ASSUME NEW i, NEW p
        PROVE  /\ Touches(i, p)' <=> Touches(i, p)
               /\ Touches(i, p) => recs'[i] = recs[i]
    BY <2>1, <2>2 DEF Touches
  <2>4. QED BY <2>2, <2>3 DEF ImageInv
<1>3. CASE Checkpoint
  <2>1. /\ Insert \in Nat /\ Insert' = Insert + 1
        /\ recs'[Insert + 1].kind = "ckpt"
    <3>1. PICK r \in Rec : r = PlainRec("ckpt")
      BY DEF PlainRec, Rec
    <3>2. recs' = Append(recs, r) /\ TypeOK /\ r.kind = "ckpt"
      BY <1>3, <3>1 DEF Checkpoint, Appends, Inv, PlainRec
    <3>3. QED BY <3>2, AppendRec
  <2>2. redo' = Insert /\ since' = {}
    BY <1>3 DEF Checkpoint, SinceAfterCkpt
  <2>3. ASSUME NEW i, NEW p PROVE ~Touches(i, p)'
    BY <2>1, <2>2 DEF Touches
  <2>4. QED BY <2>2, <2>3 DEF ImageInv
<1>4. CASE Reset
  <2>1. Insert' = 0 /\ since' = {}
    BY <1>4 DEF Reset, Insert
  <2>2. QED BY <2>1 DEF ImageInv, Touches
<1>5. CASE \/ \E p \in Page : WriteBlock(p)
           \/ FlushLog \/ Crash \/ RedoStep \/ UNCHANGED vars
  <2>1. recs' = recs /\ redo' = redo /\ since' = since
    BY <1>5 DEF WriteBlock, FlushLog, Crash, RedoStep, vars
  <2>2. QED BY <2>1 DEF ImageInv, Touches, Insert
<1>6. QED BY <1>1, <1>2, <1>3, <1>4, <1>5 DEF Next

(* The first change after a checkpoint carries the whole image. *)
THEOREM ImagesSuffice == Spec => []FirstTouchImaged
<1>1. Init => ImageInv
  BY DEF Init, ImageInv, Touches, Insert
<1>2. Inv /\ ImageInv /\ [Next]_vars => ImageInv'
  BY ImageStep
<1>3. ImageInv => FirstTouchImaged
  <2> SUFFICES ASSUME ImageInv, FALSE \notin FpwChoices, NEW p \in Page,
                      NEW i \in Updates(p, Insert), i > redo
               PROVE  \E j \in Updates(p, i) : j > redo /\ recs[j].fpi
    BY DEF FirstTouchImaged
  <2>1. Touches(i, p)
    BY DEF Updates, Touches
  <2>2. PICK j : Touches(j, p) /\ j <= i /\ recs[j].fpi
    BY <2>1 DEF ImageInv
  <2>3. j \in Updates(p, i) /\ j > redo
    BY <2>1, <2>2 DEF Updates, Touches
  <2>4. QED BY <2>2, <2>3
<1>4. QED BY <1>1, <1>2, <1>3, InvHolds, PTL DEF Spec

-------------------------------------------------------------------------------
(* Every prefix of the log has a last update of every page, so Last is one. *)
LastInv == \A p \in Page : \A n \in 0 .. Insert : \E i : IsLast(i, p, n)

LEMMA LastAppend ==
  ASSUME TypeOK, LastInv, NEW r \in Rec, recs' = Append(recs, r)
  PROVE  LastInv'
<1>1. /\ Insert \in Nat /\ Insert' = Insert + 1
      /\ recs'[Insert + 1] = r
      /\ \A i \in 1 .. Insert : recs'[i] = recs[i]
  BY AppendRec
<1>2. PICK k : k = Insert + 1
  OBVIOUS
<1>3. ASSUME NEW p \in Page, NEW n \in 0 .. k PROVE \E i : IsLast(i, p, n)'
  <2>1. CASE n # k
    <3>1. n \in 0 .. Insert
      BY <1>1, <1>2, <2>1
    <3>2. PICK i : IsLast(i, p, n)
      BY <3>1 DEF LastInv
    <3>3. Updates(p, n)' = Updates(p, n)
      BY <3>1, AppendUpdates
    <3>4. QED BY <3>2, <3>3 DEF IsLast
  <2>2. CASE n = k /\ r.kind = "update" /\ r.page = p
    <3>1. k \in Updates(p, n)' /\ \A j \in Updates(p, n)' : j <= k
      <4>1. 1 .. n = 1 .. k /\ k \in 1 .. k /\ \A j \in 1 .. k : j <= k
        BY <1>1, <1>2, <2>2
      <4>2. QED BY <1>1, <1>2, <2>2, <4>1 DEF Updates
    <3>2. QED BY <3>1 DEF IsLast
  <2>3. CASE n = k /\ ~(r.kind = "update" /\ r.page = p)
    <3>1. Insert \in 0 .. Insert
      BY <1>1
    <3>2. PICK i : IsLast(i, p, Insert)
      BY <3>1 DEF LastInv
    <3>3. Updates(p, n)' = Updates(p, Insert)
      <4>1. n = Insert'
        BY <1>1, <1>2, <2>3
      <4>2. Updates(p, Insert)' = Updates(p, Insert)
        BY <2>3, AppendUpdates
      <4>3. QED BY <4>1, <4>2 DEF Updates
    <3>4. QED BY <3>2, <3>3 DEF IsLast
  <2>4. QED BY <2>1, <2>2, <2>3
<1>4. QED BY <1>1, <1>2, <1>3 DEF LastInv

LEMMA LastInit == Init => LastInv
<1> SUFFICES ASSUME Init, NEW p \in Page, NEW n \in 0 .. Insert
             PROVE  IsLast(0, p, n)
  BY DEF LastInv
<1>1. n = 0
  BY DEF Init, Insert
<1>2. QED BY <1>1 DEF IsLast, Updates

(* What every step but Reset does to the log. *)
LEMMA StepKeepsLog == ASSUME Inv, [Next]_vars PROVE LogStep \/ Reset
<1>1. ASSUME NEW p \in Page, NEW fpw \in FpwChoices, Update(p, fpw)
      PROVE  LogStep
  <2>1. UpdateRec(p, fpw) \in Rec
    BY FlagAssumption DEF UpdateRec, Rec, Inv, TypeOK, Block
  <2>2. QED BY <1>1, <2>1 DEF Update, Appends, LogStep
<1>2. ASSUME NEW k \in {"commit", "ckpt"}, Appends(PlainRec(k)) PROVE LogStep
  <2>1. PlainRec(k) \in Rec
    BY DEF PlainRec, Rec
  <2>2. QED BY <1>2, <2>1 DEF Appends, LogStep
<1>3. QED
  BY <1>1, <1>2
  DEF Next, vars, Commit, FlushLog, WriteBlock, Checkpoint, Crash, RedoStep,
      LogStep

LEMMA LastStep == ASSUME Inv, LastInv, [Next]_vars PROVE LastInv'
<1>1. CASE recs' = recs
  BY <1>1 DEF LastInv, IsLast, Updates, Insert
<1>2. CASE \E r \in Rec : recs' = Append(recs, r)
  BY <1>2, LastAppend DEF Inv
<1>3. CASE Reset
  <2>1. Init'
    BY <1>3 DEF Reset, Init
  <2>2. Init' => LastInv'
    BY LastInit, PTL
  <2>3. QED BY <2>1, <2>2
<1>4. QED BY <1>1, <1>2, <1>3, StepKeepsLog DEF LogStep

LEMMA LastHolds == Spec => []LastInv
BY LastInit, LastStep, InvHolds, PTL DEF Spec

(* Any function that names the last durable updates computes Saved. *)
SavedIs == \A f : (\A p \in Page : IsLast(f[p], p, flushed))
                     => Saved = [p \in Page |-> ValAt(f[p])]

LEMMA SavedComputed == Inv => SavedIs
<1> SUFFICES ASSUME Inv, NEW f, \A p \in Page : IsLast(f[p], p, flushed)
             PROVE  Saved = [p \in Page |-> ValAt(f[p])]
  BY DEF SavedIs
<1>1. flushed \in Nat
  BY DEF Inv, TypeOK, Insert
<1>2. \A p \in Page : Last(p, flushed) = f[p]
  BY <1>1, LastIs
<1>3. QED BY <1>2 DEF Saved

(* What the view is in each phase. *)
ViewIs ==
  /\ phase = "run" /\ flushed = Insert => Saved = View
  /\ phase # "run" => View = Saved

LEMMA ViewComputed == Inv => ViewIs
<1> SUFFICES ASSUME Inv PROVE ViewIs
  OBVIOUS
<1>1. ASSUME phase = "run", flushed = Insert PROVE Saved = View
  <2> DEFINE f == [p \in Page |-> mem[p].lsn]
  <2>1. \A p \in Page : IsLast(f[p], p, flushed) /\ mem[p].val = ValAt(f[p])
    BY <1>1 DEF Inv, MemInv
  <2>2. Saved = [p \in Page |-> ValAt(f[p])]
    BY <2>1, SavedComputed DEF SavedIs
  <2>3. View = [p \in Page |-> mem[p].val]
    BY <1>1 DEF View
  <2>4. QED BY <2>1, <2>2, <2>3
<1>2. ASSUME phase = "done" PROVE View = Saved
  <2>1. View = [p \in Page |-> disk[p].val]
    BY <1>2 DEF View
  <2>2. ASSUME NEW p \in Page PROVE disk[p].val = ValAt(Last(p, flushed))
    <3>1. disk[p] = [val |-> ValAt(Last(p, flushed)), lsn |-> Last(p, flushed)]
      BY <1>2, RecoveredNow DEF RecoveredAll
    <3>2. QED BY <3>1
  <2>3. QED BY <2>1, <2>2 DEF Saved
<1>3. ASSUME phase \notin {"run", "done"} PROVE View = Saved
  BY <1>3 DEF View
<1>4. QED BY <1>1, <1>2, <1>3 DEF ViewIs

(* A step that flushes nothing saves nothing. *)
LEMMA SavedKept ==
  ASSUME Inv, LastInv, LogStep, SavedIs', flushed' = flushed
  PROVE  Saved' = Saved
<1>1. PICK n \in 0 .. Insert : n = flushed
  BY DEF Inv, TypeOK
<1> DEFINE pick(p) == CHOOSE i : IsLast(i, p, n)
<1>2. PICK f : f = [p \in Page |-> pick(p)]
  OBVIOUS
<1>3. \A p \in Page : IsLast(f[p], p, n)
  BY <1>2 DEF LastInv
<1>4. n \in Nat /\ Insert \in Nat
  BY <1>1, OldRecs DEF Inv
<1>5. ASSUME NEW p \in Page PROVE IsLast(f[p], p, n)' /\ f[p] \in 0 .. Insert
  <2>1. Updates(p, n)' = Updates(p, n)
    BY OldRecs DEF Inv
  <2>2. IsLast(f[p], p, n)'
    BY <1>3, <2>1 DEF IsLast
  <2>3. f[p] \in 0 .. n
    BY <1>3, <1>4, UpdatesRange DEF IsLast
  <2>4. QED BY <2>2, <2>3, <1>1, <1>4
<1>6. Saved = [p \in Page |-> ValAt(f[p])]
  BY <1>1, <1>3, SavedComputed DEF SavedIs
<1>7. Saved' = [p \in Page |-> ValAt(f[p])']
  BY <1>1, <1>5 DEF SavedIs, IsLast, Updates, ValAt
<1>8. ASSUME NEW p \in Page PROVE ValAt(f[p])' = ValAt(f[p])
  <2>1. \A i \in 0 .. Insert : ValAt(i)' = ValAt(i)
    BY OldRecs DEF Inv
  <2>2. QED BY <1>5, <2>1 DEF ValAt
<1>9. QED BY <1>6, <1>7, <1>8

(* Each step changes, hardens, crashes, restores or starts over the store  *)
(* or leaves it as it is.                                                  *)
RefInv == Inv /\ LastInv

LEMMA RefInit == Init => Store!Init
<1> SUFFICES ASSUME Init PROVE Store!Init
  OBVIOUS
<1>1. View = [p \in Page |-> 0]
  BY DEF Init, View
<1>2. Saved = View
  <2>1. phase = "run" /\ flushed = Insert
    BY DEF Init, Insert
  <2>2. QED BY <2>1, InitInv, ViewComputed DEF ViewIs
<1>3. Status = "up"
  BY DEF Init, Status
<1>4. QED BY <1>1, <1>2, <1>3 DEF Store!Init

LEMMA RefStep ==
  ASSUME RefInv, [Next]_vars, SavedIs', ViewIs'
  PROVE  [Store!Next]_(Store!vars)
<1>1. ASSUME LogStep, flushed' = flushed PROVE Saved' = Saved
  BY <1>1, SavedKept DEF RefInv
<1>2. ASSUME LogStep, flushed' = flushed, mem' = mem, phase = "run", phase' = "run"
      PROVE  UNCHANGED Store!vars
  BY <1>1, <1>2 DEF Store!vars, View, Status
<1>3. ASSUME phase = "run", phase' = "run", mem' = mem, flushed' = Insert'
      PROVE  Store!Harden
  <2>1. Saved' = View' /\ View' = View
    BY <1>3 DEF ViewIs, View
  <2>2. QED BY <1>3, <2>1 DEF Store!Harden, Status
<1>4. ASSUME NEW p \in Page, NEW fpw \in FpwChoices, Update(p, fpw)
      PROVE  Store!Change
  <2>1. LogStep
    BY <1>4, StepKeepsLog DEF RefInv, Next, Update, Reset, Appends
  <2>2. Saved' = Saved
    BY <1>1, <1>4, <2>1 DEF Update
  <2>3. phase = "run" /\ phase' = "run"
    BY <1>4 DEF Update, Appends
  <2>4. View' = [View EXCEPT ![p] = @ + 1]
    <3>1. mem \in [Page -> Block]
          /\ mem' = [mem EXCEPT ![p] = [val |-> @.val + 1, lsn |-> Insert + 1]]
      BY <1>4 DEF Update, RefInv, Inv, TypeOK
    <3>2. QED BY <2>3, <3>1 DEF View
  <2>5. QED BY <2>2, <2>3, <2>4 DEF Store!Change, Status
<1>5. ASSUME NEW sync \in SyncChoices, Commit(sync)
      PROVE  Store!Harden \/ UNCHANGED Store!vars
  <2>1. phase = "run" /\ phase' = "run" /\ mem' = mem
        /\ recs' = Append(recs, PlainRec("commit"))
    BY <1>5 DEF Commit, Appends
  <2>2. PlainRec("commit") \in Rec
    BY DEF PlainRec, Rec
  <2>3. CASE sync
    <3>1. Insert' = Insert + 1
      BY <2>1, <2>2, AppendRec DEF RefInv, Inv
    <3>2. QED BY <1>3, <1>5, <2>1, <2>3, <3>1 DEF Commit, FlushedByCommit
  <2>4. CASE ~sync
    <3>1. LogStep
      BY <2>1, <2>2 DEF LogStep
    <3>2. QED BY <1>2, <1>5, <2>1, <2>4, <3>1 DEF Commit, FlushedByCommit
  <2>5. QED BY <2>3, <2>4
<1>6. CASE FlushLog
  <2>1. phase = "run" /\ phase' = "run" /\ mem' = mem /\ flushed' = Insert'
    BY <1>6 DEF FlushLog, Insert
  <2>2. QED BY <1>3, <2>1 DEF Store!Next
<1>7. CASE Checkpoint
  <2>1. phase = "run" /\ phase' = "run" /\ mem' = mem /\ flushed' = Insert + 1
        /\ recs' = Append(recs, PlainRec("ckpt"))
    BY <1>7 DEF Checkpoint, Appends
  <2>2. PlainRec("ckpt") \in Rec
    BY DEF PlainRec, Rec
  <2>3. Insert' = Insert + 1
    BY <2>1, <2>2, AppendRec DEF RefInv, Inv
  <2>4. QED BY <1>3, <2>1, <2>3 DEF Store!Next
<1>8. ASSUME NEW p \in Page, WriteBlock(p) PROVE UNCHANGED Store!vars
  BY <1>2, <1>8 DEF WriteBlock, LogStep
<1>9. CASE Crash
  <2>1. phase = "run" /\ phase' = "crashed" /\ LogStep /\ flushed' = flushed
    BY <1>9 DEF Crash, LogStep
  <2>2. Saved' = Saved /\ View' = Saved'
    BY <1>1, <2>1 DEF ViewIs
  <2>3. QED BY <2>1, <2>2 DEF Store!Next, Store!Crash, Status
<1>10. CASE RedoStep
  <2>1. phase \in {"crashed", "replay"} /\ phase' \in {"replay", "done"}
        /\ LogStep /\ flushed' = flushed
    BY <1>10 DEF RedoStep, LogStep
  <2>2. Saved' = Saved /\ View' = Saved' /\ View = Saved
    BY <1>1, <2>1, ViewComputed DEF ViewIs, RefInv
  <2>3. CASE phase' = "done"
    BY <2>1, <2>2, <2>3 DEF Store!Next, Store!Restore, Status
  <2>4. CASE phase' = "replay"
    BY <2>1, <2>2, <2>4 DEF Store!vars, Status
  <2>5. QED BY <2>1, <2>3, <2>4
<1>11. CASE Reset
  <2>1. Init'
    BY <1>11 DEF Reset, Init
  <2>2. Init' => Store!Init'
    BY RefInit, PTL
  <2>3. QED BY <2>1, <2>2 DEF Store!Next, Store!StartOver, Store!Init
<1>12. CASE UNCHANGED vars
  BY <1>12 DEF vars, Store!vars, View, Saved, Status, Last, IsLast, Updates,
               ValAt
<1>13. QED
  BY <1>4, <1>5, <1>6, <1>7, <1>8, <1>9, <1>10, <1>11, <1>12
  DEF Next, Store!Next

(* Updates, flushes, writes, checkpoints, crashes and redo together are a  *)
(* store that comes back from a crash with what was last made durable.     *)
THEOREM KeepsThePromise == Spec => KeepsPromise
<1>1. RefInv /\ [Next]_vars /\ SavedIs' /\ ViewIs' => [Store!Next]_(Store!vars)
  BY RefStep
<1>2. Inv => SavedIs /\ ViewIs
  BY SavedComputed, ViewComputed
<1>3. QED
  BY <1>1, <1>2, RefInit, InvHolds, LastHolds, PTL
  DEF Spec, KeepsPromise, Store!Spec, RefInv
===============================================================================
