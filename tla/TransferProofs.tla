---------------------------- MODULE TransferProofs ----------------------------
(***************************************************************************)
(* What holds of two of the labs of RowVersions in which transactions are  *)
(* interleaved: the two transfers, for every balance, every amount and     *)
(* every order of their steps; and the index that is built beside writers, *)
(* for any numbers of them, of readers and of rows.                        *)
(***************************************************************************)
EXTENDS RowVersions, SequenceTheorems, FiniteSetTheorems, WellFoundedInduction,
        TLAPS

-------------------------------------------------------------------------------
(* A set of natural numbers that is not empty has a least element. *)
LEMMA LeastIn ==
  ASSUME NEW T, T \subseteq Nat, T # {}
  PROVE  \E x \in T : \A y \in T : x <= y
<1> DEFINE R == {p \in Nat \X Nat : p[1] < p[2]}
<1>1. IsWellFoundedOn(R, Nat)
  BY NatLessThanWellFounded DEF OpToRel
<1>2. PICK x \in T : \A y \in T : ~(<<y, x>> \in R)
  BY <1>1, WFMin
<1>3. ASSUME NEW y \in T PROVE x <= y
  <2>1. x \in Nat /\ y \in Nat /\ ~(<<y, x>> \in R)
    BY <1>2
  <2>2. ~(y < x)
    BY <2>1
  <2> QED BY <2>1, <2>2
<1> QED BY <1>3

-------------------------------------------------------------------------------
(* The transfers, strictly locked.                                         *)

(* A transaction has locked a row that it has touched, and has written it. *)
Has(t, r)   == \/ r = Bank!Path[t][1] /\ pc[t] >= 1
               \/ r = Bank!Path[t][2] /\ pc[t] >= 3
Wrote(t, r) == \/ r = Bank!Path[t][1] /\ pc[t] >= 2
               \/ r = Bank!Path[t][2] /\ pc[t] >= 4

(* What a row is worth to those who have committed, and that nothing is    *)
(* there to be taken back.                                                 *)
Worth(r)   == Bank!Transferred(Bank!Committed, r)
OpenAt(r)  == Bank!OpenOn(Bank!Txn, r)
CleanAt(r) == OpenAt(r) = {} /\ val[r] = Worth(r)

(* A record of the undo log. *)
Undone == [txn : Bank!Txn, row : Bank!Row, before : Int, open : BOOLEAN,
           reverted : BOOLEAN]

(* The three states of a row. *)
Unlocked(r)      == lock[r] = Bank!Nobody /\ CleanAt(r)
OnlyRead(t, r)   == /\ lock[r] = t /\ ~Wrote(t, r)
                    /\ CleanAt(r)
                    /\ reg[t][r].v = val[r]
OpenWrite(t, r)  == /\ lock[r] = t /\ Wrote(t, r)
                    /\ val[r] = Worth(r) + Bank!Delta[t][r]
                    /\ \E i \in DOMAIN undo : /\ OpenAt(r) = {i}
                                              /\ undo[i].txn = t
                                              /\ undo[i].before = Worth(r)
RowFits(r) == Unlocked(r) \/ \E t \in Bank!Txn : OnlyRead(t, r) \/ OpenWrite(t, r)

LocksFit ==
  /\ \A t \in Bank!Txn, r \in Bank!Row :
       lock[r] = t <=> state[t] = "run" /\ Has(t, r)
  /\ \A t \in Bank!Txn : blocked[t] # Bank!NoRow =>
       state[t] = "run" /\ lock[blocked[t]] = Bank!other(t)
  /\ \A r \in Bank!Row : RowFits(r)

StepsLeft == \A t \in Bank!Txn : state[t] = "run" => pc[t] <= 4

BankInv ==
  /\ Bank!TypeOK
  /\ ~crashed => StepsLeft
  /\ Bank!locking => IF crashed THEN \A r \in Bank!Row : CleanAt(r) ELSE LocksFit

BankThere == lab \in Lab /\ (lab = "bank" => BankInv)

-------------------------------------------------------------------------------
LEMMA TwoOfThem ==
  /\ Bank!Txn = {1, 2}
  /\ \A t \in Bank!Txn : /\ Bank!other(t) \in Bank!Txn
                         /\ Bank!other(t) # t
                         /\ \A o \in Bank!Txn : o = t \/ o = Bank!other(t)
                         /\ Bank!other(Bank!other(t)) = t
                         /\ Bank!Nobody # t
BY DEF Bank!Txn, Bank!other, Bank!Nobody

LEMMA Programs ==
  ASSUME NEW t \in Bank!Txn
  PROVE  /\ Bank!Path[t][1] \in Bank!Row /\ Bank!Path[t][2] \in Bank!Row
         /\ Bank!Path[t][1] # Bank!Path[t][2]
         /\ \A r \in Bank!Row : r = Bank!Path[t][1] \/ r = Bank!Path[t][2]
         /\ \A r \in Bank!Row : Bank!Delta[t][r] \in Int
<1>1. CASE t = 1
  BY <1>1, Assumption DEF Bank!Path, Bank!Row, Bank!Delta, Bank!BankAssumption
<1>2. CASE t = 2
  BY <1>2, Assumption DEF Bank!Path, Bank!Row, Bank!Delta, Bank!BankAssumption
<1> QED BY <1>1, <1>2 DEF Bank!Txn

LEMMA RowNames == Bank!NoRow \notin Bank!Row
BY DEF Bank!NoRow, Bank!Row

LEMMA WorthInt ==
  ASSUME NEW ts, NEW r \in Bank!Row
  PROVE  Bank!Transferred(ts, r) \in Int
<1>1. Start \in Int
  BY Assumption DEF Bank!BankAssumption
<1>2. Bank!Effect(1, ts, r) \in Int /\ Bank!Effect(2, ts, r) \in Int
  BY Programs DEF Bank!Effect, Bank!Txn
<1> QED BY <1>1, <1>2 DEF Bank!Transferred

(* One more that has committed adds its own part. *)
LEMMA WorthAdds ==
  ASSUME NEW ts, NEW t \in Bank!Txn, t \notin ts, NEW r \in Bank!Row
  PROVE  Bank!Transferred(ts \union {t}, r)
           = Bank!Transferred(ts, r) + Bank!Delta[t][r]
<1>1. Start \in Int
  BY Assumption DEF Bank!BankAssumption
<1>2. /\ Bank!Delta[1][r] \in Int
      /\ Bank!Delta[2][r] \in Int
  BY Programs DEF Bank!Txn
<1>3. /\ Bank!Effect(1, ts, r) \in Int
      /\ Bank!Effect(2, ts, r) \in Int
  BY <1>2 DEF Bank!Effect
<1>4. CASE t = 1
  <2>1. /\ Bank!Effect(1, ts, r) = 0
        /\ Bank!Effect(1, ts \union {t}, r) = Bank!Delta[1][r]
        /\ Bank!Effect(2, ts \union {t}, r) = Bank!Effect(2, ts, r)
    BY <1>4 DEF Bank!Effect
  <2> QED BY <1>1, <1>2, <1>3, <1>4, <2>1 DEF Bank!Transferred
<1>5. CASE t = 2
  <2>1. /\ Bank!Effect(2, ts, r) = 0
        /\ Bank!Effect(2, ts \union {t}, r) = Bank!Delta[2][r]
        /\ Bank!Effect(1, ts \union {t}, r) = Bank!Effect(1, ts, r)
    BY <1>5 DEF Bank!Effect
  <2> QED BY <1>1, <1>2, <1>3, <1>5, <2>1 DEF Bank!Transferred
<1> QED BY <1>4, <1>5 DEF Bank!Txn

(* The image that counts on a row with one open record, and with none. *)
LEMMA BeforeOne ==
  ASSUME NEW ts, NEW r \in Bank!Row, NEW i \in Nat, Bank!OpenOn(ts, r) = {i}
  PROVE  Bank!Before(ts)[r] = undo[i].before
<1>1. Bank!Oldest({i}) = i
  BY DEF Bank!Oldest
<1> QED BY <1>1 DEF Bank!Before

LEMMA BeforeNone ==
  ASSUME NEW ts, NEW r \in Bank!Row, Bank!OpenOn(ts, r) = {}
  PROVE  Bank!Before(ts)[r] = val[r]
BY DEF Bank!Before

(* The invariant says what is wanted. *)
LEMMA FittingRowsAreSerial ==
  ASSUME BankInv
  PROVE  Bank!SerialWhenLocked
<1> SUFFICES ASSUME Bank!locking, NEW r \in Bank!Row
             PROVE  Bank!Before(Bank!Txn)[r] = Worth(r)
  BY DEF Bank!SerialWhenLocked, Worth
<1>1. CASE CleanAt(r)
  BY <1>1, BeforeNone DEF CleanAt, OpenAt
<1>2. CASE \E t \in Bank!Txn : OpenWrite(t, r)
  <2>1. PICK t \in Bank!Txn, i \in DOMAIN undo :
               OpenAt(r) = {i} /\ undo[i].before = Worth(r)
    BY <1>2 DEF OpenWrite
  <2>2. i \in Nat
    <3>1. undo \in Seq(Undone)
      BY DEF BankInv, Bank!TypeOK, Undone
    <3>2. DOMAIN undo \subseteq Nat
      BY <3>1, LenProperties
    <3> QED BY <2>1, <3>2
  <2> QED BY <2>1, <2>2, BeforeOne DEF OpenAt
<1>3. CASE ~crashed
  <2>1. RowFits(r)
    BY <1>3 DEF BankInv, LocksFit
  <2> QED BY <1>1, <1>2, <2>1 DEF RowFits, Unlocked, OnlyRead
<1>4. CASE crashed
  BY <1>1, <1>4 DEF BankInv
<1> QED BY <1>3, <1>4

-------------------------------------------------------------------------------
(* The queue and the records of a step are of their types. *)
LEMMA TimesIsSeq ==
  ASSUME NEW t \in Bank!Txn, NEW n \in Nat
  PROVE  Bank!Times(t, n) \in Seq(Bank!Txn)
BY SeqDef DEF Bank!Times

LEMMA WithoutIsSeq ==
  ASSUME BankInv, NEW i \in DOMAIN queue
  PROVE  Bank!Without(i) \in Seq(Bank!Txn)
<1>1. queue \in Seq(Bank!Txn) /\ i \in 1 .. Len(queue)
  BY LenProperties DEF BankInv, Bank!TypeOK
<1>2. Len(queue) \in Nat
  BY <1>1, LenProperties
<1>3. SubSeq(queue, 1, i - 1) \in Seq(Bank!Txn)
  BY <1>1, <1>2, SubSeqProperties
<1>4. SubSeq(queue, i + 1, Len(queue)) \in Seq(Bank!Txn)
  BY <1>1, <1>2, SubSeqProperties
<1> QED BY <1>3, <1>4, ConcatProperties DEF Bank!Without

LEMMA RemainingIsSeq ==
  ASSUME BankInv, NEW t \in Bank!Txn
  PROVE  Bank!Remaining(t) \in Seq(Bank!Txn)
<1>1. Len(queue) \in Nat /\ DOMAIN queue = 1 .. Len(queue)
  BY LenProperties DEF BankInv, Bank!TypeOK
<1>2. ASSUME NEW o PROVE Bank!StepsOf(o) \in Nat
  <2>1. IsFiniteSet(DOMAIN queue)
    BY <1>1, FS_Interval
  <2>2. IsFiniteSet({i \in DOMAIN queue : queue[i] = o})
    BY <2>1, FS_Subset
  <2>3. Cardinality({i \in DOMAIN queue : queue[i] = o}) \in Nat
    BY <2>2, FS_CardinalityType
  <2> QED BY <2>3 DEF Bank!StepsOf, Cardinality, Bank!Cardinality
<1>3. Bank!other(t) \in Bank!Txn
  BY TwoOfThem
<1> QED BY <1>2, <1>3, TimesIsSeq, EmptySeq DEF Bank!Remaining

LEMMA BeforeIsInt ==
  ASSUME BankInv, NEW ts \in SUBSET Bank!Txn, NEW r \in Bank!Row
  PROVE  Bank!Before(ts)[r] \in Int
<1>1. undo \in Seq(Undone) /\ val[r] \in Int
  BY DEF BankInv, Bank!TypeOK, Undone
<1>2. Len(undo) \in Nat /\ DOMAIN undo = 1 .. Len(undo)
  BY <1>1, LenProperties
<1>3. CASE Bank!OpenOn(ts, r) = {}
  BY <1>1, <1>3, BeforeNone
<1>4. CASE Bank!OpenOn(ts, r) # {}
  <2> DEFINE S == Bank!OpenOn(ts, r)
  <2>1. S \subseteq 1 .. Len(undo) /\ S \subseteq Nat
    BY <1>2 DEF Bank!OpenOn, Bank!Open
  <2>2. \E i \in S : \A j \in S : i <= j
    BY <1>4, <2>1, LeastIn
  <2>3. Bank!Oldest(S) \in S
    BY <2>2 DEF Bank!Oldest
  <2>4. undo[Bank!Oldest(S)] \in Undone
    BY <1>1, <2>1, <2>3, ElementOfSeq
  <2>5. Bank!Before(ts)[r] = undo[Bank!Oldest(S)].before
    BY <1>4 DEF Bank!Before
  <2> QED BY <2>4, <2>5 DEF Undone
<1> QED BY <1>3, <1>4

LEMMA RevertedIsSeq ==
  ASSUME BankInv, NEW ts \in SUBSET Bank!Txn
  PROVE  Bank!Reverted(ts) \in Seq(Undone) /\ Len(Bank!Reverted(ts)) = Len(undo)
<1>1. undo \in Seq(Undone)
  BY DEF BankInv, Bank!TypeOK, Undone
<1>2. Len(undo) \in Nat /\ DOMAIN undo = 1 .. Len(undo)
  BY <1>1, LenProperties
<1>3. \A i \in 1 .. Len(undo) :
        /\ undo[i] \in Undone
        /\ [undo[i] EXCEPT !.open = FALSE, !.reverted = TRUE] \in Undone
  <2> TAKE i \in 1 .. Len(undo)
  <2>1. undo[i] \in Undone
    BY <1>1, ElementOfSeq
  <2> QED BY <2>1 DEF Undone
<1>4. Bank!Reverted(ts)
        = [i \in 1 .. Len(undo) |->
             IF i \in Bank!Open(ts)
               THEN [undo[i] EXCEPT !.open = FALSE, !.reverted = TRUE]
               ELSE undo[i]]
  BY <1>2 DEF Bank!Reverted
<1>5. Bank!Reverted(ts) \in [1 .. Len(undo) -> Undone]
  BY <1>3, <1>4
<1> QED BY <1>2, <1>5, SeqDef, LenProperties

(* Reading and writing touch a row that is the program's. *)
LEMMA TouchedRow ==
  ASSUME NEW t \in Bank!Txn, Bank!Reading(t) \/ Bank!Writing(t)
  PROVE  /\ Bank!Touched(t) \in Bank!Row
         /\ pc[t] \in {0, 1} => Bank!Touched(t) = Bank!Path[t][1]
         /\ pc[t] \in {2, 3} => Bank!Touched(t) = Bank!Path[t][2]
<1>1. pc[t] \in 0 .. 3
  BY DEF Bank!Reading, Bank!Writing
<1>2. pc[t] \in {0, 1} => pc[t] \div 2 = 0
  OBVIOUS
<1>3. pc[t] \in {2, 3} => pc[t] \div 2 = 1
  OBVIOUS
<1> QED BY <1>1, <1>2, <1>3, Programs DEF Bank!Touched


-------------------------------------------------------------------------------
(* One step of a transaction whose turn it is. *)
MayStep(t) ==
  /\ BankInv /\ ~crashed /\ Bank!Turn(t)
  /\ UNCHANGED <<mode, iso, crashed>>

LEMMA ItsTurn ==
  ASSUME NEW t \in Bank!Txn, MayStep(t)
  PROVE  /\ state[t] = "run" /\ blocked[t] = Bank!NoRow /\ pc[t] \in 0 .. 4
         /\ Bank!Done(t) => /\ queue' \in Seq(Bank!Txn)
                            /\ pc' = [pc EXCEPT ![t] = @ + 1]
                            /\ pc' \in [Bank!Txn -> 0 .. 5]
         /\ Bank!locking' = Bank!locking
<1>1. state[t] = "run" /\ blocked[t] = Bank!NoRow
  BY DEF MayStep, Bank!Turn, Bank!First, Bank!Runnable
<1>2. pc[t] \in 0 .. 4 /\ pc \in [Bank!Txn -> 0 .. 5]
  BY <1>1 DEF MayStep, BankInv, StepsLeft, Bank!TypeOK
<1>3. Bank!Done(t) => queue' \in Seq(Bank!Txn)
  BY WithoutIsSeq DEF Bank!Done, MayStep
<1>4. Bank!Done(t) => pc' = [pc EXCEPT ![t] = @ + 1]
  BY DEF Bank!Done
<1>5. pc[t] + 1 \in 0 .. 5
  BY <1>2
<1>6. Bank!Done(t) => pc' \in [Bank!Txn -> 0 .. 5]
  BY <1>2, <1>4, <1>5
<1>7. Bank!locking' = Bank!locking
  BY DEF MayStep, Bank!locking
<1> QED BY <1>1, <1>2, <1>3, <1>4, <1>6, <1>7

(* What a step does to others' rows. *)
LEMMA RowUntouched ==
  ASSUME NEW r \in Bank!Row, RowFits(r),
         lock'[r] = lock[r], val'[r] = val[r],
         OpenAt(r)' = OpenAt(r), Worth(r)' = Worth(r),
         \A i \in OpenAt(r) : /\ i \in DOMAIN undo'
                              /\ undo'[i].txn = undo[i].txn
                              /\ undo'[i].before = undo[i].before,
         \A t \in Bank!Txn : lock[r] = t =>
           Wrote(t, r)' = Wrote(t, r) /\ reg'[t][r].v = reg[t][r].v
  PROVE  RowFits(r)'
<1>1. CASE Unlocked(r)
  BY <1>1 DEF RowFits, Unlocked, CleanAt
<1>2. CASE \E t \in Bank!Txn : OnlyRead(t, r)
  BY <1>2 DEF RowFits, OnlyRead, CleanAt
<1>3. CASE \E t \in Bank!Txn : OpenWrite(t, r)
  <2>1. PICK t \in Bank!Txn : OpenWrite(t, r)
    BY <1>3
  <2>2. PICK i \in DOMAIN undo : /\ OpenAt(r) = {i}
                                 /\ undo[i].txn = t
                                 /\ undo[i].before = Worth(r)
    BY <2>1 DEF OpenWrite
  <2>3. lock'[r] = t /\ Wrote(t, r)' /\ val'[r] = Worth(r)' + Bank!Delta[t][r]
    BY <2>1 DEF OpenWrite
  <2>4. /\ OpenAt(r)' = {i} /\ i \in DOMAIN undo'
        /\ undo'[i].txn = t /\ undo'[i].before = Worth(r)'
    BY <2>2
  <2>5. Bank!Delta' = Bank!Delta
    BY DEF Bank!Delta
  <2>6. OpenWrite(t, r)'
    BY <2>3, <2>4, <2>5 DEF OpenWrite
  <2> QED BY <2>6 DEF RowFits
<1> QED BY <1>1, <1>2, <1>3 DEF RowFits

LEMMA OpenAtKept ==
  ASSUME undo' = undo
  PROVE  \A r \in Bank!Row :
           /\ OpenAt(r)' = OpenAt(r)
           /\ \A i \in OpenAt(r) : /\ i \in DOMAIN undo'
                                   /\ undo'[i].txn = undo[i].txn
                                   /\ undo'[i].before = undo[i].before
BY DEF OpenAt, Bank!OpenOn, Bank!Open

LEMMA WorthKept ==
  ASSUME Bank!Committed' = Bank!Committed
  PROVE  \A r \in Bank!Row : Worth(r)' = Worth(r)
BY DEF Worth, Bank!Transferred, Bank!Effect, Bank!Delta

LEMMA WaitKeeps ==
  ASSUME NEW t \in Bank!Txn, MayStep(t), Bank!Wait(t)
  PROVE  BankInv'
<1> DEFINE s == Bank!Touched(t)
<1>1. s \in Bank!Row
  BY TouchedRow DEF Bank!Wait
<1>2. Bank!locking /\ lock[s] = Bank!other(t)
  BY DEF Bank!Wait, Bank!LockedOut
<1>3. /\ blocked' = [blocked EXCEPT ![t] = s] /\ lastBlocked' = t
      /\ UNCHANGED <<queue, val, ver, lock, pc, state, reg, readFrom, undo,
                     staleWrites, victim, mode, iso, crashed>>
  BY DEF Bank!Wait, MayStep, Bank!rows
<1>4. state[t] = "run"
  BY ItsTurn
<1>5. Bank!TypeOK /\ LocksFit /\ StepsLeft /\ ~crashed
  BY <1>2 DEF MayStep, BankInv
<1>6. Bank!TypeOK'
  <2>1. blocked' \in [Bank!Txn -> Bank!Row \union {Bank!NoRow}]
    BY <1>1, <1>3, <1>5 DEF Bank!TypeOK
  <2> QED BY <1>3, <1>5, <2>1 DEF Bank!TypeOK
<1>7. \A o \in Bank!Txn : blocked'[o] # Bank!NoRow =>
        state'[o] = "run" /\ lock'[blocked'[o]] = Bank!other(o)
  <2>1. blocked \in [Bank!Txn -> Bank!Row \union {Bank!NoRow}]
    BY <1>5 DEF Bank!TypeOK
  <2> QED BY <1>2, <1>3, <1>4, <1>5, <2>1 DEF LocksFit
<1>8. \A o \in Bank!Txn, r \in Bank!Row :
        lock'[r] = o <=> state'[o] = "run" /\ Has(o, r)'
  BY <1>3, <1>5 DEF LocksFit, Has, Bank!Path
<1>9. ASSUME NEW r \in Bank!Row PROVE RowFits(r)'
  <2>1. Bank!Committed' = Bank!Committed
    BY <1>3 DEF Bank!Committed
  <2>2. \A o \in Bank!Txn : Wrote(o, r)' = Wrote(o, r)
    BY <1>3 DEF Wrote, Bank!Path
  <2>3. RowFits(r)
    BY <1>5 DEF LocksFit
  <2> QED BY <1>3, <2>1, <2>2, <2>3, OpenAtKept, WorthKept, RowUntouched
<1>10. LocksFit'
  BY <1>7, <1>8, <1>9 DEF LocksFit, Bank!other
<1>11. StepsLeft' /\ ~crashed'
  BY <1>3, <1>5 DEF StepsLeft
<1> QED BY <1>6, <1>10, <1>11 DEF BankInv


(* A transaction that does not step keeps what it has; the one that does   *)
(* has the row it touches, and as much of the other one as before.         *)
LEMMA PathStep ==
  ASSUME NEW t \in Bank!Txn, Bank!TypeOK, pc' = [pc EXCEPT ![t] = @ + 1],
         Bank!Reading(t) \/ Bank!Writing(t),
         NEW s \in Bank!Row, s = Bank!Touched(t)
  PROVE  /\ Has(t, s)' /\ (Has(t, s) <=> Bank!Writing(t))
         /\ ~Wrote(t, s) /\ (Wrote(t, s)' <=> Bank!Writing(t))
         /\ \A r \in Bank!Row \ {s} : /\ Has(t, r)' = Has(t, r)
                                      /\ Wrote(t, r)' = Wrote(t, r)
         /\ \A o \in Bank!Txn \ {t}, r \in Bank!Row : /\ Has(o, r)' = Has(o, r)
                                                      /\ Wrote(o, r)' = Wrote(o, r)
<1> DEFINE one == Bank!Path[t][1]
           two == Bank!Path[t][2]
<1>1. Bank!Path' = Bank!Path
  BY DEF Bank!Path
<1>2. pc \in [Bank!Txn -> 0 .. 5]
  BY DEF Bank!TypeOK
<1>3. pc[t] \in 0 .. 3 /\ pc'[t] = pc[t] + 1
  BY <1>2 DEF Bank!Reading, Bank!Writing
<1>4. \A o \in Bank!Txn \ {t} : pc'[o] = pc[o]
  BY <1>2
<1>5. \A o \in Bank!Txn \ {t}, r \in Bank!Row : /\ Has(o, r)' = Has(o, r)
                                                /\ Wrote(o, r)' = Wrote(o, r)
  BY <1>1, <1>4 DEF Has, Wrote
<1>6. /\ one \in Bank!Row /\ two \in Bank!Row /\ one # two
      /\ \A r \in Bank!Row : r = one \/ r = two
  BY Programs
<1>7. CASE pc[t] \in {0, 1}
  <2>1. s = one
    BY <1>7, TouchedRow
  <2>2. /\ Has(t, s)' /\ (Has(t, s) <=> Bank!Writing(t))
        /\ ~Wrote(t, s) /\ (Wrote(t, s)' <=> Bank!Writing(t))
    BY <1>1, <1>3, <1>6, <1>7, <2>1 DEF Has, Wrote, Bank!Writing
  <2>3. \A r \in Bank!Row \ {s} : /\ Has(t, r)' = Has(t, r)
                                  /\ Wrote(t, r)' = Wrote(t, r)
    BY <1>1, <1>3, <1>6, <1>7, <2>1 DEF Has, Wrote
  <2> QED BY <1>5, <2>2, <2>3
<1>8. CASE pc[t] \in {2, 3}
  <2>1. s = two
    BY <1>8, TouchedRow
  <2>2. /\ Has(t, s)' /\ (Has(t, s) <=> Bank!Writing(t))
        /\ ~Wrote(t, s) /\ (Wrote(t, s)' <=> Bank!Writing(t))
    BY <1>1, <1>3, <1>6, <1>8, <2>1 DEF Has, Wrote, Bank!Writing
  <2>3. \A r \in Bank!Row \ {s} : /\ Has(t, r)' = Has(t, r)
                                  /\ Wrote(t, r)' = Wrote(t, r)
    BY <1>1, <1>3, <1>6, <1>8, <2>1 DEF Has, Wrote
  <2> QED BY <1>5, <2>2, <2>3
<1> QED BY <1>3, <1>7, <1>8

(* Under locking, a row that is not the other one's is the reader's after  *)
(* the step, and the writer's already before it.                           *)
LEMMA OwnsAfter ==
  ASSUME NEW t \in Bank!Txn, MayStep(t), Bank!locking, Bank!Done(t),
         Bank!Reading(t) \/ Bank!Writing(t),
         ~Bank!LockedOut(t, Bank!Touched(t)),
         lock' = Bank!Taken(t, Bank!Touched(t)),
         UNCHANGED <<blocked, state>>,
         NEW s \in Bank!Row, s = Bank!Touched(t)
  PROVE  /\ lock' = [lock EXCEPT ![s] = t] /\ lock'[s] = t
         /\ lock[s] = (IF Bank!Writing(t) THEN t ELSE Bank!Nobody)
         /\ \A o \in Bank!Txn, r \in Bank!Row :
              lock'[r] = o <=> state'[o] = "run" /\ Has(o, r)'
         /\ \A o \in Bank!Txn : blocked'[o] # Bank!NoRow =>
              state'[o] = "run" /\ lock'[blocked'[o]] = Bank!other(o)
<1>1. s \in Bank!Row
  OBVIOUS
<1>2. Bank!TypeOK /\ LocksFit
  BY DEF MayStep, BankInv
<1>3. state[t] = "run" /\ blocked[t] = Bank!NoRow /\ pc' = [pc EXCEPT ![t] = @ + 1]
  BY ItsTurn
<1>4. lock \in [Bank!Row -> Bank!Txn \union {Bank!Nobody}]
  BY <1>2 DEF Bank!TypeOK
<1>5. lock' = [lock EXCEPT ![s] = t] /\ lock'[s] = t
  BY <1>1, <1>4 DEF Bank!Taken
<1>6. lock[s] \in {t, Bank!Nobody}
  BY <1>1, <1>4, TwoOfThem DEF Bank!LockedOut
<1>7. lock[s] = t <=> Bank!Writing(t)
  <2>1. lock[s] = t <=> Has(t, s)
    BY <1>1, <1>2, <1>3 DEF LocksFit
  <2> QED BY <1>2, <1>3, <2>1, PathStep
<1>8. lock[s] = (IF Bank!Writing(t) THEN t ELSE Bank!Nobody)
  BY <1>6, <1>7, TwoOfThem
<1>9. ASSUME NEW o \in Bank!Txn, NEW r \in Bank!Row
      PROVE  lock'[r] = o <=> state'[o] = "run" /\ Has(o, r)'
  <2>1. lock[r] = o <=> state[o] = "run" /\ Has(o, r)
    BY <1>2 DEF LocksFit
  <2>2. CASE o = t
    <3>1. Has(t, s)' /\ (r # s => Has(t, r)' = Has(t, r))
      BY <1>2, <1>3, PathStep
    <3> QED BY <1>3, <1>4, <1>5, <2>1, <2>2, <3>1
  <2>3. CASE o # t
    <3>1. Has(o, r)' = Has(o, r)
      BY <1>2, <1>3, <2>3, PathStep
    <3>2. r = s => ~(lock[r] = o)
      BY <1>6, <2>3, TwoOfThem
    <3> QED BY <1>1, <1>4, <1>5, <2>1, <2>3, <3>1, <3>2
  <2> QED BY <2>2, <2>3
<1>10. ASSUME NEW o \in Bank!Txn, blocked'[o] # Bank!NoRow
       PROVE  state'[o] = "run" /\ lock'[blocked'[o]] = Bank!other(o)
  <2>1. state[o] = "run" /\ lock[blocked[o]] = Bank!other(o) /\ o # t
    BY <1>2, <1>3, <1>10 DEF LocksFit
  <2>2. Bank!other(o) = t
    BY <2>1, TwoOfThem
  <2>3. blocked[o] \in Bank!Row
    BY <1>2, <1>10 DEF Bank!TypeOK
  <2> QED BY <1>4, <1>5, <2>1, <2>2, <2>3
<1> QED BY <1>5, <1>8, <1>9, <1>10

LEMMA ReadKeeps ==
  ASSUME NEW t \in Bank!Txn, MayStep(t), Bank!Read(t)
  PROVE  BankInv'
<1>0. PICK s \in Bank!Row : s = Bank!Touched(t)
  BY TouchedRow DEF Bank!Read
<1>1. s = Bank!Touched(t) /\ Bank!Reading(t) /\ ~Bank!Writing(t) /\ Bank!Done(t)
  BY <1>0 DEF Bank!Read, Bank!Reading, Bank!Writing
<1>2. /\ ~Bank!LockedOut(t, s) /\ lock' = Bank!Taken(t, s)
      /\ reg' = [reg EXCEPT ![t][s] = [v |-> val[s], ver |-> ver[s]]]
      /\ readFrom' = [readFrom EXCEPT ![t] = @ \union Bank!Dirty(t, s)]
      /\ UNCHANGED <<val, ver, blocked, state, undo, staleWrites, lastBlocked, victim,
                     mode, iso, crashed>>
  BY <1>0 DEF Bank!Read, MayStep, Bank!rows
<1>3. Bank!TypeOK /\ StepsLeft /\ ~crashed
  BY DEF MayStep, BankInv
<1>4. /\ queue' \in Seq(Bank!Txn) /\ pc' \in [Bank!Txn -> 0 .. 5]
      /\ pc' = [pc EXCEPT ![t] = @ + 1] /\ state[t] = "run" /\ pc[t] \in 0 .. 4
  BY <1>1, ItsTurn
<1>5. Bank!TypeOK'
  <2>1. lock' \in [Bank!Row -> Bank!Txn \union {Bank!Nobody}]
    BY <1>1, <1>2, <1>3 DEF Bank!TypeOK, Bank!Taken
  <2>2. reg' \in [Bank!Txn -> [Bank!Row -> [v : Int, ver : Int]]]
    <3>1. reg \in [Bank!Txn -> [Bank!Row -> [v : Int, ver : Int]]]
      BY <1>3 DEF Bank!TypeOK
    <3>2. [v |-> val[s], ver |-> ver[s]] \in [v : Int, ver : Int]
      BY <1>1, <1>3 DEF Bank!TypeOK
    <3> QED BY <1>1, <1>2, <3>1, <3>2
  <2>3. readFrom' \in [Bank!Txn -> SUBSET Bank!Txn]
    <3>1. Bank!Dirty(t, s) \subseteq Bank!Txn
      <4>1. undo \in Seq(Undone)
        BY <1>3 DEF Bank!TypeOK, Undone
      <4>2. \A i \in DOMAIN undo : undo[i] \in Undone
        BY <4>1, LenProperties, ElementOfSeq
      <4> QED BY <4>2 DEF Undone, Bank!Dirty, Bank!OpenOn, Bank!Open
    <3> QED BY <1>2, <1>3, <3>1 DEF Bank!TypeOK
  <2> QED BY <1>2, <1>3, <1>4, <2>1, <2>2, <2>3 DEF Bank!TypeOK
<1>6. StepsLeft' /\ ~crashed'
  <2>1. pc[t] <= 3
    BY <1>1 DEF Bank!Reading
  <2>2. pc \in [Bank!Txn -> 0 .. 5]
    BY <1>3 DEF Bank!TypeOK
  <2> QED BY <1>2, <1>3, <1>4, <2>1, <2>2 DEF StepsLeft
<1>7. ASSUME Bank!locking PROVE LocksFit'
  <2>1. /\ lock' = [lock EXCEPT ![s] = t] /\ lock'[s] = t
        /\ lock[s] = Bank!Nobody
    BY <1>1, <1>2, <1>7, OwnsAfter
  <2>2. LocksFit
    BY <1>3, <1>7 DEF MayStep, BankInv
  <2>3. ASSUME NEW r \in Bank!Row PROVE RowFits(r)'
    <3>1. Bank!Committed' = Bank!Committed
      BY <1>2 DEF Bank!Committed
    <3>2. OpenAt(r)' = OpenAt(r) /\ Worth(r)' = Worth(r) /\ val'[r] = val[r]
      BY <1>2, <3>1, OpenAtKept, WorthKept
    <3>3. RowFits(r)
      BY <2>2 DEF LocksFit
    <3>4. CASE r = s
      <4>1. CleanAt(r)
        BY <2>1, <3>3, <3>4, TwoOfThem DEF RowFits, Unlocked, OnlyRead, OpenWrite
      <4>2. CleanAt(r)'
        BY <3>2, <4>1 DEF CleanAt
      <4>3. ~Wrote(t, r)'
        BY <1>1, <1>3, <1>4, <3>4, PathStep
      <4>4. reg'[t][r].v = val[r]
        BY <1>2, <1>3, <3>4 DEF Bank!TypeOK
      <4> QED BY <2>1, <3>2, <3>4, <4>2, <4>3, <4>4 DEF RowFits, OnlyRead
    <3>5. CASE r # s
      <4>1. lock'[r] = lock[r]
        BY <2>1, <1>3, <3>5 DEF Bank!TypeOK
      <4>2. \A o \in Bank!Txn : Wrote(o, r)' = Wrote(o, r)
        BY <1>1, <1>3, <1>4, <3>5, PathStep
      <4>3. \A o \in Bank!Txn : reg'[o][r].v = reg[o][r].v
        BY <1>1, <1>2, <1>3, <3>5 DEF Bank!TypeOK
      <4> QED BY <1>2, <3>2, <3>3, <4>1, <4>2, <4>3, OpenAtKept, RowUntouched
    <3> QED BY <3>4, <3>5
  <2>4. /\ \A o \in Bank!Txn, r \in Bank!Row :
             lock'[r] = o <=> state'[o] = "run" /\ Has(o, r)'
        /\ \A o \in Bank!Txn : blocked'[o] # Bank!NoRow =>
             state'[o] = "run" /\ lock'[blocked'[o]] = Bank!other(o)
    BY <1>1, <1>2, <1>7, OwnsAfter
  <2> QED BY <2>3, <2>4 DEF LocksFit, Bank!other
<1>8. Bank!locking' = Bank!locking
  BY ItsTurn
<1> QED BY <1>5, <1>6, <1>7, <1>8 DEF BankInv


(* A record more is an open one on its row, and none on the other row. *)
LEMMA OneMoreOpen ==
  ASSUME undo \in Seq(Undone), NEW x \in Undone, undo' = Append(undo, x),
         NEW r \in Bank!Row
  PROVE  /\ undo' \in Seq(Undone) /\ Len(undo') = Len(undo) + 1
         /\ x.row = r /\ x.open => OpenAt(r)' = OpenAt(r) \union {Len(undo) + 1}
         /\ x.row # r => OpenAt(r)' = OpenAt(r)
         /\ undo'[Len(undo) + 1] = x
         /\ \A i \in DOMAIN undo : i \in DOMAIN undo' /\ undo'[i] = undo[i]
<1>1. Len(undo) \in Nat /\ DOMAIN undo = 1 .. Len(undo)
  BY LenProperties
<1>2. /\ undo' \in Seq(Undone) /\ Len(undo') = Len(undo) + 1
      /\ \A i \in 1 .. Len(undo) : undo'[i] = undo[i]
      /\ undo'[Len(undo) + 1] = x
  BY AppendProperties
<1>3. DOMAIN undo' = 1 .. Len(undo) + 1
  BY <1>2, LenProperties
<1>4. x.txn \in Bank!Txn
  BY DEF Undone
<1>5. /\ OpenAt(r) = {i \in DOMAIN undo :
                        undo[i].txn \in Bank!Txn /\ undo[i].open /\ undo[i].row = r}
      /\ OpenAt(r)' = {i \in DOMAIN undo' :
                         undo'[i].txn \in Bank!Txn /\ undo'[i].open /\ undo'[i].row = r}
  BY DEF OpenAt, Bank!OpenOn, Bank!Open, Bank!Txn
<1>6. x.row # r => OpenAt(r)' = OpenAt(r)
  BY <1>1, <1>2, <1>3, <1>5
<1>7. x.row = r /\ x.open => OpenAt(r)' = OpenAt(r) \union {Len(undo) + 1}
  BY <1>1, <1>2, <1>3, <1>4, <1>5
<1> QED BY <1>1, <1>2, <1>3, <1>6, <1>7

LEMMA WriteKeeps ==
  ASSUME NEW t \in Bank!Txn, MayStep(t), Bank!Write(t)
  PROVE  BankInv'
<1>0. PICK s \in Bank!Row : s = Bank!Touched(t)
  BY TouchedRow DEF Bank!Write
<1> DEFINE x == [txn |-> t, row |-> s, before |-> val[s],
                 open |-> mode = "explicit", reverted |-> FALSE]
<1>1. s = Bank!Touched(t) /\ Bank!Writing(t) /\ Bank!Done(t)
  BY <1>0 DEF Bank!Write
<1>2. /\ ~Bank!LockedOut(t, s) /\ lock' = Bank!Taken(t, s)
      /\ undo' = Append(undo, x)
      /\ val'  = [val EXCEPT ![s] = Bank!Base(t, s) + Bank!Delta[t][s]]
      /\ ver'  = [ver EXCEPT ![s] = @ + 1]
      /\ staleWrites' = IF Bank!Stale(t, s) THEN staleWrites \union {Len(undo')}
                                            ELSE staleWrites
      /\ UNCHANGED <<blocked, state, reg, readFrom, lastBlocked, victim,
                     mode, iso, crashed>>
  BY <1>0 DEF Bank!Write, MayStep, Bank!StaleIndex
<1>3. Bank!TypeOK /\ StepsLeft /\ ~crashed
  BY DEF MayStep, BankInv
<1>4. /\ queue' \in Seq(Bank!Txn) /\ pc' \in [Bank!Txn -> 0 .. 5]
      /\ pc' = [pc EXCEPT ![t] = @ + 1] /\ state[t] = "run" /\ pc[t] \in 0 .. 4
  BY <1>1, ItsTurn
<1>5. undo \in Seq(Undone) /\ x \in Undone
  BY <1>3 DEF Bank!TypeOK, Undone
<1>6. /\ undo' \in Seq(Undone) /\ Len(undo') = Len(undo) + 1
      /\ undo'[Len(undo) + 1] = x
      /\ \A i \in DOMAIN undo : i \in DOMAIN undo' /\ undo'[i] = undo[i]
  BY <1>2, <1>5, OneMoreOpen
<1>7. Bank!Base(t, s) \in Int /\ Bank!Delta[t][s] \in Int
  BY <1>3, Programs DEF Bank!Base, Bank!TypeOK
<1>8. Len(undo) \in Nat /\ Len(undo) + 1 \in DOMAIN undo'
  BY <1>5, <1>6, LenProperties
<1>9. Bank!TypeOK'
  <2>1. lock' \in [Bank!Row -> Bank!Txn \union {Bank!Nobody}]
    BY <1>1, <1>2, <1>3 DEF Bank!TypeOK, Bank!Taken
  <2>2. val' \in [Bank!Row -> Int]
    BY <1>2, <1>3, <1>7 DEF Bank!TypeOK
  <2>3. ver' \in [Bank!Row -> Nat]
    BY <1>2, <1>3 DEF Bank!TypeOK
  <2>4. staleWrites' \subseteq DOMAIN undo'
    BY <1>2, <1>3, <1>6, <1>8 DEF Bank!TypeOK
  <2>5. undo' \in Seq([txn : Bank!Txn, row : Bank!Row, before : Int, open : BOOLEAN,
                       reverted : BOOLEAN])
    BY <1>6 DEF Undone
  <2> QED BY <1>2, <1>3, <1>4, <2>1, <2>2, <2>3, <2>4, <2>5 DEF Bank!TypeOK
<1>10. StepsLeft' /\ ~crashed'
  <2>1. pc[t] <= 3
    BY <1>1 DEF Bank!Writing
  <2>2. pc \in [Bank!Txn -> 0 .. 5]
    BY <1>3 DEF Bank!TypeOK
  <2> QED BY <1>2, <1>3, <1>4, <2>1, <2>2 DEF StepsLeft
<1>11. ASSUME Bank!locking PROVE LocksFit'
  <2>1. /\ lock' = [lock EXCEPT ![s] = t] /\ lock'[s] = t
        /\ lock[s] = t
    BY <1>1, <1>2, <1>11, OwnsAfter
  <2>2. LocksFit
    BY <1>3, <1>11 DEF MayStep, BankInv
  <2>3. ASSUME NEW r \in Bank!Row PROVE RowFits(r)'
    <3>1. Bank!Committed' = Bank!Committed
      BY <1>2 DEF Bank!Committed
    <3>2. Worth(r)' = Worth(r)
      BY <3>1, WorthKept
    <3>3. RowFits(r)
      BY <2>2 DEF LocksFit
    <3>4. CASE r = s
      <4>1. ~Wrote(t, r) /\ Wrote(t, r)'
        BY <1>1, <1>3, <1>4, <3>4, PathStep
      <4>2. CleanAt(r) /\ reg[t][r].v = val[r]
        BY <2>1, <3>3, <3>4, <4>1, TwoOfThem
           DEF RowFits, Unlocked, OnlyRead, OpenWrite
      <4>3. Bank!Base(t, r) = Worth(r)
        BY <4>2 DEF Bank!Base, CleanAt
      <4>4. val'[r] = Worth(r)' + Bank!Delta[t][r]
        BY <1>2, <1>3, <3>2, <3>4, <4>3 DEF Bank!TypeOK
      <4>5. x.row = r /\ x.open
        BY <1>11, <3>4 DEF Bank!locking
      <4>6. OpenAt(r)' = {Len(undo) + 1}
        BY <1>2, <1>5, <4>2, <4>5, OneMoreOpen DEF CleanAt
      <4>7. x.txn = t /\ x.before = Worth(r)'
        BY <3>2, <3>4, <4>2 DEF CleanAt
      <4>8. Bank!Delta' = Bank!Delta
        BY DEF Bank!Delta
      <4>9. OpenWrite(t, r)'
        BY <1>6, <1>8, <2>1, <3>4, <4>1, <4>4, <4>6, <4>7, <4>8 DEF OpenWrite
      <4> QED BY <4>9 DEF RowFits
    <3>5. CASE r # s
      <4>1. lock'[r] = lock[r] /\ val'[r] = val[r]
        BY <1>2, <2>1, <1>3, <3>5 DEF Bank!TypeOK
      <4>2. \A o \in Bank!Txn : Wrote(o, r)' = Wrote(o, r)
        BY <1>1, <1>3, <1>4, <3>5, PathStep
      <4>3. OpenAt(r)' = OpenAt(r)
        BY <1>2, <1>5, <3>5, OneMoreOpen
      <4>4. OpenAt(r) \subseteq DOMAIN undo
        BY DEF OpenAt, Bank!OpenOn, Bank!Open
      <4> QED BY <1>2, <1>6, <3>2, <3>3, <4>1, <4>2, <4>3, <4>4, RowUntouched
    <3> QED BY <3>4, <3>5
  <2>4. /\ \A o \in Bank!Txn, r \in Bank!Row :
             lock'[r] = o <=> state'[o] = "run" /\ Has(o, r)'
        /\ \A o \in Bank!Txn : blocked'[o] # Bank!NoRow =>
             state'[o] = "run" /\ lock'[blocked'[o]] = Bank!other(o)
    BY <1>1, <1>2, <1>11, OwnsAfter
  <2> QED BY <2>3, <2>4 DEF LocksFit, Bank!other
<1>12. Bank!locking' = Bank!locking
  BY ItsTurn
<1> QED BY <1>9, <1>10, <1>11, <1>12 DEF BankInv


(* A transaction that ends takes its open records out of the log, and     *)
(* leaves the others as they are.                                          *)
Closes(t) ==
  \A i \in DOMAIN undo :
    /\ undo'[i].txn = undo[i].txn /\ undo'[i].row = undo[i].row
    /\ undo'[i].before = undo[i].before
    /\ undo'[i].open <=> undo[i].open /\ undo[i].txn # t

LEMMA OpenAfter ==
  ASSUME undo \in Seq(Undone), undo' \in Seq(Undone), Len(undo') = Len(undo),
         NEW t, Closes(t), NEW r \in Bank!Row
  PROVE  OpenAt(r)' = {i \in OpenAt(r) : undo[i].txn # t}
<1>1. DOMAIN undo' = DOMAIN undo
  BY LenProperties
<1>2. /\ OpenAt(r) = {i \in DOMAIN undo :
                        undo[i].txn \in Bank!Txn /\ undo[i].open /\ undo[i].row = r}
      /\ OpenAt(r)' = {i \in DOMAIN undo' :
                         undo'[i].txn \in Bank!Txn /\ undo'[i].open /\ undo'[i].row = r}
  BY DEF OpenAt, Bank!OpenOn, Bank!Open, Bank!Txn
<1> QED BY <1>1, <1>2 DEF Closes

(* An end under locking: its rows are unlocked and who waited goes on.     *)
LEMMA LocksAfterEnd ==
  ASSUME NEW t \in Bank!Txn, BankInv, LocksFit, state[t] = "run",
         lock' = Bank!Freed(t),
         blocked' \in {Bank!Waiting(t), [Bank!Waiting(t) EXCEPT ![t] = Bank!NoRow]},
         blocked[t] = Bank!NoRow \/ blocked'[t] = Bank!NoRow,
         state' \in {[state EXCEPT ![t] = "committed"], [state EXCEPT ![t] = "aborted"]},
         \A o \in Bank!Txn \ {t} : pc'[o] = pc[o]
  PROVE  /\ lock' \in [Bank!Row -> Bank!Txn \union {Bank!Nobody}]
         /\ blocked' \in [Bank!Txn -> Bank!Row \union {Bank!NoRow}]
         /\ state' \in [Bank!Txn -> {"run", "committed", "aborted"}]
         /\ \A o \in Bank!Txn, r \in Bank!Row :
              lock'[r] = o <=> state'[o] = "run" /\ Has(o, r)'
         /\ \A o \in Bank!Txn : blocked'[o] = Bank!NoRow
<1>1. /\ lock \in [Bank!Row -> Bank!Txn \union {Bank!Nobody}]
      /\ blocked \in [Bank!Txn -> Bank!Row \union {Bank!NoRow}]
      /\ state \in [Bank!Txn -> {"run", "committed", "aborted"}]
  BY DEF BankInv, Bank!TypeOK
<1>2. \A r \in Bank!Row : lock'[r] = (IF lock[r] = t THEN Bank!Nobody ELSE lock[r])
  BY DEF Bank!Freed
<1>3. lock' \in [Bank!Row -> Bank!Txn \union {Bank!Nobody}]
  BY <1>1 DEF Bank!Freed
<1>4. Bank!Waiting(t) \in [Bank!Txn -> Bank!Row \union {Bank!NoRow}]
  BY <1>1 DEF Bank!Waiting
<1>5. blocked' \in [Bank!Txn -> Bank!Row \union {Bank!NoRow}]
  BY <1>4
<1>6. /\ state' \in [Bank!Txn -> {"run", "committed", "aborted"}]
      /\ state'[t] # "run"
      /\ \A o \in Bank!Txn \ {t} : state'[o] = state[o]
  BY <1>1
<1>7. ASSUME NEW o \in Bank!Txn, NEW r \in Bank!Row
      PROVE  lock'[r] = o <=> state'[o] = "run" /\ Has(o, r)'
  <2>1. CASE o = t
    BY <1>2, <1>6, <2>1, TwoOfThem
  <2>2. CASE o # t
    <3>1. Has(o, r)' = Has(o, r)
      BY <2>2 DEF Has, Bank!Path
    <3>2. lock[r] = o <=> state[o] = "run" /\ Has(o, r)
      BY DEF LocksFit
    <3>3. lock'[r] = o <=> lock[r] = o
      BY <1>2, <2>2, TwoOfThem
    <3> QED BY <1>6, <2>2, <3>1, <3>2, <3>3
  <2> QED BY <2>1, <2>2
<1>8. ASSUME NEW o \in Bank!Txn PROVE blocked'[o] = Bank!NoRow
  <2>1. CASE o = t
    <3>1. Bank!Waiting(t)[t] = blocked[t]
      BY TwoOfThem DEF Bank!Waiting
    <3> QED BY <1>4, <2>1, <3>1
  <2>2. CASE o # t
    <3>1. o = Bank!other(t) /\ Bank!other(o) = t
      BY <2>2, TwoOfThem
    <3>2. blocked'[o] = Bank!Waiting(t)[o]
      BY <1>4, <2>2
    <3>3. blocked[o] # Bank!NoRow => lock[blocked[o]] = t /\ blocked[o] \in Bank!Row
      BY <1>1, <3>1 DEF LocksFit
    <3>4. blocked[o] # Bank!NoRow => Bank!Freed(t)[blocked[o]] = Bank!Nobody
      BY <3>3 DEF Bank!Freed
    <3> QED BY <3>1, <3>2, <3>4 DEF Bank!Waiting
  <2> QED BY <2>1, <2>2
<1> QED BY <1>3, <1>5, <1>6, <1>7, <1>8

LEMMA CommitKeeps ==
  ASSUME NEW t \in Bank!Txn, MayStep(t), Bank!Commit(t)
  PROVE  BankInv'
<1>1. /\ pc[t] = 4 /\ Bank!Done(t)
      /\ state' = [state EXCEPT ![t] = "committed"]
      /\ UNCHANGED <<val, ver, reg, readFrom, staleWrites, lastBlocked, victim,
                     mode, iso, crashed>>
  BY DEF Bank!Commit, Bank!Committing, MayStep, Bank!rows
<1>2. Bank!TypeOK /\ StepsLeft /\ ~crashed
  BY DEF MayStep, BankInv
<1>3. /\ queue' \in Seq(Bank!Txn) /\ pc' \in [Bank!Txn -> 0 .. 5]
      /\ pc' = [pc EXCEPT ![t] = @ + 1] /\ state[t] = "run"
      /\ blocked[t] = Bank!NoRow
  BY <1>1, ItsTurn
<1> DEFINE closed == [i \in DOMAIN undo |->
                        IF undo[i].txn = t THEN [undo[i] EXCEPT !.open = FALSE]
                                           ELSE undo[i]]
<1>4. undo \in Seq(Undone)
  BY <1>2 DEF Bank!TypeOK, Undone
<1>5. DOMAIN undo = 1 .. Len(undo) /\ Len(undo) \in Nat
  BY <1>4, LenProperties
<1>6. closed \in Seq(Undone) /\ Len(closed) = Len(undo)
  <2>1. \A i \in 1 .. Len(undo) :
          undo[i] \in Undone /\ [undo[i] EXCEPT !.open = FALSE] \in Undone
    <3> TAKE i \in 1 .. Len(undo)
    <3>1. undo[i] \in Undone
      BY <1>4, ElementOfSeq
    <3> QED BY <3>1 DEF Undone
  <2>2. closed \in [1 .. Len(undo) -> Undone]
    BY <1>5, <2>1
  <2> QED BY <1>5, <2>2, SeqDef, LenProperties
<1>7. \/ undo' = undo /\ lock' = lock /\ blocked' = blocked
      \/ undo' = closed /\ lock' = Bank!Freed(t) /\ blocked' = Bank!Waiting(t)
  BY DEF Bank!Commit
<1>8. Bank!TypeOK'
  <2>1. undo' \in Seq(Undone) /\ Len(undo') = Len(undo)
    BY <1>4, <1>6, <1>7
  <2>2. DOMAIN undo' = DOMAIN undo
    BY <1>5, <2>1, LenProperties
  <2>3. /\ Bank!Freed(t) \in [Bank!Row -> Bank!Txn \union {Bank!Nobody}]
        /\ Bank!Waiting(t) \in [Bank!Txn -> Bank!Row \union {Bank!NoRow}]
    BY <1>2 DEF Bank!TypeOK, Bank!Freed, Bank!Waiting
  <2>4. /\ lock' \in [Bank!Row -> Bank!Txn \union {Bank!Nobody}]
        /\ blocked' \in [Bank!Txn -> Bank!Row \union {Bank!NoRow}]
    BY <1>2, <1>7, <2>3 DEF Bank!TypeOK
  <2>5. state' \in [Bank!Txn -> {"run", "committed", "aborted"}]
    BY <1>1, <1>2 DEF Bank!TypeOK
  <2>6. undo' \in Seq([txn : Bank!Txn, row : Bank!Row, before : Int, open : BOOLEAN,
                       reverted : BOOLEAN])
    BY <2>1 DEF Undone
  <2> QED BY <1>1, <1>2, <1>3, <2>2, <2>4, <2>5, <2>6 DEF Bank!TypeOK
<1>9. StepsLeft' /\ ~crashed'
  <2>1. state'[t] # "run"
    BY <1>1, <1>2 DEF Bank!TypeOK
  <2>2. \A o \in Bank!Txn \ {t} : state'[o] = state[o] /\ pc'[o] = pc[o]
    BY <1>1, <1>2, <1>3 DEF Bank!TypeOK
  <2> QED BY <1>1, <1>2, <2>1, <2>2 DEF StepsLeft
<1>10. ASSUME Bank!locking PROVE LocksFit'
  <2>1. undo' = closed /\ lock' = Bank!Freed(t) /\ blocked' = Bank!Waiting(t)
    BY <1>10 DEF Bank!Commit, Bank!locking
  <2>2. LocksFit
    BY <1>2, <1>10 DEF MayStep, BankInv
  <2>3. Closes(t)
    <3>1. \A i \in DOMAIN undo : undo[i] \in Undone
      BY <1>4, <1>5, ElementOfSeq
    <3> QED BY <2>1, <3>1 DEF Closes, Undone
  <2>4. \A o \in Bank!Txn \ {t} : pc'[o] = pc[o]
    BY <1>2, <1>3 DEF Bank!TypeOK
  <2>5. /\ \A o \in Bank!Txn, r \in Bank!Row :
             lock'[r] = o <=> state'[o] = "run" /\ Has(o, r)'
        /\ \A o \in Bank!Txn : blocked'[o] = Bank!NoRow
    BY <1>1, <1>3, <2>1, <2>2, <2>4, LocksAfterEnd DEF MayStep
  <2>6. Bank!Committed' = Bank!Committed \union {t} /\ t \notin Bank!Committed
    BY <1>1, <1>2, <1>3 DEF Bank!Committed, Bank!TypeOK
  <2>7. ASSUME NEW r \in Bank!Row PROVE RowFits(r)'
    <3>1. lock[r] = t /\ Wrote(t, r)
      <4>1. Has(t, r) /\ Wrote(t, r)
        BY <1>1, Programs DEF Has, Wrote
      <4> QED BY <1>3, <2>2, <4>1 DEF LocksFit
    <3>2. OpenWrite(t, r)
      BY <2>2, <3>1, TwoOfThem DEF LocksFit, RowFits, Unlocked, OnlyRead, OpenWrite
    <3>3. val'[r] = Worth(r) + Bank!Delta[t][r]
      BY <1>1, <3>2 DEF OpenWrite
    <3>4. Worth(r)' = Worth(r) + Bank!Delta[t][r]
      <4>1. Worth(r)' = Bank!Transferred(Bank!Committed \union {t}, r)
        BY <2>6 DEF Worth, Bank!Transferred, Bank!Effect, Bank!Delta
      <4> QED BY <2>6, <4>1, WorthAdds DEF Worth
    <3>5. OpenAt(r)' = {i \in OpenAt(r) : undo[i].txn # t}
      BY <1>4, <1>6, <2>1, <2>3, OpenAfter
    <3>6. OpenAt(r)' = {}
      BY <3>2, <3>5 DEF OpenWrite
    <3>7. lock'[r] = Bank!Nobody
      BY <2>1, <3>1 DEF Bank!Freed
    <3>8. Bank!Nobody' = Bank!Nobody
      BY DEF Bank!Nobody
    <3> QED BY <3>3, <3>4, <3>6, <3>7, <3>8 DEF RowFits, Unlocked, CleanAt
  <2> QED BY <2>5, <2>7 DEF LocksFit
<1>11. Bank!locking' = Bank!locking
  BY ItsTurn
<1> QED BY <1>8, <1>9, <1>10, <1>11 DEF BankInv


LEMMA RollbackKeeps ==
  ASSUME NEW t \in Bank!Txn, BankInv, ~crashed, Bank!Rollback(t),
         UNCHANGED <<mode, iso, crashed>>
  PROVE  BankInv'
<1>1. /\ val' = Bank!Before({t}) /\ undo' = Bank!Reverted({t})
      /\ state' = [state EXCEPT ![t] = "aborted"] /\ victim' = t
      /\ lock' = Bank!Freed(t)
      /\ blocked' = [Bank!Waiting(t) EXCEPT ![t] = Bank!NoRow]
      /\ queue' = Bank!Remaining(t)
      /\ UNCHANGED <<ver, pc, reg, readFrom, staleWrites, lastBlocked, mode, iso,
                     crashed>>
  BY DEF Bank!Rollback
<1>2. Bank!TypeOK /\ StepsLeft
  BY DEF BankInv
<1>3. undo \in Seq(Undone) /\ undo' \in Seq(Undone) /\ Len(undo') = Len(undo)
  BY <1>1, <1>2, RevertedIsSeq DEF Bank!TypeOK, Undone
<1>4. DOMAIN undo = 1 .. Len(undo) /\ DOMAIN undo' = DOMAIN undo
  BY <1>3, LenProperties
<1>5. Bank!TypeOK'
  <2>1. val' \in [Bank!Row -> Int]
    <3>1. \A r \in Bank!Row : Bank!Before({t})[r] \in Int
      BY BeforeIsInt
    <3> QED BY <1>1, <3>1 DEF Bank!Before
  <2>2. queue' \in Seq(Bank!Txn)
    BY <1>1, RemainingIsSeq
  <2>3. lock' \in [Bank!Row -> Bank!Txn \union {Bank!Nobody}]
    BY <1>1, <1>2 DEF Bank!TypeOK, Bank!Freed
  <2>4. blocked' \in [Bank!Txn -> Bank!Row \union {Bank!NoRow}]
    <3>1. Bank!Waiting(t) \in [Bank!Txn -> Bank!Row \union {Bank!NoRow}]
      BY <1>2 DEF Bank!TypeOK, Bank!Waiting
    <3> QED BY <1>1, <3>1
  <2>5. state' \in [Bank!Txn -> {"run", "committed", "aborted"}]
    BY <1>1, <1>2 DEF Bank!TypeOK
  <2>6. undo' \in Seq([txn : Bank!Txn, row : Bank!Row, before : Int, open : BOOLEAN,
                       reverted : BOOLEAN])
    BY <1>3 DEF Undone
  <2> QED BY <1>1, <1>2, <1>4, <2>1, <2>2, <2>3, <2>4, <2>5, <2>6 DEF Bank!TypeOK
<1>6. StepsLeft'
  <2>1. \A o \in Bank!Txn : state'[o] = "run" => state[o] = "run"
    BY <1>1, <1>2 DEF Bank!TypeOK
  <2> QED BY <1>1, <1>2, <2>1 DEF StepsLeft
<1>7. ASSUME Bank!locking PROVE LocksFit'
  <2>1. LocksFit
    BY <1>7 DEF BankInv
  <2>2. state[t] = "run"
    <3>1. PICK i \in DOMAIN queue : state[queue[i]] = "run" /\ ~Bank!Runnable(queue[i])
      BY DEF Bank!Rollback
    <3>2. queue[i] \in Bank!Txn
      <4>1. queue \in Seq(Bank!Txn)
        BY <1>2 DEF Bank!TypeOK
      <4> QED BY <3>1, <4>1, LenProperties, ElementOfSeq
    <3>3. blocked[queue[i]] \in Bank!Row
      BY <1>2, <3>1, <3>2 DEF Bank!Runnable, Bank!TypeOK
    <3>4. lock[blocked[queue[i]]] = Bank!other(queue[i])
      BY <2>1, <3>2, <3>3, RowNames DEF LocksFit
    <3>5. state[Bank!other(queue[i])] = "run"
      BY <2>1, <3>2, <3>3, <3>4, TwoOfThem DEF LocksFit
    <3> QED BY <3>1, <3>2, <3>5, TwoOfThem
  <2>3. /\ \A o \in Bank!Txn, r \in Bank!Row :
             lock'[r] = o <=> state'[o] = "run" /\ Has(o, r)'
        /\ \A o \in Bank!Txn : blocked'[o] = Bank!NoRow
    <3>1. blocked'[t] = Bank!NoRow
      BY <1>1, <1>2 DEF Bank!Waiting
    <3> QED BY <1>1, <2>1, <2>2, <3>1, LocksAfterEnd
  <2>4. Closes(t)
    <3>1. \A i \in DOMAIN undo : undo[i] \in Undone
      BY <1>3, <1>4, ElementOfSeq
    <3> QED BY <1>1, <3>1 DEF Closes, Undone, Bank!Reverted, Bank!Open
  <2>5. Bank!Committed' = Bank!Committed
    BY <1>1, <1>2, <2>2 DEF Bank!Committed, Bank!TypeOK
  <2>6. ASSUME NEW r \in Bank!Row PROVE RowFits(r)'
    <3>1. Worth(r)' = Worth(r)
      BY <2>5, WorthKept
    <3>2. OpenAt(r)' = {i \in OpenAt(r) : undo[i].txn # t}
      BY <1>3, <2>4, OpenAfter
    <3>3. Bank!OpenOn({t}, r) = {i \in OpenAt(r) : undo[i].txn = t}
      BY DEF OpenAt, Bank!OpenOn, Bank!Open
    <3>4. lock'[r] = IF lock[r] = t THEN Bank!Nobody ELSE lock[r]
      BY <1>1 DEF Bank!Freed
    <3>5. Bank!Nobody' = Bank!Nobody /\ Bank!Delta' = Bank!Delta
      BY DEF Bank!Nobody, Bank!Delta
    <3>6. \A o \in Bank!Txn : Wrote(o, r)' = Wrote(o, r)
      BY <1>1 DEF Wrote, Bank!Path
    <3>7. ASSUME CleanAt(r) PROVE CleanAt(r)' /\ val'[r] = val[r]
      <4>1. OpenAt(r)' = {} /\ Bank!OpenOn({t}, r) = {}
        BY <3>2, <3>3, <3>7 DEF CleanAt
      <4>2. val'[r] = val[r]
        BY <1>1, <4>1, BeforeNone
      <4> QED BY <3>1, <3>7, <4>1, <4>2 DEF CleanAt
    <3>8. CASE Unlocked(r)
      BY <3>4, <3>5, <3>7, <3>8, TwoOfThem DEF RowFits, Unlocked
    <3>9. ASSUME NEW o \in Bank!Txn, OnlyRead(o, r) PROVE RowFits(r)'
      <4>1. CleanAt(r)' /\ val'[r] = val[r]
        BY <3>7, <3>9 DEF OnlyRead
      <4>2. CASE o = t
        BY <3>4, <3>5, <3>9, <4>1, <4>2 DEF RowFits, OnlyRead, Unlocked
      <4>3. CASE o # t
        <5>1. lock'[r] = o /\ ~Wrote(o, r)' /\ reg'[o][r].v = val'[r]
          BY <1>1, <3>4, <3>6, <3>9, <4>1, <4>3 DEF OnlyRead
        <5> QED BY <4>1, <5>1 DEF RowFits, OnlyRead
      <4> QED BY <4>2, <4>3
    <3>10. ASSUME NEW o \in Bank!Txn, OpenWrite(o, r) PROVE RowFits(r)'
      <4>1. PICK i \in DOMAIN undo : /\ OpenAt(r) = {i}
                                     /\ undo[i].txn = o
                                     /\ undo[i].before = Worth(r)
        BY <3>10 DEF OpenWrite
      <4>2. CASE o = t
        <5>1. OpenAt(r)' = {} /\ Bank!OpenOn({t}, r) = {i}
          BY <3>2, <3>3, <4>1, <4>2
        <5>2. i \in Nat
          BY <1>3, <1>4, LenProperties
        <5>3. val'[r] = Worth(r)'
          <6>1. Bank!Before({t})[r] = undo[i].before
            BY <5>1, <5>2, BeforeOne
          <6> QED BY <1>1, <3>1, <4>1, <6>1
        <5>4. lock'[r] = Bank!Nobody
          BY <3>4, <3>10, <4>2 DEF OpenWrite
        <5> QED BY <3>5, <5>1, <5>3, <5>4 DEF RowFits, Unlocked, CleanAt
      <4>3. CASE o # t
        <5>1. OpenAt(r)' = {i} /\ Bank!OpenOn({t}, r) = {}
          BY <3>2, <3>3, <4>1, <4>3
        <5>2. val'[r] = Worth(r)' + Bank!Delta'[o][r]
          BY <1>1, <3>1, <3>5, <3>10, <5>1, BeforeNone DEF OpenWrite
        <5>3. lock'[r] = o /\ Wrote(o, r)'
          BY <3>4, <3>6, <3>10, <4>3 DEF OpenWrite
        <5>4. i \in DOMAIN undo' /\ undo'[i].txn = o /\ undo'[i].before = Worth(r)'
          BY <1>4, <2>4, <3>1, <4>1 DEF Closes
        <5>5. OpenWrite(o, r)'
          BY <5>1, <5>2, <5>3, <5>4 DEF OpenWrite
        <5> QED BY <5>5 DEF RowFits
      <4> QED BY <4>2, <4>3
    <3>11. RowFits(r)
      BY <2>1 DEF LocksFit
    <3> QED BY <3>8, <3>9, <3>10, <3>11 DEF RowFits
  <2> QED BY <2>3, <2>6 DEF LocksFit
<1>8. Bank!locking' = Bank!locking
  BY <1>1 DEF Bank!locking
<1> QED BY <1>1, <1>5, <1>6, <1>7, <1>8 DEF BankInv

LEMMA CrashKeeps ==
  ASSUME BankInv, Bank!Crash
  PROVE  BankInv'
<1>1. /\ ~crashed /\ crashed' = TRUE
      /\ val' = Bank!Before(Bank!Txn) /\ undo' = Bank!Reverted(Bank!Txn)
      /\ UNCHANGED <<mode, iso, queue, ver, lock, blocked, pc, state, reg, readFrom,
                     staleWrites, lastBlocked, victim>>
  BY DEF Bank!Crash, Bank!settings
<1>2. Bank!TypeOK
  BY DEF BankInv
<1>3. undo \in Seq(Undone) /\ undo' \in Seq(Undone) /\ Len(undo') = Len(undo)
  BY <1>1, <1>2, RevertedIsSeq DEF Bank!TypeOK, Undone
<1>4. DOMAIN undo = 1 .. Len(undo) /\ DOMAIN undo' = DOMAIN undo
  BY <1>3, LenProperties
<1>5. Bank!TypeOK'
  <2>1. val' \in [Bank!Row -> Int]
    <3>1. \A r \in Bank!Row : Bank!Before(Bank!Txn)[r] \in Int
      BY BeforeIsInt
    <3> QED BY <1>1, <3>1 DEF Bank!Before
  <2>2. undo' \in Seq([txn : Bank!Txn, row : Bank!Row, before : Int, open : BOOLEAN,
                       reverted : BOOLEAN])
    BY <1>3 DEF Undone
  <2> QED BY <1>1, <1>2, <1>4, <2>1, <2>2 DEF Bank!TypeOK
<1>6. ASSUME Bank!locking, NEW r \in Bank!Row PROVE CleanAt(r)'
  <2>1. val'[r] = Worth(r)
    BY <1>1, <1>6, FittingRowsAreSerial DEF Bank!SerialWhenLocked, Worth
  <2>2. Worth(r)' = Worth(r)
    BY <1>1, WorthKept DEF Bank!Committed
  <2>3. OpenAt(r)' = {}
    <3>1. \A i \in DOMAIN undo : undo[i] \in Undone
      BY <1>3, <1>4, ElementOfSeq
    <3>2. \A i \in DOMAIN undo : ~undo'[i].open
      BY <1>1, <3>1 DEF Bank!Reverted, Bank!Open, Undone
    <3> QED BY <1>4, <3>2 DEF OpenAt, Bank!OpenOn, Bank!Open
  <2> QED BY <2>1, <2>2, <2>3 DEF CleanAt
<1>7. Bank!locking' = Bank!locking
  BY <1>1 DEF Bank!locking
<1> QED BY <1>1, <1>5, <1>6, <1>7 DEF BankInv, Bank!Row


-------------------------------------------------------------------------------
(* The sliders' orders: the loop that builds one exists, and it only ever  *)
(* puts out steps of the two.                                              *)
Turns(lead, stride, k, g) ==
  g = [i \in 0 .. k |-> IF i = 0 THEN Bank!Led(lead) ELSE Bank!take(g[i - 1], stride)]
Turning(lead, stride, k) == \E g : Turns(lead, stride, k, g)

LEMMA TurnsExist ==
  ASSUME NEW lead, NEW stride
  PROVE  \A k \in Nat : Turning(lead, stride, k)
<1> DEFINE T == {k \in Nat : ~Turning(lead, stride, k)}
           led == Bank!Led(lead)
<1> SUFFICES ASSUME T # {} PROVE FALSE
  OBVIOUS
<1>1. PICK k \in T : \A i \in T : k <= i
  BY LeastIn
<1>2. k \in Nat /\ ~Turning(lead, stride, k)
  BY <1>1
<1> HIDE DEF led
<1>3. k # 0
  <2> SUFFICES ASSUME k = 0 PROVE FALSE
    OBVIOUS
  <2> DEFINE g == [i \in 0 .. 0 |-> led]
  <2>1. g = [i \in 0 .. 0 |-> IF i = 0 THEN led ELSE Bank!take(g[i - 1], stride)]
    OBVIOUS
  <2> HIDE DEF g
  <2>2. Turns(lead, stride, k, g)
    BY <2>1 DEF Turns, led
  <2> QED BY <1>2, <2>2 DEF Turning
<1>4. k - 1 \in Nat /\ Turning(lead, stride, k - 1)
  <2>1. k - 1 \in Nat /\ ~(k <= k - 1)
    BY <1>2, <1>3
  <2> QED BY <1>1, <2>1
<1>5. PICK g : Turns(lead, stride, k - 1, g)
  BY <1>4 DEF Turning
<1>6. g = [i \in 0 .. k - 1 |-> IF i = 0 THEN led ELSE Bank!take(g[i - 1], stride)]
  BY <1>5 DEF Turns, led
<1> DEFINE e == [i \in 0 .. k |-> IF i = k THEN Bank!take(g[k - 1], stride) ELSE g[i]]
<1>7. \A i \in 0 .. k - 1 : g[i] = IF i = 0 THEN led ELSE Bank!take(g[i - 1], stride)
  BY <1>2, <1>3, <1>6
<1>8. ASSUME NEW i \in 0 .. k
      PROVE  e[i] = IF i = 0 THEN led ELSE Bank!take(e[i - 1], stride)
  <2>1. CASE i = k
    <3>1. k - 1 \in 0 .. k /\ k - 1 # k /\ k \in 0 .. k
      BY <1>2, <1>3
    <3>2. e[k] = Bank!take(g[k - 1], stride) /\ e[k - 1] = g[k - 1]
      BY <3>1
    <3> QED BY <1>3, <2>1, <3>2
  <2>2. CASE i # k
    <3>1. i \in 0 .. k - 1 /\ e[i] = g[i]
      BY <1>2, <2>2
    <3>2. CASE i = 0
      BY <1>7, <3>1, <3>2
    <3>3. CASE i # 0
      <4>1. i - 1 \in 0 .. k /\ i - 1 # k
        BY <1>2, <2>2, <3>3
      <4>2. e[i - 1] = g[i - 1]
        BY <4>1
      <4> QED BY <1>7, <3>1, <3>3, <4>2
    <3> QED BY <3>2, <3>3
  <2> QED BY <2>1, <2>2
<1>9. e = [i \in 0 .. k |-> e[i]]
  OBVIOUS
<1> HIDE DEF e
<1>10. e = [i \in 0 .. k |-> IF i = 0 THEN led ELSE Bank!take(e[i - 1], stride)]
  BY <1>8, <1>9
<1>11. Turns(lead, stride, k, e)
  BY <1>10 DEF Turns, led
<1> QED BY <1>2, <1>11 DEF Turning

Partial(s) ==
  s.left \in [Bank!Txn -> Nat] /\ s.turn \in Bank!Txn /\ s.out \in Seq(Bank!Txn)

LEMMA TakePuts ==
  ASSUME NEW s, Partial(s), NEW n \in Nat
  PROVE  Partial(Bank!take(s, n))
<1> DEFINE k == Bank!Least(n, s.left[s.turn])
<1>1. /\ s.left[s.turn] \in Nat /\ s.turn \in Bank!Txn /\ s.left \in [Bank!Txn -> Nat]
      /\ s.out \in Seq(Bank!Txn)
  BY DEF Partial
<1>2. k \in Nat /\ s.left[s.turn] - k \in Nat
  BY <1>1 DEF Bank!Least
<1>3. Bank!take(s, n) = [left |-> [s.left EXCEPT ![s.turn] = @ - k],
                         turn |-> Bank!other(s.turn),
                         out  |-> s.out \o Bank!Times(s.turn, k)]
  BY DEF Bank!take
<1> HIDE DEF k
<1>4. s.out \o Bank!Times(s.turn, k) \in Seq(Bank!Txn)
  BY <1>1, <1>2, TimesIsSeq, ConcatProperties
<1>5. [s.left EXCEPT ![s.turn] = @ - k] \in [Bank!Txn -> Nat]
  BY <1>1, <1>2
<1>6. Bank!other(s.turn) \in Bank!Txn
  BY <1>1, TwoOfThem
<1> QED BY <1>3, <1>4, <1>5, <1>6 DEF Partial

LEMMA BuiltIsSeq ==
  ASSUME NEW lead \in 0 .. 5, NEW stride \in 1 .. 5
  PROVE  Bank!buildOrder(lead, stride) \in Seq(Bank!Txn)
<1> DEFINE g == CHOOSE g : Turns(lead, stride, 10, g)
           R(i) == i \in 0 .. 10 => Partial(g[i])
<1>1. Turns(lead, stride, 10, g)
  BY TurnsExist DEF Turning
<1>2. Bank!buildOrder(lead, stride) = g[10].out
  BY DEF Bank!buildOrder, Turns
<1> HIDE DEF g
<1>3. g = [i \in 0 .. 10 |-> IF i = 0 THEN Bank!Led(lead) ELSE Bank!take(g[i - 1], stride)]
  BY <1>1 DEF Turns
<1>4. g[0] = Bank!Led(lead)
      /\ \A i \in 1 .. 10 : g[i] = Bank!take(g[i - 1], stride)
  BY <1>3
<1>5. Partial(g[0])
  <2>1. Bank!Times(1, lead) \in Seq(Bank!Txn)
    <3>1. 1 \in Bank!Txn /\ lead \in Nat
      BY DEF Bank!Txn
    <3> QED BY <3>1, TimesIsSeq
  <2>2. [t \in Bank!Txn |-> IF t = 1 THEN 5 - lead ELSE 5] \in [Bank!Txn -> Nat]
    OBVIOUS
  <2>3. 2 \in Bank!Txn
    BY DEF Bank!Txn
  <2> QED BY <1>4, <2>1, <2>2, <2>3 DEF Partial, Bank!Led
<1>6. \A i \in 1 .. 10 : Partial(g[i - 1]) => Partial(g[i])
  <2> TAKE i \in 1 .. 10
  <2>1. g[i] = Bank!take(g[i - 1], stride) /\ stride \in Nat
    BY <1>4
  <2> QED BY <2>1, TakePuts
<1>7. Partial(g[10])
  <2> DEFINE T == {i \in Nat : i <= 10 /\ ~Partial(g[i])}
  <2> SUFFICES ASSUME T # {} PROVE FALSE
    OBVIOUS
  <2>1. PICK i \in T : \A j \in T : i <= j
    BY LeastIn
  <2>2. i \in 1 .. 10 /\ i - 1 \in Nat /\ i - 1 <= 10 /\ ~(i <= i - 1)
    BY <1>5, <2>1
  <2>3. Partial(g[i - 1])
    BY <2>1, <2>2
  <2> QED BY <1>6, <2>1, <2>2, <2>3
<1> QED BY <1>2, <1>7 DEF Partial

-------------------------------------------------------------------------------
LEMMA BankInit ==
  ASSUME Init
  PROVE  BankThere
<1> SUFFICES ASSUME lab = "bank" PROVE BankInv
  BY DEF BankThere, Init
<1>1. Bank!Init
  BY DEF Init
<1>2. queue \in Seq(Bank!Txn)
  <2>1. CASE queue \in Bank!SliderOrders
    <3>1. PICK lead \in 0 .. 5, stride \in 1 .. 5 : queue = Bank!buildOrder(lead, stride)
      BY <2>1 DEF Bank!SliderOrders
    <3> QED BY <3>1, BuiltIsSeq
  <2>2. CASE queue \in Bank!AllOrders
    <3>1. PICK mine : queue = [i \in 1 .. 10 |-> IF i \in mine THEN 1 ELSE 2]
      BY <2>2 DEF Bank!AllOrders
    <3>2. queue \in [1 .. 10 -> Bank!Txn]
      BY <3>1 DEF Bank!Txn
    <3>3. 10 \in Nat
      OBVIOUS
    <3> QED BY <3>2, <3>3, SeqDef
  <2> QED BY <1>1, <2>1, <2>2 DEF Bank!Init
<1>3. /\ mode \in {"explicit", "autocommit"} /\ iso \in BOOLEAN
      /\ val = [r \in Bank!Row |-> Start] /\ ver = [r \in Bank!Row |-> 0]
      /\ lock = [r \in Bank!Row |-> Bank!Nobody]
      /\ blocked = [t \in Bank!Txn |-> Bank!NoRow]
      /\ pc = [t \in Bank!Txn |-> 0] /\ state = [t \in Bank!Txn |-> "run"]
      /\ reg = [t \in Bank!Txn |-> [r \in Bank!Row |-> Bank!NotRead]]
      /\ readFrom = [t \in Bank!Txn |-> {}] /\ undo = <<>> /\ staleWrites = {}
      /\ lastBlocked = Bank!Nobody /\ victim = Bank!Nobody /\ crashed = FALSE
  BY <1>1 DEF Bank!Init
<1>4. undo \in Seq(Undone) /\ DOMAIN undo = {}
  BY <1>3, EmptySeq, LenProperties
<1>5. Bank!TypeOK
  <2>1. val \in [Bank!Row -> Int]
    BY <1>3, Assumption DEF Bank!BankAssumption
  <2>2. reg \in [Bank!Txn -> [Bank!Row -> [v : Int, ver : Int]]]
    BY <1>3 DEF Bank!NotRead
  <2>3. undo \in Seq([txn : Bank!Txn, row : Bank!Row, before : Int, open : BOOLEAN,
                      reverted : BOOLEAN])
    BY <1>4 DEF Undone
  <2>4. pc \in [Bank!Txn -> 0 .. 5] /\ ver \in [Bank!Row -> Nat]
    BY <1>3
  <2>5. /\ lock \in [Bank!Row -> Bank!Txn \union {Bank!Nobody}]
        /\ blocked \in [Bank!Txn -> Bank!Row \union {Bank!NoRow}]
        /\ state \in [Bank!Txn -> {"run", "committed", "aborted"}]
        /\ readFrom \in [Bank!Txn -> SUBSET Bank!Txn]
    BY <1>3
  <2> QED BY <1>2, <1>3, <2>1, <2>2, <2>3, <2>4, <2>5 DEF Bank!TypeOK
<1>6. StepsLeft
  BY <1>3 DEF StepsLeft
<1>7. LocksFit
  <2>1. \A t \in Bank!Txn, r \in Bank!Row : lock[r] # t /\ ~Has(t, r)
    BY <1>3, TwoOfThem DEF Has
  <2>2. ASSUME NEW r \in Bank!Row PROVE Unlocked(r)
    <3>1. OpenAt(r) = {}
      BY <1>4 DEF OpenAt, Bank!OpenOn, Bank!Open
    <3>2. Worth(r) = Start
      <4>1. Bank!Committed = {}
        BY <1>3 DEF Bank!Committed
      <4>2. Start \in Int
        BY Assumption DEF Bank!BankAssumption
      <4> QED BY <4>1, <4>2 DEF Worth, Bank!Transferred, Bank!Effect
    <3> QED BY <1>3, <3>1, <3>2 DEF Unlocked, CleanAt
  <2> QED BY <1>3, <2>1, <2>2 DEF LocksFit, RowFits
<1> QED BY <1>3, <1>5, <1>6, <1>7 DEF BankInv

LEMMA BankStep ==
  ASSUME BankThere, [Next]_vars
  PROVE  BankThere'
<1>1. CASE UNCHANGED vars
  <2>1. UNCHANGED bankVars /\ lab' = lab
    BY <1>1 DEF vars
  <2>2. BankInv' = BankInv
    BY <2>1 DEF bankVars, BankInv, Bank!TypeOK, StepsLeft, LocksFit, RowFits,
                Unlocked, OnlyRead, OpenWrite, CleanAt, OpenAt, Worth, Has, Wrote,
                Bank!OpenOn, Bank!Open, Bank!Transferred, Bank!Effect,
                Bank!Committed, Bank!locking, Bank!Delta, Bank!Path, Bank!other
  <2> QED BY <2>1, <2>2 DEF BankThere
<1>2. CASE Next
  <2>1. lab' = lab
    BY <1>2 DEF Next
  <2>2. CASE lab # "bank"
    BY <2>1, <2>2 DEF BankThere
  <2>3. CASE lab = "bank"
    <3>1. BankInv
      BY <2>3 DEF BankThere
    <3>2. Bank!Run \/ Bank!Crash
      BY <1>2, <2>3 DEF Next, Step, Bank!Next
    <3>3. CASE Bank!Crash
      BY <2>1, <3>1, <3>3, CrashKeeps DEF BankThere
    <3>4. CASE Bank!Run
      <4>1. PICK t \in Bank!Txn : Bank!Issue(t) \/ Bank!Rollback(t)
        BY <3>4 DEF Bank!Run
      <4>2. ~crashed /\ UNCHANGED <<mode, iso, crashed>>
        BY <3>4 DEF Bank!Run, Bank!settings
      <4>3. CASE Bank!Rollback(t)
        BY <2>1, <3>1, <4>2, <4>3, RollbackKeeps DEF BankThere
      <4>4. CASE Bank!Issue(t)
        <5>1. MayStep(t)
          BY <3>1, <4>2, <4>4 DEF MayStep, Bank!Issue
        <5>2. Bank!Wait(t) \/ Bank!Read(t) \/ Bank!Write(t) \/ Bank!Commit(t)
          BY <4>4 DEF Bank!Issue
        <5>3. BankInv'
          BY <5>1, <5>2, WaitKeeps, ReadKeeps, WriteKeeps, CommitKeeps
        <5> QED BY <2>1, <5>3 DEF BankThere
      <4> QED BY <4>1, <4>3, <4>4
    <3> QED BY <3>2, <3>3, <3>4
  <2> QED BY <2>2, <2>3
<1> QED BY <1>1, <1>2

LEMMA BankAlways == Spec => []BankThere
<1>1. Init => BankThere
  BY BankInit
<1>2. BankThere /\ [Next]_vars => BankThere'
  BY BankStep
<1> QED BY <1>1, <1>2, PTL DEF Spec

(* Whatever is moved from and to which balance, in whichever order the     *)
(* steps are issued, and wherever the power is cut: under strict two-phase *)
(* locking the balances, less what is open, are those of the committed     *)
(* transfers, each applied once and whole.                                 *)
THEOREM LockedTransfersSerial == Spec => []SerialWhenLocked
<1>1. BankThere => SerialWhenLocked
  BY FittingRowsAreSerial DEF BankThere, SerialWhenLocked
<1> QED BY <1>1, BankAlways, PTL


-------------------------------------------------------------------------------
(* Who runs is in the queue, with a place for every step that is left.     *)
Places(s, t) == {i \in DOMAIN s : s[i] = t}
Count(s, t)  == Cardinality(Places(s, t))

LEMMA CountIsNat ==
  ASSUME NEW S, NEW s \in Seq(S), NEW t
  PROVE  IsFiniteSet(Places(s, t)) /\ Count(s, t) \in Nat
<1>1. Len(s) \in Nat /\ DOMAIN s = 1 .. Len(s)
  BY LenProperties
<1>2. IsFiniteSet(DOMAIN s)
  BY <1>1, FS_Interval
<1>3. IsFiniteSet(Places(s, t))
  BY <1>2, FS_Subset DEF Places
<1> QED BY <1>3, FS_CardinalityType DEF Count

LEMMA StepsCounted == \A t : Bank!StepsOf(t) = Count(queue, t)
BY DEF Bank!StepsOf, Count, Places, Cardinality, Bank!Cardinality

(* Steps of u that are put behind an order.                                *)
LEMMA CountAfterTimes ==
  ASSUME NEW S, NEW s \in Seq(S), NEW u \in S, NEW k \in Nat, NEW t
  PROVE  Count(s \o Bank!Times(u, k), t) = Count(s, t) + (IF t = u THEN k ELSE 0)
<1> DEFINE n == Len(s)
           w == s \o Bank!Times(u, k)
           more == n + 1 .. n + k
<1>1. n \in Nat /\ DOMAIN s = 1 .. n
  BY LenProperties
<1>2. /\ Bank!Times(u, k) \in Seq(S) /\ Len(Bank!Times(u, k)) = k
      /\ \A i \in 1 .. k : Bank!Times(u, k)[i] = u
  <2>1. Bank!Times(u, k) \in [1 .. k -> S]
    BY DEF Bank!Times
  <2>2. Bank!Times(u, k) \in Seq(S)
    BY <2>1, SeqDef
  <2> QED BY <2>1, <2>2, LenProperties DEF Bank!Times
<1>3. /\ w \in Seq(S) /\ Len(w) = n + k
      /\ \A i \in 1 .. n + k : w[i] = IF i <= n THEN s[i] ELSE Bank!Times(u, k)[i - n]
  BY <1>2, ConcatProperties
<1> HIDE DEF w
<1>4. DOMAIN w = 1 .. n + k
  BY <1>3, LenProperties
<1>5. \A i \in 1 .. n : i \in 1 .. n + k /\ w[i] = s[i]
  BY <1>1, <1>3
<1>6. \A i \in more : i \in 1 .. n + k /\ w[i] = u
  <2> TAKE i \in more
  <2>1. i \in 1 .. n + k /\ ~(i <= n) /\ i - n \in 1 .. k
    BY <1>1
  <2> QED BY <1>2, <1>3, <2>1
<1>7. \A i \in 1 .. n + k : i \in 1 .. n \/ i \in more
  BY <1>1
<1>8. CASE t # u
  <2>1. Places(w, t) = Places(s, t)
    BY <1>1, <1>4, <1>5, <1>6, <1>7, <1>8 DEF Places
  <2>2. Count(s, t) \in Nat
    BY CountIsNat
  <2> QED BY <1>8, <2>1, <2>2 DEF Count, w
<1>9. CASE t = u
  <2>1. Places(w, t) = Places(s, t) \union more
    BY <1>1, <1>4, <1>5, <1>6, <1>7, <1>9 DEF Places
  <2>2. Places(s, t) \intersect more = {}
    BY <1>1 DEF Places
  <2>3. IsFiniteSet(Places(s, t)) /\ Count(s, t) \in Nat
    BY CountIsNat
  <2>4. IsFiniteSet(more) /\ Cardinality(more) = k
    <3>1. n + 1 \in Int /\ n + k \in Int
      BY <1>1
    <3>2. /\ IsFiniteSet(n + 1 .. n + k)
          /\ Cardinality(n + 1 .. n + k)
               = IF n + 1 > n + k THEN 0 ELSE (n + k) - (n + 1) + 1
      BY <3>1, FS_Interval
    <3> QED BY <1>1, <3>2
  <2>5. Cardinality(Places(s, t) \union more)
          = Cardinality(Places(s, t)) + Cardinality(more)
              - Cardinality(Places(s, t) \intersect more)
    BY <2>3, <2>4, FS_Union
  <2>6. Cardinality(Places(s, t) \intersect more) = 0
    BY <2>2, FS_EmptySet
  <2> QED BY <1>9, <2>1, <2>3, <2>4, <2>5, <2>6 DEF Count, w
<1> QED BY <1>8, <1>9

(* A step that leaves.                                                     *)
LEMMA CountWithout ==
  ASSUME NEW S, NEW s \in Seq(S), NEW k \in DOMAIN s, NEW t
  PROVE  Count(SubSeq(s, 1, k - 1) \o SubSeq(s, k + 1, Len(s)), t)
           = Count(s, t) - (IF s[k] = t THEN 1 ELSE 0)
<1> DEFINE n == Len(s)
           a == SubSeq(s, 1, k - 1)
           b == SubSeq(s, k + 1, n)
           w == a \o b
           A == Places(w, t)
           B == Places(s, t) \ {k}
           f == [i \in A |-> IF i < k THEN i ELSE i + 1]
<1>1. n \in Nat /\ DOMAIN s = 1 .. n /\ k \in 1 .. n
  BY LenProperties
<1>2. \A i \in 1 .. n : s[i] \in S
  BY ElementOfSeq
<1>3. /\ a \in Seq(S) /\ Len(a) = k - 1
      /\ \A i \in 1 .. k - 1 : a[i] = s[i]
  <2>1. \A i \in 1 .. k - 1 : s[i] \in S
    BY <1>1, <1>2
  <2>2. /\ a \in Seq(S) /\ Len(a) = IF 1 <= k - 1 THEN (k - 1) - 1 + 1 ELSE 0
        /\ \A i \in 1 .. (k - 1) - 1 + 1 : a[i] = s[1 + i - 1]
    <3>1. 1 \in Int /\ k - 1 \in Int
      BY <1>1
    <3> QED BY <2>1, <3>1, SubSeqProperties
  <2> QED BY <1>1, <2>2
<1>4. /\ b \in Seq(S) /\ Len(b) = n - k
      /\ \A i \in 1 .. n - k : b[i] = s[k + i]
  <2>1. \A i \in k + 1 .. n : s[i] \in S
    BY <1>1, <1>2
  <2>2. /\ b \in Seq(S) /\ Len(b) = IF k + 1 <= n THEN n - (k + 1) + 1 ELSE 0
        /\ \A i \in 1 .. n - (k + 1) + 1 : b[i] = s[(k + 1) + i - 1]
    <3>1. k + 1 \in Int /\ n \in Int
      BY <1>1
    <3> QED BY <2>1, <3>1, SubSeqProperties
  <2> QED BY <1>1, <2>2
<1> HIDE DEF a, b
<1>5. /\ w \in Seq(S) /\ Len(w) = (k - 1) + (n - k)
      /\ \A i \in 1 .. (k - 1) + (n - k) :
           w[i] = IF i <= k - 1 THEN a[i] ELSE b[i - (k - 1)]
  <2>1. /\ a \o b \in Seq(S) /\ Len(a \o b) = Len(a) + Len(b)
        /\ \A i \in 1 .. Len(a) + Len(b) :
             (a \o b)[i] = IF i <= Len(a) THEN a[i] ELSE b[i - Len(a)]
    BY <1>3, <1>4, ConcatProperties
  <2> QED BY <1>3, <1>4, <2>1
<1> HIDE DEF w
<1>6. DOMAIN w = 1 .. n - 1
  BY <1>1, <1>5, LenProperties
<1>7. \A i \in 1 .. n - 1 : w[i] = s[IF i < k THEN i ELSE i + 1]
  <2> TAKE i \in 1 .. n - 1
  <2>1. CASE i < k
    BY <1>1, <1>3, <1>5, <2>1
  <2>2. CASE ~(i < k)
    <3>1. /\ ~(i <= k - 1) /\ i - (k - 1) \in 1 .. n - k
          /\ k + (i - (k - 1)) = i + 1
      BY <1>1, <2>2
    <3>2. w[i] = b[i - (k - 1)]
      BY <1>1, <1>5, <3>1
    <3> QED BY <1>4, <2>2, <3>1, <3>2
  <2> QED BY <2>1, <2>2
<1>8. f \in Bijection(A, B)
  <2>1. \A i \in A : f[i] \in B
    BY <1>1, <1>6, <1>7 DEF Places
  <2>2. \A i, j \in A : f[i] = f[j] => i = j
    BY <1>1, <1>6 DEF Places
  <2>3. \A j \in B : \E i \in A : f[i] = j
    <3> TAKE j \in B
    <3>1. j \in 1 .. n /\ j # k /\ s[j] = t
      BY <1>1 DEF Places
    <3>2. CASE j < k
      <4>1. j \in A
        BY <1>1, <1>6, <1>7, <3>1, <3>2 DEF Places
      <4> QED BY <3>2, <4>1
    <3>3. CASE ~(j < k)
      <4>1. j - 1 \in 1 .. n - 1 /\ ~(j - 1 < k) /\ (j - 1) + 1 = j
        BY <1>1, <3>1, <3>3
      <4>2. j - 1 \in A
        BY <1>6, <1>7, <3>1, <4>1 DEF Places
      <4> QED BY <4>1, <4>2
    <3> QED BY <3>2, <3>3
  <2>4. f \in [A -> B]
    BY <2>1
  <2> HIDE DEF f, A, B
  <2> QED BY <2>2, <2>3, <2>4 DEF Bijection, Injection, Surjection, IsInjective
<1>9. IsFiniteSet(A) /\ IsFiniteSet(Places(s, t))
  BY <1>5, CountIsNat
<1>10. Cardinality(B) = Cardinality(A)
  <2>1. ExistsBijection(A, B)
    BY <1>8 DEF ExistsBijection
  <2> QED BY <1>9, <2>1, FS_Bijection
<1>11. Cardinality(B) = IF k \in Places(s, t) THEN Count(s, t) - 1 ELSE Count(s, t)
  BY <1>9, FS_RemoveElement DEF Count
<1>12. k \in Places(s, t) <=> s[k] = t
  BY DEF Places
<1>13. Count(s, t) \in Nat
  BY CountIsNat
<1> QED BY <1>10, <1>11, <1>12, <1>13 DEF Count, w, a, b

LEMMA CountTo ==
  ASSUME NEW n \in Nat
  PROVE  IsFiniteSet(1 .. n) /\ Cardinality(1 .. n) = n
<1>1. /\ IsFiniteSet(1 .. n)
      /\ Cardinality(1 .. n) = IF 1 > n THEN 0 ELSE n - 1 + 1
  BY FS_Interval
<1> QED BY <1>1

LEMMA CountOfTimes ==
  ASSUME NEW u \in Bank!Txn, NEW k \in Nat, NEW t
  PROVE  Count(Bank!Times(u, k), t) = IF t = u THEN k ELSE 0
<1>1. DOMAIN Bank!Times(u, k) = 1 .. k /\ \A i \in 1 .. k : Bank!Times(u, k)[i] = u
  BY DEF Bank!Times
<1>2. CASE t = u
  <2>1. Places(Bank!Times(u, k), t) = 1 .. k
    BY <1>1, <1>2 DEF Places
  <2>2. Cardinality(1 .. k) = k
    BY CountTo
  <2> QED BY <1>2, <2>1, <2>2 DEF Count
<1>3. CASE t # u
  <2>1. Places(Bank!Times(u, k), t) = {}
    BY <1>1, <1>3 DEF Places
  <2> QED BY <1>3, <2>1, FS_EmptySet DEF Count
<1> QED BY <1>2, <1>3

(* A place that is counted is there.                                       *)
LEMMA CountedIsThere ==
  ASSUME NEW s, NEW t, Count(s, t) # 0
  PROVE  \E i \in DOMAIN s : s[i] = t
<1>1. Places(s, t) # {}
  BY FS_EmptySet DEF Count
<1> QED BY <1>1 DEF Places

-------------------------------------------------------------------------------
(* A step of the loop takes from what is left and puts it out.  After i    *)
(* turns at most 5 - i/2 steps are left of each, rounded for whose turn it *)
(* is.                                                                     *)
Balanced(s, i) ==
  /\ Partial(s)
  /\ \A t \in Bank!Txn : Count(s.out, t) + s.left[t] = 5
  /\ 2 * s.left[s.turn] <= 11 - i
  /\ 2 * s.left[Bank!other(s.turn)] <= 10 - i

LEMMA TakeBalances ==
  ASSUME NEW s, NEW i \in 0 .. 9, Balanced(s, i), NEW n \in 1 .. 5
  PROVE  Balanced(Bank!take(s, n), i + 1)
<1> DEFINE t == s.turn
           u == Bank!other(t)
           k == Bank!Least(n, s.left[t])
           z == Bank!take(s, n)
<1>1. /\ Partial(s) /\ s.left \in [Bank!Txn -> Nat] /\ t \in Bank!Txn
      /\ s.out \in Seq(Bank!Txn)
  BY DEF Balanced, Partial
<1>2. u \in Bank!Txn /\ u # t /\ Bank!other(u) = t /\ \A o \in Bank!Txn : o = t \/ o = u
  BY <1>1, TwoOfThem
<1>3. Partial(z)
  BY <1>1, TakePuts
<1>4. s.left[t] \in Nat /\ s.left[u] \in Nat
  BY <1>1, <1>2
<1>5. k \in Nat /\ k <= s.left[t] /\ (k >= 1 \/ s.left[t] = 0)
  BY <1>4 DEF Bank!Least
<1>6. z = [left |-> [s.left EXCEPT ![t] = @ - k], turn |-> u,
           out |-> s.out \o Bank!Times(t, k)]
  BY DEF Bank!take
<1>8. /\ Count(s.out, t) + s.left[t] = 5 /\ Count(s.out, u) + s.left[u] = 5
      /\ 2 * s.left[t] <= 11 - i /\ 2 * s.left[u] <= 10 - i
  BY <1>1, <1>2 DEF Balanced
<1> HIDE DEF t, u, k, z
<1>7. z.turn = u /\ z.out = s.out \o Bank!Times(t, k)
      /\ z.left[t] = s.left[t] - k /\ z.left[u] = s.left[u]
  BY <1>1, <1>2, <1>6
<1>9. /\ Count(z.out, t) = Count(s.out, t) + k
      /\ Count(z.out, u) = Count(s.out, u)
      /\ Count(s.out, t) \in Nat /\ Count(s.out, u) \in Nat
  <2>1. Count(s.out, t) \in Nat /\ Count(s.out, u) \in Nat
    BY <1>1, CountIsNat
  <2>2. /\ Count(s.out \o Bank!Times(t, k), t) = Count(s.out, t) + k
        /\ Count(s.out \o Bank!Times(t, k), u) = Count(s.out, u) + 0
    BY <1>1, <1>2, <1>5, CountAfterTimes
  <2> QED BY <1>7, <2>1, <2>2
<1>10. Count(z.out, t) + z.left[t] = 5 /\ Count(z.out, u) + z.left[u] = 5
  BY <1>4, <1>5, <1>7, <1>8, <1>9
<1>11. 2 * z.left[u] <= 11 - (i + 1) /\ 2 * z.left[t] <= 10 - (i + 1)
  BY <1>4, <1>5, <1>7, <1>8
<1>12. \A o \in Bank!Txn : Count(z.out, o) + z.left[o] = 5
  BY <1>2, <1>10
<1>13. z.turn = u /\ Bank!other(z.turn) = t
  BY <1>2, <1>7
<1> QED BY <1>3, <1>11, <1>12, <1>13 DEF Balanced, z

LEMMA BuiltIsBalanced ==
  ASSUME NEW lead \in 0 .. 5, NEW stride \in 1 .. 5, NEW t \in Bank!Txn
  PROVE  Count(Bank!buildOrder(lead, stride), t) = 5
<1> DEFINE g == CHOOSE g : Turns(lead, stride, 10, g)
<1>1. Turns(lead, stride, 10, g)
  BY TurnsExist DEF Turning
<1>2. Bank!buildOrder(lead, stride) = g[10].out
  BY DEF Bank!buildOrder, Turns
<1> HIDE DEF g
<1>3. g = [i \in 0 .. 10 |-> IF i = 0 THEN Bank!Led(lead) ELSE Bank!take(g[i - 1], stride)]
  BY <1>1 DEF Turns
<1>4. g[0] = Bank!Led(lead)
      /\ \A i \in 1 .. 10 : g[i] = Bank!take(g[i - 1], stride)
  BY <1>3
<1>5. Balanced(g[0], 0)
  <2>1. 1 \in Bank!Txn /\ 2 \in Bank!Txn /\ lead \in Nat /\ Bank!other(2) = 1
        /\ \A o \in Bank!Txn : o = 1 \/ o = 2
    BY DEF Bank!Txn, Bank!other
  <2>2. /\ g[0].out = Bank!Times(1, lead) /\ g[0].turn = 2
        /\ g[0].left = [o \in Bank!Txn |-> IF o = 1 THEN 5 - lead ELSE 5]
    BY <1>4 DEF Bank!Led
  <2>3. Partial(g[0])
    <3>1. Bank!Times(1, lead) \in Seq(Bank!Txn)
      BY <2>1, TimesIsSeq
    <3>2. g[0].left \in [Bank!Txn -> Nat]
      BY <2>2
    <3> QED BY <2>1, <2>2, <3>1, <3>2 DEF Partial
  <2>4. g[0].left[1] = 5 - lead /\ g[0].left[2] = 5
    BY <2>1, <2>2
  <2>5. Count(g[0].out, 1) = lead /\ Count(g[0].out, 2) = 0
    <3>1. Count(Bank!Times(1, lead), 1) = lead /\ Count(Bank!Times(1, lead), 2) = 0
      BY <2>1, CountOfTimes
    <3> QED BY <2>2, <3>1
  <2>6. \A o \in Bank!Txn : Count(g[0].out, o) + g[0].left[o] = 5
    BY <2>1, <2>4, <2>5
  <2> QED BY <2>1, <2>2, <2>3, <2>4, <2>6 DEF Balanced
<1>6. \A i \in 0 .. 9 : Balanced(g[i], i) => Balanced(g[i + 1], i + 1)
  <2> TAKE i \in 0 .. 9
  <2>1. i + 1 \in 1 .. 10 /\ (i + 1) - 1 = i
    OBVIOUS
  <2>2. g[i + 1] = Bank!take(g[i], stride)
    BY <1>4, <2>1
  <2> QED BY <2>2, TakeBalances
<1>7. Balanced(g[10], 10)
  <2> DEFINE T == {i \in Nat : i <= 10 /\ ~Balanced(g[i], i)}
  <2> SUFFICES ASSUME T # {} PROVE FALSE
    OBVIOUS
  <2>1. PICK i \in T : \A j \in T : i <= j
    BY LeastIn
  <2>2. i # 0
    BY <1>5, <2>1
  <2>3. i - 1 \in 0 .. 9 /\ (i - 1) + 1 = i /\ ~(i <= i - 1)
    BY <2>1, <2>2
  <2>4. Balanced(g[i - 1], i - 1)
    BY <2>1, <2>3
  <2>5. Balanced(g[(i - 1) + 1], (i - 1) + 1)
    BY <1>6, <2>3, <2>4
  <2> QED BY <2>1, <2>3, <2>5
<1>8. g[10].left[t] = 0
  <2>1. g[10].left \in [Bank!Txn -> Nat] /\ g[10].turn \in Bank!Txn
    BY <1>7 DEF Balanced, Partial
  <2>2. t = g[10].turn \/ t = Bank!other(g[10].turn)
    BY <2>1, TwoOfThem
  <2>3. g[10].left[t] \in Nat
    BY <2>1
  <2>4. 2 * g[10].left[t] <= 1
    <3>1. 2 * g[10].left[g[10].turn] <= 11 - 10 /\ 2 * g[10].left[Bank!other(g[10].turn)] <= 10 - 10
      BY <1>7 DEF Balanced
    <3>2. CASE t = g[10].turn
      BY <2>3, <3>1, <3>2
    <3>3. CASE t = Bank!other(g[10].turn)
      BY <2>3, <3>1, <3>3
    <3> QED BY <2>2, <3>2, <3>3
  <2> QED BY <2>3, <2>4
<1>9. Count(g[10].out, t) + g[10].left[t] = 5 /\ Count(g[10].out, t) \in Nat
  <2>1. g[10].out \in Seq(Bank!Txn)
    BY <1>7 DEF Balanced, Partial
  <2> QED BY <1>7, <2>1, CountIsNat DEF Balanced
<1> QED BY <1>2, <1>8, <1>9

LEMMA EveryOrderIsBalanced ==
  ASSUME NEW s \in Bank!AllOrders, NEW t \in Bank!Txn
  PROVE  Count(s, t) = 5
<1>1. PICK mine \in SUBSET (1 .. 10) :
        /\ Cardinality(mine) = 5
        /\ s = [i \in 1 .. 10 |-> IF i \in mine THEN 1 ELSE 2]
  BY DEF Bank!AllOrders, Cardinality, Bank!Cardinality
<1>4. /\ DOMAIN s = 1 .. 10 /\ mine \subseteq 1 .. 10
      /\ \A i \in 1 .. 10 : (i \in mine => s[i] = 1) /\ (i \notin mine => s[i] = 2)
  BY <1>1
<1>2. CASE t = 1
  <2>1. Places(s, t) = mine
    <3>1. \A i : i \in Places(s, t) <=> i \in 1 .. 10 /\ s[i] = 1
      BY <1>2, <1>4 DEF Places
    <3>2. \A i \in 1 .. 10 : s[i] = 1 <=> i \in mine
      BY <1>4
    <3> QED BY <1>4, <3>1, <3>2
  <2> QED BY <1>1, <2>1 DEF Count
<1>3. CASE t = 2
  <2>1. Places(s, t) = (1 .. 10) \ mine
    <3>1. \A i : i \in Places(s, t) <=> i \in 1 .. 10 /\ s[i] = 2
      BY <1>3, <1>4 DEF Places
    <3>2. \A i \in 1 .. 10 : s[i] = 2 <=> i \notin mine
      BY <1>4
    <3> QED BY <1>4, <3>1, <3>2
  <2>2. IsFiniteSet(1 .. 10) /\ Cardinality(1 .. 10) = 10
    BY CountTo, 10 \in Nat
  <2>3. Cardinality((1 .. 10) \ mine)
          = Cardinality(1 .. 10) - Cardinality((1 .. 10) \intersect mine)
    BY <2>2, FS_Difference
  <2>4. (1 .. 10) \intersect mine = mine
    BY <1>1
  <2> QED BY <1>1, <2>1, <2>2, <2>3, <2>4 DEF Count
<1> QED BY <1>2, <1>3 DEF Bank!Txn

-------------------------------------------------------------------------------
(* Who runs has a place in the queue for every step that is left, and      *)
(* where nothing is locked nobody waits and nobody is rolled back.         *)
PlacesFit  == \A t \in Bank!Txn : state[t] = "run" => Count(queue, t) = 5 - pc[t]
NobodyWaits == ~Bank!locking =>
  \A t \in Bank!Txn : blocked[t] = Bank!NoRow /\ state[t] # "aborted"
QueueFits  == PlacesFit /\ NobodyWaits
QueueThere == lab = "bank" => QueueFits

LEMMA QueueInit ==
  ASSUME Init
  PROVE  QueueThere
<1> SUFFICES ASSUME lab = "bank" PROVE QueueFits
  BY DEF QueueThere
<1>1. /\ queue \in IF FreeSchedule THEN Bank!AllOrders ELSE Bank!SliderOrders
      /\ blocked = [t \in Bank!Txn |-> Bank!NoRow]
      /\ pc = [t \in Bank!Txn |-> 0] /\ state = [t \in Bank!Txn |-> "run"]
  BY DEF Init, Bank!Init
<1>2. ASSUME NEW t \in Bank!Txn PROVE Count(queue, t) = 5
  <2>1. CASE queue \in Bank!AllOrders
    BY <2>1, EveryOrderIsBalanced
  <2>2. CASE queue \in Bank!SliderOrders
    <3>1. PICK lead \in 0 .. 5, stride \in 1 .. 5 : queue = Bank!buildOrder(lead, stride)
      BY <2>2 DEF Bank!SliderOrders
    <3> QED BY <3>1, BuiltIsBalanced
  <2> QED BY <1>1, <2>1, <2>2
<1>3. PlacesFit
  BY <1>1, <1>2 DEF PlacesFit
<1>4. NobodyWaits
  BY <1>1 DEF NobodyWaits
<1> QED BY <1>3, <1>4 DEF QueueFits

(* The step that was taken leaves its place.                               *)
LEMMA StepLeavesItsPlace ==
  ASSUME NEW t \in Bank!Txn, MayStep(t), PlacesFit, Bank!Done(t),
         \A o \in Bank!Txn : state'[o] = "run" => state[o] = "run"
  PROVE  PlacesFit'
<1>1. queue \in Seq(Bank!Txn) /\ pc \in [Bank!Txn -> 0 .. 5]
  BY DEF MayStep, BankInv, Bank!TypeOK
<1>2. PICK i \in DOMAIN queue : Bank!First(i) /\ queue' = Bank!Without(i)
  BY DEF Bank!Done
<1>3. PICK j \in DOMAIN queue : Bank!First(j) /\ queue[j] = t
  BY DEF MayStep, Bank!Turn
<1>4. queue[i] = t
  <2>1. i \in 1 .. Len(queue) /\ j \in 1 .. Len(queue) /\ Len(queue) \in Nat
    BY <1>1, LenProperties
  <2>2. ~(i < j) /\ ~(j < i)
    BY <1>2, <1>3, <2>1 DEF Bank!First
  <2> QED BY <1>3, <2>1, <2>2
<1>5. \A o \in Bank!Txn : Count(queue', o) = Count(queue, o) - (IF t = o THEN 1 ELSE 0)
  BY <1>1, <1>2, <1>4, CountWithout DEF Bank!Without
<1>6. pc' = [pc EXCEPT ![t] = @ + 1]
  BY DEF Bank!Done
<1> SUFFICES ASSUME NEW o \in Bank!Txn, state'[o] = "run"
             PROVE  Count(queue', o) = 5 - pc'[o]
  BY DEF PlacesFit
<1>7. Count(queue, o) = 5 - pc[o] /\ pc[o] \in 0 .. 5
  BY <1>1 DEF PlacesFit
<1>8. CASE o = t
  BY <1>1, <1>5, <1>6, <1>7, <1>8
<1>9. CASE o # t
  BY <1>1, <1>5, <1>6, <1>7, <1>9
<1> QED BY <1>8, <1>9

LEMMA IssueKeepsPlaces ==
  ASSUME NEW t \in Bank!Txn, MayStep(t), QueueFits,
         Bank!Wait(t) \/ Bank!Read(t) \/ Bank!Write(t) \/ Bank!Commit(t)
  PROVE  QueueFits'
<1>1. /\ Bank!locking' = Bank!locking /\ state \in [Bank!Txn -> {"run", "committed", "aborted"}]
      /\ blocked \in [Bank!Txn -> Bank!Row \union {Bank!NoRow}]
  BY ItsTurn DEF MayStep, BankInv, Bank!TypeOK
<1>2. CASE Bank!Wait(t)
  <2>1. Bank!locking /\ UNCHANGED <<queue, pc, state>>
    BY <1>2 DEF Bank!Wait, Bank!LockedOut
  <2> QED BY <1>1, <2>1 DEF QueueFits, PlacesFit, NobodyWaits
<1>3. CASE Bank!Read(t) \/ Bank!Write(t)
  <2>1. Bank!Done(t) /\ UNCHANGED <<state, blocked>>
    BY <1>3 DEF Bank!Read, Bank!Write
  <2>2. PlacesFit'
    BY <2>1, StepLeavesItsPlace DEF QueueFits
  <2> QED BY <1>1, <2>1, <2>2 DEF QueueFits, NobodyWaits
<1>4. CASE Bank!Commit(t)
  <2>1. /\ Bank!Done(t) /\ state' = [state EXCEPT ![t] = "committed"]
        /\ blocked' = blocked \/ blocked' = Bank!Waiting(t)
    BY <1>4 DEF Bank!Commit
  <2>2. PlacesFit'
    BY <1>1, <2>1, StepLeavesItsPlace DEF QueueFits
  <2>3. \A o \in Bank!Txn : blocked[o] = Bank!NoRow => blocked'[o] = Bank!NoRow
    BY <2>1 DEF Bank!Waiting
  <2> QED BY <1>1, <2>1, <2>2, <2>3 DEF QueueFits, NobodyWaits
<1> QED BY <1>2, <1>3, <1>4

(* Nobody is rolled back but for a deadlock.                               *)
LEMMA VictimsAreDeadlocked ==
  ASSUME BankInv, QueueFits, ~crashed, NEW t \in Bank!Txn, Bank!Rollback(t)
  PROVE  /\ Bank!locking
         /\ \A o \in Bank!Txn : /\ state[o] = "run"
                                /\ blocked[o] # Bank!NoRow
                                /\ lock[blocked[o]] = Bank!other(o)
<1>1. PICK i \in DOMAIN queue : state[queue[i]] = "run"
  BY DEF Bank!Rollback
<1>2. \A j \in DOMAIN queue : ~(state[queue[j]] = "run" /\ blocked[queue[j]] = Bank!NoRow)
  BY DEF Bank!Rollback, Bank!Runnable
<1> DEFINE q == queue[i]
           u == Bank!other(q)
<1>3. queue \in Seq(Bank!Txn) /\ pc \in [Bank!Txn -> 0 .. 5] /\ q \in Bank!Txn
  <2>1. queue \in Seq(Bank!Txn) /\ pc \in [Bank!Txn -> 0 .. 5]
    BY DEF BankInv, Bank!TypeOK
  <2> QED BY <2>1, ElementOfSeq, LenProperties
<1>4. u \in Bank!Txn /\ \A o \in Bank!Txn : o = q \/ o = u
  BY <1>3, TwoOfThem
<1>5. state[q] = "run" /\ blocked[q] # Bank!NoRow
  BY <1>1, <1>2
<1> HIDE DEF q, u
<1>6. Bank!locking
  BY <1>3, <1>5 DEF QueueFits, NobodyWaits
<1>7. LocksFit
  BY <1>6 DEF BankInv
<1>8. ASSUME NEW o \in Bank!Txn, state[o] = "run", blocked[o] # Bank!NoRow
      PROVE  lock[blocked[o]] = Bank!other(o)
  BY <1>7, <1>8 DEF LocksFit
<1>9. blocked[q] \in Bank!Row
  BY <1>3, <1>5 DEF BankInv, Bank!TypeOK
<1>10. state[u] = "run"
  <2>1. lock[blocked[q]] = u
    BY <1>3, <1>5, <1>8 DEF u
  <2> QED BY <1>4, <1>7, <1>9, <2>1 DEF LocksFit
<1>11. blocked[u] # Bank!NoRow
  <2>1. pc[u] <= 4 /\ pc[u] \in 0 .. 5
    BY <1>3, <1>4, <1>10 DEF BankInv, StepsLeft
  <2>2. Count(queue, u) = 5 - pc[u]
    BY <1>4, <1>10 DEF QueueFits, PlacesFit
  <2>3. Count(queue, u) # 0
    BY <2>1, <2>2
  <2>4. PICK j \in DOMAIN queue : queue[j] = u
    BY <2>3, CountedIsThere
  <2> QED BY <1>2, <1>10, <2>4
<1>12. ASSUME NEW o \in Bank!Txn PROVE state[o] = "run" /\ blocked[o] # Bank!NoRow
  BY <1>4, <1>5, <1>10, <1>11
<1> QED BY <1>6, <1>8, <1>12

LEMMA RollbackKeepsPlaces ==
  ASSUME BankInv, QueueFits, ~crashed, UNCHANGED <<mode, iso>>,
         NEW t \in Bank!Txn, Bank!Rollback(t)
  PROVE  QueueFits'
<1> DEFINE u == Bank!other(t)
<1>1. Bank!locking /\ state[u] = "run" /\ u \in Bank!Txn /\ u # t
      /\ \A o \in Bank!Txn : o = t \/ o = u
  BY TwoOfThem, VictimsAreDeadlocked
<1>2. /\ pc' = pc /\ state' = [state EXCEPT ![t] = "aborted"]
      /\ queue' = Bank!Remaining(t)
      /\ Bank!locking' = Bank!locking
  BY DEF Bank!Rollback, Bank!locking
<1>3. queue \in Seq(Bank!Txn) /\ state \in [Bank!Txn -> {"run", "committed", "aborted"}]
  BY DEF BankInv, Bank!TypeOK
<1>4. queue' = Bank!Times(u, Count(queue, u))
  BY <1>1, <1>2, StepsCounted DEF Bank!Remaining
<1>5. Count(queue', u) = Count(queue, u)
  <2>1. Count(queue, u) \in Nat
    BY <1>3, CountIsNat
  <2>2. Count(Bank!Times(u, Count(queue, u)), u) = Count(queue, u)
    BY <1>1, <2>1, CountOfTimes
  <2> QED BY <1>4, <2>2
<1>6. state'[t] = "aborted" /\ state'[u] = state[u]
  BY <1>1, <1>2, <1>3
<1> HIDE DEF u
<1>7. PlacesFit'
  BY <1>1, <1>2, <1>5, <1>6 DEF QueueFits, PlacesFit
<1>8. NobodyWaits'
  BY <1>1, <1>2 DEF NobodyWaits
<1> QED BY <1>7, <1>8 DEF QueueFits

LEMMA QueueStep ==
  ASSUME BankThere, QueueThere, [Next]_vars
  PROVE  QueueThere'
<1>1. CASE UNCHANGED vars
  <2>1. UNCHANGED <<lab, mode, iso, queue, blocked, pc, state>>
    BY <1>1 DEF vars, bankVars
  <2> QED BY <2>1 DEF QueueThere, QueueFits, PlacesFit, NobodyWaits, Bank!locking
<1>2. CASE Next
  <2>1. lab' = lab
    BY <1>2 DEF Next
  <2> SUFFICES ASSUME lab = "bank" PROVE QueueFits'
    BY <2>1 DEF QueueThere
  <2>2. BankInv /\ QueueFits
    BY DEF BankThere, QueueThere
  <2>3. Bank!Run \/ Bank!Crash
    BY <1>2 DEF Next, Step, Bank!Next
  <2>4. CASE Bank!Crash
    <3>1. UNCHANGED <<mode, iso, queue, blocked, pc, state>>
      BY <2>4 DEF Bank!Crash, Bank!settings
    <3> QED BY <2>2, <3>1 DEF QueueFits, PlacesFit, NobodyWaits, Bank!locking
  <2>5. CASE Bank!Run
    <3>1. PICK t \in Bank!Txn : Bank!Issue(t) \/ Bank!Rollback(t)
      BY <2>5 DEF Bank!Run
    <3>2. ~crashed /\ UNCHANGED <<mode, iso, crashed>>
      BY <2>5 DEF Bank!Run, Bank!settings
    <3>3. CASE Bank!Rollback(t)
      BY <2>2, <3>2, <3>3, RollbackKeepsPlaces
    <3>4. CASE Bank!Issue(t)
      <4>1. MayStep(t)
        BY <2>2, <3>2, <3>4 DEF MayStep, Bank!Issue
      <4>2. Bank!Wait(t) \/ Bank!Read(t) \/ Bank!Write(t) \/ Bank!Commit(t)
        BY <3>4 DEF Bank!Issue
      <4> QED BY <2>2, <4>1, <4>2, IssueKeepsPlaces
    <3> QED BY <3>1, <3>3, <3>4
  <2> QED BY <2>3, <2>4, <2>5
<1> QED BY <1>1, <1>2

LEMMA QueueAlways == Spec => []QueueThere
<1>1. Init => QueueThere
  BY QueueInit
<1>2. BankThere /\ QueueThere /\ [Next]_vars => QueueThere'
  BY QueueStep
<1> QED BY <1>1, <1>2, BankAlways, PTL DEF Spec

(* A transfer that is rolled back is one of two that wait for each other:  *)
(* that nobody in the queue can run, which is all the loop looks at, is    *)
(* never so because one of them is alone or its place is gone.             *)
THEOREM VictimsDeadlocked == Spec => OnlyDeadlocksAbort
<1> DEFINE D == lab = "bank" => Bank!VictimIsDeadlocked
<1>1. ASSUME BankThere, QueueThere, [Next]_vars PROVE [D]_vars
  <2> SUFFICES ASSUME Next, lab = "bank", victim' # victim
               PROVE  \A t \in Bank!Txn : /\ state[t] = "run"
                                          /\ blocked[t] # Bank!NoRow
                                          /\ lock[blocked[t]] = Bank!other(t)
    BY <1>1 DEF Bank!VictimIsDeadlocked
  <2>1. BankInv /\ QueueFits
    BY <1>1 DEF BankThere, QueueThere
  <2>2. Bank!Run \/ Bank!Crash
    BY DEF Next, Step, Bank!Next
  <2>3. ~Bank!Crash
    BY DEF Bank!Crash
  <2>4. PICK t \in Bank!Txn : Bank!Issue(t) \/ Bank!Rollback(t)
    BY <2>2, <2>3 DEF Bank!Run
  <2>5. ~Bank!Issue(t)
    BY DEF Bank!Issue, Bank!Wait, Bank!Read, Bank!Write, Bank!Commit
  <2>6. ~crashed
    BY <2>2, <2>3 DEF Bank!Run
  <2> QED BY <2>1, <2>4, <2>5, <2>6, VictimsAreDeadlocked
<1>2. BankThere /\ QueueThere /\ [Next]_vars => [D]_vars
  BY <1>1
<1> QED BY <1>2, BankAlways, QueueAlways, PTL DEF Spec, OnlyDeadlocksAbort

-------------------------------------------------------------------------------
(* The verdict: what the undo log, the balances and the registers tell of  *)
(* each other.  What has to be shown is that the anomalies the lab counts  *)
(* are the only ways in which a balance can be wrong, so the invariant     *)
(* says how a row came to its balance.                                     *)
On(r)           == {i \in DOMAIN undo : undo[i].row = r}
HasRecord(t, r) == \E i \in On(r) : undo[i].txn = t

(* A write stands in spite of a power cut; what it adds then; and u knew   *)
(* that t wrote before it, or has read what t had not committed.           *)
Stands(t)       == mode = "autocommit" \/ state[t] = "committed"
Stays(t, r)     == IF Stands(t) THEN Bank!Delta[t][r] ELSE 0
Known(t, u)     == Stands(t) \/ t \in readFrom[u]

AtStart(t, r)  == reg[t][r] = Bank!NotRead \/ reg[t][r] = [v |-> Start, ver |-> 0]
SawFirst(u, t, r) ==
  reg[u][r] = [v |-> Start + Bank!Delta[t][r], ver |-> 1] /\ Known(t, u)

(* The three stories of a row: nobody has written it, t has, t before u. *)
Untouched(r) ==
  /\ On(r) = {} /\ val[r] = Start /\ ver[r] = 0
  /\ \A t \in Bank!Txn : ~Wrote(t, r) /\ AtStart(t, r)
OneWrote(t, u, r) ==
  /\ Wrote(t, r) /\ ~Wrote(u, r)
  /\ \E i \in DOMAIN undo : On(r) = {i} /\ undo[i].txn = t /\ undo[i].before = Start
  /\ val[r] = Start + Bank!Delta[t][r] /\ ver[r] = 1
  /\ AtStart(u, r) \/ SawFirst(u, t, r)
BothWrote(t, u, r) ==
  /\ Wrote(t, r) /\ Wrote(u, r)
  /\ \E i, j \in DOMAIN undo :
       /\ i < j /\ On(r) = {i, j}
       /\ undo[i].txn = t /\ undo[i].before = Start
       /\ undo[j].txn = u /\ undo[j].before = Start + Bank!Delta[t][r]
       /\ \/ j \in staleWrites
          \/ val[r] = Start + Bank!Delta[t][r] + Bank!Delta[u][r] /\ Known(t, u)
Story(r) ==
  \/ Untouched(r)
  \/ \E t, u \in Bank!Txn : t # u /\ (OneWrote(t, u, r) \/ BothWrote(t, u, r))

(* What recovery makes of them. *)
NoneWrote(r)     == (\A t \in Bank!Txn : ~Wrote(t, r)) /\ val[r] = Start
OneSurvives(t, u, r) ==
  Wrote(t, r) /\ ~Wrote(u, r) /\ val[r] = Start + Stays(t, r)
BothSurvive(t, u, r) ==
  /\ Wrote(t, r) /\ Wrote(u, r)
  /\ \/ Stands(u) /\ \E j \in staleWrites : undo[j].txn = u
     \/ Stands(u) /\ ~Stands(t) /\ t \in readFrom[u]
     \/ val[r] = Start + Stays(t, r) + Stays(u, r)
AfterCrash(r) ==
  \/ NoneWrote(r)
  \/ \E t, u \in Bank!Txn : t # u /\ (OneSurvives(t, u, r) \/ BothSurvive(t, u, r))

RecordFits(i) ==
  /\ undo[i].open <=> ~crashed /\ mode = "explicit" /\ state[undo[i].txn] = "run"
  /\ undo[i].reverted <=> IF crashed THEN ~Stands(undo[i].txn)
                                     ELSE state[undo[i].txn] = "aborted"

ReadBefore(t) == /\ pc[t] = 1 => reg[t][Bank!Path[t][1]] # Bank!NotRead
                 /\ pc[t] = 3 => reg[t][Bank!Path[t][2]] # Bank!NotRead

LogFits ==
  /\ \A t \in Bank!Txn : state[t] = "committed" => pc[t] = 5
  /\ \A t \in Bank!Txn, r \in Bank!Row : Wrote(t, r) <=> HasRecord(t, r)
  /\ \A i \in DOMAIN undo : RecordFits(i)
  /\ \A t \in Bank!Txn : ReadBefore(t)
RowsTold == ~Bank!locking =>
  \A r \in Bank!Row : IF crashed THEN AfterCrash(r) ELSE Story(r)
VerdictFits  == LogFits /\ RowsTold
VerdictThere == lab = "bank" => VerdictFits

LEMMA SameProgram ==
  /\ Bank!Txn' = Bank!Txn /\ Bank!Row' = Bank!Row /\ Bank!Path' = Bank!Path
  /\ Bank!Delta' = Bank!Delta /\ Bank!NotRead' = Bank!NotRead
BY DEF Bank!Txn, Bank!Row, Bank!Path, Bank!Delta, Bank!NotRead

LEMMA StartIsInt == Start \in Int
BY Assumption DEF Bank!BankAssumption

LEMMA LogFacts ==
  ASSUME Bank!TypeOK
  PROVE  /\ undo \in Seq(Undone) /\ Len(undo) \in Nat /\ DOMAIN undo = 1 .. Len(undo)
         /\ \A i \in DOMAIN undo : undo[i] \in Undone
<1>1. undo \in Seq(Undone)
  BY DEF Bank!TypeOK, Undone
<1> QED BY <1>1, LenProperties, ElementOfSeq

(* A step that leaves a row alone leaves its story as it is. *)
LEMMA StoryKept ==
  ASSUME NEW r \in Bank!Row, Story(r),
         val'[r] = val[r], ver'[r] = ver[r], On(r)' = On(r),
         \A i \in On(r) : /\ i \in DOMAIN undo'
                          /\ undo'[i].txn = undo[i].txn
                          /\ undo'[i].before = undo[i].before,
         \A t \in Bank!Txn : (Wrote(t, r)' <=> Wrote(t, r)) /\ reg'[t][r] = reg[t][r],
         staleWrites \subseteq staleWrites',
         \A t, u \in Bank!Txn : Known(t, u) => Known(t, u)'
  PROVE  Story(r)'
<1>1. CASE Untouched(r)
  <2>1. Untouched(r)'
    BY <1>1, SameProgram DEF Untouched, AtStart
  <2> QED BY <2>1 DEF Story
<1>2. ASSUME NEW t \in Bank!Txn, NEW u \in Bank!Txn, t # u, OneWrote(t, u, r)
      PROVE  Story(r)'
  <2>1. PICK i \in DOMAIN undo : On(r) = {i} /\ undo[i].txn = t /\ undo[i].before = Start
    BY <1>2 DEF OneWrote
  <2>2. i \in DOMAIN undo' /\ On(r)' = {i} /\ undo'[i].txn = t /\ undo'[i].before = Start
    BY <2>1
  <2>3. AtStart(u, r)' \/ SawFirst(u, t, r)'
    BY <1>2, SameProgram DEF OneWrote, AtStart, SawFirst
  <2>4. /\ Wrote(t, r)' /\ ~Wrote(u, r)'
        /\ val'[r] = Start + Bank!Delta'[t][r] /\ ver'[r] = 1
    BY <1>2, SameProgram DEF OneWrote
  <2>5. OneWrote(t, u, r)'
    BY <2>2, <2>3, <2>4 DEF OneWrote
  <2> QED BY <1>2, <2>5, SameProgram DEF Story
<1>3. ASSUME NEW t \in Bank!Txn, NEW u \in Bank!Txn, t # u, BothWrote(t, u, r)
      PROVE  Story(r)'
  <2>1. PICK i \in DOMAIN undo, j \in DOMAIN undo :
               /\ i < j /\ On(r) = {i, j}
               /\ undo[i].txn = t /\ undo[i].before = Start
               /\ undo[j].txn = u /\ undo[j].before = Start + Bank!Delta[t][r]
               /\ \/ j \in staleWrites
                  \/ val[r] = Start + Bank!Delta[t][r] + Bank!Delta[u][r] /\ Known(t, u)
    BY <1>3 DEF BothWrote
  <2>2. /\ i \in DOMAIN undo' /\ j \in DOMAIN undo' /\ i < j /\ On(r)' = {i, j}
        /\ undo'[i].txn = t /\ undo'[i].before = Start
        /\ undo'[j].txn = u /\ undo'[j].before = Start + Bank!Delta'[t][r]
    BY <2>1, SameProgram
  <2>3. \/ j \in staleWrites'
        \/ val'[r] = Start + Bank!Delta'[t][r] + Bank!Delta'[u][r] /\ Known(t, u)'
    BY <2>1, SameProgram
  <2>4. Wrote(t, r)' /\ Wrote(u, r)'
    BY <1>3 DEF BothWrote
  <2>5. BothWrote(t, u, r)'
    BY <2>2, <2>3, <2>4 DEF BothWrote
  <2> QED BY <1>3, <2>5, SameProgram DEF Story
<1> QED BY <1>1, <1>2, <1>3 DEF Story

(* A record whose transaction has it open tells a reader of it. *)
LEMMA OpenIsKnown ==
  ASSUME BankInv, QueueFits, VerdictFits, ~crashed, ~Bank!locking,
         NEW t \in Bank!Txn, NEW o \in Bank!Txn, t # o, NEW s \in Bank!Row,
         HasRecord(t, s)
  PROVE  Stands(t) \/ t \in Bank!Dirty(o, s)
<1>1. PICK i \in On(s) : undo[i].txn = t
  BY DEF HasRecord
<1>2. i \in DOMAIN undo /\ undo[i].row = s
  BY <1>1 DEF On
<1>3. RecordFits(i)
  BY <1>2 DEF VerdictFits, LogFits
<1>4. mode \in {"explicit", "autocommit"} /\ state[t] \in {"run", "committed", "aborted"}
  BY DEF BankInv, Bank!TypeOK
<1>5. state[t] # "aborted"
  BY DEF QueueFits, NobodyWaits
<1>6. t = Bank!other(o)
  BY TwoOfThem
<1>7. CASE ~Stands(t)
  <2>1. undo[i].open
    BY <1>1, <1>3, <1>4, <1>5, <1>7 DEF RecordFits, Stands
  <2>2. i \in Bank!OpenOn({Bank!other(o)}, s)
    BY <1>1, <1>2, <1>6, <2>1 DEF Bank!OpenOn, Bank!Open
  <2> QED BY <1>1, <2>2 DEF Bank!Dirty
<1> QED BY <1>7

LEMMA ReadTold ==
  ASSUME NEW t \in Bank!Txn, MayStep(t), QueueFits, VerdictFits, Bank!Read(t)
  PROVE  VerdictFits'
<1>0. PICK s \in Bank!Row : s = Bank!Touched(t)
  BY TouchedRow DEF Bank!Read
<1>1. s = Bank!Touched(t) /\ Bank!Reading(t) /\ ~Bank!Writing(t) /\ Bank!Done(t)
  BY <1>0 DEF Bank!Read, Bank!Reading, Bank!Writing
<1>2. /\ reg' = [reg EXCEPT ![t][s] = [v |-> val[s], ver |-> ver[s]]]
      /\ readFrom' = [readFrom EXCEPT ![t] = @ \union Bank!Dirty(t, s)]
      /\ UNCHANGED <<val, ver, state, undo, staleWrites, mode, iso, crashed>>
  BY <1>0 DEF Bank!Read, MayStep, Bank!rows
<1>3. BankInv /\ Bank!TypeOK /\ ~crashed /\ LogFits
  BY DEF MayStep, BankInv, VerdictFits
<1>4. pc' = [pc EXCEPT ![t] = @ + 1] /\ state[t] = "run" /\ pc[t] \in 0 .. 4
  BY <1>1, ItsTurn
<1>5. /\ pc \in [Bank!Txn -> 0 .. 5] /\ ver \in [Bank!Row -> Nat]
      /\ reg \in [Bank!Txn -> [Bank!Row -> [v : Int, ver : Int]]]
      /\ readFrom \in [Bank!Txn -> SUBSET Bank!Txn]
  BY <1>3 DEF Bank!TypeOK
<1>6. /\ \A o \in Bank!Txn, r \in Bank!Row : Wrote(o, r)' <=> Wrote(o, r)
      /\ ~Wrote(t, s)
  BY <1>1, <1>3, <1>4, PathStep
<1>7. /\ reg'[t][s] = [v |-> val[s], ver |-> ver[s]]
      /\ \A r \in Bank!Row \ {s} : reg'[t][r] = reg[t][r]
      /\ \A o \in Bank!Txn \ {t} : reg'[o] = reg[o]
      /\ readFrom'[t] = readFrom[t] \union Bank!Dirty(t, s)
      /\ \A o \in Bank!Txn \ {t} : readFrom'[o] = readFrom[o]
      /\ pc'[t] = pc[t] + 1
      /\ \A o \in Bank!Txn \ {t} : pc'[o] = pc[o]
  BY <1>2, <1>4, <1>5
<1>8. LogFits'
  <2>1. \A o \in Bank!Txn : state'[o] = "committed" => pc'[o] = 5
    BY <1>2, <1>3, <1>4, <1>7 DEF LogFits
  <2>2. \A o \in Bank!Txn, r \in Bank!Row : HasRecord(o, r)' <=> HasRecord(o, r)
    BY <1>2 DEF HasRecord, On
  <2>3. \A o \in Bank!Txn, r \in Bank!Row : Wrote(o, r)' <=> HasRecord(o, r)'
    BY <1>3, <1>6, <2>2 DEF LogFits
  <2>4. \A i \in DOMAIN undo' : RecordFits(i)'
    BY <1>2, <1>3 DEF LogFits, RecordFits, Stands
  <2>5. ASSUME NEW o \in Bank!Txn PROVE ReadBefore(o)'
    <3>1. ReadBefore(o)
      BY <1>3 DEF LogFits
    <3>2. CASE o # t
      BY <1>7, <3>1, <3>2, SameProgram DEF ReadBefore
    <3>3. CASE o = t
      <4>1. reg'[t][s] # Bank!NotRead
        <5>1. ver[s] \in Nat
          BY <1>5
        <5> QED BY <1>7, <5>1 DEF Bank!NotRead
      <4>2. /\ pc'[t] = 1 => s = Bank!Path[t][1]
            /\ pc'[t] = 3 => s = Bank!Path[t][2]
        BY <1>1, <1>4, <1>7, TouchedRow
      <4> QED BY <3>3, <4>1, <4>2, SameProgram DEF ReadBefore
    <3> QED BY <3>2, <3>3
  <2> QED BY <2>1, <2>3, <2>4, <2>5, SameProgram DEF LogFits
<1>9. ASSUME ~Bank!locking, NEW r \in Bank!Row PROVE Story(r)'
  <2>1. Story(r)
    BY <1>3, <1>9 DEF VerdictFits, RowsTold
  <2>2. \A o, p \in Bank!Txn : Known(o, p) => Known(o, p)'
    BY <1>2, <1>7 DEF Known, Stands
  <2>3. /\ val'[r] = val[r] /\ ver'[r] = ver[r] /\ On(r)' = On(r)
        /\ \A i \in On(r) : /\ i \in DOMAIN undo'
                            /\ undo'[i].txn = undo[i].txn
                            /\ undo'[i].before = undo[i].before
        /\ staleWrites \subseteq staleWrites'
    BY <1>2 DEF On
  <2>4. CASE r # s
    <3>1. \A o \in Bank!Txn : (Wrote(o, r)' <=> Wrote(o, r)) /\ reg'[o][r] = reg[o][r]
      BY <1>6, <1>7, <2>4
    <3> QED BY <2>1, <2>2, <2>3, <3>1, StoryKept
  <2>5. CASE r = s
    <3>1. CASE Untouched(r)
      <4>1. \A o \in Bank!Txn : AtStart(o, r)'
        BY <1>7, <2>5, <3>1, SameProgram DEF Untouched, AtStart
      <4>2. Untouched(r)'
        BY <1>6, <2>3, <3>1, <4>1, SameProgram DEF Untouched
      <4> QED BY <4>2 DEF Story
    <3>2. ASSUME NEW o \in Bank!Txn, NEW p \in Bank!Txn, o # p, OneWrote(o, p, r)
          PROVE  Story(r)'
      <4>1. p = t /\ Wrote(o, r)
        BY <1>6, <2>5, <3>2, TwoOfThem DEF OneWrote
      <4>2. HasRecord(o, s)
        BY <1>3, <2>5, <4>1 DEF LogFits
      <4>3. Stands(o) \/ o \in Bank!Dirty(t, s)
        BY <1>3, <1>9, <3>2, <4>1, <4>2, OpenIsKnown
      <4>4. Known(o, p)'
        BY <1>2, <1>7, <4>1, <4>3 DEF Known, Stands
      <4>5. reg'[p][r] = [v |-> Start + Bank!Delta'[o][r], ver |-> 1]
        BY <1>7, <2>5, <3>2, <4>1, SameProgram DEF OneWrote
      <4>6. SawFirst(p, o, r)'
        BY <4>4, <4>5 DEF SawFirst
      <4>7. PICK i \in DOMAIN undo : On(r) = {i} /\ undo[i].txn = o /\ undo[i].before = Start
        BY <3>2 DEF OneWrote
      <4>8. i \in DOMAIN undo' /\ On(r)' = {i} /\ undo'[i].txn = o /\ undo'[i].before = Start
        BY <2>3, <4>7
      <4>9. /\ Wrote(o, r)' /\ ~Wrote(p, r)'
            /\ val'[r] = Start + Bank!Delta'[o][r] /\ ver'[r] = 1
        BY <1>6, <2>3, <3>2, SameProgram DEF OneWrote
      <4>10. OneWrote(o, p, r)'
        BY <4>6, <4>8, <4>9 DEF OneWrote
      <4> QED BY <3>2, <4>10, SameProgram DEF Story
    <3>3. ~(\E o, p \in Bank!Txn : o # p /\ BothWrote(o, p, r))
      BY <1>6, <2>5, TwoOfThem DEF BothWrote
    <3> QED BY <2>1, <3>1, <3>2, <3>3 DEF Story
  <2> QED BY <2>4, <2>5
<1>10. Bank!locking' = Bank!locking
  BY ItsTurn
<1> QED BY <1>2, <1>3, <1>8, <1>9, <1>10, SameProgram DEF VerdictFits, RowsTold

LEMMA WriteTold ==
  ASSUME NEW t \in Bank!Txn, MayStep(t), QueueFits, VerdictFits, Bank!Write(t)
  PROVE  VerdictFits'
<1>0. PICK s \in Bank!Row : s = Bank!Touched(t)
  BY TouchedRow DEF Bank!Write
<1> DEFINE x == [txn |-> t, row |-> s, before |-> val[s],
                 open |-> mode = "explicit", reverted |-> FALSE]
           n == Len(undo) + 1
<1>1. s = Bank!Touched(t) /\ Bank!Writing(t) /\ Bank!Done(t)
  BY <1>0 DEF Bank!Write
<1>2. /\ undo' = Append(undo, x)
      /\ val'  = [val EXCEPT ![s] = Bank!Base(t, s) + Bank!Delta[t][s]]
      /\ ver'  = [ver EXCEPT ![s] = @ + 1]
      /\ staleWrites' = IF Bank!Stale(t, s) THEN staleWrites \union {Len(undo')}
                                            ELSE staleWrites
      /\ UNCHANGED <<state, reg, readFrom, mode, iso, crashed>>
  BY <1>0 DEF Bank!Write, MayStep, Bank!StaleIndex
<1>3. BankInv /\ Bank!TypeOK /\ ~crashed /\ LogFits
  BY DEF MayStep, BankInv, VerdictFits
<1>4. pc' = [pc EXCEPT ![t] = @ + 1] /\ state[t] = "run" /\ pc[t] \in {1, 3}
  BY <1>1, ItsTurn DEF Bank!Writing
<1>5. /\ pc \in [Bank!Txn -> 0 .. 5] /\ ver \in [Bank!Row -> Nat] /\ val \in [Bank!Row -> Int]
  BY <1>3 DEF Bank!TypeOK
<1>6. /\ Wrote(t, s)' /\ ~Wrote(t, s)
      /\ \A r \in Bank!Row \ {s} : Wrote(t, r)' = Wrote(t, r)
      /\ \A o \in Bank!Txn \ {t}, r \in Bank!Row : Wrote(o, r)' = Wrote(o, r)
  BY <1>1, <1>3, <1>4, PathStep
<1>7. undo \in Seq(Undone) /\ x \in Undone /\ n \in Nat \ {0} /\ DOMAIN undo = 1 .. n - 1
  BY <1>3, LogFacts DEF Undone, Bank!TypeOK
<1>8. /\ DOMAIN undo' = 1 .. n /\ Len(undo') = n /\ undo'[n] = x
      /\ \A i \in DOMAIN undo : undo'[i] = undo[i]
  BY <1>2, <1>7, AppendProperties, LenProperties
<1>9. /\ On(s)' = On(s) \union {n}
      /\ \A r \in Bank!Row \ {s} : On(r)' = On(r)
  BY <1>7, <1>8 DEF On
<1>10. x.txn = t /\ x.row = s /\ x.before = val[s] /\ x.open = (mode = "explicit")
       /\ x.reverted = FALSE
  OBVIOUS
<1> HIDE DEF x, n
<1>11. LogFits'
  <2>1. \A o \in Bank!Txn : state'[o] = "committed" => pc'[o] = 5
    BY <1>2, <1>3, <1>4, <1>5 DEF LogFits
  <2>2. ASSUME NEW o \in Bank!Txn, NEW r \in Bank!Row
        PROVE  HasRecord(o, r)' <=> HasRecord(o, r) \/ (o = t /\ r = s)
    <3>1. On(r) \subseteq DOMAIN undo
      BY DEF On
    <3>2. \A i \in On(r) : i \in On(r)' /\ undo'[i].txn = undo[i].txn
      BY <1>8, <1>9, <3>1
    <3>3. \A i \in On(r)' : i \in On(r) \/ (i = n /\ r = s)
      BY <1>9
    <3> QED BY <1>8, <1>9, <1>10, <3>2, <3>3 DEF HasRecord
  <2>3. \A o \in Bank!Txn, r \in Bank!Row : Wrote(o, r)' <=> HasRecord(o, r)'
    BY <1>3, <1>6, <2>2 DEF LogFits
  <2>4. ASSUME NEW i \in DOMAIN undo' PROVE RecordFits(i)'
    <3>1. CASE i = n
      BY <1>2, <1>3, <1>4, <1>8, <1>10, <3>1 DEF RecordFits
    <3>2. CASE i # n
      <4>1. i \in DOMAIN undo /\ undo'[i] = undo[i]
        BY <1>7, <1>8, <3>2
      <4> QED BY <1>2, <1>3, <4>1 DEF LogFits, RecordFits, Stands
    <3> QED BY <3>1, <3>2
  <2>5. \A o \in Bank!Txn : ReadBefore(o)'
    BY <1>2, <1>3, <1>4, <1>5, SameProgram DEF LogFits, ReadBefore
  <2> QED BY <2>1, <2>3, <2>4, <2>5, SameProgram DEF LogFits
<1>12. \A o, p \in Bank!Txn : Known(o, p) => Known(o, p)'
  BY <1>2 DEF Known, Stands
<1>13. staleWrites \subseteq staleWrites'
  BY <1>2
<1>14. reg[t][s] # Bank!NotRead
  <2>1. ReadBefore(t)
    BY <1>3 DEF LogFits
  <2> QED BY <1>1, <1>4, <2>1, TouchedRow DEF ReadBefore
<1>15. val'[s] = reg[t][s].v + Bank!Delta[t][s] /\ ver'[s] = ver[s] + 1
  BY <1>2, <1>5, <1>14 DEF Bank!Base
<1>16. reg[t][s].ver # ver[s] => n \in staleWrites'
  BY <1>2, <1>8, <1>14 DEF Bank!Stale
<1>17. ASSUME ~Bank!locking, NEW r \in Bank!Row PROVE Story(r)'
  <2>1. Story(r)
    BY <1>3, <1>17 DEF VerdictFits, RowsTold
  <2>2. CASE r # s
    <3>1. /\ val'[r] = val[r] /\ ver'[r] = ver[r] /\ On(r)' = On(r)
          /\ \A i \in On(r) : /\ i \in DOMAIN undo'
                              /\ undo'[i].txn = undo[i].txn
                              /\ undo'[i].before = undo[i].before
      <4>1. On(r) \subseteq DOMAIN undo /\ DOMAIN undo \subseteq DOMAIN undo'
        BY <1>7, <1>8 DEF On
      <4> QED BY <1>2, <1>5, <1>8, <1>9, <2>2, <4>1
    <3>2. \A o \in Bank!Txn : (Wrote(o, r)' <=> Wrote(o, r)) /\ reg'[o][r] = reg[o][r]
      BY <1>2, <1>6, <2>2
    <3> QED BY <1>12, <1>13, <2>1, <3>1, <3>2, StoryKept
  <2>3. CASE r = s
    <3>1. CASE Untouched(r)
      <4>1. PICK u \in Bank!Txn : u # t
        BY TwoOfThem
      <4>2. reg[t][s] = [v |-> Start, ver |-> 0] /\ On(r) = {} /\ val[r] = Start /\ ver[r] = 0
        BY <1>14, <2>3, <3>1 DEF Untouched, AtStart
      <4>3. val'[r] = Start + Bank!Delta'[t][r] /\ ver'[r] = 1
        BY <1>15, <2>3, <4>2, SameProgram
      <4>4. n \in DOMAIN undo' /\ On(r)' = {n} /\ undo'[n].txn = t /\ undo'[n].before = Start
        BY <1>7, <1>8, <1>9, <1>10, <2>3, <4>2
      <4>5. AtStart(u, r)' /\ ~Wrote(u, r)'
        BY <1>2, <1>6, <3>1, <4>1, SameProgram DEF Untouched, AtStart
      <4>6. OneWrote(t, u, r)'
        BY <1>6, <2>3, <4>3, <4>4, <4>5 DEF OneWrote
      <4> QED BY <4>1, <4>6, SameProgram DEF Story
    <3>2. ASSUME NEW o \in Bank!Txn, NEW p \in Bank!Txn, o # p, OneWrote(o, p, r)
          PROVE  Story(r)'
      <4>1. p = t
        BY <1>6, <2>3, <3>2, TwoOfThem DEF OneWrote
      <4>2. PICK i \in DOMAIN undo : On(r) = {i} /\ undo[i].txn = o /\ undo[i].before = Start
        BY <3>2 DEF OneWrote
      <4>3. i < n /\ i \in DOMAIN undo' /\ n \in DOMAIN undo' /\ undo'[i] = undo[i]
        BY <1>7, <1>8
      <4>4. /\ On(r)' = {i, n}
            /\ undo'[i].txn = o /\ undo'[i].before = Start
            /\ undo'[n].txn = p /\ undo'[n].before = Start + Bank!Delta'[o][r]
        BY <1>8, <1>9, <1>10, <2>3, <3>2, <4>1, <4>2, <4>3, SameProgram DEF OneWrote
      <4>5. \/ n \in staleWrites'
            \/ val'[r] = Start + Bank!Delta'[o][r] + Bank!Delta'[p][r] /\ Known(o, p)'
        <5>1. ver[r] = 1 /\ (AtStart(p, r) \/ SawFirst(p, o, r))
          BY <3>2 DEF OneWrote
        <5>2. CASE AtStart(p, r)
          <6>1. reg[t][s].ver = 0
            BY <1>14, <2>3, <4>1, <5>2 DEF AtStart
          <6> QED BY <1>16, <2>3, <5>1, <6>1
        <5>3. CASE SawFirst(p, o, r)
          <6>1. reg[t][s].v = Start + Bank!Delta[o][r] /\ Known(o, p)
            BY <2>3, <4>1, <5>3 DEF SawFirst
          <6> QED BY <1>12, <1>15, <2>3, <4>1, <6>1, SameProgram
        <5> QED BY <5>1, <5>2, <5>3
      <4>6. Wrote(o, r)' /\ Wrote(p, r)'
        BY <1>6, <2>3, <3>2, <4>1 DEF OneWrote
      <4>7. BothWrote(o, p, r)'
        BY <4>3, <4>4, <4>5, <4>6 DEF BothWrote
      <4> QED BY <3>2, <4>7, SameProgram DEF Story
    <3>3. ~(\E o, p \in Bank!Txn : o # p /\ BothWrote(o, p, r))
      BY <1>6, <2>3, TwoOfThem DEF BothWrote
    <3> QED BY <2>1, <3>1, <3>2, <3>3 DEF Story
  <2> QED BY <2>2, <2>3
<1>18. Bank!locking' = Bank!locking
  BY ItsTurn
<1> QED BY <1>2, <1>3, <1>11, <1>17, <1>18, SameProgram DEF VerdictFits, RowsTold

LEMMA CommitTold ==
  ASSUME NEW t \in Bank!Txn, MayStep(t), QueueFits, VerdictFits, Bank!Commit(t)
  PROVE  VerdictFits'
<1>1. /\ Bank!Committing(t) /\ Bank!Done(t) /\ state' = [state EXCEPT ![t] = "committed"]
      /\ UNCHANGED <<val, ver, reg, readFrom, staleWrites, mode, iso, crashed>>
      /\ \/ mode = "autocommit" /\ undo' = undo
         \/ /\ mode # "autocommit"
            /\ undo' = [i \in DOMAIN undo |->
                          IF undo[i].txn = t THEN [undo[i] EXCEPT !.open = FALSE]
                                             ELSE undo[i]]
  BY DEF Bank!Commit, MayStep, Bank!rows
<1>2. BankInv /\ Bank!TypeOK /\ ~crashed /\ LogFits
  BY DEF MayStep, BankInv, VerdictFits
<1>3. pc' = [pc EXCEPT ![t] = @ + 1] /\ state[t] = "run" /\ pc[t] = 4
  BY <1>1, ItsTurn DEF Bank!Committing
<1>4. /\ pc \in [Bank!Txn -> 0 .. 5] /\ mode \in {"explicit", "autocommit"}
      /\ state \in [Bank!Txn -> {"run", "committed", "aborted"}]
      /\ \A i \in DOMAIN undo : undo[i] \in Undone
  BY <1>2, LogFacts DEF Bank!TypeOK
<1>5. /\ pc'[t] = 5 /\ state'[t] = "committed"
      /\ \A o \in Bank!Txn \ {t} : pc'[o] = pc[o] /\ state'[o] = state[o]
  BY <1>1, <1>3, <1>4
<1>6. /\ DOMAIN undo' = DOMAIN undo
      /\ \A i \in DOMAIN undo :
           /\ undo'[i].txn = undo[i].txn /\ undo'[i].row = undo[i].row
           /\ undo'[i].before = undo[i].before
           /\ undo'[i].reverted = undo[i].reverted
           /\ undo'[i].open <=> undo[i].open /\ undo[i].txn # t
  <2>1. CASE mode = "autocommit" /\ undo' = undo
    <3>1. \A i \in DOMAIN undo : ~undo[i].open
      BY <1>2, <2>1 DEF LogFits, RecordFits
    <3> QED BY <2>1, <3>1
  <2>2. CASE undo' = [i \in DOMAIN undo |->
                        IF undo[i].txn = t THEN [undo[i] EXCEPT !.open = FALSE]
                                           ELSE undo[i]]
    BY <1>4, <2>2 DEF Undone
  <2> QED BY <1>1, <2>1, <2>2
<1>7. \A r \in Bank!Row : On(r)' = On(r)
  BY <1>6 DEF On
<1>8. \A o \in Bank!Txn, r \in Bank!Row : Wrote(o, r)' <=> Wrote(o, r)
  BY <1>3, <1>5, SameProgram DEF Wrote
<1>9. LogFits'
  <2>1. \A o \in Bank!Txn : state'[o] = "committed" => pc'[o] = 5
    BY <1>2, <1>5 DEF LogFits
  <2>2. \A o \in Bank!Txn, r \in Bank!Row : HasRecord(o, r)' <=> HasRecord(o, r)
    BY <1>6, <1>7 DEF HasRecord, On
  <2>3. \A o \in Bank!Txn, r \in Bank!Row : Wrote(o, r)' <=> HasRecord(o, r)'
    BY <1>2, <1>8, <2>2 DEF LogFits
  <2>4. ASSUME NEW i \in DOMAIN undo' PROVE RecordFits(i)'
    <3>1. RecordFits(i) /\ i \in DOMAIN undo /\ undo[i].txn \in Bank!Txn
      BY <1>2, <1>4, <1>6 DEF LogFits, Undone
    <3>2. CASE undo[i].txn = t
      BY <1>1, <1>2, <1>3, <1>5, <1>6, <3>1, <3>2 DEF RecordFits
    <3>3. CASE undo[i].txn # t
      BY <1>1, <1>2, <1>5, <1>6, <3>1, <3>3 DEF RecordFits
    <3> QED BY <3>2, <3>3
  <2>5. \A o \in Bank!Txn : ReadBefore(o)'
    BY <1>1, <1>2, <1>5, SameProgram DEF LogFits, ReadBefore
  <2> QED BY <2>1, <2>3, <2>4, <2>5, SameProgram DEF LogFits
<1>10. ASSUME ~Bank!locking, NEW r \in Bank!Row PROVE Story(r)'
  <2>1. Story(r)
    BY <1>2, <1>10 DEF VerdictFits, RowsTold
  <2>2. \A o, p \in Bank!Txn : Known(o, p) => Known(o, p)'
    BY <1>1, <1>5 DEF Known, Stands
  <2>3. \A i \in On(r) : /\ i \in DOMAIN undo'
                         /\ undo'[i].txn = undo[i].txn
                         /\ undo'[i].before = undo[i].before
    BY <1>6 DEF On
  <2> QED BY <1>1, <1>7, <1>8, <2>1, <2>2, <2>3, StoryKept
<1>11. Bank!locking' = Bank!locking
  BY ItsTurn
<1> QED BY <1>1, <1>2, <1>9, <1>10, <1>11, SameProgram DEF VerdictFits, RowsTold

LEMMA WaitTold ==
  ASSUME NEW t \in Bank!Txn, MayStep(t), VerdictFits, Bank!Wait(t)
  PROVE  VerdictFits'
<1>1. /\ Bank!locking
      /\ UNCHANGED <<undo, pc, state, reg, mode, iso, crashed>>
  BY DEF Bank!Wait, Bank!LockedOut, MayStep
<1>2. Bank!locking' = Bank!locking
  BY ItsTurn
<1>3. LogFits'
  BY <1>1, SameProgram DEF VerdictFits, LogFits, Wrote, HasRecord, On, RecordFits,
                           Stands, ReadBefore
<1> QED BY <1>1, <1>2, <1>3 DEF VerdictFits, RowsTold

(* A step that reverts open records. *)
LEMMA RevertedFacts ==
  ASSUME Bank!TypeOK, NEW ts \in SUBSET Bank!Txn, undo' = Bank!Reverted(ts)
  PROVE  /\ DOMAIN undo' = DOMAIN undo
         /\ \A r \in Bank!Row : On(r)' = On(r)
         /\ \A i \in DOMAIN undo :
              /\ undo'[i].txn = undo[i].txn /\ undo'[i].row = undo[i].row
              /\ undo'[i].before = undo[i].before
              /\ undo'[i].open <=> undo[i].open /\ undo[i].txn \notin ts
              /\ undo'[i].reverted <=> \/ undo[i].reverted
                                       \/ undo[i].open /\ undo[i].txn \in ts
<1>1. \A i \in DOMAIN undo : undo[i] \in Undone
  BY LogFacts
<1>2. undo' = [i \in DOMAIN undo |->
                 IF undo[i].txn \in ts /\ undo[i].open
                   THEN [undo[i] EXCEPT !.open = FALSE, !.reverted = TRUE]
                   ELSE undo[i]]
  BY DEF Bank!Reverted, Bank!Open
<1>3. DOMAIN undo' = DOMAIN undo
  BY <1>2
<1>4. ASSUME NEW i \in DOMAIN undo
      PROVE  /\ undo'[i].txn = undo[i].txn /\ undo'[i].row = undo[i].row
             /\ undo'[i].before = undo[i].before
             /\ undo'[i].open <=> undo[i].open /\ undo[i].txn \notin ts
             /\ undo'[i].reverted <=> \/ undo[i].reverted
                                      \/ undo[i].open /\ undo[i].txn \in ts
  <2>1. CASE undo[i].txn \in ts /\ undo[i].open
    <3>1. undo'[i] = [undo[i] EXCEPT !.open = FALSE, !.reverted = TRUE]
      BY <1>2, <2>1
    <3> QED BY <1>1, <2>1, <3>1 DEF Undone
  <2>2. CASE ~(undo[i].txn \in ts /\ undo[i].open)
    <3>1. undo'[i] = undo[i]
      BY <1>2, <2>2
    <3>2. undo[i].open \in BOOLEAN /\ undo[i].reverted \in BOOLEAN
      BY <1>1 DEF Undone
    <3> QED BY <2>2, <3>1, <3>2
  <2> QED BY <2>1, <2>2
<1>5. \A r \in Bank!Row : On(r)' = On(r)
  BY <1>3, <1>4 DEF On
<1> QED BY <1>3, <1>4, <1>5

LEMMA RollbackTold ==
  ASSUME BankInv, QueueFits, VerdictFits, ~crashed, UNCHANGED <<mode, iso, crashed>>,
         NEW t \in Bank!Txn, Bank!Rollback(t)
  PROVE  VerdictFits'
<1>1. Bank!locking /\ state[t] = "run"
  BY VictimsAreDeadlocked
<1>2. /\ undo' = Bank!Reverted({t}) /\ state' = [state EXCEPT ![t] = "aborted"]
      /\ UNCHANGED <<pc, reg>>
  BY DEF Bank!Rollback
<1>3. /\ Bank!TypeOK /\ LogFits /\ state \in [Bank!Txn -> {"run", "committed", "aborted"}]
      /\ mode = "explicit" /\ Bank!locking'
  BY <1>1 DEF BankInv, VerdictFits, Bank!TypeOK, Bank!locking
<1>4. /\ DOMAIN undo' = DOMAIN undo
      /\ \A r \in Bank!Row : On(r)' = On(r)
      /\ \A i \in DOMAIN undo :
           /\ undo'[i].txn = undo[i].txn
           /\ undo'[i].open <=> undo[i].open /\ undo[i].txn # t
           /\ undo'[i].reverted <=> \/ undo[i].reverted
                                    \/ undo[i].open /\ undo[i].txn = t
  <2>1. {t} \in SUBSET Bank!Txn
    OBVIOUS
  <2> HIDE DEF Bank!Reverted
  <2> QED BY <1>2, <1>3, <2>1, RevertedFacts
<1>5. /\ state'[t] = "aborted"
      /\ \A o \in Bank!Txn \ {t} : state'[o] = state[o]
  BY <1>2, <1>3
<1>6. \A o \in Bank!Txn : state'[o] = "committed" => pc'[o] = 5
  BY <1>2, <1>3, <1>5 DEF LogFits
<1>7. ASSUME NEW o \in Bank!Txn, NEW r \in Bank!Row
      PROVE  Wrote(o, r)' <=> HasRecord(o, r)'
  <2>1. Wrote(o, r)' <=> Wrote(o, r)
    BY <1>2, SameProgram DEF Wrote
  <2>2. HasRecord(o, r)' <=> HasRecord(o, r)
    BY <1>4 DEF HasRecord, On
  <2> QED BY <1>3, <2>1, <2>2 DEF LogFits
<1>8. ASSUME NEW i \in DOMAIN undo' PROVE RecordFits(i)'
  <2>1. RecordFits(i) /\ i \in DOMAIN undo /\ undo[i].txn \in Bank!Txn
    BY <1>3, <1>4, LogFacts DEF LogFits, Undone
  <2>2. CASE undo[i].txn = t
    BY <1>1, <1>3, <1>4, <1>5, <2>1, <2>2 DEF RecordFits
  <2>3. CASE undo[i].txn # t
    BY <1>3, <1>4, <1>5, <2>1, <2>3 DEF RecordFits
  <2> QED BY <2>2, <2>3
<1>9. \A o \in Bank!Txn : ReadBefore(o)'
  BY <1>2, <1>3, SameProgram DEF LogFits, ReadBefore
<1>10. LogFits'
  BY <1>6, <1>7, <1>8, <1>9, SameProgram DEF LogFits
<1> QED BY <1>3, <1>10 DEF VerdictFits, RowsTold

(* Recovery: what is reverted is what does not stand. *)
LEMMA CrashTold ==
  ASSUME BankInv, QueueFits, VerdictFits, Bank!Crash
  PROVE  VerdictFits'
<1>1. /\ ~crashed /\ crashed'
      /\ val' = Bank!Before(Bank!Txn) /\ undo' = Bank!Reverted(Bank!Txn)
      /\ UNCHANGED <<mode, iso, pc, state, reg, readFrom, staleWrites>>
  BY DEF Bank!Crash, Bank!settings
<1>2. /\ Bank!TypeOK /\ LogFits /\ state \in [Bank!Txn -> {"run", "committed", "aborted"}]
      /\ mode \in {"explicit", "autocommit"} /\ staleWrites \subseteq DOMAIN undo
      /\ DOMAIN undo \subseteq Nat /\ \A i \in DOMAIN undo : undo[i].txn \in Bank!Txn
  <2>1. Bank!TypeOK
    BY DEF BankInv
  <2>2. DOMAIN undo \subseteq Nat /\ \A i \in DOMAIN undo : undo[i].txn \in Bank!Txn
    BY <2>1, LogFacts DEF Undone
  <2> QED BY <2>1, <2>2 DEF VerdictFits, Bank!TypeOK
<1>3. /\ DOMAIN undo' = DOMAIN undo
      /\ \A r \in Bank!Row : On(r)' = On(r)
      /\ \A i \in DOMAIN undo :
           /\ undo'[i].txn = undo[i].txn /\ ~undo'[i].open
           /\ undo'[i].reverted <=> undo[i].reverted \/ undo[i].open
  <2>1. Bank!Txn \in SUBSET Bank!Txn
    OBVIOUS
  <2> HIDE DEF Bank!Reverted
  <2> QED BY <1>1, <1>2, <2>1, RevertedFacts
<1>4. /\ \A t \in Bank!Txn : Stands(t)' = Stands(t)
      /\ \A t \in Bank!Txn, r \in Bank!Row : Stays(t, r)' = Stays(t, r)
      /\ \A t \in Bank!Txn, r \in Bank!Row : Wrote(t, r)' = Wrote(t, r)
  BY <1>1, SameProgram DEF Stands, Stays, Wrote
<1>5. LogFits'
  <2>1. \A t \in Bank!Txn : state'[t] = "committed" => pc'[t] = 5
    BY <1>1, <1>2 DEF LogFits
  <2>2. \A t \in Bank!Txn, r \in Bank!Row : HasRecord(t, r)' <=> HasRecord(t, r)
    BY <1>3 DEF HasRecord, On
  <2>3. \A t \in Bank!Txn, r \in Bank!Row : Wrote(t, r)' <=> HasRecord(t, r)'
    BY <1>2, <1>4, <2>2 DEF LogFits
  <2>4. ASSUME NEW i \in DOMAIN undo' PROVE RecordFits(i)'
    <3> DEFINE t == undo[i].txn
    <3>1. /\ i \in DOMAIN undo /\ t \in Bank!Txn /\ undo'[i].txn = t
          /\ undo[i].open <=> mode = "explicit" /\ state[t] = "run"
          /\ undo[i].reverted <=> state[t] = "aborted"
      BY <1>1, <1>2, <1>3 DEF LogFits, RecordFits
    <3>2. ~undo'[i].open /\ (undo'[i].reverted <=> undo[i].reverted \/ undo[i].open)
      BY <1>3, <3>1
    <3>3. mode = "autocommit" => state[t] # "aborted"
      BY <3>1 DEF QueueFits, NobodyWaits, Bank!locking
    <3>4. undo'[i].reverted <=> ~Stands(t)
      BY <1>2, <3>1, <3>2, <3>3 DEF Stands
    <3>5. Stands(t) <=> mode' = "autocommit" \/ state'[undo'[i].txn] = "committed"
      BY <1>1, <3>1 DEF Stands
    <3> HIDE DEF t
    <3> QED BY <1>1, <3>2, <3>4, <3>5 DEF RecordFits, Stands
  <2>5. \A t \in Bank!Txn : ReadBefore(t)'
    BY <1>1, <1>2, SameProgram DEF LogFits, ReadBefore
  <2> QED BY <2>1, <2>3, <2>4, <2>5, SameProgram DEF LogFits
<1>6. ASSUME ~Bank!locking, NEW r \in Bank!Row PROVE AfterCrash(r)'
  <2>1. Story(r)
    BY <1>1, <1>6 DEF VerdictFits, RowsTold
  <2>2. val'[r] = Bank!Before(Bank!Txn)[r]
    BY <1>1
  <2>3. ASSUME NEW i \in DOMAIN undo
        PROVE  undo[i].open <=> ~Stands(undo[i].txn)
    <3>1. RecordFits(i) /\ undo[i].txn \in Bank!Txn
      BY <1>2 DEF LogFits
    <3>2. state[undo[i].txn] # "aborted"
      BY <1>6, <3>1 DEF QueueFits, NobodyWaits
    <3>3. state[undo[i].txn] \in {"run", "committed", "aborted"}
      BY <1>2, <3>1
    <3> QED BY <1>1, <1>2, <3>1, <3>2, <3>3 DEF RecordFits, Stands
  <2>4. Bank!OpenOn(Bank!Txn, r) = {i \in On(r) : ~Stands(undo[i].txn)}
    <3>1. \A i : i \in Bank!OpenOn(Bank!Txn, r)
                   <=> i \in DOMAIN undo /\ undo[i].row = r /\ ~Stands(undo[i].txn)
      BY <1>2, <2>3 DEF Bank!OpenOn, Bank!Open
    <3> QED BY <3>1 DEF On
  <2>5. CASE Untouched(r)
    <3>1. Bank!OpenOn(Bank!Txn, r) = {}
      BY <2>4, <2>5 DEF Untouched
    <3>2. val'[r] = Start
      BY <2>2, <2>5, <3>1, BeforeNone DEF Untouched
    <3>3. NoneWrote(r)'
      BY <1>4, <2>5, <3>2, SameProgram DEF NoneWrote, Untouched
    <3> QED BY <3>3 DEF AfterCrash
  <2>6. ASSUME NEW t \in Bank!Txn, NEW u \in Bank!Txn, t # u, OneWrote(t, u, r)
        PROVE  AfterCrash(r)'
    <3>1. PICK i \in DOMAIN undo : On(r) = {i} /\ undo[i].txn = t /\ undo[i].before = Start
      BY <2>6 DEF OneWrote
    <3>2. val'[r] = Start + Stays(t, r)
      <4>1. CASE Stands(t)
        <5>1. Bank!OpenOn(Bank!Txn, r) = {}
          BY <2>4, <3>1, <4>1
        <5> QED BY <2>2, <2>6, <4>1, <5>1, BeforeNone DEF OneWrote, Stays
      <4>2. CASE ~Stands(t)
        <5>1. Bank!OpenOn(Bank!Txn, r) = {i} /\ i \in Nat
          BY <1>2, <2>4, <3>1, <4>2
        <5>2. Bank!Before(Bank!Txn)[r] = Start
          BY <3>1, <5>1, BeforeOne
        <5> QED BY <2>2, <4>2, <5>2, StartIsInt DEF Stays
      <4> QED BY <4>1, <4>2
    <3>3. OneSurvives(t, u, r)'
      BY <1>4, <2>6, <3>2 DEF OneSurvives, OneWrote
    <3> QED BY <2>6, <3>3, SameProgram DEF AfterCrash
  <2>7. ASSUME NEW t \in Bank!Txn, NEW u \in Bank!Txn, t # u, BothWrote(t, u, r)
        PROVE  AfterCrash(r)'
    <3>1. PICK i \in DOMAIN undo, j \in DOMAIN undo :
                 /\ i < j /\ On(r) = {i, j}
                 /\ undo[i].txn = t /\ undo[i].before = Start
                 /\ undo[j].txn = u /\ undo[j].before = Start + Bank!Delta[t][r]
                 /\ \/ j \in staleWrites
                    \/ val[r] = Start + Bank!Delta[t][r] + Bank!Delta[u][r] /\ Known(t, u)
      BY <2>7 DEF BothWrote
    <3>2. i \in Nat /\ j \in Nat /\ Bank!Delta[t][r] \in Int /\ Bank!Delta[u][r] \in Int
      BY <1>2, Programs
    <3>3. Wrote(t, r)' /\ Wrote(u, r)'
      BY <1>4, <2>7 DEF BothWrote
    <3>4. /\ j \in staleWrites' <=> j \in staleWrites
          /\ undo'[j].txn = u /\ readFrom' = readFrom
          /\ Stands(t)' = Stands(t) /\ Stands(u)' = Stands(u)
          /\ Stays(t, r)' = Stays(t, r) /\ Stays(u, r)' = Stays(u, r)
      BY <1>1, <1>3, <1>4, <3>1
    <3>5. \/ Stands(u) /\ j \in staleWrites
          \/ Stands(u) /\ ~Stands(t) /\ t \in readFrom[u]
          \/ val'[r] = Start + Stays(t, r) + Stays(u, r)
      <4>1. CASE Stands(t) /\ Stands(u)
        <5>1. Bank!OpenOn(Bank!Txn, r) = {}
          BY <2>4, <3>1, <4>1
        <5>2. val'[r] = val[r]
          BY <2>2, <5>1, BeforeNone
        <5> QED BY <3>1, <4>1, <5>2 DEF Stays
      <4>2. CASE Stands(t) /\ ~Stands(u)
        <5>1. Bank!OpenOn(Bank!Txn, r) = {j}
          BY <2>4, <3>1, <4>2
        <5>2. val'[r] = Start + Bank!Delta[t][r]
          BY <2>2, <3>1, <3>2, <5>1, BeforeOne
        <5> QED BY <3>2, <4>2, <5>2, StartIsInt DEF Stays
      <4>3. CASE ~Stands(t) /\ Stands(u)
        BY <2>2, <3>1, <4>3 DEF Known
      <4>4. CASE ~Stands(t) /\ ~Stands(u)
        <5>1. Bank!OpenOn(Bank!Txn, r) = {i, j}
          BY <2>4, <3>1, <4>4
        <5>2. Bank!Oldest({i, j}) = i
          BY <3>1, <3>2 DEF Bank!Oldest
        <5>3. val'[r] = Start
          BY <2>2, <3>1, <5>1, <5>2 DEF Bank!Before
        <5> QED BY <4>4, <5>3, StartIsInt DEF Stays
      <4> QED BY <4>1, <4>2, <4>3, <4>4
    <3>6. BothSurvive(t, u, r)'
      <4>1. \/ Stands(u)' /\ j \in staleWrites'
            \/ Stands(u)' /\ ~Stands(t)' /\ t \in readFrom'[u]
            \/ val'[r] = Start + Stays(t, r)' + Stays(u, r)'
        BY <3>4, <3>5
      <4> QED BY <3>3, <3>4, <4>1 DEF BothSurvive
    <3> QED BY <2>7, <3>6, SameProgram DEF AfterCrash
  <2> QED BY <2>1, <2>5, <2>6, <2>7 DEF Story
<1>7. Bank!locking' = Bank!locking
  BY <1>1 DEF Bank!locking
<1> QED BY <1>1, <1>5, <1>6, <1>7, SameProgram DEF VerdictFits, RowsTold

LEMMA VerdictInit ==
  ASSUME Init
  PROVE  VerdictThere
<1> SUFFICES ASSUME lab = "bank" PROVE VerdictFits
  BY DEF VerdictThere
<1>1. /\ val = [r \in Bank!Row |-> Start] /\ ver = [r \in Bank!Row |-> 0]
      /\ pc = [t \in Bank!Txn |-> 0] /\ state = [t \in Bank!Txn |-> "run"]
      /\ reg = [t \in Bank!Txn |-> [r \in Bank!Row |-> Bank!NotRead]]
      /\ undo = <<>> /\ crashed = FALSE
  BY DEF Init, Bank!Init
<1>2. DOMAIN undo = {}
  BY <1>1, EmptySeq, LenProperties
<1>3. \A r : On(r) = {}
  BY <1>2 DEF On
<1>4. \A t \in Bank!Txn, r \in Bank!Row : ~Wrote(t, r) /\ ~HasRecord(t, r)
  BY <1>1, <1>3 DEF Wrote, HasRecord
<1>5. LogFits
  BY <1>1, <1>2, <1>4 DEF LogFits, ReadBefore
<1>6. \A r \in Bank!Row : Story(r)
  BY <1>1, <1>3, <1>4 DEF Story, Untouched, AtStart
<1> QED BY <1>1, <1>5, <1>6 DEF VerdictFits, RowsTold

LEMMA VerdictStep ==
  ASSUME BankThere, QueueThere, VerdictThere, [Next]_vars
  PROVE  VerdictThere'
<1>1. CASE UNCHANGED vars
  <2>1. lab' = lab /\ UNCHANGED bankVars
    BY <1>1 DEF vars
  <2>2. LogFits' = LogFits
    BY <2>1 DEF bankVars, LogFits, Wrote, HasRecord, On, RecordFits, Stands, ReadBefore,
                Bank!Txn, Bank!Row, Bank!Path, Bank!NotRead
  <2>3. \A r \in Bank!Row : Story(r)' = Story(r)
    BY <2>1 DEF bankVars, Story, Untouched, OneWrote, BothWrote, AtStart, SawFirst, Known,
                Stands, Wrote, On, Bank!Txn, Bank!Path, Bank!NotRead, Bank!Delta
  <2>4. \A r \in Bank!Row : AfterCrash(r)' = AfterCrash(r)
    BY <2>1 DEF bankVars, AfterCrash, NoneWrote, OneSurvives, BothSurvive, Stays, Stands,
                Wrote, Bank!Txn, Bank!Path, Bank!Delta
  <2>5. Bank!locking' = Bank!locking /\ crashed' = crashed
    BY <2>1 DEF bankVars, Bank!locking
  <2> QED BY <2>1, <2>2, <2>3, <2>4, <2>5, SameProgram
          DEF VerdictThere, VerdictFits, RowsTold
<1>2. CASE Next
  <2>1. lab' = lab
    BY <1>2 DEF Next
  <2> SUFFICES ASSUME lab = "bank" PROVE VerdictFits'
    BY <2>1 DEF VerdictThere
  <2>2. BankInv /\ QueueFits /\ VerdictFits
    BY DEF BankThere, QueueThere, VerdictThere
  <2>3. Bank!Run \/ Bank!Crash
    BY <1>2 DEF Next, Step, Bank!Next
  <2>4. CASE Bank!Crash
    BY <2>2, <2>4, CrashTold
  <2>5. CASE Bank!Run
    <3>1. PICK t \in Bank!Txn : Bank!Issue(t) \/ Bank!Rollback(t)
      BY <2>5 DEF Bank!Run
    <3>2. ~crashed /\ UNCHANGED <<mode, iso, crashed>>
      BY <2>5 DEF Bank!Run, Bank!settings
    <3>3. CASE Bank!Rollback(t)
      BY <2>2, <3>2, <3>3, RollbackTold
    <3>4. CASE Bank!Issue(t)
      <4>1. MayStep(t)
        BY <2>2, <3>2, <3>4 DEF MayStep, Bank!Issue
      <4>2. Bank!Wait(t) \/ Bank!Read(t) \/ Bank!Write(t) \/ Bank!Commit(t)
        BY <3>4 DEF Bank!Issue
      <4> QED BY <2>2, <4>1, <4>2, WaitTold, ReadTold, WriteTold, CommitTold
    <3> QED BY <3>1, <3>3, <3>4
  <2> QED BY <2>3, <2>4, <2>5
<1> QED BY <1>1, <1>2

LEMMA VerdictAlways == Spec => []VerdictThere
<1>1. Init => VerdictThere
  BY VerdictInit
<1>2. BankThere /\ QueueThere /\ VerdictThere /\ [Next]_vars => VerdictThere'
  BY VerdictStep
<1> QED BY <1>1, <1>2, BankAlways, QueueAlways, PTL DEF Spec

-------------------------------------------------------------------------------
(* When the loop is over nobody runs. *)
LEMMA NobodyRuns ==
  ASSUME BankInv, QueueFits, Bank!Over, ~crashed, NEW t \in Bank!Txn
  PROVE  state[t] # "run"
<1> SUFFICES ASSUME state[t] = "run" PROVE FALSE
  OBVIOUS
<1>1. queue = <<>>
  BY DEF Bank!Over
<1>2. pc \in [Bank!Txn -> 0 .. 5] /\ pc[t] <= 4
  BY DEF BankInv, StepsLeft, Bank!TypeOK
<1>3. Count(queue, t) = 5 - pc[t]
  BY DEF QueueFits, PlacesFit
<1>4. Count(queue, t) = 0
  <2>1. Places(queue, t) = {}
    BY <1>1, EmptySeq, LenProperties DEF Places
  <2> QED BY <2>1, FS_EmptySet DEF Count
<1> QED BY <1>2, <1>3, <1>4

LEMMA TransferredIs ==
  ASSUME NEW ts, NEW t \in Bank!Txn, NEW u \in Bank!Txn, t # u, NEW r \in Bank!Row
  PROVE  /\ Bank!Transferred(ts, r) = Start + Bank!Effect(t, ts, r) + Bank!Effect(u, ts, r)
         /\ Bank!Effect(t, ts, r) \in Int /\ Bank!Effect(u, ts, r) \in Int
<1>1. Bank!Effect(1, ts, r) \in Int /\ Bank!Effect(2, ts, r) \in Int
  BY Programs DEF Bank!Effect, Bank!Txn
<1>2. t \in {1, 2} /\ u \in {1, 2}
  BY DEF Bank!Txn
<1>3. CASE t = 1 /\ u = 2
  BY <1>1, <1>3 DEF Bank!Transferred
<1>4. CASE t = 2 /\ u = 1
  BY <1>1, <1>4, StartIsInt DEF Bank!Transferred
<1> QED BY <1>2, <1>3, <1>4

(* The durable transfers are those with a record that was not reverted;    *)
(* who has committed has one on each row.                                  *)
LEMMA DurableIs ==
  ASSUME NEW t \in Bank!Txn
  PROVE  Bank!Durable(t) <=> \E i \in DOMAIN undo : undo[i].txn = t /\ ~undo[i].reverted
BY DEF Bank!Durable, Bank!Kept

LEMMA CommittedIsDurable ==
  ASSUME BankInv, LogFits, NEW t \in Bank!Txn, state[t] = "committed"
  PROVE  /\ \A r \in Bank!Row : Wrote(t, r)
         /\ Bank!Durable(t)
<1>1. pc[t] = 5
  BY DEF LogFits
<1>2. \A r \in Bank!Row : Wrote(t, r)
  BY <1>1, Programs DEF Wrote
<1>3. HasRecord(t, Bank!Path[t][1])
  BY <1>2, Programs DEF LogFits
<1>4. PICK i \in DOMAIN undo : undo[i].txn = t
  BY <1>3 DEF HasRecord, On
<1>5. RecordFits(i)
  BY DEF LogFits
<1>6. ~undo[i].reverted
  BY <1>4, <1>5 DEF RecordFits, Stands
<1> QED BY <1>2, <1>4, <1>6, DurableIs

LEMMA DurableIsCommitted ==
  ASSUME BankInv, QueueFits, LogFits, Bank!Over, mode = "explicit"
  PROVE  {t \in Bank!Txn : Bank!Durable(t)} = Bank!Committed
<1> SUFFICES ASSUME NEW t \in Bank!Txn PROVE Bank!Durable(t) <=> state[t] = "committed"
  BY DEF Bank!Committed
<1>1. ASSUME Bank!Durable(t) PROVE state[t] = "committed"
  <2>1. PICK i \in DOMAIN undo : undo[i].txn = t /\ ~undo[i].reverted
    BY <1>1, DurableIs
  <2>2. RecordFits(i) /\ state[t] \in {"run", "committed", "aborted"}
    BY DEF LogFits, BankInv, Bank!TypeOK
  <2>3. ~crashed => state[t] # "run"
    BY NobodyRuns
  <2> QED BY <2>1, <2>2, <2>3 DEF RecordFits, Stands
<1> QED BY <1>1, CommittedIsDurable

LEMMA LockedBalances ==
  ASSUME BankInv, QueueFits, LogFits, Bank!Over, Bank!locking, NEW r \in Bank!Row
  PROVE  val[r] = Bank!Transferred({t \in Bank!Txn : Bank!Durable(t)}, r)
<1>1. {t \in Bank!Txn : Bank!Durable(t)} = Bank!Committed
  BY DurableIsCommitted DEF Bank!locking
<1>2. CASE crashed
  BY <1>1, <1>2 DEF BankInv, CleanAt, Worth
<1>3. CASE ~crashed
  <2>1. \A t \in Bank!Txn : lock[r] # t
    BY <1>3, NobodyRuns DEF BankInv, LocksFit
  <2>2. RowFits(r)
    BY <1>3 DEF BankInv, LocksFit
  <2>3. CleanAt(r)
    BY <2>1, <2>2 DEF RowFits, Unlocked, OnlyRead, OpenWrite
  <2> QED BY <1>1, <2>3 DEF CleanAt, Worth
<1> QED BY <1>2, <1>3

LEMMA FinishedBalances ==
  ASSUME BankInv, QueueFits, VerdictFits, Bank!Over, Bank!NoAnomaly, ~Bank!locking,
         ~crashed, NEW r \in Bank!Row
  PROVE  val[r] = Bank!Transferred({t \in Bank!Txn : Bank!Durable(t)}, r)
<1> DEFINE ts == {t \in Bank!Txn : Bank!Durable(t)}
<1>1. LogFits /\ Story(r) /\ Bank!TypeOK
  BY DEF VerdictFits, RowsTold, BankInv
<1>2. ASSUME NEW t \in Bank!Txn
      PROVE  state[t] = "committed" /\ Wrote(t, r) /\ t \in ts
  <2>1. state[t] \in {"run", "committed", "aborted"} /\ state[t] # "run"
    BY <1>1, NobodyRuns DEF Bank!TypeOK
  <2>2. state[t] # "aborted"
    BY DEF QueueFits, NobodyWaits
  <2> QED BY <1>1, <2>1, <2>2, CommittedIsDurable
<1>3. staleWrites = {}
  <2>1. staleWrites \subseteq DOMAIN undo /\ \A i \in DOMAIN undo : undo[i].txn \in Bank!Txn
    BY <1>1, LogFacts DEF Bank!TypeOK, Undone
  <2>2. \A i \in DOMAIN undo : ~undo[i].reverted
    BY <1>1, <1>2, <2>1 DEF LogFits, RecordFits
  <2> QED BY <2>1, <2>2 DEF Bank!NoAnomaly, Bank!LostUpdate
<1>4. PICK t \in Bank!Txn, u \in Bank!Txn : t # u /\ BothWrote(t, u, r)
  <2>1. ~Untouched(r)
    BY <1>2, TwoOfThem DEF Untouched
  <2> QED BY <1>1, <1>2, <2>1 DEF Story, OneWrote
<1>5. val[r] = Start + Bank!Delta[t][r] + Bank!Delta[u][r]
  BY <1>3, <1>4 DEF BothWrote
<1>6. t \in ts /\ u \in ts
  BY <1>2
<1> HIDE DEF ts
<1>7. Bank!Effect(t, ts, r) = Bank!Delta[t][r] /\ Bank!Effect(u, ts, r) = Bank!Delta[u][r]
  BY <1>6 DEF Bank!Effect
<1>8. Bank!Transferred(ts, r) = Start + Bank!Effect(t, ts, r) + Bank!Effect(u, ts, r)
  BY <1>4, TransferredIs
<1>9. val[r] = Bank!Transferred(ts, r)
  BY <1>5, <1>7, <1>8
<1> QED BY <1>9 DEF ts

(* After a power cut a transfer that is not torn adds to a row what stands *)
(* of its write, and nothing where it has not written.                     *)
LEMMA EffectIs ==
  ASSUME BankInv, LogFits, crashed, NEW t \in Bank!Txn, ~Bank!Torn(t), NEW r \in Bank!Row,
         NEW ts, ts = {o \in Bank!Txn : Bank!Durable(o)}
  PROVE  Bank!Effect(t, ts, r) = IF Wrote(t, r) THEN Stays(t, r) ELSE 0
<1>1. Wrote(t, r) <=> HasRecord(t, r)
  BY DEF LogFits
<1>2. \A i \in DOMAIN undo : undo[i].txn = t => (undo[i].reverted <=> ~Stands(t))
  BY DEF LogFits, RecordFits
<1>3. CASE Bank!Durable(t)
  <2>1. r \in Bank!Kept(t)
    BY <1>3 DEF Bank!Durable, Bank!Torn
  <2>2. PICK i \in DOMAIN undo : undo[i].txn = t /\ ~undo[i].reverted /\ undo[i].row = r
    BY <2>1 DEF Bank!Kept
  <2>3. Wrote(t, r) /\ Stands(t)
    BY <1>1, <1>2, <2>2 DEF HasRecord, On
  <2> QED BY <1>3, <2>3 DEF Bank!Effect, Stays
<1>4. CASE ~Bank!Durable(t)
  <2>1. Bank!Effect(t, ts, r) = 0
    BY <1>4 DEF Bank!Effect
  <2>2. Wrote(t, r) => ~Stands(t)
    BY <1>1, <1>2, <1>4, DurableIs DEF HasRecord, On
  <2> QED BY <2>1, <2>2 DEF Stays
<1> QED BY <1>3, <1>4

LEMMA RecoveredBalances ==
  ASSUME BankInv, QueueFits, VerdictFits, Bank!NoAnomaly, ~Bank!locking,
         crashed, NEW r \in Bank!Row
  PROVE  val[r] = Bank!Transferred({t \in Bank!Txn : Bank!Durable(t)}, r)
<1>0. PICK ts : ts = {t \in Bank!Txn : Bank!Durable(t)}
  OBVIOUS
<1>1. LogFits /\ AfterCrash(r) /\ Bank!TypeOK
  BY DEF VerdictFits, RowsTold, BankInv
<1>2. \A t \in Bank!Txn : Bank!Effect(t, ts, r) = IF Wrote(t, r) THEN Stays(t, r) ELSE 0
  BY <1>0, <1>1, EffectIs DEF Bank!NoAnomaly
<1>3. ASSUME NEW t \in Bank!Txn, NEW u \in Bank!Txn, t # u
      PROVE  Bank!Transferred(ts, r) = Start + (IF Wrote(t, r) THEN Stays(t, r) ELSE 0)
                                             + (IF Wrote(u, r) THEN Stays(u, r) ELSE 0)
  BY <1>2, <1>3, TransferredIs
<1>4. \A t \in Bank!Txn : Stays(t, r) \in Int
  BY Programs DEF Stays
<1>5. CASE NoneWrote(r)
  <2>1. PICK t \in Bank!Txn, u \in Bank!Txn : t # u
    BY TwoOfThem
  <2>2. ~Wrote(t, r) /\ ~Wrote(u, r) /\ val[r] = Start
    BY <1>5 DEF NoneWrote
  <2>3. Bank!Transferred(ts, r) = Start + 0 + 0
    BY <1>3, <2>1, <2>2
  <2> QED BY <1>0, <2>2, <2>3, StartIsInt
<1>6. ASSUME NEW t \in Bank!Txn, NEW u \in Bank!Txn, t # u, OneSurvives(t, u, r)
      PROVE  val[r] = Bank!Transferred(ts, r)
  <2>1. Wrote(t, r) /\ ~Wrote(u, r) /\ val[r] = Start + Stays(t, r)
    BY <1>6 DEF OneSurvives
  <2>2. Bank!Transferred(ts, r) = Start + Stays(t, r) + 0
    BY <1>3, <1>6, <2>1
  <2> QED BY <1>4, <2>1, <2>2, StartIsInt
<1>7. ASSUME NEW t \in Bank!Txn, NEW u \in Bank!Txn, t # u, BothSurvive(t, u, r)
      PROVE  val[r] = Bank!Transferred(ts, r)
  <2>1. Wrote(t, r) /\ Wrote(u, r)
    BY <1>7 DEF BothSurvive
  <2>2. Bank!Transferred(ts, r) = Start + Stays(t, r) + Stays(u, r)
    BY <1>3, <1>7, <2>1
  <2>3. \A i \in DOMAIN undo : undo[i].reverted <=> ~Stands(undo[i].txn)
    BY <1>1 DEF LogFits, RecordFits
  <2>4. ~(Stands(u) /\ \E j \in staleWrites : undo[j].txn = u)
    BY <1>1, <2>3 DEF Bank!TypeOK, Bank!NoAnomaly, Bank!LostUpdate
  <2>5. ~(Stands(u) /\ ~Stands(t) /\ t \in readFrom[u])
    <3> SUFFICES ASSUME Stands(u), ~Stands(t), t \in readFrom[u] PROVE FALSE
      OBVIOUS
    <3>1. HasRecord(t, r) /\ HasRecord(u, r)
      BY <1>1, <2>1 DEF LogFits
    <3>2. PICK i \in DOMAIN undo, j \in DOMAIN undo : undo[i].txn = t /\ undo[j].txn = u
      BY <3>1 DEF HasRecord, On
    <3>3. Bank!WasReverted(t)
      BY <2>3, <3>2 DEF Bank!WasReverted
    <3>4. Bank!Durable(u)
      BY <2>3, <3>2, DurableIs
    <3> QED BY <3>3, <3>4 DEF Bank!NoAnomaly, Bank!DirtyRead
  <2> QED BY <1>7, <2>2, <2>4, <2>5 DEF BothSurvive
<1> QED BY <1>0, <1>1, <1>5, <1>6, <1>7 DEF AfterCrash

(* The lab's verdict misses nothing: whatever is moved in whichever order, *)
(* transactions or single statements, locked or not, cut off or not, if it *)
(* counts no lost update, no torn transfer, no dirty read and no missing   *)
(* money, the balances are those of the durable transfers, each whole, and *)
(* between transactions these are the committed ones.                      *)
THEOREM VerdictMissesNothing == Spec => []VerdictSound
<1>1. ASSUME BankThere, QueueThere, VerdictThere PROVE VerdictSound
  <2> SUFFICES ASSUME lab = "bank", Bank!Over, Bank!NoAnomaly
               PROVE  /\ \A r \in Bank!Row :
                           val[r] = Bank!Transferred({t \in Bank!Txn : Bank!Durable(t)}, r)
                      /\ mode = "explicit" =>
                           {t \in Bank!Txn : Bank!Durable(t)} = Bank!Committed
    BY DEF VerdictSound, Bank!VerdictSound
  <2>1. BankInv /\ QueueFits /\ VerdictFits /\ LogFits
    BY <1>1 DEF BankThere, QueueThere, VerdictThere, VerdictFits
  <2>2. ASSUME NEW r \in Bank!Row
        PROVE  val[r] = Bank!Transferred({t \in Bank!Txn : Bank!Durable(t)}, r)
    BY <2>1, LockedBalances, FinishedBalances, RecoveredBalances
  <2> QED BY <2>1, <2>2, DurableIsCommitted
<1>2. BankThere /\ QueueThere /\ VerdictThere => VerdictSound
  BY <1>1
<1> QED BY <1>2, BankAlways, QueueAlways, VerdictAlways, PTL

-------------------------------------------------------------------------------
(* The index built beside writers.                                         *)

Chained  == {"building", "built", "wait2", "validating", "validated", "wait3", "valid"}
Filled   == {"built", "wait2", "validating", "validated", "wait3", "valid"}
Caught   == {"validating", "validated", "wait3", "valid"}
Complete == {"validated", "wait3", "valid"}

(* The flags follow the stage, and nobody takes for ready what is not.     *)
FlagsFollow ==
  /\ stage # "idle" => exists
  /\ stage \in Filled => ready
  /\ stage \in {"idle", "created", "wait1", "building"} => ~ready
  /\ valid => stage = "valid"
  /\ ~ready => entries = {} /\ \A w \in Writer : saw[w] # "ready"

(* Who wrote or ended has looked at the index list.                        *)
WritersLooked ==
  /\ \A w \in Writer \intersect ended : saw[w] # "nothing"
  /\ \A v \in Cic!Version : heap[v].by \in Writer => saw[heap[v].by] # "nothing"

(* Of two versions in one HOT chain the older one was ended by a writer    *)
(* that did not know of the index.                                         *)
ChainsByUnaware ==
  \A v, w \in Cic!Version :
    heap[v].root = heap[w].root /\ v < w
      => heap[v].dead \in Writer /\ saw[heap[v].dead] = "no index"

(* What a wait is for, and what the snapshot after it therefore sees.      *)
Waited ==
  /\ s1.seen \subseteq ended
  /\ s2.seen \subseteq ended
  /\ \A w \in Writer : w \in s1.seen => saw[w] # "ready"
  /\ \A w \in Writer : saw[w] = "no index" =>
       /\ stage = "wait1" => w \in lockers \union ended
       /\ stage \in Chained => w \in s1.seen
  /\ \A w \in Writer : saw[w] \in {"no index", "entry"} =>
       /\ stage = "wait2" => w \in lockers \union ended
       /\ stage \in Caught => w \in s2.seen
  /\ stage \in Caught => s1.seen \subseteq s2.seen

(* Each entry is of its version's chain, from the party that owes it, and  *)
(* of no version that was over when the build began.                       *)
EntriesFit ==
  /\ \A e \in entries :
       /\ heap[e.v].root = e.root
       /\ heap[e.v].dead \notin s1.seen
       /\ e.src = "build"  => heap[e.v].by \in s1.seen \union {Loaded}
       /\ e.src = "writer" => heap[e.v].by \in Writer /\ saw[heap[e.v].by] = "ready"
  /\ \A e, f \in entries : e.v = f.v => e = f
  /\ \A v \in Cic!Version :
       heap[v].by \in Writer /\ saw[heap[v].by] = "ready" => Cic!Indexed(v)

(* What the validation has not looked at was written after its snapshot.   *)
SinceSnapshot ==
  stage = "validating" =>
    /\ \A h \in have : \E e \in entries : e.root = h
    /\ \A e \in entries : e.root \notin have =>
         e.src = "writer" /\ heap[e.v].by \notin s2.seen

(* A version without an entry was over when the validation began.          *)
UnindexedAreOver ==
  stage \in Complete =>
    \A v \in Cic!Version : Cic!Indexed(v) \/ heap[v].dead \in s2.seen

(* A snapshot is either old enough to be waited for or sees what the       *)
(* validation saw.                                                         *)
OldOnesWaitedFor ==
  /\ \A r \in Reader : snap[r].xmin <= Cic!Xmin
  /\ \A r \in Reader \ ended : snap[r] # Cic!NoSnapshot /\ stage \in Caught =>
       \/ s2.seen \subseteq snap[r].seen
       \/ stage \in {"validating", "validated"} /\ snap[r].xmin <= s2.xmin
       \/ stage = "wait3" /\ r \in lockers

CicInv ==
  /\ Cic!TypeOK /\ FlagsFollow /\ WritersLooked /\ ChainsByUnaware /\ Waited
  /\ EntriesFit /\ SinceSnapshot /\ UnindexedAreOver /\ OldOnesWaitedFor

CicThere == lab \in Lab /\ (lab = "cic" => CicInv)

-------------------------------------------------------------------------------
(* Xmin of any order of first writes and any transactions that have ended: *)
(* a place in the order, or the next one, before which everybody has ended *)
(* and at which nobody has.                                                *)
Oldest(xs, over) ==
  IF \A i \in DOMAIN xs : xs[i] \in over THEN Len(xs) + 1
  ELSE CHOOSE i \in DOMAIN xs :
         /\ xs[i] \notin over
         /\ \A j \in 1 .. i - 1 : xs[j] \in over

LEMMA OldestMeaning ==
  ASSUME NEW S, NEW xs \in Seq(S), NEW over
  PROVE  /\ Oldest(xs, over) \in 1 .. Len(xs) + 1
         /\ \A i \in 1 .. Oldest(xs, over) - 1 : xs[i] \in over
         /\ Oldest(xs, over) \in 1 .. Len(xs) => xs[Oldest(xs, over)] \notin over
<1>1. Len(xs) \in Nat /\ DOMAIN xs = 1 .. Len(xs)
  BY LenProperties
<1>2. CASE \A i \in DOMAIN xs : xs[i] \in over
  <2>1. Oldest(xs, over) = Len(xs) + 1
    BY <1>2 DEF Oldest
  <2> QED BY <2>1, <1>1, <1>2
<1>3. CASE ~ \A i \in DOMAIN xs : xs[i] \in over
  <2> DEFINE T == {i \in 1 .. Len(xs) : xs[i] \notin over}
  <2>1. T \subseteq Nat /\ T # {}
    BY <1>1, <1>3
  <2>2. PICK x \in T : \A y \in T : x <= y
    BY <2>1, LeastIn
  <2>3. \A j \in 1 .. x - 1 : xs[j] \in over
    BY <2>2, <1>1
  <2>4. \E i \in DOMAIN xs : /\ xs[i] \notin over
                             /\ \A j \in 1 .. i - 1 : xs[j] \in over
    BY <2>3, <1>1
  <2>5. Oldest(xs, over) = CHOOSE i \in DOMAIN xs :
                             /\ xs[i] \notin over
                             /\ \A j \in 1 .. i - 1 : xs[j] \in over
    BY <1>3 DEF Oldest
  <2>6. /\ Oldest(xs, over) \in DOMAIN xs /\ xs[Oldest(xs, over)] \notin over
        /\ \A j \in 1 .. Oldest(xs, over) - 1 : xs[j] \in over
    BY <2>4, <2>5
  <2> QED BY <2>6, <1>1
<1> QED BY <1>2, <1>3

(* It never moves back: transactions only start after those that have, and *)
(* stay ended.                                                             *)
LEMMA XminMonotone ==
  ASSUME xids \in Seq(Writer), xids' \in Seq(Writer), Len(xids) <= Len(xids'),
         \A i \in 1 .. Len(xids) : xids'[i] = xids[i],
         ended \subseteq ended'
  PROVE  Cic!Xmin \in Nat /\ Cic!Xmin' \in Nat /\ Cic!Xmin <= Cic!Xmin'
<1>1. Len(xids) \in Nat /\ Len(xids') \in Nat
  BY LenProperties
<1>2. /\ Cic!Xmin = Oldest(xids, ended)
      /\ Cic!Xmin' = Oldest(xids', ended')
  BY DEF Cic!Xmin, Oldest
<1>3. /\ Cic!Xmin \in 1 .. Len(xids) + 1
      /\ \A i \in 1 .. Cic!Xmin - 1 : xids[i] \in ended
  BY <1>2, OldestMeaning
<1>4. /\ Cic!Xmin' \in 1 .. Len(xids') + 1
      /\ Cic!Xmin' \in 1 .. Len(xids') => xids'[Cic!Xmin'] \notin ended'
  BY <1>2, OldestMeaning
<1>5. SUFFICES ASSUME Cic!Xmin' < Cic!Xmin PROVE FALSE
  BY <1>1, <1>3, <1>4
<1>6. Cic!Xmin' \in 1 .. Cic!Xmin - 1 /\ Cic!Xmin' \in 1 .. Len(xids)
  BY <1>1, <1>3, <1>4, <1>5
<1>7. xids[Cic!Xmin'] \in ended
  BY <1>3, <1>6
<1> QED BY <1>1, <1>4, <1>6, <1>7

-------------------------------------------------------------------------------
(* What every step of a writer has in common. *)
TheVersion(n) ==
  [by : Writer \union {Loaded}, dead : Writer \union {NoOne}, root : 1 .. n]

Looks(w) ==
  /\ saw' \in [Writer -> {"nothing", "no index", "entry", "ready"}]
  /\ \A x \in Writer : x # w \/ saw[x] # "nothing" => saw'[x] = saw[x]
  /\ saw[w] = "nothing" =>
       saw'[w] = IF ready THEN "ready" ELSE IF exists THEN "entry" ELSE "no index"
  /\ saw'[w] # "nothing"
  /\ xids' \in Seq(Writer) /\ Len(xids) <= Len(xids')
  /\ \A i \in 1 .. Len(xids) : xids'[i] = xids[i]

KeepsVersions(w) ==
  \A v \in 1 .. Len(heap) :
    /\ heap'[v].by = heap[v].by /\ heap'[v].root = heap[v].root
    /\ \/ heap'[v].dead = heap[v].dead
       \/ heap[v].dead = NoOne /\ heap'[v].dead = w

AddsOne(w) ==
  LET n == Len(heap) + 1
  IN /\ Len(heap') = n
     /\ heap'[n].by = w /\ heap'[n].dead = NoOne
     /\ \/ /\ heap'[n].root = n
           /\ saw'[w] = "ready" =>
                entries' = entries \union {[v |-> n, root |-> n, src |-> "writer"]}
           /\ saw'[w] # "ready" => entries' = entries
        \/ /\ saw'[w] = "no index" /\ entries' = entries
           /\ \E k \in 1 .. Len(heap) : /\ heap[k].dead = NoOne
                                        /\ heap'[k].dead = w
                                        /\ heap'[n].root = heap[k].root

WriterStep(w) ==
  /\ w \notin ended /\ Looks(w) /\ KeepsVersions(w)
  /\ heap' \in Seq(TheVersion(Len(heap')))
  /\ \/ AddsOne(w)
     \/ Len(heap') = Len(heap) /\ entries' = entries
  /\ UNCHANGED <<stage, exists, ready, valid, lockers, s1, s2, have, ended, snap>>

LEMMA HeapFacts ==
  ASSUME Cic!TypeOK
  PROVE  /\ heap \in Seq(TheVersion(Len(heap))) /\ Len(heap) \in Nat
         /\ Cic!Version = 1 .. Len(heap)
         /\ \A v \in 1 .. Len(heap) : /\ heap[v] \in TheVersion(Len(heap))
                                      /\ heap[v].by \in Writer \union {Loaded}
                                      /\ heap[v].dead \in Writer \union {NoOne}
                                      /\ heap[v].root \in 1 .. Len(heap)
<1>1. heap \in Seq(TheVersion(Len(heap))) /\ Cic!Version = 1 .. Len(heap)
  BY DEF Cic!TypeOK, Cic!Version, TheVersion
<1>2. Len(heap) \in Nat /\ \A v \in 1 .. Len(heap) : heap[v] \in TheVersion(Len(heap))
  BY <1>1, LenProperties, ElementOfSeq
<1> QED BY <1>1, <1>2 DEF TheVersion

LEMMA WriterLooks ==
  ASSUME Cic!TypeOK, NEW w \in Writer, Cic!Writes(w)
  PROVE  /\ w \notin ended /\ Looks(w)
         /\ UNCHANGED <<stage, exists, ready, valid, lockers, s1, s2, have, ended, snap>>
<1>1. saw \in [Writer -> {"nothing", "no index", "entry", "ready"}]
  BY DEF Cic!TypeOK
<1>2. xids \in Seq(Writer) /\ Len(xids) \in Nat
  BY LenProperties DEF Cic!TypeOK
<1>3. /\ w \notin ended /\ Cic!FirstWrite(w)
      /\ UNCHANGED <<stage, exists, ready, valid, lockers, s1, s2, have, ended, snap>>
  BY DEF Cic!Writes, Cic!cicVars
<1>4. CASE saw[w] # "nothing"
  <2>1. saw' = saw /\ xids' = xids
    BY <1>3, <1>4 DEF Cic!FirstWrite
  <2>2. saw' \in [Writer -> {"nothing", "no index", "entry", "ready"}]
    BY <1>1, <2>1
  <2>3. xids' \in Seq(Writer) /\ Len(xids) <= Len(xids')
    BY <1>2, <2>1
  <2>4. \A i \in 1 .. Len(xids) : xids'[i] = xids[i]
    BY <2>1
  <2>5. Looks(w)
    BY <1>4, <2>1, <2>2, <2>3, <2>4, Zenon DEF Looks
  <2> QED BY <1>3, <2>5
<1>5. CASE saw[w] = "nothing"
  <2> DEFINE new == IF ready THEN "ready" ELSE IF exists THEN "entry" ELSE "no index"
  <2>1. saw' = [saw EXCEPT ![w] = new]
    BY <1>3, <1>5 DEF Cic!FirstWrite
  <2>2. xids' = Append(xids, w)
    BY <1>3, <1>5 DEF Cic!FirstWrite
  <2>3. /\ xids' \in Seq(Writer) /\ Len(xids') = Len(xids) + 1
        /\ \A i \in 1 .. Len(xids) : xids'[i] = xids[i]
    BY <2>2, <1>2, AppendProperties
  <2>4. Len(xids) <= Len(xids')
    BY <1>2, <2>3
  <2>5. /\ saw' \in [Writer -> {"nothing", "no index", "entry", "ready"}]
        /\ \A y \in Writer : y # w => saw'[y] = saw[y]
        /\ saw'[w] = new /\ new # "nothing"
    BY <1>1, <2>1
  <2>6. Looks(w)
    BY <1>5, <2>3, <2>4, <2>5, Zenon DEF Looks
  <2> QED BY <1>3, <2>6
<1> QED BY <1>4, <1>5

(* The heap after a writer has ended a version, added one, or both. *)
LEMMA HeapAfter ==
  ASSUME Cic!TypeOK, NEW w \in Writer, NEW h \in Seq(TheVersion(Len(heap))),
         Len(h) = Len(heap),
         \A v \in 1 .. Len(heap) :
           /\ h[v].by = heap[v].by /\ h[v].root = heap[v].root
           /\ \/ h[v].dead = heap[v].dead
              \/ heap[v].dead = NoOne /\ h[v].dead = w
  PROVE  /\ heap' = h => /\ KeepsVersions(w) /\ Len(heap') = Len(heap)
                         /\ heap' \in Seq(TheVersion(Len(heap')))
         /\ \A r \in 1 .. Len(heap) + 1 :
              heap' = Append(h, [by |-> w, dead |-> NoOne, root |-> r]) =>
                /\ KeepsVersions(w) /\ Len(heap') = Len(heap) + 1
                /\ heap' \in Seq(TheVersion(Len(heap')))
                /\ heap'[Len(heap) + 1] = [by |-> w, dead |-> NoOne, root |-> r]
                /\ \A v \in 1 .. Len(heap) : heap'[v] = h[v]
<1>1. Len(heap) \in Nat
  BY HeapFacts
<1>2. heap' = h => /\ KeepsVersions(w) /\ Len(heap') = Len(heap)
                   /\ heap' \in Seq(TheVersion(Len(heap')))
  BY DEF KeepsVersions
<1>3. ASSUME NEW r \in 1 .. Len(heap) + 1,
             heap' = Append(h, [by |-> w, dead |-> NoOne, root |-> r])
      PROVE  /\ KeepsVersions(w) /\ Len(heap') = Len(heap) + 1
             /\ heap' \in Seq(TheVersion(Len(heap')))
             /\ heap'[Len(heap) + 1] = [by |-> w, dead |-> NoOne, root |-> r]
             /\ \A v \in 1 .. Len(heap) : heap'[v] = h[v]
  <2>1. TheVersion(Len(heap)) \subseteq TheVersion(Len(heap) + 1)
    BY <1>1 DEF TheVersion
  <2>2. h \in Seq(TheVersion(Len(heap) + 1))
    BY <2>1, SeqMonotonic
  <2>3. [by |-> w, dead |-> NoOne, root |-> r] \in TheVersion(Len(heap) + 1)
    BY DEF TheVersion
  <2>4. /\ heap' \in Seq(TheVersion(Len(heap) + 1)) /\ Len(heap') = Len(heap) + 1
        /\ heap'[Len(heap) + 1] = [by |-> w, dead |-> NoOne, root |-> r]
        /\ \A v \in 1 .. Len(heap) : heap'[v] = h[v]
    BY <1>3, <2>2, <2>3, AppendProperties
  <2>5. KeepsVersions(w)
    BY <2>4 DEF KeepsVersions
  <2> QED BY <2>4, <2>5
<1> QED BY <1>2, <1>3

LEMMA WriterEffect ==
  ASSUME Cic!CicAssumption, CicInv, NEW w \in Writer,
         \/ Cic!Insert(w)
         \/ \E v \in Cic!Version : Cic!Update(w, v) \/ Cic!Delete(w, v)
  PROVE  WriterStep(w)
<1>1. Cic!TypeOK
  BY DEF CicInv
<1>2. /\ heap \in Seq(TheVersion(Len(heap))) /\ Len(heap) \in Nat
      /\ Cic!Version = 1 .. Len(heap)
      /\ \A v \in 1 .. Len(heap) : /\ heap[v] \in TheVersion(Len(heap))
                                   /\ heap[v].root \in 1 .. Len(heap)
  BY <1>1, HeapFacts
<1>3. Cic!Writes(w)
  BY DEF Cic!Insert, Cic!Update, Cic!Delete
<1>4. /\ w \notin ended /\ Looks(w)
      /\ UNCHANGED <<stage, exists, ready, valid, lockers, s1, s2, have, ended, snap>>
  BY <1>1, <1>3, WriterLooks
<1> DEFINE n == Len(heap) + 1
<1>5. CASE Cic!Insert(w)
  <2>1. Cic!AddVersion(w, heap, n)
    BY <1>5 DEF Cic!Insert
  <2>2. /\ heap' = Append(heap, [by |-> w, dead |-> NoOne, root |-> n])
        /\ saw'[w] = "ready" =>
             entries' = entries \union {[v |-> n, root |-> n, src |-> "writer"]}
        /\ saw'[w] # "ready" => entries' = entries
    BY <2>1 DEF Cic!AddVersion
  <2>3. n \in 1 .. Len(heap) + 1
    BY <1>2
  <2>4. /\ KeepsVersions(w) /\ Len(heap') = n
        /\ heap' \in Seq(TheVersion(Len(heap')))
        /\ heap'[n] = [by |-> w, dead |-> NoOne, root |-> n]
    <3>1. heap' = Append(heap, [by |-> w, dead |-> NoOne, root |-> n])
      BY <2>2
    <3> QED BY <1>1, <1>2, <2>3, <3>1, HeapAfter
  <2>5. heap'[n].by = w /\ heap'[n].dead = NoOne /\ heap'[n].root = n
    BY <2>4
  <2>6. AddsOne(w)
    BY <2>2, <2>4, <2>5 DEF AddsOne
  <2>7. KeepsVersions(w) /\ heap' \in Seq(TheVersion(Len(heap')))
    BY <2>4
  <2> QED BY <1>4, <2>6, <2>7 DEF WriterStep
<1>6. ASSUME NEW k \in Cic!Version, Cic!Update(w, k) \/ Cic!Delete(w, k)
      PROVE  WriterStep(w)
  <2> DEFINE h == Cic!Killed(k, w)
  <2>1. k \in 1 .. Len(heap) /\ heap[k].dead = NoOne
    BY <1>2, <1>6 DEF Cic!Update, Cic!Delete, Cic!Newest
  <2>2. h = [heap EXCEPT ![k] = [heap[k] EXCEPT !.dead = w]]
    BY DEF Cic!Killed
  <2>3. [heap[k] EXCEPT !.dead = w] \in TheVersion(Len(heap))
    <3>1. heap[k] \in TheVersion(Len(heap))
      BY <1>2, <2>1
    <3> QED BY <3>1 DEF TheVersion
  <2>4. /\ h \in Seq(TheVersion(Len(heap))) /\ Len(h) = Len(heap)
        /\ \A v \in 1 .. Len(heap) :
             h[v] = IF v = k THEN [heap[k] EXCEPT !.dead = w] ELSE heap[v]
    BY <1>2, <2>1, <2>2, <2>3, ExceptSeq
  <2>5. h[k].by = heap[k].by /\ h[k].root = heap[k].root /\ h[k].dead = w
    BY <1>2, <2>1, <2>4 DEF TheVersion
  <2>6. \A v \in 1 .. Len(heap) :
           /\ h[v].by = heap[v].by /\ h[v].root = heap[v].root
           /\ \/ h[v].dead = heap[v].dead
              \/ heap[v].dead = NoOne /\ h[v].dead = w
    BY <2>1, <2>4, <2>5
  <2> HIDE DEF h
  <2>7. CASE Cic!Delete(w, k)
    <3>1. heap' = h /\ entries' = entries
      BY <2>7 DEF Cic!Delete, h
    <3>2. /\ KeepsVersions(w) /\ Len(heap') = Len(heap)
          /\ heap' \in Seq(TheVersion(Len(heap')))
      BY <1>1, <2>4, <2>6, <3>1, HeapAfter
    <3> QED BY <1>4, <3>1, <3>2 DEF WriterStep
  <2>8. CASE Cic!Update(w, k)
    <3> DEFINE r == IF Cic!Hot(w) THEN heap[k].root ELSE n
    <3>1. Cic!AddVersion(w, h, r)
      BY <2>8 DEF Cic!Update, h
    <3>2. /\ heap' = Append(h, [by |-> w, dead |-> NoOne, root |-> r])
          /\ saw'[w] = "ready" /\ r = n =>
               entries' = entries \union {[v |-> n, root |-> n, src |-> "writer"]}
          /\ ~(saw'[w] = "ready" /\ r = n) => entries' = entries
      BY <3>1 DEF Cic!AddVersion
    <3>3. r \in 1 .. Len(heap) + 1
      BY <1>2, <2>1
    <3>4. /\ KeepsVersions(w) /\ Len(heap') = n
          /\ heap' \in Seq(TheVersion(Len(heap')))
          /\ heap'[n] = [by |-> w, dead |-> NoOne, root |-> r]
          /\ \A v \in 1 .. Len(heap) : heap'[v] = h[v]
      BY <1>1, <2>4, <2>6, <3>2, <3>3, HeapAfter
    <3>5. heap'[n].by = w /\ heap'[n].dead = NoOne /\ heap'[n].root = r
      BY <3>4
    <3>6. KeepsVersions(w) /\ heap' \in Seq(TheVersion(Len(heap')))
      BY <3>4
    <3>7. CASE Cic!Hot(w)
      <4>1. saw'[w] = "no index" /\ r = heap[k].root /\ entries' = entries
        BY <3>2, <3>7 DEF Cic!Hot
      <4>2. heap'[k].dead = w
        BY <2>1, <2>5, <3>4
      <4>3. AddsOne(w)
        BY <2>1, <3>4, <3>5, <4>1, <4>2 DEF AddsOne
      <4> QED BY <1>4, <3>6, <4>3 DEF WriterStep
    <3>8. CASE ~Cic!Hot(w)
      <4>1. AddsOne(w)
        BY <3>2, <3>4, <3>5, <3>8 DEF AddsOne
      <4> QED BY <1>4, <3>6, <4>1 DEF WriterStep
    <3> QED BY <3>7, <3>8
  <2> QED BY <1>6, <2>7, <2>8
<1> QED BY <1>5, <1>6

-------------------------------------------------------------------------------
(* The parts of the invariant under a step of a writer. *)
LEMMA WriterHeap ==
  ASSUME Cic!TypeOK, NEW w \in Writer, WriterStep(w)
  PROVE  /\ Len(heap) \in Nat /\ Len(heap') \in Nat /\ Len(heap) <= Len(heap')
         /\ Cic!Version = 1 .. Len(heap) /\ Cic!Version' = 1 .. Len(heap')
         /\ \A v \in 1 .. Len(heap) : v \in 1 .. Len(heap')
         /\ \A v \in 1 .. Len(heap') :
              /\ heap'[v].by \in Writer \union {Loaded}
              /\ heap'[v].dead \in Writer \union {NoOne}
              /\ heap'[v].root \in 1 .. Len(heap')
         /\ \A v \in 1 .. Len(heap') :
              v \notin 1 .. Len(heap) => v = Len(heap) + 1 /\ AddsOne(w)
         /\ entries \subseteq entries'
<1>1. Len(heap) \in Nat /\ Cic!Version = 1 .. Len(heap)
  BY HeapFacts
<1>2. heap' \in Seq(TheVersion(Len(heap')))
  BY DEF WriterStep
<1>3. /\ Len(heap') \in Nat
      /\ \A v \in 1 .. Len(heap') : heap'[v] \in TheVersion(Len(heap'))
  BY <1>2, LenProperties, ElementOfSeq
<1>4. \/ Len(heap') = Len(heap)
      \/ Len(heap') = Len(heap) + 1 /\ AddsOne(w)
  BY DEF WriterStep, AddsOne
<1>5. /\ Len(heap) <= Len(heap') /\ Cic!Version' = 1 .. Len(heap')
      /\ \A v \in 1 .. Len(heap) : v \in 1 .. Len(heap')
      /\ \A v \in 1 .. Len(heap') :
           v \notin 1 .. Len(heap) => v = Len(heap) + 1 /\ AddsOne(w)
  BY <1>1, <1>3, <1>4 DEF Cic!Version
<1>6. entries \subseteq entries'
  BY DEF WriterStep, AddsOne
<1>7. \A v \in 1 .. Len(heap') :
        /\ heap'[v].by \in Writer \union {Loaded}
        /\ heap'[v].dead \in Writer \union {NoOne}
        /\ heap'[v].root \in 1 .. Len(heap')
  BY <1>3 DEF TheVersion
<1> QED BY <1>1, <1>3, <1>5, <1>6, <1>7

(* The entries after the step: those there were, and one by the writer. *)
LEMMA WriterEntries ==
  ASSUME Cic!TypeOK, NEW w \in Writer, WriterStep(w)
  PROVE  LET n == Len(heap) + 1
         IN \A e \in entries' :
              \/ e \in entries /\ e.v \in 1 .. Len(heap) /\ e.root \in 1 .. Len(heap)
              \/ /\ e = [v |-> n, root |-> n, src |-> "writer"]
                 /\ e.v = n /\ e.root = n /\ e.src = "writer"
                 /\ AddsOne(w) /\ saw'[w] = "ready" /\ heap'[n].root = n
<1> DEFINE n == Len(heap) + 1
<1>1. \A e \in entries : e.v \in 1 .. Len(heap) /\ e.root \in 1 .. Len(heap)
  BY HeapFacts DEF Cic!TypeOK
<1>2. CASE entries' = entries
  BY <1>1, <1>2
<1>3. CASE entries' # entries
  <2>1. AddsOne(w)
    BY <1>3 DEF WriterStep
  <2>2. /\ saw'[w] = "ready" /\ heap'[n].root = n
        /\ entries' = entries \union {[v |-> n, root |-> n, src |-> "writer"]}
    BY <1>3, <2>1 DEF AddsOne
  <2> QED BY <1>1, <2>1, <2>2
<1> QED BY <1>2, <1>3

LEMMA WriterTypes ==
  ASSUME Cic!CicAssumption, Cic!TypeOK, NEW w \in Writer, WriterStep(w)
  PROVE  Cic!TypeOK'
<1>1. /\ Len(heap) \in Nat /\ Len(heap') \in Nat /\ Len(heap) <= Len(heap')
      /\ Cic!Version = 1 .. Len(heap) /\ Cic!Version' = 1 .. Len(heap')
  BY WriterHeap
<1>2. have' \subseteq Cic!Version'
  <2>1. have \subseteq Cic!Version /\ have' = have
    BY DEF WriterStep, Cic!TypeOK
  <2> QED BY <1>1, <2>1
<1>3. entries' \subseteq [v : Cic!Version', root : Cic!Version',
                          src : {"build", "writer", "validate"}]
  <2> DEFINE Entry(m) == [v : 1 .. m, root : 1 .. m, src : {"build", "writer", "validate"}]
  <2>1. entries \subseteq Entry(Len(heap)) /\ Entry(Len(heap)) \subseteq Entry(Len(heap'))
    <3>1. entries \subseteq Entry(Len(heap))
      BY <1>1, Zenon DEF Cic!TypeOK
    <3>2. 1 .. Len(heap) \subseteq 1 .. Len(heap')
      BY <1>1
    <3> QED BY <3>1, <3>2
  <2>2. ASSUME AddsOne(w)
        PROVE  [v |-> Len(heap) + 1, root |-> Len(heap) + 1, src |-> "writer"]
                 \in Entry(Len(heap'))
    <3>1. Len(heap') = Len(heap) + 1
      BY <2>2 DEF AddsOne
    <3>2. Len(heap) + 1 \in 1 .. Len(heap')
      BY <1>1, <3>1
    <3> QED BY <3>2
  <2>3. entries' = entries \/ AddsOne(w)
    BY DEF WriterStep
  <2>4. AddsOne(w) =>
          entries' \subseteq entries \union
            {[v |-> Len(heap) + 1, root |-> Len(heap) + 1, src |-> "writer"]}
    BY DEF AddsOne
  <2> QED BY <1>1, <2>1, <2>2, <2>3, <2>4
<1>4. heap' \in Seq([by : Writer \union {Loaded}, dead : Writer \union {NoOne},
                     root : Cic!Version'])
  BY <1>1 DEF WriterStep, TheVersion
<1>5. /\ saw' \in [Writer -> {"nothing", "no index", "entry", "ready"}]
      /\ xids' \in Seq(Writer)
  BY DEF WriterStep, Looks
<1>6. /\ stage' = stage /\ exists' = exists /\ ready' = ready /\ valid' = valid
      /\ lockers' = lockers /\ s1' = s1 /\ s2' = s2 /\ ended' = ended /\ snap' = snap
  BY DEF WriterStep
<1> QED BY <1>2, <1>3, <1>4, <1>5, <1>6 DEF Cic!TypeOK, Cic!Snapshot

(* What a writer that looks for the first time finds. *)
LEMMA WriterSees ==
  ASSUME Cic!TypeOK, FlagsFollow, NEW w \in Writer, WriterStep(w)
  PROVE  /\ stage \in Chained /\ saw'[w] = "no index" => saw[w] = "no index"
         /\ stage \in Filled /\ saw'[w] \in {"no index", "entry"} => saw'[w] = saw[w]
         /\ stage = "wait1" /\ saw'[w] = "no index" => saw[w] = "no index"
         /\ ~ready => saw'[w] # "ready"
<1>1. /\ saw[w] = "nothing" =>
           saw'[w] = IF ready THEN "ready" ELSE IF exists THEN "entry" ELSE "no index"
      /\ saw[w] # "nothing" => saw'[w] = saw[w]
  BY DEF WriterStep, Looks
<1>2. /\ stage # "idle" => exists
      /\ stage \in Filled => ready
      /\ ~ready => saw[w] # "ready"
  BY DEF FlagsFollow
<1> QED BY <1>1, <1>2 DEF Chained, Filled

LEMMA WriterFlags ==
  ASSUME Cic!TypeOK, FlagsFollow, NEW w \in Writer, WriterStep(w)
  PROVE  FlagsFollow'
<1>1. /\ stage' = stage /\ exists' = exists /\ ready' = ready /\ valid' = valid
      /\ \A x \in Writer : x # w => saw'[x] = saw[x]
  BY DEF WriterStep, Looks
<1>2. ~ready => entries' = {} /\ \A x \in Writer : saw'[x] # "ready"
  <2>1. ~ready => saw'[w] # "ready"
    BY WriterSees
  <2>2. ~ready /\ AddsOne(w) => entries' = entries
    BY <2>1 DEF AddsOne
  <2>3. ~ready => entries' = entries
    BY <2>2 DEF WriterStep
  <2> QED BY <1>1, <2>1, <2>3 DEF FlagsFollow
<1> QED BY <1>1, <1>2 DEF FlagsFollow, Filled

LEMMA WriterLooked ==
  ASSUME Cic!TypeOK, WritersLooked, NEW w \in Writer, WriterStep(w)
  PROVE  WritersLooked'
<1>1. /\ ended' = ended /\ saw'[w] # "nothing"
      /\ \A x \in Writer : x # w => saw'[x] = saw[x]
  BY DEF WriterStep, Looks
<1>2. ASSUME NEW v \in 1 .. Len(heap'), heap'[v].by \in Writer
      PROVE  saw'[heap'[v].by] # "nothing"
  <2>1. CASE v \in 1 .. Len(heap)
    <3>1. heap'[v].by = heap[v].by
      BY <2>1 DEF WriterStep, KeepsVersions
    <3>2. saw[heap[v].by] # "nothing"
      BY <1>2, <2>1, <3>1, HeapFacts DEF WritersLooked
    <3> QED BY <1>1, <1>2, <3>1, <3>2
  <2>2. CASE v \notin 1 .. Len(heap)
    <3>1. heap'[v].by = w
      BY <2>2, WriterHeap DEF AddsOne
    <3> QED BY <1>1, <3>1
  <2> QED BY <2>1, <2>2
<1>3. \A x \in Writer \intersect ended' : saw'[x] # "nothing"
  BY <1>1 DEF WritersLooked
<1> QED BY <1>2, <1>3, WriterHeap DEF WritersLooked

LEMMA WriterChains ==
  ASSUME Cic!CicAssumption, Cic!TypeOK, ChainsByUnaware, NEW w \in Writer, WriterStep(w)
  PROVE  ChainsByUnaware'
<1>1. \A x \in Writer : saw[x] = "no index" => saw'[x] = "no index"
  BY DEF WriterStep, Looks
<1>2. NoOne \notin Writer
  BY DEF Cic!CicAssumption
<1>3. SUFFICES ASSUME NEW u \in 1 .. Len(heap'), NEW v \in 1 .. Len(heap'),
                      heap'[u].root = heap'[v].root, u < v
               PROVE  heap'[u].dead \in Writer /\ saw'[heap'[u].dead] = "no index"
  BY WriterHeap DEF ChainsByUnaware
<1>4. u \in 1 .. Len(heap)
  BY <1>3, WriterHeap
<1>5. /\ heap'[u].root = heap[u].root /\ heap[u].root \in 1 .. Len(heap)
      /\ \/ heap'[u].dead = heap[u].dead
         \/ heap[u].dead = NoOne /\ heap'[u].dead = w
  BY <1>4, HeapFacts DEF WriterStep, KeepsVersions
<1>6. ASSUME heap[u].dead \in Writer, saw[heap[u].dead] = "no index"
      PROVE  heap'[u].dead \in Writer /\ saw'[heap'[u].dead] = "no index"
  BY <1>1, <1>2, <1>5, <1>6
<1>7. CASE v \in 1 .. Len(heap)
  <2>1. heap'[v].root = heap[v].root
    BY <1>7 DEF WriterStep, KeepsVersions
  <2>2. heap[u].dead \in Writer /\ saw[heap[u].dead] = "no index"
    BY <1>3, <1>4, <1>5, <1>7, <2>1, HeapFacts DEF ChainsByUnaware
  <2> QED BY <1>6, <2>2
<1>8. CASE v \notin 1 .. Len(heap)
  <2>1. v = Len(heap) + 1 /\ AddsOne(w) /\ Len(heap) \in Nat
    BY <1>8, WriterHeap
  <2>2. heap'[v].root # v
    BY <1>3, <1>5, <2>1
  <2>3. PICK k \in 1 .. Len(heap) : /\ heap[k].dead = NoOne /\ heap'[k].dead = w
                                    /\ heap'[v].root = heap[k].root
                                    /\ saw'[w] = "no index"
    BY <2>1, <2>2 DEF AddsOne
  <2>4. CASE u = k
    BY <2>3, <2>4
  <2>5. CASE u < k
    <3>1. heap[u].dead \in Writer /\ saw[heap[u].dead] = "no index"
      BY <1>3, <1>4, <1>5, <2>3, <2>5, HeapFacts DEF ChainsByUnaware
    <3> QED BY <1>6, <3>1
  <2>6. CASE k < u
    <3>1. heap[k].dead \in Writer
      BY <1>3, <1>4, <1>5, <2>3, <2>6, HeapFacts DEF ChainsByUnaware
    <3> QED BY <1>2, <2>3, <3>1
  <2>7. u = k \/ u < k \/ k < u
    BY <1>4, <2>1
  <2> QED BY <2>4, <2>5, <2>6, <2>7
<1> QED BY <1>7, <1>8

LEMMA WriterWaited ==
  ASSUME Cic!CicAssumption, Cic!TypeOK, FlagsFollow, Waited, NEW w \in Writer,
         WriterStep(w)
  PROVE  Waited'
<1>1. /\ stage' = stage /\ lockers' = lockers /\ s1' = s1 /\ s2' = s2
      /\ ended' = ended /\ w \notin ended
      /\ \A x \in Writer : x # w \/ saw[x] # "nothing" => saw'[x] = saw[x]
  BY DEF WriterStep, Looks
<1>2. s1.seen \subseteq ended /\ s2.seen \subseteq ended
  BY DEF Waited
<1>3. \A x \in Writer : x \in s1.seen => saw'[x] # "ready"
  <2>1. \A x \in Writer : x \in s1.seen => x # w /\ saw[x] # "ready"
    BY <1>1, <1>2 DEF Waited
  <2> QED BY <1>1, <2>1
<1>4. ASSUME NEW x \in Writer, saw'[x] = "no index"
      PROVE  /\ stage = "wait1" => x \in lockers \union ended
             /\ stage \in Chained => x \in s1.seen
  <2>1. stage = "wait1" \/ stage \in Chained => saw[x] = "no index"
    BY <1>1, <1>4, WriterSees
  <2> QED BY <2>1 DEF Waited
<1>5. ASSUME NEW x \in Writer, saw'[x] \in {"no index", "entry"}
      PROVE  /\ stage = "wait2" => x \in lockers \union ended
             /\ stage \in Caught => x \in s2.seen
  <2>1. stage = "wait2" \/ stage \in Caught => stage \in Filled
    BY DEF Caught, Filled
  <2>2. stage \in Filled => saw[x] = saw'[x]
    BY <1>1, <1>5, WriterSees
  <2> QED BY <1>5, <2>1, <2>2 DEF Waited
<1>6. stage \in Caught => s1.seen \subseteq s2.seen
  BY DEF Waited
<1> QED BY <1>1, <1>2, <1>3, <1>4, <1>5, <1>6 DEF Waited, Chained, Caught

LEMMA WriterFits ==
  ASSUME Cic!CicAssumption, Cic!TypeOK, WritersLooked, Waited, EntriesFit,
         NEW w \in Writer, WriterStep(w)
  PROVE  EntriesFit'
<1> DEFINE n == Len(heap) + 1
<1>1. /\ s1' = s1 /\ ended' = ended /\ w \notin ended /\ w \notin s1.seen
      /\ NoOne \notin s1.seen
      /\ \A x \in Writer : x # w \/ saw[x] # "nothing" => saw'[x] = saw[x]
  <2>1. s1.seen \subseteq Writer \union Reader
    BY DEF Cic!TypeOK, Cic!Snapshot
  <2>2. s1.seen \subseteq ended
    BY DEF Waited
  <2> QED BY <2>1, <2>2 DEF WriterStep, Looks, Cic!CicAssumption
<1>2. \A v \in 1 .. Len(heap) :
        /\ heap'[v].by = heap[v].by /\ heap'[v].root = heap[v].root
        /\ \/ heap'[v].dead = heap[v].dead
           \/ heap[v].dead = NoOne /\ heap'[v].dead = w
        /\ heap[v].by \in Writer => saw'[heap[v].by] = saw[heap[v].by]
  BY <1>1, HeapFacts DEF WriterStep, KeepsVersions, WritersLooked
<1>3. ASSUME NEW e \in entries'
      PROVE  /\ heap'[e.v].root = e.root
             /\ heap'[e.v].dead \notin s1.seen
             /\ e.src = "build"  => heap'[e.v].by \in s1.seen \union {Loaded}
             /\ e.src = "writer" => heap'[e.v].by \in Writer /\ saw'[heap'[e.v].by] = "ready"
  <2>1. CASE e \in entries
    <3>1. e.v \in 1 .. Len(heap)
      BY <2>1, HeapFacts DEF Cic!TypeOK
    <3>2. /\ heap[e.v].root = e.root
          /\ heap[e.v].dead \notin s1.seen
          /\ e.src = "build"  => heap[e.v].by \in s1.seen \union {Loaded}
          /\ e.src = "writer" => heap[e.v].by \in Writer /\ saw[heap[e.v].by] = "ready"
      BY <2>1 DEF EntriesFit
    <3> QED BY <1>1, <1>2, <3>1, <3>2
  <2>2. CASE e \notin entries
    <3>1. /\ e.v = n /\ e.root = n /\ e.src = "writer" /\ saw'[w] = "ready"
          /\ AddsOne(w) /\ heap'[n].root = n
      BY <1>3, <2>2, WriterEntries
    <3>2. heap'[n].by = w /\ heap'[n].dead = NoOne
      BY <3>1 DEF AddsOne
    <3> QED BY <1>1, <3>1, <3>2
  <2> QED BY <2>1, <2>2
<1>4. ASSUME NEW e \in entries', NEW f \in entries', e.v = f.v
      PROVE  e = f
  <2>1. n \notin 1 .. Len(heap)
    BY HeapFacts
  <2>2. CASE e \in entries /\ f \in entries
    BY <1>4, <2>2 DEF EntriesFit
  <2>3. CASE ~(e \in entries /\ f \in entries)
    <3>1. e \notin entries => e = [v |-> n, root |-> n, src |-> "writer"] /\ e.v = n
      BY WriterEntries
    <3>2. f \notin entries => f = [v |-> n, root |-> n, src |-> "writer"] /\ f.v = n
      BY WriterEntries
    <3>3. /\ e \in entries => e.v \in 1 .. Len(heap)
          /\ f \in entries => f.v \in 1 .. Len(heap)
      BY HeapFacts DEF Cic!TypeOK
    <3> QED BY <1>4, <2>1, <2>3, <3>1, <3>2, <3>3
  <2> QED BY <2>2, <2>3
<1>5. ASSUME NEW v \in 1 .. Len(heap'), heap'[v].by \in Writer, saw'[heap'[v].by] = "ready"
      PROVE  \E e \in entries' : e.v = v
  <2>1. CASE v \in 1 .. Len(heap)
    <3>1. heap[v].by \in Writer /\ saw[heap[v].by] = "ready"
      BY <1>2, <1>5, <2>1
    <3>2. \E e \in entries : e.v = v
      BY <2>1, <3>1, HeapFacts DEF EntriesFit, Cic!Indexed
    <3> QED BY <3>2, WriterHeap
  <2>2. CASE v \notin 1 .. Len(heap)
    <3>1. v = n /\ AddsOne(w)
      BY <2>2, WriterHeap
    <3>2. saw'[w] = "ready"
      BY <1>5, <3>1 DEF AddsOne
    <3>3. [v |-> n, root |-> n, src |-> "writer"] \in entries'
      BY <3>1, <3>2 DEF AddsOne
    <3> QED BY <3>1, <3>3
  <2> QED BY <2>1, <2>2
<1> QED BY <1>1, <1>3, <1>4, <1>5, WriterHeap DEF EntriesFit, Cic!Indexed

LEMMA WriterSince ==
  ASSUME Cic!TypeOK, Waited, SinceSnapshot, NEW w \in Writer, WriterStep(w)
  PROVE  SinceSnapshot'
<1>1. /\ stage' = stage /\ have' = have /\ s2' = s2 /\ w \notin ended
      /\ entries \subseteq entries'
  BY WriterHeap DEF WriterStep
<1>2. SUFFICES ASSUME stage = "validating"
               PROVE  /\ \A h \in have : \E e \in entries' : e.root = h
                      /\ \A e \in entries' : e.root \notin have =>
                           e.src = "writer" /\ heap'[e.v].by \notin s2.seen
  BY <1>1 DEF SinceSnapshot
<1>3. \A h \in have : \E e \in entries' : e.root = h
  BY <1>1, <1>2 DEF SinceSnapshot
<1>4. ASSUME NEW e \in entries', e.root \notin have
      PROVE  e.src = "writer" /\ heap'[e.v].by \notin s2.seen
  <2>1. CASE e \in entries
    <3>1. e.v \in 1 .. Len(heap)
      BY <2>1, HeapFacts DEF Cic!TypeOK
    <3>2. heap'[e.v].by = heap[e.v].by
      BY <3>1 DEF WriterStep, KeepsVersions
    <3> QED BY <1>2, <1>4, <2>1, <3>2 DEF SinceSnapshot
  <2>2. CASE e \notin entries
    <3>1. e.v = Len(heap) + 1 /\ e.src = "writer" /\ AddsOne(w)
      BY <2>2, WriterEntries
    <3>2. heap'[e.v].by = w
      BY <3>1 DEF AddsOne
    <3>3. w \notin s2.seen
      BY <1>1 DEF Waited
    <3> QED BY <3>1, <3>2, <3>3
  <2> QED BY <2>1, <2>2
<1> QED BY <1>3, <1>4

LEMMA WriterUnindexed ==
  ASSUME Cic!CicAssumption, Cic!TypeOK, FlagsFollow, Waited, UnindexedAreOver,
         NEW w \in Writer, WriterStep(w)
  PROVE  UnindexedAreOver'
<1>1. /\ stage' = stage /\ s2' = s2 /\ w \notin s2.seen /\ NoOne \notin s2.seen
      /\ entries \subseteq entries'
  <2>1. s2.seen \subseteq Writer \union Reader
    BY DEF Cic!TypeOK, Cic!Snapshot
  <2>2. s2.seen \subseteq ended
    BY DEF Waited
  <2> QED BY <2>1, <2>2, WriterHeap DEF WriterStep, Cic!CicAssumption
<1>2. SUFFICES ASSUME stage \in Complete, NEW v \in 1 .. Len(heap')
               PROVE  (\E e \in entries' : e.v = v) \/ heap'[v].dead \in s2.seen
  BY <1>1, WriterHeap DEF UnindexedAreOver, Complete, Cic!Indexed
<1>3. CASE v \in 1 .. Len(heap)
  <2>1. (\E e \in entries : e.v = v) \/ heap[v].dead \in s2.seen
    BY <1>2, <1>3, HeapFacts DEF UnindexedAreOver, Cic!Indexed
  <2>2. heap'[v].dead = heap[v].dead \/ heap[v].dead = NoOne
    BY <1>3 DEF WriterStep, KeepsVersions
  <2> QED BY <1>1, <2>1, <2>2
<1>4. CASE v \notin 1 .. Len(heap)
  <2>1. v = Len(heap) + 1 /\ AddsOne(w)
    BY <1>4, WriterHeap
  <2>2. saw'[w] = "ready"
    <3>1. saw'[w] \in {"no index", "entry", "ready"}
      BY DEF WriterStep, Looks
    <3>2. saw'[w] # "ready" => saw[w] \in {"no index", "entry"}
      BY <1>2, <3>1, WriterSees DEF Complete, Filled
    <3>3. saw[w] \in {"no index", "entry"} => w \in s2.seen
      BY <1>2 DEF Waited, Complete, Caught
    <3> QED BY <1>1, <3>2, <3>3
  <2>3. [v |-> v, root |-> v, src |-> "writer"] \in entries'
    <3>1. heap'[v].root = v
      BY <2>1, <2>2 DEF AddsOne
    <3> QED BY <2>1, <2>2, <3>1 DEF AddsOne
  <2> QED BY <2>3
<1> QED BY <1>3, <1>4

LEMMA WriterOld ==
  ASSUME Cic!TypeOK, OldOnesWaitedFor, NEW w \in Writer, WriterStep(w)
  PROVE  OldOnesWaitedFor'
<1>1. /\ stage' = stage /\ lockers' = lockers /\ s2' = s2 /\ ended' = ended
      /\ snap' = snap
  BY DEF WriterStep
<1>2. Cic!Xmin \in Nat /\ Cic!Xmin' \in Nat /\ Cic!Xmin <= Cic!Xmin'
  BY <1>1, XminMonotone DEF Cic!TypeOK, WriterStep, Looks
<1>3. \A r \in Reader : snap[r].xmin \in Nat
  BY DEF Cic!TypeOK, Cic!Snapshot
<1>4. \A r \in Reader : snap[r].xmin <= Cic!Xmin'
  BY <1>2, <1>3 DEF OldOnesWaitedFor
<1> QED BY <1>1, <1>4 DEF OldOnesWaitedFor, Cic!NoSnapshot, Caught

LEMMA WriterKeeps ==
  ASSUME Cic!CicAssumption, CicInv, NEW w \in Writer, WriterStep(w)
  PROVE  CicInv'
BY WriterTypes, WriterFlags, WriterLooked, WriterChains, WriterWaited, WriterFits,
   WriterSince, WriterUnindexed, WriterOld DEF CicInv

-------------------------------------------------------------------------------
(* The steps of the build that leave the index and its snapshots alone. *)
Stages == {"idle", "created", "wait1", "building", "built", "wait2",
           "validating", "validated", "wait3", "valid", "failed"}

LEMMA TableAlone ==
  ASSUME CicInv, UNCHANGED <<heap, saw, xids, ended, snap>>
  PROVE  WritersLooked' /\ ChainsByUnaware' /\ Cic!Xmin' = Cic!Xmin
         /\ Cic!Version' = Cic!Version
<1>1. Cic!Xmin' = Cic!Xmin /\ Cic!Version' = Cic!Version
  BY DEF Cic!Xmin, Cic!Version
<1>2. WritersLooked'
  BY <1>1 DEF CicInv, WritersLooked
<1>3. ChainsByUnaware'
  BY <1>1 DEF CicInv, ChainsByUnaware
<1> QED BY <1>1, <1>2, <1>3

LEMMA IndexAlone ==
  ASSUME CicInv,
         UNCHANGED <<heap, saw, xids, ended, snap, s1, s2, have, entries>>,
         stage' \in Stages, {exists', ready', valid'} \subseteq BOOLEAN,
         lockers' \subseteq Writer \union Reader
  PROVE  Cic!TypeOK' /\ EntriesFit'
<1>1. Cic!Version' = Cic!Version
  BY DEF Cic!Version
<1>2. Cic!TypeOK'
  BY <1>1 DEF CicInv, Cic!TypeOK, Cic!Snapshot, Stages
<1>3. EntriesFit'
  BY <1>1 DEF CicInv, EntriesFit, Cic!Indexed
<1> QED BY <1>2, <1>3

LEMMA CommitCreateKeeps == CicInv /\ Cic!CommitCreate => CicInv'
<1> SUFFICES ASSUME CicInv, Cic!CommitCreate PROVE CicInv'
  OBVIOUS
<1>1. /\ stage = "idle" /\ stage' = "created" /\ exists' = TRUE
      /\ UNCHANGED <<ready, valid, lockers, s1, s2, have, entries, heap, saw, xids,
                     ended, snap>>
  BY DEF Cic!CommitCreate, Cic!Cic, Cic!txnVars
<1>2. Cic!TypeOK /\ FlagsFollow /\ Waited /\ OldOnesWaitedFor
  BY DEF CicInv
<1>3. {exists', ready', valid'} \subseteq BOOLEAN /\ lockers' \subseteq Writer \union Reader
  BY <1>1, <1>2 DEF Cic!TypeOK
<1>4. Cic!TypeOK' /\ EntriesFit'
  BY <1>1, <1>3, IndexAlone DEF Stages
<1>5. WritersLooked' /\ ChainsByUnaware' /\ Cic!Xmin' = Cic!Xmin
  BY <1>1, TableAlone
<1>6. FlagsFollow'
  BY <1>1, <1>2 DEF FlagsFollow, Filled
<1>7. Waited'
  BY <1>1, <1>2 DEF Waited, Chained, Caught
<1>8. SinceSnapshot' /\ UnindexedAreOver'
  BY <1>1 DEF SinceSnapshot, UnindexedAreOver, Complete
<1>9. OldOnesWaitedFor'
  BY <1>1, <1>2, <1>5 DEF OldOnesWaitedFor, Caught
<1> QED BY <1>4, <1>5, <1>6, <1>7, <1>8, <1>9 DEF CicInv

LEMMA Wait1Keeps == CicInv /\ Cic!Wait1 => CicInv'
<1> SUFFICES ASSUME CicInv, Cic!Wait1 PROVE CicInv'
  OBVIOUS
<1>1. /\ stage = "created" /\ stage' = "wait1" /\ lockers' = Cic!Running
      /\ UNCHANGED <<exists, ready, valid, s1, s2, have, entries, heap, saw, xids,
                     ended, snap>>
  BY DEF Cic!Wait1, Cic!WaitBegins, Cic!Cic, Cic!txnVars, Cic!WritersToWaitFor
<1>2. Cic!TypeOK /\ FlagsFollow /\ Waited /\ OldOnesWaitedFor
  BY DEF CicInv
<1>3. {exists', ready', valid'} \subseteq BOOLEAN /\ lockers' \subseteq Writer \union Reader
  BY <1>1, <1>2 DEF Cic!TypeOK, Cic!Running
<1>4. Cic!TypeOK' /\ EntriesFit'
  BY <1>1, <1>3, IndexAlone DEF Stages
<1>5. WritersLooked' /\ ChainsByUnaware' /\ Cic!Xmin' = Cic!Xmin
  BY <1>1, TableAlone
<1>6. FlagsFollow'
  BY <1>1, <1>2 DEF FlagsFollow, Filled
<1>7. Waited'
  <2>1. \A w \in Writer : saw[w] = "no index" => w \in lockers' \union ended
    BY <1>1 DEF Cic!Running
  <2> QED BY <1>1, <1>2, <2>1 DEF Waited, Chained, Caught
<1>8. SinceSnapshot' /\ UnindexedAreOver'
  BY <1>1 DEF SinceSnapshot, UnindexedAreOver, Complete
<1>9. OldOnesWaitedFor'
  BY <1>1, <1>2, <1>5 DEF OldOnesWaitedFor, Caught
<1> QED BY <1>4, <1>5, <1>6, <1>7, <1>8, <1>9 DEF CicInv

LEMMA Wait2Keeps == CicInv /\ Cic!Wait2 => CicInv'
<1> SUFFICES ASSUME CicInv, Cic!Wait2 PROVE CicInv'
  OBVIOUS
<1>1. /\ stage = "built" /\ stage' = "wait2" /\ lockers' = Cic!Running
      /\ UNCHANGED <<exists, ready, valid, s1, s2, have, entries, heap, saw, xids,
                     ended, snap>>
  BY DEF Cic!Wait2, Cic!WaitBegins, Cic!Cic, Cic!txnVars, Cic!WritersToWaitFor
<1>2. Cic!TypeOK /\ FlagsFollow /\ Waited /\ OldOnesWaitedFor
  BY DEF CicInv
<1>3. {exists', ready', valid'} \subseteq BOOLEAN /\ lockers' \subseteq Writer \union Reader
  BY <1>1, <1>2 DEF Cic!TypeOK, Cic!Running
<1>4. Cic!TypeOK' /\ EntriesFit'
  BY <1>1, <1>3, IndexAlone DEF Stages
<1>5. WritersLooked' /\ ChainsByUnaware' /\ Cic!Xmin' = Cic!Xmin
  BY <1>1, TableAlone
<1>6. FlagsFollow'
  BY <1>1, <1>2 DEF FlagsFollow, Filled
<1>7. Waited'
  <2>1. \A w \in Writer : saw[w] \in {"no index", "entry"} => w \in lockers' \union ended
    BY <1>1 DEF Cic!Running
  <2> QED BY <1>1, <1>2, <2>1 DEF Waited, Chained, Caught
<1>8. SinceSnapshot' /\ UnindexedAreOver'
  BY <1>1 DEF SinceSnapshot, UnindexedAreOver, Complete
<1>9. OldOnesWaitedFor'
  BY <1>1, <1>2, <1>5 DEF OldOnesWaitedFor, Caught
<1> QED BY <1>4, <1>5, <1>6, <1>7, <1>8, <1>9 DEF CicInv

LEMMA Wait3Keeps == CicInv /\ Cic!Wait3 => CicInv'
<1> SUFFICES ASSUME CicInv, Cic!Wait3 PROVE CicInv'
  OBVIOUS
<1>1. /\ stage = "validated" /\ stage' = "wait3" /\ lockers' = Cic!ReadersToWaitFor
      /\ UNCHANGED <<exists, ready, valid, s1, s2, have, entries, heap, saw, xids,
                     ended, snap>>
  BY DEF Cic!Wait3, Cic!WaitBegins, Cic!Cic, Cic!txnVars
<1>2. Cic!TypeOK /\ FlagsFollow /\ Waited /\ OldOnesWaitedFor /\ UnindexedAreOver
  BY DEF CicInv
<1>3. {exists', ready', valid'} \subseteq BOOLEAN /\ lockers' \subseteq Writer \union Reader
  BY <1>1, <1>2 DEF Cic!TypeOK, Cic!ReadersToWaitFor
<1>4. Cic!TypeOK' /\ EntriesFit'
  BY <1>1, <1>3, IndexAlone DEF Stages
<1>5. /\ WritersLooked' /\ ChainsByUnaware' /\ Cic!Xmin' = Cic!Xmin
      /\ Cic!Version' = Cic!Version
  BY <1>1, TableAlone
<1>6. FlagsFollow'
  BY <1>1, <1>2 DEF FlagsFollow, Filled
<1>7. Waited'
  BY <1>1, <1>2 DEF Waited, Chained, Caught
<1>8. SinceSnapshot' /\ UnindexedAreOver'
  BY <1>1, <1>2, <1>5 DEF SinceSnapshot, UnindexedAreOver, Complete, Cic!Indexed
<1>9. OldOnesWaitedFor'
  <2>1. \A r \in Reader \ ended : snap[r] # Cic!NoSnapshot =>
           s2.seen \subseteq snap[r].seen \/ r \in lockers'
    BY <1>1, <1>2 DEF OldOnesWaitedFor, Caught, Cic!ReadersToWaitFor
  <2> QED BY <1>1, <1>2, <1>5, <2>1 DEF OldOnesWaitedFor, Caught, Cic!NoSnapshot
<1> QED BY <1>4, <1>5, <1>6, <1>7, <1>8, <1>9 DEF CicInv

LEMMA CommitValidKeeps == CicInv /\ Cic!CommitValid => CicInv'
<1> SUFFICES ASSUME CicInv, Cic!CommitValid PROVE CicInv'
  OBVIOUS
<1>1. /\ stage = "wait3" /\ stage' = "valid" /\ valid' = TRUE /\ lockers \subseteq ended
      /\ UNCHANGED <<exists, ready, lockers, s1, s2, have, entries, heap, saw, xids,
                     ended, snap>>
  BY DEF Cic!CommitValid, Cic!WaitOver, Cic!Cic, Cic!txnVars
<1>2. Cic!TypeOK /\ FlagsFollow /\ Waited /\ OldOnesWaitedFor /\ UnindexedAreOver
  BY DEF CicInv
<1>3. {exists', ready', valid'} \subseteq BOOLEAN /\ lockers' \subseteq Writer \union Reader
  BY <1>1, <1>2 DEF Cic!TypeOK
<1>4. Cic!TypeOK' /\ EntriesFit'
  BY <1>1, <1>3, IndexAlone DEF Stages
<1>5. /\ WritersLooked' /\ ChainsByUnaware' /\ Cic!Xmin' = Cic!Xmin
      /\ Cic!Version' = Cic!Version
  BY <1>1, TableAlone
<1>6. FlagsFollow'
  BY <1>1, <1>2 DEF FlagsFollow, Filled
<1>7. Waited'
  BY <1>1, <1>2 DEF Waited, Chained, Caught
<1>8. SinceSnapshot' /\ UnindexedAreOver'
  BY <1>1, <1>2, <1>5 DEF SinceSnapshot, UnindexedAreOver, Complete, Cic!Indexed
<1>9. OldOnesWaitedFor'
  <2>1. \A r \in Reader \ ended : snap[r] # Cic!NoSnapshot => s2.seen \subseteq snap[r].seen
    BY <1>1, <1>2 DEF OldOnesWaitedFor, Caught
  <2> QED BY <1>1, <1>2, <1>5, <2>1 DEF OldOnesWaitedFor, Caught, Cic!NoSnapshot
<1> QED BY <1>4, <1>5, <1>6, <1>7, <1>8, <1>9 DEF CicInv

LEMMA CancelKeeps == CicInv /\ Cic!Cancel => CicInv'
<1> SUFFICES ASSUME CicInv, Cic!Cancel PROVE CicInv'
  OBVIOUS
<1>1. /\ stage \notin {"idle", "valid", "failed"} /\ stage' = "failed"
      /\ UNCHANGED <<exists, ready, valid, lockers, s1, s2, have, entries, heap, saw,
                     xids, ended, snap>>
  BY DEF Cic!Cancel, Cic!txnVars
<1>2. Cic!TypeOK /\ FlagsFollow /\ Waited /\ OldOnesWaitedFor
  BY DEF CicInv
<1>3. {exists', ready', valid'} \subseteq BOOLEAN /\ lockers' \subseteq Writer \union Reader
  BY <1>1, <1>2 DEF Cic!TypeOK
<1>4. Cic!TypeOK' /\ EntriesFit'
  BY <1>1, <1>3, IndexAlone DEF Stages
<1>5. WritersLooked' /\ ChainsByUnaware' /\ Cic!Xmin' = Cic!Xmin
  BY <1>1, TableAlone
<1>6. FlagsFollow'
  BY <1>1, <1>2 DEF FlagsFollow, Filled
<1>7. Waited'
  BY <1>1, <1>2 DEF Waited, Chained, Caught
<1>8. SinceSnapshot' /\ UnindexedAreOver'
  BY <1>1 DEF SinceSnapshot, UnindexedAreOver, Complete
<1>9. OldOnesWaitedFor'
  BY <1>1, <1>2, <1>5 DEF OldOnesWaitedFor, Caught
<1> QED BY <1>4, <1>5, <1>6, <1>7, <1>8, <1>9 DEF CicInv

-------------------------------------------------------------------------------
(* A snapshot of now is one. *)
LEMMA NowIsSnapshot ==
  ASSUME Cic!TypeOK
  PROVE  Cic!Now \in Cic!Snapshot /\ Cic!Now.seen = ended /\ Cic!Now.xmin = Cic!Xmin
         /\ Cic!Xmin \in Nat
<1>1. Cic!Xmin = Oldest(xids, ended)
  BY DEF Cic!Xmin, Oldest
<1>2. xids \in Seq(Writer) /\ ended \subseteq Writer \union Reader
  BY DEF Cic!TypeOK
<1>3. Cic!Xmin \in 1 .. Len(xids) + 1 /\ Len(xids) \in Nat
  BY <1>1, <1>2, OldestMeaning, LenProperties
<1>4. Cic!Xmin \in Nat
  BY <1>3
<1> QED BY <1>2, <1>4 DEF Cic!Now, Cic!Snapshot

LEMMA EndKeeps ==
  ASSUME Cic!CicAssumption, CicInv, NEW t \in Writer \union Reader, Cic!End(t)
  PROVE  CicInv'
<1>1. /\ t \in Writer => t \in Reader \/ saw[t] # "nothing"
      /\ ended' = ended \union {t}
      /\ UNCHANGED <<stage, exists, ready, valid, lockers, s1, s2, have, entries, heap,
                     saw, xids, snap>>
  BY DEF Cic!End, Cic!cicVars, Cic!Running
<1>2. /\ Cic!TypeOK /\ FlagsFollow /\ WritersLooked /\ ChainsByUnaware /\ Waited
      /\ EntriesFit /\ SinceSnapshot /\ UnindexedAreOver /\ OldOnesWaitedFor
  BY DEF CicInv
<1>3. Cic!Version' = Cic!Version
  BY <1>1 DEF Cic!Version
<1>4. Cic!TypeOK'
  BY <1>1, <1>2, <1>3 DEF Cic!TypeOK, Cic!Snapshot
<1>5. FlagsFollow'
  BY <1>1, <1>2 DEF FlagsFollow
<1>6. WritersLooked'
  <2>1. \A x \in Writer \intersect ended' : saw[x] # "nothing"
    BY <1>1, <1>2 DEF WritersLooked, Cic!CicAssumption
  <2> QED BY <1>1, <1>2, <1>3, <2>1 DEF WritersLooked
<1>7. ChainsByUnaware'
  BY <1>1, <1>2, <1>3 DEF ChainsByUnaware
<1>8. Waited'
  BY <1>1, <1>2 DEF Waited
<1>9. EntriesFit' /\ SinceSnapshot' /\ UnindexedAreOver'
  BY <1>1, <1>2, <1>3 DEF EntriesFit, SinceSnapshot, UnindexedAreOver, Cic!Indexed
<1>10. OldOnesWaitedFor'
  <2>1. xids \in Seq(Writer) /\ Len(xids) \in Nat
    BY <1>2, LenProperties DEF Cic!TypeOK
  <2>2. Cic!Xmin \in Nat /\ Cic!Xmin' \in Nat /\ Cic!Xmin <= Cic!Xmin'
    BY <1>1, <2>1, XminMonotone
  <2>3. \A r \in Reader : snap[r].xmin \in Nat
    BY <1>2 DEF Cic!TypeOK, Cic!Snapshot
  <2>4. \A r \in Reader : snap[r].xmin <= Cic!Xmin'
    BY <1>2, <2>2, <2>3 DEF OldOnesWaitedFor
  <2> QED BY <1>1, <1>2, <2>4 DEF OldOnesWaitedFor, Cic!NoSnapshot
<1> QED BY <1>4, <1>5, <1>6, <1>7, <1>8, <1>9, <1>10 DEF CicInv

LEMMA TakeSnapshotKeeps ==
  ASSUME CicInv, NEW r \in Reader, Cic!TakeSnapshot(r)
  PROVE  CicInv'
<1>1. /\ snap' = [snap EXCEPT ![r] = Cic!Now]
      /\ UNCHANGED <<stage, exists, ready, valid, lockers, s1, s2, have, entries, heap,
                     saw, xids, ended>>
  BY DEF Cic!TakeSnapshot, Cic!cicVars
<1>2. /\ Cic!TypeOK /\ FlagsFollow /\ WritersLooked /\ ChainsByUnaware /\ Waited
      /\ EntriesFit /\ SinceSnapshot /\ UnindexedAreOver /\ OldOnesWaitedFor
  BY DEF CicInv
<1>3. Cic!Version' = Cic!Version /\ Cic!Xmin' = Cic!Xmin
  BY <1>1 DEF Cic!Version, Cic!Xmin
<1>4. /\ Cic!Now \in Cic!Snapshot /\ Cic!Now.seen = ended /\ Cic!Now.xmin = Cic!Xmin
      /\ Cic!Xmin \in Nat
  BY <1>2, NowIsSnapshot
<1>5. /\ snap \in [Reader -> Cic!Snapshot] /\ snap' \in [Reader -> Cic!Snapshot]
      /\ snap'[r] = Cic!Now /\ \A x \in Reader : x # r => snap'[x] = snap[x]
  <2>1. snap \in [Reader -> Cic!Snapshot]
    BY <1>2 DEF Cic!TypeOK
  <2> QED BY <1>1, <1>4, <2>1
<1>6. Cic!TypeOK'
  BY <1>1, <1>2, <1>3, <1>5 DEF Cic!TypeOK, Cic!Snapshot
<1>7. FlagsFollow' /\ WritersLooked' /\ ChainsByUnaware' /\ Waited'
  BY <1>1, <1>2, <1>3 DEF FlagsFollow, WritersLooked, ChainsByUnaware, Waited
<1>8. EntriesFit' /\ SinceSnapshot' /\ UnindexedAreOver'
  BY <1>1, <1>2, <1>3 DEF EntriesFit, SinceSnapshot, UnindexedAreOver, Cic!Indexed
<1>9. OldOnesWaitedFor'
  <2>1. \A x \in Reader : snap'[x].xmin <= Cic!Xmin
    BY <1>2, <1>4, <1>5 DEF OldOnesWaitedFor
  <2>2. s2.seen \subseteq snap'[r].seen
    BY <1>2, <1>4, <1>5 DEF Waited
  <2>3. \A x \in Reader \ ended : snap'[x] # Cic!NoSnapshot /\ stage \in Caught =>
          \/ s2.seen \subseteq snap'[x].seen
          \/ stage \in {"validating", "validated"} /\ snap'[x].xmin <= s2.xmin
          \/ stage = "wait3" /\ x \in lockers
    BY <1>2, <1>5, <2>2 DEF OldOnesWaitedFor
  <2> QED BY <1>1, <1>3, <2>1, <2>3 DEF OldOnesWaitedFor, Cic!NoSnapshot
<1> QED BY <1>6, <1>7, <1>8, <1>9 DEF CicInv

LEMMA StartBuildKeeps == Cic!CicAssumption /\ CicInv /\ Cic!StartBuild => CicInv'
<1> SUFFICES ASSUME Cic!CicAssumption, CicInv, Cic!StartBuild PROVE CicInv'
  OBVIOUS
<1>1. /\ stage = "wait1" /\ stage' = "building" /\ lockers \subseteq ended /\ s1' = Cic!Now
      /\ UNCHANGED <<exists, ready, valid, lockers, s2, have, entries, heap, saw, xids,
                     ended, snap>>
  BY DEF Cic!StartBuild, Cic!WaitOver, Cic!Cic, Cic!txnVars
<1>2. Cic!TypeOK /\ FlagsFollow /\ Waited /\ EntriesFit /\ OldOnesWaitedFor
  BY DEF CicInv
<1>3. Cic!Now \in Cic!Snapshot /\ Cic!Now.seen = ended
  BY <1>2, NowIsSnapshot
<1>4. /\ WritersLooked' /\ ChainsByUnaware' /\ Cic!Xmin' = Cic!Xmin
      /\ Cic!Version' = Cic!Version
  BY <1>1, TableAlone
<1>5. ~ready /\ entries = {} /\ \A w \in Writer : saw[w] # "ready"
  BY <1>1, <1>2 DEF FlagsFollow
<1>6. Cic!TypeOK'
  BY <1>1, <1>2, <1>3, <1>4 DEF Cic!TypeOK, Cic!Snapshot
<1>7. FlagsFollow'
  BY <1>1, <1>2 DEF FlagsFollow, Filled
<1>8. Waited'
  <2>1. \A w \in Writer : saw[w] = "no index" => w \in ended
    BY <1>1, <1>2 DEF Waited
  <2> QED BY <1>1, <1>2, <1>3, <1>5, <2>1 DEF Waited, Chained, Caught
<1>9. EntriesFit'
  BY <1>1, <1>4, <1>5 DEF EntriesFit
<1>10. SinceSnapshot' /\ UnindexedAreOver'
  BY <1>1 DEF SinceSnapshot, UnindexedAreOver, Complete
<1>11. OldOnesWaitedFor'
  BY <1>1, <1>2, <1>4 DEF OldOnesWaitedFor, Caught
<1> QED BY <1>4, <1>6, <1>7, <1>8, <1>9, <1>10, <1>11 DEF CicInv

(* The entries one party makes for some of the versions. *)
LEMMA EntriesMade ==
  ASSUME Cic!TypeOK, NEW vs, vs \subseteq Cic!Version,
         NEW from \in {"build", "writer", "validate"}
  PROVE  /\ Cic!EntriesFor(vs, from) \subseteq
              [v : Cic!Version, root : Cic!Version, src : {"build", "writer", "validate"}]
         /\ \A e \in Cic!EntriesFor(vs, from) :
              /\ e.v \in vs /\ e.root = heap[e.v].root /\ e.src = from
              /\ e = [v |-> e.v, root |-> heap[e.v].root, src |-> from]
         /\ \A v \in vs : \E e \in Cic!EntriesFor(vs, from) : e.v = v
<1> DEFINE new == {[v |-> x, root |-> heap[x].root, src |-> from] : x \in vs}
<1>1. \A x \in vs : x \in Cic!Version /\ heap[x].root \in Cic!Version
  BY HeapFacts
<1>2. new \subseteq [v : Cic!Version, root : Cic!Version,
                     src : {"build", "writer", "validate"}]
  BY <1>1
<1>3. \A e \in new : /\ e.v \in vs /\ e.root = heap[e.v].root /\ e.src = from
                      /\ e = [v |-> e.v, root |-> heap[e.v].root, src |-> from]
  OBVIOUS
<1>4. ASSUME NEW x \in vs PROVE \E e \in new : e.v = x
  <2>1. [v |-> x, root |-> heap[x].root, src |-> from] \in new
    OBVIOUS
  <2> QED BY <2>1
<1>5. Cic!EntriesFor(vs, from) = new
  BY DEF Cic!EntriesFor
<1> QED BY <1>2, <1>3, <1>4, <1>5

LEMMA CommitBuildKeeps == Cic!CicAssumption /\ CicInv /\ Cic!CommitBuild => CicInv'
<1> SUFFICES ASSUME Cic!CicAssumption, CicInv, Cic!CommitBuild PROVE CicInv'
  OBVIOUS
<1> DEFINE vs  == {v \in Cic!Version : Cic!Visible(v, s1)}
           new == Cic!EntriesFor(vs, "build")
<1>1. /\ stage = "building" /\ stage' = "built" /\ ready' = TRUE
      /\ entries' = entries \union new
      /\ UNCHANGED <<exists, valid, lockers, s1, s2, have, heap, saw, xids, ended, snap>>
  BY DEF Cic!CommitBuild, Cic!Cic, Cic!txnVars
<1>2. Cic!TypeOK /\ FlagsFollow /\ Waited /\ EntriesFit /\ OldOnesWaitedFor
  BY DEF CicInv
<1>3. /\ WritersLooked' /\ ChainsByUnaware' /\ Cic!Xmin' = Cic!Xmin
      /\ Cic!Version' = Cic!Version
  BY <1>1, TableAlone
<1>4. ~ready /\ entries = {} /\ \A w \in Writer : saw[w] # "ready"
  BY <1>1, <1>2 DEF FlagsFollow
<1>5. /\ new \subseteq [v : Cic!Version, root : Cic!Version,
                        src : {"build", "writer", "validate"}]
      /\ \A e \in new : /\ e.v \in vs /\ e.root = heap[e.v].root /\ e.src = "build"
                        /\ e = [v |-> e.v, root |-> heap[e.v].root, src |-> "build"]
  BY <1>2, EntriesMade
<1>6. entries' = new
  BY <1>1, <1>4
<1>7. \A v \in vs : heap[v].by \in s1.seen \union {Loaded} /\ heap[v].dead \notin s1.seen
  BY DEF Cic!Visible
<1> HIDE DEF vs, new
<1>8. Cic!TypeOK'
  BY <1>1, <1>2, <1>3, <1>5, <1>6 DEF Cic!TypeOK, Cic!Snapshot
<1>9. FlagsFollow'
  BY <1>1, <1>2 DEF FlagsFollow, Filled
<1>10. Waited'
  BY <1>1, <1>2 DEF Waited, Chained, Caught
<1>11. EntriesFit'
  <2>1. \A e, f \in new : e.v = f.v => e = f
    BY <1>5
  <2>2. \A e \in new : /\ heap[e.v].root = e.root
                       /\ heap[e.v].dead \notin s1.seen
                       /\ heap[e.v].by \in s1.seen \union {Loaded}
                       /\ e.src = "build"
    BY <1>5, <1>7
  <2> QED BY <1>1, <1>3, <1>4, <1>6, <2>1, <2>2 DEF EntriesFit
<1>12. SinceSnapshot' /\ UnindexedAreOver'
  BY <1>1 DEF SinceSnapshot, UnindexedAreOver, Complete
<1>13. OldOnesWaitedFor'
  BY <1>1, <1>2, <1>3 DEF OldOnesWaitedFor, Caught
<1> QED BY <1>3, <1>8, <1>9, <1>10, <1>11, <1>12, <1>13 DEF CicInv

LEMMA StartValidationKeeps == CicInv /\ Cic!StartValidation => CicInv'
<1> SUFFICES ASSUME CicInv, Cic!StartValidation PROVE CicInv'
  OBVIOUS
<1>1. /\ stage = "wait2" /\ stage' = "validating" /\ lockers \subseteq ended
      /\ s2' = Cic!Now /\ have' = {e.root : e \in entries}
      /\ UNCHANGED <<exists, ready, valid, lockers, s1, entries, heap, saw, xids, ended,
                     snap>>
  BY DEF Cic!StartValidation, Cic!WaitOver, Cic!Cic, Cic!txnVars
<1>2. Cic!TypeOK /\ FlagsFollow /\ Waited /\ EntriesFit /\ OldOnesWaitedFor
  BY DEF CicInv
<1>3. Cic!Now \in Cic!Snapshot /\ Cic!Now.seen = ended /\ Cic!Now.xmin = Cic!Xmin
  BY <1>2, NowIsSnapshot
<1>4. /\ WritersLooked' /\ ChainsByUnaware' /\ Cic!Xmin' = Cic!Xmin
      /\ Cic!Version' = Cic!Version
  BY <1>1, TableAlone
<1>5. have' \subseteq Cic!Version
  <2>1. \A e \in entries : e.root \in Cic!Version
    BY <1>2 DEF Cic!TypeOK
  <2> QED BY <1>1, <2>1
<1>6. Cic!TypeOK'
  BY <1>1, <1>2, <1>3, <1>4, <1>5 DEF Cic!TypeOK, Cic!Snapshot
<1>7. FlagsFollow'
  BY <1>1, <1>2 DEF FlagsFollow, Filled
<1>8. Waited'
  <2>1. \A w \in Writer : saw[w] \in {"no index", "entry"} => w \in ended
    BY <1>1, <1>2 DEF Waited
  <2> QED BY <1>1, <1>2, <1>3, <2>1 DEF Waited, Chained, Caught
<1>9. EntriesFit'
  BY <1>1, <1>2, <1>4 DEF EntriesFit, Cic!Indexed
<1>10. SinceSnapshot' /\ UnindexedAreOver'
  BY <1>1 DEF SinceSnapshot, UnindexedAreOver, Complete
<1>11. OldOnesWaitedFor'
  BY <1>1, <1>2, <1>3, <1>4 DEF OldOnesWaitedFor, Caught
<1> QED BY <1>4, <1>6, <1>7, <1>8, <1>9, <1>10, <1>11 DEF CicInv

LEMMA CommitValidationKeeps ==
  Cic!CicAssumption /\ CicInv /\ Cic!CommitValidation => CicInv'
<1> SUFFICES ASSUME Cic!CicAssumption, CicInv, Cic!CommitValidation PROVE CicInv'
  OBVIOUS
<1> DEFINE new == Cic!EntriesFor(Cic!Missing, "validate")
<1>1. /\ stage = "validating" /\ stage' = "validated" /\ entries' = entries \union new
      /\ UNCHANGED <<exists, ready, valid, lockers, s1, s2, have, heap, saw, xids, ended,
                     snap>>
  BY DEF Cic!CommitValidation, Cic!Cic, Cic!txnVars
<1>2. /\ Cic!TypeOK /\ FlagsFollow /\ WritersLooked /\ ChainsByUnaware /\ Waited
      /\ EntriesFit /\ SinceSnapshot /\ OldOnesWaitedFor
  BY DEF CicInv
<1>3. /\ WritersLooked' /\ ChainsByUnaware' /\ Cic!Xmin' = Cic!Xmin
      /\ Cic!Version' = Cic!Version
  BY <1>1, TableAlone
<1>4. Cic!Missing \subseteq Cic!Version
  BY DEF Cic!Missing
<1>5. /\ new \subseteq [v : Cic!Version, root : Cic!Version,
                        src : {"build", "writer", "validate"}]
      /\ \A e \in new : /\ e.v \in Cic!Missing /\ e.root = heap[e.v].root
                        /\ e.src = "validate"
                        /\ e = [v |-> e.v, root |-> heap[e.v].root, src |-> "validate"]
      /\ \A v \in Cic!Missing : \E e \in new : e.v = v
  BY <1>2, <1>4, EntriesMade
<1>6. \A v \in Cic!Version :
        v \in Cic!Missing <=> /\ heap[v].by \in s2.seen \union {Loaded}
                              /\ heap[v].dead \notin s2.seen
                              /\ heap[v].root \notin have
  BY DEF Cic!Missing, Cic!Visible
<1>7. s1.seen \subseteq s2.seen /\ Loaded \notin Writer
  BY <1>1, <1>2 DEF Waited, Caught, Cic!CicAssumption
<1> HIDE DEF new
<1>8. Cic!TypeOK'
  BY <1>1, <1>2, <1>3, <1>5 DEF Cic!TypeOK, Cic!Snapshot
<1>9. FlagsFollow'
  BY <1>1, <1>2 DEF FlagsFollow, Filled
<1>10. Waited'
  BY <1>1, <1>2 DEF Waited, Chained, Caught
<1>11. EntriesFit'
  <2>1. \A e \in new : /\ heap[e.v].root = e.root
                       /\ heap[e.v].dead \notin s1.seen
                       /\ e.src = "validate"
    BY <1>4, <1>5, <1>6, <1>7
  <2>2. \A e, f \in new : e.v = f.v => e = f
    BY <1>5
  <2>3. ASSUME NEW e \in entries, NEW f \in new PROVE e.v # f.v
    <3>1. SUFFICES ASSUME e.v = f.v PROVE FALSE
      OBVIOUS
    <3>2. /\ heap[e.v].root \notin have /\ heap[e.v].by \in s2.seen \union {Loaded}
          /\ e.root = heap[e.v].root
      BY <1>2, <1>4, <1>5, <1>6, <3>1 DEF EntriesFit
    <3>3. e.src = "writer" /\ heap[e.v].by \notin s2.seen
      BY <1>1, <1>2, <3>2 DEF SinceSnapshot
    <3>4. heap[e.v].by \in Writer
      BY <1>2, <3>3 DEF EntriesFit
    <3> QED BY <1>7, <3>2, <3>3, <3>4
  <2>4. \A e, f \in entries' : e.v = f.v => e = f
    BY <1>1, <1>2, <2>2, <2>3 DEF EntriesFit
  <2>5. \A e \in entries' :
          /\ heap[e.v].root = e.root
          /\ heap[e.v].dead \notin s1.seen
          /\ e.src = "build"  => heap[e.v].by \in s1.seen \union {Loaded}
          /\ e.src = "writer" => heap[e.v].by \in Writer /\ saw[heap[e.v].by] = "ready"
    BY <1>1, <1>2, <2>1 DEF EntriesFit
  <2>6. \A v \in Cic!Version :
          heap[v].by \in Writer /\ saw[heap[v].by] = "ready" =>
            \E e \in entries' : e.v = v
    BY <1>1, <1>2 DEF EntriesFit, Cic!Indexed
  <2> QED BY <1>1, <1>3, <2>4, <2>5, <2>6 DEF EntriesFit, Cic!Indexed
<1>12. SinceSnapshot'
  BY <1>1 DEF SinceSnapshot
<1>13. UnindexedAreOver'
  <2>1. SUFFICES ASSUME NEW v \in Cic!Version
                 PROVE  (\E e \in entries' : e.v = v) \/ heap[v].dead \in s2.seen
    BY <1>1, <1>3 DEF UnindexedAreOver, Cic!Indexed
  <2>2. CASE v \in Cic!Missing
    BY <1>1, <1>5, <2>2
  <2>3. CASE heap[v].by \notin s2.seen \union {Loaded}
    <3>1. heap[v].by \in Writer /\ saw[heap[v].by] # "nothing"
      BY <1>2, <2>3, HeapFacts DEF WritersLooked
    <3>2. saw[heap[v].by] \in {"no index", "entry", "ready"}
      BY <1>2, <3>1 DEF Cic!TypeOK
    <3>3. saw[heap[v].by] = "ready"
      BY <1>1, <1>2, <2>3, <3>1, <3>2 DEF Waited, Caught
    <3> QED BY <1>1, <1>2, <3>1, <3>3 DEF EntriesFit, Cic!Indexed
  <2>4. CASE heap[v].root \in have
    <3>1. PICK e \in entries : e.root = heap[v].root
      BY <1>1, <1>2, <2>4 DEF SinceSnapshot
    <3>2. /\ e.v \in Cic!Version /\ heap[e.v].root = heap[v].root
          /\ heap[e.v].dead \notin s1.seen
      BY <1>2, <3>1 DEF EntriesFit, Cic!TypeOK
    <3>3. ASSUME NEW x \in Cic!Version, NEW y \in Cic!Version,
                 heap[x].root = heap[y].root, x < y
          PROVE  heap[x].dead \in s1.seen
      BY <1>1, <1>2, <3>3 DEF ChainsByUnaware, Waited, Chained
    <3>4. ~(e.v < v)
      BY <3>2, <3>3
    <3>5. v < e.v => heap[v].dead \in s2.seen
      BY <1>7, <3>2, <3>3
    <3>6. v = e.v \/ v < e.v \/ e.v < v
      BY <1>2, <3>2, HeapFacts
    <3> QED BY <1>1, <3>1, <3>4, <3>5, <3>6
  <2> QED BY <1>6, <2>2, <2>3, <2>4
<1>14. OldOnesWaitedFor'
  BY <1>1, <1>2, <1>3 DEF OldOnesWaitedFor, Caught, Cic!NoSnapshot
<1> QED BY <1>3, <1>8, <1>9, <1>10, <1>11, <1>12, <1>13, <1>14 DEF CicInv

-------------------------------------------------------------------------------
LEMMA CicInitInv == Cic!CicAssumption /\ Cic!Init => CicInv
<1> SUFFICES ASSUME Cic!CicAssumption, Cic!Init PROVE CicInv
  OBVIOUS
<1>1. Rows \in Nat
  BY DEF Cic!CicAssumption
<1>2. /\ stage = "idle" /\ exists = FALSE /\ ready = FALSE /\ valid = FALSE
      /\ lockers = {} /\ s1 = Cic!NoSnapshot /\ s2 = Cic!NoSnapshot
      /\ have = {} /\ entries = {} /\ saw = [w \in Writer |-> "nothing"]
      /\ xids = <<>> /\ ended = {} /\ snap = [r \in Reader |-> Cic!NoSnapshot]
  BY DEF Cic!Init
<1>3. heap = [v \in 1 .. Rows |-> [by |-> Loaded, dead |-> NoOne, root |-> v]]
  BY DEF Cic!Init
<1>4. /\ heap \in Seq(TheVersion(Rows)) /\ Len(heap) = Rows
      /\ \A v \in 1 .. Rows : heap[v].by = Loaded /\ heap[v].root = v
  <2>1. heap \in [1 .. Rows -> TheVersion(Rows)]
    BY <1>3 DEF TheVersion
  <2>2. heap \in Seq(TheVersion(Rows)) /\ Len(heap) = Rows
    BY <1>1, <2>1
  <2> QED BY <1>3, <2>2
<1>5. Cic!Version = 1 .. Rows
  BY <1>4 DEF Cic!Version
<1>6. Cic!NoSnapshot \in Cic!Snapshot /\ Cic!NoSnapshot.seen = {} /\ Cic!NoSnapshot.xmin = 0
  BY DEF Cic!NoSnapshot, Cic!Snapshot
<1>7. Cic!TypeOK
  <2>1. xids \in Seq(Writer)
    BY <1>2
  <2>2. heap \in Seq([by : Writer \union {Loaded}, dead : Writer \union {NoOne},
                      root : Cic!Version])
    BY <1>4, <1>5 DEF TheVersion
  <2>3. /\ saw \in [Writer -> {"nothing", "no index", "entry", "ready"}]
        /\ snap \in [Reader -> Cic!Snapshot]
    BY <1>2, <1>6
  <2> QED BY <1>2, <1>6, <2>1, <2>2, <2>3 DEF Cic!TypeOK
<1>8. FlagsFollow
  BY <1>2 DEF FlagsFollow, Filled
<1>9. WritersLooked
  BY <1>2, <1>4, <1>5 DEF WritersLooked, Cic!CicAssumption
<1>10. ChainsByUnaware
  <2>1. ASSUME NEW u \in 1 .. Rows, NEW v \in 1 .. Rows, heap[u].root = heap[v].root
        PROVE  ~(u < v)
    <3>1. u = v
      BY <1>4, <2>1
    <3> QED BY <1>1, <3>1
  <2> QED BY <1>5, <2>1 DEF ChainsByUnaware
<1>11. Waited
  BY <1>2, <1>6 DEF Waited, Chained, Caught
<1>12. EntriesFit
  BY <1>2, <1>4, <1>5 DEF EntriesFit, Cic!CicAssumption
<1>13. SinceSnapshot /\ UnindexedAreOver
  BY <1>2 DEF SinceSnapshot, UnindexedAreOver, Complete
<1>14. OldOnesWaitedFor
  <2>1. Cic!Xmin \in Nat
    BY <1>7, NowIsSnapshot
  <2> QED BY <1>2, <1>6, <2>1 DEF OldOnesWaitedFor, Caught
<1> QED BY <1>7, <1>8, <1>9, <1>10, <1>11, <1>12, <1>13, <1>14 DEF CicInv

LEMMA CicStutters == CicInv /\ UNCHANGED cicVars => CicInv'
<1> SUFFICES ASSUME CicInv, UNCHANGED cicVars PROVE CicInv'
  OBVIOUS
<1>1. UNCHANGED <<stage, exists, ready, valid, lockers, s1, s2, have, entries, heap,
                  saw, xids, ended, snap>>
  BY DEF cicVars
<1>2. /\ Cic!TypeOK /\ FlagsFollow /\ WritersLooked /\ ChainsByUnaware /\ Waited
      /\ EntriesFit /\ SinceSnapshot /\ UnindexedAreOver /\ OldOnesWaitedFor
  BY DEF CicInv
<1>3. Cic!Version' = Cic!Version /\ Cic!Xmin' = Cic!Xmin
  BY <1>1 DEF Cic!Version, Cic!Xmin
<1>4. Cic!TypeOK'
  BY <1>1, <1>2, <1>3 DEF Cic!TypeOK, Cic!Snapshot
<1>5. FlagsFollow' /\ WritersLooked' /\ ChainsByUnaware' /\ Waited'
  BY <1>1, <1>2, <1>3 DEF FlagsFollow, WritersLooked, ChainsByUnaware, Waited
<1>6. EntriesFit' /\ SinceSnapshot' /\ UnindexedAreOver'
  BY <1>1, <1>2, <1>3 DEF EntriesFit, SinceSnapshot, UnindexedAreOver, Cic!Indexed
<1>7. OldOnesWaitedFor'
  BY <1>1, <1>2, <1>3 DEF OldOnesWaitedFor, Cic!NoSnapshot
<1> QED BY <1>4, <1>5, <1>6, <1>7 DEF CicInv

LEMMA CicNextInv == Cic!CicAssumption /\ CicInv /\ Cic!Next => CicInv'
<1> SUFFICES ASSUME Cic!CicAssumption, CicInv, Cic!Next PROVE CicInv'
  OBVIOUS
<1>1. ASSUME NEW w \in Writer,
             \/ Cic!Insert(w)
             \/ \E v \in Cic!Version : Cic!Update(w, v) \/ Cic!Delete(w, v)
      PROVE  CicInv'
  BY <1>1, WriterEffect, WriterKeeps
<1>2. ASSUME NEW r \in Reader, Cic!TakeSnapshot(r) PROVE CicInv'
  BY <1>2, TakeSnapshotKeeps
<1>3. ASSUME NEW t \in Writer \union Reader, Cic!End(t) PROVE CicInv'
  BY <1>3, EndKeeps
<1>4. ASSUME \/ Cic!CommitCreate \/ Cic!Wait1 \/ Cic!StartBuild \/ Cic!CommitBuild
             \/ Cic!Wait2 \/ Cic!StartValidation \/ Cic!CommitValidation
             \/ Cic!Wait3 \/ Cic!CommitValid \/ Cic!Cancel
      PROVE  CicInv'
  BY <1>4, CommitCreateKeeps, Wait1Keeps, StartBuildKeeps, CommitBuildKeeps, Wait2Keeps,
     StartValidationKeeps, CommitValidationKeeps, Wait3Keeps, CommitValidKeeps, CancelKeeps
<1> QED BY <1>1, <1>2, <1>3, <1>4 DEF Cic!Next

(* Whichever lab is in use, the index that is built beside writers stays   *)
(* as its invariant has it.                                                *)
LEMMA CicAlways == Spec => []CicThere
<1>1. Cic!CicAssumption
  BY Assumption
<1>2. Init => CicThere
  BY <1>1, CicInitInv DEF Init, CicThere
<1>3. CicThere /\ [Next]_vars => CicThere'
  <2> SUFFICES ASSUME CicThere, [Next]_vars PROVE CicThere'
    OBVIOUS
  <2>1. CASE UNCHANGED vars
    <3>1. lab' = lab /\ UNCHANGED cicVars
      BY <2>1 DEF vars
    <3> QED BY <3>1, CicStutters DEF CicThere
  <2>2. CASE Next
    <3>1. lab' = lab /\ Step
      BY <2>2 DEF Next
    <3>2. CASE lab = "cic"
      <4>1. Cic!Next
        BY <3>1, <3>2 DEF Step
      <4> QED BY <1>1, <3>1, <3>2, <4>1, CicNextInv DEF CicThere
    <3>3. CASE lab # "cic"
      BY <3>1, <3>3 DEF CicThere
    <3> QED BY <3>2, <3>3
  <2> QED BY <2>1, <2>2
<1> QED BY <1>2, <1>3, PTL DEF Spec

LEMMA CicMeansIndexed == CicInv => Cic!CurrentRowsIndexed
<1> SUFFICES ASSUME CicInv PROVE Cic!CurrentRowsIndexed
  OBVIOUS
<1>1. /\ Cic!TypeOK /\ FlagsFollow /\ Waited /\ EntriesFit /\ UnindexedAreOver
      /\ OldOnesWaitedFor
  BY DEF CicInv
<1>2. \A e, f \in entries : e.v = f.v => e = f
  BY <1>1 DEF EntriesFit
<1>3. ASSUME valid, NEW s \in {Cic!Now} \union {snap[r] : r \in Reader \ ended},
             s # Cic!NoSnapshot, NEW v \in Cic!Version, Cic!Visible(v, s)
      PROVE  Cic!Indexed(v)
  <2>1. stage = "valid"
    BY <1>1, <1>3 DEF FlagsFollow
  <2>2. s2.seen \subseteq s.seen
    <3>1. CASE s = Cic!Now
      BY <1>1, <3>1, NowIsSnapshot DEF Waited
    <3>2. ASSUME NEW r \in Reader \ ended, s = snap[r] PROVE s2.seen \subseteq s.seen
      BY <1>1, <1>3, <2>1, <3>2 DEF OldOnesWaitedFor, Caught
    <3> QED BY <1>3, <3>1, <3>2
  <2>3. heap[v].dead \notin s.seen
    BY <1>3 DEF Cic!Visible
  <2> QED BY <1>1, <2>1, <2>2, <2>3 DEF UnindexedAreOver, Complete
<1> QED BY <1>2, <1>3 DEF Cic!CurrentRowsIndexed

(* The index that CREATE INDEX CONCURRENTLY leaves valid                   *)
(* (CreateIndexConcurrentlyLab) has exactly one entry for every row that   *)
(* the present or any snapshot still held sees, for any numbers of writers,*)
(* readers and rows and wherever their steps fall.                         *)
THEOREM IndexesCurrentRows == Spec => []CurrentRowsIndexed
<1>1. CicThere => CurrentRowsIndexed
  BY CicMeansIndexed DEF CicThere, CurrentRowsIndexed
<1> QED BY <1>1, CicAlways, PTL

(* From the build's first snapshot on no HOT chain is open that the index  *)
(* would have to follow: the wait before it is long enough.                *)
THEOREM LeavesChainsUnbroken == Spec => []ChainsUnbroken
<1>1. CicInv => Cic!ChainsUnbroken
  <2> SUFFICES ASSUME CicInv,
                      stage \in {"building", "built", "wait2", "validating", "validated"},
                      NEW v \in Cic!Version, NEW w \in Cic!Version,
                      heap[v].root = heap[w].root, v < w
               PROVE  heap[v].dead \in s1.seen
    BY DEF Cic!ChainsUnbroken
  <2>1. heap[v].dead \in Writer /\ saw[heap[v].dead] = "no index"
    BY DEF CicInv, ChainsByUnaware
  <2> QED BY <2>1 DEF CicInv, Waited, Chained
<1>2. CicThere => ChainsUnbroken
  BY <1>1 DEF CicThere, ChainsUnbroken
<1> QED BY <1>2, CicAlways, PTL
===============================================================================
