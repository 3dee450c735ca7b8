--------------------------- MODULE RowVersionsProofs ---------------------------
(***************************************************************************)
(* What holds of the labs of RowVersions for every number of transactions, *)
(* rows and versions.                                                      *)
(***************************************************************************)
EXTENDS RowVersions, SequenceTheorems, FiniteSetTheorems, WellFoundedInduction, TLAPS

-------------------------------------------------------------------------------
(* A set of natural numbers that is not empty has a least element. *)
LEMMA LeastIn ==
  ASSUME NEW T, T \subseteq Nat, T # {}
  PROVE  \E x \in T : \A y \in T : x <= y
<1> DEFINE R == {p \in Nat \X Nat : p[1] < p[2]}
<1>1. IsWellFoundedOn(R, Nat)
  BY NatLessThanWellFounded DEF OpToRel
<1>2. PICK x \in T : \A y \in T : ~(<<y, x>> \in R)
  BY <1>1, WFMin
<1>3. ASSUME NEW y \in T PROVE x <= y
  <2>1. x \in Nat /\ y \in Nat /\ ~(<<y, x>> \in R)
    BY <1>2
  <2>2. ~(y < x)
    BY <2>1
  <2> QED BY <2>1, <2>2
<1> QED BY <1>3


-------------------------------------------------------------------------------
(* Versions of one row, and a collector behind a horizon.                  *)

Span(v)   == v.xmin \in Nat /\ v.xmax \in Nat /\ v.xmin < nextId
             /\ (v.xmax # Garbage!Current => v.xmin < v.xmax /\ v.xmax < nextId)
Before(v, w) == v.xmax # Garbage!Current /\ v.xmax <= w.xmin

(* One version follows the other, the row's last is the one that was never *)
(* superseded, and no snapshot is of the future.                           *)
GarbageInv ==
  /\ nextId \in Nat \ {0}
  /\ \A v \in versions : v = [xmin |-> v.xmin, xmax |-> v.xmax] /\ Span(v)
  /\ \A v, w \in versions : v = w \/ Before(v, w) \/ Before(w, v)
  /\ deleted => \A v \in versions : v.xmax # Garbage!Current
  /\ readers \in Seq(Nat)
  /\ \A i \in DOMAIN readers : readers[i] <= nextId

GarbageThere == lab = "garbage" => GarbageInv

LEMMA HeldSnapshots ==
  ASSUME readers \in Seq(Nat)
  PROVE  /\ Len(readers) \in Nat /\ DOMAIN readers = 1 .. Len(readers)
         /\ Garbage!ToSet(readers) \subseteq Nat
         /\ \A s \in Garbage!ToSet(readers) :
              /\ \E i \in DOMAIN readers : readers[i] = s
              /\ Garbage!Oldest \in Garbage!ToSet(readers)
              /\ Garbage!Oldest <= s
              /\ Garbage!horizonOf = Garbage!Oldest
<1>1. Len(readers) \in Nat /\ DOMAIN readers = 1 .. Len(readers)
  BY LenProperties
<1>2. Garbage!ToSet(readers) \subseteq Nat
  BY <1>1, ElementOfSeq DEF Garbage!ToSet
<1>3. ASSUME NEW s \in Garbage!ToSet(readers)
      PROVE  /\ \E i \in DOMAIN readers : readers[i] = s
             /\ Garbage!Oldest \in Garbage!ToSet(readers)
             /\ Garbage!Oldest <= s
             /\ Garbage!horizonOf = Garbage!Oldest
  <2>1. \E i \in DOMAIN readers : readers[i] = s
    BY DEF Garbage!ToSet
  <2>2. \E x \in Garbage!ToSet(readers) : \A y \in Garbage!ToSet(readers) : x <= y
    BY <1>2, LeastIn
  <2>3. /\ Garbage!Oldest \in Garbage!ToSet(readers)
        /\ Garbage!Oldest <= s
    BY <2>2 DEF Garbage!Oldest
  <2>4. readers # <<>>
    BY <2>1, EmptySeq, LenProperties
  <2> QED BY <2>1, <2>3, <2>4 DEF Garbage!horizonOf
<1> QED BY <1>1, <1>2, <1>3

(* The reader that is closed or dragged is one of them. *)
LEMMA OldestIsThere ==
  ASSUME readers \in Seq(Nat), readers # <<>>
  PROVE  Garbage!OldestReader \in DOMAIN readers
<1> DEFINE T == {i \in DOMAIN readers : readers[i] = Garbage!Oldest}
<1>1. Len(readers) \in Nat /\ DOMAIN readers = 1 .. Len(readers)
  BY LenProperties
<1>2. readers[1] \in Garbage!ToSet(readers)
  <2>1. Len(readers) # 0
    BY EmptySeq, LenProperties
  <2> QED BY <1>1, <2>1 DEF Garbage!ToSet
<1>3. Garbage!Oldest \in Garbage!ToSet(readers)
  BY <1>2, HeldSnapshots
<1>4. T # {}
  BY <1>3 DEF Garbage!ToSet
<1>5. T \subseteq Nat
  BY <1>1
<1>6. PICK i \in T : \A j \in T : i <= j
  BY <1>4, <1>5, LeastIn
<1>7. \A j \in 1 .. i - 1 : readers[j] # Garbage!Oldest
  <2> SUFFICES ASSUME NEW j \in 1 .. i - 1, readers[j] = Garbage!Oldest PROVE FALSE
    OBVIOUS
  <2>1. i \in 1 .. Len(readers) /\ j \in 1 .. Len(readers) /\ ~(i <= j)
    BY <1>1, <1>6
  <2> QED BY <1>1, <1>6, <2>1
<1>8. \E k \in DOMAIN readers :
        readers[k] = Garbage!Oldest /\ \A j \in 1 .. k - 1 : readers[j] # Garbage!Oldest
  BY <1>6, <1>7
<1> QED BY <1>8 DEF Garbage!OldestReader

LEMMA ReadersKept ==
  ASSUME GarbageInv, UNCHANGED <<nextId, versions, deleted>>,
         readers' \in Seq(Nat), \A i \in DOMAIN readers' : readers'[i] <= nextId
  PROVE  GarbageInv'
BY DEF GarbageInv, Span, Before, Garbage!Current

LEMMA ReaderKeeps ==
  ASSUME GarbageInv, Garbage!GarbageAssumption,
         \/ Garbage!OpenReader \/ Garbage!CloseOldest
         \/ \E s \in START_XID .. nextId : Garbage!DragOldest(s)
  PROVE  GarbageInv'
<1> DEFINE n == Len(readers)
           k == Garbage!OldestReader
<1>1. /\ readers \in Seq(Nat) /\ nextId \in Nat
      /\ n \in Nat /\ DOMAIN readers = 1 .. n
      /\ \A i \in DOMAIN readers : readers[i] <= nextId /\ readers[i] \in Nat
  BY LenProperties, ElementOfSeq DEF GarbageInv
<1>2. CASE Garbage!OpenReader
  <2>1. readers' = Append(readers, nextId) /\ UNCHANGED <<nextId, versions, deleted>>
    BY <1>2 DEF Garbage!OpenReader
  <2>2. readers' \in Seq(Nat) /\ \A i \in DOMAIN readers' : readers'[i] <= nextId
    BY <1>1, <2>1, AppendProperties, LenProperties
  <2> QED BY <2>1, <2>2, ReadersKept
<1>3. CASE Garbage!CloseOldest
  <2>1. /\ readers # <<>> /\ UNCHANGED <<nextId, versions, deleted>>
        /\ readers' = SubSeq(readers, 1, k - 1) \o SubSeq(readers, k + 1, Len(readers))
    BY <1>3 DEF Garbage!CloseOldest, Garbage!RemoveAt
  <2>2. k \in 1 .. n
    BY <1>1, <2>1, OldestIsThere
  <2> HIDE DEF k
  <2> DEFINE a == SubSeq(readers, 1, k - 1)
             b == SubSeq(readers, k + 1, n)
  <2>3. /\ a \in Seq(Nat) /\ Len(a) = k - 1 /\ \A i \in 1 .. k - 1 : a[i] = readers[i]
    BY <1>1, <2>2, SubSeqProperties
  <2>4. /\ b \in Seq(Nat) /\ Len(b) = n - k
        /\ \A i \in 1 .. n - k : b[i] = readers[k + i]
    <3>1. k + 1 \in Int /\ n \in Int /\ n - (k + 1) + 1 = n - k
      BY <1>1, <2>2
    <3>5. \A i \in k + 1 .. n : readers[i] \in Nat
      <4> TAKE i \in k + 1 .. n
      <4>1. i \in 1 .. n
        BY <1>1, <2>2
      <4> QED BY <1>1, <4>1
    <3>2. /\ b \in Seq(Nat) /\ Len(b) = IF k + 1 <= n THEN n - (k + 1) + 1 ELSE 0
          /\ \A i \in 1 .. n - (k + 1) + 1 : b[i] = readers[(k + 1) + i - 1]
      BY <3>1, <3>5, SubSeqProperties
    <3>6. \A m, j, l \in Nat : /\ j \in 1 .. m
                               /\ l = IF j + 1 <= m THEN m - (j + 1) + 1 ELSE 0
                               => l = m - j
      OBVIOUS
    <3>7. Len(b) \in Nat
      BY <3>2, LenProperties
    <3> HIDE DEF b
    <3>3. Len(b) = n - k
      <4> HIDE DEF n
      <4> QED BY <1>1, <2>2, <3>2, <3>6, <3>7
    <3>4. \A i \in 1 .. n - k : b[i] = readers[k + i]
      <4> TAKE i \in 1 .. n - k
      <4>1. i \in 1 .. n - (k + 1) + 1 /\ (k + 1) + i - 1 = k + i
        BY <1>1, <2>2, <3>1
      <4>2. b[i] = readers[(k + 1) + i - 1]
        BY <3>2, <4>1
      <4> QED BY <4>1, <4>2
    <3> QED BY <3>2, <3>3, <3>4
  <2>5. readers' = a \o b
    BY <2>1
  <2> HIDE DEF a, b
  <2>6. /\ readers' \in Seq(Nat) /\ Len(readers') = n - 1
        /\ \A i \in 1 .. n - 1 : readers'[i] = IF i <= k - 1 THEN a[i] ELSE b[i - (k - 1)]
    <3>1. /\ a \o b \in Seq(Nat) /\ Len(a \o b) = Len(a) + Len(b)
          /\ \A i \in 1 .. Len(a) + Len(b) :
               (a \o b)[i] = IF i <= Len(a) THEN a[i] ELSE b[i - Len(a)]
      BY <2>3, <2>4, ConcatProperties
    <3>2. Len(a) + Len(b) = n - 1 /\ Len(a) = k - 1
      BY <1>1, <2>2, <2>3, <2>4
    <3> QED BY <2>5, <3>1, <3>2
  <2>7. \A i \in DOMAIN readers' : readers'[i] <= nextId
    <3> SUFFICES ASSUME NEW i \in 1 .. n - 1 PROVE readers'[i] <= nextId
      BY <2>6, LenProperties
    <3>1. CASE i <= k - 1
      <4>1. i \in 1 .. k - 1 /\ i \in 1 .. n
        BY <1>1, <2>2, <3>1
      <4>2. readers'[i] = readers[i]
        BY <2>3, <2>6, <3>1, <4>1
      <4> QED BY <1>1, <4>1, <4>2
    <3>2. CASE ~(i <= k - 1)
      <4>1. i - (k - 1) \in 1 .. n - k /\ k + (i - (k - 1)) \in 1 .. n
        BY <1>1, <2>2, <3>2
      <4> QED BY <1>1, <2>4, <2>6, <3>2, <4>1
    <3> QED BY <3>1, <3>2
  <2> QED BY <2>1, <2>6, <2>7, ReadersKept
<1>4. ASSUME NEW s \in START_XID .. nextId, Garbage!DragOldest(s)
      PROVE  GarbageInv'
  <2>1. readers' = [readers EXCEPT ![k] = s] /\ UNCHANGED <<nextId, versions, deleted>>
    BY <1>4 DEF Garbage!DragOldest
  <2>2. s \in Nat /\ s <= nextId
    BY <1>1 DEF Garbage!GarbageAssumption
  <2> HIDE DEF k
  <2>3. readers' \in [1 .. n -> Nat] /\ \A i \in 1 .. n : readers'[i] <= nextId
    BY <1>1, <2>1, <2>2
  <2>4. readers' \in Seq(Nat) /\ DOMAIN readers' = 1 .. n
    BY <1>1, <2>3, SeqDef
  <2> QED BY <2>1, <2>3, <2>4, ReadersKept
<1> QED BY <1>2, <1>3, <1>4

(* A write ends the current version at the next id and may begin one there.*)
LEMMA RowWriteKeeps ==
  ASSUME GarbageInv, Garbage!RowUpdate \/ Garbage!RowDelete \/ Garbage!RowInsert
  PROVE  GarbageInv' /\ \A s \in Garbage!ToSet(readers) : Garbage!SeenBy(s)' = Garbage!SeenBy(s)
<1> DEFINE End(v) == IF v.xmax = Garbage!Current THEN [v EXCEPT !.xmax = nextId] ELSE v
           new    == [xmin |-> nextId, xmax |-> 0]
<1>0. Garbage!Current = 0
  BY DEF Garbage!Current
<1>1. /\ nextId \in Nat \ {0} /\ nextId' = nextId + 1 /\ readers' = readers
      /\ \A v \in versions : v = [xmin |-> v.xmin, xmax |-> v.xmax] /\ Span(v)
      /\ \A v, w \in versions : v = w \/ Before(v, w) \/ Before(w, v)
      /\ readers \in Seq(Nat) /\ \A i \in DOMAIN readers : readers[i] <= nextId
  BY DEF GarbageInv, Garbage!RowUpdate, Garbage!RowDelete, Garbage!RowInsert, Garbage!RowWrite
<1>2. /\ versions' \subseteq {End(v) : v \in versions} \union {new}
      /\ {End(v) : v \in versions} \subseteq versions'
      /\ deleted' => versions' = {End(v) : v \in versions}
  <2>1. CASE Garbage!RowUpdate
    BY <1>0, <2>1 DEF Garbage!RowUpdate, Garbage!RowWrite, Garbage!Superseded, Garbage!Appended
  <2>2. CASE Garbage!RowDelete
    BY <2>2 DEF Garbage!RowDelete, Garbage!RowWrite, Garbage!Superseded
  <2>3. CASE Garbage!RowInsert
    <3>1. versions' = versions \union {new} /\ deleted /\ ~deleted'
      BY <1>0, <2>3 DEF Garbage!RowInsert, Garbage!RowWrite, Garbage!Appended
    <3>2. \A v \in versions : End(v) = v
      BY <3>1 DEF GarbageInv
    <3> QED BY <3>1, <3>2
  <2> QED BY <2>1, <2>2, <2>3
<1>3. \A v \in versions :
        /\ v.xmin \in Nat /\ v.xmax \in Nat /\ v.xmin < nextId
        /\ v.xmax # 0 => v.xmin < v.xmax /\ v.xmax < nextId
        /\ End(v).xmin = v.xmin
        /\ End(v).xmax = IF v.xmax = 0 THEN nextId ELSE v.xmax
        /\ End(v) = [xmin |-> v.xmin, xmax |-> End(v).xmax]
  BY <1>0, <1>1 DEF Span
<1> HIDE DEF End
<1>4. ASSUME NEW x \in versions'
      PROVE  /\ x.xmin \in Nat /\ x.xmax \in Nat /\ x.xmin <= nextId
             /\ x.xmax # 0 => x.xmin < x.xmax /\ x.xmax <= nextId
             /\ x = [xmin |-> x.xmin, xmax |-> x.xmax]
             /\ x = new \/ \E v \in versions : x = End(v)
  BY <1>1, <1>2, <1>3, <1>4
<1>5. ASSUME NEW x \in versions', NEW y \in versions'
      PROVE  \/ x = y
             \/ x.xmax # 0 /\ x.xmax <= y.xmin
             \/ y.xmax # 0 /\ y.xmax <= x.xmin
  <2>1. ASSUME NEW v \in versions, NEW w \in versions, x = End(v), y = End(w)
        PROVE  \/ x = y
               \/ x.xmax # 0 /\ x.xmax <= y.xmin
               \/ y.xmax # 0 /\ y.xmax <= x.xmin
    <3>1. v = w \/ (v.xmax # 0 /\ v.xmax <= w.xmin) \/ (w.xmax # 0 /\ w.xmax <= v.xmin)
      BY <1>0, <1>1 DEF Before
    <3> QED BY <1>3, <2>1, <3>1
  <2>2. ASSUME NEW v \in versions, x = End(v), y = new
        PROVE  x.xmax # 0 /\ x.xmax <= y.xmin
    BY <1>1, <1>3, <2>2
  <2>3. ASSUME NEW v \in versions, y = End(v), x = new
        PROVE  y.xmax # 0 /\ y.xmax <= x.xmin
    BY <1>1, <1>3, <2>3
  <2> QED BY <1>4, <2>1, <2>2, <2>3
<1>6. GarbageInv'
  <2>1. nextId' \in Nat \ {0}
    BY <1>1
  <2>2. \A x \in versions' : x = [xmin |-> x.xmin, xmax |-> x.xmax] /\ Span(x)'
    BY <1>0, <1>1, <1>4 DEF Span, Garbage!Current
  <2>3. \A x, y \in versions' : x = y \/ Before(x, y)' \/ Before(y, x)'
    BY <1>0, <1>5 DEF Before, Garbage!Current
  <2>4. deleted' => \A x \in versions' : x.xmax # 0
    BY <1>1, <1>2, <1>3
  <2>5. readers' \in Seq(Nat) /\ \A i \in DOMAIN readers' : readers'[i] <= nextId'
    <3>1. \A i \in DOMAIN readers : readers[i] \in Nat
      BY <1>1, ElementOfSeq, LenProperties
    <3> QED BY <1>1, <3>1
  <2> QED BY <2>1, <2>2, <2>3, <2>4, <2>5 DEF GarbageInv, Garbage!Current
<1>7. ASSUME NEW s \in Garbage!ToSet(readers)
      PROVE  Garbage!SeenBy(s)' = Garbage!SeenBy(s)
  <2>1. s \in Nat /\ s <= nextId
    <3>1. PICK i \in DOMAIN readers : readers[i] = s
      BY DEF Garbage!ToSet
    <3> QED BY <1>1, <3>1, HeldSnapshots
  <2>2. \A v \in versions : Garbage!visibleTo(End(v), s) <=> Garbage!visibleTo(v, s)
    BY <1>0, <1>1, <1>3, <2>1 DEF Garbage!visibleTo
  <2>3. ~Garbage!visibleTo(new, s)
    BY <1>1, <2>1 DEF Garbage!visibleTo
  <2>4. /\ Garbage!SeenBy(s)  = {v.xmin : v \in {x \in versions : Garbage!visibleTo(x, s)}}
        /\ Garbage!SeenBy(s)' = {v.xmin : v \in {x \in versions' : Garbage!visibleTo(x, s)}}
    BY DEF Garbage!SeenBy, Garbage!visibleTo, Garbage!Current
  <2>5. \A m : m \in Garbage!SeenBy(s) => m \in Garbage!SeenBy(s)'
    <3> SUFFICES ASSUME NEW v \in versions, Garbage!visibleTo(v, s)
                 PROVE  v.xmin \in Garbage!SeenBy(s)'
      BY <2>4
    <3>1. End(v) \in versions' /\ Garbage!visibleTo(End(v), s) /\ End(v).xmin = v.xmin
      BY <1>2, <1>3, <2>2
    <3> QED BY <2>4, <3>1
  <2>6. \A m : m \in Garbage!SeenBy(s)' => m \in Garbage!SeenBy(s)
    <3> SUFFICES ASSUME NEW x \in versions', Garbage!visibleTo(x, s)
                 PROVE  x.xmin \in Garbage!SeenBy(s)
      BY <2>4
    <3>1. PICK v \in versions : x = End(v)
      BY <1>4, <2>3
    <3>2. Garbage!visibleTo(v, s) /\ x.xmin = v.xmin
      BY <1>3, <2>2, <3>1
    <3> QED BY <2>4, <3>2
  <2> QED BY <2>5, <2>6
<1> QED BY <1>6, <1>7

LEMMA ReclaimKeeps ==
  ASSUME GarbageInv, Garbage!Reclaim
  PROVE  GarbageInv' /\ \A s \in Garbage!ToSet(readers) : Garbage!SeenBy(s)' = Garbage!SeenBy(s)
<1>1. /\ versions' = versions \ Garbage!Collectable
      /\ UNCHANGED <<nextId, readers, deleted>>
  BY DEF Garbage!Reclaim
<1>2. GarbageInv'
  BY <1>1 DEF GarbageInv, Span, Before, Garbage!Current
<1>3. ASSUME NEW s \in Garbage!ToSet(readers)
      PROVE  Garbage!SeenBy(s)' = Garbage!SeenBy(s)
  <2>1. Garbage!horizonOf \in Nat /\ s \in Nat /\ Garbage!horizonOf <= s
    BY HeldSnapshots DEF GarbageInv
  <2>2. ASSUME NEW v \in versions, Garbage!visibleTo(v, s)
        PROVE  v \in versions'
    <3>1. v.xmax \in Nat
      BY DEF GarbageInv, Span
    <3> QED BY <1>1, <2>1, <2>2, <3>1 DEF Garbage!visibleTo, Garbage!Collectable
  <2>3. /\ Garbage!SeenBy(s)  = {v.xmin : v \in {x \in versions : Garbage!visibleTo(x, s)}}
        /\ Garbage!SeenBy(s)' = {v.xmin : v \in {x \in versions' : Garbage!visibleTo(x, s)}}
    BY DEF Garbage!SeenBy, Garbage!visibleTo, Garbage!Current
  <2>4. versions' \subseteq versions
    BY <1>1
  <2>5. {x \in versions : Garbage!visibleTo(x, s)} = {x \in versions' : Garbage!visibleTo(x, s)}
    BY <2>2, <2>4
  <2> QED BY <2>3, <2>5
<1> QED BY <1>2, <1>3

(* No snapshot sees two versions. *)
LEMMA SeesAtMostOne ==
  ASSUME GarbageInv, NEW s \in Nat
  PROVE  Garbage!Cardinality(Garbage!SeenBy(s)) <= 1
<1> DEFINE V == {x \in versions : Garbage!visibleTo(x, s)}
<1>1. Garbage!SeenBy(s) = {v.xmin : v \in V}
  BY DEF Garbage!SeenBy
<1>2. \A v, w \in V : v = w
  <2> SUFFICES ASSUME NEW v \in V, NEW w \in V, Before(v, w) PROVE FALSE
    BY DEF GarbageInv
  <2>1. /\ v.xmax \in Nat /\ w.xmin \in Nat /\ v.xmax # Garbage!Current /\ v.xmax <= w.xmin
        /\ w.xmin < s /\ v.xmax >= s
    BY DEF GarbageInv, Span, Before, Garbage!visibleTo
  <2> QED BY <2>1
<1> HIDE DEF V
<1>3. CASE V = {}
  <2>1. Garbage!SeenBy(s) = {}
    BY <1>1, <1>3
  <2>2. Cardinality({}) = 0
    BY FS_EmptySet
  <2> QED BY <2>1, <2>2 DEF Cardinality, Garbage!Cardinality
<1>4. CASE V # {}
  <2>1. PICK v : v \in V
    BY <1>4
  <2>2. Garbage!SeenBy(s) = {v.xmin}
    BY <1>1, <1>2, <2>1
  <2>3. Cardinality({v.xmin}) = 1
    BY FS_Singleton
  <2> QED BY <2>2, <2>3 DEF Cardinality, Garbage!Cardinality
<1> QED BY <1>3, <1>4

LEMMA GarbageStepKeeps ==
  ASSUME Garbage!GarbageAssumption, GarbageInv, Garbage!GarbageStep
  PROVE  GarbageInv' /\ Garbage!ReadersKeepTheirVersion
<1>1. \A s \in Garbage!ToSet(readers) : s \in Nat
  BY HeldSnapshots DEF GarbageInv
<1>2. \A s \in Garbage!ToSet(readers) : Garbage!Cardinality(Garbage!SeenBy(s)) <= 1
  BY <1>1, SeesAtMostOne
<1>3. CASE \/ Garbage!OpenReader \/ Garbage!CloseOldest
           \/ \E s \in START_XID .. nextId : Garbage!DragOldest(s)
  <2>1. versions' = versions
    BY <1>3 DEF Garbage!OpenReader, Garbage!CloseOldest, Garbage!DragOldest
  <2>2. \A s : Garbage!SeenBy(s)' = Garbage!SeenBy(s)
    BY <2>1 DEF Garbage!SeenBy, Garbage!visibleTo, Garbage!Current
  <2>3. GarbageInv'
    BY <1>3, ReaderKeeps
  <2> QED BY <1>2, <2>2, <2>3 DEF Garbage!ReadersKeepTheirVersion
<1>4. CASE Garbage!RowUpdate \/ Garbage!RowDelete \/ Garbage!RowInsert
  BY <1>2, <1>4, RowWriteKeeps DEF Garbage!ReadersKeepTheirVersion
<1>5. CASE Garbage!Reclaim
  BY <1>2, <1>5, ReclaimKeeps DEF Garbage!ReadersKeepTheirVersion
<1> QED BY <1>3, <1>4, <1>5 DEF Garbage!GarbageStep

LEMMA GarbageStutters ==
  ASSUME GarbageInv, UNCHANGED garbageVars
  PROVE  GarbageInv'
BY DEF garbageVars, GarbageInv, Span, Before, Garbage!Current

LEMMA GarbageAlways == Spec => []GarbageThere
<1>1. Garbage!GarbageAssumption
  BY Assumption
<1>2. Init => GarbageThere
  <2> SUFFICES ASSUME Init, lab = "garbage" PROVE GarbageInv
    BY DEF GarbageThere
  <2>1. /\ nextId = START_XID + 1 /\ versions = {[xmin |-> START_XID, xmax |-> 0]}
        /\ readers = <<START_XID + 1>> /\ deleted = FALSE /\ START_XID \in Nat
    BY <1>1 DEF Init, Garbage!GarbageInit, Garbage!Current, Garbage!GarbageAssumption
  <2>2. readers \in Seq(Nat) /\ \A i \in DOMAIN readers : readers[i] <= nextId
    BY <2>1
  <2> QED BY <2>1, <2>2 DEF GarbageInv, Span, Before, Garbage!Current
<1>3. ASSUME GarbageThere, [Next]_vars PROVE GarbageThere'
  <2>1. CASE UNCHANGED vars
    BY <1>3, <2>1, GarbageStutters DEF vars, GarbageThere
  <2>2. CASE Next
    BY <1>1, <1>3, <2>2, GarbageStepKeeps DEF Next, Step, GarbageThere
  <2> QED BY <1>3, <2>1, <2>2
<1>4. GarbageThere /\ [Next]_vars => GarbageThere'
  BY <1>3
<1> QED BY <1>2, <1>4, PTL DEF Spec

-------------------------------------------------------------------------------
(* The update path of a heap page.                                         *)

IsVersion(v) ==
  /\ v = [row |-> v.row, xmin |-> v.xmin, xmax |-> v.xmax, hot |-> v.hot, link |-> v.link]
  /\ v.xmin \in Nat /\ v.xmax \in Nat

(* A line pointer is in the state that goes with what it holds. *)
LpFits(p) ==
  /\ p = [state |-> p.state, redirect |-> p.redirect, ver |-> p.ver]
  /\ p.ver # Hot!NoVer <=> p.state = "normal"
  /\ p.ver # Hot!NoVer => IsVersion(p.ver)

PageFits(page) ==
  /\ page \in Seq({page[i] : i \in DOMAIN page})
  /\ \A i \in DOMAIN page : LpFits(page[i])

(* The line pointers that VACUUM has noted hold nothing, and no snapshot   *)
(* is of the future.                                                       *)
HotInv ==
  /\ xid \in Nat /\ snapXid \in Nat /\ snapXid <= xid
  /\ PageFits(lps)
  /\ \A i \in deadTids : i \in Hot!LpId /\ lps[i].state = "dead"

HotThere == lab = "hot" => HotInv

(* The chain's loop: what it has after k turns, and that it exists.        *)
Follows(i, k, g) == g = [n \in 0 .. k |-> IF n = 0 THEN <<>> ELSE Hot!Follow(g[n - 1], i)]

LEMMA FollowsExist ==
  ASSUME NEW i
  PROVE  \A k \in Nat : \E g : Follows(i, k, g)
<1> DEFINE T == {k \in Nat : ~\E g : Follows(i, k, g)}
<1> SUFFICES ASSUME T # {} PROVE FALSE
  OBVIOUS
<1>1. PICK k \in T : \A m \in T : k <= m
  BY LeastIn
<1>2. k \in Nat /\ ~\E g : Follows(i, k, g)
  BY <1>1
<1>3. k # 0
  <2> SUFFICES ASSUME k = 0 PROVE FALSE
    OBVIOUS
  <2> DEFINE g == [n \in 0 .. 0 |-> <<>>]
  <2>1. g = [n \in 0 .. 0 |-> IF n = 0 THEN <<>> ELSE Hot!Follow(g[n - 1], i)]
    OBVIOUS
  <2> HIDE DEF g
  <2> QED BY <1>2, <2>1 DEF Follows
<1>4. k - 1 \in Nat /\ \E g : Follows(i, k - 1, g)
  <2>1. k - 1 \in Nat /\ ~(k <= k - 1)
    BY <1>2, <1>3
  <2> QED BY <1>1, <2>1
<1>5. PICK g : Follows(i, k - 1, g)
  BY <1>4
<1>6. g = [n \in 0 .. k - 1 |-> IF n = 0 THEN <<>> ELSE Hot!Follow(g[n - 1], i)]
  BY <1>5 DEF Follows
<1>7. \A n \in 0 .. k - 1 : g[n] = IF n = 0 THEN <<>> ELSE Hot!Follow(g[n - 1], i)
  BY <1>2, <1>3, <1>6
<1> DEFINE e == [n \in 0 .. k |-> IF n = k THEN Hot!Follow(g[k - 1], i) ELSE g[n]]
<1>8. ASSUME NEW n \in 0 .. k
      PROVE  e[n] = IF n = 0 THEN <<>> ELSE Hot!Follow(e[n - 1], i)
  <2>1. CASE n = k
    <3>1. k - 1 \in 0 .. k /\ k - 1 # k /\ k \in 0 .. k
      BY <1>2, <1>3
    <3>2. e[k] = Hot!Follow(g[k - 1], i) /\ e[k - 1] = g[k - 1]
      BY <3>1
    <3> QED BY <1>3, <2>1, <3>2
  <2>2. CASE n # k
    <3>1. n \in 0 .. k - 1 /\ e[n] = g[n]
      BY <1>2, <2>2
    <3>2. CASE n = 0
      BY <1>7, <3>1, <3>2
    <3>3. CASE n # 0
      <4>1. n - 1 \in 0 .. k /\ n - 1 # k
        BY <1>2, <2>2, <3>3
      <4>2. e[n - 1] = g[n - 1]
        BY <4>1
      <4> QED BY <1>7, <3>1, <3>3, <4>2
    <3> QED BY <3>2, <3>3
  <2> QED BY <2>1, <2>2
<1>9. e = [n \in 0 .. k |-> e[n]]
  OBVIOUS
<1> HIDE DEF e
<1>10. e = [n \in 0 .. k |-> IF n = 0 THEN <<>> ELSE Hot!Follow(e[n - 1], i)]
  BY <1>8, <1>9
<1> QED BY <1>2, <1>10 DEF Follows

(* A chain's members hold versions, each linked to the next, and it begins *)
(* where it is said to.                                                    *)
ChainFits(c, i) ==
  /\ c \in Seq(Hot!LpId)
  /\ \A j \in DOMAIN c : c[j] \in Hot!LpId /\ Hot!HasVer(c[j])
  /\ \A j \in DOMAIN c : j < Len(c) => c[j + 1] = lps[c[j]].ver.link
  /\ c # <<>> => c[1] = i
  /\ Len(c) \in Nat

(* The walk is over, or has gone on at each of its turns.                  *)
HasWalked(c, i, turns) == Len(c) = turns \/ Hot!Follow(c, i) = c

LEMMA FollowFits ==
  ASSUME NEW c, NEW i, ChainFits(c, i)
  PROVE  ChainFits(Hot!Follow(c, i), i)
<1> DEFINE at == IF c = <<>> THEN i ELSE lps[c[Len(c)]].ver.link
<1>1. CASE ~(at \in Hot!LpId /\ Hot!HasVer(at))
  BY <1>1 DEF Hot!Follow
<1>2. CASE at \in Hot!LpId /\ Hot!HasVer(at)
  <2>1. Hot!Follow(c, i) = Append(c, at)
    BY <1>2 DEF Hot!Follow
  <2>2. c \in Seq(Hot!LpId) /\ Len(c) \in Nat /\ DOMAIN c = 1 .. Len(c)
    BY LenProperties DEF ChainFits
  <2>3. c = <<>> => at = i /\ Len(c) = 0
    OBVIOUS
  <2>4. c # <<>> => c[1] = i /\ Len(c) # 0
    BY <2>2, EmptySeq DEF ChainFits
  <2> HIDE DEF at
  <2>5. /\ Append(c, at) \in Seq(Hot!LpId) /\ Len(Append(c, at)) = Len(c) + 1
        /\ \A j \in 1 .. Len(c) : Append(c, at)[j] = c[j]
        /\ Append(c, at)[Len(c) + 1] = at
    BY <1>2, <2>2, AppendProperties
  <2>6. DOMAIN Append(c, at) = 1 .. Len(c) + 1
    BY <2>2, <2>5, LenProperties
  <2>7. ASSUME NEW j \in 1 .. Len(c) + 1
        PROVE  Append(c, at)[j] \in Hot!LpId /\ Hot!HasVer(Append(c, at)[j])
    <3>1. j \in 1 .. Len(c) \/ j = Len(c) + 1
      BY <2>2
    <3> QED BY <1>2, <2>2, <2>5, <3>1 DEF ChainFits
  <2>8. Append(c, at)[1] = i
    <3>1. CASE c = <<>>
      BY <2>3, <2>5, <3>1
    <3>2. CASE c # <<>>
      <4>1. 1 \in 1 .. Len(c)
        BY <2>2, <2>4, <3>2
      <4> QED BY <2>4, <2>5, <3>2, <4>1
    <3> QED BY <3>1, <3>2
  <2>9. ASSUME NEW j \in 1 .. Len(c) + 1, j < Len(c) + 1
        PROVE  Append(c, at)[j + 1] = lps[Append(c, at)[j]].ver.link
    <3>1. CASE j = Len(c)
      <4>1. c # <<>> /\ j \in 1 .. Len(c)
        <5>1. j \in 1 .. Len(c) /\ Len(c) # 0
          BY <2>2, <3>1
        <5> QED BY <2>3, <5>1
      <4>2. at = lps[c[j]].ver.link
        BY <3>1, <4>1 DEF at
      <4> QED BY <2>5, <3>1, <4>1, <4>2
    <3>2. CASE j # Len(c)
      <4>1. j \in 1 .. Len(c) /\ j < Len(c) /\ j + 1 \in 1 .. Len(c)
        <5>1. Len(c) \in Nat /\ j \in 1 .. Len(c) + 1 /\ j < Len(c) + 1 /\ j # Len(c)
          BY <2>2, <2>9, <3>2
        <5> QED BY <5>1
      <4>2. c[j + 1] = lps[c[j]].ver.link
        BY <2>2, <4>1 DEF ChainFits
      <4>3. Append(c, at)[j + 1] = c[j + 1] /\ Append(c, at)[j] = c[j]
        BY <2>5, <4>1
      <4> QED BY <4>2, <4>3
    <3> QED BY <3>1, <3>2
  <2> QED BY <2>1, <2>2, <2>5, <2>6, <2>7, <2>8, <2>9 DEF ChainFits
<1> QED BY <1>1, <1>2

LEMMA FollowWalks ==
  ASSUME NEW c, NEW i, NEW k \in Nat, ChainFits(c, i), HasWalked(c, i, k)
  PROVE  HasWalked(Hot!Follow(c, i), i, k + 1)
<1>1. CASE Hot!Follow(c, i) = c
  BY <1>1 DEF HasWalked
<1>2. CASE Hot!Follow(c, i) # c
  <2> DEFINE at == IF c = <<>> THEN i ELSE lps[c[Len(c)]].ver.link
  <2>1. Hot!Follow(c, i) = Append(c, at) /\ at \in Hot!LpId
    BY <1>2 DEF Hot!Follow
  <2> HIDE DEF at
  <2>2. Len(Append(c, at)) = Len(c) + 1
    BY <2>1, AppendProperties DEF ChainFits
  <2> QED BY <1>2, <2>1, <2>2 DEF HasWalked
<1> QED BY <1>1, <1>2

LEMMA ChainFromFits ==
  ASSUME HotInv, NEW i
  PROVE  ChainFits(Hot!ChainFrom(i), i) /\ HasWalked(Hot!ChainFrom(i), i, Len(lps))
<1> DEFINE n == Len(lps)
           g == CHOOSE f : Follows(i, n, f)
<1>0. n \in Nat
  BY LenProperties DEF HotInv, PageFits
<1>1. Follows(i, n, g)
  BY <1>0, FollowsExist
<1>2. Hot!ChainFrom(i) = g[n]
  BY DEF Hot!ChainFrom, Follows
<1> HIDE DEF g, n
<1>3. \A k \in 0 .. n : g[k] = IF k = 0 THEN <<>> ELSE Hot!Follow(g[k - 1], i)
  BY <1>1 DEF Follows
<1> DEFINE Fits(k) == ChainFits(g[k], i) /\ HasWalked(g[k], i, k)
<1>4. ASSUME NEW k \in Nat, k <= n, ~Fits(k) PROVE FALSE
  <2> DEFINE T == {m \in Nat : m <= n /\ ~Fits(m)}
  <2>1. PICK m \in T : \A j \in T : m <= j
    <3>1. k \in T
      BY <1>4
    <3> HIDE DEF T
    <3>2. T # {} /\ T \subseteq Nat
      BY <3>1 DEF T
    <3> QED BY <3>2, LeastIn
  <2>2. m \in Nat /\ m <= n /\ ~Fits(m)
    BY <2>1
  <2>3. CASE m = 0
    <3>1. g[0] = <<>>
      BY <1>0, <1>3
    <3>2. ChainFits(<<>>, i) /\ HasWalked(<<>>, i, 0)
      BY DEF ChainFits, HasWalked
    <3> QED BY <2>2, <2>3, <3>1, <3>2
  <2>4. CASE m # 0
    <3>1. m - 1 \in Nat /\ m - 1 <= n /\ ~(m <= m - 1) /\ m \in 0 .. n
      BY <1>0, <2>2, <2>4
    <3>2. Fits(m - 1)
      BY <2>1, <3>1
    <3>3. g[m] = Hot!Follow(g[m - 1], i)
      BY <1>3, <2>4, <3>1
    <3>4. ChainFits(g[m], i)
      BY <3>2, <3>3, FollowFits
    <3>5. HasWalked(g[m], i, m)
      <4>1. HasWalked(g[m], i, m - 1 + 1)
        BY <3>1, <3>2, <3>3, FollowWalks
      <4> QED BY <2>2, <4>1
    <3> QED BY <2>2, <3>4, <3>5
  <2> QED BY <2>3, <2>4
<1>5. Fits(n)
  BY <1>0, <1>4
<1> QED BY <1>2, <1>5 DEF n

(* The dead head of a chain: what it counts is dead, what comes next not.  *)
LEMMA DeadHeadIsDead ==
  ASSUME NEW c, Len(c) \in Nat
  PROVE  /\ Hot!DeadHead(c) \in 0 .. Len(c)
         /\ \A j \in 1 .. Hot!DeadHead(c) : Hot!isDead(lps[c[j]].ver)
         /\ Hot!DeadHead(c) < Len(c) => ~Hot!isDead(lps[c[Hot!DeadHead(c) + 1]].ver)
<1> DEFINE n == Len(c)
           Dead(j) == Hot!isDead(lps[c[j]].ver)
           T == {k \in Nat : k <= n /\ (k < n => ~Dead(k + 1))}
<1>1. n \in T
  OBVIOUS
<1> HIDE DEF Dead
<1>2. PICK k \in T : \A m \in T : k <= m
  <2> HIDE DEF n
  <2>1. T # {} /\ T \subseteq Nat
    BY <1>1
  <2> QED BY <2>1, LeastIn
<1>3. k \in Nat /\ k <= n /\ (k < n => ~Dead(k + 1))
  BY <1>2
<1>4. ASSUME NEW j \in 1 .. k PROVE Dead(j)
  <2>1. j - 1 \in Nat /\ j - 1 < n /\ ~(k <= j - 1) /\ (j - 1) + 1 = j
    BY <1>3
  <2>2. j - 1 \notin T
    BY <1>2, <2>1
  <2> QED BY <2>1, <2>2
<1>5. \E l \in 0 .. n : (\A j \in 1 .. l : Dead(j)) /\ (l < n => ~Dead(l + 1))
  BY <1>3, <1>4
<1>6. Hot!DeadHead(c) = CHOOSE l \in 0 .. n : (\A j \in 1 .. l : Dead(j)) /\ (l < n => ~Dead(l + 1))
  BY DEF Hot!DeadHead, Dead
<1> HIDE DEF n
<1>7. /\ Hot!DeadHead(c) \in 0 .. n
      /\ \A j \in 1 .. Hot!DeadHead(c) : Dead(j)
      /\ Hot!DeadHead(c) < n => ~Dead(Hot!DeadHead(c) + 1)
  BY <1>5, <1>6
<1> QED BY <1>7 DEF n, Dead

(* The chain from the root item at line pointer i. *)
LEMMA ChainIsThere ==
  ASSUME HotInv, NEW i
  PROVE  LET c == Hot!Chain(i)
         IN  /\ Len(c) \in Nat
             /\ \A j \in 1 .. Len(c) : c[j] \in Hot!LpId /\ Hot!HasVer(c[j])
             /\ Len(c) # 0 /\ lps[i].state # "redirect" => c[1] = i
<1> DEFINE at == IF lps[i].state = "redirect" THEN lps[i].redirect ELSE i
           c == Hot!Chain(i)
<1>1. ChainFits(c, at)
  BY ChainFromFits DEF Hot!Chain
<1>2. DOMAIN c = 1 .. Len(c) /\ Len(c) \in Nat
  BY <1>1, LenProperties DEF ChainFits
<1>3. Len(c) # 0 => c # <<>>
  OBVIOUS
<1> HIDE DEF c
<1> QED BY <1>1, <1>2, <1>3 DEF ChainFits, c

(* What a pruning removes is dead. *)
LEMMA RemovedAreDead ==
  ASSUME HotInv, NEW i \in Hot!Removed
  PROVE  i \in Hot!LpId /\ Hot!HasVer(i) /\ Hot!isDead(lps[i].ver)
<1>0. PICK r \in Hot!LpId : \E k \in 1 .. Hot!DeadHead(Hot!Chain(r)) : i = Hot!Chain(r)[k]
  BY DEF Hot!Removed
<1>1. PICK k \in 1 .. Hot!DeadHead(Hot!Chain(r)) : i = Hot!Chain(r)[k]
  BY <1>0
<1> DEFINE c == Hot!Chain(r)
<1>2. Len(c) \in Nat /\ \A j \in 1 .. Len(c) : c[j] \in Hot!LpId /\ Hot!HasVer(c[j])
  BY ChainIsThere
<1> HIDE DEF c
<1>3. Hot!DeadHead(c) \in 0 .. Len(c) /\ \A j \in 1 .. Hot!DeadHead(c) : Hot!isDead(lps[c[j]].ver)
  BY <1>2, DeadHeadIsDead
<1>4. i = c[k] /\ k \in 1 .. Hot!DeadHead(c)
  BY <1>1 DEF c
<1>5. k \in 1 .. Len(c)
  BY <1>2, <1>3, <1>4
<1> QED BY <1>2, <1>3, <1>4, <1>5

LEMMA VersionIsNone ==
  /\ \A v : IsVersion(v) => v # Hot!NoVer
  /\ \A row, min, hot : min \in Nat => IsVersion(Hot!Version(row, min, hot))
<1>1. ASSUME NEW v, IsVersion(v), v = Hot!NoVer PROVE FALSE
  <2>1. DOMAIN v = {"row", "xmin", "xmax", "hot", "link"}
    BY <1>1 DEF IsVersion
  <2>2. DOMAIN v = {"row"}
    BY <1>1 DEF Hot!NoVer
  <2> QED BY <2>1, <2>2
<1>2. \A row, min, hot : min \in Nat => IsVersion(Hot!Version(row, min, hot))
  BY DEF IsVersion, Hot!Version, Hot!Live
<1> QED BY <1>1, <1>2

(* Each line pointer keeps its version or loses a dead one.                *)
LEMMA PruneTakesTheDead ==
  ASSUME HotInv, NEW i \in Hot!LpId
  PROVE  LET p == Hot!PrunedLp(i, Hot!Removed)
         IN  \/ p = lps[i]
             \/ /\ p = [state |-> p.state, redirect |-> p.redirect, ver |-> p.ver]
                /\ p.ver = Hot!NoVer
                /\ p.state \in {"redirect", "unused", "dead"}
                /\ lps[i].state \in {"normal", "redirect"}
                /\ Hot!HasVer(i) => Hot!isDead(lps[i].ver)
<1> DEFINE p == Hot!PrunedLp(i, Hot!Removed)
           c == Hot!Chain(i)
           k == Hot!DeadHead(c)
<1>1. /\ Len(c) \in Nat
      /\ Len(c) # 0 /\ lps[i].state # "redirect" => c[1] = i
  BY ChainIsThere
<1> HIDE DEF c
<1>2. k \in 0 .. Len(c) /\ \A j \in 1 .. k : Hot!isDead(lps[c[j]].ver)
  BY <1>1, DeadHeadIsDead
<1>3. p = IF Hot!Root(i) /\ k > 0
            THEN IF k < Len(c) THEN Hot!Lp("redirect", c[k + 1], Hot!NoVer)
                 ELSE IF lps[i].state = "redirect" THEN Hot!clearVer("dead") ELSE Hot!Stub(i)
          ELSE IF i \in Hot!Removed THEN Hot!Stub(i)
          ELSE lps[i]
  BY DEF Hot!PrunedLp, c
<1> HIDE DEF k, p
<1>4. Hot!HasVer(i) <=> lps[i].state = "normal"
  BY DEF HotInv, PageFits, LpFits, Hot!HasVer, Hot!LpId
<1>5. CASE Hot!Root(i) /\ k > 0
  <2>1. lps[i].state \in {"normal", "redirect"}
    BY <1>5 DEF Hot!Root
  <2>2. Hot!HasVer(i) => Hot!isDead(lps[i].ver)
    <3> SUFFICES ASSUME Hot!HasVer(i) PROVE Hot!isDead(lps[i].ver)
      OBVIOUS
    <3>1. 1 \in 1 .. k /\ Len(c) # 0
      BY <1>1, <1>2, <1>5
    <3> QED BY <1>1, <1>2, <1>4, <3>1
  <2>3. /\ p = [state |-> p.state, redirect |-> p.redirect, ver |-> p.ver]
        /\ p.ver = Hot!NoVer
        /\ p.state \in {"redirect", "unused", "dead"}
    BY <1>3, <1>5 DEF Hot!Lp, Hot!clearVer, Hot!Stub
  <2> QED BY <2>1, <2>2, <2>3 DEF p
<1>6. CASE ~(Hot!Root(i) /\ k > 0) /\ i \in Hot!Removed
  <2>1. p = Hot!Stub(i)
    BY <1>3, <1>6
  <2>2. Hot!HasVer(i) /\ Hot!isDead(lps[i].ver)
    BY <1>6, RemovedAreDead
  <2>3. /\ p = [state |-> p.state, redirect |-> p.redirect, ver |-> p.ver]
        /\ p.ver = Hot!NoVer
        /\ p.state \in {"redirect", "unused", "dead"}
    BY <2>1 DEF Hot!Lp, Hot!clearVer, Hot!Stub
  <2> QED BY <1>4, <2>2, <2>3 DEF p
<1>7. CASE ~(Hot!Root(i) /\ k > 0) /\ i \notin Hot!Removed
  BY <1>3, <1>7 DEF p
<1> QED BY <1>5, <1>6, <1>7

-------------------------------------------------------------------------------
(* The versions on a page that a snapshot at s sees.                       *)
Seen(v, s)     == v.xmin < s /\ (v.xmax = Hot!Live \/ v.xmax >= s)
SeenOn(page, s) == {i \in DOMAIN page : page[i].ver # Hot!NoVer /\ Seen(page[i].ver, s)}
RowsOn(page, s) == {<<page[i].ver.row, page[i].ver.xmin>> : i \in SeenOn(page, s)}

LEMMA RowsOnPage ==
  /\ Hot!OnPageFor(snapXid) = RowsOn(lps, snapXid)
  /\ Hot!OnPageFor(snapXid)' = RowsOn(lps', snapXid')
BY DEF Hot!OnPageFor, RowsOn, SeenOn, Seen, Hot!LpId, Hot!HasVer, Hot!NoVer, Hot!Live

LEMMA SameRows ==
  ASSUME NEW p, NEW q, NEW s,
         SeenOn(p, s) = SeenOn(q, s),
         \A i \in SeenOn(p, s) : p[i].ver.row = q[i].ver.row /\ p[i].ver.xmin = q[i].ver.xmin
  PROVE  RowsOn(p, s) = RowsOn(q, s)
BY DEF RowsOn

LEMMA FunctionIsPage ==
  ASSUME NEW n \in Nat, NEW p, p = [i \in 1 .. n |-> p[i]],
         \A i \in 1 .. n : LpFits(p[i])
  PROVE  PageFits(p) /\ DOMAIN p = 1 .. n /\ Len(p) = n
<1>1. p \in [1 .. n -> {p[i] : i \in 1 .. n}] /\ DOMAIN p = 1 .. n
  OBVIOUS
<1>2. p \in Seq({p[i] : i \in 1 .. n})
  BY <1>1, SeqDef
<1>3. Len(p) = n
  BY <1>1, <1>2, LenProperties
<1> QED BY <1>1, <1>2, <1>3 DEF PageFits

LEMMA PageIsFunction ==
  ASSUME NEW p, PageFits(p)
  PROVE  Len(p) \in Nat /\ DOMAIN p = 1 .. Len(p) /\ p = [i \in 1 .. Len(p) |-> p[i]]
<1>1. Len(p) \in Nat /\ DOMAIN p = 1 .. Len(p) /\ p \in [1 .. Len(p) -> {p[i] : i \in DOMAIN p}]
  BY LenProperties DEF PageFits
<1> QED BY <1>1

(* Pruning leaves the page well formed and every snapshot its rows.        *)
LEMMA PruneKeeps ==
  ASSUME HotInv, Hot!prune
  PROVE  /\ PageFits(lps') /\ DOMAIN lps' = DOMAIN lps
         /\ \A i \in DOMAIN lps : lps[i].state = "dead" => lps'[i].state = "dead"
         /\ snapXid # Hot!NoSnapshot => RowsOn(lps', snapXid) = RowsOn(lps, snapXid)
<1> DEFINE n == Len(lps)
<1>0. n \in Nat /\ DOMAIN lps = 1 .. n /\ \A i \in 1 .. n : LpFits(lps[i])
  BY PageIsFunction DEF HotInv, PageFits
<1>1. lps' = [i \in DOMAIN lps |-> Hot!PrunedLp(i, Hot!Removed)]
  BY DEF Hot!prune, Hot!LpId
<1>2. ASSUME NEW i \in DOMAIN lps
      PROVE  \/ lps'[i] = lps[i]
             \/ /\ lps'[i] = [state |-> lps'[i].state, redirect |-> lps'[i].redirect,
                              ver |-> lps'[i].ver]
                /\ lps'[i].ver = Hot!NoVer
                /\ lps'[i].state \in {"redirect", "unused", "dead"}
                /\ lps[i].state \in {"normal", "redirect"}
                /\ lps[i].ver # Hot!NoVer => Hot!isDead(lps[i].ver)
  <2>1. lps'[i] = Hot!PrunedLp(i, Hot!Removed)
    BY <1>1
  <2>2. i \in Hot!LpId
    BY DEF Hot!LpId
  <2> QED BY <2>1, <2>2, PruneTakesTheDead DEF Hot!HasVer
<1>3. DOMAIN lps' = 1 .. n /\ lps' = [i \in 1 .. n |-> lps'[i]]
  BY <1>0, <1>1
<1>4. ASSUME NEW i \in 1 .. n PROVE LpFits(lps'[i])
  <2>1. CASE lps'[i] = lps[i]
    BY <1>0, <2>1
  <2>2. CASE lps'[i] # lps[i]
    BY <1>0, <1>2, <2>2 DEF LpFits
  <2> QED BY <2>1, <2>2
<1>5. PageFits(lps')
  BY <1>0, <1>3, <1>4, FunctionIsPage
<1>6. \A i \in DOMAIN lps : lps[i].state = "dead" => lps'[i].state = "dead"
  BY <1>2
<1>7. ASSUME snapXid # Hot!NoSnapshot
      PROVE  RowsOn(lps', snapXid) = RowsOn(lps, snapXid)
  <2>1. snapXid \in Nat /\ Hot!horizon = snapXid
    BY <1>7 DEF HotInv, Hot!horizon
  <2>2. ASSUME NEW i \in DOMAIN lps, lps'[i] # lps[i]
        PROVE  i \notin SeenOn(lps, snapXid) /\ i \notin SeenOn(lps', snapXid)
    <3>1. lps'[i].ver = Hot!NoVer
      BY <1>2, <2>2
    <3>2. ASSUME lps[i].ver # Hot!NoVer PROVE ~Seen(lps[i].ver, snapXid)
      <4>1. Hot!isDead(lps[i].ver) /\ lps[i].ver.xmax \in Nat
        <5>1. IsVersion(lps[i].ver)
          BY <1>0, <3>2 DEF LpFits
        <5> QED BY <1>2, <2>2, <3>2, <5>1 DEF IsVersion
      <4> QED BY <2>1, <4>1 DEF Seen, Hot!isDead
    <3> QED BY <3>1, <3>2 DEF SeenOn
  <2>3. \A i \in DOMAIN lps : lps'[i] = lps[i] =>
          (i \in SeenOn(lps, snapXid) <=> i \in SeenOn(lps', snapXid))
    BY <1>0, <1>3 DEF SeenOn
  <2>4. SeenOn(lps', snapXid) = SeenOn(lps, snapXid)
    <3>1. SeenOn(lps', snapXid) \subseteq DOMAIN lps /\ SeenOn(lps, snapXid) \subseteq DOMAIN lps
      BY <1>0, <1>3 DEF SeenOn
    <3> QED BY <2>2, <2>3, <3>1
  <2>5. \A i \in SeenOn(lps', snapXid) : lps'[i] = lps[i]
    BY <1>0, <1>3, <2>2 DEF SeenOn
  <2> QED BY <2>4, <2>5, SameRows
<1> QED BY <1>0, <1>3, <1>5, <1>6, <1>7

Ended(p, i, x, l) == [p EXCEPT ![i].ver.xmax = x, ![i].ver.link = l]

(* The page of which the version at line pointer i has been ended. *)
LEMMA EndedPage ==
  ASSUME NEW p, PageFits(p), NEW i \in DOMAIN p, IsVersion(p[i].ver), NEW x \in Nat, NEW l
  PROVE  LET q == Ended(p, i, x, l)
         IN  /\ PageFits(q) /\ DOMAIN q = DOMAIN p
             /\ \A j \in DOMAIN p : j # i => q[j] = p[j]
             /\ q[i].state = p[i].state /\ q[i].ver # Hot!NoVer
             /\ q[i].ver.row = p[i].ver.row /\ q[i].ver.xmin = p[i].ver.xmin
             /\ q[i].ver.xmax = x /\ q[i].ver.link = l /\ q[i].ver.hot = p[i].ver.hot
<1>0. PICK q : q = Ended(p, i, x, l)
  OBVIOUS
<1> DEFINE n  == Len(p)
           v  == p[i].ver
           w1 == [v EXCEPT !.xmax = x]
           w2 == [w1 EXCEPT !.link = l]
<1>1. /\ n \in Nat /\ DOMAIN p = 1 .. n /\ p = [j \in 1 .. n |-> p[j]]
      /\ \A j \in 1 .. n : LpFits(p[j])
  BY PageIsFunction DEF PageFits
<1> HIDE DEF n
<1>2. q = [p EXCEPT ![i].ver.xmax = x, ![i].ver.link = l]
  BY <1>0 DEF Ended
<1>3. q[i] = [p[i] EXCEPT !.ver = w2]
  BY <1>2
<1>4. q = [j \in 1 .. n |-> q[j]] /\ \A j \in 1 .. n : j # i => q[j] = p[j]
  BY <1>1, <1>2
<1>5. PICK a, b, c, d, e : v = [row |-> a, xmin |-> b, xmax |-> c, hot |-> d, link |-> e]
  BY DEF IsVersion
<1>6. v.row = a /\ v.xmin = b /\ v.hot = d /\ b \in Nat
  BY <1>5 DEF IsVersion
<1>7. w2 = [row |-> a, xmin |-> b, xmax |-> x, hot |-> d, link |-> l]
  <2> HIDE DEF v
  <2>1. w1 = [row |-> a, xmin |-> b, xmax |-> x, hot |-> d, link |-> e]
    BY <1>5
  <2> HIDE DEF w1
  <2> QED BY <2>1
<1> HIDE DEF w2
<1>8. q[i] = [state |-> p[i].state, redirect |-> p[i].redirect, ver |-> w2]
  <2>1. LpFits(p[i])
    BY <1>1
  <2>2. PICK s, r, u : p[i] = [state |-> s, redirect |-> r, ver |-> u]
    BY <2>1 DEF LpFits
  <2> QED BY <1>3, <2>2
<1>9. /\ w2.row = v.row /\ w2.xmin = v.xmin /\ w2.xmax = x /\ w2.link = l
      /\ IsVersion(w2) /\ w2 # Hot!NoVer
  <2>1. w2.row = a /\ w2.xmin = b /\ w2.xmax = x /\ w2.hot = d /\ w2.link = l
    BY <1>7
  <2>2. IsVersion(w2)
    BY <1>6, <1>7, <2>1 DEF IsVersion
  <2> QED BY <1>6, <2>1, <2>2, VersionIsNone
<1>10. p[i].state = "normal"
  <2>1. LpFits(p[i]) /\ p[i].ver # Hot!NoVer
    BY <1>1, VersionIsNone
  <2> QED BY <2>1 DEF LpFits
<1>11. LpFits(q[i])
  <2>1. q[i].state = "normal" /\ q[i].ver = w2 /\ q[i].redirect = p[i].redirect
    BY <1>8, <1>10
  <2> QED BY <1>8, <1>9, <1>10, <2>1 DEF LpFits
<1>12. PageFits(q) /\ DOMAIN q = 1 .. n
  <2>1. \A j \in 1 .. n : LpFits(q[j])
    BY <1>1, <1>4, <1>11
  <2> QED BY <1>1, <1>4, <2>1, FunctionIsPage
<1>13. q[i].state = p[i].state /\ q[i].ver = w2
  BY <1>8
<1> HIDE DEF v
<1>14. q[i].ver.row = p[i].ver.row /\ q[i].ver.xmin = p[i].ver.xmin
  BY <1>9, <1>13 DEF v
<1>15. q[i].ver.hot = p[i].ver.hot
  <2>1. w2.hot = d /\ v.hot = d
    BY <1>6, <1>7
  <2> QED BY <1>13, <2>1 DEF v
<1> QED BY <1>0, <1>1, <1>4, <1>9, <1>12, <1>13, <1>14, <1>15

(* An update ends a version and puts the new one where none was.           *)
LEMMA UpdatedPage ==
  ASSUME HotInv, NEW i \in Hot!LpId, NEW keyed \in BOOLEAN, Hot!pgUpdate(i, keyed)
  PROVE  LET n   == Len(lps)
             hot == ~keyed /\ Hot!fits
             new == Hot!Lp("normal", 0, Hot!Version(lps[i].ver.row, xid, hot))
         IN  /\ i \in 1 .. n /\ lps[i].ver # Hot!NoVer /\ lps[i].ver.xmax = Hot!Live
             /\ LpFits(new) /\ new.ver # Hot!NoVer
             /\ PageFits(lps') /\ Len(lps') \in Nat /\ n <= Len(lps')
             /\ \A j \in 1 .. n : j # i /\ (j # Hot!target \/ ~Hot!fits) => lps'[j] = lps[j]
             /\ lps'[i].state = "normal" /\ lps'[i].ver # Hot!NoVer
             /\ lps'[i].ver.row = lps[i].ver.row /\ lps'[i].ver.xmin = lps[i].ver.xmin
             /\ lps'[i].ver.hot = lps[i].ver.hot /\ lps'[i].ver.xmax = xid
             /\ lps'[i].ver.link = IF hot THEN Hot!target ELSE 0
             /\ ~Hot!fits => Len(lps') = n
             /\ Hot!fits => /\ Hot!target \in 1 .. Len(lps') /\ lps'[Hot!target] = new
                            /\ Hot!target = n + 1 \/ lps[Hot!target].state = "unused"
                            /\ Hot!target # i
                            /\ \A j \in 1 .. Len(lps') : j \in 1 .. n \/ j = Hot!target
<1> DEFINE n    == Len(lps)
           hot  == ~keyed /\ Hot!fits
           t    == Hot!target
           new  == Hot!Lp("normal", 0, Hot!Version(lps[i].ver.row, xid, hot))
           link == IF hot THEN t ELSE 0
           over == Ended(lps, i, xid, link)
<1>0. /\ n \in Nat /\ DOMAIN lps = 1 .. n /\ lps = [j \in 1 .. n |-> lps[j]]
      /\ \A j \in 1 .. n : LpFits(lps[j])
      /\ xid \in Nat
  BY PageIsFunction DEF HotInv, PageFits, Hot!LpId
<1>1. /\ i \in 1 .. n /\ lps[i].state = "normal" /\ lps[i].ver # Hot!NoVer
      /\ lps[i].ver.xmax = Hot!Live
      /\ lps' = IF Hot!fits THEN Hot!Place(over, t, new) ELSE over
  BY <1>0 DEF Ended, Hot!pgUpdate, Hot!liveRowsOnPage, Hot!HasVer, Hot!LpId
<1>2. t \in 1 .. n + 1 /\ (t = n + 1 \/ lps[t].state = "unused")
  <2>1. CASE Hot!needsNewLp
    BY <1>0, <2>1 DEF Hot!target
  <2>2. CASE ~Hot!needsNewLp
    <3>1. Hot!Unused # {} /\ Hot!Unused \subseteq Nat
      BY <1>0, <2>2 DEF Hot!needsNewLp, Hot!Unused, Hot!LpId
    <3>2. \E j \in Hot!Unused : \A l \in Hot!Unused : j <= l
      BY <3>1, LeastIn
    <3>3. t \in Hot!Unused
      BY <2>2, <3>2 DEF Hot!target, Hot!First
    <3> QED BY <1>0, <3>3 DEF Hot!Unused, Hot!LpId
  <2> QED BY <2>1, <2>2
<1>3. IsVersion(lps[i].ver)
  BY <1>0, <1>1 DEF LpFits
<1>4. /\ PageFits(over) /\ DOMAIN over = 1 .. n
      /\ \A j \in 1 .. n : j # i => over[j] = lps[j]
      /\ over[i].state = "normal" /\ over[i].ver # Hot!NoVer
      /\ over[i].ver.row = lps[i].ver.row /\ over[i].ver.xmin = lps[i].ver.xmin
      /\ over[i].ver.xmax = xid /\ over[i].ver.link = link /\ over[i].ver.hot = lps[i].ver.hot
  <2> HIDE DEF hot, t, link, n
  <2>1. PageFits(lps)
    BY DEF HotInv
  <2>2. i \in DOMAIN lps /\ xid \in Nat
    BY <1>0, <1>1
  <2>3. /\ PageFits(over) /\ DOMAIN over = DOMAIN lps
        /\ \A j \in DOMAIN lps : j # i => over[j] = lps[j]
        /\ over[i].state = lps[i].state /\ over[i].ver # Hot!NoVer
        /\ over[i].ver.row = lps[i].ver.row /\ over[i].ver.xmin = lps[i].ver.xmin
        /\ over[i].ver.xmax = xid /\ over[i].ver.link = link
        /\ over[i].ver.hot = lps[i].ver.hot
    BY <1>3, <2>1, <2>2, EndedPage
  <2> HIDE DEF over
  <2> QED BY <1>0, <1>1, <2>3
<1> HIDE DEF over, t, hot
<1>6. /\ Len(over) = n /\ over = [j \in 1 .. n |-> over[j]]
      /\ \A j \in 1 .. n : LpFits(over[j])
  <2>1. /\ Len(over) \in Nat /\ DOMAIN over = 1 .. Len(over)
        /\ over = [j \in 1 .. Len(over) |-> over[j]]
    BY <1>4, PageIsFunction
  <2>2. Len(over) = n
    BY <1>0, <1>4, <2>1
  <2> QED BY <1>4, <2>1, <2>2 DEF PageFits
<1>7. LpFits(new) /\ new.ver.xmin = xid /\ new.ver # Hot!NoVer /\ new.state = "normal"
  <2>1. IsVersion(Hot!Version(lps[i].ver.row, xid, hot))
    BY <1>0, VersionIsNone
  <2> QED BY <2>1, VersionIsNone DEF LpFits, Hot!Lp, Hot!Version
<1> HIDE DEF new
<1>8. \E m \in Nat :
        /\ n <= m /\ lps' = [j \in 1 .. m |-> lps'[j]]
        /\ \A j \in 1 .. n : j # t \/ ~Hot!fits => lps'[j] = over[j]
        /\ ~Hot!fits => m = n
        /\ Hot!fits => t \in 1 .. m /\ lps'[t] = new /\ \A j \in 1 .. m : j \in 1 .. n \/ j = t
  <2>1. CASE ~Hot!fits
    BY <1>0, <1>1, <1>6, <2>1
  <2>2. CASE Hot!fits /\ t = n + 1
    <3>1. over \in Seq({over[j] : j \in 1 .. n}) /\ Len(over) = n
      BY <1>4, <1>6 DEF PageFits
    <3>2. lps' = Append(over, new)
      BY <1>1, <2>2, <3>1 DEF Hot!Place
    <3>3. over \in Seq({over[j] : j \in 1 .. n} \union {new})
      BY <1>0, <1>6, SeqDef
    <3>4. /\ Append(over, new) \in Seq({over[j] : j \in 1 .. n} \union {new})
          /\ Len(Append(over, new)) = n + 1
          /\ \A j \in 1 .. n : Append(over, new)[j] = over[j]
          /\ Append(over, new)[n + 1] = new
      BY <3>1, <3>3, AppendProperties
    <3>5. DOMAIN lps' = 1 .. n + 1 /\ lps' = [j \in 1 .. n + 1 |-> lps'[j]]
      BY <3>2, <3>4, LenProperties
    <3>6. /\ n + 1 \in Nat /\ n <= n + 1 /\ n + 1 \in 1 .. n + 1
          /\ \A j \in 1 .. n + 1 : j \in 1 .. n \/ j = n + 1
      BY <1>0
    <3> QED BY <2>2, <3>2, <3>4, <3>5, <3>6
  <2>3. CASE Hot!fits /\ t # n + 1
    <3>1. Len(over) = n
      BY <1>6
    <3>2. lps' = [over EXCEPT ![t] = new] /\ t \in 1 .. n
      BY <1>0, <1>1, <1>2, <2>3, <3>1 DEF Hot!Place
    <3>3. lps' = [j \in 1 .. n |-> IF j = t THEN new ELSE over[j]]
      BY <1>6, <3>2
    <3>4. lps' = [j \in 1 .. n |-> lps'[j]] /\ lps'[t] = new
      BY <3>2, <3>3
    <3>5. \A j \in 1 .. n : j # t => lps'[j] = over[j]
      BY <3>3
    <3>6. /\ n \in Nat /\ n <= n
          /\ \A j \in 1 .. n : j # t \/ ~Hot!fits => lps'[j] = over[j]
          /\ t \in 1 .. n /\ lps'[t] = new /\ \A j \in 1 .. n : j \in 1 .. n \/ j = t
      BY <1>0, <2>3, <3>2, <3>4, <3>5
    <3> HIDE DEF n
    <3> QED BY <2>3, <3>4, <3>6
  <2> QED BY <2>1, <2>2, <2>3
<1>9. PICK m \in Nat :
        /\ n <= m /\ lps' = [j \in 1 .. m |-> lps'[j]]
        /\ \A j \in 1 .. n : j # t \/ ~Hot!fits => lps'[j] = over[j]
        /\ ~Hot!fits => m = n
        /\ Hot!fits => t \in 1 .. m /\ lps'[t] = new /\ \A j \in 1 .. m : j \in 1 .. n \/ j = t
  BY <1>8
<1>10. PageFits(lps') /\ DOMAIN lps' = 1 .. m /\ Len(lps') = m
  <2>1. ASSUME NEW j \in 1 .. m PROVE LpFits(lps'[j])
    <3>1. CASE Hot!fits /\ j = t
      BY <1>7, <1>9, <3>1
    <3>2. CASE ~Hot!fits \/ j # t
      <4>1. j \in 1 .. n
        BY <1>9, <3>2
      <4> QED BY <1>6, <1>9, <3>2, <4>1
    <3> QED BY <3>1, <3>2
  <2> QED BY <1>9, <2>1, FunctionIsPage
<1>11. t # i
  BY <1>0, <1>1, <1>2
<1>12. lps'[i] = over[i]
  BY <1>1, <1>9, <1>11
<1>13. \A j \in 1 .. n : j # i /\ (j # t \/ ~Hot!fits) => lps'[j] = lps[j]
  BY <1>4, <1>9
<1>14. /\ lps'[i].state = "normal" /\ lps'[i].ver # Hot!NoVer
       /\ lps'[i].ver.row = lps[i].ver.row /\ lps'[i].ver.xmin = lps[i].ver.xmin
       /\ lps'[i].ver.hot = lps[i].ver.hot /\ lps'[i].ver.xmax = xid
       /\ lps'[i].ver.link = link
  BY <1>4, <1>12
<1>15. /\ ~Hot!fits => Len(lps') = n
       /\ Hot!fits => /\ t \in 1 .. Len(lps') /\ lps'[t] = new
                      /\ t = n + 1 \/ lps[t].state = "unused"
                      /\ t # i
                      /\ \A j \in 1 .. Len(lps') : j \in 1 .. n \/ j = t
  BY <1>2, <1>9, <1>10, <1>11
<1>16. Len(lps') \in Nat /\ n <= Len(lps')
  BY <1>9, <1>10
<1> HIDE DEF link
<1> QED BY <1>1, <1>7, <1>10, <1>13, <1>14, <1>15, <1>16 DEF new, t, hot, link

(* It ends the version at an id that no open snapshot sees.                *)
LEMMA UpdateKeeps ==
  ASSUME HotInv, NEW i \in Hot!LpId, NEW keyed \in BOOLEAN, Hot!pgUpdate(i, keyed)
  PROVE  HotInv' /\ snapXid' = snapXid /\ RowsOn(lps', snapXid) = RowsOn(lps, snapXid)
<1> DEFINE n   == Len(lps)
           m   == Len(lps')
           t   == Hot!target
           hot == ~keyed /\ Hot!fits
           new == Hot!Lp("normal", 0, Hot!Version(lps[i].ver.row, xid, hot))
<1>0. /\ n \in Nat /\ DOMAIN lps = 1 .. n
      /\ \A j \in 1 .. n : LpFits(lps[j])
      /\ xid \in Nat /\ snapXid \in Nat /\ snapXid <= xid
      /\ \A j \in deadTids : j \in 1 .. n /\ lps[j].state = "dead"
  BY PageIsFunction DEF HotInv, PageFits, Hot!LpId
<1>1. xid' = xid + 1 /\ UNCHANGED <<deadTids, snapXid>>
  BY DEF Hot!pgUpdate
<1>2. /\ i \in 1 .. n /\ lps[i].ver # Hot!NoVer /\ lps[i].ver.xmax = Hot!Live
      /\ PageFits(lps') /\ m \in Nat /\ n <= m
      /\ \A j \in 1 .. n : j # i /\ (j # t \/ ~Hot!fits) => lps'[j] = lps[j]
      /\ lps'[i].ver # Hot!NoVer /\ lps'[i].ver.xmax = xid
      /\ lps'[i].ver.row = lps[i].ver.row /\ lps'[i].ver.xmin = lps[i].ver.xmin
      /\ ~Hot!fits => m = n
      /\ Hot!fits => /\ t \in 1 .. m /\ lps'[t] = new
                     /\ t = n + 1 \/ lps[t].state = "unused"
                     /\ t # i
                     /\ \A j \in 1 .. m : j \in 1 .. n \/ j = t
  BY UpdatedPage
<1>3. new.ver.xmin = xid
  BY DEF Hot!Lp, Hot!Version
<1> HIDE DEF t, new
<1>4. DOMAIN lps' = 1 .. m
  BY <1>2, PageIsFunction
<1> HIDE DEF m, n
<1>5. \A j \in deadTids' : j \in DOMAIN lps' /\ lps'[j].state = "dead"
  <2> SUFFICES ASSUME NEW j \in deadTids PROVE j \in 1 .. m /\ lps'[j].state = "dead"
    BY <1>1, <1>4
  <2>1. j \in 1 .. n /\ lps[j].state = "dead" /\ j # i
    BY <1>0, <1>2 DEF LpFits
  <2>2. Hot!fits => j # t
    BY <1>0, <1>2, <2>1
  <2> QED BY <1>0, <1>2, <2>1, <2>2
<1>6. HotInv'
  BY <1>0, <1>1, <1>2, <1>5 DEF HotInv, Hot!LpId
<1>7. ASSUME NEW j \in 1 .. n, j # t \/ ~Hot!fits
      PROVE  /\ j \in SeenOn(lps', snapXid) <=> j \in SeenOn(lps, snapXid)
             /\ lps'[j].ver.row = lps[j].ver.row /\ lps'[j].ver.xmin = lps[j].ver.xmin
  <2>0. j \in 1 .. m
    BY <1>0, <1>2
  <2>1. CASE j # i
    BY <1>0, <1>2, <1>4, <1>7, <2>0, <2>1 DEF SeenOn
  <2>2. CASE j = i
    <3>1. Seen(lps'[i].ver, snapXid) <=> Seen(lps[i].ver, snapXid)
      BY <1>0, <1>2 DEF Seen
    <3> QED BY <1>0, <1>2, <1>4, <2>0, <2>2, <3>1 DEF SeenOn
  <2> QED BY <2>1, <2>2
<1>8. ASSUME Hot!fits
      PROVE  t \notin SeenOn(lps', snapXid) /\ t \notin SeenOn(lps, snapXid)
  <2>1. ~Seen(new.ver, snapXid)
    BY <1>0, <1>3 DEF Seen
  <2>2. t \notin SeenOn(lps', snapXid)
    BY <1>2, <1>8, <2>1 DEF SeenOn
  <2>3. t \in 1 .. n => lps[t].ver = Hot!NoVer
    BY <1>0, <1>2, <1>8 DEF LpFits
  <2> QED BY <1>0, <2>2, <2>3 DEF SeenOn
<1>9. \A j \in 1 .. m : j \in SeenOn(lps', snapXid) <=> j \in SeenOn(lps, snapXid)
  BY <1>2, <1>7, <1>8
<1>10. SeenOn(lps', snapXid) = SeenOn(lps, snapXid)
  <2>1. SeenOn(lps', snapXid) \subseteq 1 .. m /\ SeenOn(lps, snapXid) \subseteq 1 .. m
    BY <1>0, <1>2, <1>4 DEF SeenOn
  <2> QED BY <1>9, <2>1
<1>11. ASSUME NEW j \in SeenOn(lps', snapXid)
       PROVE  lps'[j].ver.row = lps[j].ver.row /\ lps'[j].ver.xmin = lps[j].ver.xmin
  <2>1. j \in 1 .. n
    BY <1>0, <1>10, <1>11 DEF SeenOn
  <2>2. j # t \/ ~Hot!fits
    BY <1>8, <1>11
  <2> QED BY <1>7, <2>1, <2>2
<1> QED BY <1>1, <1>6, <1>10, <1>11, SameRows

(* VACUUM's second pass releases what it has noted, and cuts the page off  *)
(* after the last line pointer in use.                                     *)
LEMMA ReleasedPage ==
  ASSUME HotInv, Hot!pgVacuum2
  PROVE  LET n == Len(lps)
             m == Len(lps')
         IN  /\ m \in 0 .. n /\ PageFits(lps')
             /\ \A i \in 1 .. m : lps'[i] = IF i \in deadTids THEN Hot!clearVer("unused")
                                                                ELSE lps[i]
             /\ \A i \in 1 .. n : m < i => i \in deadTids \/ lps[i].state = "unused"
<1> DEFINE n        == Len(lps)
           released == [i \in Hot!LpId |-> IF i \in deadTids THEN Hot!clearVer("unused")
                                                             ELSE lps[i]]
           used     == {0} \union {i \in Hot!LpId : released[i].state # "unused"}
           last     == CHOOSE i \in used : \A j \in used : j <= i
<1>0. /\ n \in Nat /\ DOMAIN lps = 1 .. n /\ lps = [j \in 1 .. n |-> lps[j]]
      /\ \A j \in 1 .. n : LpFits(lps[j])
      /\ \A j \in deadTids : j \in 1 .. n /\ lps[j].state = "dead"
      /\ Hot!LpId = 1 .. n
  BY PageIsFunction DEF HotInv, PageFits, Hot!LpId
<1>1. lps' = SubSeq(released, 1, last)
  BY DEF Hot!pgVacuum2
<1>2. /\ released = [i \in 1 .. n |-> released[i]]
      /\ \A i \in 1 .. n : released[i] = IF i \in deadTids THEN Hot!clearVer("unused") ELSE lps[i]
  BY <1>0
<1>3. last \in used /\ \A j \in used : j <= last
  <2>1. used \subseteq 0 .. n /\ 0 \in used
    BY <1>0
  <2> HIDE DEF used, n
  <2> DEFINE up == {n - j : j \in used}
  <2>2. up \subseteq Nat /\ n \in up
    BY <1>0, <2>1
  <2> HIDE DEF up
  <2>3. PICK x \in up : \A y \in up : x <= y
    BY <2>2, LeastIn
  <2>4. PICK l \in used : x = n - l
    BY <2>3 DEF up
  <2>5. ASSUME NEW j \in used PROVE j <= l
    <3>1. n - j \in up
      BY DEF up
    <3> QED BY <1>0, <2>1, <2>3, <2>4, <3>1
  <2> QED BY <2>5
<1>4. last \in 0 .. n /\ \A i \in 1 .. n : last < i => i \in deadTids \/ lps[i].state = "unused"
  <2>1. ASSUME NEW i \in 1 .. n, i \notin deadTids, lps[i].state # "unused" PROVE i \in used
    <3>1. released[i] = lps[i]
      BY <1>2, <2>1
    <3> HIDE DEF released
    <3> QED BY <1>0, <2>1, <3>1
  <2>2. used \subseteq 0 .. n
    BY <1>0
  <2> HIDE DEF used, last
  <2> QED BY <1>3, <2>1, <2>2
<1> HIDE DEF released, used, last
<1>5. lps' = [i \in 1 .. last |-> lps'[i]] /\ \A i \in 1 .. last : lps'[i] = released[i]
  <2> DEFINE S == {released[j] : j \in 1 .. n}
             cut == SubSeq(released, 1, last)
  <2>1. \A i \in 1 .. last : released[i] \in S
    BY <1>0, <1>4
  <2>2. 1 \in Int /\ last \in Int /\ last - 1 + 1 = last
    BY <1>0, <1>4
  <2> HIDE DEF S
  <2>3. /\ cut \in Seq(S)
        /\ Len(cut) = IF 1 <= last THEN last - 1 + 1 ELSE 0
        /\ \A i \in 1 .. last - 1 + 1 : cut[i] = released[1 + i - 1]
    BY <2>1, <2>2, SubSeqProperties
  <2>7. lps' = cut
    BY <1>1
  <2> HIDE DEF cut
  <2>4. Len(lps') = last
    BY <1>0, <1>4, <2>3, <2>7
  <2>5. DOMAIN lps' = 1 .. last /\ lps' = [i \in 1 .. last |-> lps'[i]]
    BY <2>3, <2>4, <2>7, LenProperties
  <2>6. ASSUME NEW i \in 1 .. last PROVE lps'[i] = released[i]
    <3>1. i \in 1 .. last - 1 + 1 /\ 1 + i - 1 = i
      BY <1>0, <1>4
    <3> QED BY <2>3, <2>7, <3>1
  <2> QED BY <2>5, <2>6
<1>6. LpFits(Hot!clearVer("unused"))
  BY DEF LpFits, Hot!clearVer, Hot!Lp
<1>7. PageFits(lps') /\ Len(lps') = last
  <2>1. ASSUME NEW i \in 1 .. last PROVE LpFits(lps'[i])
    <3>1. i \in 1 .. n
      BY <1>0, <1>4
    <3>2. lps'[i] = lps[i] \/ lps'[i] = Hot!clearVer("unused")
      BY <1>2, <1>5, <3>1
    <3> QED BY <1>0, <1>6, <3>1, <3>2
  <2> QED BY <1>0, <1>4, <1>5, <2>1, FunctionIsPage
<1>8. \A i \in 1 .. last : lps'[i] = IF i \in deadTids THEN Hot!clearVer("unused") ELSE lps[i]
  <2> SUFFICES ASSUME NEW i \in 1 .. last
               PROVE  lps'[i] = IF i \in deadTids THEN Hot!clearVer("unused") ELSE lps[i]
    OBVIOUS
  <2>1. i \in 1 .. n /\ lps'[i] = released[i]
    BY <1>0, <1>4, <1>5
  <2> QED BY <1>2, <2>1
<1> QED BY <1>4, <1>7, <1>8

(* It releases what held no version, and cuts off none.                    *)
LEMMA ReleaseKeeps ==
  ASSUME HotInv, Hot!pgVacuum2
  PROVE  HotInv' /\ snapXid' = snapXid /\ RowsOn(lps', snapXid) = RowsOn(lps, snapXid)
<1> DEFINE n == Len(lps)
           m == Len(lps')
<1>0. /\ n \in Nat /\ DOMAIN lps = 1 .. n
      /\ \A j \in 1 .. n : LpFits(lps[j])
      /\ \A j \in deadTids : j \in 1 .. n /\ lps[j].state = "dead"
  BY PageIsFunction DEF HotInv, PageFits, Hot!LpId
<1>1. deadTids' = {} /\ UNCHANGED <<xid, snapXid>>
  BY DEF Hot!pgVacuum2
<1>2. /\ m \in 0 .. n /\ PageFits(lps')
      /\ \A i \in 1 .. m : lps'[i] = IF i \in deadTids THEN Hot!clearVer("unused") ELSE lps[i]
      /\ \A i \in 1 .. n : m < i => i \in deadTids \/ lps[i].state = "unused"
  BY ReleasedPage
<1>3. DOMAIN lps' = 1 .. m
  BY <1>2, PageIsFunction
<1> HIDE DEF m, n
<1>4. Hot!clearVer("unused").ver = Hot!NoVer
  BY DEF Hot!clearVer, Hot!Lp
<1>5. HotInv'
  <2>1. xid \in Nat /\ snapXid \in Nat /\ snapXid <= xid
    BY DEF HotInv
  <2> QED BY <1>1, <1>2, <2>1 DEF HotInv
<1>6. ASSUME NEW i \in 1 .. n
      PROVE  /\ i \in SeenOn(lps, snapXid) <=> i \in SeenOn(lps', snapXid)
             /\ i \in SeenOn(lps, snapXid) => lps'[i] = lps[i]
  <2>1. CASE lps[i].ver # Hot!NoVer
    <3>1. i \notin deadTids /\ lps[i].state # "unused"
      BY <1>0, <2>1 DEF LpFits
    <3>2. i \in 1 .. m /\ lps'[i] = lps[i]
      BY <1>0, <1>2, <3>1
    <3> QED BY <1>0, <1>3, <3>2 DEF SeenOn
  <2>2. CASE lps[i].ver = Hot!NoVer
    <3>1. i \in 1 .. m => lps'[i].ver = Hot!NoVer
      BY <1>2, <1>4, <2>2
    <3> QED BY <1>0, <1>3, <2>2, <3>1 DEF SeenOn
  <2> QED BY <2>1, <2>2
<1>7. SeenOn(lps, snapXid) = SeenOn(lps', snapXid)
  <2>1. SeenOn(lps, snapXid) \subseteq 1 .. n /\ SeenOn(lps', snapXid) \subseteq 1 .. n
    BY <1>0, <1>2, <1>3 DEF SeenOn
  <2> QED BY <1>6, <2>1
<1>8. \A i \in SeenOn(lps', snapXid) : lps'[i] = lps[i]
  <2>1. SeenOn(lps, snapXid) \subseteq 1 .. n
    BY <1>0 DEF SeenOn
  <2> QED BY <1>6, <1>7, <2>1
<1> QED BY <1>1, <1>5, <1>7, <1>8, SameRows

(* The steps that leave the page alone.                                    *)
LEMMA PageStays ==
  ASSUME HotInv, UNCHANGED <<lps, deadTids>>,
         xid' \in Nat, snapXid' \in Nat, snapXid' <= xid'
  PROVE  HotInv'
BY DEF HotInv, Hot!LpId

LEMMA HotStepKeeps ==
  ASSUME HotInv, Hot!HotStep
  PROVE  HotInv' /\ Hot!SnapshotKeepsItsRows
<1> DEFINE Kept == snapXid # Hot!NoSnapshot /\ snapXid' = snapXid
                     => RowsOn(lps', snapXid) = RowsOn(lps, snapXid)
<1>0. /\ xid \in Nat /\ snapXid \in Nat /\ snapXid <= xid /\ PageFits(lps)
      /\ \A i \in deadTids : i \in DOMAIN lps /\ lps[i].state = "dead"
  BY DEF HotInv, Hot!LpId
<1>1. ASSUME \E i \in Hot!LpId, keyed \in BOOLEAN : Hot!pgUpdate(i, keyed)
      PROVE  HotInv' /\ Kept
  BY <1>1, UpdateKeeps
<1>2. ASSUME Hot!pgRead PROVE HotInv' /\ Kept
  <2>1. Hot!prune /\ UNCHANGED <<xid, deadTids, snapXid>>
    BY <1>2 DEF Hot!pgRead
  <2>2. /\ PageFits(lps') /\ DOMAIN lps' = DOMAIN lps
        /\ \A i \in DOMAIN lps : lps[i].state = "dead" => lps'[i].state = "dead"
        /\ Kept
    BY <2>1, PruneKeeps
  <2> QED BY <1>0, <2>1, <2>2 DEF HotInv, Hot!LpId
<1>3. ASSUME Hot!pgVacuum1 PROVE HotInv' /\ Kept
  <2>1. Hot!prune /\ UNCHANGED <<xid, snapXid>>
        /\ deadTids' = {i \in DOMAIN lps : lps'[i].state = "dead"}
    BY <1>3 DEF Hot!pgVacuum1, Hot!LpId
  <2>2. /\ PageFits(lps') /\ DOMAIN lps' = DOMAIN lps
        /\ \A i \in DOMAIN lps : lps[i].state = "dead" => lps'[i].state = "dead"
        /\ Kept
    BY <2>1, PruneKeeps
  <2> QED BY <1>0, <2>1, <2>2 DEF HotInv, Hot!LpId
<1>4. ASSUME Hot!pgVacuum2 PROVE HotInv' /\ Kept
  BY <1>4, ReleaseKeeps
<1>5. ASSUME \/ \E r \in DOMAIN recs : Hot!pgScan(r) \/ Hot!ibUpdate(r)
             \/ Hot!ibPurge \/ Hot!ToggleSnapshot
      PROVE  HotInv' /\ Kept
  <2>1. UNCHANGED <<lps, deadTids>>
    BY <1>5 DEF Hot!pgScan, Hot!ibUpdate, Hot!ibPurge, Hot!ToggleSnapshot, Hot!pageVars
  <2>2. /\ xid' \in {xid, xid + 1}
        /\ snapXid' = snapXid \/ snapXid' = 0 \/ (snapXid' = xid /\ xid' = xid)
    BY <1>5 DEF Hot!pgScan, Hot!ibUpdate, Hot!ibPurge, Hot!ToggleSnapshot, Hot!NoSnapshot
  <2>3. HotInv'
    BY <1>0, <2>1, <2>2, PageStays
  <2> QED BY <2>1, <2>3
<1>6. HotInv' /\ Kept
  BY <1>1, <1>2, <1>3, <1>4, <1>5 DEF Hot!HotStep
<1> QED BY <1>6, RowsOnPage DEF Hot!SnapshotKeepsItsRows

LEMMA HotStutters ==
  ASSUME HotInv, UNCHANGED hotVars
  PROVE  HotInv'
BY DEF hotVars, HotInv, Hot!LpId

(* However large the rows are, so many of them are on the page.            *)
LEMMA LoadedRowsCount ==
  ASSUME Hot!HotInit, Hot!HotAssumption
  PROVE  Hot!LoadedRows(ff, Hot!tupLen) \in Nat
<1> DEFINE len == Hot!tupLen
           a   == (BLCKSZ - PAGE_HDR) * ff
           b   == 100 * (len + LP_BYTES)
<1>1. /\ BLCKSZ \in Nat /\ PAGE_HDR \in Nat /\ TUP_HDR \in Nat /\ LP_BYTES \in Nat \ {0}
      /\ ff \in Nat /\ rowBytes \in Nat
  BY DEF Hot!HotInit, Hot!HotAssumption
<1>2. len \in Nat
  <2>1. TUP_HDR + rowBytes + 7 \in Nat
    BY <1>1
  <2>2. \A m \in Nat : (m \div 8) * 8 \in Nat
    OBVIOUS
  <2> QED BY <2>1, <2>2 DEF Hot!tupLen, Hot!align8
<1> HIDE DEF len
<1>3. b \in Nat \ {0}
  BY <1>1, <1>2
<1>4. a \in Int
  <2>1. BLCKSZ - PAGE_HDR \in Int
    BY <1>1
  <2>2. \A x \in Int, y \in Int : x * y \in Int
    OBVIOUS
  <2> QED BY <1>1, <2>1, <2>2
<1> HIDE DEF a, b
<1>5. a \div b \in Int
  BY <1>3, <1>4
<1>6. Hot!LoadedRows(ff, Hot!tupLen) = Hot!AtLeastTwo(a \div b)
  BY DEF Hot!LoadedRows, a, b, len
<1> QED BY <1>5, <1>6 DEF Hot!AtLeastTwo

LEMMA HotBegins ==
  ASSUME Hot!HotInit, Hot!HotAssumption
  PROVE  HotInv
<1>1. /\ lps = Hot!loaded /\ deadTids = {} /\ xid = 101 /\ snapXid = 0
  BY DEF Hot!HotInit, Hot!LoadXid, Hot!NoSnapshot
<1> DEFINE n == Hot!LoadedRows(ff, Hot!tupLen)
<1>2. n \in Nat
  BY LoadedRowsCount
<1>3. lps = [r \in 1 .. n |-> Hot!Lp("normal", 0, Hot!Version(r, 100, FALSE))]
  BY <1>1 DEF Hot!loaded, Hot!rows, Hot!LoadXid
<1> HIDE DEF n
<1>4. ASSUME NEW r \in 1 .. n PROVE LpFits(lps[r])
  <2>1. lps[r] = Hot!Lp("normal", 0, Hot!Version(r, 100, FALSE))
    BY <1>3
  <2>2. IsVersion(Hot!Version(r, 100, FALSE))
    BY VersionIsNone
  <2>3. /\ lps[r].state = "normal" /\ lps[r].redirect = 0
        /\ lps[r].ver = Hot!Version(r, 100, FALSE)
        /\ lps[r] = [state |-> "normal", redirect |-> 0, ver |-> Hot!Version(r, 100, FALSE)]
    BY <2>1 DEF Hot!Lp
  <2> QED BY <2>2, <2>3, VersionIsNone DEF LpFits
<1>5. lps = [r \in 1 .. n |-> lps[r]]
  BY <1>3
<1>6. PageFits(lps)
  BY <1>2, <1>4, <1>5, FunctionIsPage
<1> QED BY <1>1, <1>6 DEF HotInv

LEMMA HotAlways == Spec => []HotThere
<1>1. Hot!HotAssumption
  BY Assumption
<1>2. Init => HotThere
  BY <1>1, HotBegins DEF Init, HotThere
<1>3. ASSUME HotThere, [Next]_vars PROVE HotThere'
  <2>1. CASE UNCHANGED vars
    BY <1>3, <2>1, HotStutters DEF vars, HotThere
  <2>2. CASE Next
    BY <1>3, <2>2, HotStepKeeps DEF Next, Step, HotThere
  <2> QED BY <1>3, <2>1, <2>2
<1>4. HotThere /\ [Next]_vars => HotThere'
  BY <1>3
<1> QED BY <1>2, <1>4, PTL DEF Spec

(* No pruning or vacuum of a heap page (HotChainPruneLab) and no           *)
(* collection (GarbageHorizonTimeline) takes a version from a snapshot     *)
(* that sees it, whatever the page's size and fillfactor, the number of    *)
(* versions and readers, and wherever a reader's snapshot is dragged.      *)
THEOREM SnapshotsKeepTheirVersions == Spec => SnapshotsKept
<1> DEFINE Kept == /\ lab = "garbage" => Garbage!ReadersKeepTheirVersion
                   /\ lab = "hot"     => Hot!SnapshotKeepsItsRows
<1>1. GarbageThere /\ HotThere /\ [Next]_vars => [Kept]_vars
  <2> SUFFICES ASSUME GarbageThere, HotThere, Next PROVE Kept
    OBVIOUS
  <2>1. Garbage!GarbageAssumption
    BY Assumption
  <2>2. lab = "garbage" => Garbage!ReadersKeepTheirVersion
    BY <2>1, GarbageStepKeeps DEF Next, Step, GarbageThere
  <2>3. lab = "hot" => Hot!SnapshotKeepsItsRows
    BY HotStepKeeps DEF Next, Step, HotThere
  <2> QED BY <2>2, <2>3
<1> QED BY <1>1, GarbageAlways, HotAlways, PTL DEF Spec, SnapshotsKept

-------------------------------------------------------------------------------
(* The chains of a page: who leads to whom.                                *)
Holds(p, i)   == i \in DOMAIN p /\ p[i].ver # Hot!NoVer
IsRoot(p, i)  == i \in DOMAIN p /\ (p[i].state = "redirect" \/ (p[i].ver # Hot!NoVer /\ ~p[i].ver.hot))
RootTo(p, i)  == IF p[i].state = "redirect" THEN p[i].redirect ELSE i
LinksTo(p, i, j)  == Holds(p, i) /\ p[i].ver.link = j
RefersTo(p, i, j) == i \in DOMAIN p /\ p[i].state = "redirect" /\ p[i].redirect = j
LeadsTo(p, i, j)  == LinksTo(p, i, j) \/ RefersTo(p, i, j)

(* A version is older than the one it is linked to, which is heap-only and *)
(* of the same row; the newest of a chain is linked to none.               *)
LinksStand(p, x) ==
  \A i \in DOMAIN p : p[i].ver # Hot!NoVer =>
    /\ p[i].ver.xmin < x /\ p[i].ver.hot \in BOOLEAN
    /\ p[i].ver.xmax = Hot!Live => p[i].ver.link = 0
    /\ p[i].ver.link # 0 =>
         /\ Holds(p, p[i].ver.link) /\ p[p[i].ver.link].ver.hot
         /\ p[p[i].ver.link].ver.row = p[i].ver.row
         /\ p[i].ver.xmin < p[p[i].ver.link].ver.xmin

(* So is what a line pointer is redirected to; and each heap-only version  *)
(* is led to from one place.                                               *)
RedirectsStand(p) ==
  \A i \in DOMAIN p : p[i].state = "redirect" => Holds(p, p[i].redirect) /\ p[p[i].redirect].ver.hot
OneBefore(p) ==
  /\ \A j \in DOMAIN p : p[j].ver # Hot!NoVer /\ p[j].ver.hot => \E i \in DOMAIN p : LeadsTo(p, i, j)
  /\ \A j, h, i \in DOMAIN p : LeadsTo(p, h, j) /\ LeadsTo(p, i, j) => h = i

(* An entry for the page is at a root of its row, or at a dead line        *)
(* pointer, and each root has one.                                         *)
EntriesStand(p, e) ==
  /\ \A k \in DOMAIN e : e[k].page = 0 =>
       /\ e[k].lp \in DOMAIN p
       /\ \/ p[e[k].lp].state = "dead"
          \/ /\ IsRoot(p, e[k].lp) /\ ~e[k].killed
             /\ p[RootTo(p, e[k].lp)].ver.row = e[k].row
  /\ \A i \in DOMAIN p : IsRoot(p, i) => \E k \in DOMAIN e : e[k].page = 0 /\ e[k].lp = i

IsEntry(e) == e = [row |-> e.row, page |-> e.page, lp |-> e.lp, killed |-> e.killed]
IdxFits(e) == e \in Seq({e[k] : k \in DOMAIN e}) /\ \A k \in DOMAIN e : IsEntry(e[k])

ChainsStand == LinksStand(lps, xid) /\ RedirectsStand(lps) /\ OneBefore(lps)
LeadInv == HotInv /\ ChainsStand /\ IdxFits(idx) /\ EntriesStand(lps, idx)

(* Along a chain versions are younger and younger. *)
LEMMA ChainAges ==
  ASSUME HotInv, LinksStand(lps, xid), NEW c, NEW at, ChainFits(c, at)
  PROVE  \A m \in 1 .. Len(c) : \A l \in 1 .. Len(c) :
           l < m => lps[c[l]].ver.xmin < lps[c[m]].ver.xmin
<1>0. /\ Len(c) \in Nat /\ DOMAIN c = 1 .. Len(c)
      /\ \A m \in 1 .. Len(c) : c[m] \in DOMAIN lps /\ lps[c[m]].ver # Hot!NoVer
      /\ \A m \in 1 .. Len(c) : m < Len(c) => c[m + 1] = lps[c[m]].ver.link
  BY LenProperties DEF ChainFits, Hot!LpId, Hot!HasVer
<1>1. \A m \in 1 .. Len(c) : lps[c[m]].ver.xmin \in Nat
  BY <1>0 DEF HotInv, PageFits, LpFits, IsVersion
<1>2. 0 \notin DOMAIN lps
  BY PageIsFunction DEF HotInv
<1>3. ASSUME NEW m \in 1 .. Len(c), m < Len(c)
      PROVE  lps[c[m]].ver.xmin < lps[c[m + 1]].ver.xmin
  <2>1. m + 1 \in 1 .. Len(c)
    BY <1>0, <1>3
  <2>2. c[m + 1] # 0 /\ c[m + 1] = lps[c[m]].ver.link
    BY <1>0, <1>2, <1>3, <2>1
  <2> QED BY <1>0, <2>2 DEF LinksStand
<1> DEFINE age(m) == lps[c[m]].ver.xmin
           Bad == {m \in 1 .. Len(c) : \E l \in 1 .. Len(c) : l < m /\ ~(age(l) < age(m))}
<1>4. ASSUME Bad # {} PROVE FALSE
  <2>1. Bad \subseteq Nat
    BY <1>0
  <2>2. PICK m \in Bad : \A k \in Bad : m <= k
    BY <1>4, <2>1, LeastIn
  <2>3. m \in 1 .. Len(c) /\ \E l \in 1 .. Len(c) : l < m /\ ~(age(l) < age(m))
    BY <2>2
  <2>4. PICK l \in 1 .. Len(c) : l < m /\ ~(age(l) < age(m))
    BY <2>3
  <2>5. m - 1 \in 1 .. Len(c) /\ m - 1 < Len(c) /\ m - 1 + 1 = m /\ ~(m <= m - 1)
    BY <1>0, <2>3, <2>4
  <2>6. age(m - 1) < age(m)
    BY <1>3, <2>5
  <2>7. l # m - 1
    BY <2>4, <2>6
  <2>8. l < m - 1
    BY <1>0, <2>3, <2>4, <2>7
  <2>9. m - 1 \notin Bad
    BY <2>2, <2>5
  <2>10. age(l) < age(m - 1)
    BY <2>4, <2>5, <2>8, <2>9
  <2>11. age(l) \in Nat /\ age(m - 1) \in Nat /\ age(m) \in Nat
    BY <1>1, <2>3, <2>5
  <2> HIDE DEF age
  <2> QED BY <2>4, <2>6, <2>10, <2>11
<1> QED BY <1>4

(* A chain is not cut short: it is over where no version follows.          *)
LEMMA ChainEnds ==
  ASSUME HotInv, LinksStand(lps, xid), NEW at
  PROVE  LET c == Hot!ChainFrom(at)
         IN  ChainFits(c, at) /\ Hot!Follow(c, at) = c
<1> DEFINE c == Hot!ChainFrom(at)
           n == Len(lps)
           next == IF c = <<>> THEN at ELSE lps[c[Len(c)]].ver.link
<1>1. ChainFits(c, at) /\ HasWalked(c, at, n)
  BY ChainFromFits
<1>2. n \in Nat /\ DOMAIN lps = 1 .. n
  BY PageIsFunction DEF HotInv
<1> HIDE DEF c, n
<1>3. ASSUME Hot!Follow(c, at) # c PROVE FALSE
  <2>1. Len(c) = n
    BY <1>1, <1>3 DEF HasWalked
  <2>2. next \in Hot!LpId /\ Hot!HasVer(next) /\ Hot!Follow(c, at) = Append(c, next)
    BY <1>3 DEF Hot!Follow
  <2>3. ChainFits(Append(c, next), at)
    BY <1>1, <2>2, FollowFits
  <2> DEFINE d == Append(c, next)
  <2> HIDE DEF next
  <2>4. Len(d) = n + 1
    BY <1>1, <2>1, <2>2, AppendProperties DEF ChainFits
  <2>5. /\ d \in [1 .. n + 1 -> 1 .. n]
    BY <1>2, <2>3, <2>4, LenProperties DEF ChainFits, Hot!LpId
  <2> HIDE DEF d
  <2>6. \A m, l \in 1 .. n + 1 : l < m => lps[d[l]].ver.xmin < lps[d[m]].ver.xmin
    <3>1. ChainFits(d, at)
      BY <2>3 DEF d
    <3> QED BY <2>4, <3>1, ChainAges
  <2>7. \A m \in 1 .. n + 1 : lps[d[m]].ver.xmin \in Nat
    <3>1. ChainFits(d, at)
      BY <2>3 DEF d
    <3>2. \A m \in 1 .. n + 1 : d[m] \in DOMAIN lps /\ lps[d[m]].ver # Hot!NoVer
      BY <2>5, <3>1 DEF ChainFits, Hot!HasVer, Hot!LpId
    <3> QED BY <3>2 DEF HotInv, PageFits, LpFits, IsVersion
  <2>8. /\ IsFiniteSet(1 .. n + 1) /\ IsFiniteSet(1 .. n)
        /\ Cardinality(1 .. n) < Cardinality(1 .. n + 1)
    <3>1. /\ 1 \in Int /\ n \in Int /\ n + 1 \in Int
      BY <1>2
    <3>2. /\ IsFiniteSet(1 .. n) /\ Cardinality(1 .. n) = IF 1 > n THEN 0 ELSE n - 1 + 1
          /\ IsFiniteSet(1 .. n + 1) /\ Cardinality(1 .. n + 1) = IF 1 > n + 1 THEN 0 ELSE n + 1 - 1 + 1
      BY <3>1, FS_Interval
    <3> QED BY <1>2, <3>2
  <2>9. PICK x, y \in 1 .. n + 1 : x # y /\ d[x] = d[y]
    BY <2>5, <2>8, FS_PigeonHole
  <2>10. x < y \/ y < x
    BY <1>2, <2>9
  <2>11. lps[d[x]].ver.xmin < lps[d[y]].ver.xmin \/ lps[d[y]].ver.xmin < lps[d[x]].ver.xmin
    BY <2>6, <2>10
  <2> QED BY <2>7, <2>9, <2>11
<1> QED BY <1>1, <1>3 DEF c

(* The chain of a root, from its first version to the last, all of a row.  *)
RunFits(c, r) ==
  /\ Len(c) \in Nat /\ 1 <= Len(c) /\ c[1] = RootTo(lps, r)
  /\ \A m \in 1 .. Len(c) : /\ Holds(lps, c[m])
                            /\ lps[c[m]].ver.row = lps[RootTo(lps, r)].ver.row
  /\ \A m \in 1 .. Len(c) : IF m < Len(c) THEN c[m + 1] = lps[c[m]].ver.link
                                          ELSE ~Holds(lps, lps[c[m]].ver.link)
  /\ \A m \in 1 .. Len(c) : m # 1 => /\ lps[c[m]].ver.hot /\ m - 1 \in 1 .. Len(c)
                                     /\ LinksTo(lps, c[m - 1], c[m])

LEMMA RootsRun ==
  ASSUME HotInv, ChainsStand, NEW r, IsRoot(lps, r)
  PROVE  RunFits(Hot!Chain(r), r)
<1> DEFINE c  == Hot!Chain(r)
           at == RootTo(lps, r)
<1>1. ChainFits(c, at) /\ Hot!Follow(c, at) = c
  <2>1. c = Hot!ChainFrom(at)
    BY DEF Hot!Chain, RootTo
  <2> QED BY <2>1, ChainEnds DEF ChainsStand
<1>2. Holds(lps, at)
  <2>1. CASE lps[r].state = "redirect"
    BY <2>1 DEF IsRoot, RootTo, ChainsStand, RedirectsStand
  <2>2. CASE lps[r].state # "redirect"
    BY <2>2 DEF IsRoot, RootTo, Holds
  <2> QED BY <2>1, <2>2
<1> HIDE DEF c, at
<1>3. /\ c \in Seq(Hot!LpId) /\ Len(c) \in Nat /\ DOMAIN c = 1 .. Len(c)
      /\ \A m \in 1 .. Len(c) : Holds(lps, c[m])
      /\ \A m \in 1 .. Len(c) : m < Len(c) => c[m + 1] = lps[c[m]].ver.link
  BY <1>1, LenProperties DEF ChainFits, Hot!LpId, Hot!HasVer, Holds
<1>4. \A j \in Hot!LpId : Append(c, j) # c
  <2> SUFFICES ASSUME NEW j \in Hot!LpId PROVE Len(Append(c, j)) # Len(c)
    OBVIOUS
  <2>1. Len(Append(c, j)) = Len(c) + 1
    BY <1>3, AppendProperties
  <2>2. Len(c) \in Nat
    BY <1>3
  <2> QED BY <2>1, <2>2
<1>5. c # <<>> /\ c[1] = at
  <2>1. c # <<>>
    <3> SUFFICES ASSUME c = <<>> PROVE FALSE
      OBVIOUS
    <3>1. Hot!Follow(c, at) = Append(c, at)
      BY <1>2 DEF Hot!Follow, Holds, Hot!LpId, Hot!HasVer
    <3>2. at \in Hot!LpId
      BY <1>2 DEF Holds, Hot!LpId
    <3> QED BY <1>1, <1>4, <3>1, <3>2
  <2> QED BY <1>1, <2>1 DEF ChainFits
<1>6. Len(c) # 0
  BY <1>3, <1>5, EmptySeq
<1>7. ~Holds(lps, lps[c[Len(c)]].ver.link)
  <2> SUFFICES ASSUME Holds(lps, lps[c[Len(c)]].ver.link) PROVE FALSE
    OBVIOUS
  <2>1. Hot!Follow(c, at) = Append(c, lps[c[Len(c)]].ver.link)
    BY <1>5 DEF Hot!Follow, Holds, Hot!LpId, Hot!HasVer
  <2>2. lps[c[Len(c)]].ver.link \in Hot!LpId
    BY DEF Holds, Hot!LpId
  <2> QED BY <1>1, <1>4, <2>1, <2>2
<1>8. 0 \notin DOMAIN lps
  BY PageIsFunction DEF HotInv
<1>9. ASSUME NEW m \in 1 .. Len(c), m < Len(c)
      PROVE  /\ m + 1 \in 1 .. Len(c) /\ LinksTo(lps, c[m], c[m + 1])
             /\ lps[c[m + 1]].ver.hot /\ lps[c[m + 1]].ver.row = lps[c[m]].ver.row
  <2>1. m + 1 \in 1 .. Len(c)
    BY <1>3, <1>9
  <2>2. c[m + 1] = lps[c[m]].ver.link /\ c[m + 1] # 0 /\ Holds(lps, c[m])
    BY <1>3, <1>8, <1>9, <2>1 DEF Holds
  <2> QED BY <2>1, <2>2 DEF ChainsStand, LinksStand, Holds, LinksTo
<1> DEFINE Other == {m \in 1 .. Len(c) : lps[c[m]].ver.row # lps[at].ver.row}
<1>10. ASSUME Other # {} PROVE FALSE
  <2>1. Other \subseteq Nat
    BY <1>3
  <2>2. PICK m \in Other : \A k \in Other : m <= k
    BY <1>10, <2>1, LeastIn
  <2>3. m \in 1 .. Len(c) /\ lps[c[m]].ver.row # lps[at].ver.row
    BY <2>2
  <2>4. m # 1
    BY <1>5, <2>3
  <2>5. m - 1 \in 1 .. Len(c) /\ m - 1 < Len(c) /\ m - 1 + 1 = m /\ ~(m <= m - 1)
    BY <1>3, <2>3, <2>4
  <2>6. m - 1 \notin Other
    BY <2>2, <2>5
  <2>7. lps[c[m - 1]].ver.row = lps[at].ver.row
    BY <2>5, <2>6
  <2>8. lps[c[m - 1 + 1]].ver.row = lps[c[m - 1]].ver.row
    BY <1>9, <2>5
  <2> QED BY <2>3, <2>5, <2>7, <2>8
<1>11. \A m \in 1 .. Len(c) : Holds(lps, c[m]) /\ lps[c[m]].ver.row = lps[at].ver.row
  BY <1>3, <1>10
<1>12. \A m \in 1 .. Len(c) : IF m < Len(c) THEN c[m + 1] = lps[c[m]].ver.link
                                            ELSE ~Holds(lps, lps[c[m]].ver.link)
  <2> SUFFICES ASSUME NEW m \in 1 .. Len(c), ~(m < Len(c)) PROVE m = Len(c)
    BY <1>3, <1>7
  <2> QED BY <1>3
<1>13. ASSUME NEW m \in 1 .. Len(c), m # 1
       PROVE  lps[c[m]].ver.hot /\ m - 1 \in 1 .. Len(c) /\ LinksTo(lps, c[m - 1], c[m])
  <2>1. m - 1 \in 1 .. Len(c) /\ m - 1 < Len(c) /\ m - 1 + 1 = m
    BY <1>3, <1>13
  <2>2. lps[c[m - 1 + 1]].ver.hot /\ LinksTo(lps, c[m - 1], c[m - 1 + 1])
    BY <1>9, <2>1
  <2> QED BY <2>1, <2>2
<1>14. 1 <= Len(c)
  BY <1>3, <1>6
<1>15. RunFits(c, r)
  BY <1>3, <1>5, <1>11, <1>12, <1>13, <1>14 DEF RunFits, at
<1> QED BY <1>15 DEF c

(* Before the first of a chain there is at most the line pointer that is   *)
(* redirected to it.                                                       *)
LEMMA FirstOfRun ==
  ASSUME HotInv, ChainsStand, NEW r, IsRoot(lps, r), NEW h, LeadsTo(lps, h, RootTo(lps, r))
  PROVE  h = r /\ lps[r].state = "redirect"
<1>0. r \in DOMAIN lps /\ h \in DOMAIN lps
  BY DEF IsRoot, LeadsTo, LinksTo, RefersTo, Holds
<1>1. lps[r].state = "redirect"
  <2> SUFFICES ASSUME lps[r].state # "redirect" PROVE FALSE
    OBVIOUS
  <2>1. RootTo(lps, r) = r /\ ~lps[r].ver.hot
    BY DEF RootTo, IsRoot
  <2>2. r # 0
    BY <1>0, PageIsFunction DEF HotInv
  <2>3. CASE LinksTo(lps, h, r)
    BY <1>0, <2>1, <2>2, <2>3 DEF LinksTo, ChainsStand, LinksStand, Holds
  <2>4. CASE RefersTo(lps, h, r)
    BY <1>0, <2>1, <2>4 DEF RefersTo, ChainsStand, RedirectsStand
  <2> QED BY <2>1, <2>3, <2>4 DEF LeadsTo
<1>2. LeadsTo(lps, r, RootTo(lps, r)) /\ RootTo(lps, r) \in DOMAIN lps
  BY <1>0, <1>1 DEF LeadsTo, RefersTo, RootTo, ChainsStand, RedirectsStand, Holds
<1> QED BY <1>0, <1>1, <1>2 DEF ChainsStand, OneBefore

(* No line pointer both holds a version and is redirected.                 *)
LEMMA LinkOrRedirect ==
  ASSUME HotInv, NEW i, Holds(lps, i)
  PROVE  lps[i].state = "normal"
BY DEF HotInv, PageFits, LpFits, Holds

(* No version is on the chains of two roots. *)
LEMMA RunsApart ==
  ASSUME HotInv, ChainsStand, NEW q, NEW r, IsRoot(lps, q), IsRoot(lps, r),
         NEW k \in 1 .. Len(Hot!Chain(q)), NEW l \in 1 .. Len(Hot!Chain(r)),
         Hot!Chain(q)[k] = Hot!Chain(r)[l]
  PROVE  q = r
<1> DEFINE c == Hot!Chain(q)
           d == Hot!Chain(r)
           Met == {m \in 1 .. Len(c) : \E o \in 1 .. Len(d) : c[m] = d[o]}
<1>1. RunFits(c, q) /\ RunFits(d, r)
  BY RootsRun
<1>2. k \in Met /\ Met \subseteq Nat
  BY <1>1 DEF RunFits
<1>3. PICK m \in Met : \A o \in Met : m <= o
  BY <1>2, LeastIn
<1> HIDE DEF c, d
<1>4. m \in 1 .. Len(c) /\ \E o \in 1 .. Len(d) : c[m] = d[o]
  BY <1>3
<1>5. PICK o \in 1 .. Len(d) : c[m] = d[o]
  BY <1>4
<1>6. ASSUME m # 1, o # 1 PROVE FALSE
  <2>1. m - 1 \in 1 .. Len(c) /\ LinksTo(lps, c[m - 1], c[m]) /\ Holds(lps, c[m - 1]) /\ Holds(lps, c[m])
    BY <1>1, <1>4, <1>6 DEF RunFits
  <2>2. o - 1 \in 1 .. Len(d) /\ LinksTo(lps, d[o - 1], d[o]) /\ Holds(lps, d[o - 1])
    BY <1>1, <1>6 DEF RunFits
  <2>3. c[m - 1] = d[o - 1]
    BY <1>5, <2>1, <2>2 DEF ChainsStand, OneBefore, LeadsTo, Holds
  <2>4. m - 1 \in Met /\ ~(m <= m - 1)
    BY <1>4, <2>1, <2>2, <2>3
  <2> QED BY <1>3, <2>4
<1>7. ASSUME m # 1, o = 1 PROVE FALSE
  <2>1. LinksTo(lps, c[m - 1], c[m]) /\ m - 1 \in 1 .. Len(c) /\ Holds(lps, c[m - 1])
    BY <1>1, <1>4, <1>7 DEF RunFits
  <2>2. c[m] = RootTo(lps, r)
    BY <1>1, <1>5, <1>7 DEF RunFits
  <2>3. c[m - 1] = r /\ lps[r].state = "redirect"
    BY <2>1, <2>2, FirstOfRun DEF LeadsTo
  <2> QED BY <2>1, <2>3, LinkOrRedirect
<1>8. ASSUME m = 1, o # 1 PROVE FALSE
  <2>1. LinksTo(lps, d[o - 1], d[o]) /\ o - 1 \in 1 .. Len(d) /\ Holds(lps, d[o - 1])
    BY <1>1, <1>8 DEF RunFits
  <2>2. d[o] = RootTo(lps, q)
    BY <1>1, <1>5, <1>8 DEF RunFits
  <2>3. d[o - 1] = q /\ lps[q].state = "redirect"
    BY <2>1, <2>2, FirstOfRun DEF LeadsTo
  <2> QED BY <2>1, <2>3, LinkOrRedirect
<1>9. ASSUME m = 1, o = 1 PROVE q = r
  <2>1. RootTo(lps, q) = RootTo(lps, r)
    BY <1>1, <1>5, <1>9 DEF RunFits
  <2>2. CASE lps[q].state = "redirect"
    <3>1. LeadsTo(lps, q, RootTo(lps, r))
      BY <2>1, <2>2 DEF LeadsTo, RefersTo, RootTo, IsRoot
    <3> QED BY <3>1, FirstOfRun
  <2>3. CASE lps[r].state = "redirect"
    <3>1. LeadsTo(lps, r, RootTo(lps, q))
      BY <2>1, <2>3 DEF LeadsTo, RefersTo, RootTo, IsRoot
    <3> QED BY <3>1, FirstOfRun
  <2>4. CASE lps[q].state # "redirect" /\ lps[r].state # "redirect"
    BY <2>1, <2>4 DEF RootTo
  <2> QED BY <2>2, <2>3, <2>4
<1> QED BY <1>6, <1>7, <1>8, <1>9

(* Every version is on the chain of a root.                                *)
LEMMA OnSomeRun ==
  ASSUME HotInv, ChainsStand, NEW i, Holds(lps, i)
  PROVE  \E r \in DOMAIN lps : IsRoot(lps, r) /\ \E m \in 1 .. Len(Hot!Chain(r)) : Hot!Chain(r)[m] = i
<1> DEFINE On(j) == \E r \in DOMAIN lps :
                      IsRoot(lps, r) /\ \E m \in 1 .. Len(Hot!Chain(r)) : Hot!Chain(r)[m] = j
           Off == {j \in DOMAIN lps : Holds(lps, j) /\ ~On(j)}
           Ages == {lps[j].ver.xmin : j \in Off}
<1>0. \A j : Holds(lps, j) => j \in DOMAIN lps /\ lps[j].ver.xmin \in Nat /\ j # 0
  <2>1. 0 \notin DOMAIN lps
    BY PageIsFunction DEF HotInv
  <2> QED BY <2>1 DEF HotInv, PageFits, LpFits, IsVersion, Holds
<1> HIDE DEF On
<1>1. ASSUME Off # {} PROVE FALSE
  <2>1. Ages \subseteq Nat /\ Ages # {}
    BY <1>0, <1>1
  <2>2. PICK a \in Ages : \A b \in Ages : a <= b
    BY <2>1, LeastIn
  <2>3. PICK j \in Off : a = lps[j].ver.xmin
    BY <2>2
  <2>4. Holds(lps, j) /\ ~On(j) /\ j \in DOMAIN lps /\ j # 0
    BY <1>0, <2>3
  <2>5. CASE ~lps[j].ver.hot
    <3>1. IsRoot(lps, j) /\ RootTo(lps, j) = j
      BY <2>4, <2>5, LinkOrRedirect DEF IsRoot, RootTo, Holds
    <3>2. RunFits(Hot!Chain(j), j)
      BY <3>1, RootsRun
    <3>3. 1 \in 1 .. Len(Hot!Chain(j)) /\ Hot!Chain(j)[1] = j
      BY <3>1, <3>2 DEF RunFits
    <3> QED BY <2>4, <3>1, <3>3 DEF On
  <2>6. CASE lps[j].ver.hot
    <3>1. PICK p \in DOMAIN lps : LeadsTo(lps, p, j)
      BY <2>4, <2>6 DEF ChainsStand, OneBefore, Holds
    <3>2. CASE RefersTo(lps, p, j)
      <4>1. IsRoot(lps, p) /\ RootTo(lps, p) = j
        BY <3>2 DEF RefersTo, IsRoot, RootTo
      <4>2. RunFits(Hot!Chain(p), p)
        BY <4>1, RootsRun
      <4>3. 1 \in 1 .. Len(Hot!Chain(p)) /\ Hot!Chain(p)[1] = j
        BY <4>1, <4>2 DEF RunFits
      <4> QED BY <2>4, <3>1, <4>1, <4>3 DEF On
    <3>3. CASE LinksTo(lps, p, j)
      <4>1. Holds(lps, p) /\ lps[p].ver.link = j /\ lps[p].ver.xmin < lps[j].ver.xmin
        BY <2>4, <3>3 DEF LinksTo, ChainsStand, LinksStand, Holds
      <4>2. p \notin Off
        <5> SUFFICES ASSUME p \in Off PROVE FALSE
          OBVIOUS
        <5>1. a <= lps[p].ver.xmin
          BY <2>2
        <5> QED BY <1>0, <2>3, <2>4, <4>1, <5>1
      <4>3. On(p)
        BY <4>1, <4>2, <1>0
      <4>4. PICK r \in DOMAIN lps :
              IsRoot(lps, r) /\ \E m \in 1 .. Len(Hot!Chain(r)) : Hot!Chain(r)[m] = p
        BY <4>3 DEF On
      <4>5. PICK m \in 1 .. Len(Hot!Chain(r)) : Hot!Chain(r)[m] = p
        BY <4>4
      <4> DEFINE c == Hot!Chain(r)
      <4>6. RunFits(c, r)
        BY <4>4, RootsRun
      <4>7. m \in 1 .. Len(c) /\ c[m] = p
        BY <4>5
      <4> HIDE DEF c
      <4>8. m < Len(c) /\ c[m + 1] = j
        BY <2>4, <4>1, <4>6, <4>7 DEF RunFits
      <4>9. m + 1 \in 1 .. Len(c)
        BY <4>6, <4>7, <4>8 DEF RunFits
      <4> QED BY <2>4, <4>4, <4>8, <4>9 DEF On, c
    <3> QED BY <3>1, <3>2, <3>3 DEF LeadsTo
  <2> QED BY <2>5, <2>6
<1>2. On(i)
  BY <1>0, <1>1
<1> QED BY <1>2 DEF On

(* No chain begins at a line pointer that is neither of these.             *)
LEMMA NoRun ==
  ASSUME HotInv, NEW i, i \in DOMAIN lps, lps[i].state \notin {"normal", "redirect"}
  PROVE  Len(Hot!Chain(i)) = 0
<1> DEFINE c == Hot!Chain(i)
<1>1. /\ Len(c) \in Nat
      /\ \A j \in 1 .. Len(c) : c[j] \in Hot!LpId /\ Hot!HasVer(c[j])
      /\ Len(c) # 0 /\ lps[i].state # "redirect" => c[1] = i
  BY ChainIsThere
<1> HIDE DEF c
<1>2. Len(c) = 0
  <2> SUFFICES ASSUME Len(c) # 0 PROVE FALSE
    OBVIOUS
  <2>1. 1 \in 1 .. Len(c) /\ c[1] = i
    BY <1>1
  <2>2. Holds(lps, i)
    BY <1>1, <2>1 DEF Holds, Hot!LpId, Hot!HasVer
  <2> QED BY <2>2, LinkOrRedirect
<1> QED BY <1>2 DEF c

LEMMA LeadInvMeans ==
  ASSUME LeadInv
  PROVE  Hot!EntriesLead
<1> DEFINE here   == {idx[j] : j \in {k \in DOMAIN idx : idx[k].page = 0}}
           Led(e) == {Hot!Chain(e.lp)[k] : k \in 1 .. Len(Hot!Chain(e.lp))}
<1>0. HotInv /\ ChainsStand /\ EntriesStand(lps, idx)
  BY DEF LeadInv
<1>1. ASSUME NEW e \in here
      PROVE  /\ e.lp \in Hot!LpId \ Hot!Unused
             /\ \A i \in Led(e) : lps[i].ver.row = e.row
  <2>1. PICK k \in DOMAIN idx : idx[k].page = 0 /\ e = idx[k]
    OBVIOUS
  <2>2. /\ e.lp \in DOMAIN lps
        /\ \/ lps[e.lp].state = "dead"
           \/ IsRoot(lps, e.lp) /\ lps[RootTo(lps, e.lp)].ver.row = e.row
    BY <1>0, <2>1 DEF EntriesStand
  <2>3. CASE lps[e.lp].state = "dead"
    <3>1. Len(Hot!Chain(e.lp)) = 0
      BY <1>0, <2>2, <2>3, NoRun
    <3>2. Led(e) = {}
      BY <3>1
    <3> QED BY <2>2, <2>3, <3>2 DEF Hot!LpId, Hot!Unused
  <2>4. CASE IsRoot(lps, e.lp) /\ lps[RootTo(lps, e.lp)].ver.row = e.row
    <3>1. RunFits(Hot!Chain(e.lp), e.lp)
      BY <1>0, <2>4, RootsRun
    <3>2. \A i \in Led(e) : lps[i].ver.row = e.row
      BY <2>4, <3>1 DEF RunFits
    <3>3. lps[e.lp].state # "unused"
      BY <1>0, <2>4, LinkOrRedirect DEF IsRoot, Holds
    <3> QED BY <2>2, <3>2, <3>3 DEF Hot!LpId, Hot!Unused
  <2> QED BY <2>2, <2>3, <2>4
<1>2. ASSUME NEW i \in Hot!LpId, Hot!HasVer(i)
      PROVE  \E e \in here : ~e.killed /\ i \in Led(e)
  <2>1. PICK r \in DOMAIN lps : IsRoot(lps, r) /\ \E m \in 1 .. Len(Hot!Chain(r)) : Hot!Chain(r)[m] = i
    BY <1>0, <1>2, OnSomeRun DEF Holds, Hot!LpId, Hot!HasVer
  <2>2. PICK k \in DOMAIN idx : idx[k].page = 0 /\ idx[k].lp = r
    BY <1>0, <2>1 DEF EntriesStand
  <2>3. lps[r].state # "dead"
    BY <1>0, <2>1, LinkOrRedirect DEF IsRoot, Holds
  <2>4. ~idx[k].killed
    BY <1>0, <2>2, <2>3 DEF EntriesStand
  <2>5. idx[k] \in here /\ i \in Led(idx[k])
    BY <2>1, <2>2
  <2> QED BY <2>4, <2>5
<1> QED BY <1>1, <1>2 DEF Hot!EntriesLead

(* What a pruning removes of a chain is its head, whole.                   *)
Dying(r) == Hot!DeadHead(Hot!Chain(r))

LEMMA RootsAre ==
  ASSUME HotInv, NEW i \in DOMAIN lps
  PROVE  Hot!Root(i) <=> IsRoot(lps, i)
<1>1. lps[i].ver # Hot!NoVer <=> lps[i].state = "normal"
  BY DEF HotInv, PageFits, LpFits
<1> QED BY <1>1 DEF Hot!Root, IsRoot, Hot!HasVer

LEMMA DyingFits ==
  ASSUME HotInv, NEW r
  PROVE  /\ Dying(r) \in 0 .. Len(Hot!Chain(r)) /\ Len(Hot!Chain(r)) \in Nat
         /\ Dying(r) < Len(Hot!Chain(r)) => ~Hot!isDead(lps[Hot!Chain(r)[Dying(r) + 1]].ver)
<1>1. Len(Hot!Chain(r)) \in Nat
  BY ChainIsThere
<1> QED BY <1>1, DeadHeadIsDead DEF Dying

LEMMA RemovedMeaning ==
  ASSUME HotInv, NEW i
  PROVE  i \in Hot!Removed <=>
           \E r \in DOMAIN lps : IsRoot(lps, r) /\ \E m \in 1 .. Dying(r) : Hot!Chain(r)[m] = i
<1>1. i \in Hot!Removed <=>
        \E r \in Hot!LpId : Hot!Root(r) /\ \E m \in 1 .. Dying(r) : i = Hot!Chain(r)[m]
  BY DEF Hot!Removed, Dying
<1> QED BY <1>1, RootsAre DEF Hot!LpId

LEMMA BeforeRemoved ==
  ASSUME HotInv, ChainsStand, NEW j \in Hot!Removed, NEW h, LeadsTo(lps, h, j)
  PROVE  \/ h \in Hot!Removed
         \/ IsRoot(lps, h) /\ lps[h].state = "redirect" /\ 0 < Dying(h)
<1>1. PICK r \in DOMAIN lps : IsRoot(lps, r) /\ \E m \in 1 .. Dying(r) : Hot!Chain(r)[m] = j
  BY RemovedMeaning
<1>2. PICK m \in 1 .. Dying(r) : Hot!Chain(r)[m] = j
  BY <1>1
<1> DEFINE c == Hot!Chain(r)
<1>3. RunFits(c, r) /\ c[m] = j
  BY <1>1, <1>2, RootsRun
<1>4. Dying(r) \in 0 .. Len(c) /\ Len(c) \in Nat
  BY DyingFits
<1> HIDE DEF c
<1>5. m \in 1 .. Len(c)
  BY <1>4
<1>6. CASE m = 1
  <2>1. h = r /\ lps[r].state = "redirect"
    BY <1>1, <1>3, <1>6, FirstOfRun DEF RunFits
  <2> QED BY <1>1, <1>4, <2>1
<1>7. CASE m # 1
  <2>1. m - 1 \in 1 .. Dying(r) /\ LinksTo(lps, c[m - 1], j) /\ Holds(lps, c[m - 1]) /\ Holds(lps, j)
    BY <1>3, <1>4, <1>5, <1>7 DEF RunFits
  <2>2. h \in DOMAIN lps
    BY DEF LeadsTo, LinksTo, RefersTo, Holds
  <2>3. h = c[m - 1]
    BY <2>1, <2>2 DEF ChainsStand, OneBefore, LeadsTo, Holds
  <2> QED BY <1>1, <2>1, <2>3, RemovedMeaning DEF c
<1> QED BY <1>6, <1>7

LEMMA AfterRemoved ==
  ASSUME HotInv, ChainsStand, NEW h \in Hot!Removed, NEW j, LinksTo(lps, h, j), Holds(lps, j),
         j \notin Hot!Removed
  PROVE  \E r \in DOMAIN lps : /\ IsRoot(lps, r) /\ 0 < Dying(r) /\ Dying(r) < Len(Hot!Chain(r))
                               /\ Hot!Chain(r)[Dying(r) + 1] = j
<1>1. PICK r \in DOMAIN lps : IsRoot(lps, r) /\ \E m \in 1 .. Dying(r) : Hot!Chain(r)[m] = h
  BY RemovedMeaning
<1>2. PICK m \in 1 .. Dying(r) : Hot!Chain(r)[m] = h
  BY <1>1
<1> DEFINE c == Hot!Chain(r)
<1>3. RunFits(c, r) /\ c[m] = h
  BY <1>1, <1>2, RootsRun
<1>4. Dying(r) \in 0 .. Len(c) /\ Len(c) \in Nat
  BY DyingFits
<1> HIDE DEF c
<1>5. m \in 1 .. Len(c) /\ lps[c[m]].ver.link = j
  BY <1>3, <1>4 DEF LinksTo
<1>6. m < Len(c) /\ c[m + 1] = j
  BY <1>3, <1>5 DEF RunFits
<1>7. m + 1 \notin 1 .. Dying(r)
  BY <1>1, <1>6, RemovedMeaning DEF c
<1>8. m = Dying(r) /\ 0 < Dying(r)
  BY <1>4, <1>7
<1> QED BY <1>1, <1>6, <1>8 DEF c

(* What a pruning makes of each line pointer. *)
LEMMA PrunedLps ==
  ASSUME HotInv, ChainsStand, Hot!prune, NEW i \in DOMAIN lps
  PROVE  /\ DOMAIN lps' = DOMAIN lps
         /\ IsRoot(lps, i) /\ 0 < Dying(i) =>
              lps'[i] = IF Dying(i) < Len(Hot!Chain(i))
                          THEN Hot!Lp("redirect", Hot!Chain(i)[Dying(i) + 1], Hot!NoVer)
                          ELSE Hot!clearVer("dead")
         /\ ~(IsRoot(lps, i) /\ 0 < Dying(i)) /\ i \in Hot!Removed =>
              ~IsRoot(lps, i) /\ lps'[i] = Hot!clearVer("unused")
         /\ ~(IsRoot(lps, i) /\ 0 < Dying(i)) /\ i \notin Hot!Removed => lps'[i] = lps[i]
<1>1. DOMAIN lps' = DOMAIN lps /\ lps'[i] = Hot!PrunedLp(i, Hot!Removed)
  BY DEF Hot!prune, Hot!LpId
<1>2. Dying(i) \in Nat
  BY DyingFits
<1>3. lps'[i] = IF IsRoot(lps, i) /\ 0 < Dying(i)
                  THEN IF Dying(i) < Len(Hot!Chain(i))
                         THEN Hot!Lp("redirect", Hot!Chain(i)[Dying(i) + 1], Hot!NoVer)
                         ELSE IF lps[i].state = "redirect" THEN Hot!clearVer("dead") ELSE Hot!Stub(i)
                ELSE IF i \in Hot!Removed THEN Hot!Stub(i)
                ELSE lps[i]
  <2>1. Hot!Root(i) /\ Dying(i) > 0 <=> IsRoot(lps, i) /\ 0 < Dying(i)
    BY <1>2, RootsAre
  <2> QED BY <1>1, <2>1 DEF Hot!PrunedLp, Dying
<1>4. ASSUME IsRoot(lps, i), lps[i].state # "redirect" PROVE Hot!Stub(i) = Hot!clearVer("dead")
  BY <1>4 DEF IsRoot, Hot!Stub
<1>5. ASSUME ~(IsRoot(lps, i) /\ 0 < Dying(i)), i \in Hot!Removed
      PROVE  ~IsRoot(lps, i) /\ Hot!Stub(i) = Hot!clearVer("unused")
  <2>1. Holds(lps, i)
    BY <1>5, RemovedAreDead DEF Holds, Hot!LpId, Hot!HasVer
  <2>2. PICK r \in DOMAIN lps : IsRoot(lps, r) /\ \E m \in 1 .. Dying(r) : Hot!Chain(r)[m] = i
    BY <1>5, RemovedMeaning
  <2>3. PICK m \in 1 .. Dying(r) : Hot!Chain(r)[m] = i
    BY <2>2
  <2> DEFINE c == Hot!Chain(r)
  <2>4. RunFits(c, r) /\ c[m] = i
    BY <2>2, <2>3, RootsRun
  <2>5. Dying(r) \in 0 .. Len(c) /\ Len(c) \in Nat
    BY DyingFits
  <2> HIDE DEF c
  <2>6. m \in 1 .. Len(c)
    BY <2>5
  <2>7. lps[i].ver.hot
    <3>1. CASE m # 1
      BY <2>4, <2>6, <3>1 DEF RunFits
    <3>2. CASE m = 1
      <4>1. RootTo(lps, r) = i
        BY <2>4, <3>2 DEF RunFits
      <4>2. CASE lps[r].state = "redirect"
        BY <2>2, <4>1, <4>2 DEF RootTo, ChainsStand, RedirectsStand
      <4>3. CASE lps[r].state # "redirect"
        <5>1. r = i /\ 0 < Dying(r)
          BY <2>5, <4>1, <4>3 DEF RootTo
        <5> QED BY <1>5, <2>2, <5>1
      <4> QED BY <4>2, <4>3
    <3> QED BY <3>1, <3>2
  <2>8. lps[i].state # "redirect"
    BY <2>1, LinkOrRedirect
  <2> QED BY <2>7, <2>8 DEF IsRoot, Hot!Stub
<1> QED BY <1>1, <1>3, <1>4, <1>5

LEMMA PrunedVersions ==
  ASSUME HotInv, ChainsStand, Hot!prune, NEW i
  PROVE  /\ Holds(lps', i) <=> Holds(lps, i) /\ i \notin Hot!Removed
         /\ Holds(lps', i) => lps'[i] = lps[i]
<1>1. CASE i \notin DOMAIN lps
  <2>1. DOMAIN lps' = DOMAIN lps
    BY DEF Hot!prune, Hot!LpId
  <2> QED BY <1>1, <2>1 DEF Holds
<1>2. CASE i \in DOMAIN lps
  <2>0. DOMAIN lps' = DOMAIN lps
    BY <1>2, PrunedLps
  <2>1. CASE IsRoot(lps, i) /\ 0 < Dying(i)
    <3>1. lps'[i].ver = Hot!NoVer
      <4>1. \/ lps'[i] = Hot!Lp("redirect", Hot!Chain(i)[Dying(i) + 1], Hot!NoVer)
            \/ lps'[i] = Hot!clearVer("dead")
        BY <1>2, <2>1, PrunedLps
      <4> QED BY <4>1 DEF Hot!Lp, Hot!clearVer
    <3>2. Holds(lps, i) => i \in Hot!Removed
      <4> SUFFICES ASSUME Holds(lps, i) PROVE i \in Hot!Removed
        OBVIOUS
      <4>1. RootTo(lps, i) = i
        BY LinkOrRedirect DEF RootTo
      <4>2. Hot!Chain(i)[1] = i
        BY <2>1, <4>1, RootsRun DEF RunFits
      <4>3. 1 \in 1 .. Dying(i)
        BY <2>1, DyingFits
      <4> QED BY <1>2, <2>1, <4>2, <4>3, RemovedMeaning
    <3> QED BY <2>0, <3>1, <3>2 DEF Holds
  <2>2. CASE ~(IsRoot(lps, i) /\ 0 < Dying(i)) /\ i \in Hot!Removed
    <3>1. lps'[i].ver = Hot!NoVer
      <4>1. lps'[i] = Hot!clearVer("unused")
        BY <1>2, <2>2, PrunedLps
      <4> QED BY <4>1 DEF Hot!Lp, Hot!clearVer
    <3> QED BY <2>0, <2>2, <3>1 DEF Holds
  <2>3. CASE ~(IsRoot(lps, i) /\ 0 < Dying(i)) /\ i \notin Hot!Removed
    <3>1. lps'[i] = lps[i]
      BY <1>2, <2>3, PrunedLps
    <3> QED BY <2>0, <2>3, <3>1 DEF Holds
  <2> QED BY <2>1, <2>2, <2>3
<1> QED BY <1>1, <1>2

(* After a pruning whatever leads to a version led to it before, or takes  *)
(* the place of what did.                                                  *)
LEMMA LeadersPruned ==
  ASSUME HotInv, ChainsStand, Hot!prune, NEW i, NEW j, LeadsTo(lps', i, j)
  PROVE  \/ LeadsTo(lps, i, j) /\ lps'[i] = lps[i] /\ i \notin Hot!Removed
            /\ ~(IsRoot(lps, i) /\ 0 < Dying(i))
         \/ /\ IsRoot(lps, i) /\ 0 < Dying(i) /\ Dying(i) < Len(Hot!Chain(i))
            /\ Hot!Chain(i)[Dying(i) + 1] = j
            /\ lps'[i].state = "redirect"
<1>0. DOMAIN lps' = DOMAIN lps
  BY DEF Hot!prune, Hot!LpId
<1>1. i \in DOMAIN lps
  BY <1>0 DEF LeadsTo, LinksTo, RefersTo, Holds
<1>2. CASE IsRoot(lps, i) /\ 0 < Dying(i)
  <2>1. CASE Dying(i) < Len(Hot!Chain(i))
    <3>1. lps'[i] = Hot!Lp("redirect", Hot!Chain(i)[Dying(i) + 1], Hot!NoVer)
      BY <1>1, <1>2, <2>1, PrunedLps
    <3> DEFINE to == Hot!Chain(i)[Dying(i) + 1]
    <3>2. lps'[i].ver = Hot!NoVer /\ lps'[i].state = "redirect" /\ lps'[i].redirect = to
      <4> HIDE DEF to
      <4>1. lps'[i] = Hot!Lp("redirect", to, Hot!NoVer)
        BY <3>1 DEF to
      <4> QED BY <4>1 DEF Hot!Lp
    <3> QED BY <1>2, <2>1, <3>2 DEF LeadsTo, LinksTo, RefersTo, Holds
  <2>2. CASE ~(Dying(i) < Len(Hot!Chain(i)))
    <3>1. lps'[i] = Hot!clearVer("dead")
      BY <1>1, <1>2, <2>2, PrunedLps
    <3> QED BY <3>1 DEF LeadsTo, LinksTo, RefersTo, Holds, Hot!clearVer, Hot!Lp
  <2> QED BY <2>1, <2>2
<1>3. CASE ~(IsRoot(lps, i) /\ 0 < Dying(i)) /\ i \in Hot!Removed
  <2>1. lps'[i] = Hot!clearVer("unused")
    BY <1>1, <1>3, PrunedLps
  <2> QED BY <2>1 DEF LeadsTo, LinksTo, RefersTo, Holds, Hot!clearVer, Hot!Lp
<1>4. CASE ~(IsRoot(lps, i) /\ 0 < Dying(i)) /\ i \notin Hot!Removed
  <2>1. lps'[i] = lps[i]
    BY <1>1, <1>4, PrunedLps
  <2>2. LeadsTo(lps, i, j)
    BY <1>0, <1>1, <2>1 DEF LeadsTo, LinksTo, RefersTo, Holds
  <2> QED BY <1>4, <2>1, <2>2
<1> QED BY <1>2, <1>3, <1>4

(* What a chain goes on with after its dead head.                          *)
LEMMA NextHead ==
  ASSUME HotInv, ChainsStand, NEW r, IsRoot(lps, r), 0 < Dying(r), Dying(r) < Len(Hot!Chain(r))
  PROVE  LET j == Hot!Chain(r)[Dying(r) + 1]
         IN  /\ Holds(lps, j) /\ lps[j].ver.hot /\ j \notin Hot!Removed
             /\ lps[j].ver.row = lps[RootTo(lps, r)].ver.row
             /\ Dying(r) \in 1 .. Len(Hot!Chain(r))
             /\ Hot!Chain(r)[Dying(r)] \in Hot!Removed
             /\ LinksTo(lps, Hot!Chain(r)[Dying(r)], j)
<1> DEFINE c == Hot!Chain(r)
           d == Dying(r)
<1>1. RunFits(c, r)
  BY RootsRun
<1>2. d \in 0 .. Len(c) /\ Len(c) \in Nat /\ (d < Len(c) => ~Hot!isDead(lps[c[d + 1]].ver))
  BY DyingFits
<1>3. c[d] \in Hot!Removed
  <2>1. d \in 1 .. d /\ r \in DOMAIN lps
    BY <1>2 DEF IsRoot
  <2> QED BY <2>1, RemovedMeaning
<1>4. 0 < d /\ d < Len(c)
  OBVIOUS
<1> HIDE DEF c, d
<1>5. d + 1 \in 1 .. Len(c) /\ d + 1 # 1 /\ d + 1 - 1 = d /\ d \in 1 .. Len(c)
  BY <1>2, <1>4
<1>6. /\ Holds(lps, c[d + 1]) /\ lps[c[d + 1]].ver.row = lps[RootTo(lps, r)].ver.row
      /\ lps[c[d + 1]].ver.hot /\ LinksTo(lps, c[d + 1 - 1], c[d + 1])
  BY <1>1, <1>5 DEF RunFits
<1>7. c[d + 1] \notin Hot!Removed
  BY <1>2, <1>4, RemovedAreDead
<1> QED BY <1>3, <1>5, <1>6, <1>7 DEF c, d

LEMMA PrunedLinks ==
  ASSUME HotInv, ChainsStand, Hot!prune
  PROVE  LinksStand(lps', xid) /\ RedirectsStand(lps')
<1>0. DOMAIN lps' = DOMAIN lps /\ 0 \notin DOMAIN lps
  BY PageIsFunction DEF Hot!prune, Hot!LpId, HotInv
<1>1. LinksStand(lps', xid)
  <2> SUFFICES ASSUME NEW i \in DOMAIN lps, lps'[i].ver # Hot!NoVer
      PROVE  /\ lps'[i].ver.xmin < xid /\ lps'[i].ver.hot \in BOOLEAN
             /\ lps'[i].ver.xmax = Hot!Live => lps'[i].ver.link = 0
             /\ lps'[i].ver.link # 0 =>
                  /\ Holds(lps', lps'[i].ver.link) /\ lps'[lps'[i].ver.link].ver.hot
                  /\ lps'[lps'[i].ver.link].ver.row = lps'[i].ver.row
                  /\ lps'[i].ver.xmin < lps'[lps'[i].ver.link].ver.xmin
    BY <1>0 DEF LinksStand
  <2>1. Holds(lps, i) /\ lps'[i] = lps[i] /\ i \notin Hot!Removed
    BY <1>0, PrunedVersions DEF Holds
  <2> DEFINE j == lps[i].ver.link
  <2>2. ASSUME j # 0 PROVE Holds(lps', j) /\ lps'[j] = lps[j]
    <3>1. Holds(lps, j) /\ LeadsTo(lps, i, j)
      BY <2>1, <2>2 DEF ChainsStand, LinksStand, Holds, LeadsTo, LinksTo
    <3> HIDE DEF j
    <3>2. lps[i].state # "redirect"
      BY <2>1, LinkOrRedirect
    <3>3. j \notin Hot!Removed
      BY <2>1, <3>1, <3>2, BeforeRemoved
    <3> QED BY <3>1, <3>3, PrunedVersions
  <2> QED BY <2>1, <2>2 DEF ChainsStand, LinksStand, Holds
<1>2. RedirectsStand(lps')
  <2> SUFFICES ASSUME NEW i \in DOMAIN lps, lps'[i].state = "redirect"
      PROVE  Holds(lps', lps'[i].redirect) /\ lps'[lps'[i].redirect].ver.hot
    BY <1>0 DEF RedirectsStand
  <2> DEFINE j == lps'[i].redirect
  <2>1. LeadsTo(lps', i, j)
    BY <1>0 DEF LeadsTo, RefersTo
  <2> HIDE DEF j
  <2>2. CASE LeadsTo(lps, i, j) /\ lps'[i] = lps[i] /\ ~(IsRoot(lps, i) /\ 0 < Dying(i))
    <3>1. lps[i].state = "redirect" /\ lps[i].redirect = j /\ IsRoot(lps, i)
      BY <2>2 DEF j, IsRoot
    <3>2. Holds(lps, j) /\ lps[j].ver.hot
      BY <3>1 DEF ChainsStand, RedirectsStand
    <3>3. i \notin Hot!Removed
      <4>1. ~Holds(lps, i)
        BY <3>1, LinkOrRedirect
      <4> QED BY <4>1, RemovedAreDead DEF Holds, Hot!LpId, Hot!HasVer
    <3>4. j \notin Hot!Removed
      BY <2>2, <3>3, BeforeRemoved
    <3>5. Holds(lps', j) /\ lps'[j] = lps[j]
      BY <3>2, <3>4, PrunedVersions
    <3> QED BY <3>2, <3>5 DEF j
  <2>3. CASE /\ IsRoot(lps, i) /\ 0 < Dying(i) /\ Dying(i) < Len(Hot!Chain(i))
             /\ Hot!Chain(i)[Dying(i) + 1] = j
    <3>1. Holds(lps, j) /\ lps[j].ver.hot /\ j \notin Hot!Removed
      BY <2>3, NextHead
    <3>2. Holds(lps', j) /\ lps'[j] = lps[j]
      BY <3>1, PrunedVersions
    <3> QED BY <3>1, <3>2 DEF j
  <2> QED BY <2>1, <2>2, <2>3, LeadersPruned
<1> QED BY <1>1, <1>2

LEMMA PrunedOneBefore ==
  ASSUME HotInv, ChainsStand, Hot!prune
  PROVE  OneBefore(lps')
<1>0. DOMAIN lps' = DOMAIN lps
  BY DEF Hot!prune, Hot!LpId
<1>1. ASSUME NEW j \in DOMAIN lps, lps'[j].ver # Hot!NoVer, lps'[j].ver.hot
      PROVE  \E i \in DOMAIN lps : LeadsTo(lps', i, j)
  <2>1. Holds(lps, j) /\ lps'[j] = lps[j] /\ j \notin Hot!Removed
    BY <1>0, <1>1, PrunedVersions DEF Holds
  <2>2. PICK i \in DOMAIN lps : LeadsTo(lps, i, j)
    BY <1>1, <2>1 DEF ChainsStand, OneBefore, Holds
  <2>3. CASE LinksTo(lps, i, j) /\ i \notin Hot!Removed
    <3>1. Holds(lps', i) /\ lps'[i] = lps[i]
      BY <2>3, PrunedVersions DEF LinksTo
    <3> QED BY <2>3, <3>1 DEF LeadsTo, LinksTo
  <2>4. CASE LinksTo(lps, i, j) /\ i \in Hot!Removed
    <3>1. PICK r \in DOMAIN lps :
            /\ IsRoot(lps, r) /\ 0 < Dying(r) /\ Dying(r) < Len(Hot!Chain(r))
            /\ Hot!Chain(r)[Dying(r) + 1] = j
      BY <2>1, <2>4, AfterRemoved
    <3>2. lps'[r] = Hot!Lp("redirect", j, Hot!NoVer)
      BY <3>1, PrunedLps
    <3>3. lps'[r].state = "redirect" /\ lps'[r].redirect = j
      BY <3>2 DEF Hot!Lp
    <3> QED BY <1>0, <3>1, <3>3 DEF LeadsTo, RefersTo
  <2>5. CASE RefersTo(lps, i, j)
    <3>1. IsRoot(lps, i) /\ RootTo(lps, i) = j /\ ~Holds(lps, i)
      BY <2>5, LinkOrRedirect DEF RefersTo, IsRoot, RootTo
    <3>2. ~(0 < Dying(i))
      <4> SUFFICES ASSUME 0 < Dying(i) PROVE FALSE
        OBVIOUS
      <4>1. Hot!Chain(i)[1] = j /\ 1 \in 1 .. Dying(i)
        BY <3>1, DyingFits, RootsRun DEF RunFits
      <4> QED BY <2>1, <2>2, <3>1, <4>1, RemovedMeaning
    <3>3. i \notin Hot!Removed
      BY <3>1, RemovedAreDead DEF Holds, Hot!LpId, Hot!HasVer
    <3>4. lps'[i] = lps[i]
      BY <3>2, <3>3, PrunedLps
    <3> QED BY <1>0, <2>5, <3>4 DEF LeadsTo, RefersTo
  <2> QED BY <2>2, <2>3, <2>4, <2>5 DEF LeadsTo
<1>2. ASSUME NEW j \in DOMAIN lps, NEW h \in DOMAIN lps, NEW i \in DOMAIN lps,
             LeadsTo(lps', h, j), LeadsTo(lps', i, j)
      PROVE  h = i
  <2> DEFINE Old(k)   == /\ LeadsTo(lps, k, j) /\ k \notin Hot!Removed
             Moved(k) == /\ IsRoot(lps, k) /\ 0 < Dying(k) /\ Dying(k) < Len(Hot!Chain(k))
                         /\ Hot!Chain(k)[Dying(k) + 1] = j
  <2>1. (Old(h) \/ Moved(h)) /\ (Old(i) \/ Moved(i))
    BY <1>2, LeadersPruned
  <2>2. ASSUME NEW k, NEW l, Old(k), Moved(l) PROVE FALSE
    <3> DEFINE p == Hot!Chain(l)[Dying(l)]
    <3>1. p \in Hot!Removed /\ LinksTo(lps, p, j)
      BY <2>2, NextHead
    <3> HIDE DEF p
    <3>2. LeadsTo(lps, k, j) /\ LeadsTo(lps, p, j) /\ k \in DOMAIN lps /\ p \in DOMAIN lps
      BY <2>2, <3>1 DEF LeadsTo, LinksTo, RefersTo, Holds
    <3>3. p = k
      BY <3>2 DEF ChainsStand, OneBefore
    <3> QED BY <2>2, <3>1, <3>3
  <2>3. ASSUME Old(h), Old(i) PROVE h = i
    BY <2>3 DEF ChainsStand, OneBefore
  <2>4. ASSUME Moved(h), Moved(i) PROVE h = i
    <3> DEFINE p(k) == Hot!Chain(k)[Dying(k)]
    <3>1. ASSUME NEW k, Moved(k) PROVE LeadsTo(lps, p(k), j) /\ p(k) \in DOMAIN lps
                                      /\ Dying(k) \in 1 .. Len(Hot!Chain(k))
      <4>1. LinksTo(lps, p(k), j) /\ Dying(k) \in 1 .. Len(Hot!Chain(k))
        BY <3>1, NextHead
      <4> QED BY <4>1 DEF LeadsTo, LinksTo, Holds
    <3>2. /\ LeadsTo(lps, p(h), j) /\ p(h) \in DOMAIN lps /\ Dying(h) \in 1 .. Len(Hot!Chain(h))
          /\ LeadsTo(lps, p(i), j) /\ p(i) \in DOMAIN lps /\ Dying(i) \in 1 .. Len(Hot!Chain(i))
      BY <2>4, <3>1
    <3>3. p(h) = p(i)
      BY <3>2 DEF ChainsStand, OneBefore
    <3> QED BY <2>4, <3>2, <3>3, RunsApart
  <2> QED BY <2>1, <2>2, <2>3, <2>4
<1> QED BY <1>0, <1>1, <1>2 DEF OneBefore

LEMMA PrunedEntries ==
  ASSUME HotInv, ChainsStand, Hot!prune, NEW e, EntriesStand(lps, e)
  PROVE  EntriesStand(lps', e)
<1>0. DOMAIN lps' = DOMAIN lps
  BY DEF Hot!prune, Hot!LpId
<1>1. ASSUME NEW i \in DOMAIN lps, IsRoot(lps, i)
      PROVE  \/ lps'[i].state = "dead"
             \/ /\ IsRoot(lps', i)
                /\ lps'[RootTo(lps', i)].ver.row = lps[RootTo(lps, i)].ver.row
  <2>1. CASE 0 < Dying(i) /\ Dying(i) < Len(Hot!Chain(i))
    <3> DEFINE j == Hot!Chain(i)[Dying(i) + 1]
    <3>1. Holds(lps, j) /\ j \notin Hot!Removed /\ lps[j].ver.row = lps[RootTo(lps, i)].ver.row
      BY <1>1, <2>1, NextHead
    <3>2. lps'[i] = Hot!Lp("redirect", j, Hot!NoVer)
      BY <1>1, <2>1, PrunedLps
    <3> HIDE DEF j
    <3>3. lps'[i].state = "redirect" /\ lps'[i].redirect = j
      BY <3>2 DEF Hot!Lp
    <3>4. lps'[j] = lps[j]
      BY <3>1, PrunedVersions
    <3> QED BY <1>0, <3>1, <3>3, <3>4 DEF IsRoot, RootTo
  <2>2. CASE 0 < Dying(i) /\ ~(Dying(i) < Len(Hot!Chain(i)))
    <3>1. lps'[i] = Hot!clearVer("dead")
      BY <1>1, <2>2, PrunedLps
    <3> QED BY <3>1 DEF Hot!clearVer, Hot!Lp
  <2>3. CASE ~(0 < Dying(i))
    <3>1. lps'[i] = lps[i]
      BY <1>1, <2>3, PrunedLps
    <3>2. IsRoot(lps', i) /\ RootTo(lps', i) = RootTo(lps, i)
      BY <1>0, <1>1, <3>1 DEF IsRoot, RootTo
    <3>3. Holds(lps', RootTo(lps', i))
      <4>1. CASE lps[i].state = "redirect"
        <5>1. lps'[i].state = "redirect" /\ RootTo(lps', i) = lps'[i].redirect
          BY <3>1, <4>1 DEF RootTo
        <5>2. RedirectsStand(lps')
          BY PrunedLinks
        <5> QED BY <1>0, <5>1, <5>2 DEF RedirectsStand
      <4>2. CASE lps[i].state # "redirect"
        BY <1>0, <1>1, <3>1, <3>2, <4>2 DEF RootTo, IsRoot, Holds
      <4> QED BY <4>1, <4>2
    <3>4. lps'[RootTo(lps', i)] = lps[RootTo(lps', i)]
      BY <3>3, PrunedVersions
    <3> QED BY <3>2, <3>4
  <2> QED BY <2>1, <2>2, <2>3
<1>2. ASSUME NEW i \in DOMAIN lps, lps[i].state = "dead" PROVE lps'[i].state = "dead"
  BY <1>2, PruneKeeps
<1>3. ASSUME NEW i \in DOMAIN lps, IsRoot(lps', i) PROVE IsRoot(lps, i)
  <2>1. CASE lps'[i].state = "redirect"
    <3>1. LeadsTo(lps', i, lps'[i].redirect)
      BY <1>0, <1>3, <2>1 DEF LeadsTo, RefersTo
    <3>2. IsRoot(lps, i) \/ lps'[i] = lps[i]
      BY <3>1, LeadersPruned
    <3> QED BY <1>3, <2>1, <3>2 DEF IsRoot
  <2>2. CASE lps'[i].state # "redirect"
    <3>1. Holds(lps', i)
      BY <1>0, <1>3, <2>2 DEF IsRoot, Holds
    <3>2. lps'[i] = lps[i]
      BY <3>1, PrunedVersions
    <3> QED BY <1>3, <3>2 DEF IsRoot
  <2> QED BY <2>1, <2>2
<1>4. ASSUME NEW k \in DOMAIN e, e[k].page = 0
      PROVE  /\ e[k].lp \in DOMAIN lps
             /\ \/ lps'[e[k].lp].state = "dead"
                \/ /\ IsRoot(lps', e[k].lp) /\ ~e[k].killed
                   /\ lps'[RootTo(lps', e[k].lp)].ver.row = e[k].row
  <2>1. /\ e[k].lp \in DOMAIN lps
        /\ \/ lps[e[k].lp].state = "dead"
           \/ /\ IsRoot(lps, e[k].lp) /\ ~e[k].killed
              /\ lps[RootTo(lps, e[k].lp)].ver.row = e[k].row
    BY <1>4 DEF EntriesStand
  <2> QED BY <1>1, <1>2, <2>1
<1>5. ASSUME NEW i \in DOMAIN lps, IsRoot(lps', i)
      PROVE  \E k \in DOMAIN e : e[k].page = 0 /\ e[k].lp = i
  BY <1>3, <1>5 DEF EntriesStand
<1> QED BY <1>0, <1>4, <1>5 DEF EntriesStand

(* The index vacuum's loop: what it has after k turns, and that it exists. *)
LeftAfter(k, g) == g = [n \in 0 .. k |-> IF n = 0 THEN <<>> ELSE Hot!Left(g[n - 1], idx[n])]

LEMMA LeftExists == \A k \in Nat : \E g : LeftAfter(k, g)
<1> DEFINE T == {k \in Nat : ~\E g : LeftAfter(k, g)}
<1> SUFFICES ASSUME T # {} PROVE FALSE
  OBVIOUS
<1>1. PICK k \in T : \A m \in T : k <= m
  BY LeastIn
<1>2. k \in Nat /\ ~\E g : LeftAfter(k, g)
  BY <1>1
<1>3. k # 0
  <2> SUFFICES ASSUME k = 0 PROVE FALSE
    OBVIOUS
  <2> DEFINE g == [n \in 0 .. 0 |-> <<>>]
  <2>1. g = [n \in 0 .. 0 |-> IF n = 0 THEN <<>> ELSE Hot!Left(g[n - 1], idx[n])]
    OBVIOUS
  <2> HIDE DEF g
  <2> QED BY <1>2, <2>1 DEF LeftAfter
<1>4. k - 1 \in Nat /\ \E g : LeftAfter(k - 1, g)
  <2>1. k - 1 \in Nat /\ ~(k <= k - 1)
    BY <1>2, <1>3
  <2> QED BY <1>1, <2>1
<1>5. PICK g : LeftAfter(k - 1, g)
  BY <1>4
<1>6. g = [n \in 0 .. k - 1 |-> IF n = 0 THEN <<>> ELSE Hot!Left(g[n - 1], idx[n])]
  BY <1>5 DEF LeftAfter
<1>7. \A n \in 0 .. k - 1 : g[n] = IF n = 0 THEN <<>> ELSE Hot!Left(g[n - 1], idx[n])
  BY <1>2, <1>3, <1>6
<1> DEFINE e == [n \in 0 .. k |-> IF n = k THEN Hot!Left(g[k - 1], idx[k]) ELSE g[n]]
<1>8. ASSUME NEW n \in 0 .. k
      PROVE  e[n] = IF n = 0 THEN <<>> ELSE Hot!Left(e[n - 1], idx[n])
  <2>1. CASE n = k
    <3>1. k - 1 \in 0 .. k /\ k - 1 # k /\ k \in 0 .. k
      BY <1>2, <1>3
    <3>2. e[k] = Hot!Left(g[k - 1], idx[k]) /\ e[k - 1] = g[k - 1]
      BY <3>1
    <3> QED BY <1>3, <2>1, <3>2
  <2>2. CASE n # k
    <3>1. n \in 0 .. k - 1 /\ e[n] = g[n]
      BY <1>2, <2>2
    <3>2. CASE n = 0
      BY <1>7, <3>1, <3>2
    <3>3. CASE n # 0
      <4>1. n - 1 \in 0 .. k /\ n - 1 # k
        BY <1>2, <2>2, <3>3
      <4>2. e[n - 1] = g[n - 1]
        BY <4>1
      <4> QED BY <1>7, <3>1, <3>3, <4>2
    <3> QED BY <3>2, <3>3
  <2> QED BY <2>1, <2>2
<1>9. e = [n \in 0 .. k |-> e[n]]
  OBVIOUS
<1> HIDE DEF e
<1>10. e = [n \in 0 .. k |-> IF n = 0 THEN <<>> ELSE Hot!Left(e[n - 1], idx[n])]
  BY <1>8, <1>9
<1> QED BY <1>2, <1>10 DEF LeftAfter

(* Of the first n entries it has kept those that do not point at what is   *)
(* noted.                                                                  *)
Stays(e) == ~(e.page = 0 /\ e.lp \in deadTids)
KeptOf(c, n) ==
  /\ c \in Seq({idx[k] : k \in DOMAIN idx})
  /\ \A k \in DOMAIN c : \E l \in 1 .. n : c[k] = idx[l] /\ Stays(idx[l])
  /\ \A l \in 1 .. n : Stays(idx[l]) => \E k \in DOMAIN c : c[k] = idx[l]

LEMMA LeftKeeps ==
  ASSUME IdxFits(idx), NEW n \in 1 .. Len(idx), NEW c, KeptOf(c, n - 1)
  PROVE  KeptOf(Hot!Left(c, idx[n]), n)
<1> DEFINE d == Hot!Left(c, idx[n])
           S == {idx[k] : k \in DOMAIN idx}
<1>0. /\ Len(idx) \in Nat /\ DOMAIN idx = 1 .. Len(idx)
      /\ n \in DOMAIN idx /\ 1 .. n = 1 .. n - 1 \union {n}
  <2>1. Len(idx) \in Nat /\ DOMAIN idx = 1 .. Len(idx)
    BY LenProperties DEF IdxFits
  <2> QED BY <2>1
<1>1. /\ c \in Seq(S) /\ Len(c) \in Nat /\ DOMAIN c = 1 .. Len(c)
      /\ \A k \in DOMAIN c : \E l \in 1 .. n - 1 : c[k] = idx[l] /\ Stays(idx[l])
      /\ \A l \in 1 .. n - 1 : Stays(idx[l]) => \E k \in DOMAIN c : c[k] = idx[l]
  BY LenProperties DEF KeptOf
<1>2. CASE ~Stays(idx[n])
  <2>1. d = c
    BY <1>2 DEF Hot!Left, Stays
  <2> HIDE DEF d
  <2> QED BY <1>0, <1>1, <1>2, <2>1 DEF KeptOf, d
<1>3. CASE Stays(idx[n])
  <2>1. d = Append(c, idx[n])
    BY <1>3 DEF Hot!Left, Stays
  <2>2. idx[n] \in S
    BY <1>0
  <2> HIDE DEF d, S
  <2>3. /\ d \in Seq(S) /\ Len(d) = Len(c) + 1
        /\ \A k \in 1 .. Len(c) : d[k] = c[k]
        /\ d[Len(c) + 1] = idx[n]
    BY <1>1, <2>1, <2>2, AppendProperties
  <2>4. DOMAIN d = 1 .. Len(c) + 1
    BY <2>3, LenProperties
  <2>5. ASSUME NEW k \in DOMAIN d
        PROVE  \E l \in 1 .. n : d[k] = idx[l] /\ Stays(idx[l])
    <3>1. CASE k = Len(c) + 1
      BY <1>0, <1>3, <2>3, <3>1
    <3>2. CASE k # Len(c) + 1
      <4>1. k \in 1 .. Len(c)
        BY <1>1, <2>4, <3>2
      <4> QED BY <1>0, <1>1, <2>3, <4>1
    <3> QED BY <3>1, <3>2
  <2>6. ASSUME NEW l \in 1 .. n, Stays(idx[l])
        PROVE  \E k \in DOMAIN d : d[k] = idx[l]
    <3>1. CASE l = n
      <4>1. Len(c) + 1 \in DOMAIN d
        BY <1>1, <2>4
      <4> QED BY <2>3, <3>1, <4>1
    <3>2. CASE l # n
      <4>1. l \in 1 .. n - 1
        BY <1>0, <3>2
      <4>2. PICK k \in DOMAIN c : c[k] = idx[l]
        BY <1>1, <2>6, <4>1
      <4>3. k \in 1 .. Len(c) /\ k \in DOMAIN d
        BY <1>1, <2>4
      <4> QED BY <2>3, <4>2, <4>3
    <3> QED BY <3>1, <3>2
  <2> QED BY <2>3, <2>5, <2>6 DEF KeptOf, S, d
<1> QED BY <1>2, <1>3

LEMMA LeftIsKept ==
  ASSUME IdxFits(idx)
  PROVE  KeptOf(Hot!idxLeft, Len(idx))
<1> DEFINE n == Len(idx)
           g == CHOOSE f : LeftAfter(n, f)
<1>0. n \in Nat
  BY LenProperties DEF IdxFits
<1>1. LeftAfter(n, g)
  BY <1>0, LeftExists
<1>2. Hot!idxLeft = g[n]
  BY DEF Hot!idxLeft, LeftAfter
<1> HIDE DEF g
<1>3. \A k \in 0 .. n : g[k] = IF k = 0 THEN <<>> ELSE Hot!Left(g[k - 1], idx[k])
  BY <1>1 DEF LeftAfter
<1> DEFINE T == {k \in 0 .. n : ~KeptOf(g[k], k)}
<1>4. ASSUME T # {} PROVE FALSE
  <2>1. T \subseteq Nat
    BY <1>0
  <2>2. PICK k \in T : \A m \in T : k <= m
    BY <1>4, <2>1, LeastIn
  <2>3. k \in 0 .. n /\ ~KeptOf(g[k], k)
    BY <2>2
  <2>4. CASE k = 0
    <3>1. g[0] = <<>>
      BY <1>0, <1>3
    <3>2. KeptOf(<<>>, 0)
      <4>1. 1 .. 0 = {} /\ DOMAIN <<>> = {}
        OBVIOUS
      <4>2. <<>> \in Seq({idx[l] : l \in DOMAIN idx})
        OBVIOUS
      <4> QED BY <4>1, <4>2 DEF KeptOf
    <3> QED BY <2>3, <2>4, <3>1, <3>2
  <2>5. CASE k # 0
    <3>1. k - 1 \in 0 .. n /\ ~(k <= k - 1) /\ k \in 1 .. n
      BY <1>0, <2>3, <2>5
    <3>2. KeptOf(g[k - 1], k - 1)
      BY <2>2, <3>1
    <3>3. g[k] = Hot!Left(g[k - 1], idx[k])
      BY <1>3, <2>3, <2>5
    <3> HIDE DEF T
    <3> QED BY <2>3, <3>1, <3>2, <3>3, LeftKeeps
  <2> QED BY <2>4, <2>5
<1>5. n \in 0 .. n
  BY <1>0
<1> HIDE DEF n
<1>6. KeptOf(g[n], n)
  BY <1>4, <1>5
<1> QED BY <1>2, <1>6 DEF n

LEMMA LeftFits ==
  ASSUME IdxFits(idx)
  PROVE  /\ IdxFits(Hot!idxLeft)
         /\ \A k \in DOMAIN Hot!idxLeft : \E l \in DOMAIN idx : Hot!idxLeft[k] = idx[l] /\ Stays(idx[l])
         /\ \A l \in DOMAIN idx : Stays(idx[l]) => \E k \in DOMAIN Hot!idxLeft : Hot!idxLeft[k] = idx[l]
<1>0. DOMAIN idx = 1 .. Len(idx)
  BY LenProperties DEF IdxFits
<1>1. KeptOf(Hot!idxLeft, Len(idx))
  BY LeftIsKept
<1> DEFINE c == Hot!idxLeft
<1> HIDE DEF c
<1>2. KeptOf(c, Len(idx))
  BY <1>1 DEF c
<1>3. /\ \A k \in DOMAIN c : \E l \in DOMAIN idx : c[k] = idx[l] /\ Stays(idx[l])
      /\ \A l \in DOMAIN idx : Stays(idx[l]) => \E k \in DOMAIN c : c[k] = idx[l]
  BY <1>0, <1>2 DEF KeptOf
<1>4. c \in Seq({c[k] : k \in DOMAIN c})
  <2>1. Len(c) \in Nat /\ DOMAIN c = 1 .. Len(c) /\ c = [k \in 1 .. Len(c) |-> c[k]]
    BY <1>2, LenProperties DEF KeptOf
  <2> QED BY <2>1, SeqDef
<1>5. \A k \in DOMAIN c : IsEntry(c[k])
  BY <1>3 DEF IdxFits
<1> QED BY <1>3, <1>4, <1>5 DEF IdxFits, c

LEMMA PruneLeads ==
  ASSUME LeadInv, Hot!prune, HotInv', UNCHANGED <<idx, xid>>
  PROVE  LeadInv'
<1>1. HotInv /\ ChainsStand /\ EntriesStand(lps, idx) /\ IdxFits(idx)
  BY DEF LeadInv
<1>2. LinksStand(lps', xid) /\ RedirectsStand(lps') /\ OneBefore(lps') /\ EntriesStand(lps', idx)
  BY <1>1, PrunedLinks, PrunedOneBefore, PrunedEntries
<1>3. IdxFits(idx)'
  BY <1>1 DEF IdxFits, IsEntry
<1>4. LinksStand(lps', xid') /\ EntriesStand(lps', idx')
  <2>1. xid' = xid /\ idx' = idx
    OBVIOUS
  <2> QED BY <1>2, <2>1
<1> QED BY <1>2, <1>3, <1>4 DEF LeadInv, ChainsStand

(* VACUUM's second pass touches no line pointer that leads anywhere.       *)
LEMMA ReleaseLeads ==
  ASSUME LeadInv, Hot!pgVacuum2, HotInv'
  PROVE  LeadInv'
<1> DEFINE n == Len(lps)
           m == Len(lps')
<1>0. /\ HotInv /\ ChainsStand /\ EntriesStand(lps, idx) /\ IdxFits(idx)
      /\ n \in Nat /\ DOMAIN lps = 1 .. n
      /\ \A i \in 1 .. n : LpFits(lps[i])
      /\ \A i \in deadTids : lps[i].state = "dead"
  BY PageIsFunction DEF LeadInv, HotInv, PageFits
<1>1. idx' = Hot!idxLeft /\ xid' = xid
  BY DEF Hot!pgVacuum2
<1>2. /\ m \in 0 .. n /\ PageFits(lps')
      /\ \A i \in 1 .. m : lps'[i] = IF i \in deadTids THEN Hot!clearVer("unused") ELSE lps[i]
      /\ \A i \in 1 .. n : m < i => i \in deadTids \/ lps[i].state = "unused"
  BY <1>0, ReleasedPage
<1>3. DOMAIN lps' = 1 .. m
  BY <1>2, PageIsFunction
<1> HIDE DEF m, n
<1>4. ASSUME NEW i \in DOMAIN lps, lps[i].state # "unused", i \notin deadTids
      PROVE  i \in DOMAIN lps' /\ lps'[i] = lps[i]
  BY <1>0, <1>2, <1>3, <1>4
<1>5. ASSUME NEW i \in DOMAIN lps', lps'[i].state \notin {"unused"}
      PROVE  i \in DOMAIN lps /\ i \notin deadTids /\ lps'[i] = lps[i]
  <2>1. Hot!clearVer("unused").state = "unused"
    BY DEF Hot!clearVer, Hot!Lp
  <2> QED BY <1>0, <1>2, <1>3, <1>5, <2>1
<1>6. \A i \in DOMAIN lps : lps[i].ver # Hot!NoVer <=> lps[i].state = "normal"
  BY <1>0 DEF LpFits
<1>7. \A i \in DOMAIN lps' : lps'[i].ver # Hot!NoVer <=> lps'[i].state = "normal"
  BY <1>2 DEF PageFits, LpFits
<1>8. \A i : Holds(lps', i) <=> Holds(lps, i)
  BY <1>0, <1>4, <1>5, <1>6, <1>7 DEF Holds
<1>9. \A i : Holds(lps, i) => lps'[i] = lps[i]
  BY <1>0, <1>4, <1>6 DEF Holds
<1>10. \A i : /\ i \in DOMAIN lps' /\ lps'[i].state = "redirect"
                 <=> i \in DOMAIN lps /\ lps[i].state = "redirect"
              /\ i \in DOMAIN lps /\ lps[i].state = "redirect" => lps'[i] = lps[i]
  BY <1>0, <1>4, <1>5
<1>11. \A i, j : LeadsTo(lps', i, j) <=> LeadsTo(lps, i, j)
  BY <1>8, <1>9, <1>10 DEF LeadsTo, LinksTo, RefersTo
<1>12. \A i : IsRoot(lps', i) <=> IsRoot(lps, i)
  <2>1. \A p, i : IsRoot(p, i) <=> \/ i \in DOMAIN p /\ p[i].state = "redirect"
                                   \/ Holds(p, i) /\ ~p[i].ver.hot
    BY DEF IsRoot, Holds
  <2> QED BY <1>8, <1>9, <1>10, <2>1
<1>13. LinksStand(lps', xid')
  <2>0. xid' = xid
    BY <1>1
  <2> SUFFICES ASSUME NEW i, Holds(lps', i)
      PROVE  /\ lps'[i].ver.xmin < xid /\ lps'[i].ver.hot \in BOOLEAN
             /\ lps'[i].ver.xmax = Hot!Live => lps'[i].ver.link = 0
             /\ lps'[i].ver.link # 0 =>
                  /\ Holds(lps', lps'[i].ver.link) /\ lps'[lps'[i].ver.link].ver.hot
                  /\ lps'[lps'[i].ver.link].ver.row = lps'[i].ver.row
                  /\ lps'[i].ver.xmin < lps'[lps'[i].ver.link].ver.xmin
    BY <2>0 DEF LinksStand, Holds
  <2>1. Holds(lps, i) /\ lps'[i] = lps[i]
    BY <1>8, <1>9
  <2> QED BY <1>0, <1>8, <1>9, <2>1 DEF ChainsStand, LinksStand, Holds
<1>14. RedirectsStand(lps')
  BY <1>0, <1>8, <1>9, <1>10 DEF RedirectsStand, ChainsStand
<1>15. OneBefore(lps')
  <2>1. \A i, j : LeadsTo(lps, i, j) => i \in DOMAIN lps'
    BY <1>8, <1>10 DEF LeadsTo, LinksTo, RefersTo, Holds
  <2>2. ASSUME NEW j \in DOMAIN lps', lps'[j].ver # Hot!NoVer, lps'[j].ver.hot
        PROVE  \E i \in DOMAIN lps' : LeadsTo(lps', i, j)
    <3>1. Holds(lps, j) /\ lps[j].ver.hot
      BY <1>8, <1>9, <2>2 DEF Holds
    <3>2. PICK i \in DOMAIN lps : LeadsTo(lps, i, j)
      BY <1>0, <3>1 DEF ChainsStand, OneBefore, Holds
    <3> QED BY <1>11, <2>1, <3>2
  <2>3. \A j, h, i \in DOMAIN lps' : LeadsTo(lps', h, j) /\ LeadsTo(lps', i, j) => h = i
    <3>1. \A i \in DOMAIN lps' : i \in DOMAIN lps
      BY <1>0, <1>2, <1>3
    <3> QED BY <1>0, <1>11, <3>1 DEF ChainsStand, OneBefore
  <2> QED BY <2>2, <2>3 DEF OneBefore
<1>16. /\ IdxFits(idx')
       /\ \A k \in DOMAIN idx' : \E l \in DOMAIN idx : idx'[k] = idx[l] /\ Stays(idx[l])
       /\ \A l \in DOMAIN idx : Stays(idx[l]) => \E k \in DOMAIN idx' : idx'[k] = idx[l]
  <2>1. /\ IdxFits(Hot!idxLeft)
        /\ \A k \in DOMAIN Hot!idxLeft : \E l \in DOMAIN idx : Hot!idxLeft[k] = idx[l] /\ Stays(idx[l])
        /\ \A l \in DOMAIN idx : Stays(idx[l]) => \E k \in DOMAIN Hot!idxLeft : Hot!idxLeft[k] = idx[l]
    BY <1>0, LeftFits
  <2>2. idx' = Hot!idxLeft
    BY <1>1
  <2> QED BY <2>1, <2>2
<1>17. ASSUME NEW i, IsRoot(lps, i)
       PROVE  /\ i \in DOMAIN lps /\ lps'[i] = lps[i] /\ lps[i].state \in {"normal", "redirect"}
              /\ RootTo(lps', i) = RootTo(lps, i) /\ lps'[RootTo(lps, i)] = lps[RootTo(lps, i)]
  <2>1. Holds(lps, i) \/ (i \in DOMAIN lps /\ lps[i].state = "redirect")
    BY <1>17 DEF IsRoot, Holds
  <2>2. i \in DOMAIN lps /\ lps'[i] = lps[i] /\ lps[i].state \in {"normal", "redirect"}
    BY <1>6, <1>9, <1>10, <2>1 DEF Holds
  <2>3. Holds(lps, RootTo(lps, i))
    BY <1>0, <1>6, <2>1 DEF RootTo, ChainsStand, RedirectsStand, Holds
  <2> QED BY <1>9, <2>2, <2>3 DEF RootTo
<1>18. EntriesStand(lps', idx')
  <2>1. ASSUME NEW k \in DOMAIN idx', idx'[k].page = 0
        PROVE  /\ idx'[k].lp \in DOMAIN lps'
               /\ \/ lps'[idx'[k].lp].state = "dead"
                  \/ /\ IsRoot(lps', idx'[k].lp) /\ ~idx'[k].killed
                     /\ lps'[RootTo(lps', idx'[k].lp)].ver.row = idx'[k].row
    <3>1. PICK l \in DOMAIN idx : idx'[k] = idx[l] /\ Stays(idx[l])
      BY <1>16
    <3>2. idx[l].page = 0 /\ idx[l].lp \notin deadTids
      BY <2>1, <3>1 DEF Stays
    <3>3. /\ idx[l].lp \in DOMAIN lps
          /\ \/ lps[idx[l].lp].state = "dead"
             \/ /\ IsRoot(lps, idx[l].lp) /\ ~idx[l].killed
                /\ lps[RootTo(lps, idx[l].lp)].ver.row = idx[l].row
      BY <1>0, <3>2 DEF EntriesStand
    <3>4. CASE lps[idx[l].lp].state = "dead"
      <4>1. idx[l].lp \in DOMAIN lps' /\ lps'[idx[l].lp] = lps[idx[l].lp]
        BY <1>4, <3>2, <3>3, <3>4
      <4> QED BY <3>1, <3>4, <4>1
    <3>5. CASE /\ IsRoot(lps, idx[l].lp) /\ ~idx[l].killed
               /\ lps[RootTo(lps, idx[l].lp)].ver.row = idx[l].row
      <4>1. IsRoot(lps', idx[l].lp) /\ idx[l].lp \in DOMAIN lps'
        BY <1>12, <3>5 DEF IsRoot
      <4>2. lps'[RootTo(lps', idx[l].lp)].ver.row = idx[l].row
        BY <1>17, <3>5
      <4> QED BY <3>1, <3>5, <4>1, <4>2
    <3> QED BY <3>3, <3>4, <3>5
  <2>2. ASSUME NEW i \in DOMAIN lps', IsRoot(lps', i)
        PROVE  \E k \in DOMAIN idx' : idx'[k].page = 0 /\ idx'[k].lp = i
    <3>1. IsRoot(lps, i)
      BY <1>12, <2>2
    <3>2. i \in DOMAIN lps /\ i \notin deadTids
      BY <1>0, <1>17, <3>1
    <3>3. PICK l \in DOMAIN idx : idx[l].page = 0 /\ idx[l].lp = i
      BY <1>0, <3>1, <3>2 DEF EntriesStand
    <3>4. PICK k \in DOMAIN idx' : idx'[k] = idx[l]
      BY <1>16, <3>2, <3>3 DEF Stays
    <3> QED BY <3>3, <3>4
  <2> QED BY <2>1, <2>2 DEF EntriesStand
<1>19. IdxFits(idx)'
  <2>1. IdxFits(idx') => IdxFits(idx)'
    BY DEF IdxFits, IsEntry
  <2> QED BY <1>16, <2>1
<1> QED BY <1>13, <1>14, <1>15, <1>18, <1>19 DEF LeadInv, ChainsStand

(* An update links the version it ends, the newest of its chain, to one at *)
(* a line pointer that nothing leads to.                                   *)
LEMMA UpdateLeads ==
  ASSUME LeadInv, NEW i \in Hot!LpId, NEW keyed \in BOOLEAN, Hot!pgUpdate(i, keyed), HotInv'
  PROVE  LeadInv'
<1> DEFINE n   == Len(lps)
           m   == Len(lps')
           t   == Hot!target
           hot == ~keyed /\ Hot!fits
           new == Hot!Lp("normal", 0, Hot!Version(lps[i].ver.row, xid, hot))
<1>0. /\ HotInv /\ ChainsStand /\ EntriesStand(lps, idx) /\ IdxFits(idx)
      /\ n \in Nat /\ DOMAIN lps = 1 .. n /\ xid \in Nat
      /\ \A j \in 1 .. n : LpFits(lps[j])
  BY PageIsFunction DEF LeadInv, HotInv, PageFits
<1>1. /\ xid' = xid + 1
      /\ idx' = IF hot THEN idx
                ELSE Append(idx, IF Hot!fits THEN Hot!Entry(lps[i].ver.row, 0, t)
                                             ELSE Hot!Entry(lps[i].ver.row, 1, Hot!Away + 1))
  BY DEF Hot!pgUpdate
<1>2. /\ i \in 1 .. n /\ lps[i].ver # Hot!NoVer /\ lps[i].ver.xmax = Hot!Live
      /\ new.ver # Hot!NoVer
      /\ PageFits(lps') /\ m \in Nat /\ n <= m
      /\ \A j \in 1 .. n : j # i /\ (j # t \/ ~Hot!fits) => lps'[j] = lps[j]
      /\ lps'[i].state = "normal" /\ lps'[i].ver # Hot!NoVer
      /\ lps'[i].ver.row = lps[i].ver.row /\ lps'[i].ver.xmin = lps[i].ver.xmin
      /\ lps'[i].ver.hot = lps[i].ver.hot /\ lps'[i].ver.xmax = xid
      /\ lps'[i].ver.link = IF hot THEN t ELSE 0
      /\ ~Hot!fits => m = n
      /\ Hot!fits => /\ t \in 1 .. m /\ lps'[t] = new
                     /\ t = n + 1 \/ lps[t].state = "unused"
                     /\ t # i
                     /\ \A j \in 1 .. m : j \in 1 .. n \/ j = t
  BY <1>0, UpdatedPage
<1>3. /\ new.state = "normal" /\ new.ver.row = lps[i].ver.row /\ new.ver.xmin = xid
      /\ new.ver.xmax = Hot!Live /\ new.ver.link = 0
      /\ new.ver.hot \in BOOLEAN /\ (new.ver.hot <=> hot)
  <2>1. ASSUME NEW b \in BOOLEAN
        PROVE  LET w == Hot!Lp("normal", 0, Hot!Version(lps[i].ver.row, xid, b))
               IN  /\ w.state = "normal" /\ w.ver.row = lps[i].ver.row /\ w.ver.xmin = xid
                   /\ w.ver.xmax = Hot!Live /\ w.ver.link = 0
                   /\ w.ver.hot = b
    BY DEF Hot!Lp, Hot!Version
  <2>2. hot \in BOOLEAN
    OBVIOUS
  <2> HIDE DEF hot
  <2> QED BY <2>1, <2>2
<1> HIDE DEF new, t
<1>4. DOMAIN lps' = 1 .. m
  BY <1>2, PageIsFunction
<1> HIDE DEF n, m, hot
<1>5. hot => Hot!fits
  BY DEF hot
<1>6. ASSUME Hot!fits
      PROVE  /\ ~Holds(lps, t) /\ ~IsRoot(lps, t) /\ \A j : ~LeadsTo(lps, t, j)
             /\ \A h \in DOMAIN lps : ~LeadsTo(lps, h, t)
             /\ \A k \in DOMAIN idx : idx[k].page = 0 => idx[k].lp # t
  <2>1. t \in DOMAIN lps => lps[t].state = "unused" /\ lps[t].ver = Hot!NoVer
    BY <1>0, <1>2, <1>6 DEF LpFits
  <2>2. ~Holds(lps, t) /\ ~IsRoot(lps, t) /\ \A j : ~LeadsTo(lps, t, j)
    BY <2>1 DEF Holds, IsRoot, LeadsTo, LinksTo, RefersTo
  <2>3. t # 0
    BY <1>0, <1>2, <1>6
  <2>4. \A h \in DOMAIN lps : ~LeadsTo(lps, h, t)
    BY <1>0, <2>2, <2>3
    DEF LeadsTo, LinksTo, RefersTo, Holds, ChainsStand, LinksStand, RedirectsStand
  <2>5. \A k \in DOMAIN idx : idx[k].page = 0 => idx[k].lp # t
    BY <1>0, <2>1, <2>2 DEF EntriesStand
  <2> QED BY <2>2, <2>4, <2>5
<1>7. lps[i].ver.link = 0 /\ lps[i].state = "normal" /\ lps[i].ver.xmin < xid /\ lps[i].ver.xmin \in Nat
  <2>1. lps[i].ver.link = 0 /\ lps[i].ver.xmin < xid
    BY <1>0, <1>2 DEF ChainsStand, LinksStand
  <2>2. LpFits(lps[i])
    BY <1>0, <1>2
  <2> QED BY <1>2, <2>1, <2>2 DEF LpFits, IsVersion
<1>8. 0 \notin DOMAIN lps /\ 0 \notin DOMAIN lps'
  BY <1>0, <1>4
(* Where the page is as it was. *)
<1>9. ASSUME NEW j, Holds(lps, j)
      PROVE  /\ Holds(lps', j) /\ lps'[j].ver.row = lps[j].ver.row
             /\ lps'[j].ver.xmin = lps[j].ver.xmin /\ lps'[j].ver.hot = lps[j].ver.hot
             /\ j # i => lps'[j] = lps[j]
  <2>1. j \in 1 .. n /\ j \in DOMAIN lps' /\ lps[j].ver # Hot!NoVer
    BY <1>0, <1>2, <1>4, <1>9 DEF Holds
  <2>2. Hot!fits => j # t
    BY <1>6, <1>9
  <2>3. CASE j = i
    BY <1>2, <2>1, <2>3 DEF Holds
  <2>4. CASE j # i
    <3>1. lps'[j] = lps[j]
      BY <1>2, <2>1, <2>2, <2>4
    <3> QED BY <1>2, <2>1, <2>4, <3>1 DEF Holds
  <2> QED BY <2>3, <2>4
<1>10. ASSUME NEW j \in DOMAIN lps', ~(Hot!fits /\ j = t)
       PROVE  /\ j \in DOMAIN lps /\ (j # i => lps'[j] = lps[j])
  BY <1>0, <1>2, <1>4, <1>10
<1>11. ASSUME NEW j \in DOMAIN lps, ~(Hot!fits /\ j = t)
       PROVE  /\ j \in DOMAIN lps' /\ (j # i => lps'[j] = lps[j])
  BY <1>0, <1>2, <1>4, <1>11
<1>12. LinksStand(lps', xid')
  <2>0. xid' = xid + 1 /\ Hot!Live = 0
    BY <1>1 DEF Hot!Live
  <2> SUFFICES ASSUME NEW j \in DOMAIN lps', lps'[j].ver # Hot!NoVer
      PROVE  /\ lps'[j].ver.xmin < xid' /\ lps'[j].ver.hot \in BOOLEAN
             /\ lps'[j].ver.xmax = Hot!Live => lps'[j].ver.link = 0
             /\ lps'[j].ver.link # 0 =>
                  /\ Holds(lps', lps'[j].ver.link) /\ lps'[lps'[j].ver.link].ver.hot
                  /\ lps'[lps'[j].ver.link].ver.row = lps'[j].ver.row
                  /\ lps'[j].ver.xmin < lps'[lps'[j].ver.link].ver.xmin
    BY DEF LinksStand
  <2>1. CASE Hot!fits /\ j = t
    <3>1. lps'[j] = new
      BY <1>2, <2>1
    <3> QED BY <1>0, <1>3, <2>0, <3>1
  <2>2. CASE j = i
    <3>1. lps[i].ver.hot \in BOOLEAN
      BY <1>0, <1>2 DEF ChainsStand, LinksStand
    <3>2. lps'[i].ver.xmin < xid' /\ lps'[i].ver.hot \in BOOLEAN /\ lps'[i].ver.xmax # Hot!Live
      BY <1>0, <1>2, <1>7, <2>0, <3>1
    <3>3. ASSUME hot
          PROVE  /\ Holds(lps', t) /\ lps'[t].ver.hot /\ lps'[t].ver.row = lps'[i].ver.row
                 /\ lps'[i].ver.xmin < lps'[t].ver.xmin
      BY <1>2, <1>3, <1>4, <1>5, <1>7, <3>3 DEF Holds
    <3> QED BY <1>2, <2>2, <3>2, <3>3
  <2>3. CASE ~(Hot!fits /\ j = t) /\ j # i
    <3>1. j \in DOMAIN lps /\ lps'[j] = lps[j] /\ Holds(lps, j)
      BY <1>10, <2>3 DEF Holds
    <3>2. lps[j].ver.xmin \in Nat /\ lps[j].ver.xmin < xid
      BY <1>0, <3>1 DEF LpFits, IsVersion, Holds, ChainsStand, LinksStand
    <3>3. lps[j].ver.link # 0 =>
            /\ Holds(lps, lps[j].ver.link) /\ lps[lps[j].ver.link].ver.hot
            /\ lps[lps[j].ver.link].ver.row = lps[j].ver.row
            /\ lps[j].ver.xmin < lps[lps[j].ver.link].ver.xmin
      BY <1>0, <3>1 DEF Holds, ChainsStand, LinksStand
    <3>4. lps[j].ver.hot \in BOOLEAN /\ (lps[j].ver.xmax = Hot!Live => lps[j].ver.link = 0)
      BY <1>0, <3>1 DEF Holds, ChainsStand, LinksStand
    <3>5. lps'[j].ver.xmin < xid'
      BY <1>0, <2>0, <3>1, <3>2
    <3> DEFINE l == lps[j].ver.link
    <3>6. l # 0 => /\ Holds(lps', l) /\ lps'[l].ver.hot /\ lps'[l].ver.row = lps[j].ver.row
                   /\ lps[j].ver.xmin < lps'[l].ver.xmin
      BY <1>9, <3>3
    <3> QED BY <3>1, <3>4, <3>5, <3>6
  <2> QED BY <2>1, <2>2, <2>3
<1>13. RedirectsStand(lps')
  <2> SUFFICES ASSUME NEW j \in DOMAIN lps', lps'[j].state = "redirect"
      PROVE  Holds(lps', lps'[j].redirect) /\ lps'[lps'[j].redirect].ver.hot
    BY DEF RedirectsStand
  <2>1. j # i /\ ~(Hot!fits /\ j = t)
    BY <1>2, <1>3
  <2>2. j \in DOMAIN lps /\ lps'[j] = lps[j]
    BY <1>10, <2>1
  <2>3. Holds(lps, lps[j].redirect) /\ lps[lps[j].redirect].ver.hot
    BY <1>0, <2>2 DEF ChainsStand, RedirectsStand
  <2> QED BY <1>9, <2>2, <2>3
<1>14. ASSUME NEW h, NEW j \in DOMAIN lps, LeadsTo(lps, h, j)
       PROVE  LeadsTo(lps', h, j) /\ h \in DOMAIN lps'
  <2>1. h # i
    <3> SUFFICES ASSUME h = i PROVE FALSE
      OBVIOUS
    <3> QED BY <1>7, <1>8, <1>14 DEF LeadsTo, LinksTo, RefersTo
  <2>2. h \in DOMAIN lps /\ ~(Hot!fits /\ h = t)
    BY <1>6, <1>14 DEF LeadsTo, LinksTo, RefersTo, Holds
  <2>3. h \in DOMAIN lps' /\ lps'[h] = lps[h]
    BY <1>11, <2>1, <2>2
  <2> QED BY <1>14, <2>3 DEF LeadsTo, LinksTo, RefersTo, Holds
<1>15. ASSUME NEW h, NEW j \in DOMAIN lps', LeadsTo(lps', h, j)
       PROVE  \/ hot /\ j = t /\ h = i
              \/ ~(Hot!fits /\ j = t) /\ LeadsTo(lps, h, j)
  <2>1. h \in DOMAIN lps'
    BY <1>15 DEF LeadsTo, LinksTo, RefersTo, Holds
  <2>2. CASE Hot!fits /\ h = t
    <3>1. lps'[h] = new
      BY <1>2, <2>2
    <3> QED BY <1>3, <1>8, <1>15, <3>1 DEF LeadsTo, LinksTo, RefersTo
  <2>3. CASE h = i
    BY <1>2, <1>8, <1>15, <2>3 DEF LeadsTo, LinksTo, RefersTo
  <2>4. CASE ~(Hot!fits /\ h = t) /\ h # i
    <3>1. h \in DOMAIN lps /\ lps'[h] = lps[h]
      BY <1>10, <2>1, <2>4
    <3>2. LeadsTo(lps, h, j)
      BY <1>15, <3>1 DEF LeadsTo, LinksTo, RefersTo, Holds
    <3> QED BY <1>6, <3>1, <3>2
  <2> QED BY <2>2, <2>3, <2>4
<1>16. OneBefore(lps')
  <2>1. ASSUME NEW j \in DOMAIN lps', lps'[j].ver # Hot!NoVer, lps'[j].ver.hot
        PROVE  \E h \in DOMAIN lps' : LeadsTo(lps', h, j)
    <3>1. CASE Hot!fits /\ j = t
      <4>1. hot
        BY <1>2, <1>3, <2>1, <3>1
      <4>2. i \in DOMAIN lps' /\ lps'[i].ver.link = j
        BY <1>0, <1>2, <1>4, <3>1, <4>1
      <4> QED BY <1>2, <4>2 DEF LeadsTo, LinksTo, Holds
    <3>2. CASE ~(Hot!fits /\ j = t)
      <4>1. j \in DOMAIN lps /\ lps[j].ver # Hot!NoVer /\ lps[j].ver.hot
        <5>1. CASE j = i
          BY <1>0, <1>2, <2>1, <5>1
        <5>2. CASE j # i
          BY <1>10, <2>1, <3>2, <5>2
        <5> QED BY <5>1, <5>2
      <4>2. PICK h \in DOMAIN lps : LeadsTo(lps, h, j)
        BY <1>0, <4>1 DEF ChainsStand, OneBefore
      <4> QED BY <1>14, <4>1, <4>2
    <3> QED BY <3>1, <3>2
  <2>2. ASSUME NEW j \in DOMAIN lps', NEW h \in DOMAIN lps', NEW l \in DOMAIN lps',
               LeadsTo(lps', h, j), LeadsTo(lps', l, j)
        PROVE  h = l
    <3>1. CASE Hot!fits /\ j = t
      BY <1>15, <2>2, <3>1
    <3>2. CASE ~(Hot!fits /\ j = t)
      <4>1. LeadsTo(lps, h, j) /\ LeadsTo(lps, l, j)
        BY <1>5, <1>15, <2>2, <3>2
      <4>2. j \in DOMAIN lps /\ h \in DOMAIN lps /\ l \in DOMAIN lps
        BY <1>10, <3>2, <4>1 DEF LeadsTo, LinksTo, RefersTo, Holds
      <4> QED BY <1>0, <4>1, <4>2 DEF ChainsStand, OneBefore
    <3> QED BY <3>1, <3>2
  <2> QED BY <2>1, <2>2 DEF OneBefore
<1>17. ASSUME NEW j \in DOMAIN lps, IsRoot(lps, j)
       PROVE  /\ IsRoot(lps', j)
              /\ lps'[RootTo(lps', j)].ver.row = lps[RootTo(lps, j)].ver.row
  <2>1. ~(Hot!fits /\ j = t)
    BY <1>6, <1>17
  <2>2. j \in DOMAIN lps' /\ (j # i => lps'[j] = lps[j])
    BY <1>11, <2>1
  <2>3. IsRoot(lps', j) /\ RootTo(lps', j) = RootTo(lps, j)
    <3>1. CASE j = i
      BY <1>2, <1>7, <1>17, <2>2, <3>1 DEF IsRoot, RootTo
    <3>2. CASE j # i
      BY <1>17, <2>2, <3>2 DEF IsRoot, RootTo
    <3> QED BY <3>1, <3>2
  <2>4. Holds(lps, RootTo(lps, j))
    BY <1>0, <1>17 DEF IsRoot, RootTo, Holds, ChainsStand, RedirectsStand
  <2> QED BY <1>9, <2>3, <2>4
<1>18. ASSUME NEW j \in DOMAIN lps', IsRoot(lps', j)
       PROVE  IsRoot(lps, j) \/ (Hot!fits /\ ~hot /\ j = t)
  <2>1. CASE Hot!fits /\ j = t
    <3>1. lps'[j] = new
      BY <1>2, <2>1
    <3> QED BY <1>3, <1>18, <2>1, <3>1 DEF IsRoot
  <2>2. CASE j = i
    BY <1>0, <1>2, <1>18, <2>2 DEF IsRoot
  <2>3. CASE ~(Hot!fits /\ j = t) /\ j # i
    BY <1>10, <1>18, <2>3 DEF IsRoot
  <2> QED BY <2>1, <2>2, <2>3
<1>19. ASSUME NEW j \in DOMAIN lps, lps[j].state = "dead"
       PROVE  j \in DOMAIN lps' /\ lps'[j].state = "dead"
  <2>1. j # i /\ ~(Hot!fits /\ j = t)
    BY <1>0, <1>2, <1>7, <1>19
  <2> QED BY <1>11, <1>19, <2>1
(* The entries: all that were there, and for a new root one more.          *)
<1>20. /\ IdxFits(idx') /\ DOMAIN idx \subseteq DOMAIN idx'
       /\ \A k \in DOMAIN idx : idx'[k] = idx[k]
       /\ \A k \in DOMAIN idx' : k \in DOMAIN idx \/ idx'[k].page = 1
            \/ /\ Hot!fits /\ ~hot /\ idx'[k].lp = t /\ ~idx'[k].killed
               /\ idx'[k].row = lps[i].ver.row
       /\ Hot!fits /\ ~hot => \E k \in DOMAIN idx' : idx'[k].page = 0 /\ idx'[k].lp = t
  <2>1. CASE hot
    BY <1>0, <1>1, <2>1
  <2>2. CASE ~hot
    <3>1. PICK e : /\ idx' = Append(idx, e)
                   /\ e = IF Hot!fits THEN Hot!Entry(lps[i].ver.row, 0, t)
                                      ELSE Hot!Entry(lps[i].ver.row, 1, Hot!Away + 1)
      BY <1>1, <2>2
    <3>2. /\ IsEntry(e) /\ ~e.killed /\ e.row = lps[i].ver.row
          /\ IF Hot!fits THEN e.page = 0 /\ e.lp = t ELSE e.page = 1
      <4>1. CASE Hot!fits
        <5>1. e = Hot!Entry(lps[i].ver.row, 0, t)
          BY <3>1, <4>1
        <5> QED BY <4>1, <5>1 DEF Hot!Entry, IsEntry
      <4>2. CASE ~Hot!fits
        <5>1. e = Hot!Entry(lps[i].ver.row, 1, Hot!Away + 1)
          BY <3>1, <4>2
        <5> QED BY <4>2, <5>1 DEF Hot!Entry, IsEntry
      <4> QED BY <4>1, <4>2
    <3> DEFINE S == {idx[k] : k \in DOMAIN idx}
               p == Len(idx)
    <3>3. idx \in Seq(S) /\ p \in Nat /\ DOMAIN idx = 1 .. p /\ \A k \in 1 .. p : IsEntry(idx[k])
      BY <1>0, LenProperties DEF IdxFits
    <3>4. idx \in Seq(S \union {e})
      <4>1. idx \in [1 .. p -> S \union {e}]
        BY <3>3
      <4> QED BY <3>3, <4>1, SeqDef
    <3> HIDE DEF S, p
    <3>5. /\ idx' \in Seq(S \union {e}) /\ Len(idx') = p + 1
          /\ \A k \in 1 .. p : idx'[k] = idx[k]
          /\ idx'[p + 1] = e
      BY <3>1, <3>4, AppendProperties DEF p
    <3>6. DOMAIN idx' = 1 .. p + 1 /\ idx' = [k \in 1 .. p + 1 |-> idx'[k]]
      BY <3>5, LenProperties
    <3>7. \A k \in 1 .. p + 1 : k \in 1 .. p \/ k = p + 1
      BY <3>3
    <3>8. idx' \in Seq({idx'[k] : k \in DOMAIN idx'})
      BY <3>3, <3>6, SeqDef
    <3>9. IdxFits(idx')
      <4>1. \A k \in DOMAIN idx' : IsEntry(idx'[k])
        BY <3>2, <3>3, <3>5, <3>6, <3>7
      <4> QED BY <3>8, <4>1 DEF IdxFits
    <3>10. p + 1 \in DOMAIN idx' /\ DOMAIN idx \subseteq DOMAIN idx'
      BY <3>3, <3>6
    <3> QED BY <2>2, <3>2, <3>3, <3>5, <3>6, <3>7, <3>9, <3>10
  <2> QED BY <2>1, <2>2
<1>21. EntriesStand(lps', idx')
  <2>1. ASSUME NEW k \in DOMAIN idx', idx'[k].page = 0
        PROVE  /\ idx'[k].lp \in DOMAIN lps'
               /\ \/ lps'[idx'[k].lp].state = "dead"
                  \/ /\ IsRoot(lps', idx'[k].lp) /\ ~idx'[k].killed
                     /\ lps'[RootTo(lps', idx'[k].lp)].ver.row = idx'[k].row
    <3>1. CASE k \in DOMAIN idx
      <4>1. idx'[k] = idx[k]
        BY <1>20, <3>1
      <4>2. /\ idx[k].lp \in DOMAIN lps
            /\ \/ lps[idx[k].lp].state = "dead"
               \/ /\ IsRoot(lps, idx[k].lp) /\ ~idx[k].killed
                  /\ lps[RootTo(lps, idx[k].lp)].ver.row = idx[k].row
        BY <1>0, <2>1, <3>1, <4>1 DEF EntriesStand
      <4>3. CASE lps[idx[k].lp].state = "dead"
        BY <1>19, <4>1, <4>2, <4>3
      <4>4. CASE /\ IsRoot(lps, idx[k].lp) /\ ~idx[k].killed
                 /\ lps[RootTo(lps, idx[k].lp)].ver.row = idx[k].row
        <5>1. /\ IsRoot(lps', idx[k].lp)
              /\ lps'[RootTo(lps', idx[k].lp)].ver.row = idx[k].row
          BY <1>17, <4>2, <4>4
        <5> QED BY <4>1, <4>4, <5>1 DEF IsRoot
      <4> QED BY <4>2, <4>3, <4>4
    <3>2. CASE k \notin DOMAIN idx
      <4>1. /\ Hot!fits /\ ~hot /\ idx'[k].lp = t /\ ~idx'[k].killed
            /\ idx'[k].row = lps[i].ver.row
        BY <1>20, <2>1, <3>2
      <4>2. lps'[t] = new /\ t \in DOMAIN lps'
        BY <1>2, <1>4, <4>1
      <4>3. IsRoot(lps', t) /\ RootTo(lps', t) = t /\ lps'[t].ver.row = lps[i].ver.row
        BY <1>2, <1>3, <4>1, <4>2 DEF IsRoot, RootTo
      <4> QED BY <4>1, <4>2, <4>3
    <3> QED BY <3>1, <3>2
  <2>2. ASSUME NEW j \in DOMAIN lps', IsRoot(lps', j)
        PROVE  \E k \in DOMAIN idx' : idx'[k].page = 0 /\ idx'[k].lp = j
    <3>1. CASE IsRoot(lps, j)
      <4>1. PICK k \in DOMAIN idx : idx[k].page = 0 /\ idx[k].lp = j
        BY <1>0, <3>1 DEF EntriesStand, IsRoot
      <4> QED BY <1>20, <4>1
    <3>2. CASE Hot!fits /\ ~hot /\ j = t
      BY <1>20, <3>2
    <3> QED BY <1>18, <2>2, <3>1, <3>2
  <2> QED BY <2>1, <2>2 DEF EntriesStand
<1>22. IdxFits(idx)'
  <2>1. IdxFits(idx') => IdxFits(idx)'
    BY DEF IdxFits, IsEntry
  <2> QED BY <1>20, <2>1
<1> QED BY <1>12, <1>13, <1>16, <1>21, <1>22 DEF LeadInv, ChainsStand

(* A scan kills only entries that are at a dead line pointer.              *)
LEMMA ScanLeads ==
  ASSUME LeadInv, NEW r, Hot!pgScan(r), HotInv'
  PROVE  LeadInv'
<1>0. /\ HotInv /\ ChainsStand /\ EntriesStand(lps, idx) /\ IdxFits(idx)
      /\ UNCHANGED <<lps, xid>>
  BY DEF LeadInv, Hot!pgScan
<1>1. PICK killed :
        /\ \A j \in killed : /\ idx[j].page = 0
                             /\ lps[idx[j].lp].state \in {"dead", "unused"}
        /\ idx' = [j \in DOMAIN idx |-> IF j \in killed THEN [idx[j] EXCEPT !.killed = TRUE]
                                                        ELSE idx[j]]
  BY DEF Hot!pgScan, Hot!OnPage
<1>2. ASSUME NEW j \in DOMAIN idx
      PROVE  /\ IsEntry(idx'[j])
             /\ idx'[j].row = idx[j].row /\ idx'[j].page = idx[j].page /\ idx'[j].lp = idx[j].lp
             /\ j \notin killed => idx'[j] = idx[j]
  <2>1. IsEntry(idx[j])
    BY <1>0 DEF IdxFits
  <2>2. CASE j \in killed
    <3>1. idx'[j] = [idx[j] EXCEPT !.killed = TRUE]
      BY <1>1, <2>2
    <3>2. idx'[j] = [row |-> idx[j].row, page |-> idx[j].page, lp |-> idx[j].lp, killed |-> TRUE]
      BY <2>1, <3>1 DEF IsEntry
    <3> QED BY <2>2, <3>2 DEF IsEntry
  <2>3. CASE j \notin killed
    BY <1>1, <2>1, <2>3
  <2> QED BY <2>2, <2>3
<1>3. DOMAIN idx' = DOMAIN idx
  BY <1>1
<1>4. IdxFits(idx')
  <2> DEFINE p == Len(idx)
  <2>1. p \in Nat /\ DOMAIN idx = 1 .. p
    BY <1>0, LenProperties DEF IdxFits
  <2>2. idx' = [k \in 1 .. p |-> idx'[k]]
    BY <1>1, <2>1
  <2> HIDE DEF p
  <2>3. idx' \in Seq({idx'[k] : k \in DOMAIN idx'})
    BY <1>3, <2>1, <2>2, SeqDef
  <2> QED BY <1>2, <1>3, <2>3 DEF IdxFits
<1>5. EntriesStand(lps, idx')
  <2>1. ASSUME NEW k \in DOMAIN idx', idx'[k].page = 0
        PROVE  /\ idx'[k].lp \in DOMAIN lps
               /\ \/ lps[idx'[k].lp].state = "dead"
                  \/ /\ IsRoot(lps, idx'[k].lp) /\ ~idx'[k].killed
                     /\ lps[RootTo(lps, idx'[k].lp)].ver.row = idx'[k].row
    <3>1. /\ idx[k].lp \in DOMAIN lps
          /\ \/ lps[idx[k].lp].state = "dead"
             \/ /\ IsRoot(lps, idx[k].lp) /\ ~idx[k].killed
                /\ lps[RootTo(lps, idx[k].lp)].ver.row = idx[k].row
      BY <1>0, <1>2, <1>3, <2>1 DEF EntriesStand
    <3>2. CASE k \in killed
      <4>1. lps[idx[k].lp].state \in {"dead", "unused"}
        BY <1>1, <3>2
      <4>2. ~IsRoot(lps, idx[k].lp)
        BY <1>0, <4>1, LinkOrRedirect DEF IsRoot, Holds
      <4> QED BY <1>2, <1>3, <3>1, <4>2
    <3>3. CASE k \notin killed
      BY <1>2, <1>3, <3>1, <3>3
    <3> QED BY <3>2, <3>3
  <2>2. \A i \in DOMAIN lps : IsRoot(lps, i) => \E k \in DOMAIN idx' : idx'[k].page = 0 /\ idx'[k].lp = i
    BY <1>0, <1>2, <1>3 DEF EntriesStand
  <2> QED BY <2>1, <2>2 DEF EntriesStand
<1>6. LinksStand(lps', xid') /\ RedirectsStand(lps') /\ OneBefore(lps') /\ EntriesStand(lps', idx')
  <2>1. lps' = lps /\ xid' = xid
    BY <1>0
  <2> QED BY <1>0, <1>5, <2>1 DEF ChainsStand
<1>7. IdxFits(idx)'
  <2>1. IdxFits(idx') => IdxFits(idx)'
    BY DEF IdxFits, IsEntry
  <2> QED BY <1>4, <2>1
<1> QED BY <1>6, <1>7 DEF LeadInv, ChainsStand

(* What leaves the page and its entries alone only lets time pass.         *)
LEMMA TimeLeads ==
  ASSUME LeadInv, UNCHANGED <<lps, idx>>, xid' \in {xid, xid + 1}, HotInv'
  PROVE  LeadInv'
<1>0. /\ HotInv /\ ChainsStand /\ EntriesStand(lps, idx) /\ IdxFits(idx) /\ xid \in Nat
  BY DEF LeadInv, HotInv
<1>1. \A i \in DOMAIN lps : lps[i].ver # Hot!NoVer => lps[i].ver.xmin \in Nat
  BY <1>0 DEF HotInv, PageFits, LpFits, IsVersion
<1>2. \A i \in DOMAIN lps : lps[i].ver # Hot!NoVer => lps[i].ver.xmin < xid'
  BY <1>0, <1>1 DEF ChainsStand, LinksStand
<1>3. LinksStand(lps, xid') /\ RedirectsStand(lps) /\ OneBefore(lps)
  BY <1>0, <1>2 DEF ChainsStand, LinksStand
<1>4. lps' = lps /\ idx' = idx
  OBVIOUS
<1>5. LinksStand(lps', xid') /\ RedirectsStand(lps') /\ OneBefore(lps') /\ EntriesStand(lps', idx')
  BY <1>0, <1>3, <1>4
<1>6. IdxFits(idx)'
  BY <1>0 DEF IdxFits, IsEntry
<1> QED BY <1>5, <1>6 DEF LeadInv, ChainsStand

LEMMA LeadStepKeeps ==
  ASSUME LeadInv, Hot!HotStep
  PROVE  LeadInv'
<1>0. HotInv'
  BY HotStepKeeps DEF LeadInv
<1>1. ASSUME \E i \in Hot!LpId, keyed \in BOOLEAN : Hot!pgUpdate(i, keyed) PROVE LeadInv'
  BY <1>0, <1>1, UpdateLeads
<1>2. ASSUME Hot!pgRead \/ Hot!pgVacuum1 PROVE LeadInv'
  <2>1. Hot!prune /\ UNCHANGED <<idx, xid>>
    BY <1>2 DEF Hot!pgRead, Hot!pgVacuum1
  <2> QED BY <1>0, <2>1, PruneLeads
<1>3. ASSUME Hot!pgVacuum2 PROVE LeadInv'
  BY <1>0, <1>3, ReleaseLeads
<1>4. ASSUME NEW r, Hot!pgScan(r) PROVE LeadInv'
  BY <1>0, <1>4, ScanLeads
<1>5. ASSUME (\E r \in DOMAIN recs : Hot!ibUpdate(r)) \/ Hot!ibPurge \/ Hot!ToggleSnapshot
      PROVE  LeadInv'
  <2>1. UNCHANGED <<lps, idx>> /\ xid' \in {xid, xid + 1}
    BY <1>5 DEF Hot!ibUpdate, Hot!ibPurge, Hot!ToggleSnapshot, Hot!pageVars
  <2> QED BY <1>0, <2>1, TimeLeads
<1> QED BY <1>1, <1>2, <1>3, <1>4, <1>5 DEF Hot!HotStep

(* Each row of the page just loaded is a chain of one version.             *)
LEMMA LeadBegins ==
  ASSUME Hot!HotInit, Hot!HotAssumption
  PROVE  LeadInv
<1> DEFINE n == Hot!LoadedRows(ff, Hot!tupLen)
<1>0. HotInv
  BY HotBegins
<1>1. /\ lps = [r \in 1 .. n |-> Hot!Lp("normal", 0, Hot!Version(r, 100, FALSE))]
      /\ idx = [r \in 1 .. n |-> Hot!Entry(r, 0, r)]
      /\ xid = 101
  BY DEF Hot!HotInit, Hot!loaded, Hot!entries, Hot!rows, Hot!LoadXid
<1>2. n \in Nat
  BY LoadedRowsCount
<1> HIDE DEF n
<1>3. ASSUME NEW r \in 1 .. n
      PROVE  /\ lps[r].state = "normal" /\ lps[r].ver # Hot!NoVer
             /\ lps[r].ver.row = r /\ lps[r].ver.xmin = 100 /\ lps[r].ver.hot = FALSE
             /\ lps[r].ver.link = 0
             /\ IsEntry(idx[r]) /\ idx[r].row = r /\ idx[r].page = 0 /\ idx[r].lp = r
             /\ ~idx[r].killed
  <2>1. lps[r] = Hot!Lp("normal", 0, Hot!Version(r, 100, FALSE)) /\ idx[r] = Hot!Entry(r, 0, r)
    BY <1>1
  <2>2. Hot!Version(r, 100, FALSE) # Hot!NoVer
    BY VersionIsNone
  <2>3. lps[r].state = "normal" /\ lps[r].ver = Hot!Version(r, 100, FALSE)
    BY <2>1 DEF Hot!Lp
  <2> QED BY <2>1, <2>2, <2>3 DEF Hot!Version, Hot!Entry, IsEntry
<1>4. DOMAIN lps = 1 .. n /\ DOMAIN idx = 1 .. n /\ 0 \notin 1 .. n
  BY <1>1, <1>2
<1>5. /\ 0 \notin DOMAIN lps /\ xid = 101
      /\ \A r \in DOMAIN lps : /\ lps[r].state = "normal" /\ lps[r].ver # Hot!NoVer
                             /\ lps[r].ver.row = r /\ lps[r].ver.xmin = 100
                             /\ lps[r].ver.hot = FALSE /\ lps[r].ver.link = 0
                             /\ r \in DOMAIN idx
      /\ \A r \in DOMAIN idx : /\ idx[r].row = r /\ idx[r].page = 0 /\ idx[r].lp = r
                             /\ ~idx[r].killed /\ r \in DOMAIN lps
  BY <1>1, <1>3, <1>4
<1>6. ChainsStand /\ EntriesStand(lps, idx)
  <2>1. LinksStand(lps, xid)
    <3> SUFFICES ASSUME NEW r \in DOMAIN lps
                 PROVE  lps[r].ver.xmin < xid /\ lps[r].ver.hot \in BOOLEAN /\ lps[r].ver.link = 0
      BY DEF LinksStand
    <3>1. lps[r].ver.xmin = 100 /\ xid = 101
      BY <1>5
    <3>2. lps[r].ver.hot = FALSE /\ lps[r].ver.link = 0
      BY <1>5
    <3>3. lps[r].ver.xmin < xid
      BY <3>1
    <3> QED BY <3>2, <3>3
  <2>4. RedirectsStand(lps)
    BY <1>5 DEF RedirectsStand
  <2>2. OneBefore(lps)
    BY <1>5 DEF OneBefore, LeadsTo, LinksTo, RefersTo, Holds
  <2>3. EntriesStand(lps, idx)
    BY <1>5 DEF EntriesStand, IsRoot, RootTo
  <2> QED BY <2>1, <2>2, <2>3, <2>4 DEF ChainsStand
<1>8. IdxFits(idx)
  <2>1. idx = [r \in 1 .. n |-> idx[r]]
    BY <1>1
  <2>2. idx \in Seq({idx[k] : k \in DOMAIN idx})
    BY <1>2, <1>4, <2>1, SeqDef
  <2> QED BY <1>3, <1>4, <2>2 DEF IdxFits
<1> QED BY <1>0, <1>6, <1>8 DEF LeadInv

LEMMA LeadAlways == Spec => [](lab = "hot" => LeadInv)
<1> DEFINE There == lab = "hot" => LeadInv
<1>1. Hot!HotAssumption
  BY Assumption
<1>2. Init => There
  BY <1>1, LeadBegins DEF Init
<1>3. ASSUME There, [Next]_vars PROVE There'
  <2>1. CASE UNCHANGED vars
    <3>1. UNCHANGED hotVars /\ lab' = lab
      BY <2>1 DEF vars
    <3>2. CASE lab = "hot"
      <4>1. LeadInv /\ UNCHANGED <<lps, idx>> /\ xid' \in {xid, xid + 1}
        BY <1>3, <3>1, <3>2 DEF hotVars
      <4>2. HotInv'
        BY <3>1, <4>1, HotStutters DEF LeadInv
      <4> QED BY <4>1, <4>2, TimeLeads
    <3> QED BY <3>1, <3>2
  <2>2. CASE Next
    <3>1. CASE lab = "hot"
      BY <1>3, <2>2, <3>1, LeadStepKeeps DEF Next, Step
    <3> QED BY <2>2, <3>1 DEF Next
  <2> QED BY <1>3, <2>1, <2>2
<1>4. There /\ [Next]_vars => There'
  BY <1>3
<1> QED BY <1>2, <1>4, PTL DEF Spec

(* On a heap page (HotChainPruneLab) what an index entry leads to is of    *)
(* its own row, every version that anybody may still see has such an entry *)
(* that no scan has killed, and no entry is left at a line pointer that    *)
(* may be used again - whatever the page's size, fillfactor and rows, and  *)
(* however updates, page reads, scans and both passes of VACUUM follow     *)
(* each other.                                                             *)
THEOREM EntriesLeadToRows == Spec => [](lab = "hot" => Hot!EntriesLead)
<1>1. (lab = "hot" => LeadInv) => (lab = "hot" => Hot!EntriesLead)
  BY LeadInvMeans
<1> QED BY <1>1, LeadAlways, PTL

-------------------------------------------------------------------------------
(* Index-only scans.                                                       *)

OrderRow    == [who : Scan!Who, status : Scan!Status]
LeafEntry   == [row : Nat, status : Scan!Status, dead : Nat]
IsLive(e)   == e.dead = Scan!None
OldestOpen  == IF ltxXid = Scan!None THEN nextTrx ELSE ltxXid

(* The table's rows and the transactions.                                  *)
TableFits ==
  /\ orders \in Seq(OrderRow) /\ Len(orders) <= LAB_PAGES * ROWS_PER_PAGE
  /\ vm \in [Scan!Page -> BOOLEAN] /\ pageXid \in [Scan!Page -> Int]
  /\ nextTrx \in Nat \ {0} /\ ltxXid \in Nat /\ ltxXid < nextTrx
  /\ leafMaxTrxId \in Int /\ leafMaxTrxId < nextTrx
  /\ \A p \in Scan!Page : pageXid[p] < nextTrx

(* Each row asked for has one live entry, with its status if the index has *)
(* it; what is dead died no later than its page was written and than the   *)
(* leaf was changed.                                                       *)
EntriesOfRows ==
  /\ leaf \subseteq LeafEntry /\ \A e \in leaf : e.row \in Scan!Asked
  /\ \A r \in Scan!Asked : \E e \in leaf : e.row = r /\ IsLive(e)
  /\ \A e, f \in leaf : IsLive(e) /\ IsLive(f) /\ e.row = f.row => e = f
  /\ Scan!statusIndexed =>
       \A e \in leaf : IsLive(e) => e.status = orders[e.row].status

DeathsRecorded ==
  \A e \in leaf : IsLive(e) \/ /\ e.dead <= pageXid[Scan!PageOf(e.row)]
                               /\ e.dead <= leafMaxTrxId

(* A page whose bit is set was last written before any open transaction,   *)
(* and has no dead entry.                                                  *)
BitsTell ==
  /\ \A p \in Scan!Page : vm[p] => pageXid[p] < OldestOpen
  /\ \A e \in leaf : vm[Scan!PageOf(e.row)] => IsLive(e)

ScanInv == TableFits /\ EntriesOfRows /\ DeathsRecorded /\ BitsTell

ScanThere == lab = "scan" => ScanInv

LEMMA QuotientBelow ==
  ASSUME NEW k \in Nat \ {0}, NEW n \in Nat, NEW x \in Nat, x < n * k
  PROVE  x \div k \in 0 .. n - 1
<1> DEFINE q == x \div k
<1>1. q \in Nat /\ x >= k * q
  OBVIOUS
<1> HIDE DEF q
<1>2. ASSUME q >= n PROVE FALSE
  <2>1. PICK d \in Nat : q = n + d
    <3>1. q - n \in Nat /\ q = n + (q - n)
      BY <1>1, <1>2
    <3> QED BY <3>1
  <2>2. k * d \in Nat /\ k * q = n * k + k * d /\ n * k \in Nat
    BY <2>1
  <2> QED BY <1>1, <2>2
<1>3. q \in 0 .. n - 1
  BY <1>1, <1>2
<1> QED BY <1>3 DEF q

LEMMA RowsHavePages ==
  ASSUME Scan!ScanAssumption, NEW r \in 1 .. LAB_PAGES * ROWS_PER_PAGE
  PROVE  Scan!PageOf(r) \in Scan!Page
<1>1. /\ LAB_PAGES \in Nat /\ ROWS_PER_PAGE \in Nat \ {0}
      /\ r \in Nat /\ r >= 1 /\ r <= LAB_PAGES * ROWS_PER_PAGE
  BY DEF Scan!ScanAssumption
<1>2. r - 1 \in Nat /\ r - 1 < LAB_PAGES * ROWS_PER_PAGE
  BY <1>1
<1>3. (r - 1) \div ROWS_PER_PAGE \in 0 .. LAB_PAGES - 1
  BY <1>1, <1>2, QuotientBelow
<1> QED BY <1>3 DEF Scan!PageOf, Scan!Page

LEMMA AskedHavePages ==
  ASSUME Scan!ScanAssumption, TableFits, NEW r \in Scan!RowId
  PROVE  r \in 1 .. LAB_PAGES * ROWS_PER_PAGE /\ Scan!PageOf(r) \in Scan!Page
<1>1. /\ LAB_PAGES * ROWS_PER_PAGE \in Nat /\ Len(orders) \in Nat
      /\ DOMAIN orders = 1 .. Len(orders)
  BY DEF Scan!ScanAssumption, TableFits
<1>2. r \in 1 .. LAB_PAGES * ROWS_PER_PAGE
  BY <1>1 DEF TableFits, Scan!RowId
<1> QED BY <1>2, RowsHavePages

(* The index is made of the rows as they are. *)
LEMMA FreshEntries ==
  ASSUME NEW rs \in Seq(OrderRow), NEW es, es = Scan!EntriesOf(rs)
  PROVE  /\ es \subseteq LeafEntry
         /\ \A e \in es : /\ e.row \in DOMAIN rs /\ rs[e.row].who = "customer"
                          /\ e.dead = 0 /\ e.status = rs[e.row].status
         /\ \A r \in DOMAIN rs : rs[r].who = "customer" => \E e \in es : e.row = r /\ e.dead = 0
         /\ \A e, f \in es : e.row = f.row => e = f
<1> DEFINE mine  == {x \in DOMAIN rs : rs[x].who = "customer"}
           of(r) == [row |-> r, status |-> rs[r].status, dead |-> 0]
<1>1. es = {of(r) : r \in mine}
  BY DEF Scan!EntriesOf, Scan!Entry, Scan!None
<1>2. \A r : of(r).row = r /\ of(r).status = rs[r].status /\ of(r).dead = 0
  OBVIOUS
<1>3. \A e \in es : e.row \in mine /\ e = of(e.row)
  BY <1>1, <1>2
<1>4. \A r \in mine : of(r) \in es
  BY <1>1
<1>5. \A r : r \in mine <=> r \in DOMAIN rs /\ rs[r].who = "customer"
  OBVIOUS
<1>6. ASSUME NEW r \in mine PROVE of(r) \in LeafEntry
  <2>1. r \in Nat /\ rs[r] \in OrderRow
    OBVIOUS
  <2>2. rs[r].status \in Scan!Status
    BY <2>1 DEF OrderRow
  <2> QED BY <2>1, <2>2 DEF LeafEntry
<1> HIDE DEF of, mine
<1> QED BY <1>2, <1>3, <1>4, <1>5, <1>6

LEMMA ScanBegins ==
  ASSUME Scan!ScanAssumption, Scan!ScanInit
  PROVE  ScanInv
<1>1. /\ orders \in [1 .. InitialRows -> OrderRow] /\ InitialRows \in Nat
      /\ InitialRows <= LAB_PAGES * ROWS_PER_PAGE
      /\ vm = [p \in Scan!Page |-> p < Scan!PagesUsed] /\ pageXid = [p \in Scan!Page |-> 900]
      /\ leaf = Scan!EntriesOf(orders) /\ leafMaxTrxId = 900 /\ nextTrx = 1000 /\ ltxXid = 0
  BY DEF Scan!ScanInit, Scan!ScanAssumption, OrderRow, Scan!BASE_XID, Scan!FIRST_XID, Scan!None
<1>2. TableFits
  <2>1. orders \in Seq(OrderRow) /\ Len(orders) = InitialRows
    BY <1>1
  <2> QED BY <1>1, <2>1 DEF TableFits
<1>3. EntriesOfRows /\ \A e \in leaf : IsLive(e)
  BY <1>1, <1>2, FreshEntries DEF TableFits, EntriesOfRows, Scan!Asked, Scan!RowId, IsLive, Scan!None
<1>4. BitsTell
  BY <1>1, <1>3 DEF BitsTell, OldestOpen, Scan!None
<1> QED BY <1>2, <1>3, <1>4 DEF ScanInv, DeathsRecorded

(* A transaction that has written to the rows of ws with the entries es:   *)
(* the bits and stamps of their pages.                                     *)
LEMMA WritesFit ==
  ASSUME Scan!ScanAssumption, ScanInv, NEW ws, Scan!WritesTo(ws),
         nextTrx' = nextTrx + 1, ltxXid' = ltxXid,
         orders' \in Seq(OrderRow), Len(orders') <= LAB_PAGES * ROWS_PER_PAGE,
         leafMaxTrxId' \in {leafMaxTrxId, nextTrx}
  PROVE  /\ TableFits'
         /\ \A p \in Scan!Page : /\ vm'[p] => vm[p] /\ pageXid'[p] < OldestOpen'
                                 /\ pageXid'[p] >= pageXid[p]
         /\ \A r \in ws : Scan!PageOf(r) \in Scan!Page =>
              ~vm'[Scan!PageOf(r)] /\ pageXid'[Scan!PageOf(r)] = nextTrx
         /\ leafMaxTrxId <= leafMaxTrxId'
<1> DEFINE pages == {Scan!PageOf(r) : r \in ws}
<1>1. /\ vm' = [p \in Scan!Page |-> vm[p] /\ p \notin pages]
      /\ pageXid' = [p \in Scan!Page |-> IF p \in pages THEN nextTrx ELSE pageXid[p]]
  BY DEF Scan!WritesTo, Scan!Written
<1>2. \A r \in ws : Scan!PageOf(r) \in pages
  OBVIOUS
<1> HIDE DEF pages
<1>3. TableFits
  BY DEF ScanInv
<1>4. TableFits'
  BY <1>1, <1>3 DEF TableFits
<1>5. ASSUME NEW p \in Scan!Page
      PROVE  /\ vm'[p] => vm[p] /\ pageXid'[p] < OldestOpen'
             /\ pageXid'[p] >= pageXid[p]
  <2>1. CASE p \in pages
    <3>1. ~vm'[p]
      BY <1>1, <2>1
    <3>2. pageXid'[p] = nextTrx /\ pageXid[p] < nextTrx /\ pageXid[p] \in Int
      BY <1>1, <1>3, <2>1 DEF TableFits
    <3> QED BY <1>3, <3>1, <3>2 DEF TableFits
  <2>2. CASE p \notin pages
    <3>1. pageXid'[p] = pageXid[p] /\ (vm'[p] => vm[p])
      BY <1>1, <2>2
    <3>2. vm[p] => pageXid[p] < OldestOpen
      BY DEF ScanInv, BitsTell
    <3> QED BY <1>3, <3>1, <3>2 DEF TableFits, OldestOpen
  <2> QED BY <2>1, <2>2
<1>6. ASSUME NEW r \in ws, Scan!PageOf(r) \in Scan!Page
      PROVE  ~vm'[Scan!PageOf(r)] /\ pageXid'[Scan!PageOf(r)] = nextTrx
  BY <1>1, <1>2, <1>6
<1>7. leafMaxTrxId <= leafMaxTrxId'
  BY <1>3 DEF TableFits
<1> QED BY <1>4, <1>5, <1>6, <1>7

(* ... and then the entries: what was not there before is live, or died    *)
(* with this transaction on a page and a leaf it wrote.                    *)
LEMMA DeathsFit ==
  ASSUME Scan!ScanAssumption, ScanInv, NEW ws, Scan!WritesTo(ws),
         nextTrx' = nextTrx + 1, ltxXid' = ltxXid,
         orders' \in Seq(OrderRow), Len(orders') <= LAB_PAGES * ROWS_PER_PAGE,
         leafMaxTrxId' \in {leafMaxTrxId, nextTrx},
         EntriesOfRows',
         \A e \in leaf' : \/ e \in leaf
                          \/ IsLive(e)
                          \/ /\ e.dead = nextTrx /\ e.row \in ws
                             /\ leafMaxTrxId' = nextTrx
  PROVE  ScanInv'
<1>1. /\ TableFits' /\ TableFits
      /\ \A p \in Scan!Page : /\ vm'[p] => vm[p] /\ pageXid'[p] < OldestOpen'
                              /\ pageXid'[p] >= pageXid[p]
      /\ \A r \in ws : Scan!PageOf(r) \in Scan!Page =>
           ~vm'[Scan!PageOf(r)] /\ pageXid'[Scan!PageOf(r)] = nextTrx
      /\ leafMaxTrxId <= leafMaxTrxId'
  BY WritesFit DEF ScanInv
<1>2. ASSUME NEW e \in leaf'
      PROVE  /\ IsLive(e) \/ /\ e.dead <= pageXid'[Scan!PageOf(e.row)]
                             /\ e.dead <= leafMaxTrxId'
             /\ vm'[Scan!PageOf(e.row)] => IsLive(e)
  <2> DEFINE p == Scan!PageOf(e.row)
  <2>1. p \in Scan!Page
    <3>1. e.row \in DOMAIN orders'
      BY DEF EntriesOfRows, Scan!Asked, Scan!RowId
    <3>2. LAB_PAGES * ROWS_PER_PAGE \in Nat
      BY DEF Scan!ScanAssumption
    <3>3. e.row \in 1 .. LAB_PAGES * ROWS_PER_PAGE
      BY <3>1, <3>2
    <3> QED BY <3>3, RowsHavePages
  <2> HIDE DEF p
  <2>2. pageXid[p] \in Int /\ pageXid'[p] \in Int /\ leafMaxTrxId \in Int /\ leafMaxTrxId' \in Int
    BY <1>1, <2>1 DEF TableFits
  <2>3. CASE e \in leaf
    <3>1. e.dead \in Nat /\ (IsLive(e) \/ (e.dead <= pageXid[p] /\ e.dead <= leafMaxTrxId))
      BY <2>3 DEF ScanInv, DeathsRecorded, EntriesOfRows, LeafEntry, p
    <3>2. pageXid'[p] >= pageXid[p] /\ (vm'[p] => vm[p])
      BY <1>1, <2>1
    <3>3. vm[p] => IsLive(e)
      BY <2>3 DEF ScanInv, BitsTell, p
    <3> QED BY <1>1, <2>2, <3>1, <3>2, <3>3 DEF p
  <2>4. CASE e.dead = nextTrx /\ e.row \in ws /\ leafMaxTrxId' = nextTrx
    <3>1. ~vm'[p] /\ pageXid'[p] = nextTrx
      BY <1>1, <2>1, <2>4 DEF p
    <3> QED BY <1>1, <2>4, <3>1 DEF p, TableFits
  <2> QED BY <2>3, <2>4
<1>3. DeathsRecorded'
  BY <1>2 DEF DeathsRecorded, IsLive
<1>4. BitsTell'
  BY <1>1, <1>2 DEF BitsTell, IsLive
<1> QED BY <1>1, <1>3, <1>4 DEF ScanInv

LEMMA ScanUpdateKeeps ==
  ASSUME Scan!ScanAssumption, ScanInv, NEW chosen \in SUBSET Scan!RowId,
         Scan!applyUpdate(chosen)
  PROVE  ScanInv'
<1> DEFINE mine == {e \in leaf : e.row \in chosen /\ e.dead = 0}
           now  == chosen \cap Scan!Asked
           New(r) == [row |-> r, status |-> orders'[r].status, dead |-> 0]
<1>1. /\ nextTrx' = nextTrx + 1 /\ UNCHANGED <<server, def, ltxXid>>
      /\ Scan!WritesTo(chosen)
      /\ orders' = [r \in Scan!RowId |-> IF r \in chosen
                      THEN [orders[r] EXCEPT !.status = Scan!Toggled(@)] ELSE orders[r]]
  BY DEF Scan!applyUpdate, Scan!Transaction
<1>2. TableFits /\ EntriesOfRows
  BY DEF ScanInv
<1>3. PICK n \in Nat : Scan!RowId = 1 .. n /\ Len(orders) = n /\ orders \in [1 .. n -> OrderRow]
  BY <1>2 DEF TableFits, Scan!RowId
<1>4. ASSUME NEW r \in 1 .. n
      PROVE  /\ orders'[r] \in OrderRow /\ orders'[r].who = orders[r].who
             /\ r \notin chosen => orders'[r] = orders[r]
  <2>1. orders[r] \in OrderRow
    BY <1>3
  <2>2. orders'[r] = IF r \in chosen THEN [orders[r] EXCEPT !.status = Scan!Toggled(@)]
                     ELSE orders[r]
    BY <1>1, <1>3
  <2> QED BY <2>1, <2>2 DEF OrderRow, Scan!Toggled, Scan!Status
<1>5. /\ orders' \in [1 .. n -> OrderRow] /\ orders' \in Seq(OrderRow) /\ Len(orders') = n
      /\ Scan!RowId' = 1 .. n /\ Scan!Asked' = Scan!Asked
  <2>1. orders' \in [1 .. n -> OrderRow]
    BY <1>1, <1>3, <1>4
  <2> QED BY <1>3, <1>4, <2>1 DEF Scan!RowId, Scan!Asked
<1>6. Scan!statusIndexed' = Scan!statusIndexed
  BY <1>1 DEF Scan!statusIndexed
<1>7. CASE ~Scan!statusIndexed
  <2>1. leaf' = leaf /\ leafMaxTrxId' = leafMaxTrxId
    BY <1>7 DEF Scan!applyUpdate
  <2>2. EntriesOfRows'
    BY <1>2, <1>5, <1>6, <1>7, <2>1 DEF EntriesOfRows, IsLive
  <2> QED BY <1>1, <1>2, <1>3, <1>5, <2>1, <2>2, DeathsFit DEF TableFits
<1>8. CASE Scan!statusIndexed
  <2>1. /\ leaf' = (leaf \ mine) \cup {[e EXCEPT !.dead = nextTrx] : e \in mine}
                                 \cup {New(r) : r \in now}
        /\ leafMaxTrxId' = IF Scan!OnLeaf(chosen) THEN nextTrx ELSE leafMaxTrxId
    BY <1>8 DEF Scan!applyUpdate, Scan!Entry, Scan!None
  <2>2. \A r : New(r).row = r /\ New(r).dead = 0 /\ New(r).status = orders'[r].status
    OBVIOUS
  <2>3. \A e : e \in mine <=> e \in leaf /\ e.row \in chosen /\ e.dead = 0
    OBVIOUS
  <2>4. \A r \in now : r \in chosen /\ r \in Scan!Asked /\ r \in 1 .. n
    BY <1>3
  <2> HIDE DEF mine, New, now
  <2>5. ASSUME NEW e \in leaf'
        PROVE  \/ e \in leaf /\ (e.dead = 0 => e.row \notin chosen)
               \/ e.dead = nextTrx /\ \E f \in mine : e.row = f.row
               \/ \E r \in now : e = New(r)
    <3>1. CASE e \in leaf \ mine
      BY <2>3, <3>1
    <3>2. ASSUME NEW f \in mine, e = [f EXCEPT !.dead = nextTrx] PROVE e.dead = nextTrx /\ e.row = f.row
      <4>1. f \in LeafEntry
        BY <1>2, <2>3 DEF EntriesOfRows
      <4> QED BY <3>2, <4>1 DEF LeafEntry
    <3>3. CASE \E r \in now : e = New(r)
      BY <3>3
    <3> QED BY <2>1, <3>1, <3>2, <3>3
  <2>6. ASSUME NEW r \in now PROVE New(r) \in leaf' /\ New(r) \in LeafEntry
    <3>1. New(r) \in leaf'
      BY <2>1
    <3>2. r \in Nat /\ orders'[r].status \in Scan!Status
      BY <1>4, <2>4 DEF OrderRow
    <3> QED BY <3>1, <3>2 DEF New, LeafEntry
  <2>7. nextTrx # 0 /\ nextTrx \in Nat
    BY <1>2 DEF TableFits
  <2>8. EntriesOfRows'
    <3>1. ASSUME NEW e \in leaf' PROVE e \in LeafEntry /\ e.row \in Scan!Asked
      <4>1. CASE e \in leaf
        BY <1>2, <4>1 DEF EntriesOfRows
      <4>2. ASSUME NEW f \in mine, e = [f EXCEPT !.dead = nextTrx]
            PROVE  e \in LeafEntry /\ e.row \in Scan!Asked
        <5>1. f \in LeafEntry /\ f.row \in Scan!Asked
          BY <1>2, <2>3 DEF EntriesOfRows
        <5> QED BY <2>7, <4>2, <5>1 DEF LeafEntry
      <4>3. ASSUME NEW r \in now, e = New(r) PROVE e \in LeafEntry /\ e.row \in Scan!Asked
        BY <2>2, <2>4, <2>6, <4>3
      <4> QED BY <2>1, <4>1, <4>2, <4>3
    <3>2. ASSUME NEW r \in Scan!Asked PROVE \E e \in leaf' : e.row = r /\ e.dead = 0
      <4>1. CASE r \in chosen
        BY <2>2, <2>6, <4>1 DEF now
      <4>2. CASE r \notin chosen
        <5>1. PICK e \in leaf : e.row = r /\ e.dead = 0
          BY <1>2 DEF EntriesOfRows, IsLive, Scan!None
        <5> QED BY <2>1, <2>3, <4>2, <5>1
      <4> QED BY <4>1, <4>2
    <3>3. ASSUME NEW e \in leaf', e.dead = 0
          PROVE  \/ e \in leaf /\ e.row \notin chosen
                 \/ e.row \in now /\ e = New(e.row)
      BY <2>2, <2>5, <2>7, <3>3
    <3>4. ASSUME NEW e \in leaf', NEW f \in leaf', e.dead = 0, f.dead = 0, e.row = f.row
          PROVE  e = f
      <4>1. CASE e \in leaf /\ f \in leaf
        BY <1>2, <3>4, <4>1 DEF EntriesOfRows, IsLive, Scan!None
      <4> QED BY <2>4, <3>3, <3>4, <4>1
    <3>5. ASSUME NEW e \in leaf', e.dead = 0 PROVE e.status = orders'[e.row].status
      <4>1. CASE e \in leaf /\ e.row \notin chosen
        <5>1. e.status = orders[e.row].status /\ e.row \in Scan!Asked
          BY <1>2, <1>8, <3>5, <4>1 DEF EntriesOfRows, IsLive, Scan!None
        <5>2. e.row \in 1 .. n
          BY <1>3, <5>1 DEF Scan!Asked
        <5> QED BY <1>4, <4>1, <5>1, <5>2
      <4> QED BY <2>2, <3>3, <3>5, <4>1
    <3> QED BY <1>5, <3>1, <3>2, <3>4, <3>5 DEF EntriesOfRows, IsLive, Scan!None
  <2>9. ASSUME NEW e \in leaf'
        PROVE  \/ e \in leaf
               \/ IsLive(e)
               \/ e.dead = nextTrx /\ e.row \in chosen /\ leafMaxTrxId' = nextTrx
    <3>1. ASSUME NEW f \in mine, e.dead = nextTrx, e.row = f.row
          PROVE  e.row \in chosen /\ leafMaxTrxId' = nextTrx
      <4>1. f.row \in chosen /\ f.row \in Scan!Asked'
        BY <1>2, <1>5, <2>3 DEF EntriesOfRows
      <4>2. orders'[f.row].who = "customer"
        BY <4>1 DEF Scan!Asked
      <4> QED BY <2>1, <3>1, <4>1, <4>2 DEF Scan!OnLeaf
    <3> QED BY <2>2, <2>5, <3>1 DEF IsLive, Scan!None
  <2> QED BY <1>1, <1>2, <1>3, <1>5, <2>1, <2>8, <2>9, DeathsFit DEF TableFits
<1> QED BY <1>7, <1>8

LEMMA ScanInsertKeeps ==
  ASSUME Scan!ScanAssumption, ScanInv, NEW who \in Scan!Who, Scan!applyInsert(who)
  PROVE  ScanInv'
<1> DEFINE room  == LAB_PAGES * ROWS_PER_PAGE - Len(orders)
           k     == IF room < Hit THEN room ELSE Hit
           added == [i \in 1 .. k |-> [who |-> who, status |-> "open"]]
           new   == Len(orders) + 1 .. Len(orders) + Len(added)
           fresh == IF who = "customer" THEN {Scan!Entry(r, "open") : r \in new} ELSE {}
<1>1. /\ nextTrx' = nextTrx + 1 /\ UNCHANGED <<server, def, ltxXid>>
      /\ room > 0 /\ orders' = orders \o added /\ Scan!WritesTo(new)
      /\ leaf' = leaf \cup fresh
      /\ leafMaxTrxId' = IF Scan!OnLeaf(new) THEN nextTrx ELSE leafMaxTrxId
  BY DEF Scan!applyInsert, Scan!Transaction
<1>2. TableFits /\ EntriesOfRows
  BY DEF ScanInv
<1>3. /\ room \in Nat /\ k \in Nat /\ k <= room
  <2>1. LAB_PAGES * ROWS_PER_PAGE \in Nat /\ Hit \in Nat /\ Len(orders) \in Nat
    BY <1>2 DEF Scan!ScanAssumption, TableFits
  <2> QED BY <1>2, <2>1 DEF TableFits
<1>4. /\ added \in Seq(OrderRow) /\ Len(added) = k
      /\ \A i \in 1 .. k : added[i] = [who |-> who, status |-> "open"]
  <2>1. [who |-> who, status |-> "open"] \in OrderRow
    BY DEF OrderRow, Scan!Status
  <2> QED BY <1>3, <2>1
<1> DEFINE n == Len(orders)
<1>5. /\ n \in Nat /\ orders \in Seq(OrderRow) /\ n + k <= LAB_PAGES * ROWS_PER_PAGE
      /\ new = n + 1 .. n + k
  <2>1. LAB_PAGES * ROWS_PER_PAGE \in Nat
    BY DEF Scan!ScanAssumption
  <2> QED BY <1>2, <1>3, <1>4, <2>1 DEF TableFits
<1> HIDE DEF added, k, room
<1>6. /\ orders' \in Seq(OrderRow) /\ Len(orders') = n + k
      /\ \A r \in 1 .. n : orders'[r] = orders[r]
      /\ \A r \in n + 1 .. n + k : orders'[r] = [who |-> who, status |-> "open"]
  <2>1. /\ orders' \in Seq(OrderRow) /\ Len(orders') = n + k
        /\ \A r \in 1 .. n + k : orders'[r] = IF r <= n THEN orders[r] ELSE added[r - n]
    <3>1. /\ orders \o added \in Seq(OrderRow) /\ Len(orders \o added) = Len(orders) + Len(added)
          /\ \A i \in 1 .. Len(orders) + Len(added) :
               (orders \o added)[i] = IF i <= Len(orders) THEN orders[i] ELSE added[i - Len(orders)]
      BY <1>4, <1>5, ConcatProperties
    <3> QED BY <1>1, <1>4, <3>1
  <2>2. ASSUME NEW r \in n + 1 .. n + k PROVE r - n \in 1 .. k
    BY <1>3, <1>5
  <2> QED BY <1>3, <1>4, <1>5, <2>1, <2>2
<1> HIDE DEF new, n
<1>7. /\ Scan!RowId = 1 .. n /\ Scan!RowId' = 1 .. n + k
  BY <1>5, <1>6 DEF Scan!RowId, n
<1>8. /\ \A r \in Scan!Asked : r \in Scan!Asked' /\ r \in 1 .. n
      /\ \A r \in Scan!Asked' : r \in Scan!Asked \/ (r \in new /\ who = "customer")
      /\ who = "customer" => \A r \in new : r \in Scan!Asked'
  <2>1. 1 .. n + k = (1 .. n) \cup new
    BY <1>3, <1>5
  <2>2. \A r \in new : orders'[r].who = who
    BY <1>5, <1>6
  <2>3. Scan!Asked = {r \in 1 .. n : orders[r].who = "customer"}
    BY <1>7 DEF Scan!Asked
  <2>4. Scan!Asked' = {r \in 1 .. n + k : orders'[r].who = "customer"}
    BY <1>7 DEF Scan!Asked
  <2>5. \A r \in Scan!Asked : r \in Scan!Asked' /\ r \in 1 .. n
    BY <1>6, <2>1, <2>3, <2>4
  <2>6. \A r \in Scan!Asked' : r \in Scan!Asked \/ (r \in new /\ who = "customer")
    <3>1. ASSUME NEW r \in 1 .. n + k, orders'[r].who = "customer"
          PROVE  \/ r \in 1 .. n /\ orders[r].who = "customer"
                 \/ r \in new /\ who = "customer"
      <4>1. CASE r \in 1 .. n
        BY <1>6, <3>1, <4>1
      <4>2. CASE r \in new
        BY <2>2, <3>1, <4>2
      <4> QED BY <2>1, <4>1, <4>2
    <3> QED BY <2>3, <2>4, <3>1
  <2>7. who = "customer" => \A r \in new : r \in Scan!Asked'
    <3>1. \A r \in new : r \in 1 .. n + k
      BY <2>1
    <3> QED BY <2>2, <2>4, <3>1
  <2> QED BY <2>5, <2>6, <2>7
<1>9. /\ \A e \in fresh : /\ e.row \in new /\ who = "customer" /\ e.dead = 0 /\ e.status = "open"
                          /\ e \in LeafEntry /\ e = Scan!Entry(e.row, "open")
      /\ who = "customer" => \A r \in new : \E e \in fresh : e.row = r /\ e.dead = 0
  <2>1. ASSUME NEW r \in new
        PROVE  LET e == Scan!Entry(r, "open")
               IN  e \in LeafEntry /\ e.row = r /\ e.dead = 0 /\ e.status = "open"
    BY <1>3, <1>5 DEF Scan!Entry, LeafEntry, Scan!None, Scan!Status
  <2> QED BY <2>1
<1> HIDE DEF fresh
<1>10. \A r \in new : r \notin 1 .. n
  BY <1>3, <1>5
<1>11. EntriesOfRows'
  <2>1. ASSUME NEW e \in leaf' PROVE e \in LeafEntry /\ e.row \in Scan!Asked'
    BY <1>1, <1>2, <1>8, <1>9, <2>1 DEF EntriesOfRows
  <2>2. ASSUME NEW r \in Scan!Asked' PROVE \E e \in leaf' : e.row = r /\ e.dead = 0
    <3>1. CASE r \in Scan!Asked
      BY <1>1, <1>2, <3>1 DEF EntriesOfRows, IsLive, Scan!None
    <3>2. CASE r \in new /\ who = "customer"
      BY <1>1, <1>9, <3>2
    <3> QED BY <1>8, <3>1, <3>2
  <2>3. \A e \in leaf : e.row \in 1 .. n
    BY <1>2, <1>8 DEF EntriesOfRows
  <2>4. ASSUME NEW e \in leaf', NEW f \in leaf', e.dead = 0, f.dead = 0, e.row = f.row PROVE e = f
    <3>1. CASE e \in leaf /\ f \in leaf
      BY <1>2, <2>4, <3>1 DEF EntriesOfRows, IsLive, Scan!None
    <3>2. CASE e \in fresh /\ f \in fresh
      BY <1>9, <2>4, <3>2
    <3> QED BY <1>1, <1>9, <1>10, <2>3, <2>4, <3>1, <3>2
  <2>5. ASSUME Scan!statusIndexed', NEW e \in leaf', e.dead = 0 PROVE e.status = orders'[e.row].status
    <3>1. CASE e \in leaf
      <4>1. Scan!statusIndexed
        BY <1>1, <2>5 DEF Scan!statusIndexed
      <4>2. e.status = orders[e.row].status
        BY <1>2, <2>5, <3>1, <4>1 DEF EntriesOfRows, IsLive, Scan!None
      <4> QED BY <1>6, <2>3, <3>1, <4>2
    <3>2. CASE e \in fresh
      BY <1>5, <1>6, <1>9, <3>2
    <3> QED BY <1>1, <2>5, <3>1, <3>2
  <2> QED BY <2>1, <2>2, <2>4, <2>5 DEF EntriesOfRows, IsLive, Scan!None
<1>12. \A e \in leaf' : e \in leaf \/ IsLive(e)
  BY <1>1, <1>9 DEF IsLive, Scan!None
<1> QED BY <1>1, <1>5, <1>6, <1>11, <1>12, DeathsFit

LEMMA ScanVacuumKeeps ==
  ASSUME Scan!ScanAssumption, ScanInv, Scan!applyVacuum
  PROVE  ScanInv'
<1>1. /\ leaf' = {e \in leaf : e.dead = 0 \/ e.dead >= OldestOpen}
      /\ vm' = IF server = "innodb" THEN vm
               ELSE [p \in Scan!Page |-> vm[p] \/ (p < Scan!PagesUsed /\ pageXid[p] < OldestOpen)]
      /\ UNCHANGED <<server, def, orders, pageXid, leafMaxTrxId, nextTrx, ltxXid>>
  BY DEF Scan!applyVacuum, OldestOpen, Scan!None
<1>2. TableFits /\ EntriesOfRows /\ DeathsRecorded /\ BitsTell
  BY DEF ScanInv
<1>3. vm' \in [Scan!Page -> BOOLEAN] /\ \A p \in Scan!Page : vm'[p] => vm[p] \/ pageXid[p] < OldestOpen
  BY <1>1, <1>2 DEF TableFits
<1>4. OldestOpen' = OldestOpen /\ Scan!Asked' = Scan!Asked /\ Scan!statusIndexed' = Scan!statusIndexed
  BY <1>1 DEF OldestOpen, Scan!Asked, Scan!RowId, Scan!statusIndexed
<1>5. TableFits'
  BY <1>1, <1>2, <1>3 DEF TableFits
<1>6. EntriesOfRows'
  BY <1>1, <1>2, <1>4 DEF EntriesOfRows, IsLive, Scan!None
<1>7. DeathsRecorded'
  BY <1>1, <1>2 DEF DeathsRecorded, IsLive
<1>8. ASSUME NEW e \in leaf', vm'[Scan!PageOf(e.row)] PROVE IsLive(e)
  <2> DEFINE p == Scan!PageOf(e.row)
  <2>1. e \in leaf /\ (e.dead = 0 \/ e.dead >= OldestOpen) /\ e \in LeafEntry
    BY <1>1, <1>2 DEF EntriesOfRows
  <2>2. p \in Scan!Page
    BY <1>2, <2>1, AskedHavePages DEF EntriesOfRows, Scan!Asked
  <2>3. IsLive(e) \/ e.dead <= pageXid[p]
    BY <1>2, <2>1 DEF DeathsRecorded
  <2>4. vm[p] => IsLive(e)
    BY <1>2, <2>1 DEF BitsTell
  <2> HIDE DEF p
  <2>5. pageXid[p] \in Int /\ OldestOpen \in Int /\ e.dead \in Int
    BY <1>2, <2>1, <2>2 DEF TableFits, OldestOpen, LeafEntry
  <2>6. vm'[p]
    BY <1>8 DEF p
  <2>7. vm[p] \/ pageXid[p] < OldestOpen
    BY <1>3, <2>2, <2>6
  <2> QED BY <2>1, <2>3, <2>4, <2>5, <2>7 DEF IsLive, Scan!None
<1>9. BitsTell'
  <2>1. \A p \in Scan!Page : vm'[p] => pageXid'[p] < OldestOpen'
    BY <1>1, <1>2, <1>3, <1>4 DEF BitsTell
  <2> QED BY <1>8, <2>1 DEF BitsTell, IsLive
<1> QED BY <1>5, <1>6, <1>7, <1>9 DEF ScanInv

LEMMA LongTxnKeeps ==
  ASSUME ScanInv, Scan!setLongTxn
  PROVE  ScanInv'
<1>1. /\ UNCHANGED <<server, def, orders, vm, pageXid, leaf, leafMaxTrxId>>
      /\ IF ltxXid = 0 THEN ltxXid' = nextTrx /\ nextTrx' = nextTrx + 1
                       ELSE ltxXid' = 0 /\ nextTrx' = nextTrx
  BY DEF Scan!setLongTxn, Scan!None
<1>2. TableFits /\ EntriesOfRows /\ DeathsRecorded /\ BitsTell
  BY DEF ScanInv
<1>3. TableFits' /\ OldestOpen \in Nat /\ OldestOpen' \in Nat /\ OldestOpen' >= OldestOpen
  BY <1>1, <1>2 DEF TableFits, OldestOpen, Scan!None
<1>4. EntriesOfRows' /\ DeathsRecorded'
  BY <1>1, <1>2 DEF EntriesOfRows, DeathsRecorded, IsLive, Scan!Asked, Scan!RowId, Scan!statusIndexed
<1>5. BitsTell'
  <2>1. \A p \in Scan!Page : vm[p] => pageXid[p] < OldestOpen'
    BY <1>2, <1>3 DEF BitsTell, TableFits
  <2> QED BY <1>1, <1>2, <2>1 DEF BitsTell, IsLive
<1> QED BY <1>3, <1>4, <1>5 DEF ScanInv

LEMMA ScanStepKeeps ==
  ASSUME Scan!ScanAssumption, ScanInv, Scan!ScanStep
  PROVE  ScanInv'
<1>1. ASSUME NEW pool \in {Scan!RowId, Scan!Asked}, NEW s \in Scan!Some(pool), Scan!applyUpdate(s)
      PROVE  ScanInv'
  <2>1. s \in SUBSET Scan!RowId
    BY DEF Scan!Some, Scan!Asked
  <2> QED BY <1>1, <2>1, ScanUpdateKeeps
<1>2. ASSUME NEW c, NEW role, Scan!setRole(c, role) PROVE ScanInv'
  <2>1. /\ leaf' = Scan!EntriesOf(orders)
        /\ UNCHANGED <<server, orders, vm, pageXid, leafMaxTrxId, nextTrx, ltxXid>>
    BY <1>2 DEF Scan!setRole
  <2>2. TableFits /\ BitsTell
    BY DEF ScanInv
  <2>3. TableFits'
    BY <2>1, <2>2 DEF TableFits
  <2>4. EntriesOfRows' /\ \A e \in leaf' : IsLive(e)
    BY <2>1, <2>2, FreshEntries DEF TableFits, EntriesOfRows, Scan!Asked, Scan!RowId, IsLive, Scan!None
  <2>5. BitsTell'
    BY <2>1, <2>2, <2>4 DEF BitsTell, OldestOpen, IsLive
  <2> QED BY <2>3, <2>4, <2>5 DEF ScanInv, DeathsRecorded, IsLive
<1>3. CASE Scan!SetEngine
  BY <1>3 DEF Scan!SetEngine, Scan!tableVars, ScanInv, TableFits, EntriesOfRows, DeathsRecorded,
              BitsTell, OldestOpen, IsLive, Scan!Asked, Scan!RowId, Scan!statusIndexed
<1> QED BY <1>1, <1>2, <1>3, ScanInsertKeeps, ScanVacuumKeeps, LongTxnKeeps DEF Scan!ScanStep

LEMMA ScanAlways == Spec => []ScanThere
<1>1. Scan!ScanAssumption
  BY Assumption
<1>2. Init => ScanThere
  BY <1>1, ScanBegins DEF Init, ScanThere
<1>3. ASSUME ScanThere, [Next]_vars PROVE ScanThere'
  <2>1. CASE UNCHANGED vars
    BY <1>3, <2>1 DEF vars, scanVars, ScanThere, ScanInv, TableFits, EntriesOfRows, DeathsRecorded,
                      BitsTell, OldestOpen, IsLive, Scan!Asked, Scan!RowId, Scan!statusIndexed
  <2>2. CASE Next
    BY <1>1, <1>3, <2>2, ScanStepKeeps DEF Next, Step, ScanThere
  <2> QED BY <1>3, <2>1, <2>2
<1>4. ScanThere /\ [Next]_vars => ScanThere'
  BY <1>3
<1> QED BY <1>2, <1>4, PTL DEF Spec

(* An index scan (IndexOnlyScanVisibilityLab) returns the rows asked for,  *)
(* each once, whichever columns the index stores, whatever was updated,    *)
(* inserted, vacuumed or purged, in either engine; and where it does not   *)
(* visit the table, no open transaction could see the entry otherwise.     *)
THEOREM ScansAnswerRight ==
  Spec => [](lab = "scan" => Scan!ScanReturnsRows /\ Scan!UncheckedIsSettled)
<1>1. ASSUME ScanInv, NEW q \in Scan!QUERIES, NEW e \in leaf, IsLive(e)
      PROVE  e \in Scan!Returned(q) <=> (q.filterOpen => orders[e.row].status = "open")
  <2>1. Scan!statusIndexed => e.status = orders[e.row].status
    BY <1>1 DEF ScanInv, EntriesOfRows
  <2>2. Scan!statusInCond(q) => Scan!statusIndexed /\ q.filterOpen
    BY DEF Scan!statusInCond, Scan!StatusKey, Scan!statusIndexed
  <2>3. q.filterOpen /\ Scan!covered(q) => Scan!statusIndexed
    BY DEF Scan!covered, Scan!Needed, Scan!Stored, Scan!statusIndexed
  <2>4. q.filterOpen => Scan!valueStatus(e, q) = orders[e.row].status
    BY <2>1, <2>3 DEF Scan!valueStatus
  <2> QED BY <1>1, <2>1, <2>2, <2>4 DEF Scan!Returned, IsLive
<1>2. ASSUME ScanInv PROVE Scan!ScanReturnsRows
  <2> SUFFICES ASSUME NEW q \in Scan!QUERIES
               PROVE  /\ {e.row : e \in Scan!Returned(q)} =
                           {r \in Scan!Asked : q.filterOpen => orders[r].status = "open"}
                      /\ \A e, f \in Scan!Returned(q) : e.row = f.row => e = f
    BY DEF Scan!ScanReturnsRows
  <2>1. \A e \in Scan!Returned(q) : e \in leaf /\ IsLive(e)
    BY DEF Scan!Returned, IsLive
  <2>2. \A e \in leaf : e.row \in Scan!Asked
    BY <1>2 DEF ScanInv, EntriesOfRows
  <2>3. \A r \in Scan!Asked : \E e \in leaf : e.row = r /\ IsLive(e)
    BY <1>2 DEF ScanInv, EntriesOfRows
  <2>4. \A e, f \in leaf : IsLive(e) /\ IsLive(f) /\ e.row = f.row => e = f
    BY <1>2 DEF ScanInv, EntriesOfRows
  <2>5. \A e \in leaf : IsLive(e) =>
          (e \in Scan!Returned(q) <=> (q.filterOpen => orders[e.row].status = "open"))
    BY <1>1, <1>2
  <2> QED BY <2>1, <2>2, <2>3, <2>4, <2>5
<1>3. ASSUME Scan!ScanAssumption, ScanInv PROVE Scan!UncheckedIsSettled
  <2> SUFFICES ASSUME NEW e \in leaf, Scan!Unchecked(e)
               PROVE  IF server = "pg" THEN e.dead = 0 /\ pageXid[Scan!PageOf(e.row)] < OldestOpen
                                       ELSE e.dead < OldestOpen
    BY DEF Scan!UncheckedIsSettled, OldestOpen, Scan!None
  <2>1. TableFits /\ EntriesOfRows /\ DeathsRecorded /\ BitsTell
    BY <1>3 DEF ScanInv
  <2>2. Scan!PageOf(e.row) \in Scan!Page
    BY <1>3, <2>1, AskedHavePages DEF EntriesOfRows, Scan!Asked
  <2>3. CASE server = "pg"
    BY <2>1, <2>2, <2>3 DEF Scan!Unchecked, BitsTell, IsLive, Scan!None
  <2>4. CASE server # "pg"
    <3>1. leafMaxTrxId < OldestOpen
      BY <2>4 DEF Scan!Unchecked, Scan!pageCheck, OldestOpen
    <3>2. OldestOpen \in Nat \ {0} /\ leafMaxTrxId \in Int /\ e.dead \in Nat
      BY <2>1 DEF TableFits, OldestOpen, Scan!None, EntriesOfRows, LeafEntry
    <3>3. e.dead = 0 \/ e.dead <= leafMaxTrxId
      BY <2>1 DEF DeathsRecorded, IsLive, Scan!None
    <3> QED BY <2>4, <3>1, <3>2, <3>3
  <2> QED BY <2>3, <2>4
<1>4. Scan!ScanAssumption
  BY Assumption
<1>5. ScanThere => (lab = "scan" => Scan!ScanReturnsRows /\ Scan!UncheckedIsSettled)
  BY <1>2, <1>3, <1>4 DEF ScanThere
<1> QED BY <1>5, ScanAlways, PTL

-------------------------------------------------------------------------------
(* The catalog cache.                                                      *)

(* What A has done and not committed has a message pending, if it concerns *)
(* the cached entry; a valid entry about which nothing is unread is the    *)
(* committed definition; and B is sent to the old file only until it reads *)
(* the message that says so.                                               *)
CatalogInv ==
  /\ "entry" \notin pending => working = committed
  /\ bValid /\ ~bReset /\ "entry" \notin unread => bEntry = committed
  /\ bMapStale => bReset \/ "map" \in unread

CatalogThere == lab = "catalog" => CatalogInv

(* A step that has no message for the cached entry leaves it as it is.     *)
LEMMA SilentStepsChangeNothing ==
  ASSUME NEW op, "entry" \notin Catalog!Messages(op)
  PROVE  Catalog!Changed(op) = working
<1>1. \/ op = "rewrite pg_class"
      \/ op = "drop column" /\ Catalog!Droppable = {}
      \/ op \in {"set ready", "set valid"} /\ Catalog!LastIdx = 0
  BY DEF Catalog!Messages
<1> QED BY <1>1 DEF Catalog!Changed

LEMMA StepOfAKeeps ==
  ASSUME CatalogInv, Catalog!stepA
  PROVE  CatalogInv'
<1>1. UNCHANGED <<bEntry, bValid, bReset>>
  BY DEF Catalog!stepA, Catalog!bVars
<1>2. CASE Catalog!Execute
  <2> DEFINE op == Catalog!Op
  <2>1. /\ working' = Catalog!Changed(op) /\ pending' = pending \cup Catalog!Messages(op)
        /\ UNCHANGED <<committed, unread, bMapStale>>
    BY <1>2 DEF Catalog!Execute
  <2> HIDE DEF op
  <2>2. "entry" \notin pending' => working' = committed'
    BY <2>1, SilentStepsChangeNothing DEF CatalogInv
  <2> QED BY <1>1, <2>1, <2>2 DEF CatalogInv
<1>3. CASE Catalog!CommitA
  <2>1. /\ committed' = working /\ working' = working /\ unread' = unread \cup pending
        /\ bMapStale' = (bMapStale \/ "map" \in pending)
    BY <1>3 DEF Catalog!CommitA
  <2>2. bMapStale' => bReset' \/ "map" \in unread'
    BY <1>1, <2>1 DEF CatalogInv
  <2>3. bValid' /\ ~bReset' /\ "entry" \notin unread' => bEntry' = committed'
    BY <1>1, <2>1 DEF CatalogInv
  <2> QED BY <2>1, <2>2, <2>3 DEF CatalogInv
<1> QED BY <1>2, <1>3 DEF Catalog!stepA

LEMMA DrainKeeps ==
  ASSUME CatalogInv, Catalog!acceptB
  PROVE  CatalogInv'
<1>1. UNCHANGED <<committed, working, pending>>
  BY DEF Catalog!acceptB, Catalog!aVars
<1>2. CASE Catalog!acceptReset
  BY <1>1, <1>2 DEF Catalog!acceptReset, CatalogInv
<1>3. CASE Catalog!acceptMessages
  <2>1. /\ bValid' = (bValid /\ "entry" \notin unread)
        /\ bMapStale' = (bMapStale /\ "map" \notin unread)
        /\ ~bReset /\ bEntry' = bEntry
    BY <1>3 DEF Catalog!acceptMessages
  <2>2. ~bMapStale'
    BY <2>1 DEF CatalogInv
  <2>3. bValid' => bEntry' = committed'
    BY <1>1, <2>1 DEF CatalogInv
  <2> QED BY <1>1, <2>2, <2>3 DEF CatalogInv
<1> QED BY <1>2, <1>3 DEF Catalog!acceptB

LEMMA CatalogStepKeeps ==
  ASSUME CatalogInv, Catalog!CatalogStep
  PROVE  CatalogInv'
<1>1. CASE Catalog!stepA
  BY <1>1, StepOfAKeeps
<1>2. CASE Catalog!ChooseDdl
  BY <1>2 DEF Catalog!ChooseDdl, Catalog!bVars, CatalogInv
<1>3. CASE Catalog!HoldOpen
  BY <1>3 DEF Catalog!HoldOpen, Catalog!bVars, CatalogInv
<1>4. CASE Catalog!acceptB
  BY <1>4, DrainKeeps
<1>5. CASE Catalog!readB
  BY <1>5 DEF Catalog!readB, Catalog!aVars, CatalogInv
<1>6. CASE Catalog!flood
  BY <1>6 DEF Catalog!flood, Catalog!aVars, CatalogInv
<1>7. CASE Catalog!cold
  BY <1>7 DEF Catalog!cold, Catalog!aVars, CatalogInv
<1>8. CASE Catalog!bootStep
  BY <1>8 DEF Catalog!bootStep, Catalog!aVars, CatalogInv
<1> QED BY <1>1, <1>2, <1>3, <1>4, <1>5, <1>6, <1>7, <1>8 DEF Catalog!CatalogStep

LEMMA CatalogAlways == Spec => []CatalogThere
<1>1. Init => CatalogThere
  BY DEF Init, Catalog!CatalogInit, CatalogThere, CatalogInv
<1>2. ASSUME CatalogThere, [Next]_vars PROVE CatalogThere'
  <2>1. CASE UNCHANGED vars
    BY <1>2, <2>1 DEF vars, catalogVars, CatalogThere, CatalogInv
  <2>2. CASE Next
    BY <1>2, <2>2, CatalogStepKeeps DEF Next, Step, CatalogThere
  <2> QED BY <1>2, <2>1, <2>2
<1>3. CatalogThere /\ [Next]_vars => CatalogThere'
  BY <1>2
<1> QED BY <1>1, <1>3, PTL DEF Spec

(* A backend's cached definition (CatalogBootstrapInvalidationLab) may be  *)
(* out of date only while a message that makes it invalid is unread or a   *)
(* reset is pending, and a read that waits for the file map has something  *)
(* to drain - after any scripts of DDL, for any numbers of columns and     *)
(* indexes, however often it falls off the ring or starts cold.            *)
THEOREM CacheFindsOut == Spec => [](lab = "catalog" => Catalog!StaleIsFoundOut)
<1>1. CatalogThere => (lab = "catalog" => Catalog!StaleIsFoundOut)
  BY DEF CatalogThere, CatalogInv, Catalog!StaleIsFoundOut
<1> QED BY <1>1, CatalogAlways, PTL

-------------------------------------------------------------------------------
(* A set that has 0, and with a number the next, has every number up to n. *)
LEMMA Upto ==
  ASSUME NEW n \in Nat, NEW T, 0 \in T, \A i \in 0 .. n - 1 : i \in T => i + 1 \in T
  PROVE  \A i \in 0 .. n : i \in T
<1> SUFFICES ASSUME NEW c \in 0 .. n, c \notin T PROVE FALSE
  OBVIOUS
<1> DEFINE U == {i \in 0 .. n : i \notin T}
<1>1. PICK x \in U : \A y \in U : x <= y
  <2>1. U \subseteq Nat /\ U # {}
    OBVIOUS
  <2> HIDE DEF U
  <2> QED BY <2>1, LeastIn
<1>2. x # 0 /\ x \in 0 .. n /\ x \notin T
  BY <1>1
<1>3. x - 1 \in 0 .. n - 1 /\ ~(x <= x - 1) /\ x - 1 \in 0 .. n
  BY <1>2
<1>4. x - 1 \in T
  BY <1>1, <1>3
<1>5. (x - 1) + 1 \in T
  BY <1>3, <1>4
<1> QED BY <1>5, <1>2

Loops(g, n, a, F) == g[0] = a /\ \A i \in 1 .. n : g[i] = F[<<g[i - 1], i>>]

(* A loop of n steps on the values of a set has a result at each step.     *)
LEMMA LoopRuns ==
  ASSUME NEW V, NEW n \in Nat, NEW a \in V, NEW F \in [V \X (1 .. n) -> V]
  PROVE  \E g \in [0 .. n -> V] : Loops(g, n, a, F)
<1> DEFINE T == {k \in 0 .. n : \E g \in [0 .. k -> V] : Loops(g, k, a, F)}
<1>1. 0 \in T
  <2> DEFINE g == [i \in 0 .. 0 |-> a]
  <2>1. g \in [0 .. 0 -> V] /\ 0 \in 0 .. n
    OBVIOUS
  <2>2. Loops(g, 0, a, F)
    BY DEF Loops
  <2> HIDE DEF g
  <2> QED BY <2>1, <2>2
<1>2. ASSUME NEW k \in 0 .. n - 1, k \in T PROVE k + 1 \in T
  <2>1. PICK g \in [0 .. k -> V] : Loops(g, k, a, F)
    BY <1>2
  <2> DEFINE h == [i \in 0 .. k + 1 |-> IF i <= k THEN g[i] ELSE F[<<g[k], k + 1>>]]
  <2>0. k + 1 \in 1 .. n /\ g[k] \in V
    OBVIOUS
  <2>2. F[<<g[k], k + 1>>] \in V
    BY <2>0
  <2>3. h \in [0 .. k + 1 -> V]
    BY <2>2
  <2>4. h[0] = a
    BY <2>1 DEF Loops
  <2>5. ASSUME NEW i \in 1 .. k + 1 PROVE h[i] = F[<<h[i - 1], i>>]
    <3>1. i \in 0 .. k + 1 /\ i - 1 \in 0 .. k /\ i - 1 \in 0 .. k + 1 /\ i - 1 <= k
      OBVIOUS
    <3>2. h[i - 1] = g[i - 1]
      BY <3>1
    <3>3. CASE i <= k
      <4>1. h[i] = g[i] /\ i \in 1 .. k
        BY <3>1, <3>3
      <4> QED BY <4>1, <3>2, <2>1 DEF Loops
    <3>4. CASE ~(i <= k)
      <4>1. i = k + 1 /\ i - 1 = k
        BY <3>1, <3>4
      <4>2. h[i] = F[<<g[k], k + 1>>]
        BY <3>1, <3>4
      <4> QED BY <4>1, <4>2, <3>2
    <3> QED BY <3>3, <3>4
  <2> HIDE DEF h
  <2>6. k + 1 \in 0 .. n
    OBVIOUS
  <2>7. Loops(h, k + 1, a, F)
    BY <2>4, <2>5 DEF Loops
  <2> QED BY <2>3, <2>6, <2>7
<1> HIDE DEF T
<1>3. n \in T
  BY <1>1, <1>2, Upto
<1> QED BY <1>3 DEF T

(* Division rounds down. *)
LEMMA Quotient ==
  ASSUME NEW n \in Nat, NEW d \in Nat \ {0}
  PROVE  n \div d \in Nat /\ (n \div d) * d <= n /\ n < (n \div d) * d + d
OBVIOUS

LEMMA TimesMonotone ==
  ASSUME NEW i \in Nat, NEW j \in Nat, NEW d \in Nat, i <= j
  PROVE  i * d \in Nat /\ j * d \in Nat /\ i * d <= j * d
<1>1. PICK e \in Nat : j = i + e
  <2>1. j - i \in Nat /\ j = i + (j - i)
    OBVIOUS
  <2> QED BY <2>1
<1>2. i * d \in Nat /\ e * d \in Nat /\ j * d = i * d + e * d
  BY <1>1
<1> QED BY <1>2

LEMMA FunctionIsSeq ==
  ASSUME NEW A, NEW n \in Nat, NEW f \in [1 .. n -> A]
  PROVE  f \in Seq(A) /\ Len(f) = n
OBVIOUS

LEMMA ElementsAreOf ==
  ASSUME NEW A, NEW s \in Seq(A)
  PROVE  \A i \in DOMAIN s : s[i] \in A
OBVIOUS

-------------------------------------------------------------------------------
(* The inverted index.                                                     *)

(* Sums.                                                                   *)
Summed(s, f) == f = [n \in 0 .. Len(s) |-> IF n = 0 THEN 0 ELSE f[n - 1] + s[n]]

LEMMA SummedSteps ==
  ASSUME NEW s \in Seq(Nat), NEW f, Summed(s, f)
  PROVE  f[0] = 0 /\ \A i \in 1 .. Len(s) : f[i] = f[i - 1] + s[i]
<1>1. Len(s) \in Nat
  OBVIOUS
<1>2. \A i \in 0 .. Len(s) : f[i] = IF i = 0 THEN 0 ELSE f[i - 1] + s[i]
  BY DEF Summed
<1> QED BY <1>1, <1>2

LEMMA SumRuns ==
  ASSUME NEW s \in Seq(Nat)
  PROVE  \E f \in [0 .. Len(s) -> Nat] : Summed(s, f) /\ Gin!Total(s) = f[Len(s)]
<1> DEFINE n == Len(s)
           F == [x \in Nat \X (1 .. n) |-> x[1] + s[x[2]]]
<1>1. n \in Nat /\ \A i \in 1 .. n : s[i] \in Nat
  OBVIOUS
<1>2. F \in [Nat \X (1 .. n) -> Nat]
  BY <1>1
<1>3. PICK g \in [0 .. n -> Nat] : Loops(g, n, 0, F)
  <2>1. 0 \in Nat /\ n \in Nat
    BY <1>1
  <2> HIDE DEF F, n
  <2> QED BY <2>1, <1>2, LoopRuns
<1>4. ASSUME NEW i \in 1 .. n PROVE g[i] = g[i - 1] + s[i]
  <2>1. i - 1 \in 0 .. n
    BY <1>1
  <2>2. g[i - 1] \in Nat
    BY <2>1
  <2>3. F[<<g[i - 1], i>>] = g[i - 1] + s[i]
    BY <2>2
  <2>4. g[i] = F[<<g[i - 1], i>>]
    BY <1>3 DEF Loops
  <2> QED BY <2>3, <2>4
<1>5. Summed(s, g)
  <2>1. \A i \in 0 .. n : g[i] = IF i = 0 THEN 0 ELSE g[i - 1] + s[i]
    BY <1>3, <1>4 DEF Loops
  <2> QED BY <2>1 DEF Summed
<1> DEFINE f == CHOOSE fx : Summed(s, fx)
<1>6. Summed(s, f) /\ Gin!Total(s) = f[Len(s)]
  BY <1>5 DEF Summed, Gin!Total
<1>7. f \in [0 .. n -> Nat]
  <2> HIDE DEF f
  <2> DEFINE T == {i \in 0 .. n : f[i] \in Nat}
  <2>0. f[0] = 0 /\ \A i \in 1 .. n : f[i] = f[i - 1] + s[i]
    BY <1>6, SummedSteps
  <2>1. 0 \in T
    BY <2>0, <1>1
  <2>2. ASSUME NEW i \in 0 .. n - 1, i \in T PROVE i + 1 \in T
    <3>1. i + 1 \in 1 .. n /\ (i + 1) - 1 = i /\ i + 1 \in 0 .. n /\ f[i] \in Nat
      BY <2>2, <1>1
    <3>2. f[i + 1] = f[i] + s[i + 1]
      BY <3>1, <2>0
    <3> QED BY <3>1, <3>2, <1>1
  <2> HIDE DEF T
  <2>3. \A i \in 0 .. n : i \in T
    BY <2>1, <2>2, <1>1, Upto
  <2>4. \A i \in 0 .. n : f[i] \in Nat
    BY <2>3 DEF T
  <2>5. f = [i \in 0 .. n |-> f[i]]
    BY <1>6 DEF Summed
  <2> QED BY <2>4, <2>5
<1> QED BY <1>6, <1>7

(* Sequences that agree up to a place have the same sum up to there.       *)
SamePrefix(s, t, k) == k <= Len(s) /\ k <= Len(t) /\ \A i \in 1 .. k : s[i] = t[i]

LEMMA SumsAgree ==
  ASSUME NEW s \in Seq(Nat), NEW t \in Seq(Nat), NEW f, NEW g, Summed(s, f), Summed(t, g),
         NEW k \in Nat, SamePrefix(s, t, k)
  PROVE  f[k] = g[k]
<1> DEFINE T == {i \in 0 .. k : f[i] = g[i]}
<1>0. Len(s) \in Nat /\ Len(t) \in Nat
  OBVIOUS
<1>1. f[0] = 0 /\ g[0] = 0 /\ \A i \in 1 .. k : f[i] = f[i - 1] + s[i] /\ g[i] = g[i - 1] + t[i]
  BY SummedSteps, <1>0 DEF SamePrefix
<1>2. 0 \in T
  BY <1>1
<1>3. ASSUME NEW i \in 0 .. k - 1, i \in T PROVE i + 1 \in T
  <2>1. i + 1 \in 1 .. k /\ (i + 1) - 1 = i /\ i + 1 \in 0 .. k /\ f[i] = g[i]
    BY <1>3
  <2>2. f[i + 1] = f[i] + s[i + 1] /\ g[i + 1] = g[i] + t[i + 1] /\ s[i + 1] = t[i + 1]
    BY <2>1, <1>1 DEF SamePrefix
  <2>3. f[i + 1] = g[i + 1]
    BY <2>1, <2>2, Zenon
  <2> QED BY <2>1, <2>3
<1> HIDE DEF T
<1>4. \A i \in 0 .. k : i \in T
  BY <1>2, <1>3, Upto
<1>5. k \in T
  BY <1>4
<1> QED BY <1>5 DEF T

LEMMA TotalOfNone == Gin!Total(<<>>) = 0
<1>1. <<>> \in Seq(Nat) /\ Len(<<>>) = 0
  OBVIOUS
<1>2. PICK f : Summed(<<>>, f) /\ Gin!Total(<<>>) = f[Len(<<>>)]
  BY <1>1, SumRuns
<1>3. f[0] = 0
  BY <1>1, <1>2, SummedSteps
<1> QED BY <1>1, <1>2, <1>3

(* A sum grows by what is appended.                                        *)
LEMMA TotalOfMore ==
  ASSUME NEW s \in Seq(Nat), NEW t \in Seq(Nat), Len(t) = Len(s) + 1,
         \A i \in 1 .. Len(s) : t[i] = s[i]
  PROVE  Gin!Total(t) = Gin!Total(s) + t[Len(s) + 1]
<1>0. Len(s) \in Nat /\ Len(t) \in Nat /\ Len(s) <= Len(t) /\ Len(s) + 1 \in 1 .. Len(t)
      /\ (Len(s) + 1) - 1 = Len(s)
  OBVIOUS
<1>1. PICK f : Summed(s, f) /\ Gin!Total(s) = f[Len(s)]
  BY SumRuns
<1>2. PICK g : Summed(t, g) /\ Gin!Total(t) = g[Len(t)]
  BY SumRuns
<1>3. f[Len(s)] = g[Len(s)]
  <2>1. SamePrefix(s, t, Len(s))
    BY <1>0 DEF SamePrefix
  <2>2. Summed(s, f) /\ Summed(t, g)
    BY <1>1, <1>2
  <2> QED BY <1>0, <2>1, <2>2, SumsAgree
<1>4. g[Len(s) + 1] = g[(Len(s) + 1) - 1] + t[Len(s) + 1]
  BY <1>0, <1>2, SummedSteps
<1> QED BY <1>0, <1>1, <1>2, <1>3, <1>4

(* The rows of a list are posted one after the other.                      *)
MainSet == [Gin!GinKey -> Seq(Nat)]

PostedAfter(main, keys, rows, f) ==
  f = [n \in 0 .. Len(rows) |->
         IF n = 0 THEN main ELSE Gin!Posted(f[n - 1], keys[rows[n]], rows[n])]

LEMMA PostedTypes ==
  ASSUME NEW main \in MainSet, NEW keys, NEW row \in Nat
  PROVE  Gin!Posted(main, keys, row) \in MainSet
<1>1. ASSUME NEW k \in Gin!GinKey PROVE (IF k \in keys THEN Append(main[k], row) ELSE main[k]) \in Seq(Nat)
  BY DEF MainSet
<1> QED BY <1>1 DEF MainSet, Gin!Posted

LEMMA PostingSteps ==
  ASSUME NEW main, NEW keys, NEW rows \in Seq(Nat), NEW f, PostedAfter(main, keys, rows, f)
  PROVE  f[0] = main
         /\ \A i \in 1 .. Len(rows) : f[i] = Gin!Posted(f[i - 1], keys[rows[i]], rows[i])
<1>1. Len(rows) \in Nat
  OBVIOUS
<1>2. \A i \in 0 .. Len(rows) : f[i] = IF i = 0 THEN main
                                       ELSE Gin!Posted(f[i - 1], keys[rows[i]], rows[i])
  BY DEF PostedAfter
<1> QED BY <1>1, <1>2

LEMMA PostingRuns ==
  ASSUME NEW main \in MainSet, NEW keys, NEW rows \in Seq(Nat)
  PROVE  \E f : PostedAfter(main, keys, rows, f) /\ Gin!Postings(main, keys, rows) = f[Len(rows)]
<1> DEFINE n == Len(rows)
           F == [x \in MainSet \X (1 .. n) |-> Gin!Posted(x[1], keys[rows[x[2]]], rows[x[2]])]
<1>1. n \in Nat /\ \A i \in 1 .. n : rows[i] \in Nat
  OBVIOUS
<1>2. F \in [MainSet \X (1 .. n) -> MainSet]
  <2>1. ASSUME NEW x \in MainSet \X (1 .. n)
        PROVE  Gin!Posted(x[1], keys[rows[x[2]]], rows[x[2]]) \in MainSet
    <3>1. x[1] \in MainSet /\ rows[x[2]] \in Nat
      BY <1>1
    <3> QED BY <3>1, PostedTypes
  <2> QED BY <2>1
<1>3. PICK g \in [0 .. n -> MainSet] : Loops(g, n, main, F)
  <2> HIDE DEF F, n
  <2> QED BY <1>1, <1>2, LoopRuns
<1>4. ASSUME NEW i \in 1 .. n PROVE g[i] = Gin!Posted(g[i - 1], keys[rows[i]], rows[i])
  <2>1. i - 1 \in 0 .. n
    BY <1>1
  <2>2. g[i - 1] \in MainSet
    BY <2>1
  <2>3. F[<<g[i - 1], i>>] = Gin!Posted(g[i - 1], keys[rows[i]], rows[i])
    BY <2>2
  <2>4. g[i] = F[<<g[i - 1], i>>]
    BY <1>3 DEF Loops
  <2> QED BY <2>3, <2>4
<1>5. PostedAfter(main, keys, rows, g)
  <2>1. \A i \in 0 .. n : g[i] = IF i = 0 THEN main ELSE Gin!Posted(g[i - 1], keys[rows[i]], rows[i])
    BY <1>3, <1>4 DEF Loops
  <2> QED BY <2>1 DEF PostedAfter
<1> DEFINE f == CHOOSE fx : PostedAfter(main, keys, rows, fx)
<1>6. PostedAfter(main, keys, rows, f) /\ Gin!Postings(main, keys, rows) = f[Len(rows)]
  BY <1>5 DEF PostedAfter, Gin!Postings
<1> QED BY <1>6

(* What the posting lists say while the rows of P are still to be posted:  *)
(* every other row is once under each of its keys, and a row that waited   *)
(* or may come behind a younger one is told from one that did not.         *)
Posts(main, keys, P, waited) ==
  /\ main \in MainSet
  /\ \A k \in Gin!GinKey : \A i \in DOMAIN main[k] :
       main[k][i] \in DOMAIN keys \ P /\ k \in keys[main[k][i]]
  /\ \A k \in Gin!GinKey : \A i, j \in DOMAIN main[k] : main[k][i] = main[k][j] => i = j
  /\ \A row \in DOMAIN keys \ P : \A k \in keys[row] : \E i \in DOMAIN main[k] : main[k][i] = row
  /\ \A k \in Gin!GinKey : \A i, j \in DOMAIN main[k] :
       i < j /\ main[k][i] > main[k][j] => main[k][i] \notin waited /\ main[k][j] \in waited
  /\ \A k \in Gin!GinKey : \A i \in DOMAIN main[k] : \A p \in P :
       main[k][i] > p => main[k][i] \notin waited /\ p \in waited

LEMMA PostedKeeps ==
  ASSUME NEW main, NEW keys \in Seq(RowKeys), NEW P, P \subseteq DOMAIN keys, NEW waited,
         Posts(main, keys, P, waited), NEW row \in P,
         \A p \in P : p = row \/ row < p \/ (row \notin waited /\ p \in waited)
  PROVE  Posts(Gin!Posted(main, keys[row], row), keys, P \ {row}, waited)
<1> DEFINE new == Gin!Posted(main, keys[row], row)
<1>0. /\ row \in Nat /\ DOMAIN keys = 1 .. Len(keys) /\ Len(keys) \in Nat
      /\ keys[row] \subseteq Gin!GinKey /\ main \in MainSet /\ P \subseteq Nat
  BY DEF Gin!GinKey, Posts
<1>1. new \in MainSet
  BY <1>0, PostedTypes
<1>2. ASSUME NEW k \in Gin!GinKey, k \notin keys[row] PROVE new[k] = main[k]
  BY <1>2 DEF Gin!Posted
<1>3. ASSUME NEW k \in Gin!GinKey, k \in keys[row]
      PROVE  /\ new[k] = Append(main[k], row) /\ Len(main[k]) \in Nat
             /\ DOMAIN main[k] = 1 .. Len(main[k]) /\ DOMAIN new[k] = 1 .. Len(main[k]) + 1
             /\ \A i \in DOMAIN main[k] : new[k][i] = main[k][i] /\ main[k][i] \in Nat
             /\ new[k][Len(main[k]) + 1] = row
  <2>1. new[k] = Append(main[k], row)
    BY <1>3 DEF Gin!Posted
  <2>2. main[k] \in Seq(Nat)
    BY <1>0 DEF MainSet
  <2> HIDE DEF new
  <2> QED BY <2>1, <2>2, <1>0
<1> HIDE DEF new
<1>4. ASSUME NEW k \in Gin!GinKey, NEW i \in DOMAIN new[k]
      PROVE  \/ i \in DOMAIN main[k] /\ new[k][i] = main[k][i]
             \/ k \in keys[row] /\ i = Len(main[k]) + 1 /\ new[k][i] = row
  BY <1>2, <1>3
<1>5. ASSUME NEW k \in Gin!GinKey, NEW i \in DOMAIN new[k]
      PROVE  new[k][i] \in DOMAIN keys \ (P \ {row}) /\ k \in keys[new[k][i]]
  BY <1>4, <1>0 DEF Posts
<1>6. ASSUME NEW k \in Gin!GinKey, NEW i \in DOMAIN new[k], NEW j \in DOMAIN new[k], new[k][i] = new[k][j]
      PROVE  i = j
  BY <1>4, <1>6 DEF Posts
<1>7. ASSUME NEW r \in DOMAIN keys \ (P \ {row}), NEW k \in keys[r]
      PROVE  \E i \in DOMAIN new[k] : new[k][i] = r
  <2>1. k \in Gin!GinKey
    BY <1>0 DEF Gin!GinKey
  <2>2. CASE r = row
    <3>1. Len(main[k]) + 1 \in DOMAIN new[k] /\ new[k][Len(main[k]) + 1] = row
      BY <2>1, <2>2, <1>3
    <3> QED BY <3>1, <2>2
  <2>3. CASE r # row
    <3>1. PICK i \in DOMAIN main[k] : main[k][i] = r
      BY <2>3 DEF Posts
    <3>2. i \in DOMAIN new[k] /\ new[k][i] = main[k][i]
      BY <2>1, <1>2, <1>3
    <3> QED BY <3>1, <3>2
  <2> QED BY <2>2, <2>3
<1>8. ASSUME NEW k \in Gin!GinKey, NEW i \in DOMAIN new[k], NEW p \in P \ {row}, new[k][i] > p
      PROVE  new[k][i] \notin waited /\ p \in waited
  <2>1. CASE i \in DOMAIN main[k] /\ new[k][i] = main[k][i]
    BY <2>1, <1>8 DEF Posts
  <2>2. CASE new[k][i] = row
    BY <2>2, <1>8, <1>0
  <2> QED BY <2>1, <2>2, <1>4
<1>9. ASSUME NEW k \in Gin!GinKey, NEW i \in DOMAIN new[k], NEW j \in DOMAIN new[k], i < j, new[k][i] > new[k][j]
      PROVE  new[k][i] \notin waited /\ new[k][j] \in waited
  <2>1. CASE k \notin keys[row]
    BY <2>1, <1>2, <1>9 DEF Posts
  <2>2. CASE k \in keys[row] /\ j \in DOMAIN main[k]
    <3>1. i \in DOMAIN main[k] /\ new[k][i] = main[k][i] /\ new[k][j] = main[k][j]
      BY <2>2, <1>3, <1>9
    <3> QED BY <3>1, <1>9, <2>2 DEF Posts
  <2>3. CASE k \in keys[row] /\ j \notin DOMAIN main[k]
    <3>1. j = Len(main[k]) + 1 /\ i \in DOMAIN main[k] /\ new[k][i] = main[k][i] /\ new[k][j] = row
      BY <2>3, <1>3, <1>9
    <3>2. main[k][i] > row
      BY <3>1, <1>9
    <3>3. main[k][i] \notin waited /\ row \in waited
      BY <3>1, <3>2 DEF Posts
    <3> QED BY <3>1, <3>3
  <2> QED BY <2>1, <2>2, <2>3
<1> QED BY <1>1, <1>5, <1>6, <1>7, <1>8, <1>9 DEF Posts, new

Listed(rows)    == {rows[i] : i \in DOMAIN rows}
Ascending(rows) == \A i, j \in DOMAIN rows : i < j => rows[i] < rows[j]

LEMMA PostingsKeep ==
  ASSUME NEW main, NEW keys \in Seq(RowKeys), NEW rows \in Seq(Nat), NEW waited,
         Listed(rows) \subseteq DOMAIN keys, Ascending(rows),
         Posts(main, keys, Listed(rows), waited)
  PROVE  Posts(Gin!Postings(main, keys, rows), keys, {}, waited)
<1> DEFINE m       == Len(rows)
           Rest(n) == {rows[i] : i \in n + 1 .. m}
<1>0. m \in Nat /\ DOMAIN rows = 1 .. m /\ \A i \in 1 .. m : rows[i] \in Nat
  OBVIOUS
<1>1. PICK f : PostedAfter(main, keys, rows, f) /\ Gin!Postings(main, keys, rows) = f[m]
  BY PostingRuns DEF Posts
<1>2. f[0] = main /\ \A i \in 1 .. m : f[i] = Gin!Posted(f[i - 1], keys[rows[i]], rows[i])
  BY <1>1, PostingSteps
<1> HIDE DEF m
<1>7. /\ \A i \in 1 .. m : rows[i] \in DOMAIN keys
      /\ \A i, j \in 1 .. m : i < j => rows[i] < rows[j]
  BY <1>0 DEF Listed, Ascending
<1> DEFINE T == {n \in 0 .. m : Posts(f[n], keys, Rest(n), waited)}
<1>3. 0 \in T
  <2>1. Rest(0) = Listed(rows)
    BY <1>0 DEF Listed
  <2> HIDE DEF Rest
  <2> QED BY <2>1, <1>2, <1>0
<1>4. ASSUME NEW n \in 0 .. m - 1, n \in T PROVE n + 1 \in T
  <2>1. n + 1 \in 1 .. m /\ (n + 1) - 1 = n /\ n + 1 \in 0 .. m /\ n \in Nat
    BY <1>0
  <2> DEFINE row == rows[n + 1]
  <2>2. Rest(n) \subseteq DOMAIN keys /\ row \in Rest(n)
    <3>1. \A i \in n + 1 .. m : i \in 1 .. m
      BY <2>1, <1>0
    <3>2. n + 1 \in n + 1 .. m
      BY <2>1, <1>0
    <3> QED BY <3>1, <3>2, <1>7
  <2>3. ASSUME NEW p \in Rest(n) PROVE p = row \/ row < p
    <3>1. PICK i \in n + 1 .. m : p = rows[i]
      OBVIOUS
    <3>2. i = n + 1 \/ (n + 1 < i /\ i \in 1 .. m)
      BY <2>1, <1>0
    <3> QED BY <3>1, <3>2, <1>7, <2>1
  <2>4. Rest(n) \ {row} = Rest(n + 1)
    <3>1. ASSUME NEW p \in Rest(n), p # row PROVE p \in Rest(n + 1)
      <4>1. PICK i \in n + 1 .. m : p = rows[i]
        OBVIOUS
      <4>2. i \in (n + 1) + 1 .. m
        BY <4>1, <3>1, <2>1
      <4> QED BY <4>1, <4>2
    <3>2. ASSUME NEW p \in Rest(n + 1) PROVE p \in Rest(n) /\ p # row
      <4>1. PICK i \in (n + 1) + 1 .. m : p = rows[i]
        OBVIOUS
      <4>2. i \in n + 1 .. m /\ n + 1 < i /\ i \in 1 .. m
        BY <2>1, <1>0
      <4>3. rows[n + 1] < rows[i] /\ rows[i] \in Nat /\ rows[n + 1] \in Nat
        BY <4>2, <2>1, <1>0, <1>7
      <4> QED BY <4>1, <4>2, <4>3
    <3> QED BY <3>1, <3>2
  <2>5. f[n + 1] = Gin!Posted(f[n], keys[row], row)
    BY <2>1, <1>2
  <2>6. Posts(f[n], keys, Rest(n), waited)
    BY <1>4
  <2> HIDE DEF Rest, row
  <2>7. Posts(Gin!Posted(f[n], keys[row], row), keys, Rest(n) \ {row}, waited)
    BY <2>2, <2>3, <2>6, PostedKeeps
  <2> QED BY <2>1, <2>4, <2>5, <2>7
<1> HIDE DEF T
<1>5. m \in T
  <2>1. \A n \in 0 .. m : n \in T
    BY <1>0, <1>3, <1>4, Upto
  <2> QED BY <2>1, <1>0
<1>6. Rest(m) = {}
  BY <1>0
<1> HIDE DEF Rest
<1> QED BY <1>1, <1>5, <1>6 DEF T

(* A row that is there and not posted. *)
LEMMA PostsGrow ==
  ASSUME NEW main, NEW keys \in Seq(RowKeys), NEW P, P \subseteq DOMAIN keys,
         NEW waited, waited \subseteq DOMAIN keys,
         Posts(main, keys, P, waited), NEW ks \in RowKeys,
         NEW waits, waits = waited \/ waits = waited \union {Len(keys) + 1}
  PROVE  Posts(main, Append(keys, ks), P \union {Len(keys) + 1}, waits)
<1> DEFINE row == Len(keys) + 1
           new == Append(keys, ks)
<1>0. /\ Len(keys) \in Nat /\ DOMAIN keys = 1 .. Len(keys) /\ DOMAIN new = 1 .. row /\ new[row] = ks
      /\ \A r \in DOMAIN keys : new[r] = keys[r] /\ r \in Nat /\ r < row /\ r \in DOMAIN new /\ r # row
  OBVIOUS
<1>1. DOMAIN new \ (P \union {row}) = DOMAIN keys \ P
  BY <1>0
<1> HIDE DEF row, new
<1>2. \A k \in Gin!GinKey : \A i \in DOMAIN main[k] : main[k][i] \in DOMAIN keys /\ main[k][i] < row
                                                  /\ main[k][i] # row
  BY <1>0 DEF Posts
<1>3. ASSUME NEW k \in Gin!GinKey, NEW i \in DOMAIN main[k]
      PROVE  main[k][i] \in DOMAIN new \ (P \union {row}) /\ k \in new[main[k][i]]
  BY <1>0, <1>1, <1>2 DEF Posts
<1>4. ASSUME NEW r \in DOMAIN new \ (P \union {row}), NEW k \in new[r]
      PROVE  \E i \in DOMAIN main[k] : main[k][i] = r
  BY <1>0, <1>1 DEF Posts
<1>5. ASSUME NEW r \in DOMAIN keys PROVE r \in waits <=> r \in waited
  BY <1>0 DEF row
<1>6. ASSUME NEW k \in Gin!GinKey, NEW i \in DOMAIN main[k], NEW j \in DOMAIN main[k],
             i < j, main[k][i] > main[k][j]
      PROVE  main[k][i] \notin waits /\ main[k][j] \in waits
  BY <1>2, <1>5, <1>6 DEF Posts
<1>7. ASSUME NEW k \in Gin!GinKey, NEW i \in DOMAIN main[k], NEW p \in P \union {row}, main[k][i] > p
      PROVE  main[k][i] \notin waits /\ p \in waits
  <2>1. CASE p = row
    <3>1. main[k][i] < row /\ main[k][i] > row /\ main[k][i] \in Nat /\ row \in Nat
      BY <2>1, <1>2, <1>7, <1>0 DEF row
    <3> QED BY <3>1
  <2>2. CASE p \in P
    BY <2>2, <1>2, <1>5, <1>7 DEF Posts
  <2> QED BY <2>1, <2>2
<1>8. main \in MainSet
      /\ \A k \in Gin!GinKey : \A i, j \in DOMAIN main[k] : main[k][i] = main[k][j] => i = j
  BY DEF Posts
<1>9. Posts(main, new, P \union {row}, waits)
  BY <1>3, <1>4, <1>6, <1>7, <1>8 DEF Posts
<1> QED BY <1>9 DEF row, new

LEMMA LeastOfTwo ==
  ASSUME NEW a \in Nat, NEW b \in Nat
  PROVE  Gin!Min({a, b}) = IF a <= b THEN a ELSE b
<1> DEFINE m == IF a <= b THEN a ELSE b
<1>1. m \in {a, b} /\ \A y \in {a, b} : m <= y
  OBVIOUS
<1>2. Gin!Min({a, b}) \in {a, b} /\ \A y \in {a, b} : Gin!Min({a, b}) <= y
  BY <1>1 DEF Gin!Min
<1> QED BY <1>1, <1>2

(* The pages a row's entries fill anew: full ones, and a last one.         *)
FillPages(n, p, q) ==
  /\ q \in Nat \ {0} /\ n <= q * p
  /\ \A i \in 1 .. q : /\ (i - 1) * p \in Nat /\ (i - 1) * p < n
                       /\ i # q => (i - 1) * p + p <= n

LEMMA FreshPages ==
  ASSUME NEW n \in Nat \ {0}, NEW p \in Nat \ {0}, NEW q, q = (n + p - 1) \div p
  PROVE  FillPages(n, p, q)
<1>1. q \in Nat /\ q * p <= n + p - 1 /\ n + p - 1 < q * p + p
  <2>1. n + p - 1 \in Nat
    OBVIOUS
  <2> QED BY <2>1, Quotient
<1>2. q * p \in Nat
  BY <1>1
<1>3. n <= q * p /\ q # 0
  BY <1>1, <1>2
<1>4. ASSUME NEW i \in 1 .. q
      PROVE  /\ (i - 1) * p \in Nat /\ (i - 1) * p < n
             /\ i # q => (i - 1) * p + p <= n
  <2>1. (q - 1) * p = q * p - p /\ q - 1 \in Nat /\ i - 1 \in Nat /\ i - 1 <= q - 1
    BY <1>1
  <2>2. (i - 1) * p \in Nat /\ (i - 1) * p <= (q - 1) * p
    BY <2>1, TimesMonotone
  <2>3. (q - 1) * p < n
    BY <2>1, <1>1, <1>2
  <2>4. ASSUME i # q PROVE (i - 1) * p + p <= n
    <3>1. i \in Nat /\ i <= q - 1 /\ i * p = (i - 1) * p + p
      BY <1>1, <2>4
    <3>2. i * p <= (q - 1) * p
      BY <3>1, <2>1, TimesMonotone
    <3>3. i * p \in Nat /\ (q - 1) * p \in Nat
      BY <3>1, <2>1
    <3> QED BY <3>1, <3>2, <3>3, <2>3
  <2>5. (q - 1) * p \in Nat
    BY <2>1
  <2> QED BY <2>2, <2>3, <2>4, <2>5
<1> QED BY <1>1, <1>3, <1>4 DEF FillPages

FreshFilled(n, p, q, more) ==
  q = (n + p - 1) \div p /\ more = [i \in 1 .. q |-> Gin!Min({p, n - (i - 1) * p})]

LEMMA AppendsNew ==
  ASSUME NEW s \in Seq(Nat), NEW n \in Nat \ {0}, NEW p \in Nat \ {0},
         NEW q, NEW more, FreshFilled(n, p, q, more)
  PROVE  /\ more \in Seq(1 .. p)
         /\ Gin!Total(s \o more) = Gin!Total(s) + n
<1> DEFINE m == Len(s)
           t == s \o more
<1>0. FillPages(n, p, q)
  BY FreshPages DEF FreshFilled
<1>1. q \in Nat \ {0} /\ n <= q * p
  BY <1>0 DEF FillPages
<1>2. ASSUME NEW i \in 1 .. q
      PROVE  more[i] = (IF i = q THEN n - (i - 1) * p ELSE p) /\ more[i] \in 1 .. p
  <2> DEFINE rest == n - (i - 1) * p
  <2>0. (i - 1) * p \in Nat /\ (i - 1) * p < n /\ (i # q => (i - 1) * p + p <= n)
    BY <1>0 DEF FillPages
  <2>1. rest \in Nat /\ rest >= 1 /\ (i # q => p <= rest)
    BY <2>0
  <2>2. i = q => rest <= p
    <3>1. (q - 1) * p = q * p - p /\ q * p \in Nat
      BY <1>1
    <3> QED BY <3>1, <1>1
  <2>3. more[i] = Gin!Min({p, rest})
    BY DEF FreshFilled
  <2> HIDE DEF rest
  <2>4. more[i] = IF p <= rest THEN p ELSE rest
    BY <2>1, <2>3, LeastOfTwo
  <2>5. more[i] = (IF i = q THEN rest ELSE p) /\ more[i] \in 1 .. p
    BY <2>1, <2>2, <2>4
  <2> QED BY <2>5 DEF rest
<1>3. more \in Seq(1 .. p) /\ Len(more) = q /\ more \in Seq(Nat)
  <2>1. more = [i \in 1 .. q |-> more[i]]
    BY DEF FreshFilled
  <2>2. \A i \in 1 .. q : more[i] \in 1 .. p
    BY <1>2
  <2>3. more \in [1 .. q -> 1 .. p]
    BY <2>1, <2>2
  <2>4. more \in Seq(1 .. p) /\ Len(more) = q
    BY <2>3, <1>1, FunctionIsSeq
  <2>5. 1 .. p \subseteq Nat
    OBVIOUS
  <2> QED BY <2>4, <2>5, SeqMonotonic
<1>4. /\ m \in Nat /\ t \in Seq(Nat) /\ Len(t) = m + q
      /\ \A i \in 1 .. m : s[i] = t[i]
      /\ \A i \in 1 .. q : t[m + i] = more[i]
  <2>1. /\ t \in Seq(Nat) /\ Len(t) = Len(s) + Len(more)
        /\ \A i \in 1 .. Len(s) + Len(more) : t[i] = IF i <= Len(s) THEN s[i] ELSE more[i - Len(s)]
    BY <1>3, ConcatProperties
  <2>2. m \in Nat /\ Len(s) = m
    OBVIOUS
  <2>3. q \in Nat /\ Len(more) = q
    BY <1>1, <1>3
  <2> HIDE DEF t, m
  <2>4. \A i \in 1 .. m + q : t[i] = IF i <= m THEN s[i] ELSE more[i - m]
    BY <2>1, <2>2, <2>3
  <2>5. \A i \in 1 .. m : s[i] = t[i]
    BY <2>2, <2>3, <2>4
  <2>6. ASSUME NEW i \in 1 .. q PROVE t[m + i] = more[i]
    <3>1. m + i \in 1 .. m + q /\ ~(m + i <= m) /\ (m + i) - m = i
      BY <2>2, <2>3
    <3> QED BY <3>1, <2>4
  <2> QED BY <2>1, <2>2, <2>3, <2>5, <2>6
<1>5. PICK f \in [0 .. m -> Nat] : Summed(s, f) /\ Gin!Total(s) = f[m]
  BY SumRuns
<1>6. PICK g : Summed(t, g) /\ Gin!Total(t) = g[Len(t)]
  BY <1>4, SumRuns
<1>7. g[m] = f[m]
  <2>1. m <= Len(s) /\ m <= Len(t)
    BY <1>4, <1>1
  <2>2. SamePrefix(s, t, m)
    BY <2>1, <1>4 DEF SamePrefix
  <2>3. t \in Seq(Nat) /\ Summed(s, f) /\ Summed(t, g) /\ m \in Nat
    BY <1>4, <1>5, <1>6
  <2> HIDE DEF t, m
  <2> QED BY <2>2, <2>3, SumsAgree
<1>8. \A i \in 1 .. Len(t) : g[i] = g[i - 1] + t[i]
  <2>1. t \in Seq(Nat) /\ Summed(t, g)
    BY <1>4, <1>6
  <2> HIDE DEF t
  <2> QED BY <2>1, SummedSteps
<1> HIDE DEF t, m
<1> DEFINE T == {i \in 0 .. q : g[m + i] = f[m] + (IF i = q THEN n ELSE i * p)}
<1>9. f[m] \in Nat
  BY <1>5, <1>4
<1>10. 0 \in T
  BY <1>1, <1>4, <1>7, <1>9
<1>11. ASSUME NEW i \in 0 .. q - 1, i \in T PROVE i + 1 \in T
  <2>1. i + 1 \in 1 .. q /\ (i + 1) - 1 = i /\ i # q /\ m + (i + 1) \in 1 .. Len(t) /\ i \in 0 .. q
        /\ (m + (i + 1)) - 1 = m + i /\ i \in Nat
    BY <1>1, <1>4
  <2>2. g[m + i] = f[m] + i * p
    BY <1>11, <2>1
  <2>3. g[m + (i + 1)] = g[m + i] + more[i + 1]
    BY <2>1, <1>8, <1>4
  <2>4. more[i + 1] = IF i + 1 = q THEN n - i * p ELSE p
    BY <2>1, <1>2
  <2>5. i * p \in Nat /\ (i + 1) * p = i * p + p
    BY <2>1
  <2>6. g[m + (i + 1)] = f[m] + (IF i + 1 = q THEN n ELSE (i + 1) * p)
    BY <2>2, <2>3, <2>4, <2>5, <1>9
  <2>7. i + 1 \in 0 .. q
    BY <2>1
  <2> QED BY <2>6, <2>7
<1>12. q \in T
  <2> HIDE DEF T
  <2>1. \A i \in 0 .. q : i \in T
    BY <1>1, <1>10, <1>11, Upto
  <2> QED BY <2>1, <1>1
<1>13. g[Len(t)] = f[m] + n
  BY <1>12, <1>4
<1> QED BY <1>3, <1>5, <1>6, <1>13 DEF t

LEMMA AppendPendingAccounts ==
  ASSUME NEW pages \in Seq(1 .. PENDING_PAGE_ENTRIES), NEW n \in Nat \ {0}, Gin!GinAssumption
  PROVE  /\ Gin!appendPending(pages, n) \in Seq(1 .. PENDING_PAGE_ENTRIES)
         /\ Gin!Total(Gin!appendPending(pages, n)) = Gin!Total(pages) + n
<1> DEFINE p == PENDING_PAGE_ENTRIES
           m == Len(pages)
<1>0. p \in Nat \ {0} /\ m \in Nat
  BY DEF Gin!GinAssumption
<1>1. pages \in Seq(Nat)
  <2>1. 1 .. PENDING_PAGE_ENTRIES \subseteq Nat
    OBVIOUS
  <2> QED BY <2>1, SeqMonotonic
<1>2. CASE pages # <<>> /\ Gin!Last(pages) + n <= p
  <2> DEFINE t == [pages EXCEPT ![m] = @ + n]
  <2>1. m \in 1 .. m /\ m - 1 \in Nat /\ pages[m] \in 1 .. p /\ pages[m] + n <= p
    BY <1>0, <1>2 DEF Gin!Last
  <2>2. t \in Seq(1 .. p) /\ Len(t) = m /\ t[m] = pages[m] + n /\ \A i \in 1 .. m - 1 : pages[i] = t[i]
    <3>1. pages[m] + n \in 1 .. p
      BY <2>1, <1>0
    <3> QED BY <2>1, <3>1
  <2>3. t \in Seq(Nat)
    <3>1. 1 .. p \subseteq Nat
      OBVIOUS
    <3> HIDE DEF t, p
    <3> QED BY <2>2, <3>1, SeqMonotonic
  <2> HIDE DEF t
  <2>4. PICK f \in [0 .. m -> Nat] : Summed(pages, f) /\ Gin!Total(pages) = f[m]
    BY <1>1, SumRuns
  <2>5. PICK g : Summed(t, g) /\ Gin!Total(t) = g[m]
    BY <2>2, <2>3, SumRuns
  <2>6. f[m - 1] = g[m - 1]
    <3>1. m - 1 <= Len(pages) /\ m - 1 <= Len(t)
      BY <1>0, <2>2
    <3> DEFINE k == m - 1
    <3>2. k \in Nat /\ SamePrefix(pages, t, k)
      BY <3>1, <2>1, <2>2 DEF SamePrefix
    <3>3. f[k] = g[k]
      <4> HIDE DEF k
      <4> QED BY <3>2, <2>3, <2>4, <2>5, <1>1, SumsAgree
    <3> QED BY <3>3
  <2>7. f[m] = f[m - 1] + pages[m] /\ g[m] = g[m - 1] + t[m] /\ f[m - 1] \in Nat
    <3>1. \A i \in 1 .. Len(pages) : f[i] = f[i - 1] + pages[i]
      BY <2>4, <1>1, SummedSteps
    <3>2. \A i \in 1 .. Len(t) : g[i] = g[i - 1] + t[i]
      BY <2>3, <2>5, SummedSteps
    <3>3. m \in 1 .. Len(pages) /\ m \in 1 .. Len(t) /\ m - 1 \in 0 .. m
      BY <2>1, <2>2, <1>0
    <3> QED BY <3>1, <3>2, <3>3, <2>4
  <2>8. Gin!Total(t) = Gin!Total(pages) + n
    BY <2>1, <2>2, <2>4, <2>5, <2>6, <2>7
  <2>9. Gin!appendPending(pages, n) = t
    BY <1>2 DEF Gin!appendPending, t
  <2> QED BY <2>2, <2>8, <2>9
<1>3. CASE ~(pages # <<>> /\ Gin!Last(pages) + n <= p)
  <2> DEFINE q    == (n + p - 1) \div p
             more == [i \in 1 .. q |-> Gin!Min({p, n - (i - 1) * p})]
  <2>1. Gin!appendPending(pages, n) = pages \o more
    BY <1>3 DEF Gin!appendPending
  <2>2. more \in Seq(1 .. p) /\ Gin!Total(pages \o more) = Gin!Total(pages) + n
    <3>1. p \in Nat \ {0} /\ FreshFilled(n, p, q, more)
      BY <1>0 DEF FreshFilled
    <3> HIDE DEF p, q, more
    <3> QED BY <3>1, <1>1, AppendsNew
  <2> HIDE DEF more
  <2>3. pages \o more \in Seq(1 .. p)
    BY <2>2
  <2> QED BY <2>1, <2>2, <2>3
<1> QED BY <1>2, <1>3

GinState ==
  [keys : Seq(RowKeys), main : MainSet, pending : Seq(Nat),
   pages : Seq(1 .. PENDING_PAGE_ENTRIES), waited : SUBSET Nat]

Sizes(g) == [i \in DOMAIN g.pending |-> Gin!Cardinality(g.keys[g.pending[i]])]

GinGood(g) ==
  /\ g \in GinState
  /\ Len(g.keys) <= MAX_ROWS
  /\ g.waited \subseteq DOMAIN g.keys
  /\ Listed(g.pending) \subseteq g.waited
  /\ Ascending(g.pending)
  /\ Posts(g.main, g.keys, Listed(g.pending), g.waited)
  /\ Gin!Total(g.pages) = Gin!Total(Sizes(g))

WithinLimits(g) == \A limit \in PageLimits : (\A l \in PageLimits : l <= limit) => Len(g.pages) <= limit

GinInv == GinGood(gin) /\ WithinLimits(gin)

(* What the lab counts is counted as everywhere. *)
LEMMA GinCounts ==
  \A S : Gin!Cardinality(S) = Cardinality(S) /\ Gin!IsFiniteSet(S) = IsFiniteSet(S)
BY DEF Gin!Cardinality, Cardinality, Gin!IsFiniteSet, IsFiniteSet

LEMMA HowManyKeys ==
  ASSUME Gin!GinAssumption, NEW keys \in RowKeys
  PROVE  Gin!Cardinality(keys) \in Nat \ {0}
<1>1. IsFiniteSet(keys) /\ keys # {} /\ Gin!Cardinality(keys) = Cardinality(keys)
  BY GinCounts DEF Gin!GinAssumption
<1> QED BY <1>1, FS_CardinalityType, FS_EmptySet

LEMMA EmptyFits ==
  /\ <<>> \in Seq(Nat) /\ <<>> \in Seq(1 .. PENDING_PAGE_ENTRIES) /\ Len(<<>>) = 0
  /\ Listed(<<>>) = {} /\ Ascending(<<>>) /\ DOMAIN <<>> = {}
BY DEF Listed, Ascending

(* What the index has when all is merged that waited.                      *)
LEMMA MergedGood ==
  ASSUME NEW keys \in Seq(RowKeys), Len(keys) <= MAX_ROWS, NEW main, NEW waited,
         waited \subseteq DOMAIN keys, Posts(main, keys, {}, waited),
         NEW g \in GinState, g.keys = keys, g.main = main, g.waited = waited,
         g.pending = <<>>, g.pages = <<>>
  PROVE  GinGood(g)
<1>1. DOMAIN g.pending = {}
  BY EmptyFits
<1>2. Sizes(g) = <<>>
  BY <1>1 DEF Sizes
<1> QED BY <1>2, EmptyFits DEF GinGood

LEMMA BuildGood ==
  ASSUME Gin!GinAssumption, NEW keys \in [1 .. INITIAL_ROWS -> RowKeys]
  PROVE  GinGood(Gin!buildIndex(keys)) /\ Gin!buildIndex(keys).pages = <<>>
<1> DEFINE n    == INITIAL_ROWS
           rows == [i \in 1 .. Len(keys) |-> i]
           none == [k \in Gin!GinKey |-> <<>>]
           main == Gin!Postings(none, keys, rows)
           g    == [keys |-> keys, pending |-> <<>>, pages |-> <<>>, waited |-> {}, main |-> main]
<1>1. keys \in Seq(RowKeys) /\ Len(keys) = n /\ DOMAIN keys = 1 .. n /\ n \in Nat /\ n <= MAX_ROWS
  BY FunctionIsSeq DEF Gin!GinAssumption
<1>2. rows \in Seq(Nat) /\ DOMAIN rows = 1 .. n /\ \A i \in 1 .. n : rows[i] = i
  <2>1. rows \in [1 .. n -> Nat]
    BY <1>1
  <2> QED BY <2>1, <1>1, FunctionIsSeq
<1> HIDE DEF rows
<1>3. Listed(rows) = 1 .. n /\ Ascending(rows)
  BY <1>2 DEF Listed, Ascending
<1>4. Posts(none, keys, 1 .. n, {})
  <2>1. none \in MainSet
    BY EmptyFits DEF MainSet
  <2>2. \A k \in Gin!GinKey : DOMAIN none[k] = {}
    BY EmptyFits
  <2>3. DOMAIN keys \ (1 .. n) = {}
    BY <1>1
  <2> HIDE DEF none
  <2> QED BY <2>1, <2>2, <2>3 DEF Posts
<1> HIDE DEF none
<1>5. Posts(main, keys, {}, {})
  BY <1>1, <1>2, <1>3, <1>4, PostingsKeep
<1>6. g = Gin!buildIndex(keys)
  BY DEF Gin!buildIndex, rows, none
<1> HIDE DEF main
<1>7. g \in GinState
  BY <1>1, <1>5, EmptyFits DEF GinState, Posts
<1>8. g.keys = keys /\ g.main = main /\ g.waited = {} /\ g.pending = <<>> /\ g.pages = <<>>
  OBVIOUS
<1> HIDE DEF g
<1>9. GinGood(g)
  BY <1>1, <1>5, <1>7, <1>8, MergedGood
<1> QED BY <1>6, <1>8, <1>9

LEMMA MergeGood ==
  ASSUME NEW g, GinGood(g)
  PROVE  GinGood(Gin!mergePending(g)) /\ Gin!mergePending(g).pages = <<>>
<1> DEFINE main == Gin!Postings(g.main, g.keys, g.pending)
           h    == [g EXCEPT !.main = main, !.pending = <<>>, !.pages = <<>>]
<1>1. g \in GinState /\ g.keys \in Seq(RowKeys) /\ g.pending \in Seq(Nat)
  BY DEF GinGood, GinState
<1>2. Posts(main, g.keys, {}, g.waited)
  BY <1>1, PostingsKeep DEF GinGood
<1>3. h = Gin!mergePending(g)
  BY DEF Gin!mergePending
<1> HIDE DEF main
<1>4. h \in GinState
  BY <1>1, <1>2, EmptyFits DEF GinState, Posts
<1>5. h.keys = g.keys /\ h.main = main /\ h.waited = g.waited /\ h.pending = <<>> /\ h.pages = <<>>
  BY <1>1 DEF GinState
<1> HIDE DEF h
<1>6. GinGood(h)
  BY <1>1, <1>2, <1>4, <1>5, MergedGood DEF GinGood
<1> QED BY <1>3, <1>5, <1>6

(* One row more leaves the sizes of those that wait as they were. *)
LEMMA SizesStay ==
  ASSUME NEW g, GinGood(g), NEW keys \in RowKeys, NEW i \in DOMAIN g.pending
  PROVE  Append(g.keys, keys)[g.pending[i]] = g.keys[g.pending[i]]
<1>1. g.keys \in Seq(RowKeys) /\ g.pending[i] \in DOMAIN g.keys
  BY DEF GinGood, GinState, Listed
<1> QED BY <1>1

LEMMA DirectGood ==
  ASSUME Gin!GinAssumption, NEW g, GinGood(g), NEW keys \in RowKeys, Len(g.keys) + 1 <= MAX_ROWS
  PROVE  LET row == Len(g.keys) + 1
         IN  GinGood([g EXCEPT !.keys = Append(@, keys), !.main = Gin!Posted(@, keys, row)])
<1> DEFINE row  == Len(g.keys) + 1
           all  == Append(g.keys, keys)
           main == Gin!Posted(g.main, keys, row)
           h    == [g EXCEPT !.keys = all, !.main = main]
           P    == Listed(g.pending)
<1>1. /\ g \in GinState /\ g.keys \in Seq(RowKeys) /\ g.waited \subseteq DOMAIN g.keys
      /\ P \subseteq g.waited /\ Posts(g.main, g.keys, P, g.waited) /\ Len(g.keys) \in Nat
  BY DEF GinGood, GinState
<1>2. all \in Seq(RowKeys) /\ all[row] = keys /\ Len(all) = row /\ DOMAIN all = 1 .. row
      /\ row \notin DOMAIN g.keys /\ DOMAIN g.keys \subseteq DOMAIN all /\ row \in DOMAIN all
  BY <1>1
<1>3. Posts(g.main, all, P \union {row}, g.waited)
  <2>1. P \subseteq DOMAIN g.keys
    BY <1>1
  <2> HIDE DEF P
  <2> QED BY <1>1, <2>1, PostsGrow
<1> HIDE DEF all, P
<1>4. Posts(Gin!Posted(g.main, all[row], row), all, (P \union {row}) \ {row}, g.waited)
  <2>1. P \union {row} \subseteq DOMAIN all /\ row \in P \union {row}
    BY <1>1, <1>2
  <2>2. \A p \in P \union {row} : p = row \/ row < p \/ (row \notin g.waited /\ p \in g.waited)
    BY <1>1, <1>2
  <2> HIDE DEF row
  <2> QED BY <1>2, <1>3, <2>1, <2>2, PostedKeeps
<1>5. (P \union {row}) \ {row} = P
  BY <1>1, <1>2
<1>6. Posts(main, all, P, g.waited)
  BY <1>2, <1>4, <1>5
<1> HIDE DEF main, row
<1>7. h \in GinState
  BY <1>1, <1>2, <1>6 DEF GinState, Posts
<1>8. h.keys = all /\ h.main = main /\ h.waited = g.waited /\ h.pending = g.pending /\ h.pages = g.pages
  BY <1>1 DEF GinState
<1> HIDE DEF h
<1>9. Sizes(h) = Sizes(g)
  <2>1. \A i \in DOMAIN g.pending : all[g.pending[i]] = g.keys[g.pending[i]]
    BY SizesStay DEF all
  <2> QED BY <2>1, <1>8 DEF Sizes
<1>10. GinGood(h)
  BY <1>1, <1>2, <1>6, <1>7, <1>8, <1>9 DEF GinGood, P, row
<1> QED BY <1>10 DEF h, main, all, row

(* The row that waits is the youngest of those that do.                    *)
LEMMA ListGrows ==
  ASSUME NEW rows \in Seq(Nat), NEW row \in Nat, Ascending(rows),
         \A p \in Listed(rows) : p < row
  PROVE  /\ Append(rows, row) \in Seq(Nat)
         /\ Listed(Append(rows, row)) = Listed(rows) \union {row}
         /\ Ascending(Append(rows, row))
<1> DEFINE new == Append(rows, row)
           n   == Len(rows)
<1>1. /\ n \in Nat /\ DOMAIN rows = 1 .. n /\ DOMAIN new = 1 .. n + 1 /\ new[n + 1] = row
      /\ \A i \in 1 .. n : new[i] = rows[i] /\ rows[i] \in Nat
      /\ new \in Seq(Nat)
  OBVIOUS
<1> HIDE DEF new, n
<1>2. \A i \in 1 .. n + 1 : i \in 1 .. n \/ i = n + 1
  BY <1>1
<1>3. Listed(new) = Listed(rows) \union {row}
  BY <1>1, <1>2 DEF Listed
<1>4. ASSUME NEW i \in DOMAIN new, NEW j \in DOMAIN new, i < j PROVE new[i] < new[j]
  <2>1. i \in 1 .. n
    BY <1>1, <1>4
  <2>2. CASE j \in 1 .. n
    BY <2>1, <2>2, <1>1, <1>4 DEF Ascending
  <2>3. CASE j = n + 1
    <3>1. rows[i] < row
      BY <2>1, <1>1 DEF Listed
    <3> QED BY <3>1, <2>1, <2>3, <1>1
  <2> QED BY <2>2, <2>3, <1>1, <1>2
<1> QED BY <1>1, <1>3, <1>4 DEF Ascending, new

LEMMA PendingGood ==
  ASSUME Gin!GinAssumption, NEW g, GinGood(g), NEW keys \in RowKeys, Len(g.keys) + 1 <= MAX_ROWS
  PROVE  LET row == Len(g.keys) + 1
         IN  GinGood([g EXCEPT !.keys = Append(@, keys), !.pending = Append(@, row),
                               !.pages = Gin!appendPending(@, Gin!Cardinality(keys)),
                               !.waited = @ \union {row}])
<1> DEFINE row   == Len(g.keys) + 1
           all   == Append(g.keys, keys)
           wait  == Append(g.pending, row)
           pages == Gin!appendPending(g.pages, Gin!Cardinality(keys))
           W     == g.waited \union {row}
           P     == Listed(g.pending)
           h     == [g EXCEPT !.keys = all, !.pending = wait, !.pages = pages, !.waited = W]
<1>1. /\ g \in GinState /\ g.keys \in Seq(RowKeys) /\ g.waited \subseteq DOMAIN g.keys
      /\ P \subseteq g.waited /\ Posts(g.main, g.keys, P, g.waited) /\ Len(g.keys) \in Nat
      /\ g.pending \in Seq(Nat) /\ Ascending(g.pending)
      /\ g.pages \in Seq(1 .. PENDING_PAGE_ENTRIES) /\ g.main \in MainSet
  BY DEF GinGood, GinState
<1>2. /\ all \in Seq(RowKeys) /\ all[row] = keys /\ Len(all) = row /\ DOMAIN all = 1 .. row
      /\ \A r \in DOMAIN g.keys : r < row /\ r \in DOMAIN all
      /\ row \in DOMAIN all /\ row \in Nat
  BY <1>1
<1>3. Posts(g.main, all, P \union {row}, W)
  <2>1. P \subseteq DOMAIN g.keys
    BY <1>1
  <2> HIDE DEF P
  <2> QED BY <1>1, <2>1, PostsGrow
<1>4. wait \in Seq(Nat) /\ Listed(wait) = P \union {row} /\ Ascending(wait)
  <2>1. \A p \in Listed(g.pending) : p < row
    BY <1>1, <1>2
  <2> HIDE DEF row
  <2> QED BY <1>1, <1>2, <2>1, ListGrows
<1>5. /\ pages \in Seq(1 .. PENDING_PAGE_ENTRIES)
      /\ Gin!Total(pages) = Gin!Total(g.pages) + Gin!Cardinality(keys)
  <2>1. Gin!Cardinality(keys) \in Nat \ {0}
    BY HowManyKeys
  <2> QED BY <1>1, <2>1, AppendPendingAccounts
<1> HIDE DEF all, P, wait, pages
<1>6. W \in SUBSET Nat /\ W \subseteq DOMAIN all /\ P \union {row} \subseteq W
  BY <1>1, <1>2
<1> HIDE DEF W
<1>7. h \in GinState
  BY <1>1, <1>2, <1>4, <1>5, <1>6 DEF GinState
<1>8. h.keys = all /\ h.main = g.main /\ h.waited = W /\ h.pending = wait /\ h.pages = pages
  BY <1>1 DEF GinState
<1> HIDE DEF h
<1>9. Gin!Total(Sizes(h)) = Gin!Total(Sizes(g)) + Gin!Cardinality(keys)
  <2> DEFINE n == Len(g.pending)
             s == Sizes(g)
             t == Sizes(h)
  <2>1. /\ n \in Nat /\ DOMAIN g.pending = 1 .. n /\ DOMAIN wait = 1 .. n + 1 /\ wait[n + 1] = row
        /\ \A i \in 1 .. n : wait[i] = g.pending[i]
    BY <1>1 DEF wait
  <2> HIDE DEF n
  <2>2. \A i \in 1 .. n : all[wait[i]] = g.keys[g.pending[i]] /\ g.keys[g.pending[i]] \in RowKeys
    <3>1. \A i \in DOMAIN g.pending : all[g.pending[i]] = g.keys[g.pending[i]]
      BY SizesStay DEF all
    <3>2. \A i \in 1 .. n : g.pending[i] \in DOMAIN g.keys
      BY <2>1, <1>1 DEF P, Listed
    <3>3. \A r \in DOMAIN g.keys : g.keys[r] \in RowKeys
      BY <1>1, ElementsAreOf
    <3> QED BY <3>1, <3>2, <3>3, <2>1
  <2>3. /\ s = [i \in 1 .. n |-> Gin!Cardinality(g.keys[g.pending[i]])]
        /\ t = [i \in 1 .. n + 1 |-> Gin!Cardinality(all[wait[i]])]
    BY <2>1, <1>8 DEF Sizes
  <2>4. \A i \in 1 .. n + 1 : i \in 1 .. n \/ i = n + 1
    BY <2>1
  <2>5. \A i \in 1 .. n : s[i] \in Nat
    BY <2>2, <2>3, HowManyKeys
  <2>6. t[n + 1] = Gin!Cardinality(keys) /\ Gin!Cardinality(keys) \in Nat
    <3>1. n + 1 \in 1 .. n + 1
      BY <2>1
    <3> QED BY <3>1, <2>1, <2>3, <1>2, HowManyKeys
  <2>7. \A i \in 1 .. n : t[i] = s[i]
    <3>1. \A i \in 1 .. n : i \in 1 .. n + 1
      BY <2>1
    <3> QED BY <3>1, <2>2, <2>3
  <2>8. s \in [1 .. n -> Nat]
    BY <2>3, <2>5
  <2>9. t \in [1 .. n + 1 -> Nat]
    BY <2>3, <2>4, <2>5, <2>6, <2>7
  <2> HIDE DEF s, t
  <2>10. s \in Seq(Nat) /\ Len(s) = n
    BY <2>1, <2>8, FunctionIsSeq
  <2>11. t \in Seq(Nat) /\ Len(t) = n + 1
    <3>1. n + 1 \in Nat
      BY <2>1
    <3> QED BY <3>1, <2>9, FunctionIsSeq
  <2>12. Gin!Total(t) = Gin!Total(s) + t[Len(s) + 1]
    BY <2>7, <2>10, <2>11, TotalOfMore
  <2> QED BY <2>6, <2>10, <2>12 DEF s, t
<1>10. GinGood(h)
  BY <1>1, <1>2, <1>3, <1>4, <1>5, <1>6, <1>7, <1>8, <1>9 DEF GinGood, row
<1> QED BY <1>10 DEF h, all, wait, pages, W, row

LEMMA GinInitInv == Gin!GinAssumption /\ Gin!GinInit => GinInv
<1> SUFFICES ASSUME Gin!GinAssumption, NEW keys \in [1 .. INITIAL_ROWS -> RowKeys], gin = Gin!buildIndex(keys)
             PROVE  GinInv
  BY DEF Gin!GinInit
<1>1. GinGood(gin) /\ gin.pages = <<>>
  BY BuildGood
<1> QED BY <1>1, EmptyFits DEF GinInv, WithinLimits, Gin!GinAssumption

LEMMA GinNextInv == Gin!GinAssumption /\ GinInv /\ Gin!GinStep => GinInv'
<1> SUFFICES ASSUME Gin!GinAssumption, GinInv, Gin!GinStep PROVE GinInv'
  OBVIOUS
<1>0. GinGood(gin) /\ PageLimits \subseteq Nat \ {0} /\ gin.pages \in Seq(1 .. PENDING_PAGE_ENTRIES)
      /\ Len(gin.keys) \in Nat
  BY DEF GinInv, Gin!GinAssumption, GinGood, GinState
<1>5. ASSUME GinGood(gin'), gin'.pages = <<>> PROVE GinInv'
  <2>1. Len(gin'.pages) = 0
    BY <1>5
  <2>2. WithinLimits(gin')
    BY <2>1, <1>0 DEF WithinLimits
  <2> QED BY <2>2, <1>5 DEF GinInv
<1>1. ASSUME NEW keys \in RowKeys, Gin!InsertDirectly(keys) PROVE GinInv'
  <2>1. GinGood(gin')
    BY <1>0, <1>1, DirectGood DEF Gin!InsertDirectly
  <2>2. gin'.pages = gin.pages
    BY <1>0, <1>1 DEF Gin!InsertDirectly, GinGood, GinState
  <2> QED BY <2>1, <2>2 DEF GinInv, WithinLimits
<1>2. ASSUME NEW keys \in RowKeys, NEW limit \in PageLimits, Gin!InsertPending(keys, limit) PROVE GinInv'
  <2> DEFINE row     == Len(gin.keys) + 1
             withRow == [gin EXCEPT !.keys = Append(@, keys), !.pending = Append(@, row),
                                    !.pages = Gin!appendPending(@, Gin!Cardinality(keys)),
                                    !.waited = @ \union {row}]
  <2>1. row <= MAX_ROWS /\ gin' = IF Len(withRow.pages) > limit THEN Gin!mergePending(withRow) ELSE withRow
    BY <1>2 DEF Gin!InsertPending
  <2>2. GinGood(withRow)
    BY <2>1, <1>0, PendingGood
  <2> HIDE DEF withRow
  <2>3. CASE Len(withRow.pages) > limit
    <3>1. GinGood(gin') /\ gin'.pages = <<>>
      BY <2>1, <2>2, <2>3, MergeGood
    <3> QED BY <3>1, <1>5
  <2>4. CASE ~(Len(withRow.pages) > limit)
    <3>1. gin' = withRow /\ Len(gin'.pages) <= limit /\ Len(gin'.pages) \in Nat
      BY <2>1, <2>2, <2>4, <1>0 DEF GinGood, GinState
    <3>2. WithinLimits(gin')
      BY <3>1, <1>0 DEF WithinLimits
    <3> QED BY <3>1, <3>2, <2>2 DEF GinInv
  <2> QED BY <2>3, <2>4
<1>3. CASE Gin!vacuumIndex
  <2>1. GinGood(gin') /\ gin'.pages = <<>>
    BY <1>3, <1>0, MergeGood DEF Gin!vacuumIndex
  <2> QED BY <2>1, <1>5
<1>4. CASE Gin!Rebuild
  <2>1. GinGood(gin') /\ gin'.pages = <<>>
    BY <1>4, BuildGood DEF Gin!Rebuild
  <2> QED BY <2>1, <1>5
<1> QED BY <1>1, <1>2, <1>3, <1>4 DEF Gin!GinStep

LEMMA OnceCounted ==
  ASSUME NEW rows, NEW row,
         \A i, j \in DOMAIN rows : rows[i] = rows[j] => i = j
  PROVE  Gin!Cardinality({i \in DOMAIN rows : rows[i] = row}) = IF row \in Listed(rows) THEN 1 ELSE 0
<1> DEFINE there == {i \in DOMAIN rows : rows[i] = row}
<1>1. CASE row \in Listed(rows)
  <2>1. PICK i \in DOMAIN rows : rows[i] = row
    BY <1>1 DEF Listed
  <2>2. there = {i}
    BY <2>1
  <2> QED BY <2>2, <1>1, FS_Singleton, GinCounts
<1>2. CASE row \notin Listed(rows)
  <2>1. there = {}
    BY <1>2 DEF Listed
  <2> QED BY <2>1, <1>2, FS_EmptySet, GinCounts
<1> QED BY <1>1, <1>2

LEMMA GinMeansOnce == GinInv => Gin!EachOnce /\ Gin!PendingFits
<1> SUFFICES ASSUME GinInv PROVE Gin!EachOnce /\ Gin!PendingFits
  OBVIOUS
<1> DEFINE P == Listed(gin.pending)
<1>0. /\ GinGood(gin) /\ gin.keys \in Seq(RowKeys) /\ gin.pending \in Seq(Nat)
      /\ Posts(gin.main, gin.keys, P, gin.waited) /\ Ascending(gin.pending)
      /\ gin.pages \in Seq(1 .. PENDING_PAGE_ENTRIES)
  BY DEF GinInv, GinGood, GinState
<1>1. ASSUME NEW row \in DOMAIN gin.keys, NEW k \in Gin!GinKey
      PROVE  Gin!Cardinality({i \in DOMAIN gin.main[k] : gin.main[k][i] = row})
               + (IF k \in gin.keys[row] THEN Gin!Cardinality({i \in DOMAIN gin.pending : gin.pending[i] = row})
                  ELSE 0)
             = IF k \in gin.keys[row] THEN 1 ELSE 0
  <2>1. Gin!Cardinality({i \in DOMAIN gin.main[k] : gin.main[k][i] = row})
          = IF row \in Listed(gin.main[k]) THEN 1 ELSE 0
    <3>1. \A i, j \in DOMAIN gin.main[k] : gin.main[k][i] = gin.main[k][j] => i = j
      BY <1>0 DEF Posts
    <3> QED BY <3>1, OnceCounted
  <2>2. Gin!Cardinality({i \in DOMAIN gin.pending : gin.pending[i] = row}) = IF row \in P THEN 1 ELSE 0
    <3>1. DOMAIN gin.pending \subseteq Nat /\ \A i \in DOMAIN gin.pending : gin.pending[i] \in Nat
      BY <1>0
    <3>2. ASSUME NEW i \in DOMAIN gin.pending, NEW j \in DOMAIN gin.pending,
                 gin.pending[i] = gin.pending[j]
          PROVE  i = j
      <4>1. gin.pending[i] \in Nat /\ gin.pending[j] \in Nat /\ i \in Nat /\ j \in Nat
        BY <3>1
      <4>2. i < j => gin.pending[i] < gin.pending[j]
        BY <1>0 DEF Ascending
      <4>3. j < i => gin.pending[j] < gin.pending[i]
        BY <1>0 DEF Ascending
      <4> QED BY <4>1, <4>2, <4>3, <3>2
    <3> QED BY <3>2, OnceCounted
  <2>3. row \in Listed(gin.main[k]) <=> k \in gin.keys[row] /\ row \notin P
    <3>1. ASSUME row \in Listed(gin.main[k]) PROVE k \in gin.keys[row] /\ row \notin P
      <4>1. PICK i \in DOMAIN gin.main[k] : gin.main[k][i] = row
        BY <3>1 DEF Listed
      <4> QED BY <4>1, <1>0 DEF Posts
    <3>2. ASSUME k \in gin.keys[row], row \notin P PROVE row \in Listed(gin.main[k])
      <4>1. \E i \in DOMAIN gin.main[k] : gin.main[k][i] = row
        BY <3>2, <1>0 DEF Posts
      <4> QED BY <4>1 DEF Listed
    <3> QED BY <3>1, <3>2
  <2> HIDE DEF P
  <2> QED BY <2>1, <2>2, <2>3
<1>2. Gin!EachOnce
  BY <1>0, <1>1 DEF Gin!EachOnce, Posts
<1>3. Gin!PendingFits
  <2>1. Gin!Total(gin.pages) = Gin!Total(Sizes(gin))
    BY <1>0 DEF GinGood
  <2>2. \A i \in DOMAIN gin.pages : gin.pages[i] \in 1 .. PENDING_PAGE_ENTRIES
    BY <1>0, ElementsAreOf
  <2> QED BY <2>1, <2>2 DEF Gin!PendingFits, Sizes, GinInv, WithinLimits
<1> QED BY <1>2, <1>3

LEMMA GinTypes == Gin!GinAssumption /\ GinInv => Gin!GinTypeOK
<1> SUFFICES ASSUME Gin!GinAssumption, GinInv PROVE Gin!GinTypeOK
  OBVIOUS
<1>1. /\ gin.keys \in Seq(RowKeys) /\ Len(gin.keys) <= MAX_ROWS /\ gin.waited \subseteq DOMAIN gin.keys
      /\ gin.main \in MainSet /\ DOMAIN gin.keys = 1 .. Len(gin.keys) /\ Len(gin.keys) \in Nat
      /\ Posts(gin.main, gin.keys, Listed(gin.pending), gin.waited) /\ MAX_ROWS \in Nat
  BY DEF GinInv, GinGood, GinState, Gin!GinAssumption
<1>2. ASSUME NEW k \in Gin!GinKey PROVE gin.main[k] \in Seq(1 .. MAX_ROWS)
  <2>1. gin.main[k] \in Seq(Nat) /\ \A i \in DOMAIN gin.main[k] : gin.main[k][i] \in DOMAIN gin.keys
    BY <1>1 DEF MainSet, Posts
  <2>2. Len(gin.main[k]) \in Nat /\ DOMAIN gin.main[k] = 1 .. Len(gin.main[k])
        /\ gin.main[k] = [i \in 1 .. Len(gin.main[k]) |-> gin.main[k][i]]
    BY <2>1, LenProperties
  <2>3. ASSUME NEW i \in 1 .. Len(gin.main[k]) PROVE gin.main[k][i] \in 1 .. MAX_ROWS
    <3>1. gin.main[k][i] \in 1 .. Len(gin.keys)
      BY <2>1, <2>2, <1>1
    <3> QED BY <3>1, <1>1
  <2>4. gin.main[k] \in [1 .. Len(gin.main[k]) -> 1 .. MAX_ROWS]
    BY <2>2, <2>3
  <2> QED BY <2>2, <2>4, FunctionIsSeq
<1>3. gin.main = [k \in Gin!GinKey |-> gin.main[k]]
  BY <1>1 DEF MainSet
<1> QED BY <1>1, <1>2, <1>3 DEF Gin!GinTypeOK

-------------------------------------------------------------------------------
(* The block ranges.                                                       *)

Point    == 0 .. MaxTs - 1
Interval == Point \X Point

(* Intervals that are in order and do not meet. *)
Apart(ivs) ==
  /\ ivs \subseteq Interval
  /\ \A iv \in ivs : iv[1] <= iv[2]
  /\ \A a, b \in ivs : a # b => a[2] < b[1] \/ b[2] < a[1]

LEMMA Extremes ==
  ASSUME Brin!BrinAssumption, NEW S, S \subseteq Point, S # {}
  PROVE  /\ Brin!Min(S) \in S /\ \A y \in S : Brin!Min(S) <= y
         /\ Brin!Max(S) \in S /\ \A y \in S : y <= Brin!Max(S)
<1>0. MaxTs \in Nat
  BY DEF Brin!BrinAssumption
<1>1. S \subseteq Nat /\ \A y \in S : y < MaxTs
  BY <1>0 DEF Point
<1>2. \E x \in S : \A y \in S : x <= y
  BY <1>1, LeastIn
<1>3. \E x \in S : \A y \in S : y <= x
  <2> DEFINE T == {MaxTs - y : y \in S}
  <2>1. T \subseteq Nat /\ T # {}
    <3>1. ASSUME NEW y \in S PROVE MaxTs - y \in Nat
      <4>1. y \in Nat /\ y < MaxTs
        BY <1>1
      <4> QED BY <4>1, <1>0
    <3>2. T \subseteq Nat
      BY <3>1
    <3>3. PICK y \in S : TRUE
      OBVIOUS
    <3>4. MaxTs - y \in T
      OBVIOUS
    <3> QED BY <3>2, <3>4
  <2>2. PICK t \in T : \A u \in T : t <= u
    <3> HIDE DEF T
    <3> QED BY <2>1, LeastIn
  <2>3. PICK x \in S : t = MaxTs - x
    BY <2>2
  <2>4. ASSUME NEW y \in S PROVE y <= x
    <3>1. MaxTs - x <= MaxTs - y
      BY <2>2, <2>3
    <3> QED BY <3>1, <1>0, <1>1
  <2> QED BY <2>4
<1>4. Brin!Min(S) \in S /\ \A y \in S : Brin!Min(S) <= y
  BY <1>2 DEF Brin!Min
<1>5. Brin!Max(S) \in S /\ \A y \in S : y <= Brin!Max(S)
  <2>1. PICK x \in S : \A y \in S : y <= x
    BY <1>3
  <2>2. \A y \in S : x >= y
    BY <2>1, <1>1
  <2>3. Brin!Max(S) \in S /\ \A y \in S : Brin!Max(S) >= y
    BY <2>2 DEF Brin!Max
  <2> QED BY <2>3, <1>1
<1> QED BY <1>4, <1>5

(* The hull reaches from one of its intervals to another, over all.        *)
LEMMA HullFits ==
  ASSUME Brin!BrinAssumption, NEW ivs, ivs \subseteq Interval, ivs # {}, \A iv \in ivs : iv[1] <= iv[2]
  PROVE  /\ Brin!Hull(ivs) \in Interval
         /\ \A iv \in ivs : Brin!Hull(ivs)[1] <= iv[1] /\ iv[2] <= Brin!Hull(ivs)[2]
         /\ \E a \in ivs : Brin!Hull(ivs)[1] = a[1]
         /\ \E b \in ivs : Brin!Hull(ivs)[2] = b[2]
         /\ Brin!Hull(ivs)[1] <= Brin!Hull(ivs)[2]
<1> DEFINE L == {iv[1] : iv \in ivs}
           R == {iv[2] : iv \in ivs}
<1>1. L \subseteq Point /\ L # {} /\ R \subseteq Point /\ R # {}
  BY DEF Interval
<1>2. /\ Brin!Min(L) \in L /\ \A y \in L : Brin!Min(L) <= y
      /\ Brin!Max(R) \in R /\ \A y \in R : y <= Brin!Max(R)
  <2> HIDE DEF L, R
  <2> QED BY <1>1, Extremes
<1>3. Brin!Hull(ivs) = <<Brin!Min(L), Brin!Max(R)>>
  BY DEF Brin!Hull
<1>4. \A iv \in ivs : iv[1] \in L /\ iv[2] \in R
  OBVIOUS
<1>5. (\E a \in ivs : Brin!Min(L) = a[1]) /\ (\E b \in ivs : Brin!Max(R) = b[2])
  BY <1>2
<1> HIDE DEF L, R
<1>6. Brin!Hull(ivs)[1] = Brin!Min(L) /\ Brin!Hull(ivs)[2] = Brin!Max(R) /\ Brin!Hull(ivs) \in Interval
  BY <1>1, <1>2, <1>3 DEF Interval
<1>7. \A iv \in ivs : Brin!Hull(ivs)[1] <= iv[1] /\ iv[2] <= Brin!Hull(ivs)[2]
  BY <1>2, <1>4, <1>6
<1>8. PICK iv \in ivs : TRUE
  OBVIOUS
<1>9. Brin!Hull(ivs)[1] <= Brin!Hull(ivs)[2]
  <2>1. Brin!Hull(ivs)[1] <= iv[1] /\ iv[1] <= iv[2] /\ iv[2] <= Brin!Hull(ivs)[2]
    BY <1>7, <1>8
  <2>2. {Brin!Hull(ivs)[1], iv[1], iv[2], Brin!Hull(ivs)[2]} \subseteq Int
    BY <1>6 DEF Interval, Point
  <2> QED BY <2>1, <2>2
<1> QED BY <1>5, <1>6, <1>7, <1>9

(* compact(), its parts by name. *)
RightOf(ivs, a)  == {b \in ivs : b[1] > a[1]}
GapOf(ivs, a)    == Brin!Min({b[1] : b \in RightOf(ivs, a)}) - a[2]
InnerOf(ivs)     == {a \in ivs : RightOf(ivs, a) # {}}
BeforeOf(ivs, a) == {b \in InnerOf(ivs) : \/ GapOf(ivs, b) > GapOf(ivs, a)
                                          \/ GapOf(ivs, b) = GapOf(ivs, a) /\ b[1] < a[1]}
Keep             == VALUES_PER_RANGE \div 2 - 1
CutOf(ivs)       == {a \in InnerOf(ivs) : Brin!Cardinality(BeforeOf(ivs, a)) < Keep /\ GapOf(ivs, a) > 1}
Group(ivs, cut, a) == {b \in ivs : \A c \in cut : (b[1] <= c[1]) = (a[1] <= c[1])}

LEMMA BrinCounts == \A S : Brin!Cardinality(S) = Cardinality(S)
BY DEF Brin!Cardinality, Cardinality

LEMMA CompactParts ==
  ASSUME NEW ivs
  PROVE  Brin!compact(ivs) = IF Brin!valuesUsed(ivs) <= VALUES_PER_RANGE THEN ivs
                        ELSE {Brin!Hull(Group(ivs, CutOf(ivs), a)) : a \in ivs}
BY DEF Brin!compact, RightOf, GapOf, InnerOf, BeforeOf, Keep, CutOf, Group

LEMMA ApartFinite ==
  ASSUME Brin!BrinAssumption, NEW ivs, ivs \subseteq Interval
  PROVE  IsFiniteSet(ivs)
<1>1. MaxTs \in Nat
  BY DEF Brin!BrinAssumption
<1>2. IsFiniteSet(Point)
  BY <1>1, FS_Interval DEF Point
<1>3. IsFiniteSet(Interval)
  BY <1>2, FS_Product DEF Interval
<1> QED BY <1>3, FS_Subset

(* Two intervals do not begin at the same place. *)
LEMMA BeginningsDiffer ==
  ASSUME Brin!BrinAssumption, NEW ivs, Apart(ivs), NEW a \in ivs, NEW b \in ivs, a # b
  PROVE  a[1] < b[1] \/ b[1] < a[1]
<1>1. {a[1], a[2], b[1], b[2]} \subseteq Int
  BY DEF Apart, Interval, Point
<1>2. a[1] <= a[2] /\ b[1] <= b[2] /\ (a[2] < b[1] \/ b[2] < a[1])
  BY DEF Apart
<1> QED BY <1>1, <1>2

(* Each gap has a rank, and no two the same, so that the cut is not longer *)
(* than what is kept.                                                      *)
LEMMA CutIsShort ==
  ASSUME Brin!BrinAssumption, NEW ivs, Apart(ivs), Keep \in Nat
  PROVE  /\ CutOf(ivs) \subseteq ivs
         /\ IsFiniteSet(CutOf(ivs)) /\ Cardinality(CutOf(ivs)) <= Keep
<1> DEFINE inner  == InnerOf(ivs)
           cut    == CutOf(ivs)
           rank   == [a \in cut |-> Cardinality(BeforeOf(ivs, a))]
<1>1. inner \subseteq ivs /\ cut \subseteq inner /\ IsFiniteSet(ivs) /\ ivs \subseteq Interval
  BY ApartFinite DEF Apart, InnerOf, CutOf
<1>2. IsFiniteSet(inner) /\ IsFiniteSet(cut)
  <2> HIDE DEF inner, cut
  <2> QED BY <1>1, FS_Subset
<1>3. ASSUME NEW a \in inner PROVE GapOf(ivs, a) \in Int /\ a[1] \in Int
  <2> DEFINE S == {b[1] : b \in RightOf(ivs, a)}
  <2>1. S \subseteq Point /\ S # {}
    BY <1>1 DEF InnerOf, RightOf, Interval
  <2>2. Brin!Min(S) \in S
    <3> HIDE DEF S
    <3> QED BY <2>1, Extremes
  <2>3. a[2] \in Int /\ a[1] \in Int /\ Brin!Min(S) \in Int
    BY <1>1, <2>1, <2>2 DEF Interval, Point
  <2>4. GapOf(ivs, a) = Brin!Min(S) - a[2]
    BY DEF GapOf
  <2> HIDE DEF S
  <2> QED BY <2>3, <2>4
<1>4. ASSUME NEW a \in inner
      PROVE  BeforeOf(ivs, a) \subseteq inner /\ IsFiniteSet(BeforeOf(ivs, a))
             /\ Cardinality(BeforeOf(ivs, a)) \in Nat
  <2>1. BeforeOf(ivs, a) \subseteq inner
    BY DEF BeforeOf
  <2> HIDE DEF inner
  <2> QED BY <2>1, <1>2, FS_Subset, FS_CardinalityType
<1>5. ASSUME NEW a \in inner, NEW b \in inner, a \in BeforeOf(ivs, b)
      PROVE  Cardinality(BeforeOf(ivs, a)) < Cardinality(BeforeOf(ivs, b))
  <2>1. a \notin BeforeOf(ivs, a)
    BY <1>3 DEF BeforeOf
  <2>2. ASSUME NEW x \in BeforeOf(ivs, a) PROVE x \in BeforeOf(ivs, b)
    <3>1. x \in inner /\ GapOf(ivs, x) \in Int /\ GapOf(ivs, a) \in Int /\ GapOf(ivs, b) \in Int
          /\ x[1] \in Int /\ a[1] \in Int /\ b[1] \in Int
      BY <1>3 DEF BeforeOf
    <3>2. \/ GapOf(ivs, x) > GapOf(ivs, a)
          \/ GapOf(ivs, x) = GapOf(ivs, a) /\ x[1] < a[1]
      BY DEF BeforeOf
    <3>3. \/ GapOf(ivs, a) > GapOf(ivs, b)
          \/ GapOf(ivs, a) = GapOf(ivs, b) /\ a[1] < b[1]
      BY <1>5 DEF BeforeOf
    <3>4. \/ GapOf(ivs, x) > GapOf(ivs, b)
          \/ GapOf(ivs, x) = GapOf(ivs, b) /\ x[1] < b[1]
      BY <3>1, <3>2, <3>3
    <3> QED BY <3>1, <3>4 DEF BeforeOf
  <2>3. BeforeOf(ivs, a) \subseteq BeforeOf(ivs, b) /\ BeforeOf(ivs, a) # BeforeOf(ivs, b)
    BY <2>1, <2>2, <1>5
  <2>4. /\ Cardinality(BeforeOf(ivs, a)) <= Cardinality(BeforeOf(ivs, b))
        /\ Cardinality(BeforeOf(ivs, a)) # Cardinality(BeforeOf(ivs, b))
    BY <2>3, <1>4, FS_Subset
  <2> QED BY <2>4, <1>4
<1>6. ASSUME NEW a \in inner, NEW b \in inner, a # b
      PROVE  Cardinality(BeforeOf(ivs, a)) # Cardinality(BeforeOf(ivs, b))
  <2>1. a[1] < b[1] \/ b[1] < a[1]
    BY <1>1, <1>6, BeginningsDiffer
  <2>2. a \in BeforeOf(ivs, b) \/ b \in BeforeOf(ivs, a)
    BY <2>1, <1>3 DEF BeforeOf
  <2> QED BY <2>2, <1>4, <1>5
<1>7. rank \in [cut -> 0 .. Keep - 1]
  <2>1. \A a \in cut : Cardinality(BeforeOf(ivs, a)) \in 0 .. Keep - 1
    BY <1>1, <1>4, BrinCounts DEF CutOf
  <2> QED BY <2>1
<1>8. \A a, b \in cut : rank[a] = rank[b] => a = b
  BY <1>1, <1>6
<1>9. Cardinality(cut) <= Cardinality(0 .. Keep - 1) /\ Cardinality(0 .. Keep - 1) = Keep
  <2>1. IsFiniteSet(0 .. Keep - 1) /\ Cardinality(0 .. Keep - 1) = Keep
    BY FS_Interval
  <2>2. IsInjective(rank)
    BY <1>8 DEF IsInjective
  <2>3. rank \in Injection(cut, 0 .. Keep - 1)
    BY <1>7, <2>2 DEF Injection
  <2> HIDE DEF cut, rank
  <2>4. Cardinality(cut) <= Cardinality(0 .. Keep - 1)
    BY <2>1, <2>3, FS_Injection
  <2> QED BY <2>1, <2>4
<1> QED BY <1>1, <1>2, <1>9

(* The hulls of the groups: no more than one for each that is cut, and one *)
(* besides; apart; and over all there was.                                 *)
LEMMA GroupsAreHulled ==
  ASSUME Brin!BrinAssumption, NEW ivs, Apart(ivs), NEW cut, NEW a \in ivs
  PROVE  /\ Group(ivs, cut, a) \subseteq ivs /\ a \in Group(ivs, cut, a)
         /\ Brin!Hull(Group(ivs, cut, a)) \in Interval
         /\ Brin!Hull(Group(ivs, cut, a))[1] <= Brin!Hull(Group(ivs, cut, a))[2]
         /\ Brin!Hull(Group(ivs, cut, a))[1] <= a[1] /\ a[2] <= Brin!Hull(Group(ivs, cut, a))[2]
         /\ \E x \in Group(ivs, cut, a) : Brin!Hull(Group(ivs, cut, a))[1] = x[1]
         /\ \E x \in Group(ivs, cut, a) : Brin!Hull(Group(ivs, cut, a))[2] = x[2]
<1> DEFINE G == Group(ivs, cut, a)
<1>1. G \subseteq ivs /\ a \in G
  BY DEF Group
<1>2. G \subseteq Interval /\ G # {} /\ \A iv \in G : iv[1] <= iv[2]
  BY <1>1 DEF Apart
<1> HIDE DEF G
<1>3. /\ Brin!Hull(G) \in Interval
      /\ \A iv \in G : Brin!Hull(G)[1] <= iv[1] /\ iv[2] <= Brin!Hull(G)[2]
      /\ \E x \in G : Brin!Hull(G)[1] = x[1]
      /\ \E x \in G : Brin!Hull(G)[2] = x[2]
      /\ Brin!Hull(G)[1] <= Brin!Hull(G)[2]
  BY <1>2, HullFits
<1> QED BY <1>1, <1>3 DEF G

LEMMA GroupsApart ==
  ASSUME Brin!BrinAssumption, NEW ivs, Apart(ivs), NEW cut, cut \subseteq ivs, NEW a \in ivs, NEW b \in ivs,
         Group(ivs, cut, a) # Group(ivs, cut, b)
  PROVE  \/ Brin!Hull(Group(ivs, cut, a))[2] < Brin!Hull(Group(ivs, cut, b))[1]
         \/ Brin!Hull(Group(ivs, cut, b))[2] < Brin!Hull(Group(ivs, cut, a))[1]
<1>0. \A iv \in ivs : iv[1] \in Int /\ iv[2] \in Int /\ iv[1] <= iv[2]
  BY DEF Apart, Interval, Point
<1>1. ASSUME NEW x \in ivs, NEW y \in ivs, NEW c \in cut, x[1] <= c[1], ~(y[1] <= c[1])
      PROVE  Brin!Hull(Group(ivs, cut, x))[2] < Brin!Hull(Group(ivs, cut, y))[1]
  <2>1. PICK p \in Group(ivs, cut, x) : Brin!Hull(Group(ivs, cut, x))[2] = p[2]
    BY GroupsAreHulled
  <2>2. PICK q \in Group(ivs, cut, y) : Brin!Hull(Group(ivs, cut, y))[1] = q[1]
    BY GroupsAreHulled
  <2>3. p \in ivs /\ q \in ivs /\ p[1] <= c[1] /\ ~(q[1] <= c[1]) /\ c \in ivs
    BY <1>1 DEF Group
  <2>4. p # q /\ (p[2] < q[1] \/ q[2] < p[1])
    BY <2>3 DEF Apart
  <2>5. p[2] < q[1]
    BY <2>3, <2>4, <1>0
  <2> QED BY <2>1, <2>2, <2>5
<1>2. PICK c \in cut : (a[1] <= c[1]) # (b[1] <= c[1])
  BY DEF Group
<1>3. \/ a[1] <= c[1] /\ ~(b[1] <= c[1])
      \/ b[1] <= c[1] /\ ~(a[1] <= c[1])
  BY <1>2
<1> QED BY <1>1, <1>3

LEMMA GroupsAreFew ==
  ASSUME Brin!BrinAssumption, NEW ivs, Apart(ivs), NEW cut, cut \subseteq ivs,
         NEW C, C = {Brin!Hull(Group(ivs, cut, a)) : a \in ivs}
  PROVE  Cardinality(C) <= Cardinality(cut) + 1 /\ Cardinality(cut) \in Nat
<1> DEFINE Past(a) == {c \in cut : a[1] <= c[1]}
           of      == [h \in C |-> CHOOSE a \in ivs : h = Brin!Hull(Group(ivs, cut, a))]
           f       == [h \in C |-> Cardinality(Past(of[h]))]
           n       == Cardinality(cut)
<1>0. IsFiniteSet(cut) /\ n \in Nat /\ \A iv \in ivs : iv[1] \in Int
  <2>1. IsFiniteSet(ivs)
    BY ApartFinite DEF Apart
  <2>2. IsFiniteSet(cut) /\ n \in Nat
    BY <2>1, FS_Subset, FS_CardinalityType
  <2> QED BY <2>2 DEF Apart, Interval, Point
<1>1. ASSUME NEW a \in ivs PROVE IsFiniteSet(Past(a)) /\ Cardinality(Past(a)) \in 0 .. n
  <2>1. Past(a) \subseteq cut
    OBVIOUS
  <2>2. IsFiniteSet(Past(a)) /\ Cardinality(Past(a)) <= Cardinality(cut)
    <3> HIDE DEF Past
    <3> QED BY <2>1, <1>0, FS_Subset
  <2>3. Cardinality(Past(a)) \in Nat
    BY <2>2, FS_CardinalityType
  <2> HIDE DEF Past
  <2> QED BY <2>2, <2>3, <1>0
<1>2. ASSUME NEW a \in ivs, NEW b \in ivs, Cardinality(Past(a)) = Cardinality(Past(b))
      PROVE  Group(ivs, cut, a) = Group(ivs, cut, b)
  <2>1. Past(a) \subseteq Past(b) \/ Past(b) \subseteq Past(a)
    BY <1>0
  <2>2. Past(a) = Past(b)
    <3>1. IsFiniteSet(Past(a)) /\ IsFiniteSet(Past(b))
      BY <1>1
    <3> HIDE DEF Past
    <3>2. CASE Past(a) \subseteq Past(b)
      BY <3>1, <3>2, <1>2, FS_Subset
    <3>3. CASE Past(b) \subseteq Past(a)
      BY <3>1, <3>3, <1>2, FS_Subset
    <3> QED BY <2>1, <3>2, <3>3
  <2>3. \A c \in cut : (a[1] <= c[1]) = (b[1] <= c[1])
    BY <2>2
  <2> QED BY <2>3 DEF Group
<1>3. \A h \in C : of[h] \in ivs /\ h = Brin!Hull(Group(ivs, cut, of[h]))
  OBVIOUS
<1> HIDE DEF of, Past
<1>4. f \in [C -> 0 .. n]
  BY <1>1, <1>3
<1>5. \A g, h \in C : f[g] = f[h] => g = h
  <2>1. SUFFICES ASSUME NEW g \in C, NEW h \in C, f[g] = f[h] PROVE g = h
    OBVIOUS
  <2>2. Group(ivs, cut, of[g]) = Group(ivs, cut, of[h])
    BY <2>1, <1>2, <1>3
  <2> QED BY <2>2, <1>3
<1>6. Cardinality(C) <= Cardinality(0 .. n) /\ Cardinality(0 .. n) = n + 1
  <2>1. IsFiniteSet(0 .. n) /\ Cardinality(0 .. n) = n + 1
    BY <1>0, FS_Interval
  <2>2. f \in Injection(C, 0 .. n)
    BY <1>4, <1>5 DEF Injection, IsInjective
  <2> HIDE DEF f, n
  <2>3. Cardinality(C) <= Cardinality(0 .. n)
    BY <2>1, <2>2, FS_Injection
  <2> QED BY <2>1, <2>3
<1> QED BY <1>0, <1>6

(* What a summary may be: a set of intervals that are apart, of as many    *)
(* values as it may keep.                                                  *)
LEMMA CompactFits ==
  ASSUME Brin!BrinAssumption, NEW ivs, Apart(ivs)
  PROVE  /\ Apart(Brin!compact(ivs)) /\ Brin!valuesUsed(Brin!compact(ivs)) <= VALUES_PER_RANGE
         /\ \A v \in Point : Brin!Within(v, ivs) => Brin!Within(v, Brin!compact(ivs))
<1> DEFINE cut == CutOf(ivs)
           C   == {Brin!Hull(Group(ivs, cut, a)) : a \in ivs}
<1>1. CASE Brin!valuesUsed(ivs) <= VALUES_PER_RANGE
  BY <1>1, CompactParts
<1>2. CASE ~(Brin!valuesUsed(ivs) <= VALUES_PER_RANGE)
  <2>1. Brin!compact(ivs) = C
    BY <1>2, CompactParts
  <2>2. VALUES_PER_RANGE \in Nat /\ Keep \in Nat /\ 2 * Keep + 2 <= VALUES_PER_RANGE
    <3>1. VALUES_PER_RANGE \in Nat \ {0} /\ VALUES_PER_RANGE % 2 = 0
      BY DEF Brin!BrinAssumption
    <3> QED BY <3>1 DEF Keep
  <2>3. cut \subseteq ivs /\ IsFiniteSet(cut) /\ Cardinality(cut) <= Keep
    BY <2>2, CutIsShort
  <2> HIDE DEF cut
  <2>4. ASSUME NEW h \in C PROVE h \in Interval /\ h[1] <= h[2]
    <3>1. PICK a \in ivs : h = Brin!Hull(Group(ivs, cut, a))
      OBVIOUS
    <3> QED BY <3>1, GroupsAreHulled
  <2>5. ASSUME NEW g \in C, NEW h \in C, g # h PROVE g[2] < h[1] \/ h[2] < g[1]
    <3>1. PICK a \in ivs : g = Brin!Hull(Group(ivs, cut, a))
      OBVIOUS
    <3>2. PICK b \in ivs : h = Brin!Hull(Group(ivs, cut, b))
      OBVIOUS
    <3>3. Group(ivs, cut, a) # Group(ivs, cut, b)
      BY <3>1, <3>2, <2>5
    <3> QED BY <3>1, <3>2, <3>3, <2>3, GroupsApart
  <2>6. Apart(C)
    <3> HIDE DEF C
    <3> QED BY <2>4, <2>5 DEF Apart
  <2>7. Brin!valuesUsed(C) <= VALUES_PER_RANGE
    <3>1. Cardinality(C) <= Cardinality(cut) + 1 /\ Cardinality(cut) \in Nat
      BY <2>3, GroupsAreFew
    <3> HIDE DEF C
    <3>2. IsFiniteSet(C)
      BY <2>6, ApartFinite DEF Apart
    <3> DEFINE W == {iv \in C : iv[1] # iv[2]}
    <3>3. W \subseteq C
      OBVIOUS
    <3>4. Cardinality(W) <= Cardinality(C) /\ Cardinality(W) \in Nat /\ Cardinality(C) \in Nat
      <4> HIDE DEF W
      <4> QED BY <3>2, <3>3, FS_Subset, FS_CardinalityType
    <3>5. Brin!valuesUsed(C) = Cardinality(C) + Cardinality(W)
      BY BrinCounts DEF Brin!valuesUsed
    <3> HIDE DEF W
    <3> QED BY <3>1, <3>4, <3>5, <2>2, <2>3
  <2>8. ASSUME NEW v \in Point, Brin!Within(v, ivs) PROVE Brin!Within(v, C)
    <3>1. PICK a \in ivs : a[1] <= v /\ v <= a[2]
      BY <2>8 DEF Brin!Within
    <3> DEFINE h == Brin!Hull(Group(ivs, cut, a))
    <3>2. h \in C /\ h \in Interval /\ h[1] <= a[1] /\ a[2] <= h[2]
      BY GroupsAreHulled
    <3> HIDE DEF h, C
    <3>3. {h[1], h[2], a[1], a[2], v} \subseteq Int
      BY <3>2 DEF Apart, Interval, Point
    <3>4. h[1] <= v /\ v <= h[2]
      BY <3>1, <3>2, <3>3
    <3> QED BY <3>2, <3>4 DEF Brin!Within
  <2> HIDE DEF C
  <2> QED BY <2>1, <2>6, <2>7, <2>8
<1> QED BY <1>1, <1>2

Summary == [made : BOOLEAN, intervals : SUBSET Interval]

(* A summary that fits, and covers the values of its range if it is made.  *)
SummaryGood(s, values, opclass) ==
  /\ s \in Summary
  /\ Apart(s.intervals)
  /\ opclass = "minmax" => Cardinality(s.intervals) <= 1
  /\ opclass = "minmax_multi" => Brin!valuesUsed(s.intervals) <= VALUES_PER_RANGE
  /\ s.made => \A v \in values : Brin!Within(v, s.intervals)

LEMMA NoneApart == Apart({}) /\ Cardinality({}) = 0 /\ Brin!valuesUsed({}) = 0
<1>1. {iv \in {} : iv[1] # iv[2]} = {}
  OBVIOUS
<1> QED BY <1>1, FS_EmptySet, BrinCounts DEF Apart, Brin!valuesUsed

(* One interval, the hull of some. *)
LEMMA OneApart ==
  ASSUME Brin!BrinAssumption, NEW ivs, ivs \subseteq Interval, ivs # {}, \A iv \in ivs : iv[1] <= iv[2]
  PROVE  /\ Apart({Brin!Hull(ivs)}) /\ Cardinality({Brin!Hull(ivs)}) = 1
         /\ \A v \in Point : Brin!Within(v, ivs) => Brin!Within(v, {Brin!Hull(ivs)})
<1>1. /\ Brin!Hull(ivs) \in Interval /\ Brin!Hull(ivs)[1] <= Brin!Hull(ivs)[2]
      /\ \A iv \in ivs : Brin!Hull(ivs)[1] <= iv[1] /\ iv[2] <= Brin!Hull(ivs)[2]
  BY HullFits
<1>2. Apart({Brin!Hull(ivs)})
  BY <1>1 DEF Apart
<1>3. ASSUME NEW v \in Point, Brin!Within(v, ivs) PROVE Brin!Within(v, {Brin!Hull(ivs)})
  <2>1. PICK a \in ivs : a[1] <= v /\ v <= a[2]
    BY <1>3 DEF Brin!Within
  <2>2. {Brin!Hull(ivs)[1], Brin!Hull(ivs)[2], a[1], a[2], v} \subseteq Int
    BY <1>1 DEF Interval, Point
  <2>3. Brin!Hull(ivs)[1] <= v /\ v <= Brin!Hull(ivs)[2]
    BY <1>1, <2>1, <2>2
  <2> QED BY <2>3 DEF Brin!Within
<1> QED BY <1>2, <1>3, FS_Singleton

LEMMA MadeGood ==
  ASSUME NEW ivs, NEW values, NEW opclass, Apart(ivs),
         opclass = "minmax" => Cardinality(ivs) <= 1,
         opclass = "minmax_multi" => Brin!valuesUsed(ivs) <= VALUES_PER_RANGE,
         \A v \in values : Brin!Within(v, ivs)
  PROVE  SummaryGood(Brin!Made(ivs), values, opclass)
<1>1. Brin!Made(ivs).intervals = ivs
  BY DEF Brin!Made
<1>2. Brin!Made(ivs) \in Summary
  BY DEF Brin!Made, Summary, Apart
<1> HIDE DEF Brin!Made
<1> QED BY <1>1, <1>2, Zenon DEF SummaryGood

LEMMA PointsApart ==
  ASSUME NEW values, values \subseteq Point, values # {}, NEW points, points = {<<v, v>> : v \in values}
  PROVE  /\ points # {} /\ Apart(points)
         /\ \A v \in values : v \in Point /\ Brin!Within(v, points)
<1>1. \A v \in values : v \in Int /\ v <= v
  BY DEF Point
<1>2. ASSUME NEW iv \in points PROVE iv \in Interval /\ iv[1] = iv[2] /\ iv[1] \in Int /\ iv = <<iv[1], iv[1]>>
  <2>1. PICK v \in values : iv = <<v, v>>
    OBVIOUS
  <2> QED BY <2>1, <1>1 DEF Interval
<1>3. ASSUME NEW a \in points, NEW b \in points, a # b PROVE a[2] < b[1] \/ b[2] < a[1]
  <2>1. a[1] # b[1]
    BY <1>2, <1>3
  <2> QED BY <2>1, <1>2
<1>4. \A iv \in points : iv \in Interval /\ iv[1] <= iv[2]
  BY <1>2
<1>5. Apart(points)
  BY <1>3, <1>4 DEF Apart
<1>6. ASSUME NEW v \in values PROVE v \in Point /\ Brin!Within(v, points)
  <2>1. <<v, v>> \in points /\ <<v, v>>[1] <= v /\ v <= <<v, v>>[2]
    BY <1>1
  <2> QED BY <2>1 DEF Brin!Within
<1>7. points # {}
  OBVIOUS
<1> QED BY <1>5, <1>6, <1>7

LEMMA SummarizedGood ==
  ASSUME Brin!BrinAssumption, NEW values, values \subseteq Point, NEW opclass \in Brin!Opclass
  PROVE  SummaryGood(Brin!Made(Brin!summarizeValues(values, opclass)), values, opclass)
<1> DEFINE points == {<<v, v>> : v \in values}
           ivs    == Brin!summarizeValues(values, opclass)
<1>0. VALUES_PER_RANGE \in Nat /\ 0 <= 1 /\ 1 <= 1
  BY DEF Brin!BrinAssumption
<1>1. SUFFICES /\ Apart(ivs)
               /\ opclass = "minmax" => Cardinality(ivs) <= 1
               /\ opclass = "minmax_multi" => Brin!valuesUsed(ivs) <= VALUES_PER_RANGE
               /\ \A v \in values : Brin!Within(v, ivs)
  <2> HIDE DEF ivs
  <2> QED BY MadeGood DEF ivs
<1>3. CASE values = {}
  <2>1. ivs = {}
    BY <1>3 DEF Brin!summarizeValues
  <2> HIDE DEF ivs
  <2> QED BY <1>0, <1>3, <2>1, NoneApart
<1>4. CASE values # {}
  <2>1. points # {} /\ Apart(points) /\ \A v \in values : v \in Point /\ Brin!Within(v, points)
    BY <1>4, PointsApart
  <2>2. points \subseteq Interval /\ \A iv \in points : iv[1] <= iv[2]
    BY <2>1 DEF Apart
  <2>4. CASE opclass = "minmax"
    <3>1. ivs = {Brin!Hull(points)}
      BY <1>4, <2>4 DEF Brin!summarizeValues
    <3> HIDE DEF ivs, points
    <3>2. Apart(ivs) /\ Cardinality(ivs) = 1 /\ \A v \in values : Brin!Within(v, ivs)
      BY <2>1, <2>2, <3>1, OneApart
    <3> QED BY <3>2, <2>4, <1>0
  <2>5. CASE opclass = "minmax_multi"
    <3>1. ivs = Brin!compact(points)
      BY <1>4, <2>5 DEF Brin!summarizeValues
    <3> HIDE DEF ivs, points
    <3>2. Apart(ivs) /\ Brin!valuesUsed(ivs) <= VALUES_PER_RANGE /\ \A v \in values : Brin!Within(v, ivs)
      BY <2>1, <3>1, CompactFits
    <3> QED BY <3>2, <2>5
  <2> QED BY <2>4, <2>5 DEF Brin!Opclass
<1> QED BY <1>3, <1>4

LEMMA AddedFits ==
  ASSUME Brin!BrinAssumption, NEW opclass \in Brin!Opclass, NEW old, Apart(old), NEW v \in Point,
         ~Brin!Within(v, old), NEW values, values \subseteq Point, \A w \in values : Brin!Within(w, old)
  PROVE  /\ Apart(Brin!addValue(old, v, opclass))
         /\ opclass = "minmax" => Cardinality(Brin!addValue(old, v, opclass)) <= 1
         /\ opclass = "minmax_multi" => Brin!valuesUsed(Brin!addValue(old, v, opclass)) <= VALUES_PER_RANGE
         /\ \A w \in values \union {v} : Brin!Within(w, Brin!addValue(old, v, opclass))
<1> DEFINE ivs == Brin!addValue(old, v, opclass)
           pt  == <<v, v>>
           all == old \union {pt}
<1>1. v \in Int /\ v <= v /\ pt \in Interval /\ pt[1] = v /\ pt[2] = v
  BY DEF Point, Interval
<1> HIDE DEF pt
<1>2. \A iv \in old : iv \in Interval /\ iv[1] \in Int /\ iv[2] \in Int /\ iv[1] <= iv[2]
  BY DEF Apart, Interval, Point
<1>3. \A iv \in old : v < iv[1] \/ iv[2] < v
  BY <1>1, <1>2 DEF Brin!Within
<1>4. \A iv \in all : iv \in Interval /\ iv[1] <= iv[2]
  BY <1>1, <1>2
<1>5. ASSUME NEW a \in all, NEW b \in all, a # b PROVE a[2] < b[1] \/ b[2] < a[1]
  <2>1. CASE a \in old /\ b \in old
    BY <2>1, <1>5 DEF Apart
  <2>2. CASE a \in old /\ b = pt
    BY <2>2, <1>1, <1>3
  <2>3. CASE b \in old /\ a = pt
    BY <2>3, <1>1, <1>3
  <2> QED BY <2>1, <2>2, <2>3, <1>5
<1>6. Apart(all)
  BY <1>4, <1>5 DEF Apart
<1>7. all # {} /\ all \subseteq Interval /\ \A iv \in all : iv[1] <= iv[2]
  BY <1>4
<1>8. \A w \in values \union {v} : w \in Point /\ Brin!Within(w, all)
  <2>1. \A w \in values : Brin!Within(w, all)
    BY DEF Brin!Within
  <2>2. Brin!Within(v, all)
    BY <1>1 DEF Brin!Within
  <2> QED BY <2>1, <2>2
<1>9. CASE opclass = "minmax"
  <2>1. ivs = {Brin!Hull(all)}
    BY <1>9 DEF Brin!addValue, pt
  <2> HIDE DEF ivs, all
  <2>2. Apart(ivs) /\ Cardinality(ivs) = 1 /\ \A w \in values \union {v} : Brin!Within(w, ivs)
    BY <1>7, <1>8, <2>1, OneApart
  <2>3. 1 <= 1
    OBVIOUS
  <2> QED BY <2>2, <2>3, <1>9 DEF ivs
<1>10. CASE opclass = "minmax_multi"
  <2>1. ivs = Brin!compact(all)
    BY <1>10 DEF Brin!addValue, pt
  <2> HIDE DEF ivs, all
  <2>2. Apart(ivs) /\ Brin!valuesUsed(ivs) <= VALUES_PER_RANGE /\ \A w \in values \union {v} : Brin!Within(w, ivs)
    BY <1>6, <1>8, <2>1, CompactFits
  <2> QED BY <2>2, <1>10 DEF ivs
<1> QED BY <1>9, <1>10 DEF Brin!Opclass

LEMMA WidenedGood ==
  ASSUME Brin!BrinAssumption, NEW opclass \in Brin!Opclass, NEW s, NEW values, SummaryGood(s, values, opclass),
         NEW v \in Point, NEW more, more \subseteq values \union {v}, values \subseteq Point
  PROVE  SummaryGood(Brin!Widened(s, v, opclass), more, opclass)
<1>1. CASE ~s.made
  <2>1. Brin!Widened(s, v, opclass) = s
    BY <1>1 DEF Brin!Widened
  <2> QED BY <1>1, <2>1 DEF SummaryGood
<1>2. CASE s.made
  <2> DEFINE old == s.intervals
             ivs == Brin!addValue(old, v, opclass)
  <2>1. Brin!Widened(s, v, opclass) = Brin!Made(ivs)
    BY <1>2 DEF Brin!Widened
  <2>2. /\ Apart(old) /\ \A w \in values : Brin!Within(w, old)
        /\ opclass = "minmax" => Cardinality(old) <= 1
        /\ opclass = "minmax_multi" => Brin!valuesUsed(old) <= VALUES_PER_RANGE
    BY <1>2 DEF SummaryGood
  <2>3. CASE Brin!Within(v, old)
    <3>1. ivs = old
      BY <2>3 DEF Brin!addValue
    <3>2. \A w \in more : Brin!Within(w, old)
      BY <2>2, <2>3
    <3> HIDE DEF ivs
    <3> QED BY <2>1, <2>2, <3>1, <3>2, MadeGood
  <2>4. CASE ~Brin!Within(v, old)
    <3>1. /\ Apart(ivs)
          /\ opclass = "minmax" => Cardinality(ivs) <= 1
          /\ opclass = "minmax_multi" => Brin!valuesUsed(ivs) <= VALUES_PER_RANGE
          /\ \A w \in values \union {v} : Brin!Within(w, ivs)
      BY <2>2, <2>4, AddedFits
    <3>2. \A w \in more : Brin!Within(w, ivs)
      BY <3>1
    <3> HIDE DEF ivs
    <3> QED BY <2>1, <3>1, <3>2, MadeGood
  <2> QED BY <2>3, <2>4
<1> QED BY <1>1, <1>2

LEMMA UnsummarizedGood ==
  ASSUME Brin!BrinAssumption, NEW values, NEW opclass
  PROVE  SummaryGood(Brin!Unsummarized, values, opclass)
<1>1. Brin!Unsummarized \in Summary /\ Brin!Unsummarized.made = FALSE /\ Brin!Unsummarized.intervals = {}
  BY DEF Brin!Unsummarized, Summary
<1>2. VALUES_PER_RANGE \in Nat
  BY DEF Brin!BrinAssumption
<1> QED BY <1>1, <1>2, NoneApart DEF SummaryGood

(* Pages and their ranges. *)
BrinRow == [v : Point, moved : BOOLEAN]

LEMMA QuotientIs ==
  ASSUME NEW n \in Nat, NEW d \in Nat \ {0}, NEW q \in Nat, q * d <= n, n < q * d + d
  PROVE  n \div d = q
<1> DEFINE p == n \div d
<1>1. p \in Nat /\ p * d <= n /\ n < p * d + d
  BY Quotient
<1> HIDE DEF p
<1>2. CASE p < q
  <2>1. p + 1 \in Nat /\ p + 1 <= q /\ (p + 1) * d = p * d + d
    BY <1>1, <1>2
  <2>2. (p + 1) * d <= q * d /\ p * d \in Nat /\ q * d \in Nat
    BY <1>1, <2>1, TimesMonotone
  <2> QED BY <1>1, <2>1, <2>2
<1>3. CASE q < p
  <2>1. q + 1 \in Nat /\ q + 1 <= p /\ (q + 1) * d = q * d + d
    BY <1>1, <1>3
  <2>2. (q + 1) * d <= p * d /\ p * d \in Nat /\ q * d \in Nat
    BY <1>1, <2>1, TimesMonotone
  <2> QED BY <1>1, <2>1, <2>2
<1> QED BY <1>1, <1>2, <1>3 DEF p

LEMMA QuotientMonotone ==
  ASSUME NEW m \in Nat, NEW n \in Nat, m <= n, NEW d \in Nat \ {0}
  PROVE  m \div d <= n \div d
<1> DEFINE p == m \div d
           q == n \div d
<1>1. p \in Nat /\ p * d <= m /\ q \in Nat /\ n < q * d + d
  BY Quotient
<1> HIDE DEF p, q
<1>2. CASE q < p
  <2>1. q + 1 \in Nat /\ q + 1 <= p /\ (q + 1) * d = q * d + d
    BY <1>1, <1>2
  <2>2. (q + 1) * d <= p * d /\ p * d \in Nat /\ q * d \in Nat
    BY <1>1, <2>1, TimesMonotone
  <2> QED BY <1>1, <2>1, <2>2
<1> QED BY <1>1, <1>2 DEF p, q

LEMMA QuotientOfNext ==
  ASSUME NEW n \in Nat, NEW d \in Nat \ {0}
  PROVE  /\ (n + d) \div d = n \div d + 1
         /\ (n + 1) \div d \in {n \div d, n \div d + 1}
<1> DEFINE q == n \div d
<1>1. q \in Nat /\ q * d <= n /\ n < q * d + d
  BY Quotient
<1> HIDE DEF q
<1>2. q * d \in Nat /\ (q + 1) * d = q * d + d /\ q + 1 \in Nat
  BY <1>1
<1>3. (n + d) \div d = q + 1
  <2>1. n + d \in Nat /\ (q + 1) * d <= n + d /\ n + d < (q + 1) * d + d
    BY <1>1, <1>2
  <2> QED BY <1>2, <2>1, QuotientIs
<1>4. (n + 1) \div d \in {q, q + 1}
  <2>1. q <= (n + 1) \div d
    <3>1. n + 1 \in Nat /\ n <= n + 1
      OBVIOUS
    <3> QED BY <3>1, QuotientMonotone DEF q
  <2>2. (n + 1) \div d <= q + 1
    <3>1. n + 1 \in Nat /\ n + d \in Nat /\ n + 1 <= n + d
      OBVIOUS
    <3>2. (n + 1) \div d <= (n + d) \div d
      BY <3>1, QuotientMonotone
    <3> QED BY <3>2, <1>3
  <2>3. (n + 1) \div d \in Nat
    <3>1. n + 1 \in Nat
      OBVIOUS
    <3> QED BY <3>1, Quotient
  <2> QED BY <2>1, <2>2, <2>3, <1>1
<1> QED BY <1>3, <1>4 DEF q

LEMMA RangeOfFits ==
  ASSUME NEW n \in Nat \ {0}, NEW d \in Nat \ {0}
  PROVE  /\ Brin!RangeOf(n, d) \in Nat \ {0}
         /\ \A p \in 1 .. n : Brin!RangeOf(p, d) \in 1 .. Brin!RangeOf(n, d)
         /\ Brin!RangeOf(n + 1, d) \in {Brin!RangeOf(n, d), Brin!RangeOf(n, d) + 1}
         /\ Brin!RangeOf(n, d) = Brin!Ceil(n, d)
<1>1. n - 1 \in Nat /\ (n - 1) + 1 = n /\ (n + 1) - 1 = n /\ (n - 1) + d = n + d - 1
  OBVIOUS
<1>2. (n - 1) \div d \in Nat
  BY <1>1, Quotient
<1>3. ASSUME NEW p \in 1 .. n PROVE Brin!RangeOf(p, d) \in 1 .. Brin!RangeOf(n, d)
  <2>1. p - 1 \in Nat /\ p - 1 <= n - 1
    OBVIOUS
  <2>2. (p - 1) \div d \in Nat /\ (p - 1) \div d <= (n - 1) \div d
    BY <1>1, <2>1, Quotient, QuotientMonotone
  <2> QED BY <1>2, <2>2 DEF Brin!RangeOf
<1>4. n \div d \in {(n - 1) \div d, (n - 1) \div d + 1}
  BY <1>1, QuotientOfNext
<1>5. (n + d - 1) \div d = (n - 1) \div d + 1
  BY <1>1, QuotientOfNext
<1> QED BY <1>1, <1>2, <1>3, <1>4, <1>5 DEF Brin!RangeOf, Brin!Ceil

LEMMA RangesCounted ==
  ASSUME NEW A, NEW pages \in Seq(A), Len(pages) >= 1, NEW d \in Nat \ {0}
  PROVE  Brin!rangeCount(pages, d) = Brin!RangeOf(Len(pages), d) /\ Brin!rangeCount(pages, d) \in Nat \ {0}
<1> DEFINE n == Len(pages)
           q == Brin!Ceil(n, d)
<1>1. n \in Nat \ {0}
  OBVIOUS
<1> HIDE DEF n
<1>2. q \in Nat \ {0} /\ q = Brin!RangeOf(n, d)
  BY <1>1, RangeOfFits
<1> HIDE DEF q
<1>3. Brin!Max({1, q}) = q
  <2>1. q \in {1, q} /\ \A y \in {1, q} : q >= y
    BY <1>2
  <2>2. Brin!Max({1, q}) \in {1, q} /\ \A y \in {1, q} : Brin!Max({1, q}) >= y
    BY <2>1 DEF Brin!Max
  <2> QED BY <2>2, <1>2
<1> QED BY <1>2, <1>3 DEF Brin!rangeCount, n, q

(* The values of a range are those of the rows of its pages.               *)
LEMMA ValuesIn ==
  ASSUME NEW pages, NEW d, NEW r, NEW v
  PROVE  v \in Brin!RangeValues(pages, d, r) <=>
           \E p \in DOMAIN pages : \E i \in DOMAIN pages[p] : Brin!RangeOf(p, d) = r /\ v = pages[p][i].v
BY DEF Brin!RangeValues, Brin!ToSet

LEMMA ValuesArePoints ==
  ASSUME NEW pages \in Seq(Seq(BrinRow)), NEW d, NEW r
  PROVE  Brin!RangeValues(pages, d, r) \subseteq Point
<1> SUFFICES ASSUME NEW v \in Brin!RangeValues(pages, d, r) PROVE v \in Point
  OBVIOUS
<1>1. PICK p \in DOMAIN pages : \E i \in DOMAIN pages[p] : v = pages[p][i].v
  BY ValuesIn
<1>2. pages[p] \in Seq(BrinRow)
  BY ElementsAreOf
<1>3. \A i \in DOMAIN pages[p] : pages[p][i] \in BrinRow
  BY <1>2, ElementsAreOf
<1> QED BY <1>1, <1>3 DEF BrinRow

Pages == Seq(Seq(BrinRow))

BrinState ==
  [pages : Pages, ppr : PPR_OPTIONS, opclass : Brin!Opclass, summaries : Seq(Summary), nextTs : 0 .. MaxTs]

PagesFit(pages) ==
  /\ pages \in Pages /\ Len(pages) \in 1 .. MAX_PAGES
  /\ \A p \in DOMAIN pages : Len(pages[p]) <= PAGE_ROWS

(* Every range has a summary, or a place for one, and what is made covers  *)
(* the rows of its pages.                                                  *)
Covers(summaries, pages, ppr, opclass) ==
  /\ summaries \in Seq(Summary)
  /\ Len(summaries) = Brin!rangeCount(pages, ppr)
  /\ \A r \in DOMAIN summaries : SummaryGood(summaries[r], Brin!RangeValues(pages, ppr, r), opclass)

BrinGood(b) ==
  /\ b \in BrinState
  /\ PagesFit(b.pages)
  /\ Covers(b.summaries, b.pages, b.ppr, b.opclass)

BrinInv == BrinGood(brin)

LEMMA PprPositive == Brin!BrinAssumption => \A ppr \in PPR_OPTIONS : ppr \in Nat \ {0}
BY DEF Brin!BrinAssumption

LEMMA RangesOf ==
  ASSUME Brin!BrinAssumption, NEW pages, PagesFit(pages), NEW ppr \in PPR_OPTIONS
  PROVE  /\ Len(pages) \in Nat \ {0} /\ DOMAIN pages = 1 .. Len(pages)
         /\ Brin!rangeCount(pages, ppr) = Brin!RangeOf(Len(pages), ppr) /\ Brin!rangeCount(pages, ppr) \in Nat \ {0}
         /\ \A p \in DOMAIN pages : Brin!RangeOf(p, ppr) \in 1 .. Brin!rangeCount(pages, ppr)
<1>1. pages \in Seq(Seq(BrinRow)) /\ Len(pages) >= 1 /\ Len(pages) \in Nat /\ DOMAIN pages = 1 .. Len(pages)
  BY DEF PagesFit, Pages
<1>2. ppr \in Nat \ {0}
  BY PprPositive
<1>3. Brin!rangeCount(pages, ppr) = Brin!RangeOf(Len(pages), ppr) /\ Brin!rangeCount(pages, ppr) \in Nat \ {0}
  BY <1>1, <1>2, RangesCounted
<1>4. \A p \in 1 .. Len(pages) : Brin!RangeOf(p, ppr) \in 1 .. Brin!RangeOf(Len(pages), ppr)
  <2>1. Len(pages) \in Nat \ {0}
    BY <1>1
  <2> QED BY <2>1, <1>2, RangeOfFits
<1> QED BY <1>1, <1>3, <1>4

(* summarizeRange() makes a summary that covers its range.                 *)
LEMMA RangeSummarized ==
  ASSUME Brin!BrinAssumption, NEW pages \in Pages, NEW ppr, NEW r, NEW opclass \in Brin!Opclass
  PROVE  /\ SummaryGood(Brin!summarizeRange(pages, ppr, r, opclass), Brin!RangeValues(pages, ppr, r), opclass)
         /\ Brin!summarizeRange(pages, ppr, r, opclass) \in Summary
<1>1. Brin!RangeValues(pages, ppr, r) \subseteq Point
  BY ValuesArePoints DEF Pages
<1>2. SummaryGood(Brin!summarizeRange(pages, ppr, r, opclass), Brin!RangeValues(pages, ppr, r), opclass)
  BY <1>1, SummarizedGood DEF Brin!summarizeRange
<1> QED BY <1>2 DEF SummaryGood

LEMMA CreatedCovers ==
  ASSUME Brin!BrinAssumption, NEW pages, PagesFit(pages), NEW ppr \in PPR_OPTIONS, NEW opclass \in Brin!Opclass
  PROVE  Covers(Brin!createIndex(pages, ppr, opclass), pages, ppr, opclass)
<1> DEFINE n == Brin!rangeCount(pages, ppr)
           s == Brin!createIndex(pages, ppr, opclass)
<1>1. n \in Nat
  BY RangesOf
<1> HIDE DEF n
<1>2. s = [r \in 1 .. n |-> Brin!summarizeRange(pages, ppr, r, opclass)]
  BY DEF Brin!createIndex, n
<1> HIDE DEF s
<1>3. \A r \in 1 .. n : Brin!summarizeRange(pages, ppr, r, opclass) \in Summary
  BY RangeSummarized DEF PagesFit
<1>4. s \in [1 .. n -> Summary]
  BY <1>2, <1>3
<1>5. s \in Seq(Summary) /\ Len(s) = n /\ DOMAIN s = 1 .. n
  BY <1>1, <1>4, FunctionIsSeq
<1>6. \A r \in 1 .. n : SummaryGood(s[r], Brin!RangeValues(pages, ppr, r), opclass)
  BY <1>2, RangeSummarized DEF PagesFit
<1>7. Covers(s, pages, ppr, opclass)
  BY <1>5, <1>6 DEF Covers, n
<1> QED BY <1>7 DEF s

(* Some summaries made anew. *)
LEMMA ResummarizedCovers ==
  ASSUME Brin!BrinAssumption, BrinGood(brin), NEW which
  PROVE  BrinGood(Brin!Resummarized(which))
<1> DEFINE old == brin.summaries
           s   == [r \in DOMAIN old |-> IF r \in which
                                        THEN Brin!summarizeRange(brin.pages, brin.ppr, r, brin.opclass)
                                        ELSE old[r]]
           b   == [brin EXCEPT !.summaries = s]
<1>1. /\ brin \in BrinState /\ old \in Seq(Summary) /\ brin.pages \in Pages /\ brin.opclass \in Brin!Opclass
      /\ Covers(old, brin.pages, brin.ppr, brin.opclass) /\ PagesFit(brin.pages)
  BY DEF BrinGood, BrinState
<1>2. b = Brin!Resummarized(which)
  BY <1>1 DEF Brin!Resummarized, BrinState
<1>3. Len(old) \in Nat /\ DOMAIN old = 1 .. Len(old)
  BY <1>1
<1>4. ASSUME NEW r \in DOMAIN old
      PROVE  s[r] \in Summary /\ SummaryGood(s[r], Brin!RangeValues(brin.pages, brin.ppr, r), brin.opclass)
  <2>1. CASE r \in which
    BY <2>1, <1>1, RangeSummarized
  <2>2. CASE r \notin which
    BY <2>2, <1>1 DEF Covers, SummaryGood
  <2> QED BY <2>1, <2>2
<1>5. s \in Seq(Summary) /\ Len(s) = Len(old) /\ DOMAIN s = DOMAIN old
  <2>1. DOMAIN s = 1 .. Len(old) /\ s = [r \in 1 .. Len(old) |-> s[r]]
    BY <1>3
  <2>2. s \in [1 .. Len(old) -> Summary]
    BY <1>3, <1>4
  <2> HIDE DEF s
  <2> QED BY <1>3, <2>1, <2>2, FunctionIsSeq
<1> HIDE DEF s
<1>6. /\ b \in BrinState /\ b.summaries = s /\ b.pages = brin.pages /\ b.ppr = brin.ppr
      /\ b.opclass = brin.opclass
  BY <1>1, <1>5 DEF BrinState
<1>7. Covers(s, brin.pages, brin.ppr, brin.opclass)
  BY <1>1, <1>4, <1>5 DEF Covers
<1> HIDE DEF b
<1>8. BrinGood(b)
  BY <1>1, <1>6, <1>7 DEF BrinGood
<1> QED BY <1>2, <1>8

LEMMA ReindexKeeps ==
  ASSUME Brin!BrinAssumption, BrinInv, NEW ppr \in PPR_OPTIONS, NEW opclass \in Brin!Opclass, Brin!reindex(ppr, opclass)
  PROVE  BrinInv'
<1> DEFINE s == Brin!createIndex(brin.pages, ppr, opclass)
           b == [brin EXCEPT !.ppr = ppr, !.opclass = opclass, !.summaries = s]
<1>1. brin \in BrinState /\ PagesFit(brin.pages)
  BY DEF BrinInv, BrinGood
<1>2. Covers(s, brin.pages, ppr, opclass)
  BY <1>1, CreatedCovers
<1> HIDE DEF s
<1>3. b \in BrinState /\ b.summaries = s /\ b.pages = brin.pages /\ b.ppr = ppr /\ b.opclass = opclass
  BY <1>1, <1>2 DEF BrinState, Covers
<1>4. brin' = b
  BY DEF Brin!reindex, s
<1> HIDE DEF b
<1>5. BrinGood(b)
  BY <1>1, <1>2, <1>3 DEF BrinGood
<1> QED BY <1>4, <1>5 DEF BrinInv

(* Summaries that covered more still cover what is left.                   *)
FewerRows(less, pages) ==
  /\ DOMAIN less = DOMAIN pages /\ Len(less) = Len(pages)
  /\ \A p \in DOMAIN pages : \A i \in DOMAIN less[p] : \E j \in DOMAIN pages[p] : less[p][i] = pages[p][j]

LEMMA LessCovered ==
  ASSUME NEW s, NEW pages, NEW ppr, NEW opclass, Covers(s, pages, ppr, opclass),
         NEW less, FewerRows(less, pages)
  PROVE  Covers(s, less, ppr, opclass)
<1>1. ASSUME NEW r \in DOMAIN s, NEW v \in Brin!RangeValues(less, ppr, r) PROVE v \in Brin!RangeValues(pages, ppr, r)
  <2>1. PICK p \in DOMAIN less : \E i \in DOMAIN less[p] : Brin!RangeOf(p, ppr) = r /\ v = less[p][i].v
    BY ValuesIn
  <2>5. p \in DOMAIN pages
    BY DEF FewerRows
  <2>2. PICK i \in DOMAIN less[p] : Brin!RangeOf(p, ppr) = r /\ v = less[p][i].v
    BY <2>1
  <2>3. PICK j \in DOMAIN pages[p] : less[p][i] = pages[p][j]
    BY <2>5 DEF FewerRows
  <2>4. v = pages[p][j].v
    BY <2>2, <2>3
  <2> QED BY <2>2, <2>4, <2>5, ValuesIn
<1>2. Brin!rangeCount(less, ppr) = Brin!rangeCount(pages, ppr)
  BY DEF Brin!rangeCount, FewerRows
<1> QED BY <1>1, <1>2 DEF Covers, SummaryGood

(* deleteMoved() keeps some of the rows of a page.                         *)
KeptStep(page, rows, i) == IF page[i].moved THEN rows ELSE Append(rows, page[i])

KeptUpTo(page, f) ==
  f = [n \in 0 .. Len(page) |-> IF n = 0 THEN <<>> ELSE KeptStep(page, f[n - 1], n)]

LEMMA KeptSteps ==
  ASSUME NEW page \in Seq(BrinRow), NEW f, KeptUpTo(page, f)
  PROVE  f[0] = <<>> /\ \A n \in 1 .. Len(page) : f[n] = KeptStep(page, f[n - 1], n)
<1>1. Len(page) \in Nat
  OBVIOUS
<1>2. \A n \in 0 .. Len(page) : f[n] = IF n = 0 THEN <<>> ELSE KeptStep(page, f[n - 1], n)
  BY DEF KeptUpTo
<1> QED BY <1>1, <1>2

LEMMA KeptRuns ==
  ASSUME NEW page \in Seq(BrinRow)
  PROVE  \E f : KeptUpTo(page, f) /\ Brin!rowsKept(page) = f[Len(page)]
<1> DEFINE n == Len(page)
           V == Seq(BrinRow)
           F == [x \in V \X (1 .. n) |-> KeptStep(page, x[1], x[2])]
<1>1. n \in Nat /\ (\A i \in 1 .. n : page[i] \in BrinRow) /\ <<>> \in V
  BY EmptySeq
<1> HIDE DEF n
<1>2. F \in [V \X (1 .. n) -> V]
  <2>1. ASSUME NEW x \in V \X (1 .. n) PROVE KeptStep(page, x[1], x[2]) \in V
    <3>1. x[1] \in V /\ page[x[2]] \in BrinRow
      BY <1>1
    <3>2. Append(x[1], page[x[2]]) \in V
      BY <3>1
    <3> HIDE DEF V
    <3> QED BY <3>1, <3>2 DEF KeptStep
  <2> HIDE DEF V
  <2> QED BY <2>1
<1>3. PICK g \in [0 .. n -> V] : Loops(g, n, <<>>, F)
  <2> HIDE DEF F, V
  <2> QED BY <1>1, <1>2, LoopRuns
<1>4. ASSUME NEW i \in 1 .. n PROVE g[i] = KeptStep(page, g[i - 1], i)
  <2>1. i - 1 \in 0 .. n
    BY <1>1
  <2>2. <<g[i - 1], i>> \in V \X (1 .. n)
    BY <2>1
  <2>3. g[i] = F[<<g[i - 1], i>>]
    BY <1>3 DEF Loops
  <2> HIDE DEF V
  <2> QED BY <2>2, <2>3
<1>5. KeptUpTo(page, g)
  <2>0. g[0] = <<>>
    BY <1>3 DEF Loops
  <2>1. \A i \in 0 .. n : g[i] = IF i = 0 THEN <<>> ELSE KeptStep(page, g[i - 1], i)
    BY <2>0, <1>4, <1>1
  <2>2. g = [i \in 0 .. n |-> g[i]]
    OBVIOUS
  <2> QED BY <2>1, <2>2 DEF KeptUpTo, n
<1> DEFINE f == CHOOSE fx : KeptUpTo(page, fx)
<1>6. KeptUpTo(page, f)
  BY <1>5
<1>7. Brin!rowsKept(page) = f[Len(page)]
  BY DEF KeptUpTo, KeptStep, Brin!rowsKept
<1> QED BY <1>6, <1>7

LEMMA KeptRows ==
  ASSUME NEW page \in Seq(BrinRow)
  PROVE  /\ Brin!rowsKept(page) \in Seq(BrinRow) /\ Len(Brin!rowsKept(page)) <= Len(page)
         /\ \A i \in DOMAIN Brin!rowsKept(page) : \E j \in DOMAIN page : Brin!rowsKept(page)[i] = page[j]
<1> DEFINE n == Len(page)
<1>1. n \in Nat /\ DOMAIN page = 1 .. n /\ \A i \in 1 .. n : page[i] \in BrinRow
  OBVIOUS
<1>2. PICK f : KeptUpTo(page, f) /\ Brin!rowsKept(page) = f[n]
  BY KeptRuns
<1>3. f[0] = <<>> /\ \A i \in 1 .. n : f[i] = KeptStep(page, f[i - 1], i)
  BY <1>2, KeptSteps
<1> HIDE DEF n
<1> DEFINE Fits(k) == /\ f[k] \in Seq(BrinRow) /\ Len(f[k]) <= k
                      /\ \A i \in DOMAIN f[k] : \E j \in 1 .. n : f[k][i] = page[j]
           T       == {k \in 0 .. n : Fits(k)}
<1>4. 0 \in T
  <2>1. <<>> \in Seq(BrinRow) /\ Len(<<>>) = 0 /\ DOMAIN <<>> = {}
    BY EmptySeq
  <2>2. Len(f[0]) <= 0 /\ f[0] \in Seq(BrinRow) /\ DOMAIN f[0] = {}
    BY <2>1, <1>3
  <2>3. 0 \in 0 .. n
    BY <1>1
  <2> QED BY <2>2, <2>3
<1>5. ASSUME NEW k \in 0 .. n - 1, k \in T PROVE k + 1 \in T
  <2>1. k + 1 \in 1 .. n /\ (k + 1) - 1 = k /\ k + 1 \in 0 .. n /\ k \in Nat
    BY <1>1
  <2>2. Fits(k) /\ page[k + 1] \in BrinRow
    BY <1>5, <2>1, <1>1
  <2>3. CASE page[k + 1].moved
    <3>1. f[k + 1] = f[k]
      BY <2>1, <2>3, <1>3 DEF KeptStep
    <3>2. f[k] \in Seq(BrinRow) /\ Len(f[k]) <= k /\ Len(f[k]) \in Nat
      BY <2>2
    <3>3. Len(f[k]) <= k + 1
      BY <3>2, <2>1
    <3>4. Fits(k + 1)
      BY <3>1, <3>2, <3>3, <2>2
    <3> QED BY <3>4, <2>1
  <2>4. CASE ~page[k + 1].moved
    <3> DEFINE s == f[k]
               t == Append(s, page[k + 1])
    <3>1. f[k + 1] = t
      BY <2>1, <2>4, <1>3 DEF KeptStep
    <3>2. s \in Seq(BrinRow) /\ Len(s) <= k /\ \A i \in DOMAIN s : \E j \in 1 .. n : s[i] = page[j]
      BY <2>2
    <3> HIDE DEF s
    <3>3. /\ Len(s) \in Nat /\ DOMAIN s = 1 .. Len(s) /\ t \in Seq(BrinRow) /\ Len(t) = Len(s) + 1
          /\ DOMAIN t = 1 .. Len(s) + 1 /\ t[Len(s) + 1] = page[k + 1]
          /\ \A i \in 1 .. Len(s) : t[i] = s[i]
      BY <2>2, <3>2
    <3> HIDE DEF t
    <3>4. ASSUME NEW i \in DOMAIN t PROVE \E j \in 1 .. n : t[i] = page[j]
      <4>1. i \in 1 .. Len(s) \/ i = Len(s) + 1
        BY <3>3
      <4>2. CASE i \in 1 .. Len(s)
        BY <4>2, <3>2, <3>3
      <4>3. CASE i = Len(s) + 1
        BY <4>3, <3>3, <2>1
      <4> QED BY <4>1, <4>2, <4>3
    <3>5. Len(t) <= k + 1
      BY <3>2, <3>3, <2>1
    <3>6. Fits(k + 1)
      BY <3>1, <3>3, <3>4, <3>5
    <3> QED BY <3>6, <2>1
  <2> QED BY <2>3, <2>4
<1>6. Fits(n)
  <2> HIDE DEF T
  <2>1. \A k \in 0 .. n : k \in T
    BY <1>1, <1>4, <1>5, Upto
  <2>2. n \in T
    BY <2>1, <1>1
  <2> QED BY <2>2 DEF T
<1> QED BY <1>1, <1>2, <1>6 DEF n

LEMMA DeleteKeeps == Brin!BrinAssumption /\ BrinInv /\ Brin!deleteMoved => BrinInv'
<1> SUFFICES ASSUME Brin!BrinAssumption, BrinInv, Brin!deleteMoved PROVE BrinInv'
  OBVIOUS
<1> DEFINE old  == brin.pages
           less == [p \in DOMAIN old |-> Brin!rowsKept(old[p])]
           b    == [brin EXCEPT !.pages = less]
<1>1. /\ brin \in BrinState /\ old \in Seq(Seq(BrinRow)) /\ PagesFit(old)
      /\ Covers(brin.summaries, old, brin.ppr, brin.opclass)
  BY DEF BrinInv, BrinGood, PagesFit, Pages
<1>2. brin' = b
  BY <1>1 DEF Brin!deleteMoved, BrinState
<1>3. Len(old) \in Nat /\ DOMAIN old = 1 .. Len(old) /\ \A p \in DOMAIN old : old[p] \in Seq(BrinRow)
  BY <1>1, ElementsAreOf
<1>4. ASSUME NEW p \in DOMAIN old
      PROVE  /\ less[p] \in Seq(BrinRow) /\ Len(less[p]) <= PAGE_ROWS
             /\ \A i \in DOMAIN less[p] : \E j \in DOMAIN old[p] : less[p][i] = old[p][j]
  <2>1. less[p] = Brin!rowsKept(old[p]) /\ old[p] \in Seq(BrinRow)
    BY <1>3
  <2>2. /\ less[p] \in Seq(BrinRow) /\ Len(less[p]) <= Len(old[p])
        /\ \A i \in DOMAIN less[p] : \E j \in DOMAIN old[p] : less[p][i] = old[p][j]
    <3> HIDE DEF less, old
    <3> QED BY <2>1, KeptRows
  <2>3. Len(old[p]) <= PAGE_ROWS /\ Len(old[p]) \in Nat /\ Len(less[p]) \in Nat /\ PAGE_ROWS \in Nat
    BY <2>1, <2>2, <1>1 DEF PagesFit, Brin!BrinAssumption
  <2>4. Len(less[p]) <= PAGE_ROWS
    BY <2>2, <2>3
  <2> QED BY <2>2, <2>4
<1>5. less \in Seq(Seq(BrinRow)) /\ Len(less) = Len(old) /\ DOMAIN less = DOMAIN old
  <2>1. less \in [1 .. Len(old) -> Seq(BrinRow)]
    BY <1>3, <1>4
  <2>2. DOMAIN less = DOMAIN old
    OBVIOUS
  <2> HIDE DEF less
  <2> QED BY <1>3, <2>1, <2>2, FunctionIsSeq
<1> HIDE DEF less
<1>6. PagesFit(less)
  <2>1. Len(less) \in 1 .. MAX_PAGES
    BY <1>1, <1>5 DEF PagesFit
  <2>2. \A p \in DOMAIN less : Len(less[p]) <= PAGE_ROWS
    BY <1>4, <1>5
  <2> QED BY <2>1, <2>2, <1>5 DEF PagesFit, Pages
<1>7. Covers(brin.summaries, less, brin.ppr, brin.opclass)
  <2>1. FewerRows(less, old)
    BY <1>4, <1>5 DEF FewerRows
  <2> QED BY <2>1, <1>1, LessCovered
<1>8. /\ b \in BrinState /\ b.summaries = brin.summaries /\ b.pages = less /\ b.ppr = brin.ppr
      /\ b.opclass = brin.opclass
  BY <1>1, <1>5 DEF BrinState, Pages
<1> HIDE DEF b
<1>9. BrinGood(b)
  BY <1>6, <1>7, <1>8 DEF BrinGood
<1> QED BY <1>2, <1>9 DEF BrinInv

(* A row more on a page: the values of the other ranges are the same.      *)
OneMore(more, pages, p, v) ==
  \A q \in DOMAIN more : \A i \in DOMAIN more[q] :
    \/ q = p /\ more[q][i].v = v
    \/ q \in DOMAIN pages /\ \E j \in DOMAIN pages[q] : more[q][i] = pages[q][j]

LEMMA OneMoreValue ==
  ASSUME NEW more, NEW pages, NEW p, NEW v, OneMore(more, pages, p, v), NEW ppr, NEW r
  PROVE  /\ Brin!RangeValues(more, ppr, r) \subseteq Brin!RangeValues(pages, ppr, r) \union {v}
         /\ r # Brin!RangeOf(p, ppr) => Brin!RangeValues(more, ppr, r) \subseteq Brin!RangeValues(pages, ppr, r)
<1>1. ASSUME NEW w \in Brin!RangeValues(more, ppr, r)
      PROVE  w \in Brin!RangeValues(pages, ppr, r) \/ (w = v /\ r = Brin!RangeOf(p, ppr))
  <2>1. PICK q \in DOMAIN more : \E i \in DOMAIN more[q] : Brin!RangeOf(q, ppr) = r /\ w = more[q][i].v
    BY ValuesIn
  <2>2. PICK i \in DOMAIN more[q] : Brin!RangeOf(q, ppr) = r /\ w = more[q][i].v
    BY <2>1
  <2>3. CASE q = p /\ more[q][i].v = v
    BY <2>2, <2>3
  <2>4. CASE q \in DOMAIN pages /\ \E j \in DOMAIN pages[q] : more[q][i] = pages[q][j]
    <3>1. \E j \in DOMAIN pages[q] : Brin!RangeOf(q, ppr) = r /\ w = pages[q][j].v
      BY <2>2, <2>4
    <3> QED BY <3>1, <2>4, ValuesIn
  <2> QED BY <2>3, <2>4 DEF OneMore
<1> QED BY <1>1

LEMMA UpdateWidens ==
  ASSUME Brin!BrinAssumption, BrinInv, NEW p \in DOMAIN brin.pages, NEW slot, Brin!updateToNow(p, slot)
  PROVE  BrinInv'
<1> DEFINE old   == brin.pages
           ts    == brin.nextTs
           row   == [v |-> ts, moved |-> TRUE]
           page  == [old[p] EXCEPT ![slot] = row]
           more  == [old EXCEPT ![p] = page]
           R     == Brin!RangeOf(p, brin.ppr)
           sums  == [brin.summaries EXCEPT ![R] = Brin!Widened(@, ts, brin.opclass)]
           b     == [brin EXCEPT !.pages = more, !.summaries = sums, !.nextTs = ts + 1]
<1>1. /\ brin \in BrinState /\ old \in Seq(Seq(BrinRow)) /\ PagesFit(old) /\ ts \in 0 .. MaxTs
      /\ Covers(brin.summaries, old, brin.ppr, brin.opclass) /\ brin.ppr \in PPR_OPTIONS
      /\ brin.opclass \in Brin!Opclass /\ brin.summaries \in Seq(Summary)
  BY DEF BrinInv, BrinGood, PagesFit, Pages, BrinState
<1>2. ts < MaxTs /\ slot \in DOMAIN old[p]
  BY DEF Brin!updateToNow
<1>3. MaxTs \in Nat /\ PAGE_ROWS \in Nat
  BY DEF Brin!BrinAssumption
<1>4. ts \in Point /\ ts + 1 \in 0 .. MaxTs /\ row \in BrinRow /\ row.v = ts
  <2>1. ts \in 0 .. MaxTs - 1 /\ ts + 1 \in 0 .. MaxTs
    BY <1>1, <1>2, <1>3
  <2>2. ts \in Point
    BY <2>1 DEF Point
  <2> QED BY <2>1, <2>2 DEF BrinRow
<1>5. brin' = b
  BY <1>1 DEF Brin!updateToNow, BrinState
<1> HIDE DEF ts, row
<1>6. /\ old[p] \in Seq(BrinRow) /\ DOMAIN old[p] = 1 .. Len(old[p]) /\ Len(old[p]) \in Nat
      /\ DOMAIN old = 1 .. Len(old) /\ Len(old) \in Nat
  BY <1>1, ElementsAreOf
<1>7. page \in Seq(BrinRow) /\ Len(page) = Len(old[p]) /\ DOMAIN page = DOMAIN old[p]
      /\ \A i \in DOMAIN page : page[i] = row \/ page[i] = old[p][i]
  BY <1>2, <1>4, <1>6
<1> HIDE DEF page
<1>8. /\ more \in Seq(Seq(BrinRow)) /\ Len(more) = Len(old) /\ DOMAIN more = DOMAIN old
      /\ \A q \in DOMAIN old : more[q] = IF q = p THEN page ELSE old[q]
  BY <1>1, <1>6, <1>7
<1> HIDE DEF more, old
<1>9. PagesFit(more)
  <2>1. Len(more) \in 1 .. MAX_PAGES
    BY <1>1, <1>8 DEF PagesFit
  <2>2. \A q \in DOMAIN more : Len(more[q]) <= PAGE_ROWS
    BY <1>1, <1>7, <1>8 DEF PagesFit
  <2> QED BY <2>1, <2>2, <1>8 DEF PagesFit, Pages
<1>10. OneMore(more, old, p, ts)
  BY <1>4, <1>7, <1>8 DEF OneMore
<1>11. R \in DOMAIN brin.summaries /\ Len(brin.summaries) \in Nat
       /\ DOMAIN brin.summaries = 1 .. Len(brin.summaries)
       /\ Len(brin.summaries) = Brin!rangeCount(more, brin.ppr)
  <2>1. p \in DOMAIN old
    BY DEF old
  <2>2. R \in 1 .. Brin!rangeCount(old, brin.ppr)
    BY <1>1, <2>1, RangesOf
  <2>3. Brin!rangeCount(more, brin.ppr) = Brin!rangeCount(old, brin.ppr)
    BY <1>8 DEF Brin!rangeCount
  <2>4. Len(brin.summaries) = Brin!rangeCount(old, brin.ppr)
    BY <1>1 DEF Covers
  <2>5. Len(brin.summaries) \in Nat /\ DOMAIN brin.summaries = 1 .. Len(brin.summaries)
    BY <1>1
  <2> QED BY <2>2, <2>3, <2>4, <2>5
<1>12. ASSUME NEW r \in DOMAIN brin.summaries
       PROVE  SummaryGood(sums[r], Brin!RangeValues(more, brin.ppr, r), brin.opclass) /\ sums[r] \in Summary
  <2>1. SummaryGood(brin.summaries[r], Brin!RangeValues(old, brin.ppr, r), brin.opclass)
    BY <1>1 DEF Covers
  <2>2. Brin!RangeValues(old, brin.ppr, r) \subseteq Point
    BY <1>1, ValuesArePoints
  <2>3. CASE r = R
    <3>1. sums[r] = Brin!Widened(brin.summaries[r], ts, brin.opclass)
      BY <1>11, <2>3
    <3>2. Brin!RangeValues(more, brin.ppr, r) \subseteq Brin!RangeValues(old, brin.ppr, r) \union {ts}
      BY <1>10, OneMoreValue
    <3>3. SummaryGood(sums[r], Brin!RangeValues(more, brin.ppr, r), brin.opclass)
      BY <3>1, <3>2, <2>1, <2>2, <1>1, <1>4, WidenedGood
    <3> QED BY <3>3 DEF SummaryGood
  <2>4. CASE r # R
    <3>1. sums[r] = brin.summaries[r]
      BY <2>4
    <3>2. Brin!RangeValues(more, brin.ppr, r) \subseteq Brin!RangeValues(old, brin.ppr, r)
      BY <1>10, <2>4, OneMoreValue
    <3> HIDE DEF sums
    <3> QED BY <3>1, <3>2, <2>1 DEF SummaryGood
  <2> QED BY <2>3, <2>4
<1>13. sums \in Seq(Summary) /\ Len(sums) = Len(brin.summaries) /\ DOMAIN sums = DOMAIN brin.summaries
  <2>1. DOMAIN sums = DOMAIN brin.summaries
    OBVIOUS
  <2>2. sums = [r \in DOMAIN brin.summaries |-> sums[r]]
    OBVIOUS
  <2> HIDE DEF sums
  <2>3. sums \in [1 .. Len(brin.summaries) -> Summary]
    BY <2>2, <1>11, <1>12
  <2> QED BY <2>1, <2>3, <1>11, FunctionIsSeq
<1> HIDE DEF sums
<1>14. Covers(sums, more, brin.ppr, brin.opclass)
  BY <1>11, <1>12, <1>13 DEF Covers
<1>15. /\ b \in BrinState /\ b.summaries = sums /\ b.pages = more /\ b.ppr = brin.ppr
       /\ b.opclass = brin.opclass
  BY <1>1, <1>4, <1>8, <1>13 DEF BrinState, Pages
<1> HIDE DEF b
<1>16. BrinGood(b)
  BY <1>9, <1>14, <1>15 DEF BrinGood
<1> QED BY <1>5, <1>16 DEF BrinInv

(* insertRows(), one row of it, its parts by name.                         *)
Full(b)  == Len(Brin!Last(b.pages)) >= PAGE_ROWS
Place(b) == IF Full(b) THEN Len(b.pages) + 1 ELSE Len(b.pages)
PagesWith(b, row) ==
  IF Full(b) THEN Append(b.pages, <<row>>) ELSE [b.pages EXCEPT ![Place(b)] = Append(@, row)]
PlaceRange(b) == Brin!RangeOf(Place(b), b.ppr)
Grown(b) ==
  IF PlaceRange(b) > Len(b.summaries) THEN Append(b.summaries, Brin!Unsummarized) ELSE b.summaries
Asks(b, row, auto) ==
  /\ auto /\ PlaceRange(b) > 1
  /\ Place(b) = (PlaceRange(b) - 1) * b.ppr + 1 /\ Len(PagesWith(b, row)[Place(b)]) = 1
  /\ ~Grown(b)[PlaceRange(b) - 1].made
Asked(b, row, auto) ==
  IF Asks(b, row, auto)
  THEN [Grown(b) EXCEPT ![PlaceRange(b) - 1] =
          Brin!summarizeRange(PagesWith(b, row), b.ppr, PlaceRange(b) - 1, b.opclass)]
  ELSE Grown(b)
SummariesWith(b, row, auto) ==
  [Asked(b, row, auto) EXCEPT ![PlaceRange(b)] = Brin!Widened(@, row.v, b.opclass)]

LEMMA InsertParts ==
  ASSUME NEW b, NEW row, NEW auto
  PROVE  Brin!insertRow(b, row, auto) =
           IF Full(b) /\ Len(b.pages) >= MAX_PAGES THEN b
           ELSE [b EXCEPT !.pages = PagesWith(b, row), !.summaries = SummariesWith(b, row, auto)]
BY Zenon DEF Brin!insertRow, Full, Place, PagesWith, PlaceRange, Grown, Asks, Asked, SummariesWith

Room(b) == ~(Full(b) /\ Len(b.pages) >= MAX_PAGES)

(* The row goes to the last page, or to a new one.                         *)
LEMMA RowPlaced ==
  ASSUME Brin!BrinAssumption, NEW b, BrinGood(b), Room(b), NEW row \in BrinRow
  PROVE  /\ PagesFit(PagesWith(b, row)) /\ Len(PagesWith(b, row)) = Place(b)
         /\ OneMore(PagesWith(b, row), b.pages, Place(b), row.v)
         /\ Place(b) \in {Len(b.pages), Len(b.pages) + 1}
<1> DEFINE old == b.pages
           n   == Len(old)
<1>1. PagesFit(old) /\ old \in Seq(Seq(BrinRow)) /\ n \in Nat \ {0} /\ n <= MAX_PAGES
      /\ DOMAIN old = 1 .. n /\ \A p \in 1 .. n : Len(old[p]) <= PAGE_ROWS
  <2>1. PagesFit(old)
    BY DEF BrinGood
  <2>2. old \in Seq(Seq(BrinRow)) /\ n \in 1 .. MAX_PAGES
    BY <2>1 DEF PagesFit, Pages
  <2>3. n \in Nat /\ DOMAIN old = 1 .. n
    BY <2>2
  <2>4. MAX_PAGES \in Nat
    BY DEF Brin!BrinAssumption
  <2>5. \A p \in DOMAIN old : Len(old[p]) <= PAGE_ROWS
    BY <2>1 DEF PagesFit
  <2> HIDE DEF n, old
  <2> QED BY <2>1, <2>2, <2>3, <2>4, <2>5
<1>2. PAGE_ROWS \in Nat /\ 1 <= PAGE_ROWS /\ MAX_PAGES \in Nat
  BY DEF Brin!BrinAssumption
<1>3. \A p \in 1 .. n : old[p] \in Seq(BrinRow) /\ Len(old[p]) \in Nat /\ DOMAIN old[p] = 1 .. Len(old[p])
  <2>1. \A p \in 1 .. n : old[p] \in Seq(BrinRow)
    BY <1>1, ElementsAreOf
  <2> HIDE DEF old, n
  <2> QED BY <2>1
<1>4. CASE Full(b)
  <2> DEFINE new == Append(old, <<row>>)
  <2>1. PagesWith(b, row) = new /\ Place(b) = n + 1 /\ n + 1 <= MAX_PAGES
    <3>1. ~(n >= MAX_PAGES)
      BY <1>4 DEF Room
    <3> QED BY <3>1, <1>1, <1>2, <1>4 DEF PagesWith, Place
  <2>2. <<row>> \in Seq(BrinRow) /\ Len(<<row>>) = 1 /\ DOMAIN <<row>> = {1} /\ <<row>>[1] = row
    OBVIOUS
  <2> DEFINE page == <<row>>
  <2> HIDE DEF page
  <2>3. /\ Append(old, page) \in Seq(Seq(BrinRow)) /\ Len(Append(old, page)) = n + 1
        /\ DOMAIN Append(old, page) = 1 .. n + 1
        /\ Append(old, page)[n + 1] = page /\ \A p \in 1 .. n : Append(old, page)[p] = old[p]
    <3>1. page \in Seq(BrinRow)
      BY <2>2 DEF page
    <3> HIDE DEF old
    <3> QED BY <3>1, <1>1
  <2>4. /\ new \in Seq(Seq(BrinRow)) /\ Len(new) = n + 1 /\ DOMAIN new = 1 .. n + 1
        /\ new[n + 1] = <<row>> /\ \A p \in 1 .. n : new[p] = old[p]
    BY <2>3 DEF page
  <2> HIDE DEF new, old, n
  <2>5. \A p \in DOMAIN new : p = n + 1 \/ p \in 1 .. n
    BY <1>1, <2>4
  <2>6. PagesFit(new)
    <3>1. Len(new) \in 1 .. MAX_PAGES
      BY <1>1, <1>2, <2>1, <2>4
    <3>2. \A p \in DOMAIN new : Len(new[p]) <= PAGE_ROWS
      BY <1>1, <1>2, <2>2, <2>4, <2>5
    <3> QED BY <3>1, <3>2, <2>4 DEF PagesFit, Pages
  <2>7. OneMore(new, old, n + 1, row.v)
    <3>1. ASSUME NEW q \in DOMAIN new, NEW i \in DOMAIN new[q]
          PROVE  \/ q = n + 1 /\ new[q][i].v = row.v
                 \/ q \in DOMAIN old /\ \E j \in DOMAIN old[q] : new[q][i] = old[q][j]
      <4>1. CASE q = n + 1
        <5>1. i = 1
          BY <4>1, <2>2, <2>4
        <5> QED BY <5>1, <4>1, <2>2, <2>4
      <4>2. CASE q \in 1 .. n
        <5>1. new[q] = old[q] /\ q \in DOMAIN old
          BY <4>2, <2>4, <1>1
        <5> QED BY <5>1
      <4> QED BY <4>1, <4>2, <2>5
    <3> QED BY <3>1 DEF OneMore
  <2> QED BY <2>1, <2>4, <2>6, <2>7 DEF old, n
<1>5. CASE ~Full(b)
  <2> DEFINE page == Append(old[n], row)
             new  == [old EXCEPT ![n] = page]
  <2>1. PagesWith(b, row) = new /\ Place(b) = n
    BY <1>5 DEF PagesWith, Place
  <2>2. Brin!Last(old) = old[n]
    BY DEF Brin!Last
  <2>3. ~(Len(old[n]) >= PAGE_ROWS) /\ n \in 1 .. n
    BY <2>2, <1>1, <1>5 DEF Full
  <2> DEFINE m == Len(old[n])
  <2>4. /\ page \in Seq(BrinRow) /\ Len(page) = m + 1 /\ DOMAIN page = 1 .. m + 1
        /\ page[m + 1] = row /\ \A i \in 1 .. m : page[i] = old[n][i]
    <3>1. old[n] \in Seq(BrinRow)
      BY <2>3, <1>3
    <3> DEFINE last == old[n]
    <3> HIDE DEF last
    <3>2. last \in Seq(BrinRow)
      BY <3>1 DEF last
    <3>3. LET k == Len(last) IN
          /\ Append(last, row) \in Seq(BrinRow) /\ Len(Append(last, row)) = k + 1
          /\ DOMAIN Append(last, row) = 1 .. k + 1
          /\ Append(last, row)[k + 1] = row /\ \A i \in 1 .. k : Append(last, row)[i] = last[i]
      BY <3>2
    <3> QED BY <3>3 DEF last
  <2>5. m \in Nat /\ m + 1 <= PAGE_ROWS /\ DOMAIN old[n] = 1 .. m
    BY <2>3, <1>2, <1>3
  <2> HIDE DEF page, m
  <2>6. /\ new \in Seq(Seq(BrinRow)) /\ Len(new) = n /\ DOMAIN new = 1 .. n
        /\ \A q \in 1 .. n : new[q] = IF q = n THEN page ELSE old[q]
    <3> HIDE DEF old
    <3> QED BY <1>1, <2>4
  <2> HIDE DEF new, old, n
  <2>7. PagesFit(new)
    <3>1. Len(new) \in 1 .. MAX_PAGES
      BY <1>1, <1>2, <2>6
    <3>2. \A q \in DOMAIN new : Len(new[q]) <= PAGE_ROWS
      BY <1>1, <2>4, <2>5, <2>6
    <3> QED BY <3>1, <3>2, <2>6 DEF PagesFit, Pages
  <2>8. OneMore(new, old, n, row.v)
    <3>1. ASSUME NEW q \in DOMAIN new, NEW i \in DOMAIN new[q]
          PROVE  \/ q = n /\ new[q][i].v = row.v
                 \/ q \in DOMAIN old /\ \E j \in DOMAIN old[q] : new[q][i] = old[q][j]
      <4>1. CASE q # n
        <5>1. new[q] = old[q] /\ q \in DOMAIN old
          BY <4>1, <2>6, <1>1
        <5> QED BY <5>1
      <4>2. CASE q = n
        <5>1. new[q] = page /\ (i = m + 1 \/ i \in 1 .. m) /\ q \in DOMAIN old
          BY <4>2, <2>4, <2>5, <2>6, <1>1
        <5>2. CASE i = m + 1
          BY <5>1, <5>2, <4>2, <2>4
        <5>3. CASE i \in 1 .. m
          BY <5>1, <5>3, <4>2, <2>4, <2>5
        <5> QED BY <5>1, <5>2, <5>3
      <4> QED BY <4>1, <4>2
    <3> QED BY <3>1 DEF OneMore
  <2> QED BY <2>1, <2>6, <2>7, <2>8 DEF old, n
<1> QED BY <1>4, <1>5

(* Its range has a place among the summaries, made or not, and the range   *)
(* before it may be summarized.                                            *)
LEMMA GrownCovers ==
  ASSUME Brin!BrinAssumption, NEW b, BrinGood(b), NEW n \in Nat \ {0}, n = Len(b.pages),
         Place(b) \in {n, n + 1}
  PROVE  /\ PlaceRange(b) \in Nat \ {0} /\ Grown(b) \in Seq(Summary) /\ Len(Grown(b)) = PlaceRange(b)
         /\ \A r \in 1 .. PlaceRange(b) :
              SummaryGood(Grown(b)[r], Brin!RangeValues(b.pages, b.ppr, r), b.opclass)
<1> DEFINE s == b.summaries
           R == PlaceRange(b)
           d == b.ppr
           L == Brin!RangeOf(n, d)
<1>1. /\ PagesFit(b.pages) /\ s \in Seq(Summary) /\ Len(s) = Brin!rangeCount(b.pages, d) /\ d \in PPR_OPTIONS
      /\ \A r \in DOMAIN s : SummaryGood(s[r], Brin!RangeValues(b.pages, d, r), b.opclass)
  BY DEF BrinGood, Covers, BrinState
<1>2. Len(s) = L /\ L \in Nat \ {0} /\ DOMAIN s = 1 .. L
  <2>1. Brin!rangeCount(b.pages, d) = L /\ Brin!rangeCount(b.pages, d) \in Nat \ {0}
    BY <1>1, RangesOf
  <2> HIDE DEF L, s
  <2> QED BY <1>1, <2>1
<1>3. R \in {L, L + 1}
  <2>1. d \in Nat \ {0}
    BY <1>1, PprPositive
  <2>2. Brin!RangeOf(n + 1, d) \in {L, L + 1}
    BY <2>1, RangeOfFits
  <2> QED BY <2>2 DEF PlaceRange
<1>4. Grown(b) = IF R > L THEN Append(s, Brin!Unsummarized) ELSE s
  BY <1>2 DEF Grown
<1> HIDE DEF L, R, s, d
<1>5. CASE R = L
  <2>1. Grown(b) = s
    BY <1>2, <1>4, <1>5
  <2>2. R \in Nat \ {0} /\ s \in Seq(Summary) /\ Len(s) = R
        /\ \A r \in 1 .. R : SummaryGood(s[r], Brin!RangeValues(b.pages, d, r), b.opclass)
    BY <1>1, <1>2, <1>5
  <2> QED BY <2>1, <2>2 DEF R, d
<1>6. CASE R = L + 1
  <2> DEFINE t == Append(s, Brin!Unsummarized)
  <2>1. Grown(b) = t
    BY <1>2, <1>4, <1>6
  <2>2. Brin!Unsummarized \in Summary
    BY DEF Brin!Unsummarized, Summary
  <2>3. t \in Seq(Summary) /\ Len(t) = L + 1 /\ t[L + 1] = Brin!Unsummarized /\ \A r \in 1 .. L : t[r] = s[r]
    <3> DEFINE e == Brin!Unsummarized
    <3> HIDE DEF e
    <3>1. e \in Summary
      BY <2>2 DEF e
    <3>2. /\ Append(s, e) \in Seq(Summary) /\ Len(Append(s, e)) = L + 1
          /\ Append(s, e)[L + 1] = e /\ \A r \in 1 .. L : Append(s, e)[r] = s[r]
      BY <3>1, <1>1, <1>2
    <3> QED BY <3>2 DEF e
  <2> HIDE DEF t
  <2>4. ASSUME NEW r \in 1 .. R PROVE SummaryGood(t[r], Brin!RangeValues(b.pages, d, r), b.opclass)
    <3>1. r = L + 1 \/ r \in 1 .. L
      BY <1>2, <1>6
    <3>2. CASE r = L + 1
      BY <3>2, <2>3, UnsummarizedGood
    <3>3. CASE r \in 1 .. L
      BY <3>3, <2>3, <1>1, <1>2
    <3> QED BY <3>1, <3>2, <3>3
  <2>5. R \in Nat \ {0} /\ Len(t) = R
    BY <1>2, <1>6, <2>3
  <2> QED BY <2>1, <2>3, <2>4, <2>5 DEF R, d
<1> QED BY <1>3, <1>5, <1>6

LEMMA AskedCovers ==
  ASSUME Brin!BrinAssumption, NEW b, BrinGood(b), Room(b), NEW row \in BrinRow, NEW auto
  PROVE  /\ PlaceRange(b) \in Nat \ {0}
         /\ Asked(b, row, auto) \in Seq(Summary) /\ Len(Asked(b, row, auto)) = PlaceRange(b)
         /\ SummaryGood(Asked(b, row, auto)[PlaceRange(b)],
                        Brin!RangeValues(b.pages, b.ppr, PlaceRange(b)), b.opclass)
         /\ \A r \in 1 .. PlaceRange(b) : r # PlaceRange(b) =>
              SummaryGood(Asked(b, row, auto)[r], Brin!RangeValues(PagesWith(b, row), b.ppr, r), b.opclass)
<1> DEFINE g   == Grown(b)
           R   == PlaceRange(b)
           new == PagesWith(b, row)
           a   == Asked(b, row, auto)
           sum == Brin!summarizeRange(new, b.ppr, R - 1, b.opclass)
<1>1. /\ PagesFit(new) /\ OneMore(new, b.pages, Place(b), row.v)
      /\ Place(b) \in {Len(b.pages), Len(b.pages) + 1}
  BY RowPlaced
<1>2. Len(b.pages) \in Nat \ {0} /\ b.opclass \in Brin!Opclass /\ b.ppr \in PPR_OPTIONS
  BY RangesOf DEF BrinGood, BrinState
<1>3. /\ R \in Nat \ {0} /\ g \in Seq(Summary) /\ Len(g) = R
      /\ \A r \in 1 .. R : SummaryGood(g[r], Brin!RangeValues(b.pages, b.ppr, r), b.opclass)
  BY <1>1, <1>2, GrownCovers
<1>4. ASSUME NEW r \in 1 .. R, r # R
      PROVE  SummaryGood(g[r], Brin!RangeValues(new, b.ppr, r), b.opclass)
  <2>1. Brin!RangeValues(new, b.ppr, r) \subseteq Brin!RangeValues(b.pages, b.ppr, r)
    BY <1>1, <1>4, OneMoreValue DEF PlaceRange
  <2>2. SummaryGood(g[r], Brin!RangeValues(b.pages, b.ppr, r), b.opclass)
    BY <1>3
  <2> HIDE DEF g, new, R
  <2> QED BY <2>1, <2>2 DEF SummaryGood
<1>5. CASE Asks(b, row, auto)
  <2>1. a = [g EXCEPT ![R - 1] = sum]
    BY <1>5 DEF Asked
  <2>2. R > 1
    BY <1>5 DEF Asks
  <2>3. SummaryGood(sum, Brin!RangeValues(new, b.ppr, R - 1), b.opclass) /\ sum \in Summary
    <3>1. new \in Pages
      BY <1>1 DEF PagesFit
    <3> HIDE DEF new, R
    <3> QED BY <3>1, <1>2, RangeSummarized
  <2> HIDE DEF g, sum, new, R, a
  <2>4. R - 1 \in 1 .. R /\ R - 1 # R
    BY <1>3, <2>2
  <2>5. /\ a \in Seq(Summary) /\ Len(a) = R
        /\ \A r \in 1 .. R : a[r] = IF r = R - 1 THEN sum ELSE g[r]
    BY <1>3, <2>1, <2>3, <2>4
  <2>6. a[R] = g[R] /\ R \in 1 .. R
    BY <2>4, <2>5, <1>3
  <2>7. ASSUME NEW r \in 1 .. R, r # R PROVE SummaryGood(a[r], Brin!RangeValues(new, b.ppr, r), b.opclass)
    <3>1. CASE r = R - 1
      BY <3>1, <2>3, <2>5
    <3>2. CASE r # R - 1
      BY <3>2, <2>5, <2>7, <1>4
    <3> QED BY <3>1, <3>2
  <2>8. SummaryGood(a[R], Brin!RangeValues(b.pages, b.ppr, R), b.opclass)
    BY <2>6, <1>3
  <2> QED BY <1>3, <2>5, <2>7, <2>8 DEF a, R, new
<1>6. CASE ~Asks(b, row, auto)
  <2>1. a = g
    BY <1>6 DEF Asked
  <2> HIDE DEF g, sum, new, R, a
  <2>2. R \in 1 .. R
    BY <1>3
  <2>3. SummaryGood(a[R], Brin!RangeValues(b.pages, b.ppr, R), b.opclass)
    BY <2>1, <2>2, <1>3
  <2> QED BY <1>3, <1>4, <2>1, <2>3 DEF a, R, new
<1> QED BY <1>5, <1>6

LEMMA InsertGood ==
  ASSUME Brin!BrinAssumption, NEW b, BrinGood(b), NEW row \in BrinRow, NEW auto
  PROVE  BrinGood(Brin!insertRow(b, row, auto)) /\ Brin!insertRow(b, row, auto).nextTs = b.nextTs
<1> DEFINE c   == Brin!insertRow(b, row, auto)
           new == PagesWith(b, row)
           R   == PlaceRange(b)
           a   == Asked(b, row, auto)
           s   == SummariesWith(b, row, auto)
<1>1. CASE ~Room(b)
  <2>1. c = b
    BY <1>1, InsertParts DEF Room
  <2> HIDE DEF c
  <2> QED BY <2>1 DEF c
<1>2. CASE Room(b)
  <2>1. c = [b EXCEPT !.pages = new, !.summaries = s]
    BY <1>2, InsertParts DEF Room
  <2>2. /\ b \in BrinState /\ PagesFit(b.pages) /\ b.opclass \in Brin!Opclass /\ b.ppr \in PPR_OPTIONS
    BY DEF BrinGood, BrinState
  <2>3. /\ PagesFit(new) /\ Len(new) = Place(b) /\ OneMore(new, b.pages, Place(b), row.v)
    BY <1>2, RowPlaced
  <2>4. /\ R \in Nat \ {0} /\ a \in Seq(Summary) /\ Len(a) = R
        /\ SummaryGood(a[R], Brin!RangeValues(b.pages, b.ppr, R), b.opclass)
        /\ \A r \in 1 .. R : r # R => SummaryGood(a[r], Brin!RangeValues(new, b.ppr, r), b.opclass)
    BY <1>2, AskedCovers
  <2>5. Brin!rangeCount(new, b.ppr) = R
    BY <2>2, <2>3, RangesOf DEF PlaceRange
  <2> DEFINE w == Brin!Widened(a[R], row.v, b.opclass)
  <2>6. SummaryGood(w, Brin!RangeValues(new, b.ppr, R), b.opclass) /\ w \in Summary
    <3>1. Brin!RangeValues(new, b.ppr, R) \subseteq Brin!RangeValues(b.pages, b.ppr, R) \union {row.v}
      BY <2>3, OneMoreValue
    <3>2. Brin!RangeValues(b.pages, b.ppr, R) \subseteq Point
      BY <2>2, ValuesArePoints DEF PagesFit, Pages
    <3>3. row.v \in Point
      BY DEF BrinRow
    <3>4. SummaryGood(w, Brin!RangeValues(new, b.ppr, R), b.opclass)
      <4> HIDE DEF R, new, a
      <4> QED BY <2>2, <2>4, <3>1, <3>2, <3>3, WidenedGood
    <3> HIDE DEF w
    <3> QED BY <3>4 DEF SummaryGood
  <2>7. s = [a EXCEPT ![R] = w]
    BY DEF SummariesWith
  <2> HIDE DEF a, R, w, s, new, c
  <2>8. /\ s \in Seq(Summary) /\ Len(s) = R /\ DOMAIN s = 1 .. R
        /\ \A r \in 1 .. R : s[r] = IF r = R THEN w ELSE a[r]
    BY <2>4, <2>6, <2>7
  <2>9. ASSUME NEW r \in DOMAIN s PROVE SummaryGood(s[r], Brin!RangeValues(new, b.ppr, r), b.opclass)
    <3>1. CASE r = R
      BY <3>1, <2>6, <2>8
    <3>2. CASE r # R
      BY <3>2, <2>4, <2>8
    <3> QED BY <3>1, <3>2
  <2>10. Covers(s, new, b.ppr, b.opclass)
    BY <2>5, <2>8, <2>9 DEF Covers
  <2>11. /\ c \in BrinState /\ c.pages = new /\ c.summaries = s /\ c.ppr = b.ppr
         /\ c.opclass = b.opclass /\ c.nextTs = b.nextTs
    <3>1. new \in Pages
      BY <2>3 DEF PagesFit
    <3> QED BY <3>1, <2>1, <2>2, <2>8 DEF BrinState
  <2>12. BrinGood(c)
    BY <2>3, <2>10, <2>11 DEF BrinGood
  <2> QED BY <2>11, <2>12 DEF c
<1> QED BY <1>1, <1>2

(* The rows of one button, one after the other.                            *)
InsertedAfter(b, rows, auto, f) ==
  f = [n \in 0 .. Len(rows) |-> IF n = 0 THEN b ELSE Brin!insertRow(f[n - 1], rows[n], auto)]

LEMMA RowsInserted ==
  ASSUME Brin!BrinAssumption, NEW b, BrinGood(b), NEW rows \in Seq(BrinRow), NEW auto
  PROVE  BrinGood(Brin!insertRows(b, rows, auto)) /\ Brin!insertRows(b, rows, auto).nextTs = b.nextTs
<1> DEFINE m == Len(rows)
           V == {c \in BrinState : BrinGood(c) /\ c.nextTs = b.nextTs}
           F == [x \in V \X (1 .. m) |-> Brin!insertRow(x[1], rows[x[2]], auto)]
<1>1. m \in Nat /\ \A i \in 1 .. m : rows[i] \in BrinRow
  OBVIOUS
<1> HIDE DEF m
<1>2. \A c \in V, row \in BrinRow : Brin!insertRow(c, row, auto) \in V
  <2>1. ASSUME NEW c \in V, NEW row \in BrinRow PROVE Brin!insertRow(c, row, auto) \in V
    <3>1. BrinGood(Brin!insertRow(c, row, auto)) /\ Brin!insertRow(c, row, auto).nextTs = b.nextTs
      BY InsertGood
    <3> QED BY <3>1 DEF BrinGood
  <2> QED BY <2>1
<1>3. b \in V
  BY DEF BrinGood
<1>4. F \in [V \X (1 .. m) -> V]
  <2>1. ASSUME NEW x \in V \X (1 .. m) PROVE Brin!insertRow(x[1], rows[x[2]], auto) \in V
    <3>1. x[1] \in V /\ rows[x[2]] \in BrinRow
      BY <1>1
    <3> QED BY <3>1, <1>2
  <2> HIDE DEF V
  <2> QED BY <2>1
<1> HIDE DEF V
<1>5. PICK g \in [0 .. m -> V] : Loops(g, m, b, F)
  <2> HIDE DEF F
  <2> QED BY <1>1, <1>3, <1>4, LoopRuns
<1>6. ASSUME NEW i \in 1 .. m PROVE g[i] = Brin!insertRow(g[i - 1], rows[i], auto)
  <2>1. i - 1 \in 0 .. m
    BY <1>1
  <2>2. <<g[i - 1], i>> \in V \X (1 .. m)
    BY <2>1
  <2>3. g[i] = F[<<g[i - 1], i>>]
    BY <1>5 DEF Loops
  <2> QED BY <2>2, <2>3
<1>7. InsertedAfter(b, rows, auto, g)
  <2>0. g[0] = b
    BY <1>5 DEF Loops
  <2>1. \A i \in 0 .. m : g[i] = IF i = 0 THEN b ELSE Brin!insertRow(g[i - 1], rows[i], auto)
    BY <2>0, <1>6, <1>1
  <2>2. g = [i \in 0 .. m |-> g[i]]
    OBVIOUS
  <2> QED BY <2>1, <2>2 DEF InsertedAfter, m
<1> DEFINE f == CHOOSE fx : InsertedAfter(b, rows, auto, fx)
<1>8. InsertedAfter(b, rows, auto, f)
  BY <1>7
<1>9. Brin!insertRows(b, rows, auto) = f[m]
  BY DEF InsertedAfter, Brin!insertRows, m
<1> HIDE DEF f
<1>10. f[0] = b /\ \A i \in 1 .. m : f[i] = Brin!insertRow(f[i - 1], rows[i], auto)
  <2>1. \A i \in 0 .. m : f[i] = IF i = 0 THEN b ELSE Brin!insertRow(f[i - 1], rows[i], auto)
    BY <1>8 DEF InsertedAfter, m
  <2> QED BY <2>1, <1>1
<1> DEFINE T == {i \in 0 .. m : f[i] \in V}
<1>11. 0 \in T
  BY <1>1, <1>3, <1>10
<1>12. ASSUME NEW i \in 0 .. m - 1, i \in T PROVE i + 1 \in T
  <2>1. i + 1 \in 1 .. m /\ (i + 1) - 1 = i /\ i + 1 \in 0 .. m
    BY <1>1
  <2>2. f[i + 1] = Brin!insertRow(f[i], rows[i + 1], auto) /\ rows[i + 1] \in BrinRow
    BY <2>1, <1>1, <1>10
  <2>3. f[i] \in V
    BY <1>12
  <2>4. f[i + 1] \in V
    BY <2>2, <2>3, <1>2
  <2> QED BY <2>1, <2>4
<1>13. f[m] \in V
  <2> HIDE DEF T
  <2>1. \A i \in 0 .. m : i \in T
    BY <1>1, <1>11, <1>12, Upto
  <2>2. m \in T
    BY <2>1, <1>1
  <2> QED BY <2>2 DEF T
<1> QED BY <1>9, <1>13 DEF V

LEMMA InOrderKeeps ==
  ASSUME Brin!BrinAssumption, BrinInv, NEW auto \in BOOLEAN, Brin!appendInOrder(auto)
  PROVE  BrinInv'
<1> DEFINE ts   == brin.nextTs
           n    == InOrderCount
           rows == [k \in 1 .. n |-> [v |-> ts + k - 1, moved |-> FALSE]]
           c    == Brin!insertRows(brin, rows, auto)
<1>1. n \in Nat \ {0} /\ MaxTs \in Nat /\ ts \in 0 .. MaxTs /\ BrinGood(brin)
  BY DEF Brin!BrinAssumption, BrinInv, BrinGood, BrinState
<1>2. ts + n <= MaxTs /\ brin' = [c EXCEPT !.nextTs = @ + n]
  BY DEF Brin!appendInOrder
<1> HIDE DEF ts, n
<1>3. rows \in Seq(BrinRow)
  <2>1. ASSUME NEW k \in 1 .. n PROVE [v |-> ts + k - 1, moved |-> FALSE] \in BrinRow
    <3>1. ts + k - 1 \in 0 .. MaxTs - 1
      BY <1>1, <1>2
    <3>2. ts + k - 1 \in Point
      BY <3>1 DEF Point
    <3> QED BY <3>2 DEF BrinRow
  <2>2. rows \in [1 .. n -> BrinRow] /\ n \in Nat
    BY <2>1, <1>1
  <2> HIDE DEF rows
  <2> QED BY <2>2, FunctionIsSeq
<1> HIDE DEF rows
<1>4. BrinGood(c) /\ c.nextTs = ts
  BY <1>1, <1>3, RowsInserted DEF ts
<1> DEFINE e == [c EXCEPT !.nextTs = @ + n]
<1> HIDE DEF c
<1>5. c \in BrinState /\ PagesFit(c.pages) /\ Covers(c.summaries, c.pages, c.ppr, c.opclass)
  BY <1>4 DEF BrinGood
<1>6. ts + n \in 0 .. MaxTs
  BY <1>1, <1>2
<1>7. /\ e \in BrinState /\ e.pages = c.pages /\ e.summaries = c.summaries /\ e.ppr = c.ppr
      /\ e.opclass = c.opclass
  BY <1>4, <1>5, <1>6 DEF BrinState
<1> HIDE DEF e
<1>8. BrinGood(e)
  BY <1>5, <1>7 DEF BrinGood
<1> QED BY <1>2, <1>8 DEF BrinInv, e

LEMMA LateKeeps ==
  ASSUME Brin!BrinAssumption, BrinInv, NEW auto \in BOOLEAN, NEW vs \in [1 .. LateCount -> LateValue],
         Brin!appendLate(vs, auto)
  PROVE  BrinInv'
<1> DEFINE n    == LateCount
           rows == [k \in 1 .. n |-> [v |-> vs[k], moved |-> TRUE]]
<1>1. n \in Nat \ {0} /\ MaxTs \in Nat /\ brin.nextTs \in 0 .. MaxTs /\ BrinGood(brin)
      /\ LateValue \subseteq Nat
  BY DEF Brin!BrinAssumption, BrinInv, BrinGood, BrinState
<1>2. (\A k \in 1 .. n : vs[k] < brin.nextTs) /\ brin' = Brin!insertRows(brin, rows, auto)
  BY DEF Brin!appendLate
<1>3. rows \in Seq(BrinRow)
  <2>1. ASSUME NEW k \in 1 .. n PROVE [v |-> vs[k], moved |-> TRUE] \in BrinRow
    <3>1. vs[k] \in Nat /\ vs[k] < brin.nextTs
      BY <1>1, <1>2
    <3>2. vs[k] \in Point
      BY <1>1, <3>1 DEF Point
    <3> QED BY <3>2 DEF BrinRow
  <2>2. rows \in [1 .. n -> BrinRow] /\ n \in Nat
    BY <2>1, <1>1
  <2> HIDE DEF rows, n
  <2> QED BY <2>2, FunctionIsSeq
<1> HIDE DEF rows
<1> QED BY <1>1, <1>2, <1>3, RowsInserted DEF BrinInv

(* The heap that the lab begins with.                                      *)
LEMMA BrinInitInv == Brin!BrinAssumption /\ Brin!BrinInit => BrinInv
<1> SUFFICES ASSUME Brin!BrinAssumption, Brin!BrinInit PROVE BrinInv
  OBVIOUS
<1>1. PICK start \in Brin!Heaps, ppr \in PPR_OPTIONS, opclass \in Brin!Opclass : brin = Brin!newLab(start, ppr, opclass)
  BY DEF Brin!BrinInit
<1> DEFINE N     == START_PAGES
           M     == PAGE_ROWS
           page  == [p \in 1 .. N |-> [i \in 1 .. M |-> start[(p - 1) * M + i]]]
<1>2. N \in Nat \ {0} /\ M \in Nat \ {0} /\ N <= MAX_PAGES /\ MAX_PAGES \in Nat /\ MaxTs \in Nat
      /\ N * M <= MaxTs
  BY DEF Brin!BrinAssumption
<1>3. start \in [Brin!StartRows -> [v : {i - 1 : i \in Brin!StartRows}, moved : BOOLEAN]]
      /\ Brin!StartRows = 1 .. N * M
  BY <1>1 DEF Brin!Heaps, Brin!StartRows
<1> HIDE DEF N, M
<1>4. N * M \in Nat
  BY <1>2
<1>5. \A i \in Brin!StartRows : start[i] \in BrinRow
  <2>1. ASSUME NEW i \in Brin!StartRows PROVE i - 1 \in Point
    <3> DEFINE z == N * M
    <3>1. i \in 1 .. z /\ z \in Nat /\ z <= MaxTs
      BY <1>2, <1>3, <1>4
    <3> HIDE DEF z
    <3>2. i - 1 \in 0 .. MaxTs - 1
      BY <3>1, <1>2
    <3> QED BY <3>2 DEF Point
  <2>2. ASSUME NEW i \in Brin!StartRows PROVE start[i] \in BrinRow
    <3>1. start[i] \in [v : {k - 1 : k \in Brin!StartRows}, moved : BOOLEAN]
      BY <1>3
    <3>2. {k - 1 : k \in Brin!StartRows} \subseteq Point
      BY <2>1
    <3> QED BY <3>1, <3>2 DEF BrinRow
  <2> QED BY <2>2
<1>6. ASSUME NEW p \in 1 .. N, NEW i \in 1 .. M PROVE (p - 1) * M + i \in Brin!StartRows
  <2>1. p - 1 \in Nat /\ p \in Nat /\ N \in Nat /\ p <= N /\ M \in Nat
    BY <1>2
  <2>2. p * M \in Nat /\ p * M <= N * M
    BY <2>1, TimesMonotone
  <2>3. (p - 1) * M \in Nat /\ p * M = (p - 1) * M + M
    BY <2>1
  <2> DEFINE x == (p - 1) * M
             y == p * M
             z == N * M
  <2>4. x \in Nat /\ y \in Nat /\ z \in Nat /\ y = x + M /\ y <= z /\ Brin!StartRows = 1 .. z
    BY <2>2, <2>3, <1>3, <1>4
  <2> HIDE DEF x, y, z
  <2>5. x + i \in 1 .. z
    BY <2>1, <2>4
  <2> QED BY <2>4, <2>5 DEF x
<1>7. ASSUME NEW p \in 1 .. N PROVE page[p] \in Seq(BrinRow) /\ Len(page[p]) = M
  <2> DEFINE f == [i \in 1 .. M |-> start[(p - 1) * M + i]]
  <2>1. f \in [1 .. M -> BrinRow] /\ M \in Nat
    BY <1>2, <1>5, <1>6
  <2>2. page[p] = f
    OBVIOUS
  <2> HIDE DEF f, page
  <2> QED BY <2>1, <2>2, FunctionIsSeq
<1>8. page \in Seq(Seq(BrinRow)) /\ Len(page) = N
  <2>1. page = [p \in 1 .. N |-> page[p]]
    OBVIOUS
  <2> HIDE DEF page
  <2>2. page \in [1 .. N -> Seq(BrinRow)] /\ N \in Nat
    BY <2>1, <1>2, <1>7
  <2> QED BY <2>2, FunctionIsSeq
<1>9. brin = [pages |-> page, ppr |-> ppr, opclass |-> opclass,
              summaries |-> Brin!createIndex(page, ppr, opclass), nextTs |-> N * M]
  BY <1>1 DEF Brin!newLab, N, M
<1> HIDE DEF page
<1>10. PagesFit(page)
  <2>1. Len(page) \in 1 .. MAX_PAGES /\ DOMAIN page = 1 .. N
    BY <1>2, <1>8
  <2>2. \A p \in DOMAIN page : Len(page[p]) <= PAGE_ROWS
    <3>1. \A p \in 1 .. N : Len(page[p]) = M
      BY <1>7
    <3>2. M <= M /\ M = PAGE_ROWS
      BY <1>2 DEF M
    <3> QED BY <2>1, <3>1, <3>2
  <2> QED BY <1>8, <2>1, <2>2 DEF PagesFit, Pages
<1> DEFINE s == Brin!createIndex(page, ppr, opclass)
<1>11. Covers(s, page, ppr, opclass)
  BY <1>1, <1>10, CreatedCovers
<1> HIDE DEF s
<1>12. s \in Seq(Summary) /\ page \in Pages /\ N * M \in 0 .. MaxTs
  BY <1>2, <1>4, <1>8, <1>11 DEF Covers, Pages
<1> DEFINE z == N * M
<1> HIDE DEF z
<1>13. brin = [pages |-> page, ppr |-> ppr, opclass |-> opclass, summaries |-> s, nextTs |-> z]
  BY <1>9 DEF s, z
<1>14. /\ brin \in BrinState /\ brin.pages = page /\ brin.summaries = s /\ brin.ppr = ppr
       /\ brin.opclass = opclass
  BY <1>1, <1>12, <1>13 DEF BrinState, z
<1> QED BY <1>10, <1>11, <1>14 DEF BrinInv, BrinGood

LEMMA BrinNextInv == Brin!BrinAssumption /\ BrinInv /\ Brin!BrinStep => BrinInv'
<1> SUFFICES ASSUME Brin!BrinAssumption, BrinInv, Brin!BrinStep PROVE BrinInv'
  OBVIOUS
<1>1. ASSUME NEW ppr \in PPR_OPTIONS, NEW opclass \in Brin!Opclass, Brin!reindex(ppr, opclass) PROVE BrinInv'
  BY <1>1, ReindexKeeps
<1>2. ASSUME NEW auto \in BOOLEAN, Brin!appendInOrder(auto) PROVE BrinInv'
  BY <1>2, InOrderKeeps
<1>3. ASSUME NEW auto \in BOOLEAN, NEW vs \in [1 .. LateCount -> LateValue], Brin!appendLate(vs, auto)
      PROVE  BrinInv'
  BY <1>3, LateKeeps
<1>4. ASSUME NEW p \in DOMAIN brin.pages, NEW slot \in 1 .. PAGE_ROWS, Brin!updateToNow(p, slot)
      PROVE  BrinInv'
  BY <1>4, UpdateWidens
<1>5. CASE Brin!deleteMoved
  BY <1>5, DeleteKeeps
<1>6. ASSUME NEW which, brin' = Brin!Resummarized(which) PROVE BrinInv'
  BY <1>6, ResummarizedCovers DEF BrinInv
<1>7. CASE Brin!vacuum \/ Brin!summarizeNewValues \/ Brin!resummarizeAll
  BY <1>6, <1>7 DEF Brin!vacuum, Brin!summarizeNewValues, Brin!resummarizeAll
<1> QED BY <1>1, <1>2, <1>3, <1>4, <1>5, <1>7 DEF Brin!BrinStep

LEMMA BrinMeans == Brin!BrinAssumption /\ BrinInv => Brin!NothingMissed /\ Brin!SummariesFit
<1> SUFFICES ASSUME Brin!BrinAssumption, BrinInv PROVE Brin!NothingMissed /\ Brin!SummariesFit
  OBVIOUS
<1> DEFINE s == brin.summaries
<1>1. /\ PagesFit(brin.pages) /\ brin.opclass \in Brin!Opclass
      /\ Covers(s, brin.pages, brin.ppr, brin.opclass)
  BY DEF BrinInv, BrinGood, BrinState
<1>2. \A r \in DOMAIN s : SummaryGood(s[r], Brin!RangeValues(brin.pages, brin.ppr, r), brin.opclass)
  BY <1>1 DEF Covers
<1>3. Brin!NothingMissed
  <2>1. ASSUME NEW r \in DOMAIN s, NEW v \in Brin!RangeValues(brin.pages, brin.ppr, r), r \in Brin!pruned(v, v)
        PROVE  FALSE
    <3>1. s[r].made /\ \A iv \in s[r].intervals : iv[1] > v \/ iv[2] < v
      BY <2>1 DEF Brin!pruned
    <3>2. Brin!Within(v, s[r].intervals) /\ s[r].intervals \subseteq Interval
      BY <1>2, <3>1 DEF SummaryGood, Apart
    <3>3. PICK iv \in s[r].intervals : iv[1] <= v /\ v <= iv[2]
      BY <3>2 DEF Brin!Within
    <3>4. v \in Point
      BY <1>1, ValuesArePoints DEF PagesFit, Pages
    <3>5. iv[1] \in Int /\ iv[2] \in Int /\ v \in Int
      BY <3>2, <3>3, <3>4 DEF Interval, Point
    <3>6. iv[1] > v \/ iv[2] < v
      BY <3>1, <3>3
    <3> QED BY <3>3, <3>5, <3>6
  <2> HIDE DEF s
  <2> QED BY <2>1 DEF Brin!NothingMissed, s
<1>4. Brin!SummariesFit
  <2>1. \A r \in DOMAIN s :
          /\ brin.opclass = "minmax" => Brin!Cardinality(s[r].intervals) <= 1
          /\ brin.opclass = "minmax_multi" => Brin!valuesUsed(s[r].intervals) <= VALUES_PER_RANGE
          /\ \A a, b \in s[r].intervals : a # b => a[2] < b[1] \/ b[2] < a[1]
    BY <1>2, BrinCounts DEF SummaryGood, Apart
  <2>2. Len(s) = Brin!rangeCount(brin.pages, brin.ppr)
    BY <1>1 DEF Covers
  <2> QED BY <2>1, <2>2 DEF Brin!SummariesFit
<1> QED BY <1>3, <1>4

LEMMA BrinTypes == Brin!BrinAssumption /\ BrinInv => Brin!BrinTypeOK
<1> SUFFICES ASSUME Brin!BrinAssumption, BrinInv PROVE Brin!BrinTypeOK
  OBVIOUS
<1>1. brin \in BrinState /\ PagesFit(brin.pages) /\ MAX_PAGES \in Nat
  BY DEF BrinInv, BrinGood, Brin!BrinAssumption
<1>2. /\ brin.pages \in Seq(Seq([v : 0 .. MaxTs - 1, moved : BOOLEAN])) /\ Len(brin.pages) <= MAX_PAGES
      /\ \A p \in DOMAIN brin.pages : Len(brin.pages[p]) <= PAGE_ROWS
  BY <1>1 DEF PagesFit, Pages, BrinRow, Point
<1>3. brin.ppr \in PPR_OPTIONS /\ brin.opclass \in Brin!Opclass /\ brin.nextTs \in 0 .. MaxTs
  BY <1>1 DEF BrinState
<1> QED BY <1>2, <1>3 DEF Brin!BrinTypeOK

LEMMA BrinAlways == Spec => []BrinInv
<1>1. Init => BrinInv
  BY Assumption, BrinInitInv DEF Init
<1>2. BrinInv /\ [Next]_vars => BrinInv'
  <2> SUFFICES ASSUME BrinInv, [Next]_vars PROVE BrinInv'
    OBVIOUS
  <2>1. ASSUME UNCHANGED brin PROVE BrinInv'
    BY <2>1 DEF BrinInv
  <2>2. CASE UNCHANGED vars
    BY <2>1, <2>2 DEF vars
  <2>3. CASE Next /\ lab # "brin"
    BY <2>1, <2>3 DEF Next, Others
  <2>4. CASE Next /\ lab = "brin"
    <3>1. Brin!BrinStep
      BY <2>4 DEF Next, Step
    <3> QED BY <3>1, Assumption, BrinNextInv
  <2> QED BY <2>2, <2>3, <2>4
<1> QED BY <1>1, <1>2, PTL DEF Spec

LEMMA GinAlways == Spec => []GinInv
<1>1. Init => GinInv
  BY Assumption, GinInitInv DEF Init
<1>2. GinInv /\ [Next]_vars => GinInv'
  <2> SUFFICES ASSUME GinInv, [Next]_vars PROVE GinInv'
    OBVIOUS
  <2>1. ASSUME UNCHANGED gin PROVE GinInv'
    BY <2>1 DEF GinInv, WithinLimits
  <2>2. CASE UNCHANGED vars
    BY <2>1, <2>2 DEF vars
  <2>3. CASE Next /\ lab # "gin"
    BY <2>1, <2>3 DEF Next, Others
  <2>4. CASE Next /\ lab = "gin"
    <3>1. Gin!GinStep
      BY <2>4 DEF Next, Step
    <3> QED BY <3>1, Assumption, GinNextInv
  <2> QED BY <2>2, <2>3, <2>4
<1> QED BY <1>1, <1>2, PTL DEF Spec

-------------------------------------------------------------------------------
(* No scan leaves out a block range with a row that matches                *)
(* (BrinZoneMapPruningLab), every range has its place in the index, and a  *)
(* summary keeps to its limit with intervals that stay apart: for any      *)
(* sizes of pages and ranges and any limit that is even, whatever was      *)
(* inserted, updated, deleted and summarized in which order.               *)
THEOREM RangesMissNothing == Spec => [](Brin!NothingMissed /\ Brin!SummariesFit)
<1>1. BrinInv => Brin!NothingMissed /\ Brin!SummariesFit
  BY Assumption, BrinMeans
<1> QED BY <1>1, BrinAlways, PTL

(* A row is in the inverted index (GinPostingListLab) once under each of   *)
(* its keys, in a posting list or on its way there, the lists are in the   *)
(* order of the rows but for rows that did not wait beside rows that did,  *)
(* and the pending pages account for what is pending: for any sets of keys *)
(* and any sizes and limits of the list.                                   *)
THEOREM PostingsAreOnce == Spec => [](Gin!EachOnce /\ Gin!PendingFits)
<1>1. GinInv => Gin!EachOnce /\ Gin!PendingFits
  BY GinMeansOnce
<1> QED BY <1>1, GinAlways, PTL

(* What is read through an index or a cache is right, in each of the labs  *)
(* that read through one.                                                  *)
THEOREM ReadsThroughIndexesAreRight == Spec => []AnswersRight
<1>1. /\ lab = "hot"     => Hot!EntriesLead
      /\ lab = "scan"    => Scan!ScanReturnsRows /\ Scan!UncheckedIsSettled
      /\ lab = "catalog" => Catalog!StaleIsFoundOut
      /\ Brin!NothingMissed /\ Brin!SummariesFit
      /\ Gin!EachOnce /\ Gin!PendingFits
      => AnswersRight
  BY DEF AnswersRight
<1> QED BY <1>1, EntriesLeadToRows, ScansAnswerRight, CacheFindsOut, RangesMissNothing,
           PostingsAreOnce, PTL
===============================================================================
