---------------------------- MODULE LatchFreeProofs ----------------------------
(***************************************************************************)
(* What holds of the structures that are read without latches: of the list *)
(* for every number of readers, list length, retire-list threshold and     *)
(* memory; of the file with two meta pages for every shape of its tree and *)
(* every sequence of commits; and of the record under a sequence lock.     *)
(***************************************************************************)
EXTENDS LatchFree, FiniteSetTheorems, SequenceTheorems, WellFoundedInduction, TLAPS

(* The live nodes, each once, in the order of the list. *)
Chain(h, nx, S, n, f) ==
  /\ f \in [1 .. n -> S]
  /\ \A s \in S : \E i \in 1 .. n : f[i] = s
  /\ \A i, j \in 1 .. n : f[i] = f[j] => i = j
  /\ h = IF n = 0 THEN Nil ELSE f[1]
  /\ \A i \in 1 .. n : nx[f[i]] = IF i = n THEN Nil ELSE f[i + 1]

ListStands == \E f \in [1 .. ListLen -> Live] : Chain(head, next, Live, ListLen, f)

(* What belongs to the other schemes is not in use. *)
OneScheme ==
  /\ scheme # "ebr" => \A r \in Reader : lag[r] = Unpinned
  /\ scheme # "hp"  => rlist = {} /\ \A r \in Reader : hp[r] = Nil
  /\ scheme # "rcu" => inCS = {} /\ batch = {} /\ wait = {} /\ nextBatch = {}

(* Hazard pointers: every reader has published where it stands, and what   *)
(* is unlinked is on the retire list.                                      *)
Published ==
  scheme = "hp" =>
    /\ hp = pos /\ rlist = Retired
    /\ Cardinality(rlist) < Threshold \/ Cardinality(rlist) <= N
    /\ \A r \in Walking : pos[r] \in Live \union Retired

(* Epochs: a reader stands on, and an unlinked node leads to, what was     *)
(* unlinked no earlier than the reader pinned, or than the node was.       *)
Since(L, R, g, a) == L \union {s \in R : g[s] <= a}
NotOlder(a) == Since(Live, Retired, age, a)

Pinned ==
  scheme = "ebr" =>
    /\ \A r \in Walking : lag[r] # Unpinned /\ pos[r] \in NotOlder(lag[r])
    /\ \A s \in Retired : next[s] \in NotOlder(age[s]) \union {Nil}

(* RCU: a reader nobody waits for stands on no node of the grace period,   *)
(* and no node that is queued for the next one leads to one.               *)
GraceHolds ==
  scheme = "rcu" =>
    /\ Retired = batch \union nextBatch /\ batch \intersect nextBatch = {}
    /\ \A r \in Walking : /\ qsbr \/ r \in inCS
                          /\ pos[r] \in Live \union Retired
                          /\ pos[r] \in batch => r \in wait
    /\ \A s \in Retired : next[s] \in Live \union Retired \union {Nil}
    /\ \A s \in nextBatch : next[s] \notin batch

NobodyLost == scheme # "none" => lost = {}

RecInv ==
  /\ TypeOK /\ ListStands /\ OneScheme /\ Published /\ Pinned /\ GraceHolds
  /\ NobodyLost

-------------------------------------------------------------------------------
Inserted(f, n, a, x) ==
  [i \in 1 .. n + 1 |-> IF i <= a THEN f[i] ELSE IF i = a + 1 THEN x ELSE f[i - 1]]
Removed(g, n, b) == [i \in 1 .. n - 1 |-> IF i < b THEN g[i] ELSE g[i + 1]]

(* What the writer does to the pointers: x goes in behind the first a of   *)
(* the n nodes of f, and the node at place b of g goes.                    *)
PutIn(f, h, nx, n, x, a, h1, nx1) ==
  /\ a \in 0 .. n
  /\ h1 = IF a = 0 THEN x ELSE h
  /\ nx1[x] = IF a = 0 THEN h ELSE nx[f[a]]
  /\ a # 0 => nx1[f[a]] = x
  /\ \A i \in 1 .. n : i # a => nx1[f[i]] = nx[f[i]]

TakenOut(g, h, nx, n, b, h1, nx1) ==
  /\ b \in 1 .. n
  /\ h1 = IF b = 1 THEN nx[g[1]] ELSE h
  /\ b # 1 => nx1[g[b - 1]] = nx[g[b]]
  /\ \A i \in 1 .. n : i # b - 1 => nx1[g[i]] = nx[g[i]]

(* A node goes into a list behind its first a nodes. *)
LEMMA ChainInsert ==
  ASSUME NEW S, NEW n \in Nat, NEW f, NEW h, NEW nx, Chain(h, nx, S, n, f),
         NEW x, x \notin S, NEW a, NEW h1, NEW nx1, PutIn(f, h, nx, n, x, a, h1, nx1)
  PROVE  Chain(h1, nx1, S \union {x}, n + 1, Inserted(f, n, a, x))
<1> DEFINE g == [i \in 1 .. n + 1 |-> IF i <= a THEN f[i]
                                      ELSE IF i = a + 1 THEN x ELSE f[i - 1]]
<1>1. /\ f \in [1 .. n -> S]
      /\ \A s \in S : \E i \in 1 .. n : f[i] = s
      /\ \A i, j \in 1 .. n : f[i] = f[j] => i = j
      /\ h = IF n = 0 THEN Nil ELSE f[1]
      /\ \A i \in 1 .. n : nx[f[i]] = IF i = n THEN Nil ELSE f[i + 1]
  BY DEF Chain
<1>0. /\ a \in 0 .. n
      /\ h1 = IF a = 0 THEN x ELSE h
      /\ nx1[x] = IF a = 0 THEN h ELSE nx[f[a]]
      /\ a # 0 => nx1[f[a]] = x
      /\ \A i \in 1 .. n : i # a => nx1[f[i]] = nx[f[i]]
  BY DEF PutIn
<1> USE <1>0
<1>2. /\ \A i \in 1 .. n : i <= a => i \in 1 .. n + 1 /\ g[i] = f[i]
      /\ \A i \in 1 .. n : i > a => i + 1 \in 1 .. n + 1 /\ g[i + 1] = f[i]
      /\ a + 1 \in 1 .. n + 1 /\ g[a + 1] = x
  OBVIOUS
<1>3. \A i \in 1 .. n + 1 : \/ i <= a /\ i \in 1 .. n /\ g[i] = f[i]
                            \/ i = a + 1 /\ g[i] = x
                            \/ i > a + 1 /\ i - 1 \in 1 .. n /\ g[i] = f[i - 1]
  OBVIOUS
<1>4. g \in [1 .. n + 1 -> S \union {x}]
  <2>1. \A i \in 1 .. n + 1 : g[i] \in S \union {x}
    BY <1>1, <1>3
  <2> QED BY <2>1
<1> HIDE DEF g
<1>5. \A s \in S \union {x} : \E i \in 1 .. n + 1 : g[i] = s
  <2>1. ASSUME NEW s \in S PROVE \E i \in 1 .. n + 1 : g[i] = s
    <3>1. PICK i \in 1 .. n : f[i] = s
      BY <1>1
    <3>2. i <= a \/ i > a
      OBVIOUS
    <3> QED BY <1>2, <3>1, <3>2
  <2> QED BY <1>2, <2>1
<1>6. ASSUME NEW i \in 1 .. n + 1, NEW j \in 1 .. n + 1, g[i] = g[j]
      PROVE  i = j
  <2>1. \A k \in 1 .. n : f[k] # x
    BY <1>1
  <2> DEFINE Place(k) == IF k <= a THEN k ELSE k - 1
  <2>2. ASSUME NEW k \in 1 .. n + 1
        PROVE  \/ k = a + 1 /\ g[k] = x
               \/ k # a + 1 /\ Place(k) \in 1 .. n /\ g[k] = f[Place(k)]
    BY <1>3
  <2>3. i = a + 1 <=> j = a + 1
    BY <1>6, <2>1, <2>2
  <2>4. i # a + 1 => Place(i) \in 1 .. n /\ Place(j) \in 1 .. n /\ f[Place(i)] = f[Place(j)]
    BY <1>6, <2>2, <2>3
  <2>5. i # a + 1 => Place(i) = Place(j)
    BY <1>1, <2>4
  <2>6. i # a + 1 /\ j # a + 1 /\ Place(i) = Place(j) => i = j
    OBVIOUS
  <2> QED BY <2>3, <2>5, <2>6
<1>7. h1 = g[1]
  <2>1. CASE a = 0
    BY <1>2, <2>1
  <2>2. CASE a # 0
    BY <1>1, <1>2, <2>2
  <2> QED BY <2>1, <2>2
<1>8. ASSUME NEW i \in 1 .. n + 1
      PROVE  nx1[g[i]] = IF i = n + 1 THEN Nil ELSE g[i + 1]
  <2>1. CASE i < a
    <3>1. i \in 1 .. n /\ i + 1 \in 1 .. n /\ i # n /\ i # n + 1 /\ i # a /\ i + 1 <= a
      BY <2>1
    <3>2. nx1[g[i]] = f[i + 1] /\ g[i + 1] = f[i + 1]
      BY <1>1, <1>2, <3>1, <2>1
    <3> QED BY <3>1, <3>2
  <2>2. CASE i = a
    <3>1. a # 0 /\ i # n + 1 /\ g[i] = f[a] /\ g[i + 1] = x
      BY <1>2, <2>2
    <3> QED BY <3>1
  <2>3. CASE i = a + 1
    <3>1. nx1[g[i]] = IF a = 0 THEN h ELSE nx[f[a]]
      BY <1>2, <2>3
    <3>2. CASE i = n + 1
      BY <1>1, <2>3, <3>1, <3>2
    <3>3. CASE i # n + 1
      <4>1. i \in 1 .. n /\ i > a /\ g[i + 1] = f[i]
        BY <1>2, <2>3, <3>3
      <4> QED BY <1>1, <2>3, <3>1, <3>3, <4>1
    <3> QED BY <3>2, <3>3
  <2>4. CASE i > a + 1
    <3>1. i - 1 \in 1 .. n /\ i - 1 # a /\ g[i] = f[i - 1]
      BY <1>3, <2>4
    <3>2. nx1[g[i]] = IF i - 1 = n THEN Nil ELSE f[i]
      BY <1>1, <3>1
    <3>3. i # n + 1 => i \in 1 .. n /\ g[i + 1] = f[i]
      BY <1>2, <2>4
    <3> QED BY <3>2, <3>3
  <2> QED BY <2>1, <2>2, <2>3, <2>4
<1>9. Chain(h1, nx1, S \union {x}, n + 1, g)
  BY <1>4, <1>5, <1>6, <1>7, <1>8 DEF Chain
<1> QED BY <1>9 DEF g, Inserted

(* The node at place b leaves a list. *)
LEMMA ChainRemove ==
  ASSUME NEW S, NEW n \in Nat, NEW g, NEW h, NEW nx, Chain(h, nx, S, n, g),
         NEW b, NEW h1, NEW nx1, TakenOut(g, h, nx, n, b, h1, nx1)
  PROVE  Chain(h1, nx1, S \ {g[b]}, n - 1, Removed(g, n, b))
<1> DEFINE f == [i \in 1 .. n - 1 |-> IF i < b THEN g[i] ELSE g[i + 1]]
<1>0. /\ b \in 1 .. n
      /\ h1 = IF b = 1 THEN nx[g[1]] ELSE h
      /\ b # 1 => nx1[g[b - 1]] = nx[g[b]]
      /\ \A i \in 1 .. n : i # b - 1 => nx1[g[i]] = nx[g[i]]
  BY DEF TakenOut
<1> USE <1>0
<1>1. /\ g \in [1 .. n -> S]
      /\ \A s \in S : \E i \in 1 .. n : g[i] = s
      /\ \A i, j \in 1 .. n : g[i] = g[j] => i = j
      /\ h = g[1]
      /\ \A i \in 1 .. n : nx[g[i]] = IF i = n THEN Nil ELSE g[i + 1]
  BY DEF Chain
<1>2. \A i \in 1 .. n : /\ i < b => i \in 1 .. n - 1 /\ f[i] = g[i]
                        /\ i > b => i - 1 \in 1 .. n - 1 /\ f[i - 1] = g[i]
  OBVIOUS
<1>3. \A i \in 1 .. n - 1 : \/ i < b /\ i \in 1 .. n /\ f[i] = g[i]
                            \/ i >= b /\ i + 1 \in 1 .. n /\ f[i] = g[i + 1]
  OBVIOUS
<1>4. f \in [1 .. n - 1 -> S \ {g[b]}]
  <2>1. ASSUME NEW i \in 1 .. n - 1 PROVE f[i] \in S \ {g[b]}
    <3>1. CASE i < b
      <4>1. i \in 1 .. n /\ i # b /\ f[i] = g[i]
        BY <1>3, <3>1
      <4> QED BY <1>1, <4>1
    <3>2. CASE i >= b
      <4>1. i + 1 \in 1 .. n /\ i + 1 # b /\ f[i] = g[i + 1]
        BY <1>3, <3>2
      <4> QED BY <1>1, <4>1
    <3> QED BY <3>1, <3>2
  <2> QED BY <2>1
<1> HIDE DEF f
<1>5. ASSUME NEW s \in S \ {g[b]} PROVE \E i \in 1 .. n - 1 : f[i] = s
  <2>1. PICK i \in 1 .. n : g[i] = s
    BY <1>1
  <2>2. i # b
    BY <2>1
  <2>3. i < b \/ i > b
    BY <2>2
  <2> QED BY <1>2, <2>1, <2>3
<1>6. ASSUME NEW i \in 1 .. n - 1, NEW j \in 1 .. n - 1, f[i] = f[j]
      PROVE  i = j
  <2> DEFINE Place(k) == IF k < b THEN k ELSE k + 1
  <2>1. ASSUME NEW k \in 1 .. n - 1 PROVE Place(k) \in 1 .. n /\ f[k] = g[Place(k)]
    BY <1>3
  <2>2. Place(i) = Place(j)
    BY <1>1, <1>6, <2>1
  <2> QED BY <2>2
<1>7. h1 = IF n - 1 = 0 THEN Nil ELSE f[1]
  <2>1. CASE b = 1 /\ n = 1
    BY <1>1, <2>1
  <2>2. CASE b = 1 /\ n # 1
    <3>1. 1 \in 1 .. n /\ 2 \in 1 .. n /\ 2 > b
      BY <2>2
    <3>2. h1 = g[2] /\ f[2 - 1] = g[2]
      BY <1>1, <1>2, <2>2, <3>1
    <3> QED BY <2>2, <3>2
  <2>3. CASE b # 1
    <3>1. 1 \in 1 .. n /\ 1 < b /\ n - 1 # 0
      BY <2>3
    <3> QED BY <1>1, <1>2, <2>3, <3>1
  <2> QED BY <2>1, <2>2, <2>3
<1>8. ASSUME NEW i \in 1 .. n - 1
      PROVE  nx1[f[i]] = IF i = n - 1 THEN Nil ELSE f[i + 1]
  <2>1. CASE i < b - 1
    <3>1. i \in 1 .. n /\ i # n /\ i # n - 1 /\ i # b - 1 /\ i + 1 \in 1 .. n /\ i + 1 < b
      BY <2>1
    <3>2. f[i] = g[i] /\ f[i + 1] = g[i + 1] /\ nx1[g[i]] = g[i + 1]
      BY <1>1, <1>2, <2>1, <3>1
    <3> QED BY <3>1, <3>2
  <2>2. CASE i = b - 1
    <3>1. b # 1 /\ i \in 1 .. n /\ i < b /\ f[i] = g[b - 1]
      BY <1>2, <2>2
    <3>2. nx1[f[i]] = IF b = n THEN Nil ELSE g[b + 1]
      BY <1>1, <3>1
    <3>3. b # n => b + 1 \in 1 .. n /\ b + 1 > b /\ b + 1 - 1 = b /\ f[b + 1 - 1] = g[b + 1]
      BY <1>2
    <3> QED BY <2>2, <3>2, <3>3
  <2>3. CASE i > b - 1
    <3>1. i >= b /\ i + 1 \in 1 .. n /\ i + 1 # b - 1 /\ f[i] = g[i + 1]
      BY <1>3, <2>3
    <3>2. nx1[f[i]] = IF i + 1 = n THEN Nil ELSE g[i + 1 + 1]
      BY <1>1, <3>1
    <3>3. i # n - 1 => /\ i + 1 + 1 \in 1 .. n /\ i + 1 + 1 > b /\ i + 1 + 1 - 1 = i + 1
                       /\ f[i + 1 + 1 - 1] = g[i + 1 + 1]
      BY <1>2, <2>3
    <3> QED BY <3>2, <3>3
  <2> QED BY <2>1, <2>2, <2>3
<1>9. Chain(h1, nx1, S \ {g[b]}, n - 1, f)
  BY <1>4, <1>5, <1>6, <1>7, <1>8 DEF Chain
<1> QED BY <1>9 DEF f, Removed

-------------------------------------------------------------------------------
LEMMA Sorts ==
  ASSUME TypeOK
  PROVE  /\ \A s \in Slot : state[s] \in {"live", "retired", "free"}
         /\ \A s \in Slot : next[s] \in Slot \union {Nil}
         /\ \A r \in Reader : pos[r] \in Slot \union {Nil}
         /\ Live \subseteq Slot /\ Retired \subseteq Slot /\ Free \subseteq Slot
         /\ Nil \notin Slot /\ Nil \notin Live /\ Nil \notin Retired
         /\ Slot = Live \union Retired \union Free
         /\ Live \intersect Retired = {} /\ Live \intersect Free = {}
         /\ Retired \intersect Free = {}
<1>1. \A s \in Slot : state[s] \in {"live", "retired", "free"}
  BY DEF TypeOK
<1>2. /\ \A s \in Slot : next[s] \in Slot \union {Nil}
      /\ \A r \in Reader : pos[r] \in Slot \union {Nil}
  BY DEF TypeOK
<1> QED BY <1>1, <1>2, SlotAssumption DEF Live, Retired, Free

(* The head of the list and what follows a live node are live. *)
LEMMA LiveLeadsToLive ==
  ASSUME ListStands
  PROVE  head \in Live /\ \A s \in Live : next[s] \in Live \union {Nil}
<1>1. PICK f \in [1 .. ListLen -> Live] : Chain(head, next, Live, ListLen, f)
  BY DEF ListStands
<1>2. ListLen \in Nat \ {0}
  BY ListAssumption
<1>3. head \in Live
  BY <1>1, <1>2 DEF Chain
<1>4. ASSUME NEW s \in Live PROVE next[s] \in Live \union {Nil}
  <2>1. PICK i \in 1 .. ListLen : f[i] = s
    BY <1>1 DEF Chain
  <2>2. next[s] = IF i = ListLen THEN Nil ELSE f[i + 1]
    BY <1>1, <2>1 DEF Chain
  <2>3. i # ListLen => i + 1 \in 1 .. ListLen
    BY <1>2
  <2> QED BY <1>1, <2>2, <2>3
<1> QED BY <1>3, <1>4

(* The list after the writer has put n behind p and unlinked v behind q.   *)
Relinked(n, p, v, q) ==
  LET h1  == HeadSet(p, n, head)
      nx1 == NextSet(p, n, [next EXCEPT ![n] = IF p = Nil THEN head ELSE next[p]])
  IN /\ n \in Free
     /\ p \in Live \union {Nil}
     /\ v \in Live
     /\ q \in Live \union {n, Nil}
     /\ IF q = Nil THEN h1 = v ELSE nx1[q] = v
     /\ head' = HeadSet(q, nx1[v], h1)
     /\ next' = NextSet(q, nx1[v], nx1)

LEMMA RelinkedList ==
  ASSUME TypeOK, ListStands, NEW n \in Slot, NEW v \in Slot,
         NEW p \in Slot \union {Nil}, NEW q \in Slot \union {Nil}, Relinked(n, p, v, q)
  PROVE  LET L == (Live \union {n}) \ {v}
         IN /\ \E f \in [1 .. ListLen -> L] : Chain(head', next', L, ListLen, f)
            /\ next' \in [Slot -> Slot \union {Nil}]
            /\ head' \in L /\ n # v
            /\ \A s \in L \union {v} : next'[s] \in L \union {Nil}
            /\ \A s \in Slot \ (Live \union {n}) : next'[s] = next[s]
<1> DEFINE h1  == IF p = Nil THEN n ELSE head
           nx0 == [next EXCEPT ![n] = IF p = Nil THEN head ELSE next[p]]
           nx1 == IF p = Nil THEN nx0 ELSE [nx0 EXCEPT ![p] = n]
           M   == Live \union {n}
<1>1. ListLen \in Nat \ {0}
  BY ListAssumption
<1>2. /\ next \in [Slot -> Slot \union {Nil}] /\ Live \subseteq Slot /\ Nil \notin Slot
      /\ Live \intersect Free = {} /\ Nil \notin Live
  BY Sorts DEF TypeOK
<1>3. /\ n \in Free /\ p \in Live \union {Nil} /\ v \in Live
      /\ q \in Live \union {n, Nil}
      /\ q = Nil => h1 = v
      /\ q # Nil => nx1[q] = v
      /\ head' = IF q = Nil THEN nx1[v] ELSE h1
      /\ next' = IF q = Nil THEN nx1 ELSE [nx1 EXCEPT ![q] = nx1[v]]
  BY DEF Relinked, HeadSet, NextSet
<1>4. n \notin Live /\ n # Nil /\ n # v /\ p # n
  BY <1>2, <1>3
<1>5. PICK f \in [1 .. ListLen -> Live] : Chain(head, next, Live, ListLen, f)
  BY DEF ListStands
<1>6. head \in Live
  BY LiveLeadsToLive
<1>7. /\ nx0 \in [Slot -> Slot \union {Nil}]
      /\ nx0[n] = IF p = Nil THEN head ELSE next[p]
      /\ \A s \in Slot : s # n => nx0[s] = next[s]
  BY <1>2, <1>3, <1>6
<1>8. /\ nx1 \in [Slot -> Slot \union {Nil}]
      /\ nx1[n] = IF p = Nil THEN head ELSE next[p]
      /\ p # Nil => nx1[p] = n
      /\ \A s \in Slot : s # n /\ s # p => nx1[s] = next[s]
  BY <1>2, <1>3, <1>4, <1>7
<1> HIDE DEF nx0, nx1
<1>9. PICK a \in 0 .. ListLen : /\ p = Nil => a = 0
                                /\ p # Nil => a # 0 /\ f[a] = p
  <2>1. CASE p = Nil
    BY <1>1, <2>1
  <2>2. CASE p # Nil
    <3>1. PICK i \in 1 .. ListLen : f[i] = p
      BY <1>3, <1>5, <2>2 DEF Chain
    <3> QED BY <1>1, <2>2, <3>1
  <2> QED BY <2>1, <2>2
<1>10. a = 0 <=> p = Nil
  BY <1>9
<1>11. PICK g : Chain(h1, nx1, M, ListLen + 1, g)
  <2>1. h1 = IF a = 0 THEN n ELSE head
    BY <1>10
  <2>2. nx1[n] = IF a = 0 THEN head ELSE next[f[a]]
    BY <1>8, <1>9, <1>10
  <2>3. a # 0 => nx1[f[a]] = n
    BY <1>8, <1>9, <1>10
  <2>4. ASSUME NEW i \in 1 .. ListLen, i # a PROVE nx1[f[i]] = next[f[i]]
    <3>1. f[i] \in Live
      BY <1>5
    <3>2. f[i] # p
      <4>1. p # Nil => a \in 1 .. ListLen
        BY <1>1, <1>9
      <4>2. p # Nil => f[i] # f[a]
        BY <1>5, <2>4, <4>1 DEF Chain
      <4> QED BY <1>2, <1>9, <3>1, <4>2
    <3> QED BY <1>2, <1>4, <1>8, <3>1, <3>2
  <2>5. ListLen \in Nat /\ Chain(head, next, Live, ListLen, f) /\ n \notin Live
    BY <1>1, <1>4, <1>5
  <2> HIDE DEF h1
  <2>6. \A i \in 1 .. ListLen : i # a => nx1[f[i]] = next[f[i]]
    BY <2>4
  <2>7. a \in 0 .. ListLen
    BY <1>9
  <2>8. PutIn(f, head, next, ListLen, n, a, h1, nx1)
    BY <2>1, <2>2, <2>3, <2>6, <2>7 DEF PutIn
  <2>9. Chain(h1, nx1, Live \union {n}, ListLen + 1, Inserted(f, ListLen, a, n))
    BY <2>5, <2>8, ChainInsert
  <2> QED BY <2>9
<1> DEFINE m == ListLen + 1
<1>12. /\ g \in [1 .. m -> M]
       /\ \A s \in M : \E i \in 1 .. m : g[i] = s
       /\ \A i, j \in 1 .. m : g[i] = g[j] => i = j
       /\ h1 = g[1]
       /\ \A i \in 1 .. m : nx1[g[i]] = IF i = m THEN Nil ELSE g[i + 1]
       /\ m \in Nat /\ m > 1 /\ m - 1 = ListLen
  BY <1>1, <1>11 DEF Chain
<1>13. PICK b \in 1 .. m : g[b] = v
  BY <1>3, <1>12
<1>14. /\ q = Nil => b = 1
       /\ q # Nil => b # 1 /\ g[b - 1] = q
  <2>1. ASSUME q = Nil PROVE b = 1
    <3>1. g[1] = g[b] /\ 1 \in 1 .. m
      BY <1>3, <1>12, <1>13, <2>1
    <3> QED BY <1>12, <3>1
  <2>2. ASSUME q # Nil PROVE b # 1 /\ g[b - 1] = q
    <3>1. PICK c \in 1 .. m : g[c] = q
      BY <1>3, <1>12, <2>2
    <3>2. nx1[q] = v /\ v # Nil
      BY <1>2, <1>3, <2>2
    <3>3. c # m /\ g[c + 1] = g[b]
      BY <1>12, <1>13, <3>1, <3>2
    <3>4. c + 1 \in 1 .. m
      BY <1>12, <3>3
    <3>5. c + 1 = b
      BY <1>12, <3>3, <3>4
    <3> QED BY <1>12, <3>1, <3>5
  <2> QED BY <2>1, <2>2
<1>15. nx1[v] \in (M \ {v}) \union {Nil}
  <2>1. nx1[v] = IF b = m THEN Nil ELSE g[b + 1]
    BY <1>12, <1>13
  <2>2. b # m => b + 1 \in 1 .. m /\ b + 1 # b
    BY <1>12
  <2>3. b # m => g[b + 1] \in M /\ g[b + 1] # g[b]
    BY <1>12, <2>2
  <2> QED BY <1>13, <2>1, <2>3
<1>16. /\ next' \in [Slot -> Slot \union {Nil}]
       /\ q # Nil => next'[q] = nx1[v]
       /\ \A s \in Slot : s # q => next'[s] = nx1[s]
       /\ M \subseteq Slot
  BY <1>2, <1>3, <1>8, <1>15
<1>17. PICK e : Chain(head', next', M \ {v}, ListLen, e)
  <2>1. head' = IF b = 1 THEN nx1[g[1]] ELSE h1
    BY <1>3, <1>13, <1>14
  <2>2. b # 1 => next'[g[b - 1]] = nx1[g[b]]
    BY <1>13, <1>14, <1>16
  <2>3. ASSUME NEW i \in 1 .. m, i # b - 1 PROVE next'[g[i]] = nx1[g[i]]
    <3>1. g[i] # q
      <4>1. q # Nil => b - 1 \in 1 .. m /\ g[b - 1] = q
        BY <1>12, <1>14
      <4>2. q # Nil => g[i] # q
        BY <1>12, <2>3, <4>1
      <4> QED BY <1>2, <1>12, <1>16, <4>2
    <3> QED BY <1>12, <1>16, <3>1
  <2>4. m \in Nat /\ Chain(h1, nx1, M, m, g) /\ m - 1 = ListLen /\ g[b] = v
    BY <1>11, <1>12, <1>13
  <2> HIDE DEF h1, m, M
  <2>5. \A i \in 1 .. m : i # b - 1 => next'[g[i]] = nx1[g[i]]
    BY <2>3
  <2>6. b \in 1 .. m
    BY <1>13
  <2>7. TakenOut(g, h1, nx1, m, b, head', next')
    BY <2>1, <2>2, <2>5, <2>6 DEF TakenOut
  <2>8. Chain(head', next', M \ {g[b]}, m - 1, Removed(g, m, b))
    BY <2>4, <2>7, ChainRemove
  <2> QED BY <2>4, <2>8
<1>18. e \in [1 .. ListLen -> M \ {v}]
  BY <1>17 DEF Chain
<1>19. head' \in M \ {v}
  BY <1>1, <1>17, <1>18 DEF Chain
<1>20. \A s \in M \ {v} : next'[s] \in (M \ {v}) \union {Nil}
  <2> SUFFICES ASSUME NEW s \in M \ {v} PROVE next'[s] \in (M \ {v}) \union {Nil}
    OBVIOUS
  <2>1. PICK i \in 1 .. ListLen : e[i] = s
    BY <1>17 DEF Chain
  <2>2. next'[s] = IF i = ListLen THEN Nil ELSE e[i + 1]
    BY <1>17, <2>1 DEF Chain
  <2>3. i # ListLen => i + 1 \in 1 .. ListLen
    BY <1>1
  <2> QED BY <1>18, <2>2, <2>3
<1>21. next'[v] \in (M \ {v}) \union {Nil}
  <2>1. q # v
    <3>1. b # 1 => b - 1 \in 1 .. m /\ b - 1 # b
      BY <1>12
    <3> QED BY <1>2, <1>3, <1>12, <1>13, <1>14, <3>1
  <2> QED BY <1>2, <1>3, <1>15, <1>16, <2>1
<1>22. \A s \in Slot \ M : next'[s] = next[s]
  BY <1>2, <1>3, <1>8, <1>16
<1> QED BY <1>4, <1>16, <1>17, <1>18, <1>19, <1>20, <1>21, <1>22


-------------------------------------------------------------------------------
(* A set of natural numbers that is not empty has a least element. *)
LEMMA LeastOf ==
  ASSUME NEW NS, NS \subseteq Nat, NS # {}
  PROVE  \E x \in NS : \A y \in NS : x <= y
<1> DEFINE R == {ss \in Nat \X Nat : ss[1] < ss[2]}
<1>1. IsWellFoundedOn(R, Nat)
  BY NatLessThanWellFounded DEF OpToRel
<1>2. PICK x \in NS : \A y \in NS : ~(<<y, x>> \in R)
  BY <1>1, WFMin
<1>3. ASSUME NEW y \in NS PROVE x <= y
  <2>1. x \in Nat /\ y \in Nat /\ ~(<<y, x>> \in R)
    BY <1>2
  <2>2. ~(y < x)
    BY <2>1
  <2>3. QED BY <2>1, <2>2
<1>4. QED BY <1>3

(* A list without repetitions has as many nodes as places. *)
LEMMA ChainCounts ==
  ASSUME NEW S, NEW h, NEW nx, NEW f, Chain(h, nx, S, ListLen, f)
  PROVE  Cardinality(S) = ListLen
<1>1. /\ f \in [1 .. ListLen -> S]
      /\ \A s \in S : \E i \in 1 .. ListLen : f[i] = s
      /\ \A i, j \in 1 .. ListLen : f[i] = f[j] => i = j
  BY DEF Chain
<1>2. f \in Bijection(1 .. ListLen, S)
  BY <1>1 DEF Bijection, Injection, Surjection, IsInjective
<1>3. ExistsBijection(1 .. ListLen, S)
  BY <1>2 DEF ExistsBijection
<1> QED BY <1>3, ListAssumption, FS_CountingElements

(* The list the program starts with. *)
LEMMA InitList ==
  ASSUME NEW S, NEW h, NEW nx, S \subseteq Slot, Cardinality(S) = ListLen,
         IsList(h, nx, S)
  PROVE  \E f \in [1 .. ListLen -> S] : Chain(h, nx, S, ListLen, f)
<1>1. PICK f \in [1 .. ListLen -> S] :
        /\ \A s \in S : \E i \in 1 .. ListLen : f[i] = s
        /\ h = f[1]
        /\ \A i \in 1 .. ListLen - 1 : nx[f[i]] = f[i + 1]
        /\ nx[f[ListLen]] = Nil
  BY DEF IsList
<1>2. ListLen \in Nat \ {0}
  BY ListAssumption
<1>3. f \in Surjection(1 .. ListLen, S)
  BY <1>1 DEF Surjection
<1>4. IsFiniteSet(1 .. ListLen) /\ Cardinality(1 .. ListLen) = ListLen
  BY <1>2, FS_Interval
<1>5. f \in Injection(1 .. ListLen, S)
  BY <1>3, <1>4, FS_SurjSameCardinalityImpliesInj
<1>6. \A i, j \in 1 .. ListLen : f[i] = f[j] => i = j
  BY <1>5 DEF Injection, IsInjective
<1>7. ASSUME NEW i \in 1 .. ListLen
      PROVE  nx[f[i]] = IF i = ListLen THEN Nil ELSE f[i + 1]
  <2>1. i # ListLen => i \in 1 .. ListLen - 1
    BY <1>2
  <2> QED BY <1>1, <2>1
<1>8. h = IF ListLen = 0 THEN Nil ELSE f[1]
  BY <1>1, <1>2
<1>9. Chain(h, nx, S, ListLen, f)
  BY <1>1, <1>6, <1>7, <1>8 DEF Chain
<1> QED BY <1>9

LEMMA RecInit == Init => RecInv
<1> SUFFICES ASSUME Init PROVE RecInv
  OBVIOUS
<1>1. PICK S \in SUBSET Slot :
        /\ Cardinality(S) = ListLen
        /\ state = [s \in Slot |-> IF s \in S THEN "live" ELSE "free"]
        /\ head \in S
        /\ next \in [Slot -> S \union {Nil}]
        /\ IsList(head, next, S)
  BY DEF Init
<1>2. Live = S /\ Retired = {}
  BY <1>1 DEF Live, Retired
<1>3. /\ scheme \in Schemes /\ qsbr \in BOOLEAN /\ turn = 0
      /\ pos = [r \in Reader |-> Nil] /\ lost = {}
      /\ lag = [r \in Reader |-> Unpinned] /\ age = [s \in Slot |-> 0]
      /\ hp = [r \in Reader |-> Nil] /\ rlist = {}
      /\ inCS = {} /\ batch = {} /\ wait = {} /\ nextBatch = {}
  BY DEF Init
<1>4. turn \in 0 .. N + 1
  BY <1>3, ReadersAssumption
<1>5. TypeOK
  <2>1. state \in [Slot -> {"live", "retired", "free"}]
    BY <1>1
  <2>2. next \in [Slot -> Slot \union {Nil}]
    BY <1>1
  <2> QED BY <1>1, <1>2, <1>3, <1>4, <2>1, <2>2 DEF TypeOK
<1>6. ListStands
  BY <1>1, <1>2, InitList DEF ListStands
<1>7. \A r \in Reader : pos[r] = Nil /\ hp[r] = Nil /\ lag[r] = Unpinned
  BY <1>3
<1>8. Walking = {}
  BY <1>7 DEF Walking
<1>9. OneScheme
  BY <1>3, <1>7 DEF OneScheme
<1>10. Cardinality(rlist) = 0 /\ 0 < Threshold
  BY <1>3, FS_EmptySet, ThresholdAssumption
<1>11. Published
  BY <1>2, <1>3, <1>8, <1>10 DEF Published
<1>12. Pinned
  BY <1>2, <1>8 DEF Pinned
<1>13. GraceHolds
  BY <1>2, <1>3, <1>8 DEF GraceHolds
<1> QED BY <1>3, <1>5, <1>6, <1>9, <1>11, <1>12, <1>13 DEF RecInv, NobodyLost

-------------------------------------------------------------------------------
(* The writer's turn, whatever the scheme frees: F.                        *)
Swapped(n, v) == [state EXCEPT ![n] = "live", ![v] = "retired"]

LEMMA WriterMoves ==
  ASSUME TypeOK, ListStands, NEW n \in Slot, NEW v \in Slot,
         NEW p \in Slot \union {Nil}, NEW q \in Slot \union {Nil}, Relinked(n, p, v, q),
         NEW F, F \subseteq Retired \union {v}, Frees(F, Swapped(n, v))
  PROVE  /\ Live' = (Live \union {n}) \ {v}
         /\ Retired' = (Retired \union {v}) \ F
         /\ n \notin Live \union Retired /\ v \in Live /\ v \notin Retired
         /\ state' \in [Slot -> {"live", "retired", "free"}]
         /\ next'  \in [Slot -> Slot \union {Nil}]
         /\ head'  \in Live'
         /\ ListStands'
         /\ \A s \in Live' \union {v} : next'[s] \in Live' \union {Nil}
         /\ \A s \in Retired : next'[s] = next[s]
         /\ lost' = lost \union {r \in Reader : pos[r] \in F}
<1> DEFINE L == (Live \union {n}) \ {v}
<1>1. /\ \A s \in Slot : state[s] \in {"live", "retired", "free"}
      /\ state \in [Slot -> {"live", "retired", "free"}]
      /\ Live \subseteq Slot /\ Retired \subseteq Slot
      /\ Live \intersect Retired = {} /\ Live \intersect Free = {}
      /\ Retired \intersect Free = {}
  BY Sorts DEF TypeOK
<1>2. n \in Free /\ v \in Live
  BY DEF Relinked
<1>3. n \notin Live \union Retired /\ v \notin Retired /\ n # v
  BY <1>1, <1>2
<1>4. /\ \E f \in [1 .. ListLen -> L] : Chain(head', next', L, ListLen, f)
      /\ next' \in [Slot -> Slot \union {Nil}]
      /\ head' \in L
      /\ \A s \in L \union {v} : next'[s] \in L \union {Nil}
      /\ \A s \in Slot \ (Live \union {n}) : next'[s] = next[s]
  BY RelinkedList
<1>5. /\ state' = [s \in Slot |-> IF s \in F THEN "free" ELSE Swapped(n, v)[s]]
      /\ lost' = lost \union {r \in Reader : pos[r] \in F}
  BY DEF Frees
<1>6. /\ Swapped(n, v)[n] = "live" /\ Swapped(n, v)[v] = "retired"
      /\ \A s \in Slot : s # n /\ s # v => Swapped(n, v)[s] = state[s]
  BY <1>1, <1>3 DEF Swapped
<1>7. /\ \A s \in Slot : state'[s] = IF s \in F THEN "free" ELSE
                                     IF s = v THEN "retired" ELSE
                                     IF s = n THEN "live" ELSE state[s]
      /\ state' \in [Slot -> {"live", "retired", "free"}]
  <2>1. \A s \in Slot : Swapped(n, v)[s] \in {"live", "retired", "free"}
    BY <1>1, <1>6
  <2> QED BY <1>5, <1>6, <2>1
<1>8. Live' = L
  <2>1. Live' = {s \in Slot : state'[s] = "live"} /\ Live = {s \in Slot : state[s] = "live"}
    BY DEF Live
  <2>2. ASSUME NEW s \in Slot PROVE state'[s] = "live" <=> s \in L
    <3>1. s \in F => s = v \/ (s \notin Live /\ s # n)
      BY <1>1, <1>3
    <3> QED BY <1>3, <1>7, <2>1, <3>1
  <2> QED BY <1>1, <2>1, <2>2
<1>9. Retired' = (Retired \union {v}) \ F
  <2>1. Retired' = {s \in Slot : state'[s] = "retired"} /\ Retired = {s \in Slot : state[s] = "retired"}
    BY DEF Retired
  <2> QED BY <1>1, <1>3, <1>7, <2>1
<1>10. ListStands'
  BY <1>4, <1>8 DEF ListStands
<1>11. \A s \in Retired : next'[s] = next[s]
  BY <1>1, <1>3, <1>4
<1> HIDE DEF L
<1>12. head' \in Live' /\ \A s \in Live' \union {v} : next'[s] \in Live' \union {Nil}
  BY <1>4, <1>8
<1> QED BY <1>2, <1>3, <1>4, <1>5, <1>7, <1>8, <1>9, <1>10, <1>11, <1>12 DEF L

(* What a step of the writer has in common under every scheme. *)
WriterTurned(n, p, v, q, F) ==
  /\ n \in Slot /\ v \in Slot /\ p \in Slot \union {Nil} /\ q \in Slot \union {Nil}
  /\ Relinked(n, p, v, q)
  /\ F \subseteq Retired \union {v} /\ Frees(F, Swapped(n, v))
  /\ turn' \in 0 .. N + 1
  /\ UNCHANGED <<config, pos>>

(* No reader stands on what is freed. *)
LEMMA NobodyLosesIt ==
  ASSUME RecInv, scheme # "none", NEW F, \A r \in Walking : pos[r] \notin F, Nil \notin F,
         lost' = lost \union {r \in Reader : pos[r] \in F}
  PROVE  lost' = {}
<1>1. lost = {}
  BY DEF RecInv, NobodyLost
<1>2. \A r \in Reader : pos[r] \notin F
  BY DEF Walking
<1> QED BY <1>1, <1>2

LEMMA WriterEbr ==
  ASSUME RecInv, NEW n, NEW p, NEW v, NEW q, WriterTurned(n, p, v, q, {}),
         RetireEbr(v, Swapped(n, v))
  PROVE  RecInv'
<1>1. /\ TypeOK /\ ListStands /\ OneScheme /\ Pinned
  BY DEF RecInv
<1>2. /\ n \in Slot /\ v \in Slot /\ p \in Slot \union {Nil} /\ q \in Slot \union {Nil}
      /\ Relinked(n, p, v, q) /\ Frees({}, Swapped(n, v)) /\ turn' \in 0 .. N + 1
      /\ scheme' = scheme /\ qsbr' = qsbr /\ pos' = pos
  BY DEF WriterTurned, config
<1>3. /\ scheme = "ebr" /\ age' = [age EXCEPT ![v] = 0] /\ lag' = lag
      /\ hp' = hp /\ rlist' = rlist /\ inCS' = inCS /\ batch' = batch /\ wait' = wait
      /\ nextBatch' = nextBatch
  BY DEF RetireEbr, hazard, rcu
<1>4. /\ Live' = (Live \union {n}) \ {v}
      /\ Retired' = (Retired \union {v}) \ {}
      /\ n \notin Live \union Retired /\ v \in Live /\ v \notin Retired
      /\ state' \in [Slot -> {"live", "retired", "free"}]
      /\ next'  \in [Slot -> Slot \union {Nil}]
      /\ head'  \in Live'
      /\ ListStands'
      /\ \A s \in Live' \union {v} : next'[s] \in Live' \union {Nil}
      /\ \A s \in Retired : next'[s] = next[s]
      /\ lost' = lost \union {r \in Reader : pos[r] \in {}}
  BY <1>1, <1>2, WriterMoves
<1>5. lost' = {}
  BY <1>3, <1>4, NobodyLosesIt
<1>6. /\ age \in [Slot -> {0, 1}] /\ age'[v] = 0
      /\ \A s \in Slot : s # v => age'[s] = age[s]
      /\ age' \in [Slot -> {0, 1}]
  <2>1. age \in [Slot -> {0, 1}]
    BY <1>1 DEF TypeOK
  <2> QED BY <1>2, <1>3, <2>1
<1>7. /\ rlist = {} /\ inCS = {} /\ batch = {} /\ wait = {} /\ nextBatch = {}
      /\ \A r \in Reader : hp[r] = Nil
  BY <1>1, <1>3 DEF OneScheme
<1>8. OneScheme'
  BY <1>2, <1>3, <1>7 DEF OneScheme
<1>9. TypeOK'
  <2>1. /\ scheme \in Schemes /\ qsbr \in BOOLEAN /\ pos \in [Reader -> Slot \union {Nil}]
        /\ lag \in [Reader -> {Unpinned, 0, 1}] /\ hp \in [Reader -> Slot \union {Nil}]
    BY <1>1 DEF TypeOK
  <2> QED BY <1>2, <1>3, <1>4, <1>5, <1>6, <1>7, <2>1 DEF TypeOK
<1>10. /\ Walking' = Walking
       /\ \A s \in Retired : s \in Slot
       /\ \A s \in Live : s # v => s \in Live'
  BY <1>1, <1>2, <1>4, Sorts DEF Walking
<1> DEFINE After(a) == Since(Live', Retired', age', a)
<1>11. \A a \in {0, 1} : NotOlder(a) \subseteq After(a)
  <2> SUFFICES ASSUME NEW a \in {0, 1}, NEW s \in NotOlder(a) PROVE s \in After(a)
    OBVIOUS
  <2>1. s \in Live \/ (s \in Retired /\ age[s] <= a)
    BY DEF NotOlder, Since
  <2>2. s = v => s \in Retired' /\ age'[s] <= a
    BY <1>4, <1>6
  <2>3. s # v /\ s \in Live => s \in Live'
    BY <1>10
  <2>4. s # v /\ s \in Retired => s \in Retired' /\ age'[s] = age[s]
    BY <1>4, <1>6, <1>10
  <2> QED BY <2>1, <2>2, <2>3, <2>4 DEF Since
<1>12. ASSUME NEW r \in Walking PROVE lag[r] # Unpinned /\ pos[r] \in After(lag[r])
  <2>1. lag[r] # Unpinned /\ pos[r] \in NotOlder(lag[r])
    BY <1>1, <1>3 DEF Pinned
  <2>2. lag[r] \in {0, 1}
    BY <1>1, <2>1 DEF TypeOK, Walking
  <2>3. NotOlder(lag[r]) \subseteq After(lag[r])
    BY <1>11, <2>2
  <2> QED BY <2>1, <2>3
<1>13. ASSUME NEW s \in Retired' PROVE next'[s] \in After(age'[s]) \union {Nil}
  <2>1. CASE s = v
    BY <1>4, <2>1 DEF Since
  <2>2. CASE s # v
    <3>1. s \in Retired /\ next'[s] = next[s] /\ age'[s] = age[s] /\ age[s] \in {0, 1}
      BY <1>4, <1>6, <1>10, <2>2
    <3>2. next[s] \in NotOlder(age[s]) \union {Nil}
      BY <1>1, <1>3, <3>1 DEF Pinned
    <3>3. NotOlder(age[s]) \subseteq After(age[s])
      BY <1>11, <3>1
    <3> QED BY <3>1, <3>2, <3>3
  <2> QED BY <2>1, <2>2
<1> HIDE DEF After
<1>14. /\ \A r \in Walking : lag[r] # Unpinned /\ pos[r] \in After(lag[r])
       /\ \A s \in Retired' : next'[s] \in After(age'[s]) \union {Nil}
  BY <1>12, <1>13
<1>15. Pinned'
  <2>1. /\ \A r \in Walking' : lag'[r] # Unpinned /\ pos'[r] \in After(lag'[r])
        /\ \A s \in Retired' : next'[s] \in After(age'[s]) \union {Nil}
    BY <1>2, <1>3, <1>10, <1>14
  <2> QED BY <2>1 DEF Pinned, NotOlder, After
<1> QED BY <1>2, <1>3, <1>4, <1>5, <1>8, <1>9, <1>15
        DEF RecInv, Published, GraceHolds, NobodyLost

LEMMA WriterHp ==
  ASSUME RecInv, NEW n, NEW p, NEW v, NEW q,
         WriterTurned(n, p, v, q, IF ScanDue(rlist \union {v}) THEN (rlist \union {v}) \ Held ELSE {}),
         RetireHp(v, Swapped(n, v))
  PROVE  RecInv'
<1> DEFINE S == rlist \union {v}
           F == IF ScanDue(S) THEN S \ Held ELSE {}
<1>1. /\ TypeOK /\ ListStands /\ OneScheme /\ Published
  BY DEF RecInv
<1>2. /\ n \in Slot /\ v \in Slot /\ p \in Slot \union {Nil} /\ q \in Slot \union {Nil}
      /\ Relinked(n, p, v, q) /\ Frees(F, Swapped(n, v)) /\ turn' \in 0 .. N + 1
      /\ F \subseteq Retired \union {v}
      /\ scheme' = scheme /\ qsbr' = qsbr /\ pos' = pos
  BY DEF WriterTurned, config
<1>3. /\ scheme = "hp" /\ rlist' = S \ F
      /\ age' = age /\ lag' = lag
      /\ hp' = hp /\ inCS' = inCS /\ batch' = batch /\ wait' = wait
      /\ nextBatch' = nextBatch
  BY DEF RetireHp, ebr, rcu
<1>4. /\ hp = pos /\ rlist = Retired
      /\ Cardinality(rlist) < Threshold \/ Cardinality(rlist) <= N
      /\ \A r \in Walking : pos[r] \in Live \union Retired
  BY <1>1, <1>3 DEF Published
<1> HIDE DEF F
<1>5. /\ Live' = (Live \union {n}) \ {v}
      /\ Retired' = (Retired \union {v}) \ F
      /\ n \notin Live \union Retired /\ v \in Live /\ v \notin Retired
      /\ state' \in [Slot -> {"live", "retired", "free"}]
      /\ next'  \in [Slot -> Slot \union {Nil}]
      /\ head'  \in Live'
      /\ ListStands'
      /\ lost' = lost \union {r \in Reader : pos[r] \in F}
  BY <1>1, <1>2, WriterMoves
<1>6. \A r \in Reader : hp[r] \in Held
  BY DEF Held
<1>7. F \intersect Held = {}
  BY DEF F
<1>8. /\ \A r \in Walking : pos[r] \notin F /\ pos[r] \in Live' \union Retired'
      /\ Walking' = Walking
  <2>1. \A r \in Walking : r \in Reader /\ pos[r] # n /\ pos[r] \notin F
    BY <1>4, <1>5, <1>6, <1>7 DEF Walking
  <2>2. \A r \in Walking : pos[r] = v => pos[r] \in Retired'
    BY <1>5, <2>1
  <2>3. \A r \in Walking : pos[r] # v => pos[r] \in Live' \union Retired'
    BY <1>4, <1>5, <2>1
  <2> QED BY <1>2, <2>1, <2>2, <2>3 DEF Walking
<1>9. Nil \notin F
  BY <1>1, <1>2, Sorts
<1>10. lost' = {}
  BY <1>3, <1>5, <1>8, <1>9, NobodyLosesIt
<1>11. rlist' = Retired' /\ S \subseteq Slot /\ IsFiniteSet(S)
  <2>1. S \subseteq Slot
    BY <1>1, <1>2, <1>4, Sorts
  <2> QED BY <1>3, <1>4, <1>5, <2>1, SlotAssumption, FS_Subset
<1>12. Cardinality(rlist') < Threshold \/ Cardinality(rlist') <= N
  <2>1. CASE ScanDue(S)
    <3>1. rlist' = S \intersect Held
      BY <1>3, <2>1 DEF F
    <3>2. hp \in [Reader -> Held] /\ \A x \in Held : \E r \in Reader : hp[r] = x
      <4>1. hp \in [Reader -> Slot \union {Nil}]
        BY <1>1 DEF TypeOK
      <4> QED BY <4>1 DEF Held
    <3>3. hp \in Surjection(Reader, Held)
      BY <3>2 DEF Surjection
    <3>4. IsFiniteSet(Reader) /\ Cardinality(Reader) = N
      <4>1. IsFiniteSet(1 .. N) /\ Cardinality(1 .. N) = IF 1 > N THEN 0 ELSE N - 1 + 1
        BY ReadersAssumption, FS_Interval
      <4> QED BY <4>1, ReadersAssumption DEF Reader
    <3>5. IsFiniteSet(Held) /\ Cardinality(Held) <= N
      BY <3>3, <3>4, FS_Surjection
    <3>6. rlist' \in SUBSET Held
      BY <3>1
    <3>7. Cardinality(rlist') <= Cardinality(Held) /\ IsFiniteSet(rlist')
      BY <3>5, <3>6, FS_Subset
    <3>8. Cardinality(Held) \in Nat /\ Cardinality(rlist') \in Nat
      BY <3>5, <3>7, FS_CardinalityType
    <3> QED BY <3>5, <3>7, <3>8, ReadersAssumption
  <2>2. CASE ~ScanDue(S)
    <3>1. rlist' = S
      BY <1>3, <2>2 DEF F
    <3>2. ~(Cardinality(S) >= Threshold)
      BY <2>2 DEF ScanDue
    <3>3. Cardinality(S) \in Nat
      BY <1>11, FS_CardinalityType
    <3> QED BY <3>1, <3>2, <3>3, ThresholdAssumption
  <2> QED BY <2>1, <2>2
<1>13. /\ inCS = {} /\ batch = {} /\ wait = {} /\ nextBatch = {}
       /\ \A r \in Reader : lag[r] = Unpinned
  BY <1>1, <1>3 DEF OneScheme
<1>14. OneScheme'
  BY <1>2, <1>3, <1>13 DEF OneScheme
<1>15. TypeOK'
  <2>1. /\ scheme \in Schemes /\ qsbr \in BOOLEAN /\ pos \in [Reader -> Slot \union {Nil}]
        /\ lag \in [Reader -> {Unpinned, 0, 1}] /\ hp \in [Reader -> Slot \union {Nil}]
        /\ age \in [Slot -> {0, 1}]
    BY <1>1 DEF TypeOK
  <2> QED BY <1>2, <1>3, <1>5, <1>10, <1>11, <1>13, <2>1 DEF TypeOK
<1>16. Published'
  BY <1>2, <1>3, <1>4, <1>8, <1>11, <1>12 DEF Published
<1> QED BY <1>2, <1>3, <1>5, <1>10, <1>14, <1>15, <1>16
        DEF RecInv, Pinned, GraceHolds, NobodyLost

LEMMA WriterRcu ==
  ASSUME RecInv, NEW n, NEW p, NEW v, NEW q, WriterTurned(n, p, v, q, {}),
         RetireRcu(v, Swapped(n, v))
  PROVE  RecInv'
<1>1. /\ TypeOK /\ ListStands /\ OneScheme /\ GraceHolds
  BY DEF RecInv
<1>2. /\ n \in Slot /\ v \in Slot /\ p \in Slot \union {Nil} /\ q \in Slot \union {Nil}
      /\ Relinked(n, p, v, q) /\ Frees({}, Swapped(n, v)) /\ turn' \in 0 .. N + 1
      /\ scheme' = scheme /\ qsbr' = qsbr /\ pos' = pos
  BY DEF WriterTurned, config
<1>3. /\ scheme = "rcu" /\ nextBatch' = nextBatch \union {v}
      /\ age' = age /\ lag' = lag /\ hp' = hp /\ rlist' = rlist
      /\ inCS' = inCS /\ batch' = batch /\ wait' = wait
  BY DEF RetireRcu, ebr, hazard
<1>4. /\ Live' = (Live \union {n}) \ {v}
      /\ Retired' = (Retired \union {v}) \ {}
      /\ n \notin Live \union Retired /\ v \in Live /\ v \notin Retired
      /\ state' \in [Slot -> {"live", "retired", "free"}]
      /\ next'  \in [Slot -> Slot \union {Nil}]
      /\ head'  \in Live'
      /\ ListStands'
      /\ \A s \in Live' \union {v} : next'[s] \in Live' \union {Nil}
      /\ \A s \in Retired : next'[s] = next[s]
      /\ lost' = lost \union {r \in Reader : pos[r] \in {}}
  BY <1>1, <1>2, WriterMoves
<1>5. lost' = {}
  BY <1>3, <1>4, NobodyLosesIt
<1>6. /\ Retired = batch \union nextBatch /\ batch \intersect nextBatch = {}
      /\ \A r \in Walking : /\ qsbr \/ r \in inCS
                            /\ pos[r] \in Live \union Retired
                            /\ pos[r] \in batch => r \in wait
      /\ \A s \in Retired : next[s] \in Live \union Retired \union {Nil}
      /\ \A s \in nextBatch : next[s] \notin batch
  BY <1>1, <1>3 DEF GraceHolds
<1>7. /\ rlist = {} /\ \A r \in Reader : hp[r] = Nil
      /\ \A r \in Reader : lag[r] = Unpinned
  BY <1>1, <1>3 DEF OneScheme
<1>8. OneScheme'
  BY <1>2, <1>3, <1>7 DEF OneScheme
<1>9. TypeOK'
  <2>1. /\ scheme \in Schemes /\ qsbr \in BOOLEAN /\ pos \in [Reader -> Slot \union {Nil}]
        /\ lag \in [Reader -> {Unpinned, 0, 1}] /\ hp \in [Reader -> Slot \union {Nil}]
        /\ age \in [Slot -> {0, 1}] /\ inCS \subseteq Reader /\ wait \subseteq Reader
    BY <1>1 DEF TypeOK
  <2>2. rlist' \subseteq Retired' /\ batch' \subseteq Retired' /\ nextBatch' \subseteq Retired'
    BY <1>3, <1>4, <1>6, <1>7
  <2> QED BY <1>2, <1>3, <1>4, <1>5, <2>1, <2>2 DEF TypeOK
<1>10. Walking' = Walking
  BY <1>2 DEF Walking
<1>11. Live \union Retired \subseteq Live' \union Retired' /\ Retired' = batch' \union nextBatch'
  BY <1>3, <1>4, <1>6
<1>12. batch' \intersect nextBatch' = {} /\ Nil \notin batch /\ batch \intersect Live' = {}
  <2>1. Nil \notin Retired /\ Live \intersect Retired = {}
    BY <1>1, Sorts
  <2> QED BY <1>3, <1>4, <1>6, <2>1
<1>13. \A s \in Retired' : next'[s] \in Live' \union Retired' \union {Nil}
  BY <1>4, <1>6, <1>11
<1>14. \A s \in nextBatch' : next'[s] \notin batch'
  <2> SUFFICES ASSUME NEW s \in nextBatch' PROVE next'[s] \notin batch
    BY <1>3
  <2>1. CASE s = v
    BY <1>4, <1>12, <2>1
  <2>2. CASE s # v
    BY <1>3, <1>4, <1>6, <2>2
  <2> QED BY <2>1, <2>2
<1>15. \A r \in Walking : /\ qsbr \/ r \in inCS
                          /\ pos[r] \in Live' \union Retired'
                          /\ pos[r] \in batch => r \in wait
  BY <1>6, <1>11
<1>16. GraceHolds'
  <2>1. \A r \in Walking' : /\ qsbr' \/ r \in inCS'
                            /\ pos'[r] \in Live' \union Retired'
                            /\ pos'[r] \in batch' => r \in wait'
    BY <1>2, <1>3, <1>10, <1>15
  <2> QED BY <1>11, <1>12, <1>13, <1>14, <2>1 DEF GraceHolds
<1> QED BY <1>2, <1>3, <1>4, <1>5, <1>8, <1>9, <1>16
        DEF RecInv, Published, Pinned, NobodyLost

LEMMA WriterNone ==
  ASSUME RecInv, NEW n, NEW p, NEW v, NEW q, WriterTurned(n, p, v, q, {v}),
         RetireNone(v, Swapped(n, v))
  PROVE  RecInv'
<1>1. /\ TypeOK /\ ListStands /\ OneScheme
  BY DEF RecInv
<1>2. /\ n \in Slot /\ v \in Slot /\ p \in Slot \union {Nil} /\ q \in Slot \union {Nil}
      /\ Relinked(n, p, v, q) /\ Frees({v}, Swapped(n, v)) /\ turn' \in 0 .. N + 1
      /\ scheme' = scheme /\ qsbr' = qsbr /\ pos' = pos
  BY DEF WriterTurned, config
<1>3. /\ scheme = "none" /\ age' = age /\ lag' = lag /\ hp' = hp /\ rlist' = rlist
      /\ inCS' = inCS /\ batch' = batch /\ wait' = wait /\ nextBatch' = nextBatch
  BY DEF RetireNone, ebr, hazard, rcu
<1>4. /\ Live' = (Live \union {n}) \ {v}
      /\ Retired' = (Retired \union {v}) \ {v}
      /\ state' \in [Slot -> {"live", "retired", "free"}]
      /\ next'  \in [Slot -> Slot \union {Nil}]
      /\ head'  \in Live'
      /\ ListStands'
      /\ lost' = lost \union {r \in Reader : pos[r] \in {v}}
  BY <1>1, <1>2, WriterMoves
<1>5. /\ rlist = {} /\ inCS = {} /\ batch = {} /\ wait = {} /\ nextBatch = {}
      /\ \A r \in Reader : hp[r] = Nil /\ lag[r] = Unpinned
  BY <1>1, <1>3 DEF OneScheme
<1>6. OneScheme'
  BY <1>2, <1>3, <1>5 DEF OneScheme
<1>7. TypeOK'
  <2>1. /\ scheme \in Schemes /\ qsbr \in BOOLEAN /\ pos \in [Reader -> Slot \union {Nil}]
        /\ lag \in [Reader -> {Unpinned, 0, 1}] /\ hp \in [Reader -> Slot \union {Nil}]
        /\ age \in [Slot -> {0, 1}] /\ lost \subseteq Reader
    BY <1>1 DEF TypeOK
  <2>2. lost' \subseteq Reader
    BY <1>4, <2>1
  <2> QED BY <1>2, <1>3, <1>4, <1>5, <2>1, <2>2 DEF TypeOK
<1> QED BY <1>2, <1>3, <1>4, <1>6, <1>7
        DEF RecInv, Published, Pinned, GraceHolds, NobodyLost

LEMMA RecWriter == RecInv /\ WriterTurn => RecInv'
<1> SUFFICES ASSUME RecInv, WriterTurn PROVE RecInv'
  OBVIOUS
<1>1. turn' \in 0 .. N + 1 /\ UNCHANGED <<config, pos>>
  BY ReadersAssumption DEF WriterTurn
<1>2. CASE UNCHANGED <<list, lost, ebr, hazard, rcu>>
  <2>1. /\ scheme' = scheme /\ qsbr' = qsbr /\ pos' = pos /\ state' = state /\ next' = next
        /\ head' = head /\ lost' = lost /\ lag' = lag /\ age' = age /\ hp' = hp
        /\ rlist' = rlist /\ inCS' = inCS /\ batch' = batch /\ wait' = wait
        /\ nextBatch' = nextBatch
    BY <1>1, <1>2 DEF config, list, ebr, hazard, rcu
  <2>2. Live' = Live /\ Retired' = Retired /\ Walking' = Walking
    BY <2>1 DEF Live, Retired, Walking
  <2>3. TypeOK'
    BY <1>1, <2>1, <2>2 DEF RecInv, TypeOK
  <2>4. ListStands' /\ OneScheme' /\ Published'
    BY <2>1, <2>2 DEF RecInv, ListStands, OneScheme, Published
  <2>5. Pinned' /\ GraceHolds' /\ NobodyLost'
    BY <2>1, <2>2 DEF RecInv, Pinned, NotOlder, GraceHolds, NobodyLost
  <2> QED BY <2>3, <2>4, <2>5 DEF RecInv
<1>3. ASSUME NEW n \in Slot, NEW v \in Slot, NEW p \in Slot \union {Nil},
             NEW q \in Slot \union {Nil}, q \in Live \union {n, Nil}, WriterStep(n, p, v, q)
      PROVE  RecInv'
  <2>1. Relinked(n, p, v, q)
    BY <1>3 DEF WriterStep, Relinked
  <2>2. \/ RetireEbr(v, Swapped(n, v)) \/ RetireHp(v, Swapped(n, v))
        \/ RetireRcu(v, Swapped(n, v)) \/ RetireNone(v, Swapped(n, v))
    BY <1>3 DEF WriterStep, Swapped
  <2>3. CASE RetireEbr(v, Swapped(n, v))
    <3>1. WriterTurned(n, p, v, q, {})
      BY <1>1, <2>1, <2>3 DEF WriterTurned, RetireEbr
    <3> QED BY <2>3, <3>1, WriterEbr
  <2>4. CASE RetireHp(v, Swapped(n, v))
    <3> DEFINE F == IF ScanDue(rlist \union {v}) THEN (rlist \union {v}) \ Held ELSE {}
    <3>1. Frees(F, Swapped(n, v)) /\ scheme = "hp"
      BY <2>4 DEF RetireHp
    <3>2. F \subseteq Retired \union {v}
      <4>1. rlist \subseteq Retired
        BY DEF RecInv, TypeOK
      <4> QED BY <4>1
    <3> HIDE DEF F
    <3>3. WriterTurned(n, p, v, q, F)
      BY <1>1, <2>1, <3>1, <3>2 DEF WriterTurned
    <3> QED BY <2>4, <3>3, WriterHp DEF F
  <2>5. CASE RetireRcu(v, Swapped(n, v))
    <3>1. WriterTurned(n, p, v, q, {})
      BY <1>1, <2>1, <2>5 DEF WriterTurned, RetireRcu
    <3> QED BY <2>5, <3>1, WriterRcu
  <2>6. CASE RetireNone(v, Swapped(n, v))
    <3>1. WriterTurned(n, p, v, q, {v})
      BY <1>1, <2>1, <2>6 DEF WriterTurned, RetireNone
    <3> QED BY <2>6, <3>1, WriterNone
  <2> QED BY <2>2, <2>3, <2>4, <2>5, <2>6
<1> QED BY <1>2, <1>3 DEF WriterTurn

-------------------------------------------------------------------------------
(* A reader takes up node s, which its scheme has kept for it. *)
LEMMA ReaderVisits ==
  ASSUME RecInv, NEW r \in Reader, NEW s \in Slot, Visit(r, s), turn' \in 0 .. N + 1,
         UNCHANGED <<config, list, age, rlist, batch, wait, nextBatch>>,
         lag' \in [Reader -> {Unpinned, 0, 1}],
         \A x \in Reader : x # r => lag'[x] = lag[x],
         scheme # "ebr" => lag'[r] = Unpinned,
         scheme = "ebr" => lag'[r] # Unpinned /\ s \in NotOlder(lag'[r]),
         inCS' \subseteq Reader, inCS \subseteq inCS', scheme # "rcu" => inCS' = {},
         scheme = "rcu" => /\ qsbr \/ r \in inCS'
                           /\ s \in Live \union Retired
                           /\ s \in batch => r \in wait,
         scheme = "hp" => s \in Live \union Retired
  PROVE  RecInv'
<1>1. /\ TypeOK /\ ListStands /\ OneScheme /\ Published /\ Pinned /\ GraceHolds /\ NobodyLost
  BY DEF RecInv
<1>2. /\ scheme' = scheme /\ qsbr' = qsbr /\ state' = state /\ next' = next /\ head' = head
      /\ age' = age /\ rlist' = rlist /\ batch' = batch /\ wait' = wait
      /\ nextBatch' = nextBatch
  BY DEF config, list
<1>3. Live' = Live /\ Retired' = Retired
  BY <1>2 DEF Live, Retired
<1>4. /\ pos' = [pos EXCEPT ![r] = s]
      /\ hp' = [hp EXCEPT ![r] = IF scheme = "hp" THEN s ELSE Nil]
      /\ lost' = IF state[s] = "free" THEN lost \union {r} ELSE lost \ {r}
  BY DEF Visit
<1>5. /\ pos \in [Reader -> Slot \union {Nil}] /\ hp \in [Reader -> Slot \union {Nil}]
      /\ lost \subseteq Reader /\ Nil \notin Slot
      /\ pos' \in [Reader -> Slot \union {Nil}] /\ hp' \in [Reader -> Slot \union {Nil}]
      /\ lost' \subseteq Reader
  BY <1>1, <1>4, Sorts DEF TypeOK
<1>6. /\ pos'[r] = s /\ \A x \in Reader : x # r => pos'[x] = pos[x]
      /\ hp'[r] = IF scheme = "hp" THEN s ELSE Nil
      /\ \A x \in Reader : x # r => hp'[x] = hp[x]
  BY <1>4, <1>5
<1>7. Walking' = Walking \union {r}
  BY <1>5, <1>6 DEF Walking
<1>8. NotOlder(0)' = NotOlder(0) /\ \A a \in {0, 1} : Since(Live', Retired', age', a) = NotOlder(a)
  BY <1>2, <1>3 DEF NotOlder
<1>9. TypeOK'
  <2>1. /\ scheme \in Schemes /\ qsbr \in BOOLEAN
        /\ state \in [Slot -> {"live", "retired", "free"}]
        /\ next \in [Slot -> Slot \union {Nil}] /\ head \in Live
        /\ age \in [Slot -> {0, 1}] /\ rlist \subseteq Retired
        /\ batch \subseteq Retired /\ wait \subseteq Reader /\ nextBatch \subseteq Retired
    BY <1>1 DEF TypeOK
  <2> QED BY <1>2, <1>3, <1>5, <2>1 DEF TypeOK
<1>10. ListStands'
  BY <1>1, <1>2, <1>3 DEF ListStands
<1>11. OneScheme'
  <2>1. scheme # "ebr" => \A x \in Reader : lag'[x] = Unpinned
    BY <1>1 DEF OneScheme
  <2>2. scheme # "hp" => rlist = {} /\ \A x \in Reader : hp'[x] = Nil
    BY <1>1, <1>6 DEF OneScheme
  <2>3. scheme # "rcu" => inCS' = {} /\ batch = {} /\ wait = {} /\ nextBatch = {}
    BY <1>1 DEF OneScheme
  <2> QED BY <1>2, <2>1, <2>2, <2>3 DEF OneScheme
<1>12. Published'
  <2> SUFFICES ASSUME scheme = "hp"
               PROVE  /\ hp' = pos' /\ rlist = Retired
                      /\ Cardinality(rlist) < Threshold \/ Cardinality(rlist) <= N
                      /\ \A x \in Walking' : pos'[x] \in Live \union Retired
    BY <1>2, <1>3 DEF Published
  <2>1. /\ hp = pos /\ rlist = Retired
        /\ Cardinality(rlist) < Threshold \/ Cardinality(rlist) <= N
        /\ \A x \in Walking : pos[x] \in Live \union Retired
    BY <1>1 DEF Published
  <2>2. \A x \in Walking' : pos'[x] \in Live \union Retired
    <3>1. \A x \in Walking : x \in Reader
      BY DEF Walking
    <3> QED BY <1>6, <1>7, <2>1, <3>1
  <2> QED BY <1>4, <2>1, <2>2
<1>13. Pinned'
  <2> SUFFICES ASSUME scheme = "ebr"
               PROVE  /\ \A x \in Walking' : /\ lag'[x] # Unpinned
                                             /\ pos'[x] \in NotOlder(lag'[x])
                      /\ \A x \in Retired : next[x] \in NotOlder(age[x]) \union {Nil}
    BY <1>2, <1>3 DEF Pinned, NotOlder
  <2>1. /\ \A x \in Walking : lag[x] # Unpinned /\ pos[x] \in NotOlder(lag[x])
        /\ \A x \in Retired : next[x] \in NotOlder(age[x]) \union {Nil}
    BY <1>1 DEF Pinned
  <2>2. ASSUME NEW x \in Walking'
        PROVE  lag'[x] # Unpinned /\ pos'[x] \in NotOlder(lag'[x])
    <3>1. CASE x = r
      BY <1>6, <3>1
    <3>2. CASE x # r
      <4>1. x \in Walking /\ x \in Reader
        BY <1>7, <3>2 DEF Walking
      <4>2. lag'[x] = lag[x] /\ pos'[x] = pos[x]
        BY <1>6, <3>2, <4>1
      <4> QED BY <2>1, <4>1, <4>2
    <3> QED BY <3>1, <3>2
  <2> QED BY <2>1, <2>2
<1>14. GraceHolds'
  <2> SUFFICES ASSUME scheme = "rcu"
               PROVE  /\ Retired = batch \union nextBatch /\ batch \intersect nextBatch = {}
                      /\ \A x \in Walking' : /\ qsbr \/ x \in inCS'
                                             /\ pos'[x] \in Live \union Retired
                                             /\ pos'[x] \in batch => x \in wait
                      /\ \A x \in Retired : next[x] \in Live \union Retired \union {Nil}
                      /\ \A x \in nextBatch : next[x] \notin batch
    BY <1>2, <1>3 DEF GraceHolds
  <2>1. /\ Retired = batch \union nextBatch /\ batch \intersect nextBatch = {}
        /\ \A x \in Walking : /\ qsbr \/ x \in inCS
                              /\ pos[x] \in Live \union Retired
                              /\ pos[x] \in batch => x \in wait
        /\ \A x \in Retired : next[x] \in Live \union Retired \union {Nil}
        /\ \A x \in nextBatch : next[x] \notin batch
    BY <1>1 DEF GraceHolds
  <2>2. ASSUME NEW x \in Walking'
        PROVE  /\ qsbr \/ x \in inCS'
               /\ pos'[x] \in Live \union Retired
               /\ pos'[x] \in batch => x \in wait
    <3>1. CASE x = r
      BY <1>6, <3>1
    <3>2. CASE x # r
      <4>1. x \in Walking /\ x \in Reader
        BY <1>7, <3>2 DEF Walking
      <4>2. pos'[x] = pos[x]
        BY <1>6, <3>2, <4>1
      <4> QED BY <2>1, <4>1, <4>2
    <3> QED BY <3>1, <3>2
  <2> QED BY <2>1, <2>2
<1>15. NobodyLost'
  <2> SUFFICES ASSUME scheme # "none" PROVE lost' = {}
    BY <1>2 DEF NobodyLost
  <2>1. s \in Live \union Retired
    <3>1. scheme \in {"ebr", "hp", "rcu", "none"}
      BY <1>1, SchemesAssumption DEF TypeOK
    <3>2. scheme = "ebr" => s \in Live \union Retired
      BY DEF NotOlder, Since
    <3> QED BY <3>1, <3>2
  <2>2. state[s] # "free"
    BY <2>1 DEF Live, Retired
  <2> QED BY <1>1, <1>4, <2>2 DEF NobodyLost
<1> QED BY <1>9, <1>10, <1>11, <1>12, <1>13, <1>14, <1>15 DEF RecInv

LEMMA RecBegin ==
  ASSUME RecInv, NEW r \in Reader, BeginOp(r), turn' \in 0 .. N + 1, UNCHANGED <<config, list>>
  PROVE  RecInv'
<1>1. TypeOK /\ ListStands /\ OneScheme /\ GraceHolds
  BY DEF RecInv
<1>2. head \in Live /\ head \in Slot /\ Live \intersect Retired = {}
  BY <1>1, Sorts, LiveLeadsToLive
<1>3. /\ Visit(r, head)
      /\ lag' = [lag EXCEPT ![r] = IF scheme = "ebr" THEN 0 ELSE Unpinned]
      /\ inCS' = IF scheme = "rcu" /\ ~qsbr THEN inCS \union {r} ELSE inCS
      /\ UNCHANGED <<config, list, age, rlist, batch, wait, nextBatch>>
  BY DEF BeginOp
<1>4. /\ lag \in [Reader -> {Unpinned, 0, 1}] /\ inCS \subseteq Reader
      /\ batch \subseteq Retired
  BY <1>1 DEF TypeOK
<1>5. /\ lag' \in [Reader -> {Unpinned, 0, 1}]
      /\ \A x \in Reader : x # r => lag'[x] = lag[x]
      /\ lag'[r] = IF scheme = "ebr" THEN 0 ELSE Unpinned
  BY <1>3, <1>4
<1>6. scheme = "ebr" => lag'[r] # Unpinned /\ head \in NotOlder(lag'[r])
  BY <1>2, <1>5 DEF NotOlder, Since, Unpinned
<1>7. /\ inCS' \subseteq Reader /\ inCS \subseteq inCS'
      /\ scheme # "rcu" => inCS' = {}
      /\ scheme = "rcu" => qsbr \/ r \in inCS'
  BY <1>1, <1>3, <1>4 DEF OneScheme
<1>8. head \in Live \union Retired /\ head \notin batch
  BY <1>2, <1>4
<1>9. scheme = "rcu" => /\ qsbr \/ r \in inCS'
                        /\ head \in Live \union Retired
                        /\ head \in batch => r \in wait
  BY <1>7, <1>8
<1> QED BY <1>2, <1>3, <1>5, <1>6, <1>7, <1>8, <1>9, ReaderVisits

LEMMA RecWalk ==
  ASSUME RecInv, NEW r \in Reader, Restart(r) \/ Advance(r), turn' \in 0 .. N + 1,
         UNCHANGED <<config, list>>
  PROVE  RecInv'
<1>1. TypeOK /\ ListStands /\ OneScheme /\ Published /\ Pinned /\ GraceHolds
  BY DEF RecInv
<1>2. /\ head \in Live /\ \A s \in Live : next[s] \in Live \union {Nil}
      /\ Live \subseteq Slot /\ Retired \subseteq Slot /\ Live \intersect Retired = {}
      /\ Nil \notin Slot
  BY <1>1, Sorts, LiveLeadsToLive
<1>3. /\ pos[r] # Nil /\ pos[r] \in Slot /\ r \in Walking
      /\ lag' = lag /\ inCS' = inCS
      /\ UNCHANGED <<config, list, age, rlist, batch, wait, nextBatch>>
      /\ \/ scheme = "hp" /\ Visit(r, head)
         \/ ~MustRestart(r) /\ next[pos[r]] # Nil /\ Visit(r, next[pos[r]])
  BY <1>1, Sorts DEF Restart, Advance, ebr, rcu, MustRestart, Walking
<1>4. /\ lag' \in [Reader -> {Unpinned, 0, 1}] /\ inCS' \subseteq Reader
      /\ \A x \in Reader : x # r => lag'[x] = lag[x]
      /\ next \in [Slot -> Slot \union {Nil}]
      /\ age \in [Slot -> {0, 1}] /\ lag \in [Reader -> {Unpinned, 0, 1}]
      /\ batch \subseteq Retired
  BY <1>1, <1>3 DEF TypeOK
<1>5. /\ scheme # "ebr" => lag'[r] = Unpinned
      /\ scheme # "rcu" => inCS' = {}
      /\ inCS \subseteq inCS'
  BY <1>1, <1>3 DEF OneScheme
<1>6. CASE scheme = "hp" /\ Visit(r, head)
  <2>1. head \in Live \union Retired /\ head \in Slot
    BY <1>2
  <2>2. scheme # "ebr" /\ scheme # "rcu"
    BY <1>6
  <2> QED BY <1>3, <1>4, <1>5, <1>6, <2>1, <2>2, ReaderVisits
<1>7. CASE ~MustRestart(r) /\ next[pos[r]] # Nil /\ Visit(r, next[pos[r]])
  <2> DEFINE s == next[pos[r]]
  <2>1. s \in Slot
    BY <1>3, <1>4, <1>7
  <2>2. scheme = "hp" => s \in Live \union Retired
    <3> SUFFICES ASSUME scheme = "hp" PROVE s \in Live \union Retired
      OBVIOUS
    <3>1. pos[r] \in Live \union Retired
      BY <1>1, <1>3 DEF Published
    <3>2. pos[r] \notin Retired
      BY <1>7 DEF MustRestart, Retired
    <3> QED BY <1>2, <1>7, <3>1, <3>2
  <2>3. scheme = "ebr" => lag'[r] # Unpinned /\ s \in NotOlder(lag'[r])
    <3> SUFFICES ASSUME scheme = "ebr" PROVE lag[r] # Unpinned /\ s \in NotOlder(lag[r])
      BY <1>3
    <3>1. lag[r] # Unpinned /\ pos[r] \in NotOlder(lag[r])
      BY <1>1, <1>3 DEF Pinned
    <3>2. lag[r] \in {0, 1}
      BY <1>4, <3>1
    <3>3. CASE pos[r] \in Live
      <4>1. s \in Live
        BY <1>2, <1>7, <3>3
      <4> QED BY <3>1, <4>1 DEF NotOlder, Since
    <3>4. CASE pos[r] \notin Live
      <4>1. pos[r] \in Retired /\ age[pos[r]] <= lag[r]
        BY <3>1, <3>4 DEF NotOlder, Since
      <4>2. s \in NotOlder(age[pos[r]])
        BY <1>1, <1>7, <4>1 DEF Pinned
      <4>3. s \in Live \/ (s \in Retired /\ age[s] <= age[pos[r]])
        BY <4>2 DEF NotOlder, Since
      <4>4. age[pos[r]] \in {0, 1} /\ (s \in Retired => age[s] \in {0, 1})
        BY <1>2, <1>4, <4>1
      <4>5. s \in Retired => (age[s] <= age[pos[r]] => age[s] <= lag[r])
        BY <3>2, <4>1, <4>4
      <4> QED BY <3>1, <4>3, <4>5 DEF NotOlder, Since
    <3> QED BY <3>3, <3>4
  <2>4. scheme = "rcu" => /\ qsbr \/ r \in inCS'
                          /\ s \in Live \union Retired
                          /\ s \in batch => r \in wait
    <3> SUFFICES ASSUME scheme = "rcu"
                 PROVE  /\ qsbr \/ r \in inCS
                        /\ s \in Live \union Retired
                        /\ s \in batch => r \in wait
      BY <1>3
    <3>1. /\ Retired = batch \union nextBatch
          /\ qsbr \/ r \in inCS
          /\ pos[r] \in Live \union Retired
          /\ pos[r] \in batch => r \in wait
          /\ \A x \in Retired : next[x] \in Live \union Retired \union {Nil}
          /\ \A x \in nextBatch : next[x] \notin batch
      BY <1>1, <1>3 DEF GraceHolds
    <3>2. s \in Live \union Retired
      BY <1>2, <1>7, <3>1
    <3>3. pos[r] \in Live => s \notin batch
      BY <1>2, <1>4, <1>7
    <3> QED BY <3>1, <3>2, <3>3
  <2> HIDE DEF s
  <2>5. Visit(r, s)
    BY <1>7 DEF s
  <2> QED BY <1>3, <1>4, <1>5, <2>1, <2>2, <2>3, <2>4, <2>5, ReaderVisits
<1> QED BY <1>3, <1>6, <1>7

LEMMA RecEnd ==
  ASSUME RecInv, NEW r \in Reader, EndOp(r), turn' \in 0 .. N + 1, UNCHANGED <<config, list>>
  PROVE  RecInv'
<1>1. /\ TypeOK /\ ListStands /\ OneScheme /\ Published /\ Pinned /\ GraceHolds /\ NobodyLost
  BY DEF RecInv
<1>2. /\ scheme' = scheme /\ qsbr' = qsbr /\ state' = state /\ next' = next /\ head' = head
      /\ age' = age /\ rlist' = rlist /\ batch' = batch /\ nextBatch' = nextBatch
  BY DEF config, list, EndOp
<1>3. Live' = Live /\ Retired' = Retired
  BY <1>2 DEF Live, Retired
<1>4. /\ pos' = [pos EXCEPT ![r] = Nil] /\ hp' = [hp EXCEPT ![r] = Nil]
      /\ lag' = [lag EXCEPT ![r] = Unpinned]
      /\ lost' = lost \ {r} /\ inCS' = inCS \ {r} /\ wait' = wait \ {r}
  BY DEF EndOp, WaitAfter
<1>5. /\ pos \in [Reader -> Slot \union {Nil}] /\ hp \in [Reader -> Slot \union {Nil}]
      /\ lag \in [Reader -> {Unpinned, 0, 1}]
  BY <1>1 DEF TypeOK
<1>6. /\ pos' \in [Reader -> Slot \union {Nil}] /\ hp' \in [Reader -> Slot \union {Nil}]
      /\ lag' \in [Reader -> {Unpinned, 0, 1}]
      /\ pos'[r] = Nil /\ hp'[r] = Nil /\ lag'[r] = Unpinned
      /\ \A x \in Reader : x # r => pos'[x] = pos[x] /\ hp'[x] = hp[x] /\ lag'[x] = lag[x]
  BY <1>4, <1>5
<1>7. \A x \in Walking' : x \in Walking /\ x # r /\ x \in Reader /\ pos'[x] = pos[x]
  BY <1>6 DEF Walking
<1>8. TypeOK'
  <2>1. /\ scheme \in Schemes /\ qsbr \in BOOLEAN
        /\ state \in [Slot -> {"live", "retired", "free"}]
        /\ next \in [Slot -> Slot \union {Nil}] /\ head \in Live
        /\ age \in [Slot -> {0, 1}] /\ rlist \subseteq Retired /\ lost \subseteq Reader
        /\ inCS \subseteq Reader
        /\ batch \subseteq Retired /\ wait \subseteq Reader /\ nextBatch \subseteq Retired
    BY <1>1 DEF TypeOK
  <2>2. lost' \subseteq Reader /\ inCS' \subseteq Reader /\ wait' \subseteq Reader
    BY <1>4, <2>1
  <2> QED BY <1>2, <1>3, <1>6, <2>1, <2>2 DEF TypeOK
<1>9. ListStands'
  BY <1>1, <1>2, <1>3 DEF ListStands
<1>10. OneScheme'
  <2>1. scheme # "ebr" => \A x \in Reader : lag'[x] = Unpinned
    BY <1>1, <1>6 DEF OneScheme
  <2>2. scheme # "hp" => rlist = {} /\ \A x \in Reader : hp'[x] = Nil
    BY <1>1, <1>6 DEF OneScheme
  <2>3. scheme # "rcu" => inCS' = {} /\ batch = {} /\ wait' = {} /\ nextBatch = {}
    BY <1>1, <1>4 DEF OneScheme
  <2> QED BY <1>2, <2>1, <2>2, <2>3 DEF OneScheme
<1>11. Published'
  <2> SUFFICES ASSUME scheme = "hp"
               PROVE  /\ hp' = pos' /\ rlist = Retired
                      /\ Cardinality(rlist) < Threshold \/ Cardinality(rlist) <= N
                      /\ \A x \in Walking' : pos'[x] \in Live \union Retired
    BY <1>2, <1>3 DEF Published
  <2>1. /\ hp = pos /\ rlist = Retired
        /\ Cardinality(rlist) < Threshold \/ Cardinality(rlist) <= N
        /\ \A x \in Walking : pos[x] \in Live \union Retired
    BY <1>1 DEF Published
  <2> QED BY <1>4, <1>7, <2>1
<1>12. Pinned'
  <2> SUFFICES ASSUME scheme = "ebr"
               PROVE  /\ \A x \in Walking' : /\ lag'[x] # Unpinned
                                             /\ pos'[x] \in NotOlder(lag'[x])
                      /\ \A x \in Retired : next[x] \in NotOlder(age[x]) \union {Nil}
    BY <1>2, <1>3 DEF Pinned, NotOlder
  <2>1. /\ \A x \in Walking : lag[x] # Unpinned /\ pos[x] \in NotOlder(lag[x])
        /\ \A x \in Retired : next[x] \in NotOlder(age[x]) \union {Nil}
    BY <1>1 DEF Pinned
  <2>2. \A x \in Walking' : lag'[x] = lag[x]
    BY <1>6, <1>7
  <2> QED BY <1>7, <2>1, <2>2
<1>13. GraceHolds'
  <2> SUFFICES ASSUME scheme = "rcu"
               PROVE  /\ Retired = batch \union nextBatch /\ batch \intersect nextBatch = {}
                      /\ \A x \in Walking' : /\ qsbr \/ x \in inCS'
                                             /\ pos'[x] \in Live \union Retired
                                             /\ pos'[x] \in batch => x \in wait'
                      /\ \A x \in Retired : next[x] \in Live \union Retired \union {Nil}
                      /\ \A x \in nextBatch : next[x] \notin batch
    BY <1>2, <1>3 DEF GraceHolds
  <2>1. /\ Retired = batch \union nextBatch /\ batch \intersect nextBatch = {}
        /\ \A x \in Walking : /\ qsbr \/ x \in inCS
                              /\ pos[x] \in Live \union Retired
                              /\ pos[x] \in batch => x \in wait
        /\ \A x \in Retired : next[x] \in Live \union Retired \union {Nil}
        /\ \A x \in nextBatch : next[x] \notin batch
    BY <1>1 DEF GraceHolds
  <2> QED BY <1>4, <1>7, <2>1
<1>14. NobodyLost'
  BY <1>1, <1>2, <1>4 DEF NobodyLost
<1> QED BY <1>8, <1>9, <1>10, <1>11, <1>12, <1>13, <1>14 DEF RecInv

(* A turn in which nothing but the turn changes. *)
LEMMA RecIdle ==
  ASSUME RecInv, turn' \in 0 .. N + 1,
         UNCHANGED <<config, list, pos, lost, ebr, hazard, rcu>>
  PROVE  RecInv'
<1>1. /\ scheme' = scheme /\ qsbr' = qsbr /\ pos' = pos /\ state' = state /\ next' = next
      /\ head' = head /\ lost' = lost /\ lag' = lag /\ age' = age /\ hp' = hp
      /\ rlist' = rlist /\ inCS' = inCS /\ batch' = batch /\ wait' = wait
      /\ nextBatch' = nextBatch
  BY DEF config, list, ebr, hazard, rcu
<1>2. Live' = Live /\ Retired' = Retired /\ Walking' = Walking
  BY <1>1 DEF Live, Retired, Walking
<1>3. TypeOK'
  BY <1>1, <1>2 DEF RecInv, TypeOK
<1>4. ListStands' /\ OneScheme' /\ Published'
  BY <1>1, <1>2 DEF RecInv, ListStands, OneScheme, Published
<1>5. Pinned' /\ GraceHolds' /\ NobodyLost'
  BY <1>1, <1>2 DEF RecInv, Pinned, NotOlder, GraceHolds, NobodyLost
<1> QED BY <1>3, <1>4, <1>5 DEF RecInv

LEMMA RecReader == RecInv /\ ReaderTurn => RecInv'
<1> SUFFICES ASSUME RecInv, ReaderTurn PROVE RecInv'
  OBVIOUS
<1>1. turn \in Reader /\ turn' \in 0 .. N + 1 /\ UNCHANGED <<config, list>>
  BY ReadersAssumption DEF ReaderTurn, Reader
<1>2. CASE BeginOp(turn)
  BY <1>1, <1>2, RecBegin
<1>3. CASE Restart(turn) \/ Advance(turn)
  BY <1>1, <1>3, RecWalk
<1>4. CASE EndOp(turn)
  BY <1>1, <1>4, RecEnd
<1>5. CASE UNCHANGED <<pos, lost, ebr, hazard, rcu>>
  BY <1>1, <1>5, RecIdle
<1> QED BY <1>2, <1>3, <1>4, <1>5 DEF ReaderTurn

-------------------------------------------------------------------------------
(* The scheme frees F and leaves the list alone. *)
LEMMA Freed ==
  ASSUME TypeOK, NEW F, F \subseteq Retired, Frees(F, state)
  PROVE  /\ Live' = Live /\ Retired' = Retired \ F
         /\ state' \in [Slot -> {"live", "retired", "free"}]
         /\ lost' = lost \union {r \in Reader : pos[r] \in F}
<1>1. /\ state \in [Slot -> {"live", "retired", "free"}]
      /\ state' = [s \in Slot |-> IF s \in F THEN "free" ELSE state[s]]
      /\ lost' = lost \union {r \in Reader : pos[r] \in F}
      /\ F \subseteq Slot /\ \A s \in F : state[s] = "retired"
  BY DEF TypeOK, Frees, Retired
<1>2. /\ \A s \in Slot : state'[s] = IF s \in F THEN "free" ELSE state[s]
      /\ state' \in [Slot -> {"live", "retired", "free"}]
  BY <1>1
<1>3. Live' = Live
  BY <1>1, <1>2 DEF Live
<1>4. Retired' = Retired \ F
  BY <1>1, <1>2 DEF Retired
<1> QED BY <1>1, <1>2, <1>3, <1>4

LEMMA RecReclaimEbr ==
  ASSUME RecInv, ReclaimEbr, turn' \in 0 .. N + 1, UNCHANGED <<config, next, head, pos>>
  PROVE  RecInv'
<1> DEFINE d    == IF MayAdvance THEN 1 ELSE 0
           done == {s \in Retired : age[s] + d >= 2}
<1>1. /\ TypeOK /\ ListStands /\ OneScheme /\ Pinned
  BY DEF RecInv
<1>2. /\ scheme = "ebr"
      /\ lag' = [r \in Reader |-> IF lag[r] = Unpinned THEN Unpinned ELSE lag[r] + d]
      /\ age' = [s \in Slot |-> IF s \in Retired \ done THEN age[s] + d ELSE 0]
      /\ Frees(done, state)
      /\ UNCHANGED <<hazard, rcu>>
  BY DEF ReclaimEbr
<1>3. /\ scheme' = scheme /\ qsbr' = qsbr /\ next' = next /\ head' = head /\ pos' = pos
      /\ hp' = hp /\ rlist' = rlist /\ inCS' = inCS /\ batch' = batch /\ wait' = wait
      /\ nextBatch' = nextBatch
  BY <1>2 DEF config, hazard, rcu
<1>4. d \in {0, 1} /\ (d = 1 => \A r \in Reader : lag[r] \in {Unpinned, 0})
  BY DEF MayAdvance
<1>5. /\ Live' = Live /\ Retired' = Retired \ done
      /\ state' \in [Slot -> {"live", "retired", "free"}]
      /\ lost' = lost \union {r \in Reader : pos[r] \in done}
  BY <1>1, <1>2, Freed
<1> HIDE DEF d
<1>6. /\ lag \in [Reader -> {Unpinned, 0, 1}] /\ age \in [Slot -> {0, 1}]
      /\ Retired \subseteq Slot /\ Nil \notin Retired
  BY <1>1, Sorts DEF TypeOK
<1>7. /\ \A s \in Retired : s \notin done => age[s] + d \in {0, 1}
      /\ \A s \in Retired : s \notin done <=> age[s] + d <= 1
  BY <1>4, <1>6
<1> HIDE DEF done
<1>8. /\ age' \in [Slot -> {0, 1}]
      /\ \A s \in Retired' : s \in Retired /\ s \notin done /\ age'[s] = age[s] + d
  BY <1>2, <1>5, <1>6, <1>7
<1>9. \A r \in Reader : /\ lag[r] = Unpinned => lag'[r] = Unpinned
                        /\ lag[r] # Unpinned => lag'[r] = lag[r] + d /\ lag'[r] \in {0, 1}
  BY <1>2, <1>4, <1>6
<1>10. lag' \in [Reader -> {Unpinned, 0, 1}]
  BY <1>2, <1>9
(* What is not older than a reader, or a node, is kept and ages with it.   *)
<1>11. ASSUME NEW a \in {0, 1}, a + d <= 1, NEW s \in NotOlder(a)
       PROVE  s \in Since(Live', Retired', age', a + d) /\ s \notin done
  <2>1. s \in Live \/ (s \in Retired /\ age[s] <= a)
    BY DEF NotOlder, Since
  <2>2. CASE s \in Live
    <3>1. s \notin done
      BY <1>1, <2>2, Sorts DEF done
    <3> QED BY <1>5, <2>2, <3>1 DEF Since
  <2>3. CASE s \in Retired /\ age[s] <= a
    <3>1. age[s] \in {0, 1}
      BY <1>6, <2>3
    <3>2. age[s] + d <= 1
      BY <1>4, <1>11, <2>3, <3>1
    <3>3. s \notin done
      BY <1>7, <2>3, <3>2
    <3>4. s \in Retired' /\ age'[s] = age[s] + d
      BY <1>5, <1>8, <2>3, <3>3
    <3>5. age'[s] <= a + d
      BY <1>4, <2>3, <3>1, <3>4
    <3> QED BY <3>3, <3>4, <3>5 DEF Since
  <2> QED BY <2>1, <2>2, <2>3
<1>12. Walking' = Walking /\ \A r \in Walking : r \in Reader
  BY <1>3 DEF Walking
<1>13. ASSUME NEW r \in Walking
       PROVE  /\ lag'[r] # Unpinned /\ pos[r] \in Since(Live', Retired', age', lag'[r])
              /\ pos[r] \notin done
  <2>1. lag[r] # Unpinned /\ pos[r] \in NotOlder(lag[r])
    BY <1>1, <1>2 DEF Pinned
  <2>2. lag[r] \in {0, 1} /\ lag'[r] = lag[r] + d /\ lag'[r] \in {0, 1}
    BY <1>6, <1>9, <1>12, <2>1
  <2>3. lag[r] + d <= 1
    BY <2>2
  <2>4. lag'[r] # Unpinned
    BY <2>2 DEF Unpinned
  <2> QED BY <1>11, <2>1, <2>2, <2>3, <2>4
<1>14. ASSUME NEW s \in Retired'
       PROVE  next[s] \in Since(Live', Retired', age', age'[s]) \union {Nil}
  <2>1. s \in Retired /\ age'[s] = age[s] + d /\ age[s] + d \in {0, 1}
    BY <1>7, <1>8
  <2>2. next[s] \in NotOlder(age[s]) \union {Nil}
    BY <1>1, <1>2, <2>1 DEF Pinned
  <2>3. age[s] \in {0, 1} /\ age[s] + d <= 1
    BY <1>6, <2>1
  <2> QED BY <1>11, <2>1, <2>2, <2>3
<1>15. lost' = {}
  <2>1. Nil \notin done
    BY <1>6 DEF done
  <2> QED BY <1>2, <1>5, <1>13, <2>1, NobodyLosesIt
<1>16. /\ rlist = {} /\ inCS = {} /\ batch = {} /\ wait = {} /\ nextBatch = {}
       /\ \A r \in Reader : hp[r] = Nil
  BY <1>1, <1>2 DEF OneScheme
<1>17. OneScheme'
  BY <1>2, <1>3, <1>16 DEF OneScheme
<1>18. ListStands'
  BY <1>1, <1>3, <1>5 DEF ListStands
<1>19. TypeOK'
  <2>1. /\ scheme \in Schemes /\ qsbr \in BOOLEAN /\ pos \in [Reader -> Slot \union {Nil}]
        /\ next \in [Slot -> Slot \union {Nil}] /\ head \in Live
        /\ hp \in [Reader -> Slot \union {Nil}]
    BY <1>1 DEF TypeOK
  <2> QED BY <1>3, <1>5, <1>8, <1>10, <1>15, <1>16, <2>1 DEF TypeOK
<1>20. Pinned'
  <2>1. \A r \in Walking' : lag'[r] # Unpinned /\ pos'[r] \in Since(Live', Retired', age', lag'[r])
    BY <1>3, <1>12, <1>13
  <2>2. \A s \in Retired' : next'[s] \in Since(Live', Retired', age', age'[s]) \union {Nil}
    BY <1>3, <1>14
  <2> QED BY <2>1, <2>2 DEF Pinned, NotOlder
<1> QED BY <1>2, <1>3, <1>15, <1>17, <1>18, <1>19, <1>20
        DEF RecInv, Published, GraceHolds, NobodyLost

LEMMA RecReclaimRcu ==
  ASSUME RecInv, ReclaimRcu, turn' \in 0 .. N + 1, UNCHANGED <<config, next, head, pos>>
  PROVE  RecInv'
<1> DEFINE ended  == IF wait = {} THEN batch ELSE {}
           starts == batch = ended /\ nextBatch # {}
           atOnce == IF starts /\ MustWaitFor = {} THEN nextBatch ELSE {}
           F      == ended \union atOnce
<1>1. /\ TypeOK /\ ListStands /\ OneScheme /\ GraceHolds
  BY DEF RecInv
<1>2. /\ scheme = "rcu" /\ Frees(F, state)
      /\ starts  => batch' = nextBatch \ atOnce /\ wait' = MustWaitFor /\ nextBatch' = {}
      /\ ~starts => batch' = batch \ ended /\ wait' = wait /\ nextBatch' = nextBatch
      /\ UNCHANGED <<ebr, hazard, inCS>>
  BY DEF ReclaimRcu
<1>3. /\ scheme' = scheme /\ qsbr' = qsbr /\ next' = next /\ head' = head /\ pos' = pos
      /\ lag' = lag /\ age' = age /\ hp' = hp /\ rlist' = rlist /\ inCS' = inCS
  BY <1>2 DEF config, hazard, ebr
<1>4. /\ Retired = batch \union nextBatch /\ batch \intersect nextBatch = {}
      /\ \A r \in Walking : /\ qsbr \/ r \in inCS
                            /\ pos[r] \in Live \union Retired
                            /\ pos[r] \in batch => r \in wait
      /\ \A s \in Retired : next[s] \in Live \union Retired \union {Nil}
      /\ \A s \in nextBatch : next[s] \notin batch
  BY <1>1, <1>2 DEF GraceHolds
<1>5. F \subseteq Retired
  BY <1>4
<1>6. /\ Live' = Live /\ Retired' = Retired \ F
      /\ state' \in [Slot -> {"live", "retired", "free"}]
      /\ lost' = lost \union {r \in Reader : pos[r] \in F}
  <2> HIDE DEF F
  <2> QED BY <1>1, <1>2, <1>5, Freed
<1>7. Live \intersect Retired = {} /\ Nil \notin Retired /\ Live \subseteq Slot
  BY <1>1, Sorts
<1>8. /\ \A s \in Live : next[s] \in Live \union {Nil}
  BY <1>1, LiveLeadsToLive
<1>9. Walking' = Walking /\ \A r \in Walking : r \in Reader
  BY <1>3 DEF Walking
<1>10. \A r \in Walking : r \in MustWaitFor
  BY <1>4, <1>9 DEF MustWaitFor
<1>11. /\ ended = batch \/ ended = {}
       /\ ended # {} => wait = {}
  OBVIOUS
<1>12. \A r \in Walking : pos[r] \notin F /\ pos[r] \in Live' \union Retired'
  <2> SUFFICES ASSUME NEW r \in Walking PROVE pos[r] \notin F
    BY <1>4, <1>6
  <2>1. pos[r] \notin ended
    BY <1>4
  <2>2. MustWaitFor # {}
    BY <1>10
  <2> QED BY <2>1, <2>2
<1>13. lost' = {}
  <2> HIDE DEF F
  <2>1. Nil \notin F
    BY <1>5, <1>7
  <2> QED BY <1>2, <1>6, <1>12, <2>1, NobodyLosesIt
<1>14. /\ Retired' = batch' \union nextBatch' /\ batch' \intersect nextBatch' = {}
  <2>1. CASE starts
    <3>1. Retired' = nextBatch \ atOnce
      BY <1>4, <1>6, <2>1
    <3> QED BY <1>2, <2>1, <3>1
  <2>2. CASE ~starts
    <3>1. Retired' = (batch \ ended) \union nextBatch
      BY <1>4, <1>6, <2>2
    <3> QED BY <1>2, <1>4, <2>2, <3>1
  <2> QED BY <2>1, <2>2
<1>15. \A r \in Walking : pos[r] \in batch' => r \in wait'
  BY <1>2, <1>4, <1>10
<1>16. ASSUME NEW s \in Retired' PROVE next[s] \in Live' \union Retired' \union {Nil}
  <2>1. s \in Retired /\ s \notin F /\ next[s] \in Live \union Retired \union {Nil}
    BY <1>4, <1>6
  <2>2. CASE atOnce # {}
    <3>1. Retired' = {}
      BY <1>4, <1>6, <2>2
    <3> QED BY <3>1
  <2>3. CASE atOnce = {}
    <3>1. next[s] \notin ended
      <4>1. CASE ended = {}
        BY <4>1
      <4>2. CASE ended = batch
        BY <1>4, <2>1, <4>2
      <4> QED BY <1>11, <4>1, <4>2
    <3> QED BY <1>6, <2>1, <2>3, <3>1
  <2> QED BY <2>2, <2>3
<1>17. \A s \in nextBatch' : next[s] \notin batch'
  BY <1>2, <1>4
<1> HIDE DEF F, atOnce, ended, starts
<1>18. GraceHolds'
  <2>1. \A r \in Walking' : /\ qsbr' \/ r \in inCS'
                            /\ pos'[r] \in Live' \union Retired'
                            /\ pos'[r] \in batch' => r \in wait'
    BY <1>3, <1>4, <1>9, <1>12, <1>15
  <2>2. /\ \A s \in Retired' : next'[s] \in Live' \union Retired' \union {Nil}
        /\ \A s \in nextBatch' : next'[s] \notin batch'
    BY <1>3, <1>16, <1>17
  <2> QED BY <1>14, <2>1, <2>2 DEF GraceHolds
<1>19. /\ rlist = {} /\ \A r \in Reader : hp[r] = Nil
       /\ \A r \in Reader : lag[r] = Unpinned
  BY <1>1, <1>2 DEF OneScheme
<1>20. OneScheme'
  BY <1>2, <1>3, <1>19 DEF OneScheme
<1>21. ListStands'
  BY <1>1, <1>3, <1>6 DEF ListStands
<1>22. TypeOK'
  <2>1. /\ scheme \in Schemes /\ qsbr \in BOOLEAN /\ pos \in [Reader -> Slot \union {Nil}]
        /\ next \in [Slot -> Slot \union {Nil}] /\ head \in Live
        /\ lag \in [Reader -> {Unpinned, 0, 1}] /\ hp \in [Reader -> Slot \union {Nil}]
        /\ age \in [Slot -> {0, 1}] /\ inCS \subseteq Reader /\ wait \subseteq Reader
    BY <1>1 DEF TypeOK
  <2>2. wait' \subseteq Reader
    BY <1>2, <2>1 DEF MustWaitFor
  <2>3. batch' \subseteq Retired' /\ nextBatch' \subseteq Retired'
    BY <1>14
  <2> QED BY <1>3, <1>6, <1>13, <1>19, <2>1, <2>2, <2>3 DEF TypeOK
<1> QED BY <1>2, <1>3, <1>13, <1>18, <1>20, <1>21, <1>22
        DEF RecInv, Published, Pinned, NobodyLost

LEMMA RecReclaim == RecInv /\ ReclaimTurn => RecInv'
<1> SUFFICES ASSUME RecInv, ReclaimTurn PROVE RecInv'
  OBVIOUS
<1>1. turn' \in 0 .. N + 1 /\ UNCHANGED <<config, next, head, pos>>
  BY ReadersAssumption DEF ReclaimTurn
<1>2. CASE ReclaimEbr
  BY <1>1, <1>2, RecReclaimEbr
<1>3. CASE ReclaimRcu
  BY <1>1, <1>3, RecReclaimRcu
<1>4. CASE UNCHANGED <<state, lost, ebr, hazard, rcu>>
  <2>1. UNCHANGED <<config, list, pos, lost, ebr, hazard, rcu>>
    BY <1>1, <1>4 DEF list
  <2> QED BY <1>1, <2>1, RecIdle
<1> QED BY <1>2, <1>3, <1>4 DEF ReclaimTurn

-------------------------------------------------------------------------------
LEMMA RecNext == RecInv /\ [Next]_vars => RecInv'
<1> SUFFICES ASSUME RecInv, [Next]_vars PROVE RecInv'
  OBVIOUS
<1>1. CASE UNCHANGED vars
  <2>1. turn' = turn /\ UNCHANGED <<config, list, pos, lost, ebr, hazard, rcu>>
    BY <1>1 DEF vars
  <2>2. turn' \in 0 .. N + 1
    BY <2>1 DEF RecInv, TypeOK
  <2> QED BY <2>1, <2>2, RecIdle
<1>2. CASE Next
  BY <1>2, RecWriter, RecReader, RecReclaim DEF Next
<1> QED BY <1>1, <1>2

LEMMA RecHolds == Spec => []RecInv
BY RecInit, RecNext, PTL DEF Spec

(* Every variable keeps its type under every scheme; in particular no      *)
(* epoch is more than one ahead of a reader's, no node is kept through a   *)
(* third, and what a retire list or a batch holds is unlinked and not      *)
(* freed yet.                                                              *)
THEOREM ReclaimTypeCorrect == Spec => []TypeOK
BY RecHolds, PTL DEF RecInv

(* Hazard pointers keep the unlinked nodes that are not freed below the    *)
(* threshold or at no more than the number of readers, whatever the        *)
(* readers do and however long one pauses.                                 *)
THEOREM RetireListBounded == Spec => []HpBounded
<1>1. RecInv => HpBounded
  BY DEF RecInv, Published, HpBounded
<1> QED BY <1>1, RecHolds, PTL

-------------------------------------------------------------------------------
(* What next pointers lead to from a set they do not lead out of.          *)
AheadFrom(s, n, g) ==
  g = [i \in 0 .. n |-> IF i = 0 THEN {s}
                        ELSE g[i - 1] \union ({next[x] : x \in g[i - 1]} \ {Nil})]
IsAhead(s, n) == \E g : AheadFrom(s, n, g)

LEMMA AheadExists == \A s : \A n \in Nat : IsAhead(s, n)
<1> SUFFICES ASSUME NEW s PROVE \A n \in Nat : IsAhead(s, n)
  OBVIOUS
<1> DEFINE NS == {n \in Nat : ~IsAhead(s, n)}
<1> SUFFICES ASSUME NS # {} PROVE FALSE
  OBVIOUS
<1>1. PICK n \in NS : \A m \in NS : n <= m
  BY LeastOf
<1>2. n \in Nat /\ ~IsAhead(s, n)
  BY <1>1
<1>3. n # 0
  <2> SUFFICES ASSUME n = 0 PROVE FALSE
    OBVIOUS
  <2> DEFINE g == [i \in 0 .. 0 |-> {s}]
  <2>1. g = [i \in 0 .. 0 |-> IF i = 0 THEN {s}
                              ELSE g[i - 1] \union ({next[x] : x \in g[i - 1]} \ {Nil})]
    OBVIOUS
  <2> HIDE DEF g
  <2> QED BY <1>2, <2>1 DEF IsAhead, AheadFrom
<1>4. n - 1 \in Nat /\ IsAhead(s, n - 1)
  <2>1. n - 1 \in Nat /\ ~(n <= n - 1)
    BY <1>2, <1>3
  <2> QED BY <1>1, <2>1
<1>5. PICK g : AheadFrom(s, n - 1, g)
  BY <1>4 DEF IsAhead
<1>6. g = [i \in 0 .. n - 1 |-> IF i = 0 THEN {s}
                                ELSE g[i - 1] \union ({next[x] : x \in g[i - 1]} \ {Nil})]
  BY <1>5 DEF AheadFrom
<1> DEFINE Step(S) == S \union ({next[x] : x \in S} \ {Nil})
           h == [i \in 0 .. n |-> IF i = n THEN Step(g[n - 1]) ELSE g[i]]
<1>7. \A i \in 0 .. n - 1 : g[i] = IF i = 0 THEN {s} ELSE Step(g[i - 1])
  BY <1>2, <1>3, <1>6
<1> HIDE DEF Step
<1>8. ASSUME NEW i \in 0 .. n PROVE h[i] = IF i = 0 THEN {s} ELSE Step(h[i - 1])
  <2>1. CASE i = n
    <3>1. n - 1 \in 0 .. n /\ n - 1 # n /\ n \in 0 .. n
      BY <1>2, <1>3
    <3>2. h[n] = Step(g[n - 1]) /\ h[n - 1] = g[n - 1]
      BY <3>1
    <3> QED BY <1>3, <2>1, <3>2
  <2>2. CASE i # n
    <3>1. i \in 0 .. n - 1 /\ h[i] = g[i]
      BY <1>2, <2>2
    <3>2. CASE i = 0
      BY <1>7, <3>1, <3>2
    <3>3. CASE i # 0
      <4>1. i - 1 \in 0 .. n /\ i - 1 # n
        BY <1>2, <2>2, <3>3
      <4>2. h[i - 1] = g[i - 1]
        BY <4>1
      <4> QED BY <1>7, <3>1, <3>3, <4>2
    <3> QED BY <3>2, <3>3
  <2> QED BY <2>1, <2>2
<1>9. h = [i \in 0 .. n |-> h[i]]
  OBVIOUS
<1> HIDE DEF h
<1>10. h = [i \in 0 .. n |-> IF i = 0 THEN {s} ELSE Step(h[i - 1])]
  BY <1>8, <1>9
<1>11. AheadFrom(s, n, h)
  BY <1>10 DEF AheadFrom, Step
<1> QED BY <1>2, <1>11 DEF IsAhead

LEMMA AheadStays ==
  ASSUME NEW K, NEW s \in K, \A x \in K : next[x] \in K \union {Nil}
  PROVE  Ahead(s) \subseteq K
<1> DEFINE n == Cardinality(Slot)
           g == CHOOSE g : AheadFrom(s, n, g)
<1>1. n \in Nat
  BY SlotAssumption, FS_CardinalityType
<1>2. AheadFrom(s, n, g)
  BY <1>1, AheadExists DEF IsAhead
<1>3. Ahead(s) = g[n]
  BY DEF Ahead, AheadFrom
<1> HIDE DEF g, n
<1>4. g = [i \in 0 .. n |-> IF i = 0 THEN {s}
                            ELSE g[i - 1] \union ({next[x] : x \in g[i - 1]} \ {Nil})]
  BY <1>2 DEF AheadFrom
<1>5. ASSUME NEW i \in 0 .. n
      PROVE  /\ i = 0 => g[i] = {s}
             /\ i # 0 => g[i] = g[i - 1] \union ({next[x] : x \in g[i - 1]} \ {Nil})
  BY <1>4
<1> DEFINE NS == {i \in 0 .. n : ~(g[i] \subseteq K)}
<1>6. NS = {}
  <2> SUFFICES ASSUME NS # {} PROVE FALSE
    OBVIOUS
  <2>1. NS \subseteq Nat
    BY <1>1
  <2>2. PICK i \in NS : \A j \in NS : i <= j
    <3> HIDE DEF NS
    <3> QED BY <2>1, LeastOf
  <2>3. i \in 0 .. n /\ ~(g[i] \subseteq K)
    BY <2>2
  <2>4. i # 0
    BY <1>5, <2>3
  <2>5. i - 1 \in 0 .. n /\ ~(i <= i - 1)
    BY <1>1, <2>3, <2>4
  <2>6. g[i - 1] \subseteq K
    BY <2>2, <2>5
  <2>7. {next[x] : x \in g[i - 1]} \ {Nil} \subseteq K
    BY <2>6
  <2> QED BY <1>5, <2>3, <2>4, <2>6, <2>7
<1>7. n \in 0 .. n
  BY <1>1
<1> QED BY <1>3, <1>6, <1>7

LEMMA WalksAreSafe == RecInv => ReadersSafe
<1>1. ASSUME RecInv PROVE ReadersSafe
  <2>1. /\ TypeOK /\ ListStands /\ Pinned /\ GraceHolds /\ NobodyLost
    BY <1>1 DEF RecInv
  <2>2. ListWhole
    <3>1. PICK f \in [1 .. ListLen -> Live] : Chain(head, next, Live, ListLen, f)
      BY <2>1 DEF ListStands
    <3>2. Cardinality(Live) = ListLen
      BY <3>1, ChainCounts
    <3>3. /\ \A s \in Live : \E i \in 1 .. ListLen : f[i] = s
          /\ head = IF ListLen = 0 THEN Nil ELSE f[1]
          /\ \A i \in 1 .. ListLen : next[f[i]] = IF i = ListLen THEN Nil ELSE f[i + 1]
      BY <3>1 DEF Chain
    <3>4. ListLen \in Nat \ {0}
      BY ListAssumption
    <3>5. head = f[1] /\ next[f[ListLen]] = Nil
      BY <3>3, <3>4
    <3>6. \A i \in 1 .. ListLen - 1 : next[f[i]] = f[i + 1]
      BY <3>3, <3>4
    <3>7. IsList(head, next, Live)
      BY <3>3, <3>5, <3>6 DEF IsList
    <3> QED BY <3>2, <3>7 DEF ListWhole
  <2>3. ASSUME scheme # "none", scheme # "hp", NEW r \in Walking
        PROVE  Ahead(pos[r]) \subseteq Live \union Retired
    <3> DEFINE K == Live \union Retired
    <3>1. scheme = "ebr" \/ scheme = "rcu"
      BY <2>1, <2>3, SchemesAssumption DEF TypeOK
    <3>2. \A s \in Live : next[s] \in K \union {Nil}
      BY <2>1, LiveLeadsToLive
    <3>3. pos[r] \in K
      BY <2>1, <3>1 DEF Pinned, GraceHolds, NotOlder, Since
    <3>4. \A s \in Retired : next[s] \in K \union {Nil}
      <4>1. \A a : NotOlder(a) \subseteq K
        BY DEF NotOlder, Since
      <4>2. scheme = "ebr" => \A s \in Retired : next[s] \in NotOlder(age[s]) \union {Nil}
        BY <2>1 DEF Pinned
      <4>3. scheme = "rcu" => \A s \in Retired : next[s] \in K \union {Nil}
        BY <2>1 DEF GraceHolds
      <4> HIDE DEF K
      <4> QED BY <3>1, <4>1, <4>2, <4>3
    <3>5. \A s \in K : next[s] \in K \union {Nil}
      BY <3>2, <3>4
    <3> HIDE DEF K
    <3>6. Ahead(pos[r]) \subseteq K
      BY <3>3, <3>5, AheadStays
    <3> QED BY <3>6 DEF K
  <2> QED BY <2>1, <2>2, <2>3 DEF ReadersSafe, NobodyLost
<1> QED BY <1>1

(* No reader stands on freed memory under a scheme, and under epochs and   *)
(* RCU nothing it can still reach is freed; and whatever the readers and   *)
(* the scheme do, the list has ListLen nodes, each once.                   *)
THEOREM ReadersStandSafe == Spec => []ReadersSafe
BY RecHolds, WalksAreSafe, PTL

-------------------------------------------------------------------------------
Needed == IF machine = "tso" THEN {"realRecheck"} ELSE SeqLock!Fence

InOrder == \A e \in SeqLock!VisibleBefore : e[2] \in visible => e[1] \in visible

SeqSeen ==
  /\ 1 \in DOMAIN loaded =>
       loaded[1] \in {0, 1, 2} /\ (loaded[1] = 2 => 4 \in visible)
  /\ \A j \in {2, 3} \cap DOMAIN loaded :
       /\ 1 \in DOMAIN loaded
       /\ loaded[j] \in {1, 2} /\ (loaded[j] = 2 => j \in visible)
       /\ loaded[1] = 2 => loaded[j] = 2
  /\ 4 \in DOMAIN loaded =>
       /\ {1, 2, 3} \subseteq DOMAIN loaded
       /\ loaded[4] \in {0, 1, 2}
       /\ loaded[4] = 0 => loaded[2] = 1 /\ loaded[3] = 1

SeqInv == SeqLock!SeqTypeOK /\ InOrder /\ (Needed \subseteq fences => SeqSeen)

LEMMA FencesOrder ==
  ASSUME machine \in {"weak", "tso"}, Needed \subseteq fences
  PROVE  /\ {<<1, 2>>, <<1, 3>>, <<2, 4>>, <<3, 4>>, <<1, 4>>} \subseteq SeqLock!VisibleBefore
         /\ \A j \in 1 .. 4 : SeqLock!LoadedBefore(j) = 1 .. j - 1
<1>1. CASE machine = "tso"
  <2>1. SeqLock!VisibleBefore = {e \in (1 .. 4) \X (1 .. 4) : e[1] < e[2]}
    BY <1>1 DEF SeqLock!VisibleBefore
  <2>2. \A i, j \in 1 .. 4 : i < j => <<i, j>> \in SeqLock!VisibleBefore
    BY <2>1
  <2> QED BY <2>2, <1>1 DEF SeqLock!LoadedBefore
<1>2. CASE machine = "weak"
  <2>1. {"wmbBegin", "wmbEnd", "rmb"} \subseteq fences
    BY <1>2 DEF Needed, SeqLock!Fence
  <2> QED BY <2>1, <1>2 DEF SeqLock!VisibleBefore, SeqLock!LoadedBefore
<1> QED BY <1>1, <1>2

LEMMA SeqValue ==
  ASSUME visible \subseteq 1 .. 4
  PROVE  /\ SeqLock!valueAt("seq") = IF 4 \in visible THEN 2 ELSE IF 1 \in visible THEN 1 ELSE 0
         /\ SeqLock!valueAt("a") = IF 2 \in visible THEN 2 ELSE 1
         /\ SeqLock!valueAt("b") = IF 3 \in visible THEN 2 ELSE 1
<1>1. /\ SeqLock!STORES[1].loc = "seq" /\ SeqLock!STORES[1].val = 1
      /\ SeqLock!STORES[2].loc = "a" /\ SeqLock!STORES[2].val = 2
      /\ SeqLock!STORES[3].loc = "b" /\ SeqLock!STORES[3].val = 2
      /\ SeqLock!STORES[4].loc = "seq" /\ SeqLock!STORES[4].val = 2
  BY DEF SeqLock!STORES
<1>2. \A i \in visible : i = 1 \/ i = 2 \/ i = 3 \/ i = 4
  OBVIOUS
<1>3. SeqLock!INITIAL["seq"] = 0 /\ SeqLock!INITIAL["a"] = 1 /\ SeqLock!INITIAL["b"] = 1
  BY DEF SeqLock!INITIAL
<1>4. {i \in visible : SeqLock!STORES[i].loc = "a"} = visible \cap {2}
  BY <1>1, <1>2
<1>5. {i \in visible : SeqLock!STORES[i].loc = "b"} = visible \cap {3}
  BY <1>1, <1>2
<1>6. {i \in visible : SeqLock!STORES[i].loc = "seq"} = visible \cap {1, 4}
  BY <1>1, <1>2
<1>7. SeqLock!valueAt("a") = IF 2 \in visible THEN 2 ELSE 1
  <2> DEFINE seen == visible \cap {2}
  <2>1. SeqLock!valueAt("a") = IF seen = {} THEN 1
                       ELSE SeqLock!STORES[CHOOSE i \in seen : \A j \in seen : j <= i].val
    BY <1>3, <1>4 DEF SeqLock!valueAt
  <2>2. CASE 2 \in visible
    <3>1. seen = {2} /\ \E i \in seen : \A j \in seen : j <= i
      BY <2>2
    <3>2. (CHOOSE i \in seen : \A j \in seen : j <= i) = 2
      BY <3>1
    <3> QED BY <2>1, <3>1, <3>2, <1>1, <2>2
  <2> QED BY <2>1, <2>2
<1>8. SeqLock!valueAt("b") = IF 3 \in visible THEN 2 ELSE 1
  <2> DEFINE seen == visible \cap {3}
  <2>1. SeqLock!valueAt("b") = IF seen = {} THEN 1
                       ELSE SeqLock!STORES[CHOOSE i \in seen : \A j \in seen : j <= i].val
    BY <1>3, <1>5 DEF SeqLock!valueAt
  <2>2. CASE 3 \in visible
    <3>1. seen = {3} /\ \E i \in seen : \A j \in seen : j <= i
      BY <2>2
    <3>2. (CHOOSE i \in seen : \A j \in seen : j <= i) = 3
      BY <3>1
    <3> QED BY <2>1, <3>1, <3>2, <1>1, <2>2
  <2> QED BY <2>1, <2>2
<1>9. SeqLock!valueAt("seq") = IF 4 \in visible THEN 2 ELSE IF 1 \in visible THEN 1 ELSE 0
  <2> DEFINE seen == visible \cap {1, 4}
             last == CHOOSE i \in seen : \A j \in seen : j <= i
  <2>1. SeqLock!valueAt("seq") = IF seen = {} THEN 0 ELSE SeqLock!STORES[last].val
    BY <1>3, <1>6 DEF SeqLock!valueAt
  <2>2. CASE 4 \in visible
    <3>1. 4 \in seen /\ \A j \in seen : j <= 4
      BY <2>2
    <3>2. last \in seen /\ \A j \in seen : j <= last
      BY <3>1
    <3>3. last = 4
      BY <3>1, <3>2
    <3> QED BY <2>1, <3>1, <3>3, <1>1, <2>2
  <2>3. CASE 4 \notin visible /\ 1 \in visible
    <3>1. seen = {1}
      BY <2>3
    <3>2. last \in seen
      BY <3>1
    <3> QED BY <2>1, <3>1, <3>2, <1>1, <2>3
  <2> QED BY <2>1, <2>2, <2>3
<1> QED BY <1>7, <1>8, <1>9

LEMMA SeqStarts == SeqLock!SeqInit => SeqInv
<1> SUFFICES ASSUME SeqLock!SeqInit PROVE SeqInv
  OBVIOUS
<1>1. DOMAIN loaded = {} /\ visible = {}
  BY DEF SeqLock!SeqInit, SeqLock!NothingLoaded
<1> QED BY <1>1 DEF SeqLock!SeqInit, SeqInv, SeqLock!SeqTypeOK, InOrder, SeqSeen

LEMMA SeqVisibleStep ==
  ASSUME SeqInv, NEW i \in 1 .. 4, SeqLock!BecomesVisible(i)
  PROVE  SeqInv'
<1> USE DEF SeqInv, SeqLock!BecomesVisible
<1>1. SeqLock!SeqTypeOK'
  BY DEF SeqLock!SeqTypeOK
<1>2. InOrder'
  BY DEF InOrder, SeqLock!VisibleBefore
<1>3. Needed' = Needed /\ fences' = fences /\ loaded' = loaded /\ visible \subseteq visible'
  BY DEF Needed
<1>4. SeqSeen => SeqSeen'
  BY <1>3 DEF SeqSeen
<1> QED BY <1>1, <1>2, <1>3, <1>4

LEMMA SeqLoadStep ==
  ASSUME SeqInv, NEW j \in 1 .. 4, SeqLock!Load(j)
  PROVE  SeqInv'
<1>1. SeqLock!SeqTypeOK'
  BY DEF SeqInv, SeqLock!SeqTypeOK, SeqLock!Load
<1>2. InOrder'
  BY DEF SeqInv, InOrder, SeqLock!VisibleBefore, SeqLock!Load
<1>3. Needed' = Needed /\ fences' = fences /\ visible' = visible
  BY DEF SeqLock!Load, Needed
<1>4. ASSUME Needed \subseteq fences
      PROVE  SeqSeen'
  <2>1. SeqSeen /\ InOrder /\ machine \in {"weak", "tso"} /\ visible \subseteq 1 .. 4
    BY <1>4 DEF SeqInv, SeqLock!SeqTypeOK
  <2>2. /\ \A k \in 1 .. j - 1 : k \in DOMAIN loaded
        /\ j \notin DOMAIN loaded
    BY <1>4, <2>1, FencesOrder DEF SeqLock!Load
  <2>3. /\ 2 \in visible => 1 \in visible
        /\ 3 \in visible => 1 \in visible
        /\ 4 \in visible => 1 \in visible /\ 2 \in visible /\ 3 \in visible
    <3>1. /\ <<1, 2>> \in SeqLock!VisibleBefore /\ <<1, 3>> \in SeqLock!VisibleBefore
          /\ <<1, 4>> \in SeqLock!VisibleBefore
          /\ <<2, 4>> \in SeqLock!VisibleBefore /\ <<3, 4>> \in SeqLock!VisibleBefore
      BY <1>4, <2>1, FencesOrder
    <3>2. \A a, b : <<a, b>> \in SeqLock!VisibleBefore => (b \in visible => a \in visible)
      BY <2>1 DEF InOrder
    <3> QED BY <3>1, <3>2
  <2>4. /\ DOMAIN loaded' = DOMAIN loaded \cup {j}
        /\ \A k \in DOMAIN loaded : loaded'[k] = loaded[k]
        /\ loaded'[j] = SeqLock!valueAt(SeqLock!LOADS[j])
    BY <2>2 DEF SeqLock!Load
  <2>5. SeqLock!LOADS[1] = "seq" /\ SeqLock!LOADS[2] = "a" /\ SeqLock!LOADS[3] = "b" /\ SeqLock!LOADS[4] = "seq"
    BY DEF SeqLock!LOADS
  <2>6. /\ SeqLock!valueAt("seq") = IF 4 \in visible THEN 2 ELSE IF 1 \in visible THEN 1 ELSE 0
        /\ SeqLock!valueAt("a") = IF 2 \in visible THEN 2 ELSE 1
        /\ SeqLock!valueAt("b") = IF 3 \in visible THEN 2 ELSE 1
    BY <2>1, SeqValue
  <2>7. CASE j = 1
    BY <2>7, <2>1, <2>2, <2>3, <2>4, <2>5, <2>6, <1>3 DEF SeqSeen
  <2>8. CASE j = 2
    BY <2>8, <2>1, <2>2, <2>3, <2>4, <2>5, <2>6, <1>3 DEF SeqSeen
  <2>9. CASE j = 3
    BY <2>9, <2>1, <2>2, <2>3, <2>4, <2>5, <2>6, <1>3 DEF SeqSeen
  <2>10. CASE j = 4
    BY <2>10, <2>1, <2>2, <2>3, <2>4, <2>5, <2>6, <1>3 DEF SeqSeen
  <2> QED BY <2>7, <2>8, <2>9, <2>10
<1> QED BY <1>1, <1>2, <1>3, <1>4 DEF SeqInv

LEMMA SeqStepHolds == SeqInv /\ [SeqLock!SeqStep]_(SeqLock!seqVars) => SeqInv'
<1> SUFFICES ASSUME SeqInv, [SeqLock!SeqStep]_(SeqLock!seqVars) PROVE SeqInv'
  OBVIOUS
<1>1. CASE UNCHANGED SeqLock!seqVars
  BY <1>1 DEF SeqLock!seqVars, SeqInv, SeqLock!SeqTypeOK, InOrder, SeqLock!VisibleBefore, SeqSeen, Needed
<1>2. ASSUME NEW i \in 1 .. 4, SeqLock!BecomesVisible(i) PROVE SeqInv'
  BY <1>2, SeqVisibleStep
<1>3. ASSUME NEW j \in 1 .. 4, SeqLock!Load(j) PROVE SeqInv'
  BY <1>3, SeqLoadStep
<1>4. CASE SeqLock!Reschedule
  <2>1. DOMAIN loaded' = {} /\ visible' = {}
    BY <1>4 DEF SeqLock!Reschedule, SeqLock!NothingLoaded
  <2> QED BY <1>4, <2>1 DEF SeqLock!Reschedule, SeqInv, SeqLock!SeqTypeOK, InOrder, SeqSeen
<1> QED BY <1>1, <1>2, <1>3, <1>4 DEF SeqLock!SeqStep

LEMMA SeqWhole == SeqInv => SeqLock!AcceptedIsWhole
<1> SUFFICES ASSUME SeqInv, SeqLock!outcome \in {"consistent", "torn"}, Needed \subseteq fences
             PROVE  /\ loaded[2] = loaded[3]
                    /\ loaded[2] = (IF loaded[1] = 0 THEN 1 ELSE 2)
  BY DEF SeqLock!AcceptedIsWhole, Needed
<1>1. "realRecheck" \in fences
  BY DEF Needed, SeqLock!Fence
<1>2. SeqLock!Issued = 1 .. 4 /\ SeqLock!Recheck = loaded[4]
  BY <1>1 DEF SeqLock!Issued, SeqLock!Recheck
<1>3. ~SeqLock!Odd /\ DOMAIN loaded = SeqLock!Issued /\ SeqLock!Recheck = loaded[1]
  BY DEF SeqLock!outcome
<1>4. 1 \in DOMAIN loaded /\ 2 \in DOMAIN loaded /\ 3 \in DOMAIN loaded /\ 4 \in DOMAIN loaded
  BY <1>2, <1>3
<1>5. SeqSeen
  BY DEF SeqInv
<1>6. loaded[1] \in {0, 2} /\ loaded[4] = loaded[1]
  <2>1. loaded[1] \in {0, 1, 2}
    BY <1>4, <1>5 DEF SeqSeen
  <2>2. loaded[1] # 1
    BY <1>3, <1>4 DEF SeqLock!Odd
  <2> QED BY <2>1, <2>2, <1>2, <1>3
<1> QED BY <1>4, <1>5, <1>6 DEF SeqSeen

-------------------------------------------------------------------------------
LEMMA FlipShape ==
  /\ COW_BRANCHES \in Nat /\ COW_BRANCHES > 0 /\ PerBranch \in Nat /\ PerBranch > 0
  /\ MAX_TXN \in Nat /\ MAX_TXN > 0
  /\ Changes \subseteq (SUBSET MetaFlip!CowLeaf) \ {{}}
BY LabAssumption DEF MetaFlip!FlipAssumption

(* The places of a finite set's members by a measure that tells them       *)
(* apart: each place is taken, and by one of them.                         *)
Below(S, g, x) == {y \in S : g[y] < g[x]}

LEMMA PlacesTaken ==
  ASSUME NEW S, IsFiniteSet(S), NEW g, \A x \in S : g[x] \in Int,
         \A x, y \in S : g[x] = g[y] => x = y
  PROVE  /\ \A x \in S : Cardinality(Below(S, g, x)) \in 0 .. Cardinality(S) - 1
         /\ \A x, y \in S : Cardinality(Below(S, g, x)) = Cardinality(Below(S, g, y)) => x = y
         /\ \A i \in 1 .. Cardinality(S) :
              \E x \in S : Cardinality(Below(S, g, x)) = i - 1
<1> DEFINE below(x) == {y \in S : g[y] < g[x]}
           c == [x \in S |-> Cardinality(below(x)) + 1]
           k == Cardinality(S)
<1>1. k \in Nat
  BY FS_CardinalityType
<1>2. ASSUME NEW x \in S
      PROVE  /\ IsFiniteSet(below(x)) /\ Cardinality(below(x)) \in Nat
             /\ Cardinality(below(x)) + 1 <= k
  <2>1. IsFiniteSet(below(x))
    BY FS_Subset
  <2>2. Cardinality(below(x)) \in Nat
    BY <2>1, FS_CardinalityType
  <2>3. x \notin below(x)
    OBVIOUS
  <2>4. Cardinality(below(x) \cup {x}) = Cardinality(below(x)) + 1
    BY <2>1, <2>3, FS_AddElement
  <2>5. below(x) \cup {x} \in SUBSET S
    OBVIOUS
  <2>6. Cardinality(below(x) \cup {x}) <= k
    BY <2>5, FS_Subset
  <2> QED BY <2>1, <2>2, <2>4, <2>6
<1>3. ASSUME NEW x \in S, NEW y \in S, g[x] < g[y]
      PROVE  Cardinality(below(x)) < Cardinality(below(y))
  <2>1. below(x) \cup {x} \subseteq below(y) /\ x \notin below(x)
    BY <1>3
  <2>2. Cardinality(below(x) \cup {x}) = Cardinality(below(x)) + 1
    BY <1>2, <2>1, FS_AddElement
  <2>3. Cardinality(below(x) \cup {x}) <= Cardinality(below(y))
    BY <1>2, <2>1, FS_Subset
  <2>4. Cardinality(below(x)) \in Nat /\ Cardinality(below(y)) \in Nat
    BY <1>2
  <2> QED BY <2>2, <2>3, <2>4
<1>4. ASSUME NEW x \in S, NEW y \in S, Cardinality(below(x)) = Cardinality(below(y))
      PROVE  x = y
  <2>1. ~(g[x] < g[y]) /\ ~(g[y] < g[x])
    <3>1. Cardinality(below(x)) \in Nat /\ Cardinality(below(y)) \in Nat
      BY <1>2
    <3> HIDE DEF below
    <3> QED BY <1>3, <1>4, <3>1
  <2>2. g[x] = g[y]
    BY <2>1
  <2> QED BY <2>2
<1>5. c \in [S -> 1 .. k] /\ \A x \in S : c[x] = Cardinality(below(x)) + 1
  <2>1. \A x \in S : Cardinality(below(x)) + 1 \in 1 .. k
    <3> HIDE DEF below, k
    <3> QED BY <1>1, <1>2
  <2> HIDE DEF below, k
  <2> QED BY <2>1
<1>6. c \in Injection(S, 1 .. k)
  <2>1. \A x, y \in S : c[x] = c[y] => x = y
    <3> HIDE DEF below, c
    <3> QED BY <1>2, <1>4, <1>5
  <2> HIDE DEF c
  <2> QED BY <1>5, <2>1 DEF Injection, IsInjective
<1>7. IsFiniteSet(1 .. k) /\ Cardinality(1 .. k) = k
  BY <1>1, FS_Interval
<1>8. c \in Surjection(S, 1 .. k)
  <2> HIDE DEF c
  <2> QED BY <1>6, <1>7, FS_Injection
<1>9. \A i \in 1 .. k : \E x \in S : c[x] = i
  <2> HIDE DEF c, k
  <2> QED BY <1>8 DEF Surjection
<1>10. \A i \in 1 .. k : \E x \in S : Cardinality(below(x)) = i - 1
  <2>1. \A x \in S : Cardinality(below(x)) \in Nat /\ c[x] = Cardinality(below(x)) + 1
    BY <1>2, <1>5
  <2> HIDE DEF below, c, k
  <2> QED BY <1>9, <2>1
<1>11. \A x \in S : Cardinality(below(x)) \in 0 .. k - 1
  <2> HIDE DEF below, k
  <2> QED BY <1>1, <1>2
<1>12. \A x, y \in S : Cardinality(below(x)) = Cardinality(below(y)) => x = y
  <2> HIDE DEF below
  <2> QED BY <1>4
<1>13. \A x : Below(S, g, x) = below(x)
  BY DEF Below
<1> HIDE DEF c, below, k
<1>14. /\ \A x \in S : Cardinality(Below(S, g, x)) \in 0 .. k - 1
       /\ \A x, y \in S : Cardinality(Below(S, g, x)) = Cardinality(Below(S, g, y)) => x = y
       /\ \A i \in 1 .. k : \E x \in S : Cardinality(Below(S, g, x)) = i - 1
  BY <1>10, <1>11, <1>12, <1>13
<1> QED BY <1>14 DEF k

LEMMA BranchFits == \A l \in MetaFlip!CowLeaf : MetaFlip!BranchOf(l) \in MetaFlip!Branch
<1> SUFFICES ASSUME NEW l \in MetaFlip!CowLeaf PROVE l \div PerBranch \in 0 .. COW_BRANCHES - 1
  BY DEF MetaFlip!BranchOf, MetaFlip!Branch
<1>1. PerBranch \in Nat /\ PerBranch > 0 /\ COW_BRANCHES \in Nat /\ COW_BRANCHES > 0
  BY FlipShape
<1>2. l \in Nat /\ l < COW_BRANCHES * PerBranch
  BY <1>1 DEF MetaFlip!CowLeaf
<1> DEFINE q == l \div PerBranch
<1>3. q \in Int /\ PerBranch * q <= l
  BY <1>1, <1>2
<1>4. q >= 0
  BY <1>1, <1>2
<1>5. q < COW_BRANCHES
  <2> SUFFICES ASSUME q >= COW_BRANCHES PROVE FALSE
    BY <1>1, <1>3
  <2>1. PerBranch * q >= PerBranch * COW_BRANCHES
    <3> HIDE DEF q
    <3> QED BY <1>1, <1>3
  <2> HIDE DEF q
  <2> QED BY <1>1, <1>2, <1>3, <2>1
<1> QED BY <1>1, <1>3, <1>4, <1>5

(* A set counted where the labs are put together is counted in the lab. *)
LEMMA SameCount == \A S : MetaFlip!Cardinality(S) = Cardinality(S)
BY DEF MetaFlip!Cardinality, Cardinality

LEMMA BootPlaces ==
  /\ MetaFlip!Boot \in Nat /\ MetaFlip!Boot > 0
  /\ IsFiniteSet(MetaFlip!TreeNode)
  /\ \A n \in MetaFlip!TreeNode : MetaFlip!BootPage(n) \in MetaFlip!META_PAGES .. MetaFlip!META_PAGES + MetaFlip!Boot - 1
  /\ \A n, m \in MetaFlip!TreeNode : MetaFlip!BootPage(n) = MetaFlip!BootPage(m) => n = m
  /\ \A p \in MetaFlip!META_PAGES .. MetaFlip!META_PAGES + MetaFlip!Boot - 1 : \E n \in MetaFlip!TreeNode : MetaFlip!BootPage(n) = p
<1> DEFINE L == COW_BRANCHES * PerBranch
<1>1. COW_BRANCHES \in Nat /\ COW_BRANCHES > 0 /\ L \in Nat /\ L > 0 /\ MetaFlip!META_PAGES = 2
  <2>1. \A a, b \in Nat : a > 0 /\ b > 0 => a * b \in Nat /\ a * b > 0
    OBVIOUS
  <2> QED BY <2>1, FlipShape DEF MetaFlip!META_PAGES
<1>2. MetaFlip!CowLeaf = 0 .. L - 1 /\ MetaFlip!Branch = 0 .. COW_BRANCHES - 1 /\ MetaFlip!Boot = 1 + COW_BRANCHES + L
  BY DEF MetaFlip!CowLeaf, MetaFlip!Branch, MetaFlip!Boot
<1> HIDE DEF L
<1>3. /\ MetaFlip!BootPage(<<"root", 0>>) = 2
      /\ \A b \in MetaFlip!Branch : MetaFlip!BootPage(<<"branch", b>>) = 3 + b
      /\ \A l \in MetaFlip!CowLeaf : MetaFlip!BootPage(<<"leaf", l>>) = 3 + COW_BRANCHES + l
  BY <1>1, <1>2 DEF MetaFlip!BootPage
<1>4. \A n \in MetaFlip!TreeNode :
        \/ n = <<"root", 0>>
        \/ \E b \in MetaFlip!Branch : n = <<"branch", b>>
        \/ \E l \in MetaFlip!CowLeaf : n = <<"leaf", l>>
  BY DEF MetaFlip!TreeNode
<1>5. /\ <<"root", 0>> \in MetaFlip!TreeNode
      /\ \A b \in MetaFlip!Branch : <<"branch", b>> \in MetaFlip!TreeNode
      /\ \A l \in MetaFlip!CowLeaf : <<"leaf", l>> \in MetaFlip!TreeNode
  BY DEF MetaFlip!TreeNode
<1>6. IsFiniteSet(MetaFlip!TreeNode)
  <2>1. IsFiniteSet(MetaFlip!Branch) /\ IsFiniteSet(MetaFlip!CowLeaf)
    BY <1>1, <1>2, FS_Interval
  <2>2. IsFiniteSet({"branch"}) /\ IsFiniteSet({"leaf"}) /\ IsFiniteSet({<<"root", 0>>})
    BY FS_Singleton
  <2>3. IsFiniteSet({"branch"} \X MetaFlip!Branch) /\ IsFiniteSet({"leaf"} \X MetaFlip!CowLeaf)
    BY <2>1, <2>2, FS_Product
  <2>4. IsFiniteSet({<<"root", 0>>} \cup ({"branch"} \X MetaFlip!Branch))
    BY <2>2, <2>3, FS_Union
  <2> QED BY <2>3, <2>4, FS_Union DEF MetaFlip!TreeNode
<1>7. \A n \in MetaFlip!TreeNode : MetaFlip!BootPage(n) \in MetaFlip!META_PAGES .. MetaFlip!META_PAGES + MetaFlip!Boot - 1
  BY <1>1, <1>2, <1>3, <1>4
<1>8. ASSUME NEW n \in MetaFlip!TreeNode, NEW m \in MetaFlip!TreeNode, MetaFlip!BootPage(n) = MetaFlip!BootPage(m)
      PROVE  n = m
  <2>1. CASE n = <<"root", 0>>
    BY <2>1, <1>1, <1>2, <1>3, <1>4, <1>8
  <2>2. ASSUME NEW b \in MetaFlip!Branch, n = <<"branch", b>> PROVE n = m
    <3>1. MetaFlip!BootPage(n) = 3 + b /\ b \in 0 .. COW_BRANCHES - 1
      BY <1>2, <1>3, <2>2
    <3>2. CASE m = <<"root", 0>>
      BY <3>1, <3>2, <1>3, <1>8
    <3>3. ASSUME NEW e \in MetaFlip!Branch, m = <<"branch", e>> PROVE n = m
      BY <3>1, <3>3, <1>1, <1>2, <1>3, <1>8, <2>2
    <3>4. ASSUME NEW e \in MetaFlip!CowLeaf, m = <<"leaf", e>> PROVE n = m
      BY <3>1, <3>4, <1>1, <1>2, <1>3, <1>8
    <3> QED BY <1>4, <3>2, <3>3, <3>4
  <2>3. ASSUME NEW l \in MetaFlip!CowLeaf, n = <<"leaf", l>> PROVE n = m
    <3>1. MetaFlip!BootPage(n) = 3 + COW_BRANCHES + l /\ l \in 0 .. L - 1
      BY <1>2, <1>3, <2>3
    <3>2. CASE m = <<"root", 0>>
      BY <3>1, <3>2, <1>1, <1>3, <1>8
    <3>3. ASSUME NEW e \in MetaFlip!Branch, m = <<"branch", e>> PROVE n = m
      BY <3>1, <3>3, <1>1, <1>2, <1>3, <1>8
    <3>4. ASSUME NEW e \in MetaFlip!CowLeaf, m = <<"leaf", e>> PROVE n = m
      BY <3>1, <3>4, <1>1, <1>2, <1>3, <1>8, <2>3
    <3> QED BY <1>4, <3>2, <3>3, <3>4
  <2> QED BY <1>4, <2>1, <2>2, <2>3
<1>9. ASSUME NEW p \in MetaFlip!META_PAGES .. MetaFlip!META_PAGES + MetaFlip!Boot - 1
      PROVE  \E n \in MetaFlip!TreeNode : MetaFlip!BootPage(n) = p
  <2>1. CASE p = 2
    BY <2>1, <1>3, <1>5
  <2>2. CASE p \in 3 .. 2 + COW_BRANCHES
    <3>1. p - 3 \in MetaFlip!Branch
      BY <2>2, <1>1, <1>2
    <3>2. MetaFlip!BootPage(<<"branch", p - 3>>) = p
      BY <3>1, <2>2, <1>3
    <3> QED BY <3>1, <3>2, <1>5
  <2>3. CASE p \in 3 + COW_BRANCHES .. 2 + COW_BRANCHES + L
    <3>1. p - 3 - COW_BRANCHES \in MetaFlip!CowLeaf
      BY <2>3, <1>1, <1>2
    <3>2. MetaFlip!BootPage(<<"leaf", p - 3 - COW_BRANCHES>>) = p
      BY <3>1, <2>3, <1>1, <1>3
    <3> QED BY <3>1, <3>2, <1>5
  <2> QED BY <1>1, <1>2, <2>1, <2>2, <2>3
<1> QED BY <1>1, <1>2, <1>6, <1>7, <1>8, <1>9

(* A commit copies the root and nodes of the tree besides. *)
LEMMA CopiedFits ==
  ASSUME NEW leaves \in SUBSET MetaFlip!CowLeaf
  PROVE  MetaFlip!Copied(leaves) \subseteq MetaFlip!TreeNode /\ <<"root", 0>> \in MetaFlip!Copied(leaves)
         /\ IsFiniteSet(MetaFlip!Copied(leaves))
<1>1. MetaFlip!Copied(leaves) \subseteq MetaFlip!TreeNode
  BY BranchFits DEF MetaFlip!Copied, MetaFlip!TreeNode
<1>2. <<"root", 0>> \in MetaFlip!Copied(leaves)
  BY DEF MetaFlip!Copied
<1> QED BY <1>1, <1>2, BootPlaces, FS_Subset

-------------------------------------------------------------------------------
(* The file after transaction t: what is counted, what is free and what    *)
(* each page holds agree.                                                  *)
RunFits(run, t) ==
  LET live == MetaFlip!Pages(run.snapshots[t])
      free == {e.pgno : e \in run.free}
  IN
  /\ t \in Nat \ {0}
  /\ run.snapshots \in Seq([MetaFlip!TreeNode -> Nat]) /\ Len(run.snapshots) = t
  /\ \A n, m \in MetaFlip!TreeNode : run.snapshots[t][n] = run.snapshots[t][m] => n = m
  /\ run.fileEnd \in Nat /\ MetaFlip!META_PAGES < run.fileEnd
  /\ DOMAIN run.alloc = live /\ \A p \in live : run.alloc[p] \in 1 .. t
  /\ DOMAIN run.written = MetaFlip!META_PAGES .. run.fileEnd - 1
  /\ \A p \in DOMAIN run.written : run.written[p] \in 1 .. t
  /\ \A e \in run.free : e.freedBy \in 1 .. t /\ e.alloc \in 1 .. t
  /\ \A e, f \in run.free : e.pgno = f.pgno => e = f
  /\ free \cap live = {}
  /\ free \cup live = MetaFlip!META_PAGES .. run.fileEnd - 1

LEMMA BootedFits == RunFits(MetaFlip!Booted, 1)
<1>1. /\ MetaFlip!Booted.snapshots = <<[n \in MetaFlip!TreeNode |-> MetaFlip!BootPage(n)]>> /\ MetaFlip!Booted.free = {}
      /\ MetaFlip!Booted.alloc = [p \in MetaFlip!META_PAGES .. MetaFlip!META_PAGES + MetaFlip!Boot - 1 |-> 1]
      /\ MetaFlip!Booted.written = [p \in MetaFlip!META_PAGES .. MetaFlip!META_PAGES + MetaFlip!Boot - 1 |-> 1]
      /\ MetaFlip!Booted.fileEnd = MetaFlip!META_PAGES + MetaFlip!Boot
  BY DEF MetaFlip!Booted
<1> DEFINE s == [n \in MetaFlip!TreeNode |-> MetaFlip!BootPage(n)]
           All == MetaFlip!META_PAGES .. MetaFlip!META_PAGES + MetaFlip!Boot - 1
<1>2. MetaFlip!META_PAGES \in Nat /\ MetaFlip!Boot \in Nat /\ MetaFlip!Boot > 0
  BY BootPlaces DEF MetaFlip!META_PAGES
<1>3. \A n \in MetaFlip!TreeNode : MetaFlip!BootPage(n) \in All /\ MetaFlip!BootPage(n) \in Nat
  BY <1>2, BootPlaces
<1>4. MetaFlip!Pages(s) = All
  BY <1>3, BootPlaces DEF MetaFlip!Pages
<1>5. s \in [MetaFlip!TreeNode -> Nat] /\ \A n, m \in MetaFlip!TreeNode : s[n] = s[m] => n = m
  BY <1>3, BootPlaces
<1> HIDE DEF s, All
<1>6. <<s>> \in Seq([MetaFlip!TreeNode -> Nat]) /\ Len(<<s>>) = 1 /\ <<s>>[1] = s
  BY <1>5
<1>7. MetaFlip!Booted.snapshots = <<s>> /\ MetaFlip!Booted.alloc = [p \in All |-> 1]
      /\ MetaFlip!Booted.written = [p \in All |-> 1] /\ MetaFlip!Booted.fileEnd - 1 = MetaFlip!META_PAGES + MetaFlip!Boot - 1
  BY <1>1, <1>2 DEF s, All
<1>8. All = MetaFlip!META_PAGES .. MetaFlip!Booted.fileEnd - 1
  BY <1>7 DEF All
<1>9. {e.pgno : e \in MetaFlip!Booted.free} = {}
  BY <1>1
<1> QED BY <1>1, <1>2, <1>4, <1>5, <1>6, <1>7, <1>8, <1>9 DEF RunFits


(* What a plan takes: a page of its own for each copy, spare or past the   *)
(* end, and those past the end without a gap.                              *)
Spare(run, engine, r) ==
  {e.pgno : e \in {f \in run.free : MetaFlip!reusable(engine, f, Len(run.snapshots) + 1, r)}}

PlanFits(plan, copied, prev, spare, end) ==
  /\ copied \subseteq MetaFlip!TreeNode /\ copied # {} /\ IsFiniteSet(copied)
  /\ plan.next \in [MetaFlip!TreeNode -> Nat]
  /\ plan.old = {prev[n] : n \in copied}
  /\ plan.new = {plan.next[n] : n \in copied}
  /\ \A n \in MetaFlip!TreeNode \ copied : plan.next[n] = prev[n]
  /\ \A n, m \in copied : plan.next[n] = plan.next[m] => n = m
  /\ \A p \in plan.new : p \in spare \/ p >= end
  /\ \E k \in Nat : {p \in plan.new : p >= end} = end .. end + k - 1

LEMMA PlannedFits ==
  ASSUME NEW t, NEW run, RunFits(run, t), NEW engine, NEW r,
         NEW leaves \in SUBSET MetaFlip!CowLeaf
  PROVE  PlanFits(MetaFlip!Planned(run, engine, leaves, r), MetaFlip!Copied(leaves), run.snapshots[t],
                  Spare(run, engine, r), run.fileEnd)
<1> DEFINE C == MetaFlip!Copied(leaves)
           S == Spare(run, engine, r)
           prev == run.snapshots[t]
           end == run.fileEnd
           k == MetaFlip!Cardinality(S)
           id == [p \in S |-> p]
           nth(i) == CHOOSE p \in S : MetaFlip!Cardinality({q \in S : q < p}) = i - 1
           page == [n \in C |-> IF MetaFlip!Rank(n, C) > k THEN end + MetaFlip!Rank(n, C) - k - 1 ELSE nth(MetaFlip!Rank(n, C))]
           plan == MetaFlip!Planned(run, engine, leaves, r)
<1>1. /\ t \in Nat \ {0} /\ Len(run.snapshots) + 1 - 1 = t
      /\ prev \in [MetaFlip!TreeNode -> Nat] /\ end \in Nat /\ MetaFlip!META_PAGES \in Nat
      /\ S \subseteq MetaFlip!META_PAGES .. end - 1
  <2>1. t \in Nat \ {0} /\ Len(run.snapshots) = t /\ run.snapshots \in Seq([MetaFlip!TreeNode -> Nat])
    BY DEF RunFits
  <2>2. prev \in [MetaFlip!TreeNode -> Nat]
    BY <2>1, ElementOfSeq
  <2>3. S \subseteq {e.pgno : e \in run.free}
    BY DEF Spare
  <2> QED BY <2>1, <2>2, <2>3 DEF RunFits, MetaFlip!META_PAGES
<1>2. /\ plan.old = {prev[n] : n \in C} /\ plan.new = MetaFlip!Range(page)
      /\ plan.next = [n \in MetaFlip!TreeNode |-> IF n \in C THEN page[n] ELSE prev[n]]
  <2>1. Len(run.snapshots) + 1 - 1 = t
    BY <1>1
  <2> HIDE DEF C
  <2> QED BY <2>1 DEF MetaFlip!Planned, Spare, C
<1>3. C \subseteq MetaFlip!TreeNode /\ C # {} /\ IsFiniteSet(C)
  BY CopiedFits
<1>4. IsFiniteSet(S) /\ k \in Nat /\ S \subseteq Nat /\ \A p \in S : p < end
  <2>1. IsFiniteSet(MetaFlip!META_PAGES .. end - 1)
    <3>1. MetaFlip!META_PAGES \in Int /\ end - 1 \in Int
      BY <1>1
    <3> QED BY <3>1, FS_Interval
  <2>2. IsFiniteSet(S)
    BY <1>1, <2>1, FS_Subset
  <2>3. k = Cardinality(S)
    BY SameCount
  <2> HIDE DEF S, k
  <2> QED BY <1>1, <2>2, <2>3, FS_CardinalityType
<1> HIDE DEF plan, S, C, prev, end
<1>5. /\ \A n \in C : MetaFlip!Rank(n, C) \in 1 .. Cardinality(C)
      /\ \A n, m \in C : MetaFlip!Rank(n, C) = MetaFlip!Rank(m, C) => n = m
      /\ \A i \in 1 .. Cardinality(C) : \E n \in C : MetaFlip!Rank(n, C) = i
  <2> DEFINE g == [n \in MetaFlip!TreeNode |-> MetaFlip!BootPage(n)]
  <2>0. \A n \in MetaFlip!TreeNode : MetaFlip!BootPage(n) \in Int
    BY BootPlaces DEF MetaFlip!META_PAGES
  <2>1. \A n \in C : g[n] \in Int
    BY <1>3, <2>0
  <2>2. \A n, m \in C : g[n] = g[m] => n = m
    BY <1>3, BootPlaces
  <2>3. \A n \in C : MetaFlip!Rank(n, C) = Cardinality(Below(C, g, n)) + 1
    <3> SUFFICES ASSUME NEW n \in C PROVE MetaFlip!Rank(n, C) = Cardinality(Below(C, g, n)) + 1
      OBVIOUS
    <3>1. {m \in C : MetaFlip!BootPage(m) < MetaFlip!BootPage(n)} = Below(C, g, n)
      BY <1>3 DEF Below
    <3> HIDE DEF g
    <3> QED BY <3>1, SameCount DEF MetaFlip!Rank
  <2>4. Cardinality(C) \in Nat
    BY <1>3, FS_CardinalityType
  <2> HIDE DEF g
  <2>5. /\ \A n \in C : Cardinality(Below(C, g, n)) \in 0 .. Cardinality(C) - 1
        /\ \A n, m \in C : Cardinality(Below(C, g, n)) = Cardinality(Below(C, g, m)) => n = m
        /\ \A i \in 1 .. Cardinality(C) : \E n \in C : Cardinality(Below(C, g, n)) = i - 1
    BY <1>3, <2>1, <2>2, PlacesTaken
  <2>6. \A n \in C : Cardinality(Below(C, g, n)) \in Int
    BY <2>5
  <2>7. \A i \in 1 .. Cardinality(C) : \E n \in C : MetaFlip!Rank(n, C) = i
    BY <2>3, <2>5, <2>6
  <2> QED BY <2>3, <2>4, <2>5, <2>6, <2>7
<1>6. \A i \in 1 .. k : nth(i) \in S /\ Cardinality(Below(S, id, nth(i))) = i - 1
  <2>1. \A p \in S : id[p] \in Int
    BY <1>4
  <2>2. \A p, q \in S : id[p] = id[q] => p = q
    OBVIOUS
  <2>3. \A p \in S : {q \in S : q < p} = Below(S, id, p)
    BY DEF Below
  <2>4. \A i : nth(i) = CHOOSE p \in S : Cardinality(Below(S, id, p)) = i - 1
    <3> SUFFICES ASSUME NEW i
                 PROVE  nth(i) = CHOOSE p \in S : Cardinality(Below(S, id, p)) = i - 1
      OBVIOUS
    <3>1. \A p : (p \in S /\ MetaFlip!Cardinality({q \in S : q < p}) = i - 1)
                   <=> (p \in S /\ Cardinality(Below(S, id, p)) = i - 1)
      BY <2>3, SameCount
    <3> HIDE DEF id
    <3> QED BY <3>1, Zenon
  <2> HIDE DEF id, nth
  <2>5. \A i \in 1 .. k : \E p \in S : Cardinality(Below(S, id, p)) = i - 1
    <3>1. IsFiniteSet(S)
      BY <1>4
    <3>2. \A i \in 1 .. Cardinality(S) : \E p \in S : Cardinality(Below(S, id, p)) = i - 1
      BY <2>1, <2>2, <3>1, PlacesTaken
    <3> QED BY <3>2, SameCount DEF k
  <2> HIDE DEF k
  <2> SUFFICES ASSUME NEW i \in 1 .. k
               PROVE  nth(i) \in S /\ Cardinality(Below(S, id, nth(i))) = i - 1
    OBVIOUS
  <2>6. \E p \in S : Cardinality(Below(S, id, p)) = i - 1
    BY <2>5
  <2> QED BY <2>4, <2>6
<1> HIDE DEF id, nth, k
<1>7. \A i, j \in 1 .. k : nth(i) = nth(j) => i = j
  <2> SUFFICES ASSUME NEW i \in 1 .. k, NEW j \in 1 .. k, nth(i) = nth(j) PROVE i = j
    OBVIOUS
  <2>1. i - 1 = j - 1
    BY <1>6
  <2> QED BY <1>4, <2>1
<1> DEFINE rank(n) == MetaFlip!Rank(n, C)
           total == Cardinality(C)
<1>8. /\ total \in Nat /\ \A n \in C : rank(n) \in 1 .. total
      /\ \A n, m \in C : rank(n) = rank(m) => n = m
      /\ \A i \in 1 .. total : \E n \in C : rank(n) = i
  BY <1>3, <1>5, FS_CardinalityType
<1>9. \A n \in C : page[n] = IF rank(n) > k THEN end + rank(n) - k - 1 ELSE nth(rank(n))
  OBVIOUS
<1>10. MetaFlip!Range(page) = {page[n] : n \in C}
  BY DEF MetaFlip!Range
<1> HIDE DEF page, rank, total
<1>11. \A n \in C :
         /\ rank(n) \in Int
         /\ rank(n) > k => page[n] = end + rank(n) - k - 1 /\ page[n] >= end
         /\ ~(rank(n) > k) =>
              /\ rank(n) \in 1 .. k /\ page[n] = nth(rank(n))
              /\ page[n] \in S /\ page[n] < end
  <2> SUFFICES ASSUME NEW n \in C
               PROVE  /\ rank(n) \in Int
                      /\ rank(n) > k => page[n] = end + rank(n) - k - 1 /\ page[n] >= end
                      /\ ~(rank(n) > k) =>
                           /\ rank(n) \in 1 .. k /\ page[n] = nth(rank(n))
                           /\ page[n] \in S /\ page[n] < end
    OBVIOUS
  <2>1. rank(n) \in Int /\ 1 <= rank(n)
    BY <1>8
  <2>2. CASE rank(n) > k
    <3>1. page[n] = end + rank(n) - k - 1
      BY <1>9, <2>2
    <3> QED BY <1>1, <1>4, <2>1, <2>2, <3>1
  <2>3. CASE ~(rank(n) > k)
    <3>1. page[n] = nth(rank(n)) /\ rank(n) \in 1 .. k
      BY <1>4, <1>9, <2>1, <2>3
    <3>2. nth(rank(n)) \in S
      BY <1>6, <3>1
    <3> QED BY <1>4, <2>1, <2>3, <3>1, <3>2
  <2> QED BY <2>2, <2>3
<1>12. \A n \in C : page[n] \in Nat
  <2> SUFFICES ASSUME NEW n \in C PROVE page[n] \in Nat
    OBVIOUS
  <2>1. CASE rank(n) > k
    BY <1>1, <1>4, <1>11, <2>1
  <2>2. CASE ~(rank(n) > k)
    BY <1>4, <1>11, <2>2
  <2> QED BY <2>1, <2>2
<1>13. plan.next \in [MetaFlip!TreeNode -> Nat]
  BY <1>1, <1>2, <1>12
<1>14. plan.new = {plan.next[n] : n \in C}
  BY <1>2, <1>3, <1>10
<1>15. \A n \in MetaFlip!TreeNode \ C : plan.next[n] = prev[n]
  BY <1>2
<1>16. \A n \in C : plan.next[n] = page[n]
  BY <1>2, <1>3
<1>17. \A n, m \in C : plan.next[n] = plan.next[m] => n = m
  <2> SUFFICES ASSUME NEW n \in C, NEW m \in C, page[n] = page[m] PROVE n = m
    BY <1>16
  <2>1. /\ rank(n) \in Int /\ rank(m) \in Int /\ k \in Int /\ end \in Int
        /\ page[n] \in Int /\ page[m] \in Int
    BY <1>1, <1>4, <1>11, <1>12
  <2>2. CASE rank(n) > k
    <3>1. page[n] >= end /\ page[n] = end + rank(n) - k - 1
      BY <1>11, <2>2
    <3>2. rank(m) > k
      <4>1. ~(page[m] < end)
        BY <2>1, <3>1
      <4> QED BY <1>11, <4>1
    <3>3. page[m] = end + rank(m) - k - 1
      BY <1>11, <3>2
    <3>4. rank(n) = rank(m)
      <4>1. end + rank(n) - k - 1 = end + rank(m) - k - 1
        BY <3>1, <3>3
      <4> QED BY <2>1, <4>1
    <3> QED BY <1>8, <3>4
  <2>3. CASE ~(rank(n) > k)
    <3>1. rank(n) \in 1 .. k /\ page[n] = nth(rank(n)) /\ page[n] < end
      BY <1>11, <2>3
    <3>2. ~(rank(m) > k)
      <4>1. ~(page[m] >= end)
        BY <2>1, <3>1
      <4> QED BY <1>11, <4>1
    <3>3. rank(m) \in 1 .. k /\ page[m] = nth(rank(m))
      BY <1>11, <3>2
    <3>4. rank(n) = rank(m)
      BY <1>7, <3>1, <3>3
    <3> QED BY <1>8, <3>4
  <2> QED BY <2>2, <2>3
<1>18. \A p \in plan.new : p \in S \/ p >= end
  BY <1>2, <1>10, <1>11
<1>19. \E j \in Nat : {p \in plan.new : p >= end} = end .. end + j - 1
  <2> DEFINE j == IF total > k THEN total - k ELSE 0
  <2>1. j \in Nat
    BY <1>4, <1>8
  <2>2. ASSUME NEW p \in plan.new, p >= end PROVE p \in end .. end + j - 1
    <3>1. PICK n \in C : p = page[n]
      BY <1>2, <1>10
    <3>2. rank(n) > k
      <4>1. ~(page[n] < end)
        BY <1>1, <1>12, <2>2, <3>1
      <4> QED BY <1>11, <4>1
    <3>3. p = end + rank(n) - k - 1 /\ rank(n) \in 1 .. total
      BY <1>8, <1>11, <3>1, <3>2
    <3> QED BY <1>1, <1>4, <1>8, <3>2, <3>3
  <2>3. ASSUME NEW p \in end .. end + j - 1 PROVE p \in plan.new /\ p >= end
    <3>1. total > k /\ p - end + k + 1 \in 1 .. total /\ p - end + k + 1 > k /\ p \in Int
      BY <1>1, <1>4, <1>8, <2>3
    <3>2. PICK n \in C : rank(n) = p - end + k + 1
      BY <1>8, <3>1
    <3>3. page[n] = end + rank(n) - k - 1
      BY <1>11, <3>1, <3>2
    <3>4. page[n] = p
      BY <1>1, <1>4, <3>1, <3>2, <3>3
    <3> QED BY <1>1, <1>2, <1>10, <3>1, <3>4
  <2> HIDE DEF j
  <2> QED BY <2>1, <2>2, <2>3
<1> QED BY <1>2, <1>3, <1>13, <1>14, <1>15, <1>17, <1>18, <1>19 DEF PlanFits, C, S, prev, end, plan


LEMMA EndOfFile ==
  ASSUME NEW end \in Nat, NEW k \in Nat, NEW new, new \subseteq Nat,
         {p \in new : p >= end} = end .. end + k - 1
  PROVE  MetaFlip!Max({end} \cup {p + 1 : p \in new}) = end + k
<1> DEFINE E == {end} \cup {p + 1 : p \in new}
<1>1. E \subseteq Int
  OBVIOUS
<1>2. end + k \in E
  <2>1. CASE k = 0
    BY <2>1
  <2>2. CASE k # 0
    <3>1. end + k - 1 \in new
      BY <2>2
    <3>2. end + k = (end + k - 1) + 1
      OBVIOUS
    <3> QED BY <3>1, <3>2
  <2> QED BY <2>1, <2>2
<1>3. \A e \in E : e <= end + k
  <2> SUFFICES ASSUME NEW e \in E PROVE e <= end + k
    OBVIOUS
  <2>1. CASE e = end
    BY <2>1
  <2>2. ASSUME NEW p \in new, e = p + 1 PROVE e <= end + k
    <3>1. p \in Int
      OBVIOUS
    <3>2. CASE p >= end
      <4>1. p \in end .. end + k - 1
        BY <3>2
      <4> QED BY <2>2, <4>1
    <3>3. CASE ~(p >= end)
      BY <2>2, <3>1, <3>3
    <3> QED BY <3>2, <3>3
  <2> QED BY <2>1, <2>2
<1> HIDE DEF E
<1>4. MetaFlip!Max(E) \in E /\ \A e \in E : MetaFlip!Max(E) >= e
  <2>1. \E m \in E : \A e \in E : m >= e
    BY <1>1, <1>2, <1>3
  <2> QED BY <2>1 DEF MetaFlip!Max
<1>5. MetaFlip!Max(E) = end + k
  <2>1. MetaFlip!Max(E) >= end + k /\ MetaFlip!Max(E) <= end + k /\ MetaFlip!Max(E) \in Int
    BY <1>1, <1>2, <1>3, <1>4
  <2>2. \A m \in Int : m >= end + k /\ m <= end + k => m = end + k
    OBVIOUS
  <2> QED BY <2>1, <2>2
<1> QED BY <1>5 DEF E

(* The pages of a tree and those of the next one. *)
LEMMA NextPages ==
  ASSUME NEW plan, NEW copied, NEW prev, NEW spare, NEW end,
         PlanFits(plan, copied, prev, spare, end),
         \A n, m \in MetaFlip!TreeNode : prev[n] = prev[m] => n = m
  PROVE  /\ MetaFlip!Pages(plan.next) = plan.new \cup (MetaFlip!Pages(prev) \ plan.old)
         /\ plan.old \subseteq MetaFlip!Pages(prev)
<1>1. /\ copied \subseteq MetaFlip!TreeNode
      /\ plan.old = {prev[n] : n \in copied} /\ plan.new = {plan.next[n] : n \in copied}
      /\ \A n \in MetaFlip!TreeNode \ copied : plan.next[n] = prev[n]
  BY DEF PlanFits
<1>2. ASSUME NEW p \in MetaFlip!Pages(plan.next) PROVE p \in plan.new \cup (MetaFlip!Pages(prev) \ plan.old)
  <2>1. PICK n \in MetaFlip!TreeNode : p = plan.next[n]
    BY DEF MetaFlip!Pages
  <2>2. CASE n \in copied
    BY <1>1, <2>1, <2>2
  <2>3. CASE n \notin copied
    <3>1. p = prev[n] /\ p \in MetaFlip!Pages(prev)
      BY <1>1, <2>1, <2>3 DEF MetaFlip!Pages
    <3>2. p \notin plan.old
      BY <1>1, <2>3, <3>1
    <3> QED BY <3>1, <3>2
  <2> QED BY <2>2, <2>3
<1>3. ASSUME NEW p \in plan.new PROVE p \in MetaFlip!Pages(plan.next)
  BY <1>1 DEF MetaFlip!Pages
<1>4. ASSUME NEW p \in MetaFlip!Pages(prev) \ plan.old PROVE p \in MetaFlip!Pages(plan.next)
  <2>1. PICK n \in MetaFlip!TreeNode : p = prev[n]
    BY DEF MetaFlip!Pages
  <2>2. n \notin copied
    BY <1>1, <2>1
  <2>3. p = plan.next[n]
    BY <1>1, <2>1, <2>2
  <2> QED BY <2>3 DEF MetaFlip!Pages
<1>5. plan.old \subseteq MetaFlip!Pages(prev)
  BY <1>1 DEF MetaFlip!Pages
<1> QED BY <1>2, <1>3, <1>4, <1>5

(* What a commit does to the file. *)
Written(a, run, t, plan) ==
  /\ a.snapshots = Append(run.snapshots, plan.next)
  /\ a.free = {e \in run.free : e.pgno \notin plan.new}
                \cup {[pgno |-> p, freedBy |-> t + 1, alloc |-> run.alloc[p]] : p \in plan.old}
  /\ a.alloc = [p \in (MetaFlip!Pages(run.snapshots[t]) \ plan.old) \cup plan.new |->
                  IF p \in plan.new THEN t + 1 ELSE run.alloc[p]]
  /\ a.written = [p \in MetaFlip!META_PAGES .. a.fileEnd - 1 |->
                    IF p \in plan.new THEN t + 1 ELSE run.written[p]]
  /\ \E k \in Nat : /\ {p \in plan.new : p >= run.fileEnd} = run.fileEnd .. run.fileEnd + k - 1
                    /\ a.fileEnd = run.fileEnd + k

LEMMA AppliedIs ==
  ASSUME NEW t, NEW run, RunFits(run, t), NEW engine, NEW r,
         NEW leaves \in SUBSET MetaFlip!CowLeaf
  PROVE  Written(MetaFlip!Applied(run, engine, leaves, r), run, t, MetaFlip!Planned(run, engine, leaves, r))
<1> DEFINE plan == MetaFlip!Planned(run, engine, leaves, r)
           a == MetaFlip!Applied(run, engine, leaves, r)
<1>1. Len(run.snapshots) = t /\ DOMAIN run.alloc = MetaFlip!Pages(run.snapshots[t]) /\ run.fileEnd \in Nat
  BY DEF RunFits
<1>2. PlanFits(plan, MetaFlip!Copied(leaves), run.snapshots[t], Spare(run, engine, r), run.fileEnd)
  BY PlannedFits
<1>3. PICK k \in Nat : {p \in plan.new : p >= run.fileEnd} = run.fileEnd .. run.fileEnd + k - 1
  BY <1>2 DEF PlanFits
<1>4. plan.new \subseteq Nat
  <2>1. plan.next \in [MetaFlip!TreeNode -> Nat] /\ plan.new = {plan.next[n] : n \in MetaFlip!Copied(leaves)}
        /\ MetaFlip!Copied(leaves) \subseteq MetaFlip!TreeNode
    BY <1>2 DEF PlanFits
  <2> QED BY <2>1
<1>5. MetaFlip!Max({run.fileEnd} \cup {p + 1 : p \in plan.new}) = run.fileEnd + k
  BY <1>1, <1>3, <1>4, EndOfFile
<1>6. a.fileEnd = run.fileEnd + k
  BY <1>5 DEF MetaFlip!Applied
<1>7. /\ a.snapshots = Append(run.snapshots, plan.next)
      /\ a.free = {e \in run.free : e.pgno \notin plan.new}
                    \cup {[pgno |-> p, freedBy |-> t + 1, alloc |-> run.alloc[p]] : p \in plan.old}
      /\ a.alloc = [p \in (MetaFlip!Pages(run.snapshots[t]) \ plan.old) \cup plan.new |->
                      IF p \in plan.new THEN t + 1 ELSE run.alloc[p]]
      /\ a.written = [p \in MetaFlip!META_PAGES .. a.fileEnd - 1 |->
                        IF p \in plan.new THEN t + 1 ELSE run.written[p]]
  BY <1>1 DEF MetaFlip!Applied
<1> HIDE DEF plan, a
<1>8. Written(a, run, t, plan)
  BY <1>3, <1>6, <1>7 DEF Written
<1> QED BY <1>8 DEF a, plan

LEMMA AppliedFits ==
  ASSUME NEW t, NEW run, RunFits(run, t), NEW engine, NEW r, NEW leaves \in SUBSET MetaFlip!CowLeaf
  PROVE  RunFits(MetaFlip!Applied(run, engine, leaves, r), t + 1)
<1> DEFINE C == MetaFlip!Copied(leaves)
           S == Spare(run, engine, r)
           prev == run.snapshots[t]
           end == run.fileEnd
           plan == MetaFlip!Planned(run, engine, leaves, r)
           a == MetaFlip!Applied(run, engine, leaves, r)
           live == MetaFlip!Pages(prev)
           free == {e.pgno : e \in run.free}
<1>1. PlanFits(plan, C, prev, S, end)
  BY PlannedFits
<1>2. /\ t \in Nat \ {0}
      /\ run.snapshots \in Seq([MetaFlip!TreeNode -> Nat]) /\ Len(run.snapshots) = t
      /\ \A n, m \in MetaFlip!TreeNode : prev[n] = prev[m] => n = m
      /\ end \in Nat /\ MetaFlip!META_PAGES < end /\ MetaFlip!META_PAGES \in Nat
      /\ DOMAIN run.alloc = live /\ \A p \in live : run.alloc[p] \in 1 .. t
      /\ DOMAIN run.written = MetaFlip!META_PAGES .. end - 1
      /\ \A p \in DOMAIN run.written : run.written[p] \in 1 .. t
      /\ \A e \in run.free : e.freedBy \in 1 .. t /\ e.alloc \in 1 .. t
      /\ \A e, f \in run.free : e.pgno = f.pgno => e = f
      /\ free \cap live = {}
      /\ free \cup live = MetaFlip!META_PAGES .. end - 1
  BY DEF RunFits, MetaFlip!META_PAGES
<1>3. /\ a.snapshots = Append(run.snapshots, plan.next)
      /\ a.free = {e \in run.free : e.pgno \notin plan.new}
                    \cup {[pgno |-> p, freedBy |-> t + 1, alloc |-> run.alloc[p]] : p \in plan.old}
      /\ a.alloc = [p \in (live \ plan.old) \cup plan.new |->
                      IF p \in plan.new THEN t + 1 ELSE run.alloc[p]]
      /\ a.written = [p \in MetaFlip!META_PAGES .. a.fileEnd - 1 |->
                        IF p \in plan.new THEN t + 1 ELSE run.written[p]]
      /\ \E k \in Nat : /\ {p \in plan.new : p >= end} = end .. end + k - 1
                        /\ a.fileEnd = end + k
  <2>1. /\ plan = MetaFlip!Planned(run, engine, leaves, r) /\ a = MetaFlip!Applied(run, engine, leaves, r)
        /\ live = MetaFlip!Pages(run.snapshots[t]) /\ end = run.fileEnd
    OBVIOUS
  <2> HIDE DEF plan, a, live, end
  <2>2. Written(a, run, t, plan)
    BY <2>1, AppliedIs
  <2> QED BY <2>1, <2>2 DEF Written
<1>4. PICK k \in Nat : /\ {p \in plan.new : p >= end} = end .. end + k - 1
                       /\ a.fileEnd = end + k
  BY <1>3
<1>5. MetaFlip!Pages(plan.next) = plan.new \cup (live \ plan.old) /\ plan.old \subseteq live
  BY <1>1, <1>2, NextPages
<1>6. S \subseteq free
  BY DEF Spare
<1>7. /\ C \subseteq MetaFlip!TreeNode /\ plan.next \in [MetaFlip!TreeNode -> Nat]
      /\ plan.old = {prev[n] : n \in C} /\ plan.new = {plan.next[n] : n \in C}
      /\ \A n \in MetaFlip!TreeNode \ C : plan.next[n] = prev[n]
      /\ \A n, m \in C : plan.next[n] = plan.next[m] => n = m
      /\ \A p \in plan.new : p \in S \/ p >= end
  BY <1>1 DEF PlanFits
<1> HIDE DEF C, S, plan, a, free, live, prev, end
<1>8. plan.new \cap live = {} /\ \A p \in plan.new : p \in free \/ p >= end
  <2>1. \A p \in live : p \in Int /\ p < end
    BY <1>2
  <2>2. \A p \in plan.new : p \in free \/ p >= end
    BY <1>6, <1>7
  <2>3. \A p \in live : ~(p >= end)
    BY <1>2, <2>1
  <2> QED BY <1>2, <2>2, <2>3
<1>9. a.snapshots \in Seq([MetaFlip!TreeNode -> Nat]) /\ Len(a.snapshots) = t + 1
      /\ a.snapshots[t + 1] = plan.next
  BY <1>2, <1>3, <1>7, AppendProperties
<1>10. ASSUME NEW n \in MetaFlip!TreeNode, NEW m \in MetaFlip!TreeNode, plan.next[n] = plan.next[m]
       PROVE  n = m
  <2>1. CASE n \in C /\ m \in C
    BY <1>7, <1>10, <2>1
  <2>2. CASE n \notin C /\ m \notin C
    BY <1>2, <1>7, <1>10, <2>2
  <2>3. CASE n \in C /\ m \notin C
    <3>1. plan.next[n] \in plan.new /\ plan.next[m] \in live
      BY <1>7, <2>3 DEF MetaFlip!Pages, live
    <3> QED BY <1>8, <1>10, <3>1
  <2>4. CASE n \notin C /\ m \in C
    <3>1. plan.next[m] \in plan.new /\ plan.next[n] \in live
      BY <1>7, <2>4 DEF MetaFlip!Pages, live
    <3> QED BY <1>8, <1>10, <3>1
  <2> QED BY <2>1, <2>2, <2>3, <2>4
<1> DEFINE lives == MetaFlip!Pages(plan.next)
           frees == {e.pgno : e \in a.free}
<1>11. frees = (free \ plan.new) \cup plan.old
  <2>1. ASSUME NEW p \in frees PROVE p \in (free \ plan.new) \cup plan.old
    BY <1>3 DEF free
  <2>2. ASSUME NEW p \in free \ plan.new PROVE p \in frees
    <3>1. PICK e \in run.free : e.pgno = p
      BY DEF free
    <3> QED BY <1>3, <3>1
  <2>3. ASSUME NEW p \in plan.old PROVE p \in frees
    <3> DEFINE e == [pgno |-> p, freedBy |-> t + 1, alloc |-> run.alloc[p]]
    <3>1. e \in a.free /\ e.pgno = p
      BY <1>3
    <3> QED BY <3>1
  <2> HIDE DEF frees
  <2> QED BY <2>1, <2>2, <2>3
<1>12. ASSUME NEW e \in a.free
       PROVE  e.freedBy \in 1 .. t + 1 /\ e.alloc \in 1 .. t + 1
  <2>1. CASE e \in run.free
    BY <1>2, <2>1
  <2>2. ASSUME NEW p \in plan.old, e = [pgno |-> p, freedBy |-> t + 1, alloc |-> run.alloc[p]]
        PROVE  e.freedBy \in 1 .. t + 1 /\ e.alloc \in 1 .. t + 1
    <3>1. run.alloc[p] \in 1 .. t
      BY <1>2, <1>5
    <3> QED BY <1>2, <2>2, <3>1
  <2> QED BY <1>3, <2>1, <2>2
<1>13. ASSUME NEW e \in a.free, NEW f \in a.free, e.pgno = f.pgno PROVE e = f
  <2>1. \A g \in a.free :
          \/ g \in run.free /\ g.pgno \in free
          \/ g.pgno \in plan.old
             /\ g = [pgno |-> g.pgno, freedBy |-> t + 1, alloc |-> run.alloc[g.pgno]]
    BY <1>3 DEF free
  <2>2. plan.old \cap free = {}
    BY <1>2, <1>5
  <2>3. CASE e.pgno \in plan.old
    BY <1>13, <2>1, <2>2, <2>3
  <2>4. CASE e.pgno \notin plan.old
    <3>1. e \in run.free /\ f \in run.free
      BY <1>13, <2>1, <2>4
    <3> QED BY <1>2, <1>13, <3>1
  <2> QED BY <2>3, <2>4
<1>14. frees \cap lives = {}
  <2> HIDE DEF frees, lives
  <2>1. lives = plan.new \cup (live \ plan.old)
    BY <1>5 DEF lives
  <2> QED BY <1>2, <1>5, <1>8, <1>11, <2>1
<1>15. frees \cup lives = MetaFlip!META_PAGES .. a.fileEnd - 1
  <2> HIDE DEF frees, lives
  <2>1. lives = plan.new \cup (live \ plan.old)
    BY <1>5 DEF lives
  <2>2. frees \cup lives = (free \cup live) \cup plan.new
    BY <1>5, <1>11, <2>1
  <2>3. plan.new \subseteq (MetaFlip!META_PAGES .. end - 1) \cup (end .. end + k - 1)
    BY <1>2, <1>4, <1>8
  <2>4. end .. end + k - 1 \subseteq plan.new
    BY <1>4
  <2>5. (MetaFlip!META_PAGES .. end - 1) \cup (end .. end + k - 1) = MetaFlip!META_PAGES .. end + k - 1
    BY <1>2
  <2> QED BY <1>2, <1>4, <2>2, <2>3, <2>4, <2>5
<1>16. DOMAIN a.alloc = lives /\ \A p \in lives : a.alloc[p] \in 1 .. t + 1
  <2>1. DOMAIN a.alloc = lives
    BY <1>3, <1>5
  <2>2. \A p \in plan.new : a.alloc[p] = t + 1
    BY <1>3
  <2>3. \A p \in (live \ plan.old) : p \notin plan.new /\ a.alloc[p] = run.alloc[p]
    BY <1>3, <1>8
  <2> QED BY <1>2, <1>5, <2>1, <2>2, <2>3
<1>17. DOMAIN a.written = MetaFlip!META_PAGES .. a.fileEnd - 1
       /\ \A p \in DOMAIN a.written : a.written[p] \in 1 .. t + 1
  <2> SUFFICES ASSUME NEW p \in MetaFlip!META_PAGES .. a.fileEnd - 1 PROVE a.written[p] \in 1 .. t + 1
    BY <1>3
  <2>1. CASE p \in plan.new
    BY <1>2, <1>3, <2>1
  <2>2. CASE p \notin plan.new
    <3>1. p \in MetaFlip!META_PAGES .. end + k - 1
      <4>1. a.fileEnd - 1 = end + k - 1
        BY <1>2, <1>4
      <4>2. p \in MetaFlip!META_PAGES .. a.fileEnd - 1
        OBVIOUS
      <4> QED BY <4>1, <4>2, Zenon
    <3>2. p \in MetaFlip!META_PAGES .. end - 1
      <4>1. p \notin end .. end + k - 1
        BY <1>4, <2>2
      <4> QED BY <1>2, <3>1, <4>1
    <3>3. run.written[p] \in 1 .. t
      BY <1>2, <3>2
    <3>4. a.written[p] = run.written[p]
      BY <1>3, <2>2
    <3> QED BY <1>2, <3>3, <3>4
  <2> QED BY <2>1, <2>2
<1>18. a.fileEnd \in Nat /\ MetaFlip!META_PAGES < a.fileEnd
  BY <1>2, <1>4
<1>19. t + 1 \in Nat \ {0}
  BY <1>2
<1>20. RunFits(a, t + 1)
  BY <1>9, <1>10, <1>12, <1>13, <1>14, <1>15, <1>16, <1>17, <1>18, <1>19 DEF RunFits
<1> QED BY <1>20 DEF a


(* A tree that is kept at transaction t: what it wrote is there, in pages  *)
(* that are in use since, or were freed by a later commit.                 *)
KeepsTree(run, t, s) ==
  \A p \in MetaFlip!Pages(run.snapshots[s]) :
    /\ run.written[p] <= s
    /\ \/ p \in MetaFlip!Pages(run.snapshots[t]) /\ run.alloc[p] <= s
       \/ \E e \in run.free : e.pgno = p /\ e.freedBy > s /\ e.alloc <= s

(* The next commit may take no page of it. *)
Guarded(engine, r, t, s) ==
  \/ s = t
  \/ MetaFlip!readerPresent(r, t + 1) /\ s = r.start
  \/ engine = "lmdb" /\ s = t - 1

LEMMA NewestKept ==
  ASSUME NEW t, NEW run, RunFits(run, t)
  PROVE  KeepsTree(run, t, t)
<1>1. /\ DOMAIN run.alloc = MetaFlip!Pages(run.snapshots[t]) /\ \A p \in MetaFlip!Pages(run.snapshots[t]) : run.alloc[p] \in 1 .. t
      /\ DOMAIN run.written = MetaFlip!META_PAGES .. run.fileEnd - 1
      /\ \A p \in DOMAIN run.written : run.written[p] \in 1 .. t
      /\ MetaFlip!Pages(run.snapshots[t]) \subseteq MetaFlip!META_PAGES .. run.fileEnd - 1
      /\ t \in Nat
  BY DEF RunFits
<1> QED BY <1>1 DEF KeepsTree

LEMMA NotReusable ==
  ASSUME NEW t \in Nat \ {0}, NEW s \in 1 .. t, NEW engine, NEW r, r.start \in Nat, r.end \in Nat,
         Guarded(engine, r, t, s), s # t,
         NEW e, e.freedBy \in Nat, e.alloc \in Nat, e.freedBy > s, e.alloc <= s
  PROVE  ~MetaFlip!reusable(engine, e, t + 1, r)
<1> DEFINE present == MetaFlip!readerPresent(r, t + 1)
           oldest  == IF present THEN MetaFlip!Min({r.start, t}) ELSE t
<1>1. MetaFlip!reusable(engine, e, t + 1, r) <=>
        IF engine = "lmdb" THEN e.freedBy < oldest
        ELSE present => e.freedBy < r.start \/ e.alloc > r.start
  <2>1. t + 1 - 1 = t
    OBVIOUS
  <2> QED BY <2>1 DEF MetaFlip!reusable
<1>2. ASSUME present PROVE oldest \in Nat /\ oldest <= r.start /\ oldest <= t
  <2> DEFINE B == {r.start, t}
  <2>1. B \subseteq Nat /\ \E m \in B : \A x \in B : m <= x
    <3>1. CASE r.start <= t
      BY <3>1
    <3>2. CASE ~(r.start <= t)
      BY <3>2
    <3> QED BY <3>1, <3>2
  <2>2. MetaFlip!Min(B) \in B /\ \A x \in B : MetaFlip!Min(B) <= x
    BY <2>1 DEF MetaFlip!Min
  <2>3. oldest = MetaFlip!Min(B)
    BY <1>2
  <2>4. r.start \in B /\ t \in B
    OBVIOUS
  <2> HIDE DEF B, oldest
  <2> QED BY <2>1, <2>2, <2>3, <2>4
<1>3. oldest \in Nat /\ oldest <= t
  BY <1>2
<1> HIDE DEF present, oldest
<1>4. CASE present /\ s = r.start
  <2>1. oldest \in Nat /\ oldest <= s
    BY <1>2, <1>4
  <2>2. ~(e.freedBy < oldest)
    BY <2>1
  <2>3. ~(e.freedBy < r.start \/ e.alloc > r.start)
    BY <1>4
  <2> QED BY <1>1, <1>4, <2>2, <2>3
<1>5. CASE engine = "lmdb" /\ s = t - 1
  <2>1. ~(e.freedBy < oldest)
    BY <1>3, <1>5
  <2> QED BY <1>1, <1>5, <2>1
<1> QED BY <1>4, <1>5 DEF Guarded, present

LEMMA NotReused ==
  ASSUME NEW t, NEW run, RunFits(run, t), NEW s \in 1 .. t, KeepsTree(run, t, s),
         NEW engine, NEW r, r.start \in Nat, r.end \in Nat, Guarded(engine, r, t, s),
         NEW leaves \in SUBSET MetaFlip!CowLeaf
  PROVE  MetaFlip!Planned(run, engine, leaves, r).new \cap MetaFlip!Pages(run.snapshots[s]) = {}
<1> DEFINE plan == MetaFlip!Planned(run, engine, leaves, r)
           live == MetaFlip!Pages(run.snapshots[t])
           S == Spare(run, engine, r)
<1>1. \A p \in plan.new : p \in S \/ p >= run.fileEnd
  BY PlannedFits DEF PlanFits
<1>2. /\ t \in Nat \ {0} /\ Len(run.snapshots) = t /\ run.fileEnd \in Nat /\ MetaFlip!META_PAGES \in Nat
      /\ \A e, f \in run.free : e.pgno = f.pgno => e = f
      /\ {e.pgno : e \in run.free} \cap live = {}
      /\ {e.pgno : e \in run.free} \cup live = MetaFlip!META_PAGES .. run.fileEnd - 1
      /\ \A e \in run.free : e.freedBy \in 1 .. t /\ e.alloc \in 1 .. t
  BY DEF RunFits, MetaFlip!META_PAGES
<1> HIDE DEF plan
<1>3. S = {e.pgno : e \in {f \in run.free : MetaFlip!reusable(engine, f, t + 1, r)}}
  BY <1>2 DEF Spare
<1> HIDE DEF S
<1>4. ASSUME NEW p \in plan.new, p \in MetaFlip!Pages(run.snapshots[s]) PROVE FALSE
  <2>1. \/ p \in live
        \/ s # t /\ \E e \in run.free : e.pgno = p /\ e.freedBy > s /\ e.alloc <= s
    <3>1. CASE s = t
      BY <1>4, <3>1
    <3>2. CASE s # t
      BY <1>4, <3>2 DEF KeepsTree
    <3> QED BY <3>1, <3>2
  <2>2. p < run.fileEnd /\ p \in Int
    <3>1. p \in MetaFlip!META_PAGES .. run.fileEnd - 1
      <4> HIDE DEF live
      <4> QED BY <1>2, <2>1
    <3> QED BY <1>2, <3>1
  <2>3. p \in S
    BY <1>1, <1>2, <2>2
  <2>4. PICK f \in run.free : f.pgno = p /\ MetaFlip!reusable(engine, f, t + 1, r)
    BY <1>3, <2>3
  <2>5. p \notin live
    <3> HIDE DEF live
    <3> QED BY <1>2, <2>4
  <2>6. s # t /\ \E e \in run.free : e.pgno = p /\ e.freedBy > s /\ e.alloc <= s
    BY <2>1, <2>5
  <2>7. f.freedBy > s /\ f.alloc <= s /\ f.freedBy \in Nat /\ f.alloc \in Nat
    BY <1>2, <2>4, <2>6
  <2> QED BY <1>2, <2>4, <2>6, <2>7, NotReusable
<1> QED BY <1>4 DEF plan

(* A tree nobody may touch is kept by a commit. *)
LEMMA KeptThrough ==
  ASSUME NEW t, NEW run, RunFits(run, t), NEW s \in 1 .. t, KeepsTree(run, t, s),
         NEW engine, NEW r, r.start \in Nat, r.end \in Nat, Guarded(engine, r, t, s),
         NEW leaves \in SUBSET MetaFlip!CowLeaf
  PROVE  KeepsTree(MetaFlip!Applied(run, engine, leaves, r), t + 1, s)
<1> DEFINE plan == MetaFlip!Planned(run, engine, leaves, r)
           a == MetaFlip!Applied(run, engine, leaves, r)
           prev == run.snapshots[t]
           live == MetaFlip!Pages(prev)
           kept == MetaFlip!Pages(run.snapshots[s])
<1>1. /\ t \in Nat \ {0} /\ run.fileEnd \in Nat /\ MetaFlip!META_PAGES \in Nat
      /\ run.snapshots \in Seq([MetaFlip!TreeNode -> Nat]) /\ Len(run.snapshots) = t
      /\ \A n, m \in MetaFlip!TreeNode : prev[n] = prev[m] => n = m
      /\ {e.pgno : e \in run.free} \cup live = MetaFlip!META_PAGES .. run.fileEnd - 1
      /\ \A e \in run.free : e.freedBy \in 1 .. t /\ e.alloc \in 1 .. t
  BY DEF RunFits, MetaFlip!META_PAGES
<1>2. /\ a.snapshots = Append(run.snapshots, plan.next)
      /\ a.free = {e \in run.free : e.pgno \notin plan.new}
                    \cup {[pgno |-> p, freedBy |-> t + 1, alloc |-> run.alloc[p]] : p \in plan.old}
      /\ a.alloc = [p \in (live \ plan.old) \cup plan.new |->
                      IF p \in plan.new THEN t + 1 ELSE run.alloc[p]]
      /\ a.written = [p \in MetaFlip!META_PAGES .. a.fileEnd - 1 |->
                        IF p \in plan.new THEN t + 1 ELSE run.written[p]]
      /\ \E k \in Nat : a.fileEnd = run.fileEnd + k
  <2>1. plan = MetaFlip!Planned(run, engine, leaves, r) /\ a = MetaFlip!Applied(run, engine, leaves, r)
        /\ live = MetaFlip!Pages(run.snapshots[t])
    OBVIOUS
  <2> HIDE DEF plan, a, live
  <2>2. Written(a, run, t, plan)
    BY <2>1, AppliedIs
  <2> QED BY <2>1, <2>2 DEF Written
<1>3. MetaFlip!Pages(plan.next) = plan.new \cup (live \ plan.old) /\ plan.old \subseteq live
      /\ plan.next \in [MetaFlip!TreeNode -> Nat]
  <2>1. PlanFits(plan, MetaFlip!Copied(leaves), prev, Spare(run, engine, r), run.fileEnd)
    BY PlannedFits
  <2>2. plan.next \in [MetaFlip!TreeNode -> Nat]
    BY <2>1 DEF PlanFits
  <2> HIDE DEF plan, prev
  <2> QED BY <1>1, <2>1, <2>2, NextPages
<1>4. plan.new \cap kept = {}
  BY NotReused
<1> HIDE DEF plan, a, prev, live
<1>5. a.snapshots[s] = run.snapshots[s] /\ a.snapshots[t + 1] = plan.next
  <2> DEFINE h == run.snapshots
  <2>1. h \in Seq([MetaFlip!TreeNode -> Nat]) /\ Len(h) = t /\ a.snapshots = Append(h, plan.next)
    BY <1>1, <1>2
  <2> HIDE DEF h
  <2>2. /\ Append(h, plan.next)[t + 1] = plan.next
        /\ \A i \in 1 .. t : Append(h, plan.next)[i] = h[i]
    BY <1>1, <1>3, <2>1, AppendProperties
  <2> QED BY <2>1, <2>2 DEF h
<1>6. \A p \in kept : run.written[p] <= s
                      /\ \/ p \in live /\ run.alloc[p] <= s
                         \/ \E e \in run.free : e.pgno = p /\ e.freedBy > s /\ e.alloc <= s
  BY DEF KeepsTree, live, prev
<1> HIDE DEF kept
<1>7. ASSUME NEW p \in kept
      PROVE  /\ a.written[p] <= s
             /\ \/ p \in MetaFlip!Pages(plan.next) /\ a.alloc[p] <= s
                \/ \E e \in a.free : e.pgno = p /\ e.freedBy > s /\ e.alloc <= s
  <2>1. p \notin plan.new
    BY <1>4
  <2>2. p \in MetaFlip!META_PAGES .. a.fileEnd - 1
    <3>1. p \in MetaFlip!META_PAGES .. run.fileEnd - 1
      BY <1>1, <1>6
    <3>2. PICK k \in Nat : a.fileEnd = run.fileEnd + k
      BY <1>2
    <3> QED BY <1>1, <3>1, <3>2
  <2>3. a.written[p] = run.written[p]
    BY <1>2, <2>1, <2>2
  <2>4. CASE p \in live /\ run.alloc[p] <= s /\ p \in plan.old
    <3> DEFINE e == [pgno |-> p, freedBy |-> t + 1, alloc |-> run.alloc[p]]
    <3>1. e \in a.free
      BY <1>2, <2>4
    <3>2. e.pgno = p /\ e.freedBy > s /\ e.alloc <= s
      BY <1>1, <2>4
    <3> HIDE DEF e
    <3> QED BY <1>6, <2>3, <3>1, <3>2
  <2>5. CASE p \in live /\ run.alloc[p] <= s /\ p \notin plan.old
    BY <1>2, <1>3, <1>6, <2>1, <2>3, <2>5
  <2>6. ASSUME NEW e \in run.free, e.pgno = p, e.freedBy > s, e.alloc <= s
        PROVE  \E f \in a.free : f.pgno = p /\ f.freedBy > s /\ f.alloc <= s
    BY <1>2, <2>1, <2>6
  <2> QED BY <1>6, <2>3, <2>4, <2>5, <2>6
<1>8. KeepsTree(a, t + 1, s)
  BY <1>5, <1>7 DEF KeepsTree, kept
<1> QED BY <1>8 DEF a


-------------------------------------------------------------------------------
(* The file after k commits: the turns of the loop, and that they exist. *)
FileAfter(k, g) ==
  g = [n \in 0 .. k |-> IF n = 0 THEN MetaFlip!Booted
                        ELSE MetaFlip!Applied(g[n - 1], file.engine, file.commits[n], reader)]

LEMMA FileExists == \A k \in Nat : \E g : FileAfter(k, g)
<1> DEFINE commit(x, n) == MetaFlip!Applied(x, file.engine, file.commits[n], reader)
           NS == {k \in Nat : ~\E g : FileAfter(k, g)}
<1>0. \A k, g : FileAfter(k, g) <=>
                  g = [n \in 0 .. k |-> IF n = 0 THEN MetaFlip!Booted ELSE commit(g[n - 1], n)]
  BY DEF FileAfter
<1> HIDE DEF commit
<1> SUFFICES ASSUME NS # {} PROVE FALSE
  OBVIOUS
<1>1. PICK k \in NS : \A m \in NS : k <= m
  BY LeastOf
<1>2. k \in Nat /\ ~\E g : FileAfter(k, g)
  BY <1>1
<1>3. k # 0
  <2> SUFFICES ASSUME k = 0 PROVE FALSE
    OBVIOUS
  <2> DEFINE g == [n \in 0 .. 0 |-> MetaFlip!Booted]
  <2>1. g = [n \in 0 .. 0 |-> IF n = 0 THEN MetaFlip!Booted ELSE commit(g[n - 1], n)]
    OBVIOUS
  <2> HIDE DEF g
  <2> QED BY <1>0, <1>2, <2>1
<1>4. k - 1 \in Nat /\ \E g : FileAfter(k - 1, g)
  <2>1. k - 1 \in Nat /\ ~(k <= k - 1)
    BY <1>2, <1>3
  <2> QED BY <1>1, <2>1
<1>5. PICK g : FileAfter(k - 1, g)
  BY <1>4
<1>6. g = [n \in 0 .. k - 1 |-> IF n = 0 THEN MetaFlip!Booted ELSE commit(g[n - 1], n)]
  BY <1>0, <1>5
<1>7. \A n \in 0 .. k - 1 : g[n] = IF n = 0 THEN MetaFlip!Booted ELSE commit(g[n - 1], n)
  BY <1>2, <1>3, <1>6
<1> DEFINE e == [n \in 0 .. k |-> IF n = k THEN commit(g[k - 1], k) ELSE g[n]]
<1>8. ASSUME NEW n \in 0 .. k
      PROVE  e[n] = IF n = 0 THEN MetaFlip!Booted ELSE commit(e[n - 1], n)
  <2>1. CASE n = k
    <3>1. k - 1 \in 0 .. k /\ k - 1 # k /\ k \in 0 .. k
      BY <1>2, <1>3
    <3>2. e[k] = commit(g[k - 1], k) /\ e[k - 1] = g[k - 1]
      BY <3>1
    <3> QED BY <1>3, <2>1, <3>2
  <2>2. CASE n # k
    <3>1. n \in 0 .. k - 1 /\ e[n] = g[n]
      BY <1>2, <2>2
    <3>2. CASE n = 0
      BY <1>7, <3>1, <3>2
    <3>3. CASE n # 0
      <4>1. n - 1 \in 0 .. k /\ n - 1 # k
        BY <1>2, <2>2, <3>3
      <4>2. e[n - 1] = g[n - 1]
        BY <4>1
      <4> QED BY <1>7, <3>1, <3>3, <4>2
    <3> QED BY <3>2, <3>3
  <2> QED BY <2>1, <2>2
<1>9. e = [n \in 0 .. k |-> e[n]]
  OBVIOUS
<1> HIDE DEF e
<1>10. e = [n \in 0 .. k |-> IF n = 0 THEN MetaFlip!Booted ELSE commit(e[n - 1], n)]
  BY <1>8, <1>9
<1> QED BY <1>0, <1>2, <1>10

FlipShaped ==
  /\ MetaFlip!FlipTypeOK /\ reader \in [start : Nat, end : Nat]
  /\ phase > 0 => MetaFlip!txn < MAX_TXN

(* The trees that no later commit of the file has touched. *)
IsKept(s, n) ==
  \/ s = n
  \/ MetaFlip!readerPresent(reader, MetaFlip!txn + 1) /\ s = reader.start /\ s <= n
  \/ file.engine = "lmdb" /\ s = n - 1 /\ s >= 1

FileStands(run, n) == RunFits(run, n) /\ \A s \in 1 .. n : IsKept(s, n) => KeepsTree(run, n, s)

LEMMA CommitStands ==
  ASSUME FlipShaped, NEW n \in 1 .. Len(file.commits), NEW run, FileStands(run, n)
  PROVE  FileStands(MetaFlip!Applied(run, file.engine, file.commits[n], reader), n + 1)
<1> DEFINE leaves == file.commits[n]
           a == MetaFlip!Applied(run, file.engine, leaves, reader)
<1>1. /\ file.commits \in Seq(Changes) /\ Len(file.commits) \in Nat
      /\ reader.start \in Nat /\ reader.end \in Nat /\ MetaFlip!txn = Len(file.commits) + 1
  BY DEF FlipShaped, MetaFlip!FlipTypeOK, MetaFlip!txn
<1>2. leaves \in SUBSET MetaFlip!CowLeaf
  <2>1. leaves \in Changes
    BY <1>1, ElementOfSeq
  <2> QED BY <2>1, FlipShape
<1>3. RunFits(run, n) /\ \A s \in 1 .. n : IsKept(s, n) => KeepsTree(run, n, s)
  BY DEF FileStands
<1> HIDE DEF leaves, a
<1>4. RunFits(a, n + 1)
  BY <1>2, <1>3, AppliedFits DEF a
<1>5. ASSUME NEW s \in 1 .. n + 1, IsKept(s, n + 1) PROVE KeepsTree(a, n + 1, s)
  <2>1. CASE s = n + 1
    BY <1>4, <2>1, NewestKept
  <2>2. CASE s \in 1 .. n
    <3>1. n \in Nat /\ n + 1 - 1 = n /\ n < MetaFlip!txn
      BY <1>1
    <3>2. \/ MetaFlip!readerPresent(reader, MetaFlip!txn + 1) /\ s = reader.start
          \/ file.engine = "lmdb" /\ s = n
      BY <1>5, <2>2, <3>1 DEF IsKept
    <3>3. IsKept(s, n)
      BY <2>2, <3>2 DEF IsKept
    <3>4. Guarded(file.engine, reader, n, s)
      <4>1. CASE s = n
        BY <4>1 DEF Guarded
      <4>2. CASE s # n
        <5>1. MetaFlip!readerPresent(reader, MetaFlip!txn + 1) /\ s = reader.start
          BY <3>2, <4>2
        <5>2. reader.start >= 1 /\ reader.start < n + 1 /\ n + 1 <= reader.end
          BY <1>1, <2>2, <3>1, <5>1 DEF MetaFlip!readerPresent
        <5> QED BY <5>1, <5>2 DEF Guarded, MetaFlip!readerPresent
      <4> QED BY <4>1, <4>2
    <3> QED BY <1>1, <1>2, <1>3, <2>2, <3>3, <3>4, KeptThrough DEF a
  <2> QED BY <1>1, <2>1, <2>2
<1>6. FileStands(a, n + 1)
  BY <1>4, <1>5 DEF FileStands
<1> QED BY <1>6 DEF a, leaves

LEMMA RunStands ==
  ASSUME FlipShaped
  PROVE  FileStands(MetaFlip!Run, MetaFlip!txn)
<1> DEFINE k == Len(file.commits)
           g == CHOOSE f : FileAfter(k, f)
<1>0. k \in Nat /\ MetaFlip!txn = k + 1
  BY DEF FlipShaped, MetaFlip!FlipTypeOK, MetaFlip!txn
<1>1. FileAfter(k, g)
  BY <1>0, FileExists
<1>2. MetaFlip!Run = g[k]
  BY DEF MetaFlip!Run, FileAfter
<1> HIDE DEF g
<1>3. \A n \in 0 .. k : g[n] = IF n = 0 THEN MetaFlip!Booted
                               ELSE MetaFlip!Applied(g[n - 1], file.engine, file.commits[n], reader)
  BY <1>1 DEF FileAfter
<1> DEFINE NS == {n \in 0 .. k : ~FileStands(g[n], n + 1)}
<1>4. ASSUME NS # {} PROVE FALSE
  <2>1. NS \subseteq Nat
    BY <1>0
  <2>2. PICK n \in NS : \A m \in NS : n <= m
    BY <1>4, <2>1, LeastOf
  <2>3. n \in 0 .. k /\ ~FileStands(g[n], n + 1)
    BY <2>2
  <2>4. CASE n = 0
    <3>1. g[0] = MetaFlip!Booted
      BY <1>0, <1>3
    <3>2. KeepsTree(MetaFlip!Booted, 1, 1)
      BY BootedFits, NewestKept
    <3>3. \A s \in 1 .. 1 : s = 1
      OBVIOUS
    <3>4. FileStands(MetaFlip!Booted, 1)
      BY BootedFits, <3>2, <3>3 DEF FileStands
    <3> QED BY <2>3, <2>4, <3>1, <3>4
  <2>5. CASE n # 0
    <3>1. n - 1 \in 0 .. k /\ ~(n <= n - 1) /\ n \in 1 .. k /\ n - 1 + 1 = n
      BY <1>0, <2>3, <2>5
    <3>2. FileStands(g[n - 1], n)
      BY <2>2, <3>1
    <3>3. g[n] = MetaFlip!Applied(g[n - 1], file.engine, file.commits[n], reader)
      BY <1>3, <2>3, <2>5
    <3> HIDE DEF NS
    <3>4. FileStands(MetaFlip!Applied(g[n - 1], file.engine, file.commits[n], reader), n + 1)
      BY <3>1, <3>2, CommitStands DEF k
    <3> QED BY <2>3, <3>3, <3>4
  <2> QED BY <2>4, <2>5
<1>5. k \in 0 .. k
  BY <1>0
<1> HIDE DEF k
<1>6. FileStands(g[k], k + 1)
  BY <1>4, <1>5
<1> QED BY <1>0, <1>2, <1>6 DEF k

LEMMA FlightDisjoint ==
  ASSUME FlipShaped, NEW run, FileStands(run, MetaFlip!txn), NEW s \in 1 .. MetaFlip!txn,
         Guarded(file.engine, reader, MetaFlip!txn, s), KeepsTree(run, MetaFlip!txn, s)
  PROVE  MetaFlip!Intact(run, s)
<1>1. reader.start \in Nat /\ reader.end \in Nat /\ RunFits(run, MetaFlip!txn)
  BY DEF FlipShaped, FileStands
<1>2. file.pending \in SUBSET MetaFlip!CowLeaf
  BY FlipShape DEF FlipShaped, MetaFlip!FlipTypeOK
<1>3. MetaFlip!InFlight(run) \cap MetaFlip!Pages(run.snapshots[s]) = {}
  <2>1. CASE phase >= 2
    <3>1. MetaFlip!Planned(run, file.engine, file.pending, reader).new \cap MetaFlip!Pages(run.snapshots[s]) = {}
      BY <1>1, <1>2, NotReused
    <3> QED BY <2>1, <3>1 DEF MetaFlip!InFlight
  <2>2. CASE ~(phase >= 2)
    BY <2>2 DEF MetaFlip!InFlight
  <2> QED BY <2>1, <2>2
<1>4. \A p \in MetaFlip!Pages(run.snapshots[s]) : run.written[p] <= s
  BY DEF KeepsTree
<1> QED BY <1>3, <1>4 DEF MetaFlip!Intact

LEMMA FlipWhole ==
  ASSUME FlipShaped
  PROVE  MetaFlip!SnapshotsIntact
<1> DEFINE run == MetaFlip!Run
<1>0. FileStands(run, MetaFlip!txn)
  BY RunStands
<1> HIDE DEF run
<1>1. RunFits(run, MetaFlip!txn) /\ \A s \in 1 .. MetaFlip!txn : IsKept(s, MetaFlip!txn) => KeepsTree(run, MetaFlip!txn, s)
  BY <1>0 DEF FileStands
<1>2. MetaFlip!txn \in Nat /\ MetaFlip!txn >= 1 /\ reader.start \in Nat
  BY DEF MetaFlip!txn, FlipShaped, MetaFlip!FlipTypeOK
<1>3. ASSUME NEW s \in 1 .. MetaFlip!txn, IsKept(s, MetaFlip!txn) PROVE MetaFlip!Intact(run, s)
  <2>1. KeepsTree(run, MetaFlip!txn, s)
    BY <1>1, <1>3
  <2>2. Guarded(file.engine, reader, MetaFlip!txn, s)
    BY <1>3 DEF IsKept, Guarded
  <2> QED BY <1>0, <2>1, <2>2, FlightDisjoint
<1>4. MetaFlip!Intact(run, MetaFlip!txn)
  BY <1>2, <1>3 DEF IsKept
<1>5. MetaFlip!readerPresent(reader, MetaFlip!txn + 1) => MetaFlip!Intact(run, reader.start)
  <2> SUFFICES ASSUME MetaFlip!readerPresent(reader, MetaFlip!txn + 1) PROVE MetaFlip!Intact(run, reader.start)
    OBVIOUS
  <2>1. reader.start \in 1 .. MetaFlip!txn
    BY <1>2 DEF MetaFlip!readerPresent
  <2>2. IsKept(reader.start, MetaFlip!txn)
    BY <2>1 DEF IsKept
  <2> QED BY <1>3, <2>1, <2>2
<1>6. file.engine = "lmdb" /\ MetaFlip!txn >= 2 => MetaFlip!Intact(run, MetaFlip!txn - 1)
  <2> SUFFICES ASSUME file.engine = "lmdb", MetaFlip!txn >= 2 PROVE MetaFlip!Intact(run, MetaFlip!txn - 1)
    OBVIOUS
  <2>1. MetaFlip!txn - 1 \in 1 .. MetaFlip!txn /\ IsKept(MetaFlip!txn - 1, MetaFlip!txn)
    BY <1>2 DEF IsKept
  <2> QED BY <1>3, <2>1
<1> QED BY <1>4, <1>5, <1>6 DEF MetaFlip!SnapshotsIntact, run

LEMMA FlipAccounted ==
  ASSUME FlipShaped
  PROVE  MetaFlip!PagesAccounted
<1> DEFINE run == MetaFlip!Run
           free == {e.pgno : e \in run.free}
           live == MetaFlip!Pages(run.snapshots[MetaFlip!txn])
<1>1. RunFits(run, MetaFlip!txn)
  BY RunStands DEF FileStands
<1> HIDE DEF run
<1>2. /\ \A e, f \in run.free : e.pgno = f.pgno => e = f
      /\ free \cap live = {} /\ free \cup live = MetaFlip!META_PAGES .. run.fileEnd - 1
      /\ DOMAIN run.alloc = live /\ run.fileEnd \in Nat
  BY <1>1 DEF RunFits
<1>3. Cardinality(run.free) = Cardinality(free)
  <2> DEFINE h == [e \in run.free |-> e.pgno]
  <2>1. IsFiniteSet(free)
    <3>1. MetaFlip!META_PAGES \in Int /\ run.fileEnd - 1 \in Int
      BY <1>2 DEF MetaFlip!META_PAGES
    <3>2. free \in SUBSET (MetaFlip!META_PAGES .. run.fileEnd - 1)
      BY <1>2
    <3> HIDE DEF free
    <3> QED BY <3>1, <3>2, FS_Interval, FS_Subset
  <2>2. h \in [run.free -> free] /\ \A e, f \in run.free : h[e] = h[f] => e = f
    BY <1>2
  <2>3. \A p \in free : \E e \in run.free : h[e] = p
    OBVIOUS
  <2> HIDE DEF h, free
  <2>4. h \in Injection(run.free, free)
    BY <2>2 DEF Injection, IsInjective
  <2>5. h \in Surjection(run.free, free)
    BY <2>2, <2>3 DEF Surjection
  <2> QED BY <2>1, <2>4, <2>5, FS_Injection
<1> HIDE DEF live, free
<1>4. /\ Cardinality(run.free) = Cardinality(free) /\ free \cap live = {}
      /\ free \cup live = MetaFlip!META_PAGES .. run.fileEnd - 1 /\ DOMAIN run.alloc = live
  BY <1>2, <1>3
<1> QED BY <1>4, SameCount DEF MetaFlip!PagesAccounted, run, free, live


-------------------------------------------------------------------------------
LEMMA FlipStarts == MetaFlip!FlipInit => FlipShaped
<1> SUFFICES ASSUME MetaFlip!FlipInit PROVE FlipShaped
  OBVIOUS
<1>1. /\ file \in [engine : {"lmdb", "bbolt"}, commits : {<<>>}, pending : {{}}]
      /\ reader = [start |-> 0, end |-> 0] /\ phase = 0 /\ crashed = FALSE
  BY DEF MetaFlip!FlipInit
<1>2. file.engine \in {"lmdb", "bbolt"} /\ file.commits = <<>> /\ file.pending = {}
      /\ file = [engine |-> file.engine, commits |-> file.commits, pending |-> file.pending]
  BY <1>1
<1>3. file \in [engine : {"lmdb", "bbolt"}, commits : Seq(Changes), pending : Changes \cup {{}}]
  <2>1. <<>> \in Seq(Changes)
    OBVIOUS
  <2> QED BY <1>2, <2>1
<1>4. Len(file.commits) = 0 /\ MetaFlip!txn = 1
  BY <1>2 DEF MetaFlip!txn
<1>5. MetaFlip!Infinity \in Nat /\ 0 < MAX_TXN
  BY FlipShape DEF MetaFlip!Infinity
<1> QED BY <1>1, <1>2, <1>3, <1>4, <1>5 DEF FlipShaped, MetaFlip!FlipTypeOK

LEMMA FlipStepHolds == FlipShaped /\ [MetaFlip!FlipStep]_(MetaFlip!flipVars) => FlipShaped'
<1> SUFFICES ASSUME FlipShaped, [MetaFlip!FlipStep]_(MetaFlip!flipVars) PROVE FlipShaped'
  OBVIOUS
<1> DEFINE Files == [engine : {"lmdb", "bbolt"}, commits : Seq(Changes), pending : Changes \cup {{}}]
           n == Len(file.commits)
<1>0. /\ file \in Files /\ n \in Nat /\ n < MAX_TXN /\ MetaFlip!txn = n + 1
      /\ phase \in 0 .. 4 /\ (phase = 0) = (file.pending = {}) /\ (crashed => phase > 0)
      /\ reader.start \in 0 .. n + 1 /\ reader.end \in 0 .. MetaFlip!Infinity
      /\ reader \in [start : Nat, end : Nat] /\ (phase > 0 => n + 1 < MAX_TXN)
  BY DEF FlipShaped, MetaFlip!FlipTypeOK, MetaFlip!txn
<1>1. /\ MAX_TXN \in Nat /\ MetaFlip!Infinity = MAX_TXN + 1
      /\ \A leaves \in Changes : leaves # {}
  BY FlipShape DEF MetaFlip!Infinity
<1>2. /\ file.engine \in {"lmdb", "bbolt"} /\ file.commits \in Seq(Changes)
      /\ file.pending \in Changes \cup {{}}
  BY <1>0
<1>3. ASSUME file' \in Files, Len(file.commits)' \in {n, n + 1}, Len(file.commits)' < MAX_TXN,
             phase' \in 0 .. 4, (phase' = 0) = (file.pending' = {}), crashed' => phase' > 0,
             reader' \in [start : Nat, end : Nat], reader.start' \in 0 .. n + 1,
             reader.end' \in 0 .. MetaFlip!Infinity, phase' > 0 => Len(file.commits)' + 1 < MAX_TXN
      PROVE  FlipShaped'
  <2>1. reader.start' \in 0 .. Len(file.commits)' + 1
    BY <1>0, <1>3
  <2> QED BY <1>3, <2>1 DEF FlipShaped, MetaFlip!FlipTypeOK, MetaFlip!txn, MetaFlip!Infinity
<1>4. ASSUME UNCHANGED MetaFlip!flipVars PROVE FlipShaped'
  BY <1>0, <1>3, <1>4 DEF MetaFlip!flipVars
<1>5. ASSUME NEW leaves \in Changes, MetaFlip!CommitAll(leaves) PROVE FlipShaped'
  <2>1. /\ phase = 0 /\ n + 1 < MAX_TXN /\ phase' = 0 /\ crashed' = FALSE /\ reader' = reader
        /\ file' = [file EXCEPT !.commits = Append(file.commits, leaves)]
    BY <1>0, <1>5 DEF MetaFlip!CommitAll, MetaFlip!Idle
  <2>2. /\ Append(file.commits, leaves) \in Seq(Changes)
        /\ Len(Append(file.commits, leaves)) = n + 1
    BY <1>2, AppendProperties
  <2>3. file' \in Files /\ file.commits' = Append(file.commits, leaves) /\ file.pending' = file.pending
    BY <1>0, <2>1, <2>2
  <2> HIDE DEF Files
  <2> QED BY <1>0, <1>3, <2>1, <2>2, <2>3
<1>6. ASSUME NEW leaves \in Changes, MetaFlip!StepThrough(leaves) PROVE FlipShaped'
  <2>1. /\ phase' = 1 /\ crashed' = crashed /\ reader' = reader
        /\ file' = [file EXCEPT !.pending = leaves] /\ n + 1 < MAX_TXN
    BY <1>0, <1>6 DEF MetaFlip!StepThrough
  <2>2. file' \in Files /\ file.commits' = file.commits /\ file.pending' = leaves
    BY <1>0, <2>1
  <2> HIDE DEF Files
  <2>3. Len(file.commits)' = n /\ (phase' = 0) = (file.pending' = {})
    BY <1>1, <2>1, <2>2
  <2> QED BY <1>0, <1>3, <2>1, <2>2, <2>3
<1>7. ASSUME MetaFlip!NextPhase PROVE FlipShaped'
  <2>1. phase \in 1 .. 3 /\ phase' = phase + 1 /\ UNCHANGED <<file, reader, crashed>>
    BY <1>7 DEF MetaFlip!NextPhase
  <2>2. (phase' = 0) = (file.pending' = {}) /\ phase' \in 0 .. 4 /\ (crashed' => phase' > 0)
    BY <1>0, <2>1
  <2> HIDE DEF Files
  <2> QED BY <1>0, <1>3, <2>1, <2>2
<1>8. ASSUME MetaFlip!FinishCommit PROVE FlipShaped'
  <2>1. /\ phase' = 0 /\ crashed' = FALSE /\ reader' = reader
        /\ file' = [file EXCEPT !.commits = Append(file.commits, file.pending), !.pending = {}]
        /\ phase = 4
    BY <1>8 DEF MetaFlip!FinishCommit, MetaFlip!Idle
  <2>2. file.pending \in Changes
    BY <1>0, <1>2, <2>1
  <2>3. /\ Append(file.commits, file.pending) \in Seq(Changes)
        /\ Len(Append(file.commits, file.pending)) = n + 1
    BY <1>2, <2>2, AppendProperties
  <2>4. file' \in Files /\ file.commits' = Append(file.commits, file.pending) /\ file.pending' = {}
    BY <1>0, <2>1, <2>3
  <2> HIDE DEF Files
  <2> QED BY <1>0, <1>3, <2>1, <2>3, <2>4
<1>9. ASSUME MetaFlip!CrashNow PROVE FlipShaped'
  <2>1. phase > 0 /\ crashed' = TRUE /\ UNCHANGED <<file, reader, phase>>
    BY <1>9 DEF MetaFlip!CrashNow
  <2> HIDE DEF Files
  <2> QED BY <1>0, <1>3, <2>1
<1>10. ASSUME phase' = 0, crashed' = FALSE, file' \in Files, file.commits' = file.commits,
              file.pending' = {}, reader' \in [start : Nat, end : Nat],
              reader.start' \in 0 .. n + 1, reader.end' \in 0 .. MetaFlip!Infinity
       PROVE  FlipShaped'
  <2> HIDE DEF Files
  <2>1. Len(file.commits)' = n
    BY <1>10
  <2> QED BY <1>0, <1>3, <1>10, <2>1
<1>11. ASSUME MetaFlip!Continue PROVE FlipShaped'
  <2>1. /\ phase' = 0 /\ crashed' = FALSE /\ file' = [file EXCEPT !.pending = {}]
        /\ reader' = IF reader.start >= 1 THEN [reader EXCEPT !.end = n + 1] ELSE reader
    BY <1>0, <1>11 DEF MetaFlip!Continue, MetaFlip!Idle
  <2>2. file' \in Files /\ file.commits' = file.commits /\ file.pending' = {}
    BY <1>0, <2>1
  <2>3. n + 1 \in Nat /\ n + 1 \in 0 .. MetaFlip!Infinity
    BY <1>0, <1>1
  <2>4. /\ reader' \in [start : Nat, end : Nat] /\ reader.start' = reader.start
        /\ reader.end' \in {reader.end, n + 1}
    <3> HIDE DEF Files, n
    <3>1. CASE reader.start >= 1
      BY <1>0, <2>1, <2>3, <3>1
    <3>2. CASE ~(reader.start >= 1)
      BY <1>0, <2>1, <3>2
    <3> QED BY <3>1, <3>2
  <2> HIDE DEF Files, n
  <2> QED BY <1>0, <1>10, <2>1, <2>2, <2>3, <2>4
<1>12. ASSUME NEW t \in 0 .. MAX_TXN, MetaFlip!SetReader(t) PROVE FlipShaped'
  <2>1. /\ phase' = 0 /\ crashed' = FALSE /\ file' = [file EXCEPT !.pending = {}]
        /\ t \in 0 .. n + 1 /\ reader' = [start |-> t, end |-> MetaFlip!Infinity]
    BY <1>0, <1>12 DEF MetaFlip!SetReader, MetaFlip!Idle
  <2>2. file' \in Files /\ file.commits' = file.commits /\ file.pending' = {}
    BY <1>0, <2>1
  <2>3. /\ reader' \in [start : Nat, end : Nat] /\ reader.start' \in 0 .. n + 1
        /\ reader.end' \in 0 .. MetaFlip!Infinity
    BY <1>0, <1>1, <2>1
  <2> HIDE DEF Files
  <2> QED BY <1>10, <2>1, <2>2, <2>3
<1>13. ASSUME NEW engine \in {"lmdb", "bbolt"}, MetaFlip!SetEngine(engine) PROVE FlipShaped'
  <2>1. /\ phase' = 0 /\ crashed' = FALSE /\ reader' = reader
        /\ file' = [file EXCEPT !.engine = engine, !.pending = {}]
    BY <1>13 DEF MetaFlip!SetEngine, MetaFlip!Idle
  <2>2. file' \in Files /\ file.commits' = file.commits /\ file.pending' = {}
    BY <1>0, <2>1
  <2> HIDE DEF Files
  <2> QED BY <1>0, <1>10, <2>1, <2>2
<1> QED BY <1>4, <1>5, <1>6, <1>7, <1>8, <1>9, <1>11, <1>12, <1>13 DEF MetaFlip!FlipStep

-------------------------------------------------------------------------------
(* What holds in every state of the labs. *)
LabInv ==
  /\ lab \in {"reclamation", "bwtree", "copytree", "seqlock", "metaflip"}
  /\ RecInv
  /\ lab = "seqlock" => SeqInv
  /\ lab = "metaflip" => FlipShaped

LEMMA LabStarts == LabInit => LabInv
BY RecInit, SeqStarts, FlipStarts DEF LabInit, LabInv

LEMMA LabStepHolds == LabInv /\ [LabNext]_labVars => LabInv'
<1> SUFFICES ASSUME LabInv, [LabNext]_labVars PROVE LabInv'
  OBVIOUS
<1>1. lab' = lab
  BY DEF LabNext, labVars
<1>2. RecInv'
  <2>1. [Next]_vars
    BY DEF LabInv, LabNext, OthersKept, labVars
  <2> QED BY <2>1, RecNext DEF LabInv
<1>3. ASSUME lab = "seqlock" PROVE SeqInv'
  <2>1. [SeqLock!SeqStep]_(SeqLock!seqVars)
    BY <1>3 DEF LabNext, labVars, SeqLock!seqVars
  <2> QED BY <1>3, <2>1, SeqStepHolds DEF LabInv
<1>4. ASSUME lab = "metaflip" PROVE FlipShaped'
  <2>1. [MetaFlip!FlipStep]_(MetaFlip!flipVars)
    BY <1>4 DEF LabNext, labVars, MetaFlip!flipVars
  <2> QED BY <1>4, <2>1, FlipStepHolds DEF LabInv
<1> QED BY <1>1, <1>2, <1>3, <1>4 DEF LabInv

LEMMA LabHolds == LabSpec => []LabInv
BY LabStarts, LabStepHolds, PTL DEF LabSpec

(* SeqlockFenceLab: with the fences the machine needs, a record the reader *)
(* accepts is the whole record of the sequence number it began with.       *)
THEOREM AcceptedIsWholeRecord ==
  LabSpec => [](lab = "seqlock" => SeqLock!SeqTypeOK /\ SeqLock!AcceptedIsWhole)
<1>1. LabInv => (lab = "seqlock" => SeqLock!SeqTypeOK /\ SeqLock!AcceptedIsWhole)
  BY SeqWhole DEF LabInv, SeqInv
<1> QED BY <1>1, LabHolds, PTL

(* BepsilonCowTreeLab: wherever a commit is cut off, no page of the newest *)
(* tree, of the open reader's or, with LMDB, of the other meta page's was  *)
(* written since; and each page is in the newest tree or free, once.       *)
THEOREM SnapshotsStayIntact ==
  LabSpec => [](lab = "metaflip" =>
                  MetaFlip!FlipTypeOK /\ MetaFlip!SnapshotsIntact /\ MetaFlip!PagesAccounted)
<1>1. LabInv => (lab = "metaflip" =>
                   MetaFlip!FlipTypeOK /\ MetaFlip!SnapshotsIntact /\ MetaFlip!PagesAccounted)
  BY FlipWhole, FlipAccounted DEF LabInv, FlipShaped
<1> QED BY <1>1, LabHolds, PTL

(* The list is walked safely, and bounded, whichever lab is in use. *)
THEOREM ListStaysSafe == LabSpec => [](TypeOK /\ ReadersSafe /\ HpBounded)
<1>1. RecInv => TypeOK /\ HpBounded
  BY DEF RecInv, Published, HpBounded
<1> QED BY <1>1, WalksAreSafe, LabHolds, PTL DEF LabInv
===============================================================================
