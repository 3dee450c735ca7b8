------------------------------- MODULE HashIndex ------------------------------
(***************************************************************************)
(* The lab of ExtendibleLinearHashLab.tsx: buckets of keys that split as   *)
(* they fill.  Extendible hashing finds a bucket through a directory of    *)
(* 2^G entries by the leading bits of the hash; linear hashing computes it *)
(* from the trailing bits and a pointer that splits the buckets in turn.   *)
(* The page shows what a replay of the inserted keys builds, and replays   *)
(* them anew whenever a control moves.                                     *)
(*                                                                         *)
(* A key stands for its hash: hash32 is one to one.  The schemes keep keys *)
(* and controls of their own, so a behaviour is one of a single scheme.    *)
(***************************************************************************)
EXTENDS Integers, Sequences, SequencesExt, FiniteSets, FiniteSetsExt

CONSTANTS
  HashKey,             \* the hashes of the keys
  DUPLICATE_KEY,       \* the one that is inserted over and over
  SKEW_BITS,           \* bits that skewed hashes have in common
  Bits,                \* of a hash
  MAX_GLOBAL_DEPTH,
  MAX_KEYS,
  DEFAULT_KEYS,        \* keys after a reset
  Many,                \* keys of one press of "Insert 10 keys"
  MAX_LINEAR_BUCKETS,
  Capacity, Initial, Percent   \* the values of the sliders

HashAssumption ==
  /\ HashKey \subseteq 0 .. 2 ^ Bits - 1 /\ DUPLICATE_KEY \in HashKey
  /\ MAX_GLOBAL_DEPTH \in 1 .. Bits /\ SKEW_BITS \in 0 .. Bits
  /\ DEFAULT_KEYS \in 0 .. MAX_KEYS /\ Many \in Nat
  /\ Capacity \subseteq Nat \ {0, 1} /\ Initial \subseteq {1, 2, 4}
  /\ Percent \subseteq 50 .. 100

VARIABLES keys, pattern, control

hashVars == <<keys, pattern, control>>

leadingBits(h, n) == h \div 2 ^ (Bits - n)
Bit(v, width, d)  == (v \div 2 ^ (width - 1 - d)) % 2    \* d = 0: the first

-------------------------------------------------------------------------------
(* extendibleReplay() *)
ExtEmpty == [G |-> 0, dir |-> [j \in {0} |-> 1],
             buckets |-> <<[depth |-> 0, keys |-> <<>>]>>]

ExtBucket(t, h) == t.dir[leadingBits(h, t.G)]

(* A bucket that has a directory entry of its own doubles the directory.   *)
Doubled(t, d) ==
  IF d = t.G
    THEN [t EXCEPT !.G = @ + 1, !.dir = [j \in 0 .. 2 ^ (t.G + 1) - 1 |-> t.dir[j \div 2]]]
    ELSE t

(* The bucket splits on its next bit, the directory follows. *)
ExtSplit(t, b) ==
  LET d   == t.buckets[b].depth
      s   == Doubled(t, d)
      sib == Len(t.buckets) + 1
      Half(bit) == [depth |-> d + 1,
                    keys  |-> SelectSeq(t.buckets[b].keys,
                                        LAMBDA k : Bit(k, Bits, d) = bit)]
  IN  [s EXCEPT !.dir = [j \in DOMAIN s.dir |->
                           IF s.dir[j] = b /\ Bit(j, s.G, d) = 1 THEN sib ELSE s.dir[j]],
                !.buckets = Append([@ EXCEPT ![b] = Half(0)], Half(1))]

(* The key goes to its bucket once that has room or may not split further. *)
ExtInsert(t, h, cap) ==
  LET made[n \in 0 .. MAX_GLOBAL_DEPTH] ==
        IF n = 0 THEN t
        ELSE LET s == made[n - 1]
                 b == ExtBucket(s, h)
             IN  IF Len(s.buckets[b].keys) < cap \/ s.buckets[b].depth >= MAX_GLOBAL_DEPTH
                   THEN s ELSE ExtSplit(s, b)
      last == made[MAX_GLOBAL_DEPTH]
  IN  [last EXCEPT !.buckets[ExtBucket(last, h)].keys = Append(@, h)]

-------------------------------------------------------------------------------
(* linearReplay() *)
LinEmpty(N) == [level |-> 0, next |-> 0, buckets |-> [b \in 0 .. N - 1 |-> <<>>]]

Low(t, N) == N * 2 ^ t.level

(* linearAddress(): the buckets before the pointer have already been split *)
(* this round.                                                             *)
linearAddress(t, h, N) ==
  IF h % Low(t, N) < t.next THEN h % (2 * Low(t, N)) ELSE h % Low(t, N)

(* postgresHashkey2bucket(): the masks keep the bits below 2 Low and Low.  *)
postgresHashkey2bucket(t, h, N) ==
  LET bucket == h % (2 * Low(t, N)) IN
  IF bucket > Cardinality(DOMAIN t.buckets) - 1 THEN bucket % Low(t, N) ELSE bucket

LinSplit(t, N) ==
  LET lo   == Low(t, N)
      to   == t.next + lo
      Half(b) == SelectSeq(t.buckets[t.next], LAMBDA k : k % (2 * lo) = b)
      Rest == SelectSeq(t.buckets[t.next], LAMBDA k : k % (2 * lo) # t.next)
  IN  [level   |-> IF t.next + 1 = lo THEN t.level + 1 ELSE t.level,
       next    |-> IF t.next + 1 = lo THEN 0 ELSE t.next + 1,
       buckets |-> [b \in DOMAIN t.buckets \cup {to} |->
                      CASE b = t.next -> Half(t.next)
                        [] b = to     -> Rest
                        [] OTHER      -> t.buckets[b]]]

Held(t) == FoldSet(LAMBDA b, n : n + Len(t.buckets[b]), 0, DOMAIN t.buckets)

LinInsert(t, h, c) ==
  LET a    == linearAddress(t, h, c.N)
      put  == [t EXCEPT !.buckets[a] = Append(@, h)]
      M    == Cardinality(DOMAIN t.buckets)
      want == CASE c.trigger = "overflow" -> Len(t.buckets[a]) >= c.cap
                [] c.trigger = "load"     -> Held(put) * 100 > c.pct * c.cap * M
                [] c.trigger = "never"    -> FALSE
  IN  IF want /\ M < MAX_LINEAR_BUCKETS THEN LinSplit(put, c.N) ELSE put

Replay(ks, c) ==
  IF c.scheme = "extendible"
    THEN FoldLeft(LAMBDA t, h : ExtInsert(t, h, c.cap), ExtEmpty, ks)
    ELSE FoldLeft(LAMBDA t, h : LinInsert(t, h, c), LinEmpty(c.N), ks)

-------------------------------------------------------------------------------
(* nextPatternKey(): one key again and again, or the keys nobody has used  *)
(* in a fixed order, here that of their hashes: all of them, or those that *)
(* have the bits in common the scheme looks at first.                      *)
Pattern == {"random", "skewed", "duplicate"}

isSkewed(h) == IF control.scheme = "extendible" THEN leadingBits(h, SKEW_BITS) = 0
               ELSE h % 2 ^ SKEW_BITS = 0

Unused(p, used) ==
  SetToSortSeq({h \in HashKey \ used : p = "skewed" => isSkewed(h)}, <)

PatternKeys(p, used, n) ==
  IF p = "duplicate" THEN [i \in 1 .. n |-> DUPLICATE_KEY]
  ELSE SubSeq(Unused(p, used), 1, Min({n, Len(Unused(p, used))}))

HashInit ==
  /\ pattern = "random"
  /\ control \in [scheme : {"extendible", "linear"}, cap : {Min(Capacity)},
                  N : {Min(Initial)}, trigger : {"load"}, pct : {Min(Percent)}]
  /\ keys = PatternKeys("random", {}, DEFAULT_KEYS)

(* insertNext(): as many as there is room for. *)
InsertNext ==
  /\ Len(keys) < MAX_KEYS
  /\ \E n \in {1, Many} :
       keys' = keys \o PatternKeys(pattern, ToSet(keys), Min({n, MAX_KEYS - Len(keys)}))
  /\ UNCHANGED <<pattern, control>>

(* insertInto(): a key nobody has used that goes to the bucket clicked on. *)
InsertInto ==
  /\ Len(keys) < MAX_KEYS
  /\ \E h \in HashKey \ ToSet(keys) : keys' = Append(keys, h)
  /\ UNCHANGED <<pattern, control>>

Undo ==
  /\ keys # <<>>
  /\ keys' = Front(keys)
  /\ UNCHANGED <<pattern, control>>

choosePattern ==
  /\ pattern' \in Pattern
  /\ keys' = PatternKeys(pattern', {}, Len(keys))
  /\ UNCHANGED control

ResetKeys ==
  /\ keys' = PatternKeys(pattern, {}, DEFAULT_KEYS)
  /\ UNCHANGED <<pattern, control>>

(* The capacity, and of linear hashing the first buckets, the trigger and, *)
(* while it is used, the threshold.                                        *)
SetControl ==
  /\ \/ \E cap \in Capacity : control' = [control EXCEPT !.cap = cap]
     \/ /\ control.scheme = "linear"
        /\ \/ \E N \in Initial : control' = [control EXCEPT !.N = N]
           \/ \E w \in {"never", "overflow", "load"} :
                control' = [control EXCEPT !.trigger = w]
           \/ /\ control.trigger = "load"
              /\ \E pct \in Percent : control' = [control EXCEPT !.pct = pct]
  /\ UNCHANGED <<keys, pattern>>

HashStep ==
  InsertNext \/ InsertInto \/ Undo \/ choosePattern \/ ResetKeys \/ SetControl

-------------------------------------------------------------------------------
HashTypeOK ==
  /\ keys \in Seq(HashKey) /\ Len(keys) <= MAX_KEYS /\ pattern \in Pattern
  /\ control.cap \in Capacity /\ control.N \in Initial /\ control.pct \in Percent
  /\ control.trigger \in {"never", "overflow", "load"}

(* The directory points at a bucket of depth d from the 2^(G-d) entries    *)
(* that agree on its first d bits and from no others, G is the depth of    *)
(* the deepest, and a page overflows only at the greatest depth there is.  *)
ExtSound(t) ==
  /\ t.G = Max({t.buckets[b].depth : b \in DOMAIN t.buckets})
  /\ \A b \in DOMAIN t.buckets :
       LET d       == t.buckets[b].depth
           mine    == {j \in DOMAIN t.dir : t.dir[j] = b}
           Span(j) == j \div 2 ^ (t.G - d)
       IN  /\ mine # {}
           /\ mine = {j \in DOMAIN t.dir : Span(j) = Span(Min(mine))}
           /\ Len(t.buckets[b].keys) > control.cap => d = MAX_GLOBAL_DEPTH

(* There are N 2^level + next buckets, PostgreSQL's masks find the same    *)
(* one, and one split per insertion keeps the load below its threshold.    *)
LinSound(t) ==
  LET M == Cardinality(DOMAIN t.buckets) IN
  /\ t.next < Low(t, control.N)
  /\ DOMAIN t.buckets = 0 .. M - 1
  /\ M = Low(t, control.N) + t.next
  /\ \A h \in HashKey :
       linearAddress(t, h, control.N) = postgresHashkey2bucket(t, h, control.N)
  /\ control.trigger = "load" => Len(keys) * 100 <= control.pct * control.cap * M

(* Every bucket holds exactly the keys that are looked for in it (what the *)
(* page calls invariantOk), each as often as it was inserted, however the  *)
(* buckets have split; and the splits keep their promises.                 *)
Copies(h, ks) == Cardinality({i \in DOMAIN ks : ks[i] = h})

FindsAll(Address(_), buckets) ==
  \A b \in DOMAIN buckets : \A h \in HashKey :
     Copies(h, buckets[b]) = IF Address(h) = b THEN Copies(h, keys) ELSE 0

HashSound ==
  LET t == Replay(keys, control)
      ext(h) == ExtBucket(t, h)
      lin(h) == linearAddress(t, h, control.N)
  IN  IF control.scheme = "extendible"
        THEN ExtSound(t) /\ FindsAll(ext, [b \in DOMAIN t.buckets |-> t.buckets[b].keys])
        ELSE LinSound(t) /\ FindsAll(lin, t.buckets)
===============================================================================
