-------------------------------- MODULE BwTree --------------------------------
(***************************************************************************)
(* The lab of BwTreeMappingTableLab.tsx: a Bw-tree of a root and leaves.   *)
(* Page ids are translated by a mapping table; a page is a base under a    *)
(* chain of deltas and is only ever changed by one compare-and-swap of its *)
(* slot.  Thread A does what the user presses, thread B writes records     *)
(* while A is at work.  A thread loads a slot, prepares a new state of the *)
(* page in private, and swaps it in if the slot has not changed meanwhile. *)
(*                                                                         *)
(* Addresses are never used again, so a slot that was changed and changed  *)
(* back is told apart from one that was not: what a thread has prepared    *)
(* goes stale when the slot changes, whatever it then holds.               *)
(***************************************************************************)
EXTENDS Integers, Sequences, SequencesExt, FiniteSets

CONSTANTS
  BwKey,        \* the keys that are written
  MaxVal,       \* bound on how often a value is updated
  MAX_LEAVES,
  T,            \* chain length at which a page is consolidated
  MaxChain      \* bound on the chain a racing write may extend

BwTreeAssumption ==
  /\ BwKey \subseteq 1 .. 99 /\ MaxVal \in Nat /\ MAX_LEAVES \in Nat \ {0, 1}
  /\ T \in Nat \ {0, 1} /\ MaxChain \in Nat

VARIABLES slot, goals, held

bwVars == <<slot, goals, held>>

Actor    == {"A", "B"}
Other(a) == IF a = "A" THEN "B" ELSE "A"

ROOT    == 1
Leaf    == 2 .. MAX_LEAVES + 1
Pid     == {ROOT} \cup Leaf
Nowhere == 0
Inf     == 100     \* above KEY_MAX
BwKeys  == BwKey \cup {10, 20, 25, 30, 40, 50, 60, 70, 80, 90}

Record(kind, k, v)   == [kind |-> kind, key |-> k, val |-> v]
SplitDelta(sep, q)   == [kind |-> "split", sep |-> sep, right |-> q]
IndexDelta(lo, hi, q) == [kind |-> "index", lo |-> lo, hi |-> hi, pid |-> q]

Valued(ks) == [k \in BwKeys |-> IF k \in ks THEN 1 ELSE 0]   \* 0: not there

Free    == [chain |-> <<>>, base |-> <<>>]
Nothing == [kind |-> "nothing", pid |-> Nowhere, new |-> Free, fresh |-> FALSE,
            q |-> Nowhere]

(* initialState() *)
initialSlots ==
  [p \in Pid |->
     CASE p = 1 -> [chain |-> <<>>,
                    base  |-> <<[high |-> 49, pid |-> 2], [high |-> Inf, pid |-> 3]>>]
       [] p = 2 -> [chain |-> <<Record("delete", 30, 0), Record("modify", 10, 2),
                                Record("insert", 25, 1)>>,
                    base  |-> [entries |-> Valued({10, 20, 30, 40}),
                               high |-> 49, right |-> 3]]
       [] p = 3 -> [chain |-> <<>>,
                    base  |-> [entries |-> Valued({50, 60, 70, 80, 90}),
                               high |-> Inf, right |-> Nowhere]]
       [] OTHER -> Free]

BwInit ==
  /\ slot  = initialSlots
  /\ goals = [a \in Actor |-> <<>>]
  /\ held  = [a \in Actor |-> Nothing]

-------------------------------------------------------------------------------
Leaves == {p \in Leaf : slot[p] # Free}
nextPid == Cardinality(Leaves) + 2
chainLength(p) == Len(slot[p].chain)

(* leafView(): the deltas applied to the base, oldest first. *)
Applied(d, v) ==
  CASE d.kind \in {"insert", "modify"} -> [v EXCEPT !.entries[d.key] = d.val]
    [] d.kind = "delete"               -> [v EXCEPT !.entries[d.key] = 0]
    [] d.kind = "split"                ->
         [entries |-> [k \in BwKeys |-> IF k > d.sep THEN 0 ELSE v.entries[k]],
          high |-> d.sep, right |-> d.right, split |-> d.right]

leafView(p) ==
  LET b == slot[p].base IN
  FoldRight(Applied, slot[p].chain,
            [entries |-> b.entries, high |-> b.high, right |-> b.right,
             split |-> Nowhere])

KeysIn(v) == {k \in BwKeys : v.entries[k] # 0}

(* innerView(): an index delta cuts the range that ends where it does. *)
Cut(d, seps) ==
  LET at == SelectInSeq(seps, LAMBDA e : e.high = d.hi) IN
  IF at = 0 THEN seps
  ELSE SubSeq(seps, 1, at - 1)
         \o <<[high |-> d.lo, pid |-> seps[at].pid], [high |-> d.hi, pid |-> d.pid]>>
         \o SubSeq(seps, at + 1, Len(seps))

innerView == FoldRight(Cut, slot[ROOT].chain, slot[ROOT].base)
Routed    == {innerView[i].pid : i \in DOMAIN innerView}

(* pendingSplits(): the pages whose split is not in the root. *)
Pending == {p \in Leaves : LET s == leafView(p).split IN
                             s # Nowhere /\ s \notin Routed}

-------------------------------------------------------------------------------
(* lookup(): through the root, newest delta first, then from leaf to leaf  *)
(* along the side links.                                                   *)
FromRoot(k) ==
  LET c == slot[ROOT].chain
      i == SelectInSeq(c, LAMBDA d : k > d.lo /\ k <= d.hi)
      s == slot[ROOT].base
  IN  IF i # 0 THEN c[i].pid ELSE s[SelectInSeq(s, LAMBDA e : k <= e.high)].pid

Concerns(d, k) == IF d.kind = "split" THEN k > d.sep ELSE d.key = k

lookup(k) ==
  LET walk[p \in Leaf] ==
        LET c == slot[p].chain
            b == slot[p].base
            i == SelectInSeq(c, LAMBDA d : Concerns(d, k))
            Aside(q) == [walk[q] EXCEPT !.sides = <<p>> \o @]
        IN  IF i # 0 /\ c[i].kind = "split" THEN Aside(c[i].right)
            ELSE IF i # 0 THEN [leaf |-> p, val |-> c[i].val, sides |-> <<>>]
            ELSE IF k > b.high /\ b.right # Nowhere THEN Aside(b.right)
            ELSE [leaf |-> p, val |-> b.entries[k], sides |-> <<>>]
  IN  walk[FromRoot(k)]

-------------------------------------------------------------------------------
(* What a thread has set out to do; the last of its goals comes first.     *)
Write(kind, k) == [what |-> "write", kind |-> kind, key |-> k]
Consolidate(p) == [what |-> "consolidate", pid |-> p]
Split(k)       == [what |-> "split", key |-> k]
PostIndex(p)   == [what |-> "post", pid |-> p]

Smallest(s) == CHOOSE p \in s : \A q \in s : p <= q

(* helpAlong(): the unfinished split the goal has to complete first: the   *)
(* last one the way to its key crosses, or one that involves its page.     *)
Crossed(k)   == SelectSeq(lookup(k).sides, LAMBDA p : p \in Pending)
Involving(p) == {x \in Pending : x = p \/ leafView(x).split = p}

HelpFirst(g) ==
  LET onTheWay == IF g.what \in {"write", "split"} THEN Crossed(g.key) ELSE <<>>
      page     == CASE g.what = "split"       -> lookup(g.key).leaf
                    [] g.what = "consolidate" -> g.pid
                    [] OTHER                  -> Nowhere
  IN  IF onTheWay # <<>> THEN Last(onTheWay)
      ELSE IF page # Nowhere /\ Involving(page) # {} THEN Smallest(Involving(page))
      ELSE Nowhere

(* What a thread prepares for a page: the delta in front of the chain it   *)
(* has loaded, or a new base.                                              *)
Holding(kind, p, new) ==
  [kind |-> kind, pid |-> p, new |-> new, fresh |-> TRUE, q |-> Nowhere]
InFront(d, p) == [slot[p] EXCEPT !.chain = <<d>> \o @]

IndexEntry(p) ==
  LET v  == leafView(p)
      at == SelectInSeq(innerView, LAMBDA e : e.pid = p)
      hi == IF at = 0 THEN Inf ELSE innerView[at].high
  IN  Holding("post", ROOT, InFront(IndexDelta(v.high, hi, v.split), ROOT))

Rebased(p) ==
  Holding("consolidate", p,
    [chain |-> <<>>,
     base  |-> IF p = ROOT THEN innerView
               ELSE LET v == leafView(p) IN
                    [entries |-> v.entries, high |-> v.high, right |-> v.right]])

(* buildRecord() *)
NewVal(kind, k) ==
  CASE kind = "insert" -> 1
    [] kind = "modify" -> lookup(k).val + 1
    [] kind = "delete" -> 0

RecordFor(g) ==
  LET p == lookup(g.key).leaf IN
  Holding("write", p, InFront(Record(g.kind, g.key, NewVal(g.kind, g.key)), p))

(* The middle key, the lower one of two, and the new page above it. *)
Middle(ks) ==
  CHOOSE k \in ks : Cardinality({j \in ks : j < k}) = (Cardinality(ks) - 1) \div 2

Upper(v, sep) ==
  [chain |-> <<>>,
   base  |-> [entries |-> [k \in BwKeys |-> IF k > sep THEN v.entries[k] ELSE 0],
              high |-> v.high, right |-> v.right]]

CanSplit(p) ==
  Cardinality(KeysIn(leafView(p))) >= 2 /\ Cardinality(Leaves) < MAX_LEAVES

(* The next thing to prepare for the first goal of gs, after what it has   *)
(* to help with; a goal with nothing left to do is dropped.                *)
Prepare(a, gs) ==
  LET g    == Head(gs)
      help == HelpFirst(g)
      Hold(h) == held' = [held EXCEPT ![a] = h] /\ goals' = [goals EXCEPT ![a] = gs]
      Drop    == goals' = [goals EXCEPT ![a] = Tail(gs)] /\ UNCHANGED <<slot, held>>
  IN  IF help # Nowhere THEN Hold(IndexEntry(help)) /\ UNCHANGED slot
      ELSE CASE g.what = "write" -> Hold(RecordFor(g)) /\ UNCHANGED slot
             [] g.what = "post" ->
                  IF g.pid \in Pending
                    THEN Hold(IndexEntry(g.pid)) /\ UNCHANGED slot ELSE Drop
             [] g.what = "consolidate" ->
                  IF chainLength(g.pid) > 0
                    THEN Hold(Rebased(g.pid)) /\ UNCHANGED slot ELSE Drop
             [] g.what = "split" ->
                  LET p   == lookup(g.key).leaf
                      v   == leafView(p)
                      sep == Middle(KeysIn(v))
                  IN  IF ~CanSplit(p) THEN Drop
                      ELSE /\ slot' = [slot EXCEPT ![nextPid] = Upper(v, sep)]
                           /\ Hold([Holding("split", p, InFront(SplitDelta(sep, nextPid), p))
                                      EXCEPT !.q = nextPid])

Idle(a) == goals[a] = <<>>

(* actWrite(), actConsolidate(), actSplit(), actPostIndex() *)
Writable(kind, k) ==
  LET v == lookup(k).val IN
  CASE kind = "insert" -> v = 0
    [] kind = "modify" -> v # 0 /\ v < MaxVal
    [] kind = "delete" -> v # 0

Begin(g) == Idle("A") /\ Idle("B") /\ Prepare("A", <<g>>)

BeginWrite ==
  \E kind \in {"insert", "modify", "delete"}, k \in BwKey :
     Writable(kind, k) /\ Begin(Write(kind, k))
BeginConsolidate == \E k \in BwKey : Begin(Consolidate(lookup(k).leaf))
BeginSplit == \E k \in BwKey : Begin(Split(k))
BeginPost  == Pending # {} /\ Begin(PostIndex(Smallest(Pending)))

(* B sets out to write another key while A is at work: pickB() inserts it  *)
(* if it is not there and updates it if it is.                             *)
Race ==
  /\ Idle("B") /\ held["A"].fresh
  /\ \E kind \in {"insert", "modify"}, k \in BwKey :
       /\ Writable(kind, k)
       /\ \A i \in DOMAIN goals["A"] :
             goals["A"][i].what = "write" => goals["A"][i].key # k
       /\ chainLength(lookup(k).leaf) < MaxChain
       /\ Prepare("B", <<Write(kind, k)>>)

Go(a) == ~Idle(a) /\ held[a] = Nothing /\ Prepare(a, goals[a])

-------------------------------------------------------------------------------
(* maybeConsolidate(), except after B's record has beaten what A prepared  *)
(* for the page itself.                                                    *)
Beaten(a, p) ==
  /\ held[Other(a)].pid = p
  /\ held[Other(a)].kind \in {"consolidate", "split"}

ThenConsolidate(a, rest) ==
  LET p == held[a].pid IN
  IF Len(held[a].new.chain) >= T /\ ~Beaten(a, p)
    THEN <<Consolidate(p)>> \o rest ELSE rest

(* The goals after a success: a helper still has its own goal before it. *)
Helped(a) == held[a].kind # Head(goals[a]).what
AfterSwap(a) ==
  LET rest == IF Helped(a) THEN goals[a] ELSE Tail(goals[a]) IN
  IF held[a].kind \in {"write", "post"} THEN ThenConsolidate(a, rest) ELSE rest

(* A bug: the slot is not compared. *)
StaleNever(h, p) == h

Stale(h, p) == IF h.pid = p THEN [h EXCEPT !.fresh = FALSE, !.new = Free] ELSE h

(* The compare-and-swap succeeds: everybody else's is going to fail. *)
Swap(a) ==
  /\ held[a].fresh
  /\ slot'  = [slot EXCEPT ![held[a].pid] = held[a].new]
  /\ held'  = [held EXCEPT ![a] = Nothing,
                           ![Other(a)] = Stale(@, held[a].pid)]
  /\ goals' = [goals EXCEPT ![a] = AfterSwap(a)]

(* It fails: what was prepared is discarded, with the new page of a split. *)
(* Writes and index entries start again, a consolidation and a split do    *)
(* not.                                                                    *)
Retried(a) == Helped(a) \/ held[a].kind \in {"write", "post"}
Fail(a) ==
  /\ held[a] # Nothing /\ ~held[a].fresh
  /\ slot'  = IF held[a].q # Nowhere THEN [slot EXCEPT ![held[a].q] = Free] ELSE slot
  /\ held'  = [held EXCEPT ![a] = Nothing]
  /\ goals' = [goals EXCEPT ![a] = IF Retried(a) THEN @ ELSE Tail(@)]

BwThread(a) == Go(a) \/ Swap(a) \/ Fail(a)
BwStep ==
  \/ BeginWrite \/ BeginConsolidate \/ BeginSplit \/ BeginPost \/ Race
  \/ \E a \in Actor : BwThread(a)

-------------------------------------------------------------------------------
Goal ==
  [what : {"write"}, kind : {"insert", "modify", "delete"}, key : BwKey]
    \cup [what : {"consolidate", "post"}, pid : Pid]
    \cup [what : {"split"}, key : BwKey]

BwTypeOK ==
  /\ DOMAIN slot = Pid /\ slot[ROOT] # Free
  /\ Leaves = 2 .. nextPid - 1
  /\ goals \in [Actor -> Seq(Goal)]
  /\ \A a \in Actor :
       /\ held[a].kind \in {"write", "consolidate", "split", "post", "nothing"}
       /\ held[a].pid \in Pid \cup {Nowhere} /\ held[a].fresh \in BOOLEAN
       /\ held[a].q \in Leaf \cup {Nowhere}
       /\ held[a] # Nothing => goals[a] # <<>>

(* The page A has allocated for a split nobody knows of yet. *)
Private == {held[a].q : a \in Actor}

(* No page is orphaned and no key lost in between: every leaf is routed to *)
(* by the root or is the right half of a split that is still pending, and  *)
(* a leaf holds no key above its high key.                                 *)
NothingOrphaned ==
  /\ Leaves \ Private \subseteq Routed \cup {leafView(p).split : p \in Pending}
  /\ \A p \in Leaves : \A k \in KeysIn(leafView(p)) : k <= leafView(p).high

Contents == [k \in BwKeys |-> lookup(k).val]
Map == INSTANCE KeyMap WITH Key <- BwKeys, Value <- 0 .. MaxVal, map <- Contents

(* The swap that installs a record changes what is found under its key.    *)
(* No other step changes anything that is found: no consolidation, split,  *)
(* index entry, help, failure or retry.                                    *)
Writing(a, k) == held[a].kind = "write" /\ Head(goals[a]).key = k
BwActsAsMap ==
  \/ \E a \in Actor, k \in BwKey :
       /\ Writing(a, k) /\ Swap(a)
       /\ Map!Set(k, NewVal(Head(goals[a]).kind, k))
  \/ Map!Keep /\ \A a \in Actor : held[a].kind = "write" => ~Swap(a)
===============================================================================
