----------------------------- MODULE LatchedTree ------------------------------
(***************************************************************************)
(* The B+tree and the latches under the four latch protocols of            *)
(* BLinkLatchProtocolLab.tsx.  An inserter "I" and a reader "R" descend    *)
(* one three-level tree; a page split moves keys to a new page on its      *)
(* right.  The protocols, one module each, extend this one: LatchCrabbing, *)
(* InnodbIndexLock, OptimisticCoupling and BlinkTree; LatchProtocols puts  *)
(* them together as the lab does.                                          *)
(*                                                                         *)
(* A separator is an inclusive upper bound; a missing high key (null in    *)
(* the code) is Inf.  A thread that finds a latch taken changes nothing    *)
(* but counters and log lines, which are left out with the buffer fixes,   *)
(* so waiting is not an action.                                            *)
(***************************************************************************)
EXTENDS Integers, Sequences, FiniteSets, SequencesExt

CONSTANTS
  InsertKeys,   \* the keys the inserter may be told to add (12 and 27)
  ParentFull    \* the settings of "Parent P is full too"

VARIABLES
  key,     \* the key each thread is after
  tree,    \* the pages
  mode,    \* the latch each thread holds on each page and on index->lock
  pc,      \* where each thread's program stands
  at,      \* the page it works on
  found    \* what the reader returned

treeVars == <<key, tree, mode, pc, at, found>>

Tid == {"I", "R"}
Other(t) == CHOOSE u \in Tid : u # t

ReadKey == 30
Cap     == 3
Inf     == 1000
None    == "none"
Root    == "R"
Index   == "index"

NewId  == [L2 |-> "L2n", P |-> "Pn"]   \* a split page's new right sibling
PageId == {"R", "P", "Pn", "Q", "L1", "L2", "L2n", "L3", "L4", "L5", "L6"}
LockId == PageId \union {Index}

Page(lvl, ks, cs, hi, rt) ==
  [level |-> lvl, keys |-> ks, children |-> cs, high |-> hi, right |-> rt,
   version |-> 1, incomplete |-> FALSE]

InitialTree(full) ==
  [R  |-> Page(2, <<45>>, <<"P", "Q">>, Inf, None),
   P  |-> IF full
          THEN Page(1, <<15, 30, 38>>, <<"L1", "L2", "L3", "L4">>, 45, "Q")
          ELSE Page(1, <<15, 30>>, <<"L1", "L2", "L3">>, 45, "Q"),
   Q  |-> Page(1, <<70>>, <<"L5", "L6">>, Inf, None),
   L1 |-> Page(0, <<5, 10>>, <<>>, 15, "L2"),
   L2 |-> Page(0, <<20, 25, 30>>, <<>>, 30, "L3"),
   L3 |-> IF full THEN Page(0, <<33, 36>>, <<>>, 38, "L4")
                  ELSE Page(0, <<35, 40>>, <<>>, 45, "L5"),
   L5 |-> Page(0, <<50, 60>>, <<>>, 70, "L6"),
   L6 |-> Page(0, <<75, 90>>, <<>>, Inf, None)]
  @@ [i \in IF full THEN {"L4"} ELSE {} |-> Page(0, <<40, 44>>, <<>>, 45, "L5")]

InitTree ==
  /\ \E k \in InsertKeys : key = [I |-> k, R |-> ReadKey]
  /\ \E full \in ParentFull : tree = InitialTree(full)
  /\ mode  = [t \in Tid |-> [x \in LockId |-> "no"]]
  /\ pc    = [t \in Tid |-> "start"]
  /\ at    = [t \in Tid |-> None]
  /\ found = FALSE

(* The Reset button, the protocol switches and the key and parent choices. *)
ResetTree ==
  /\ \E k \in InsertKeys : key' = [I |-> k, R |-> ReadKey]
  /\ \E full \in ParentFull : tree' = InitialTree(full)
  /\ mode'  = [t \in Tid |-> [x \in LockId |-> "no"]]
  /\ pc'    = [t \in Tid |-> "start"]
  /\ at'    = [t \in Tid |-> None]
  /\ found' = FALSE

-------------------------------------------------------------------------------
IsLeaf(p)  == tree[p].level = 0
HasRoom(p) == Len(tree[p].keys) < Cap

CountBelow(ks, k) == Cardinality({i \in DOMAIN ks : ks[i] < k})

(* The child whose range holds k. *)
ChildFor(pg, k) == pg.children[1 + CountBelow(pg.keys, k)]

Down(t) == ChildFor(tree[at[t]], key[t])

WithKey(ks, k) == InsertAt(ks, 1 + CountBelow(ks, k), k)

(* A leaf split: of ks, the lower two keys stay, the rest moves right. *)
SplitLeaf(tr, p, ks) ==
  [tr EXCEPT ![p] = [@ EXCEPT !.keys = SubSeq(ks, 1, 2), !.high = ks[2],
                              !.right = NewId[p]]]
  @@ (NewId[p] :> Page(0, SubSeq(ks, 3, Len(ks)), <<>>, tr[p].high, tr[p].right))

(* An inner split: the middle key goes up, what is above it moves right. *)
SplitInner(tr, p) ==
  LET pg   == tr[p]
      keep == Len(pg.keys) \div 2
  IN [tr EXCEPT ![p] = [@ EXCEPT !.keys     = SubSeq(pg.keys, 1, keep),
                                 !.children = SubSeq(pg.children, 1, keep + 1),
                                 !.high     = pg.keys[keep + 1],
                                 !.right    = NewId[p]]]
     @@ (NewId[p] :> Page(pg.level,
                          SubSeq(pg.keys, keep + 2, Len(pg.keys)),
                          SubSeq(pg.children, keep + 2, Len(pg.children)),
                          pg.high, pg.right))

(* The parent gets the split page's high key and its new right sibling. *)
Post(tr, par, left) ==
  LET i == CHOOSE j \in DOMAIN tr[par].children : tr[par].children[j] = left
  IN [tr EXCEPT ![par] =
        [@ EXCEPT !.keys     = InsertAt(@, i, tr[left].high),
                  !.children = InsertAt(@, i + 1, tr[left].right)]]

ParentOf(tr, c) ==
  CHOOSE p \in DOMAIN tr : c \in ToSet(tr[p].children)

(* A leaf split, its posting, and the parent's own split if it overflows. *)
SplitWithKey(leaf, par, k) ==
  LET posted == Post(SplitLeaf(tree, leaf, WithKey(tree[leaf].keys, k)),
                     par, leaf)
  IN IF Len(posted[par].keys) <= Cap THEN posted
     ELSE Post(SplitInner(posted, par), ParentOf(posted, par), par)

-------------------------------------------------------------------------------
(* S goes with S and SX, SX with S, X with nothing. *)
Conflict(t, x, want) ==
  LET h == mode[Other(t)][x]
  IN \/ h = "X"
     \/ h = "SX" /\ want # "S"
     \/ h = "S" /\ want = "X"

Latched(m, t, xs, w) ==
  [m EXCEPT ![t] = [x \in LockId |-> IF x \in xs THEN w ELSE m[t][x]]]

Grab(t, x, want) == ~Conflict(t, x, want)
Release(m, t, xs) == Latched(m, t, xs, "no")
ReleaseAll(m, t)  == Release(m, t, LockId)

(* The pages a split has just allocated start out write-latched. *)
HoldNew(m, t, tr) == Latched(m, t, DOMAIN tr \ DOMAIN tree, "X")

HeldPages(t) == {p \in PageId : mode[t][p] # "no"}

Goto(t, l)   == pc' = [pc EXCEPT ![t] = l]
MoveTo(t, p) == at' = [at EXCEPT ![t] = p]

(* finishRead: the search of the leaf, and everything let go. *)
FinishRead(t) ==
  /\ found' = (key[t] \in ToSet(tree[at[t]].keys))
  /\ mode'  = ReleaseAll(mode, t)
  /\ Goto(t, "done")
  /\ UNCHANGED <<key, tree, at>>

(* The leaf has room: the key goes in and everything is let go. *)
InsertHere(t) ==
  /\ HasRoom(at[t])
  /\ tree' = [tree EXCEPT ![at[t]].keys = WithKey(@, key[t])]
  /\ mode' = ReleaseAll(mode, t)
  /\ Goto(t, "done")
  /\ UNCHANGED <<key, at, found>>

-------------------------------------------------------------------------------
(* The pages of a level, left to right, from p on. *)
Chain(p) ==
  LET f[n \in 0 .. Cardinality(PageId)] ==
        IF n = 0 THEN <<p>>
        ELSE LET s == f[n - 1]
                 r == tree[Last(s)].right
             IN IF r = None THEN s ELSE Append(s, r)
  IN f[Cardinality(PageId)]

Leftmost == tree[tree[Root].children[1]].children[1]
LeafKeys == LET s == Chain(Leftmost)
            IN FlattenSeq([i \in DOMAIN s |-> tree[s[i]].keys])

(* The page a lookup of k stops at, with or without moving right. *)
Lookup(k, moveRight) ==
  LET go[n \in 0 .. 20] ==
        IF n = 0 THEN Root
        ELSE LET p == go[n - 1]
             IN IF moveRight /\ k > tree[p].high THEN tree[p].right
                ELSE IF IsLeaf(p) THEN p ELSE ChildFor(tree[p], k)
  IN go[20]

Finds(k, moveRight) == k \in ToSet(tree[Lookup(k, moveRight)].keys)

(* From c, past pages whose split is not posted yet, to the one bounded b. *)
Covers(c, b) ==
  LET s == Chain(c)
  IN \E n \in 1 .. Len(s) : /\ tree[s[n]].high = b
                            /\ \A i \in 1 .. n - 1 : tree[s[i]].incomplete

InnerSound(p) ==
  LET pg == tree[p]
  IN /\ Len(pg.children) = Len(pg.keys) + 1
     /\ Len(pg.keys) <= Cap
     /\ \A i \in DOMAIN pg.children :
          Covers(pg.children[i],
                 IF i <= Len(pg.keys) THEN pg.keys[i] ELSE pg.high)

(* checkTree: the leaves are in order and within their high keys, every    *)
(* downlink leads to what its parent says, and every key in the tree is    *)
(* found by moving right - and by a plain descent once the insert is over. *)
TreeSound ==
  LET ks == LeafKeys
  IN /\ \A i, j \in DOMAIN ks : i < j => ks[i] < ks[j]
     /\ \A p \in DOMAIN tree :
          /\ \A i \in DOMAIN tree[p].keys : tree[p].keys[i] <= tree[p].high
          /\ ~IsLeaf(p) => InnerSound(p)
     /\ \A i \in DOMAIN ks : Finds(ks[i], TRUE)
     /\ pc["I"] = "done" =>
          /\ key["I"] \in ToSet(ks)
          /\ \A i \in DOMAIN ks : Finds(ks[i], FALSE)
          /\ \A p \in DOMAIN tree : ~tree[p].incomplete

(* The page a thread works on is the one of its level that covers its key. *)
CoversKey(t) ==
  /\ key[t] <= tree[at[t]].high
  /\ \A p \in DOMAIN tree : tree[p].right = at[t] => tree[p].high < key[t]

(* No page changes under anybody but a thread that holds it in X. *)
OnlyLatchedChange ==
  \A p \in DOMAIN tree :
    tree'[p] # tree[p] => "X" \in {mode["I"][p], mode'["I"][p]}

Lower(p, q)   == tree[q].level < tree[p].level
RightOf(p, q) == /\ tree[q].level = tree[p].level
                 /\ tree[q].high > tree[p].high

(* Every page a step latches lies as InOrder says from those kept latched. *)
LatchedInOrder(InOrder(_, _)) ==
  \A t \in Tid : \A p, q \in DOMAIN tree :
    /\ "no" \notin {mode[t][p], mode'[t][p], mode'[t][q]}
    /\ mode[t][q] = "no"
    => InOrder(p, q)
===============================================================================
