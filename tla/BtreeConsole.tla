----------------------------- MODULE BtreeConsole ------------------------------
(***************************************************************************)
(* The tree of BtreeSplitMergeConsole.tsx: keys in linked leaves, splits   *)
(* on the way up, and three ways of deleting: textbook (borrow, else       *)
(* merge), InnoDB (merge below a threshold, if it fits) and PostgreSQL (an *)
(* empty page waits for VACUUM, which takes it out in three passes).       *)
(*                                                                         *)
(* Pages are numbered as they are allocated; a page is never forgotten.    *)
(* "Insert x5" is five inserts.  Texts and counts of written pages are     *)
(* left out.                                                               *)
(***************************************************************************)
EXTENDS Integers, Sequences, SequencesExt, FiniteSets, FiniteSetsExt

CONSTANTS
  BtreeKey, Cap,    \* keys, and keys to a page
  SeedSize,         \* the initial tree has the keys 1 .. SeedSize
  Thresholds,       \* the choices of MERGE_THRESHOLD, in percent
  Used,             \* bound: the keys that are inserted and deleted later on
  AnyTime           \* whether the rules may change once a key was deleted

BtreeAssumption ==
  /\ BtreeKey \subseteq Nat /\ Cap \in Nat \ {0, 1, 2} /\ Thresholds \subseteq Nat
  /\ 1 .. SeedSize \subseteq BtreeKey /\ Used \subseteq BtreeKey /\ AnyTime \in BOOLEAN

VARIABLES
  tree,   \* the pages, and the root
  mode    \* the deletion rules

Modes == {"textbook", "postgres", "innodb"}

None == 0

NewPage(isLeaf) ==
  [leaf |-> isLeaf, keys |-> <<>>, kids |-> <<>>, next |-> None, prev |-> None,
   state |-> "live"]

emptyTree == [pages |-> <<NewPage(TRUE)>>, root |-> 1]

InState(t, s) == {i \in DOMAIN t.pages : t.pages[i].state = s}

(* alloc(): a page off the free space map before one at the end of the file. *)
allocId(t) == IF InState(t, "free") = {} THEN Len(t.pages) + 1 ELSE Min(InState(t, "free"))
Put(t, id, page) ==
  [t EXCEPT !.pages = IF id > Len(@) THEN Append(@, page) ELSE [@ EXCEPT ![id] = page]]

(* A link to no page is nobody's. *)
SetPrev(t, id, to) == IF id = None THEN t ELSE [t EXCEPT !.pages[id].prev = to]
SetNext(t, id, to) == IF id = None THEN t ELSE [t EXCEPT !.pages[id].next = to]

UpTo(seq, n)   == SubSeq(seq, 1, n)
After(seq, n)  == SubSeq(seq, n + 1, Len(seq))
Without(seq, i) == IF i \in DOMAIN seq THEN RemoveAt(seq, i) ELSE seq
AtMost(keys, k) == Cardinality({i \in DOMAIN keys : keys[i] <= k})
IndexOf(seq, x) == SelectInSeq(seq, LAMBDA y : y = x)

(* The page ids from the root to where the key belongs. *)
pathTo(t, key) ==
  LET from[id \in DOMAIN t.pages] ==
        LET p == t.pages[id] IN
        IF p.leaf \/ p.kids = <<>> THEN <<id>>
        ELSE <<id>> \o from[p.kids[Min({AtMost(p.keys, key) + 1, Len(p.kids)})]]
  IN  from[t.root]

levelsOf(t) ==
  LET level[n \in Nat] ==
        IF n = 1 THEN <<t.root>>
        ELSE LET up == level[n - 1] IN
             FlattenSeq([i \in DOMAIN up |->
                           IF t.pages[up[i]].leaf THEN <<>> ELSE t.pages[up[i]].kids])
  IN  [n \in 1 .. Len(pathTo(t, 0)) |-> level[n]]

Holds(t, key) == LET path == pathTo(t, key) IN key \in ToSet(t.pages[Last(path)].keys)

-------------------------------------------------------------------------------
(* insertKey(): an over-full page gives its upper half to a new right      *)
(* sibling; a leaf copies the first key of this up, an inner page gives    *)
(* its middle key up, and a root gets a new root above it.                 *)
Halved(t, id, right) ==
  LET p   == t.pages[id]
      n   == Len(p.keys)
      mid == IF p.leaf THEN (n + 1) \div 2 ELSE n \div 2
      r   == IF p.leaf
               THEN [NewPage(TRUE) EXCEPT !.keys = After(p.keys, mid),
                                          !.next = p.next, !.prev = id]
               ELSE [NewPage(FALSE) EXCEPT !.keys = After(p.keys, mid + 1),
                                           !.kids = After(p.kids, mid + 1)]
      l   == IF p.leaf
               THEN [p EXCEPT !.keys = UpTo(@, mid), !.next = right]
               ELSE [p EXCEPT !.keys = UpTo(@, mid), !.kids = UpTo(@, mid + 1)]
      t2  == Put(Put(t, id, l), right, r)
  IN  [tree |-> IF p.leaf THEN SetPrev(t2, p.next, right) ELSE t2,
       sep  |-> p.keys[mid + 1]]

Rooted(t, sep, left, right) ==
  LET id == allocId(t) IN
  [Put(t, id, [NewPage(FALSE) EXCEPT !.keys = <<sep>>, !.kids = <<left, right>>])
     EXCEPT !.root = id]

Linked(t, parent, sep, right) ==
  LET at == AtMost(t.pages[parent].keys, sep - 1) IN
  [t EXCEPT !.pages[parent].keys = InsertAt(@, at + 1, sep),
            !.pages[parent].kids = InsertAt(@, at + 2, right)]

Split(t, path, i) ==
  LET right == allocId(t)
      h     == Halved(t, path[i], right)
  IN  IF i = 1 THEN Rooted(h.tree, h.sep, path[i], right)
               ELSE Linked(h.tree, path[i - 1], h.sep, right)

insertKey(t, key) ==
  LET path == pathTo(t, key)
      id   == Last(path)
      at   == AtMost(t.pages[id].keys, key)
      in   == [t EXCEPT !.pages[id].keys = InsertAt(@, at + 1, key),
                        !.pages[id].state = IF @ = "empty" THEN "live" ELSE @]
      Step(u, i) == IF Len(u.pages[path[i]].keys) > Cap THEN Split(u, path, i) ELSE u
  IN  IF Holds(t, key) THEN t
      ELSE FoldLeft(Step, in, Reverse([i \in DOMAIN path |-> i]))

buildInitial == FoldLeft(insertKey, emptyTree, [k \in 1 .. SeedSize |-> k])

BtreeInit == tree = buildInitial /\ mode = "textbook"

-------------------------------------------------------------------------------
(* deleteKey(), where pages are merged: an underfull page of the textbook  *)
(* borrows from a sibling that can spare an entry; else it is merged with  *)
(* one, the left one for choice, if both fit in a page.  The kids numbered *)
(* i and i + 1 have the separator i between them.                          *)
minLeafOf  == (Cap + 1) \div 2
minInnerOf == (Cap + 2) \div 2 - 1
minOf(page) == IF page.leaf THEN minLeafOf ELSE minInnerOf

Underfull(page, threshold) ==
  IF mode = "innodb" THEN 100 * Len(page.keys) < threshold * Cap
                     ELSE Len(page.keys) < minOf(page)

CanSpare(t, parent, i) ==
  LET kids == t.pages[parent].kids IN
  i \in DOMAIN kids /\ Len(t.pages[kids[i]].keys) > minOf(t.pages[kids[i]])

BorrowLeft(t, parent, ci) ==
  LET id   == t.pages[parent].kids[ci]
      from == t.pages[parent].kids[ci - 1]
      sep  == t.pages[parent].keys[ci - 1]
      L    == t.pages[from]
  IN  [t EXCEPT
         !.pages[parent].keys[ci - 1] = Last(L.keys),
         !.pages[from].keys = Front(@),
         !.pages[from].kids = IF L.leaf THEN @ ELSE Front(@),
         !.pages[id].keys = <<IF L.leaf THEN Last(L.keys) ELSE sep>> \o @,
         !.pages[id].kids = IF L.leaf THEN @ ELSE <<Last(L.kids)>> \o @]

BorrowRight(t, parent, ci) ==
  LET id   == t.pages[parent].kids[ci]
      from == t.pages[parent].kids[ci + 1]
      sep  == t.pages[parent].keys[ci]
      R    == t.pages[from]
  IN  [t EXCEPT
         !.pages[parent].keys[ci] = IF R.leaf THEN R.keys[2] ELSE Head(R.keys),
         !.pages[from].keys = Tail(@),
         !.pages[from].kids = IF R.leaf THEN @ ELSE Tail(@),
         !.pages[id].keys = Append(@, IF R.leaf THEN Head(R.keys) ELSE sep),
         !.pages[id].kids = IF R.leaf THEN @ ELSE Append(@, Head(R.kids))]

(* A bug: the limit is off by one. *)
FitsOneMore(t, parent, i) ==
  LET kids == t.pages[parent].kids IN
  Len(t.pages[kids[i]].keys) + Len(t.pages[kids[i + 1]].keys) <= Cap + 1

Fits(t, parent, i) ==
  LET L == t.pages[t.pages[parent].kids[i]]
      R == t.pages[t.pages[parent].kids[i + 1]]
  IN  Len(L.keys) + Len(R.keys) + (IF L.leaf THEN 0 ELSE 1) <= Cap

Merge(t, parent, i) ==
  LET left  == t.pages[parent].kids[i]
      right == t.pages[parent].kids[i + 1]
      sep   == t.pages[parent].keys[i]
      R     == t.pages[right]
      in    == [t EXCEPT
                  !.pages[left].keys = @ \o (IF R.leaf THEN <<>> ELSE <<sep>>) \o R.keys,
                  !.pages[left].kids = @ \o R.kids,
                  !.pages[left].next = IF R.leaf THEN R.next ELSE @,
                  !.pages[parent].keys = RemoveAt(@, i),
                  !.pages[parent].kids = RemoveAt(@, i + 1),
                  !.pages[right] = [NewPage(R.leaf) EXCEPT !.state = "free"]]
  IN  IF R.leaf THEN SetPrev(in, R.next, left) ELSE in

(* One turn of the loop up the path: the page under parent is looked after *)
(* or the loop ends.                                                       *)
Rebalance(r, parent, id, threshold) ==
  LET t    == r.tree
      ci   == IndexOf(t.pages[parent].kids, id)
      n    == Len(t.pages[parent].kids)
      left == IF ci > 1 THEN ci - 1 ELSE ci
      More(u) == [tree |-> u, done |-> FALSE]
      Done    == [r EXCEPT !.done = TRUE]
  IN  CASE r.done \/ ~Underfull(t.pages[id], threshold) -> Done
        [] OTHER ->
             CASE mode = "textbook" /\ CanSpare(t, parent, ci - 1) ->
                    More(BorrowLeft(t, parent, ci))
               [] mode = "textbook" /\ ~CanSpare(t, parent, ci - 1)
                                    /\ CanSpare(t, parent, ci + 1) ->
                    More(BorrowRight(t, parent, ci))
               [] OTHER ->
                    IF n > 1 /\ Fits(t, parent, left)
                      THEN More(Merge(t, parent, left)) ELSE Done

Collapsed(t) ==
  LET root == t.pages[t.root] IN
  IF root.leaf \/ Len(root.kids) # 1 THEN t
  ELSE [t EXCEPT !.root = root.kids[1],
                 !.pages[t.root] = [NewPage(FALSE) EXCEPT !.state = "free"]]

deleteKey(t, key, threshold) ==
  LET path == pathTo(t, key)
      leaf == Last(path)
      out  == [t EXCEPT !.pages[leaf].keys = Without(@, IndexOf(@, key))]
      Up(r, i) == Rebalance(r, path[i - 1], path[i], threshold)
  IN  CASE ~Holds(t, key) -> t
        [] mode = "postgres" /\ Holds(t, key) ->
             [out EXCEPT !.pages[leaf].state =
                IF out.pages[leaf].keys = <<>> /\ leaf # t.root THEN "empty" ELSE @]
        [] OTHER ->
             Collapsed(FoldLeft(Up, [tree |-> out, done |-> FALSE],
                                Reverse([i \in 1 .. Len(path) - 1 |-> i + 1])).tree)

-------------------------------------------------------------------------------
(* runVacuum(): every dead page goes one stage on.  A deleted page becomes *)
(* free; a half-dead one is unlinked from its siblings; an empty one loses *)
(* its downlink, and so does every ancestor left without a child, but      *)
(* never the rightmost page of a level.                                    *)
Ids(S) == SetToSortSeq(S, LAMBDA i, j : i < j)

Unlink(t, id) ==
  LET p == t.pages[id] IN
  [SetPrev(SetNext(t, p.prev, p.next), p.next, p.prev)
     EXCEPT !.pages[id] = [p EXCEPT !.prev = None, !.next = None, !.state = "deleted"]]

Above(t, id) ==
  {q \in InState(t, "live") : ~t.pages[q].leaf /\ id \in ToSet(t.pages[q].kids)}

(* r.page is about to lose its downlink; the next in turn is its parent,   *)
(* if that is a childless page that may go.                                *)
LoseDownlink(r, rightmost) ==
  LET t  == r.tree
      up == Max(Above(t, r.page))
      ci == IndexOf(t.pages[up].kids, r.page)
      u  == [t EXCEPT !.pages[up].kids = RemoveAt(@, ci),
                      !.pages[up].keys = Without(@, Max({ci - 1, 1})),
                      !.pages[r.page].state = "halfdead"]
  IN  IF r.page = None \/ Above(t, r.page) = {} THEN [r EXCEPT !.page = None]
      ELSE [tree |-> u,
            page |-> IF u.pages[up].kids = <<>> /\ up \notin rightmost \cup {t.root}
                       THEN up ELSE None]

runVacuum(t) ==
  LET levels    == levelsOf(t)
      rightmost == {Last(levels[n]) : n \in DOMAIN levels}
      Retire(u, id) ==
        FoldLeft(LAMBDA r, n : LoseDownlink(r, rightmost), [tree |-> u, page |-> id], levels).tree
      freed     == [t EXCEPT !.pages =
                      [i \in DOMAIN @ |-> IF @[i].state = "deleted"
                                            THEN [@[i] EXCEPT !.state = "free"] ELSE @[i]]]
      unlinked  == FoldLeft(Unlink, freed, Ids(InState(t, "halfdead")))
  IN  FoldLeft(Retire, unlinked, Ids(InState(t, "empty") \ rightmost))

-------------------------------------------------------------------------------
Stored == {k \in BtreeKey : Holds(tree, k)}

Insert(k) == tree' = insertKey(tree, k) /\ UNCHANGED mode

Delete(k, threshold) == tree' = deleteKey(tree, k, threshold) /\ UNCHANGED mode

Vacuum ==
  /\ mode = "postgres"
  /\ tree' = runVacuum(tree)
  /\ UNCHANGED mode

setMode(m) ==
  /\ AnyTime \/ tree = buildInitial
  /\ mode' = m
  /\ UNCHANGED tree

BtreeStep ==
  \/ \E k \in Used : Insert(k) \/ \E threshold \in Thresholds : Delete(k, threshold)
  \/ Vacuum
  \/ \E m \in Modes : setMode(m)

-------------------------------------------------------------------------------
BtreeTypeOK ==
  /\ mode \in Modes
  /\ tree.root \in DOMAIN tree.pages /\ tree.pages[tree.root].state = "live"
  /\ \A i \in DOMAIN tree.pages :
       LET p == tree.pages[i] IN
       /\ p.keys \in Seq(BtreeKey) /\ Len(p.keys) <= Cap
       /\ {p.next, p.prev} \cup ToSet(p.kids) \subseteq DOMAIN tree.pages \cup {None}
       /\ p.state \in {"live", "empty", "halfdead", "deleted", "free"}

(* What is on each page is found from the root, in order: the leaves are   *)
(* at one depth, their keys ascend from left to right, an inner page has   *)
(* a separator between any two children, no page is reached twice, none    *)
(* that was taken out is reached, an empty one holds no key, and the       *)
(* sibling links visit the leaves from left to right, and between them     *)
(* only half-dead pages.                                                   *)
TreeWhole ==
  LET levels == levelsOf(tree)
      At(i) == tree.pages[i]
      leaves == Last(levels)
      all    == FlattenSeq(levels)
      chain[i \in DOMAIN tree.pages \cup {None}] ==
        IF i = None THEN <<>> ELSE <<i>> \o chain[At(i).next]
      held   == FlattenSeq([n \in DOMAIN leaves |-> At(leaves[n]).keys])
  IN  /\ Cardinality(ToSet(all)) = Len(all)
      /\ \A i \in ToSet(all) :
           /\ At(i).state \in {"live", "empty"}
           /\ At(i).leaf <=> i \in ToSet(leaves)
           /\ ~At(i).leaf => Len(At(i).kids) = Len(At(i).keys) + 1
           /\ At(i).state = "empty" => At(i).keys = <<>>
      /\ \A m \in 1 .. Len(held) - 1 : held[m] < held[m + 1]
      /\ ToSet(held) = Stored
      /\ SelectSeq(chain[leaves[1]], LAMBDA i : At(i).state # "halfdead") = leaves
      /\ \A i \in ToSet(chain[leaves[1]]) :
           At(i).next # None => At(At(i).next).prev = i

(* An insert adds its key to what is found, a delete takes its key away,   *)
(* and VACUUM changes nothing: no split, borrowing, merge, collapse of the *)
(* root or removal of a page puts a key out of reach.                      *)
BtreeActsAsSet ==
  \/ UNCHANGED tree
  \/ \E before \in {Stored}, after \in {Stored'} :
       \/ after = before /\ Vacuum
       \/ \E k \in Used : after = before \cup {k} /\ Insert(k)
       \/ \E k \in Used : /\ after = before \ {k}
                          /\ \E threshold \in Thresholds : Delete(k, threshold)

(* "Only completely empty pages are deleted, by VACUUM": no leaf that was  *)
(* taken out of the tree has a key on it.                                  *)
OnlyEmptyDeleted ==
  \A s \in {"halfdead", "deleted"} : \A i \in InState(tree, s) :
    tree.pages[i].leaf => tree.pages[i].keys = <<>>

BtreeSpec == BtreeInit /\ [][BtreeStep]_<<tree, mode>>
===============================================================================
