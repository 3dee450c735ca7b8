--------------------------- MODULE InnodbIndexLock ----------------------------
(***************************************************************************)
(* InnoDB's descent: index->lock in front of the page latches.  MySQL 5.7  *)
(* and later S-latch the path until the leaf is latched; a split takes     *)
(* index->lock in SX and latches what it will change top-down, then the    *)
(* leaf and its siblings left to right.  MySQL 5.6 descends without page   *)
(* latches and splits under index->lock in X.                              *)
(***************************************************************************)
EXTENDS LatchedTree

VARIABLES
  v56,      \* the switch "MySQL 5.6 (X index lock)"
  parent,   \* the parent a thread's split will change
  child,    \* the leaf it will split
  plan      \* the latches it still has to take, in order: <<page, mode>>

LeafMode(t) == IF t = "I" THEN "X" ELSE "S"
AtLeaf(t)   == IF t = "I" THEN "modify" ELSE "read"

(* BTR_SEARCH_LEAF and BTR_MODIFY_LEAF. *)
Start(t) ==
  /\ pc[t] = "start"
  /\ Grab(t, Index, "S")
  /\ mode' = Latched(mode, t, {Index}, "S")
  /\ Goto(t, IF v56 THEN "fix" ELSE "root")
  /\ UNCHANGED <<key, tree, at, found, v56, parent, child, plan>>

LatchRoot(t) ==
  /\ pc[t] = "root"
  /\ Grab(t, Root, "S")
  /\ mode' = Latched(mode, t, {Root}, "S")
  /\ MoveTo(t, Root)
  /\ Goto(t, "descend")
  /\ UNCHANGED <<key, tree, found, v56, parent, child, plan>>

(* The path stays latched down to the leaf. *)
DescendInner(t) ==
  /\ pc[t] = "descend"
  /\ ~IsLeaf(Down(t))
  /\ Grab(t, Down(t), "S")
  /\ mode' = Latched(mode, t, {Down(t)}, "S")
  /\ MoveTo(t, Down(t))
  /\ UNCHANGED <<key, tree, pc, found, v56, parent, child, plan>>

(* With the leaf latched, the path and index->lock are let go. *)
EnterLeaf(t) ==
  /\ Grab(t, Down(t), LeafMode(t))
  /\ mode' = Latched(ReleaseAll(mode, t), t, {Down(t)}, LeafMode(t))
  /\ MoveTo(t, Down(t))
  /\ Goto(t, AtLeaf(t))
  /\ UNCHANGED <<key, tree, found, v56, parent, child, plan>>

DescendLeaf(t) ==
  /\ pc[t] = "descend"
  /\ IsLeaf(Down(t))
  /\ EnterLeaf(t)

(* 5.6: buffer fixes only, down to the page above the leaf. *)
Fix(t) ==
  /\ pc[t] = "fix"
  /\ MoveTo(t, ChildFor(tree[Root], key[t]))
  /\ Goto(t, "leaf")
  /\ UNCHANGED <<key, tree, mode, found, v56, parent, child, plan>>

Leaf56(t) ==
  /\ pc[t] = "leaf"
  /\ EnterLeaf(t)

Read(t) ==
  /\ pc[t] = "read"
  /\ FinishRead(t)
  /\ UNCHANGED <<v56, parent, child, plan>>

Insert(t) ==
  /\ pc[t] = "modify"
  /\ InsertHere(t)
  /\ UNCHANGED <<v56, parent, child, plan>>

(* DB_FAIL: the leaf is full, retry with BTR_MODIFY_TREE. *)
Fail(t) ==
  /\ pc[t] = "modify"
  /\ ~HasRoom(at[t])
  /\ mode' = ReleaseAll(mode, t)
  /\ Goto(t, "tree")
  /\ UNCHANGED <<key, tree, at, found, v56, parent, child, plan>>

ModifyTree(t) ==
  LET want == IF v56 THEN "X" ELSE "SX"
  IN /\ pc[t] = "tree"
     /\ Grab(t, Index, want)
     /\ mode' = Latched(mode, t, {Index}, want)
     /\ Goto(t, "fixPath")
     /\ UNCHANGED <<key, tree, at, found, v56, parent, child, plan>>

(* A bug: the root is never expected to change. *)
RootNeverChanges(par) == "SX"

(* The root is latched in SX for its segment headers, in X if a split of  *)
(* the parent will give it a node pointer.                                *)
RootMode(par) == IF HasRoom(par) THEN "SX" ELSE "X"

LeftOf(p) == {q \in DOMAIN tree : tree[q].right = p}

(* What a split will change, in the order it is latched in. *)
Plan(par, leaf) ==
  LET left   == IF LeftOf(leaf) = {} THEN <<>>
                ELSE <<<<CHOOSE q \in LeftOf(leaf) : TRUE, "X">>>>
      right  == IF tree[leaf].right = None THEN <<>>
                ELSE <<<<tree[leaf].right, "X">>>>
      leaves == left \o <<<<leaf, "X">>>> \o right
  IN IF v56 THEN leaves
     ELSE <<<<Root, RootMode(par)>>, <<par, "X">>>> \o leaves

FixPath(t) ==
  LET par  == ChildFor(tree[Root], key[t])
      leaf == ChildFor(tree[par], key[t])
  IN /\ pc[t] = "fixPath"
     /\ parent' = [parent EXCEPT ![t] = par]
     /\ child'  = leaf
     /\ plan'   = Plan(par, leaf)
     /\ Goto(t, "latchPlan")
     /\ UNCHANGED <<key, tree, mode, at, found, v56>>

LatchPlanned(t) ==
  /\ pc[t] = "latchPlan"
  /\ Grab(t, plan[1][1], plan[1][2])
  /\ mode' = Latched(mode, t, {plan[1][1]}, plan[1][2])
  /\ plan' = Tail(plan)
  /\ IF Len(plan) = 1 THEN Goto(t, "split") ELSE UNCHANGED pc
  /\ UNCHANGED <<key, tree, at, found, v56, parent, child>>

(* 5.6 X-latches the root, to allocate the new page, and then the parent;  *)
(* nobody else latches either, so both are granted at once.                *)
SplitLatches(t) ==
  IF v56 THEN Latched(mode, t, {Root, parent[t]}, "X") ELSE mode

Split(t) ==
  /\ pc[t] = "split"
  /\ v56 => Grab(t, Root, "X") /\ Grab(t, parent[t], "X")
  /\ tree' = SplitWithKey(child, parent[t], key[t])
  /\ mode' = HoldNew(SplitLatches(t), t, tree')
  /\ Goto(t, "commit")
  /\ UNCHANGED <<key, at, found, v56, parent, child, plan>>

(* The mini-transaction commits. *)
Commit(t) ==
  /\ pc[t] = "commit"
  /\ mode' = ReleaseAll(mode, t)
  /\ Goto(t, "done")
  /\ UNCHANGED <<key, tree, at, found, v56, parent, child, plan>>

Step(t) ==
  \/ Start(t)
  \/ LatchRoot(t)
  \/ DescendInner(t)
  \/ DescendLeaf(t)
  \/ Fix(t)
  \/ Leaf56(t)
  \/ Read(t)
  \/ Insert(t)
  \/ Fail(t)
  \/ ModifyTree(t)
  \/ FixPath(t)
  \/ LatchPlanned(t)
  \/ Split(t)
  \/ Commit(t)

-------------------------------------------------------------------------------
(* "index lock first, pages top-down, leaves left to right" (5.7). *)
TopDownLeftToRight ==
  /\ LatchedInOrder(LAMBDA p, q : Lower(p, q) \/ RightOf(p, q))
  /\ \A t \in Tid :
       mode[t][Index] = "no" /\ mode'[t][Index] # "no" => HeldPages(t) = {}
===============================================================================
