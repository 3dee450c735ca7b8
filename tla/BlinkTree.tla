------------------------------ MODULE BlinkTree -------------------------------
(***************************************************************************)
(* The B-link tree of Lehman and Yao as PostgreSQL's nbtree runs it: one   *)
(* page is read-locked at a time and released before the next is locked; a *)
(* key above the page's high key means the page has split meanwhile, and   *)
(* the descent moves right.  A split and the posting of its downlink are   *)
(* separate steps with the left page held and flagged in between.          *)
(***************************************************************************)
EXTENDS LatchedTree

VARIABLES
  checks,   \* the switch "Reader checks the high key"
  goal,     \* the page each thread is about to enter (next in the code)
  stack,    \* the inner pages the inserter came through
  child     \* the split page whose downlink is to be posted

Start(t) ==
  /\ pc[t] = "start"
  /\ Grab(t, Root, "S")
  /\ mode' = Latched(mode, t, {Root}, "S")
  /\ MoveTo(t, Root)
  /\ stack' = IF t = "I" THEN <<>> ELSE stack
  /\ Goto(t, "atNode")
  /\ UNCHANGED <<key, tree, found, checks, goal, child>>

Enter(t) ==
  LET want == IF t = "I" /\ IsLeaf(goal[t]) THEN "X" ELSE "S"
  IN /\ pc[t] = "enter"
     /\ Grab(t, goal[t], want)
     /\ mode' = Latched(mode, t, {goal[t]}, want)
     /\ MoveTo(t, goal[t])
     /\ goal' = [goal EXCEPT ![t] = None]
     /\ Goto(t, "atNode")
     /\ UNCHANGED <<key, tree, found, checks, stack, child>>

(* The page split after its downlink was read; its right half is wanted. *)
Overtaken(t) == key[t] > tree[at[t]].high

MovesRight(t) == (t = "I" \/ checks) /\ Overtaken(t)

(* A bug: the page is kept until the next one is latched. *)
KeptOnTheWay(t) == mode

LeftBehind(t) == Release(mode, t, {at[t]})

MoveRight(t) ==
  /\ pc[t] = "atNode"
  /\ MovesRight(t)
  /\ goal' = [goal EXCEPT ![t] = tree[at[t]].right]
  /\ mode' = LeftBehind(t)
  /\ Goto(t, "enter")
  /\ UNCHANGED <<key, tree, at, found, checks, stack, child>>

Descend(t) ==
  /\ pc[t] = "atNode"
  /\ ~MovesRight(t)
  /\ ~IsLeaf(at[t])
  /\ goal' = [goal EXCEPT ![t] = Down(t)]
  /\ stack' = IF t = "I" THEN Append(stack, at[t]) ELSE stack
  /\ mode' = LeftBehind(t)
  /\ Goto(t, "enter")
  /\ UNCHANGED <<key, tree, at, found, checks, child>>

AtLeaf(t) == pc[t] = "atNode" /\ ~MovesRight(t) /\ IsLeaf(at[t])

Read(t) ==
  /\ AtLeaf(t)
  /\ t = "R"
  /\ FinishRead(t)
  /\ UNCHANGED <<checks, goal, stack, child>>

Insert(t) ==
  /\ AtLeaf(t)
  /\ t = "I"
  /\ InsertHere(t)
  /\ UNCHANGED <<checks, goal, stack, child>>

(* The old right sibling is latched for the length of a split, to fix its *)
(* left link.                                                             *)
RightFree(t, p) == tree[p].right # None => Grab(t, tree[p].right, "X")

Flagged(tr, p) == [tr EXCEPT ![p].incomplete = TRUE]

Split(t) ==
  /\ AtLeaf(t)
  /\ t = "I"
  /\ ~HasRoom(at[t])
  /\ RightFree(t, at[t])
  /\ tree' = Flagged(SplitLeaf(tree, at[t], WithKey(tree[at[t]].keys, key[t])),
                     at[t])
  /\ mode' = HoldNew(mode, t, tree')
  /\ child' = at[t]
  /\ Goto(t, "latchParent")
  /\ UNCHANGED <<key, at, found, checks, goal, stack>>

(* The parent is found again from the stack: the first page from p to the  *)
(* right that has the split page's downlink, or the last of its level.     *)
ParentFrom(p) ==
  LET ok == {q \in DOMAIN tree :
               /\ q = p \/ RightOf(p, q)
               /\ child \in ToSet(tree[q].children) \/ tree[q].right = None}
  IN CHOOSE q \in ok : \A r \in ok : tree[q].high <= tree[r].high

(* The parent is latched while the split page is still held; the new right *)
(* page is let go.                                                         *)
LatchParent(t) ==
  LET p == ParentFrom(Last(stack))
  IN /\ pc[t] = "latchParent"
     /\ Grab(t, p, "X")
     /\ mode'  = Latched(Release(mode, t, {tree[child].right}), t, {p}, "X")
     /\ MoveTo(t, p)   \* the code's parent; its at is not used any more
     /\ stack' = Front(stack)
     /\ Goto(t, "post")
     /\ UNCHANGED <<key, tree, found, checks, goal, child>>

(* A bug: the flag outlives the posting. *)
PostedFlagKept(p) == Post(tree, p, child)

(* The downlink goes in and the flag is cleared in one step. *)
Posted(p) == [Post(tree, p, child) EXCEPT ![child].incomplete = FALSE]

PostDownlink(t) ==
  /\ pc[t] = "post"
  /\ HasRoom(at[t])
  /\ tree' = Posted(at[t])
  /\ mode' = Release(mode, t, {child, at[t]})
  /\ Goto(t, "done")
  /\ UNCHANGED <<key, at, found, checks, goal, stack, child>>

(* The parent overflows: it splits in turn, and the post goes on above. *)
PostAndSplit(t) ==
  /\ pc[t] = "post"
  /\ ~HasRoom(at[t])
  /\ RightFree(t, at[t])
  /\ tree' = Flagged(SplitInner(Posted(at[t]), at[t]), at[t])
  /\ mode' = Release(HoldNew(mode, t, tree'), t, {child})
  /\ child' = at[t]
  /\ Goto(t, "latchParent")
  /\ UNCHANGED <<key, at, found, checks, goal, stack>>

Step(t) ==
  \/ Start(t)
  \/ Enter(t)
  \/ MoveRight(t)
  \/ Descend(t)
  \/ Read(t)
  \/ Insert(t)
  \/ Split(t)
  \/ LatchParent(t)
  \/ PostDownlink(t)
  \/ PostAndSplit(t)

-------------------------------------------------------------------------------
(* "A second page may be locked before releasing the current one only when *)
(* moving right or up."                                                    *)
RightOrUp == LatchedInOrder(LAMBDA p, q : Lower(q, p) \/ RightOf(p, q))
===============================================================================
