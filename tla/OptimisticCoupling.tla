-------------------------- MODULE OptimisticCoupling --------------------------
(***************************************************************************)
(* Optimistic lock coupling (Leis et al.): a reader latches nothing; it    *)
(* remembers the version of each page it leaves and starts again when one  *)
(* has moved or is locked.  A writer locks a page and its parent with a    *)
(* compare-and-swap on the versions it read, splits a full page on its way *)
(* down without adding the key, and starts again.                          *)
(***************************************************************************)
EXTENDS LatchedTree

VARIABLES
  parent,   \* the page each thread came from
  vAt,      \* the version it read of its page
  vParent,  \* ... and of the page it came from
  spec      \* what the reader saw in the leaf, before validation

Locked(t, p) == mode[Other(t)][p] = "X"

(* A bug: only the lock bit is looked at. *)
ChangedIfLocked(t, p, v) == Locked(t, p)

Changed(t, p, v) == Locked(t, p) \/ tree[p].version # v

Stale(t) ==
  \/ Changed(t, at[t], vAt[t])
  \/ parent[t] # None /\ Changed(t, parent[t], vParent[t])

Start(t) ==
  /\ pc[t] = "start"
  /\ ~Locked(t, Root)
  /\ MoveTo(t, Root)
  /\ vAt' = [vAt EXCEPT ![t] = tree[Root].version]
  /\ parent' = [parent EXCEPT ![t] = None]
  /\ Goto(t, "inner")
  /\ UNCHANGED <<key, tree, mode, found, vParent, spec>>

FromRoot(t) ==
  /\ Goto(t, "start")
  /\ MoveTo(t, None)
  /\ parent' = [parent EXCEPT ![t] = None]
  /\ UNCHANGED <<key, found, vAt, vParent>>

SplitsHere(t) == t = "I" /\ ~HasRoom(at[t])

(* A version has moved, or the page below is locked. *)
Restart(t) ==
  /\ \/ /\ pc[t] \in {"inner", "leaf", "validateLeaf"}
        /\ Stale(t)
     \/ /\ pc[t] = "inner"
        /\ ~SplitsHere(t)
        /\ Locked(t, Down(t))
  /\ FromRoot(t)
  /\ spec' = IF t = "R" THEN FALSE ELSE spec
  /\ mode' = ReleaseAll(mode, t)
  /\ UNCHANGED tree

Descend(t) ==
  LET c == Down(t)
  IN /\ pc[t] = "inner"
     /\ ~SplitsHere(t)
     /\ ~Stale(t)
     /\ ~Locked(t, c)
     /\ parent'  = [parent EXCEPT ![t] = at[t]]
     /\ vParent' = [vParent EXCEPT ![t] = vAt[t]]
     /\ MoveTo(t, c)
     /\ vAt' = [vAt EXCEPT ![t] = tree[c].version]
     /\ Goto(t, IF ~IsLeaf(c) THEN "inner"
                ELSE IF t = "I" THEN "leaf" ELSE "readLeaf")
     /\ UNCHANGED <<key, tree, mode, found, spec>>

ReadLeaf(t) ==
  /\ pc[t] = "readLeaf"
  /\ spec' = (key[t] \in ToSet(tree[at[t]].keys))
  /\ Goto(t, "validateLeaf")
  /\ UNCHANGED <<key, tree, mode, at, found, parent, vAt, vParent>>

Validate(t) ==
  /\ pc[t] = "validateLeaf"
  /\ ~Stale(t)
  /\ found' = spec
  /\ Goto(t, "done")
  /\ UNCHANGED <<key, tree, mode, at, parent, vAt, vParent, spec>>

PageAndUp(t) == {at[t], parent[t]} \ {None}
LockSplit(t) == Latched(mode, t, PageAndUp(t), "X")

(* A full page, inner or leaf, is locked with its parent to be split. *)
LockToSplit(t) ==
  /\ t = "I"
  /\ pc[t] \in {"inner", "leaf"}
  /\ SplitsHere(t)
  /\ ~Stale(t)
  /\ mode' = LockSplit(t)
  /\ Goto(t, IF pc[t] = "inner" THEN "eagerSplit" ELSE "splitLeaf")
  /\ UNCHANGED <<key, tree, at, found, parent, vAt, vParent, spec>>

LockToInsert(t) ==
  /\ pc[t] = "leaf"
  /\ HasRoom(at[t])
  /\ ~Stale(t)
  /\ mode' = Latched(mode, t, {at[t]}, "X")
  /\ Goto(t, "insertLeaf")
  /\ UNCHANGED <<key, tree, at, found, parent, vAt, vParent, spec>>

(* Unlocking a page moves its version on. *)
Bumped(t, tr) ==
  [tr EXCEPT ![at[t]].version = @ + 1, ![parent[t]].version = @ + 1]

(* A bug: the parent stays locked. *)
UnlockedPageOnly(t) == Release(mode, t, {at[t]})
Unlocked(t)         == Release(mode, t, PageAndUp(t))

(* Both pages are unlocked and the insert starts again. *)
AfterSplit(t, tr) ==
  /\ tree' = Bumped(t, Post(tr, parent[t], at[t]))
  /\ mode' = Unlocked(t)
  /\ FromRoot(t)
  /\ UNCHANGED spec

EagerSplit(t) ==
  /\ pc[t] = "eagerSplit"
  /\ AfterSplit(t, SplitInner(tree, at[t]))

SplitFullLeaf(t) ==
  /\ pc[t] = "splitLeaf"
  /\ AfterSplit(t, SplitLeaf(tree, at[t], tree[at[t]].keys))

InsertLeaf(t) ==
  /\ pc[t] = "insertLeaf"
  /\ tree' = [tree EXCEPT ![at[t]] = [@ EXCEPT !.keys = WithKey(@, key[t]),
                                               !.version = @ + 1]]
  /\ mode' = Release(mode, t, {at[t]})
  /\ Goto(t, "done")
  /\ UNCHANGED <<key, at, found, parent, vAt, vParent, spec>>

Step(t) ==
  \/ Start(t)
  \/ Restart(t)
  \/ Descend(t)
  \/ ReadLeaf(t)
  \/ Validate(t)
  \/ LockToSplit(t)
  \/ LockToInsert(t)
  \/ EagerSplit(t)
  \/ SplitFullLeaf(t)
  \/ InsertLeaf(t)

-------------------------------------------------------------------------------
(* No change of a page's keys, downlinks or bounds leaves its version      *)
(* behind, so a reader that remembers a version can tell.                  *)
VersionsMove ==
  \A p \in DOMAIN tree :
    tree'[p] # tree[p] => tree'[p].version > tree[p].version
===============================================================================
