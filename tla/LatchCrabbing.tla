---------------------------- MODULE LatchCrabbing -----------------------------
(***************************************************************************)
(* Latch coupling (Bayer and Schkolnick): a child is latched before its    *)
(* parent is let go.  A reader takes S and holds two pages at most; a      *)
(* writer takes X and keeps every page above the last one with room, or    *)
(* first tries S latches down to the leaf ("Optimistic descent first").    *)
(***************************************************************************)
EXTENDS LatchedTree

VARIABLES
  optimistic,   \* the switch "Optimistic descent first"
  pessimistic   \* the inserter has fallen back to X latches

WriteAll(t) == t = "I" /\ (pessimistic \/ ~optimistic)

Start(t) ==
  LET want == IF WriteAll(t) THEN "X" ELSE "S"
  IN /\ pc[t] = "start"
     /\ Grab(t, Root, want)
     /\ mode' = Latched(mode, t, {Root}, want)
     /\ MoveTo(t, Root)
     /\ Goto(t, "descend")
     /\ UNCHANGED <<key, tree, found, optimistic, pessimistic>>

(* What is let go once child c is latched. *)
LetGo(t, c) ==
  IF ~WriteAll(t) THEN {at[t]}
  ELSE IF HasRoom(c) THEN HeldPages(t) ELSE {}

Descend(t) ==
  LET c    == Down(t)
      want == IF WriteAll(t) \/ (t = "I" /\ IsLeaf(c)) THEN "X" ELSE "S"
  IN /\ pc[t] = "descend"
     /\ Grab(t, c, want)
     /\ mode' = Latched(Release(mode, t, LetGo(t, c)), t, {c}, want)
     /\ MoveTo(t, c)
     /\ Goto(t, IF ~IsLeaf(c) THEN "descend"
                ELSE IF t = "I" THEN "modify" ELSE "read")
     /\ UNCHANGED <<key, tree, found, optimistic, pessimistic>>

Read(t) ==
  /\ pc[t] = "read"
  /\ FinishRead(t)
  /\ UNCHANGED <<optimistic, pessimistic>>

Insert(t) ==
  /\ pc[t] = "modify"
  /\ InsertHere(t)
  /\ UNCHANGED <<optimistic, pessimistic>>

(* The leaf is full and nothing above it is latched: start again with X. *)
FallBack(t) ==
  /\ pc[t] = "modify"
  /\ ~HasRoom(at[t])
  /\ ~WriteAll(t)
  /\ mode' = ReleaseAll(mode, t)
  /\ pessimistic' = TRUE
  /\ Goto(t, "start")
  /\ UNCHANGED <<key, tree, at, found, optimistic>>

Split(t) ==
  /\ pc[t] = "modify"
  /\ ~HasRoom(at[t])
  /\ WriteAll(t)
  /\ tree' = SplitWithKey(at[t], ParentOf(tree, at[t]), key[t])
  /\ mode' = HoldNew(mode, t, tree')
  /\ Goto(t, "release")
  /\ UNCHANGED <<key, at, found, optimistic, pessimistic>>

Finish(t) ==
  /\ pc[t] = "release"
  /\ mode' = ReleaseAll(mode, t)
  /\ Goto(t, "done")
  /\ UNCHANGED <<key, tree, at, found, optimistic, pessimistic>>

Step(t) ==
  \/ Start(t)
  \/ Descend(t)
  \/ Read(t)
  \/ Insert(t)
  \/ FallBack(t)
  \/ Split(t)
  \/ Finish(t)

-------------------------------------------------------------------------------
(* The parent stays latched until the child is, so a split never slips in  *)
(* between a thread and the page it is about to enter: the page a thread   *)
(* works on covers its key at all times.                                   *)
PageCoversKey ==
  \A t \in Tid :
    pc[t] \in {"descend", "modify", "read"} => CoversKey(t)
===============================================================================
