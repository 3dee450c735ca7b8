----------------------------- MODULE DurableStore -----------------------------
(***************************************************************************)
(* What a write-ahead log promises, without the log: a store whose changes *)
(* become permanent all together, now and then, and that comes back from a *)
(* crash with exactly what was permanent when it failed.                   *)
(***************************************************************************)
EXTENDS Naturals

CONSTANT Page

VARIABLES
  view,   \* the value of every page as its users see it
  saved,  \* the value a crash would bring it back to
  status  \* "up", "down" after the crash, "restored" after recovery

vars == <<view, saved, status>>

Init ==
  /\ view   = [p \in Page |-> 0]
  /\ saved  = [p \in Page |-> 0]
  /\ status = "up"

Change ==
  /\ status = "up"
  /\ \E p \in Page : view' = [view EXCEPT ![p] = @ + 1]
  /\ UNCHANGED <<saved, status>>

Harden ==
  /\ status = "up"
  /\ saved' = view
  /\ UNCHANGED <<view, status>>

Crash ==
  /\ status = "up"
  /\ status' = "down"
  /\ view'   = saved
  /\ UNCHANGED saved

Restore ==
  /\ status = "down"
  /\ status' = "restored"
  /\ view'   = saved
  /\ UNCHANGED saved

StartOver ==
  /\ view'   = [p \in Page |-> 0]
  /\ saved'  = [p \in Page |-> 0]
  /\ status' = "up"

Next == Change \/ Harden \/ Crash \/ Restore \/ StartOver
Spec == Init /\ [][Next]_vars
===============================================================================
