------------------------------ MODULE ClockSweep ------------------------------
(***************************************************************************)
(* What the clock sweep of the buffer pool returns, without its loop: the  *)
(* victim, the usage counts it leaves behind and where the hand stops.     *)
(* A pool of size frames is a ring; cand is the set of frames the sweep    *)
(* may take (unpinned, no I/O in progress), usage their usage counts and   *)
(* hand the frame the sweep looks at first.  SweepLoop is the loop of      *)
(* BufferFrameDescriptorLab.tsx itself, one descriptor after the other;    *)
(* BufferPool checks in every state it reaches that the two agree.         *)
(***************************************************************************)
EXTENDS Integers

(* How many frames the hand passes before it looks at frame f. *)
Distance(f, hand, size) == (f + size - hand) % size

(* The sweep decrements every candidate it passes, so it stops at the one  *)
(* with the smallest count, and among those at the one nearest the hand.   *)
IsVictim(v, cand, usage, hand, size) ==
  /\ v \in cand
  /\ \A f \in cand :
        \/ usage[v] < usage[f]
        \/ /\ usage[v] = usage[f]
           /\ Distance(v, hand, size) <= Distance(f, hand, size)

(* usage[v] full turns decrement every candidate; the last turn decrements *)
(* once more the candidates that lie between the hand and the victim.      *)
UsageAfter(f, v, cand, usage, hand, size) ==
  IF f \notin cand THEN usage[f]
  ELSE IF Distance(f, hand, size) < Distance(v, hand, size)
       THEN usage[f] - usage[v] - 1
       ELSE usage[f] - usage[v]

HandAfter(v, size) == (v + 1) % size

-------------------------------------------------------------------------------
NoFrame == -1

(* A bug: one turn too few for a pool whose every count is at its maximum. *)
OneTurnShort(size, maxUsage) == size * maxUsage
(* The loop's bound: maxUsage + 1 turns. *)
Limit(size, maxUsage) == size * (maxUsage + 1)

(* One turn of the while loop at the descriptor under the hand. *)
Probe(s, cand, size) ==
  IF s.chosen # NoFrame THEN s
  ELSE LET f == s.hand
       IN [usage  |-> IF f \in cand /\ s.usage[f] # 0
                      THEN [s.usage EXCEPT ![f] = @ - 1] ELSE s.usage,
           hand   |-> (f + 1) % size,
           chosen |-> IF f \in cand /\ s.usage[f] = 0 THEN f ELSE NoFrame]

SweepLoop(cand, usage, hand, size, maxUsage) ==
  LET n == Limit(size, maxUsage)
      after[k \in 0 .. n] ==
        IF k = 0 THEN [usage |-> usage, hand |-> hand, chosen |-> NoFrame]
        ELSE Probe(after[k - 1], cand, size)
  IN after[n]
===============================================================================
