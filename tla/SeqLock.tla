-------------------------------- MODULE SeqLock --------------------------------
(***************************************************************************)
(* The lab of SeqlockFenceLab.tsx: one writer and one reader of a record   *)
(* <<a, b>> under a sequence lock, on two memory models.  A schedule of    *)
(* the lab gives every store and load a time; all that comes of the times  *)
(* is in which order the stores become visible and the loads are           *)
(* satisfied, and that order is what the steps here choose.                *)
(***************************************************************************)
EXTENDS Integers, FiniteSets

VARIABLES
  machine,   \* "weak" or "tso"
  fences,    \* those that are in place
  visible,   \* the stores the reader's core can see
  loaded     \* the values of the loads that were satisfied

seqVars == <<machine, fences, visible, loaded>>

Fence == {"wmbBegin", "wmbEnd", "rmb", "realRecheck"}

STORES == <<[loc |-> "seq", val |-> 1], [loc |-> "a", val |-> 2],
            [loc |-> "b", val |-> 2], [loc |-> "seq", val |-> 2]>>
LOADS  == <<"seq", "a", "b", "seq">>
INITIAL == [seq |-> 0, a |-> 1, b |-> 1]

NothingLoaded == [j \in {} |-> 0]

SeqInit ==
  /\ machine \in {"weak", "tso"}
  /\ fences \in SUBSET Fence
  /\ visible = {} /\ loaded = NothingLoaded

-------------------------------------------------------------------------------
(* visibleTimes(): <<i, j>> when store j is not visible before store i.    *)
VisibleBefore ==
  IF machine = "tso" THEN {e \in (1 .. 4) \X (1 .. 4) : e[1] < e[2]}
  ELSE {<<1, 4>>}
       \cup (IF "wmbBegin" \in fences THEN {<<1, 2>>, <<1, 3>>} ELSE {})
       \cup (IF "wmbEnd" \in fences THEN {<<2, 4>>, <<3, 4>>} ELSE {})

valueAt(loc) ==
  LET seen == {i \in visible : STORES[i].loc = loc}
  IN  IF seen = {} THEN INITIAL[loc]
      ELSE STORES[CHOOSE i \in seen : \A j \in seen : j <= i].val

(* loadTimes(): the loads that are satisfied before load j.  The re-check  *)
(* may run ahead of the payload if nothing holds it back.                  *)
LoadedBefore(j) ==
  IF j = 4 /\ machine = "weak" /\ "rmb" \notin fences THEN {1} ELSE 1 .. j - 1

Issued == IF "realRecheck" \in fences THEN 1 .. 4 ELSE 1 .. 3
Odd    == 1 \in DOMAIN loaded /\ loaded[1] % 2 = 1

BecomesVisible(i) ==
  /\ i \notin visible
  /\ \A e \in VisibleBefore : e[2] = i => e[1] \in visible
  /\ visible' = visible \cup {i}
  /\ UNCHANGED <<machine, fences, loaded>>

Load(j) ==
  /\ j \in Issued \ DOMAIN loaded
  /\ LoadedBefore(j) \subseteq DOMAIN loaded
  /\ ~Odd
  /\ loaded' = [k \in DOMAIN loaded \cup {j} |->
                  IF k = j THEN valueAt(LOADS[j]) ELSE loaded[k]]
  /\ UNCHANGED <<machine, fences, visible>>

(* Another schedule, or another set of fences.                             *)
Reschedule ==
  /\ machine' \in {"weak", "tso"}
  /\ fences' \in SUBSET Fence
  /\ visible' = {} /\ loaded' = NothingLoaded

SeqStep ==
  \/ \E i \in 1 .. 4 : BecomesVisible(i)
  \/ \E j \in 1 .. 4 : Load(j)
  \/ Reschedule

-------------------------------------------------------------------------------
(* evaluate(): a re-check that the compiler has merged with the first load *)
(* finds what that found.                                                  *)
Recheck == IF "realRecheck" \in fences THEN loaded[4] ELSE loaded[1]

outcome ==
  CASE Odd                            -> "odd"
    [] ~Odd /\ DOMAIN loaded # Issued -> "running"
    [] OTHER ->
         IF Recheck # loaded[1] THEN "recheck"
         ELSE IF loaded[2] = loaded[3] THEN "consistent" ELSE "torn"

SeqTypeOK ==
  /\ machine \in {"weak", "tso"} /\ fences \in SUBSET Fence
  /\ visible \subseteq 1 .. 4 /\ DOMAIN loaded \subseteq 1 .. 4

(* With every fence of the machine in place - on TSO the stores and loads  *)
(* keep their order by themselves, and only the compiler must be held back *)
(* - a record the reader accepts is the whole record of the sequence       *)
(* number it began with, wherever the stores and loads fell.               *)
AcceptedIsWhole ==
  LET needed == IF machine = "tso" THEN {"realRecheck"} ELSE Fence
  IN  outcome \in {"consistent", "torn"} /\ needed \subseteq fences =>
        /\ loaded[2] = loaded[3]
        /\ loaded[2] = (IF loaded[1] = 0 THEN 1 ELSE 2)
===============================================================================
