-------------------------------- MODULE KeyMap --------------------------------
(***************************************************************************)
(* What every keyed structure of the book promises: it is a map.  A write  *)
(* changes what is found under its own key, or under the keys of its       *)
(* batch, and nothing else does - not a reorganisation, not a crash and    *)
(* not a restart.                                                          *)
(***************************************************************************)
EXTENDS Integers, Sequences, TLC

CONSTANTS Key, Value

VARIABLE map

Init == map \in [Key -> Value]

(* A batch is a sequence of pairs of a key and what it is set to; the last *)
(* pair of a key counts.                                                   *)
After(batch) ==
  [k \in {batch[i][1] : i \in DOMAIN batch} |->
     batch[CHOOSE i \in DOMAIN batch :
             batch[i][1] = k /\ \A j \in DOMAIN batch : batch[j][1] = k => j <= i][2]]
  @@ map

SetAll(batch) == map' = After(batch)
Set(k, v)     == SetAll(<< <<k, v>> >>)
Keep          == UNCHANGED map

Next == \E k \in Key, v \in Value : Set(k, v)
Spec == Init /\ [][Next]_map
===============================================================================
