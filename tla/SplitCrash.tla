------------------------------- MODULE SplitCrash -----------------------------
(***************************************************************************)
(* The lab of SplitCrashRecoveryLab.tsx: inserting 25 splits leaf 2 of a   *)
(* B-link tree, leaf 4 is new, leaf 5 its old right sibling.  Three ways   *)
(* of logging the split make its page changes durable in different steps;  *)
(* the user crashes after any of them, restarts, descends for keys and     *)
(* lets an inserter finish a split it finds unfinished.                    *)
(***************************************************************************)
EXTENDS Integers, Sequences, SequencesExt, FiniteSets

VARIABLES
  engine, crashAt,
  extraDown,      \* an insert has posted the missing downlink
  rolledBack

splitVars == <<engine, crashAt, extraDown, rolledBack>>

BLK_L   == 2
BLK_R   == 4
BLK_SIB == 5
P_NONE  == 0
SEP     == 30
OLD_HIGH == 60
NEW_KEY == 25

(* What is durable after each step. *)
SPLIT      == {"left", "right", "sib", "flag"}
SPLIT_DOWN == {"left", "right", "sib", "down"}
DONE       == SPLIT_DOWN \cup {"commit"}

ENGINES ==
  [nbtree |-> <<{}, {}, SPLIT, SPLIT, SPLIT_DOWN, DONE, DONE>>,
   innodb |-> <<{}, {}, SPLIT_DOWN, DONE, DONE>>,
   naive  |-> <<{"left"}, {"left", "right"}, {"left", "right", "sib"}, SPLIT_DOWN, DONE>>]

Eff(e, n) == IF n = 0 THEN {} ELSE ENGINES[e][n]
eff       == Eff(engine, crashAt)

SplitInit ==
  engine = "nbtree" /\ crashAt = 3 /\ extraDown = FALSE /\ rolledBack = FALSE

-------------------------------------------------------------------------------
(* build(): the tree the durable changes make, with the downlink the last  *)
(* insert may have added.                                                  *)
Down == "down" \in eff \/ extraDown

Root == IF Down THEN <<BLK_L, BLK_R, BLK_SIB>> ELSE <<BLK_L, BLK_SIB>>
Separator(blk) == CASE blk = BLK_L -> 0 [] blk = BLK_R -> SEP [] blk = BLK_SIB -> OLD_HIGH

LeafPage(keys, high, next, prev) ==
  [exists |-> TRUE, keys |-> keys, high |-> high, next |-> next, prev |-> prev,
   flag |-> FALSE]

leaf(blk) ==
  CASE blk = BLK_L ->
         IF "left" \in eff
           THEN [LeafPage({10, 20, 25}, SEP, BLK_R, P_NONE)
                   EXCEPT !.flag = "flag" \in eff /\ ~Down]
           ELSE LeafPage({10, 20, 30, 40}, OLD_HIGH, BLK_SIB, P_NONE)
    [] blk = BLK_R ->
         [LeafPage({30, 40}, OLD_HIGH, BLK_SIB, BLK_L) EXCEPT !.exists = "right" \in eff]
    [] blk = BLK_SIB ->
         LeafPage({60, 70, 80}, P_NONE, P_NONE, IF "sib" \in eff THEN BLK_R ELSE BLK_L)

(* descend(): the last downlink at or below the key, then right for as     *)
(* long as the key is not below the high key.  An insert finishes a split  *)
(* that is flagged unfinished on any page it reads.                        *)
Descent(key, followRight, mode, repairOn) ==
  LET from[blk \in {BLK_L, BLK_R, BLK_SIB}] ==
        LET page   == leaf(blk)
            mends  == mode = "insert" /\ page.flag /\ repairOn
            At(what) == [result |-> what, hops |-> 1, repaired |-> mends]
        IN  IF ~page.exists THEN [At("deadend") EXCEPT !.repaired = FALSE]
            ELSE IF page.high # P_NONE /\ key >= page.high
              THEN IF ~followRight \/ page.next = P_NONE THEN At("missing")
                   ELSE [from[page.next] EXCEPT !.hops = @ + 1,
                                                !.repaired = @ \/ mends]
            ELSE At(IF key \in page.keys THEN "found" ELSE "missing")
  IN  from[Root[SelectLastInSeq(Root, LAMBDA b : key >= Separator(b))]]

verdictOf(e, down) ==
  CASE "left" \notin e /\ "right" \notin e -> "none"
    [] "left" \in e /\ "right" \notin e    -> "dangling"
    [] "left" \notin e /\ "right" \in e    -> "orphan"
    [] {"left", "right"} \subseteq e ->
         IF "sib" \notin e THEN "backlink"
         ELSE IF "down" \in e \/ down THEN "clean"
         ELSE IF "flag" \in e THEN "incomplete" ELSE "silent"

verdict == verdictOf(eff, extraDown)

-------------------------------------------------------------------------------
(* Another engine or crash point, or Reset: restart from what is durable.  *)
Restart ==
  /\ engine'  \in DOMAIN ENGINES
  /\ crashAt' \in 0 .. Len(ENGINES[engine'])
  /\ extraDown' = FALSE /\ rolledBack' = FALSE

searchKey == {25, 30, 40, 70}

doDescend ==
  /\ \E key \in searchKey, followRight \in BOOLEAN, mode \in {"read", "insert"},
        repairOn \in BOOLEAN :
       extraDown' = (extraDown \/ Descent(key, followRight, mode, repairOn).repaired)
  /\ UNCHANGED <<engine, crashAt, rolledBack>>

RollBack ==
  /\ "left" \in eff /\ ~rolledBack
  /\ rolledBack' = TRUE
  /\ UNCHANGED <<engine, crashAt, extraDown>>

SplitStep == Restart \/ doDescend \/ RollBack

-------------------------------------------------------------------------------
SplitTypeOK ==
  /\ engine \in DOMAIN ENGINES /\ crashAt \in 0 .. Len(ENGINES[engine])
  /\ extraDown \in BOOLEAN /\ rolledBack \in BOOLEAN

(* The keys the index should have, those that a search finds and those     *)
(* that it finds without a side step.                                      *)
Entered == {10, 20, 30, 40, 60, 70, 80} \cup (IF "left" \in eff THEN {NEW_KEY} ELSE {})
Reached(followRight) ==
  {k \in Entered : Descent(k, followRight, "read", FALSE).result = "found"}

(* A scan from the last leaf to the first. *)
BackwardKeys ==
  LET upto[blk \in {BLK_L, BLK_R, BLK_SIB}] ==
        leaf(blk).keys \cup (IF leaf(blk).prev = P_NONE THEN {} ELSE upto[leaf(blk).prev])
  IN  upto[BLK_SIB]

(* What the lab says of the tree that came back is what descents and scans *)
(* find: every key in all but one case, every one in two hops exactly when *)
(* it calls the tree clean or unsplit, every one backwards except over a   *)
(* stale back link or a void; an insert finishes exactly the splits that   *)
(* are called incomplete, whatever it is looking for on the way through.   *)
VerdictTells ==
  /\ Reached(TRUE) = Entered <=> verdict # "dangling"
  /\ Reached(FALSE) = Entered <=> verdict \in {"none", "clean"}
  /\ BackwardKeys = Entered <=> verdict \notin {"dangling", "backlink"}
  /\ \A k \in {10, 25, 40} :
       Descent(k, TRUE, "insert", TRUE).repaired <=> verdict = "incomplete"

(* One record for the split, or one group for all of it, leaves a tree     *)
(* without loss at every crash point; a committed key is in the index.     *)
LoggedTogether ==
  engine # "naive" =>
    /\ verdict \in {"none", "incomplete", "clean"}
    /\ "commit" \in eff => {NEW_KEY} \subseteq Reached(FALSE)
===============================================================================
