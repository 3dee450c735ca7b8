------------------------------ MODULE FileReplace ------------------------------
(***************************************************************************)
(* The puzzle of CrashReplaceOrderingPuzzle.tsx: a program of system calls *)
(* that replaces a file, and every image of the disk a crash after each of *)
(* them may leave, on six file systems.                                    *)
(*                                                                         *)
(* The program is the state: it is loaded or edited call by call.  File    *)
(* system, target and crash point only choose what is shown; what is shown *)
(* is stated for all of them.                                              *)
(***************************************************************************)
EXTENDS Integers, Sequences, SequencesExt, FiniteSets

CONSTANTS
  Calls,      \* the calls that may be added
  MaxSteps    \* bound: calls in a program that one is added to

VARIABLE steps

(* What is made durable: the units each call issues, and those it forces.  *)
Unit == {"E", "D", "I", "R", "U", "T", "C0", "C1", "IC"}
Meta == Unit \ {"D", "C0", "C1"}

issues ==
  [creat |-> <<"E">>, write |-> <<"D", "I">>, fsyncTmp |-> <<>>,
   rename |-> <<"R">>, fsyncDir |-> <<>>, unlink |-> <<"U">>,
   trunc |-> <<"T">>, writeCfg |-> <<"C0", "C1", "IC">>, fsyncCfg |-> <<>>]

forces ==
  [c \in DOMAIN issues |->
     CASE c = "fsyncTmp" -> {"D", "I"}
       [] c = "fsyncDir" -> {"E", "R", "U"}
       [] c = "fsyncCfg" -> {"T", "C0", "C1", "IC"}
       [] OTHER          -> {}]

(* The file systems.  order: what must be durable in the order it was      *)
(* issued; delalloc: extents come last; orderedData: new data goes before  *)
(* what exposes it; oneJournal: any fsync forces all earlier metadata.     *)
Mode(order, delalloc, orderedData, oneJournal) ==
  [order |-> order, delalloc |-> delalloc, orderedData |-> orderedData,
   oneJournal |-> oneJournal]

Ext4Ordered == Mode(Meta, TRUE, TRUE, TRUE)
Xfs         == Mode(Meta, TRUE, FALSE, TRUE)   \* and ext4 data=writeback
Cow         == Mode(Unit, FALSE, FALSE, TRUE)  \* and ext4 data=journal
Posix       == Mode({}, TRUE, FALSE, FALSE)

MODES == {Ext4Ordered, Xfs, Cow, Posix}

PLANS ==
  { <<"trunc", "writeCfg", "fsyncCfg">>,
    <<"creat", "write", "rename">>,
    <<"creat", "write", "fsyncTmp", "rename">>,
    <<"creat", "write", "fsyncTmp", "rename", "fsyncDir">>,
    <<"creat", "write", "rename", "fsyncTmp", "fsyncDir">>,
    <<"unlink", "creat", "write", "fsyncTmp", "rename">> }

FileInit == steps = <<"creat", "write", "rename">>

-------------------------------------------------------------------------------
SetPlan == steps' \in PLANS

Swapped(i, j) == [steps EXCEPT ![i] = steps[j], ![j] = steps[i]]

Move       == \E i \in 2 .. Len(steps) : steps' = Swapped(i - 1, i)
RemoveCall == \E i \in DOMAIN steps : steps' = RemoveAt(steps, i)
Add        == Len(steps) < MaxSteps /\ \E c \in Calls : steps' = Append(steps, c)

FileStep == SetPlan \/ Move \/ RemoveCall \/ Add

-------------------------------------------------------------------------------
Target == {"replace", "create"}

Distinct(seq) ==
  FoldLeft(LAMBDA us, u : IF u \in ToSet(us) THEN us ELSE Append(us, u), <<>>, seq)

(* issuedUnits(): the units of the first k calls in the order they may     *)
(* become durable.  An extent map exists once write-back runs.             *)
Issued(k) == Distinct(FlattenSeq([i \in 1 .. k |-> issues[steps[i]]]))

Late(u) == u \in {"I", "IC"}

Ordered(k, m) ==
  IF m.delalloc
    THEN SelectSeq(Issued(k), LAMBDA u : ~Late(u)) \o SelectSeq(Issued(k), Late)
    ELSE Issued(k)

(* A call forces what was issued before it. *)
Forced(k, m) ==
  UNION {ToSet(Issued(i)) \cap
           (forces[steps[i]] \cup IF m.oneJournal THEN Meta ELSE {}) :
         i \in {i \in 1 .. k : forces[steps[i]] # {}}}

(* dependencies(): a unit, and one that must be durable before it. *)
First(c) == SelectInSeq(steps, LAMBDA d : d = c)

Dependencies(m, target) ==
  IF ~m.orderedData THEN {}
  ELSE {<<"I", "D">>}
       \cup (IF target = "replace" THEN {<<"R", "D">>, <<"R", "I">>} ELSE {})
       \cup (IF First("trunc") > 0 /\ First("writeCfg") > First("trunc")
               THEN {<<"IC", "C0">>, <<"IC", "C1">>} ELSE {})

(* isLegal(), for a set S of the issued units us. *)
Legal(S, us, m, target) ==
  /\ \A d \in Dependencies(m, target) :
        d[1] \in S /\ d[2] \in ToSet(us) => d[2] \in S
  /\ \A i, j \in DOMAIN us :
        i < j /\ {us[i], us[j]} \subseteq m.order /\ us[j] \in S => us[i] \in S

(* enumerate(): the images a crash after k calls may leave. *)
Images(k, m, target) ==
  {S \in SUBSET ToSet(Issued(k)) :
     Forced(k, m) \subseteq S /\ Legal(S, Ordered(k, m), m, target)}

(* replay(): what the name reads as when the units of S are durable. *)
Replay(S, us, target) ==
  LET after(u, v) == u \in S /\ (v \in S => \E i, j \in DOMAIN us :
                                               us[i] = v /\ us[j] = u /\ i < j)
      pages == {c \in S \cap {"C0", "C1"} : ~after("T", c)}
  IN  CASE after("R", "U")                       ->
             IF "I" \notin S THEN "zero" ELSE IF "D" \in S THEN "new" ELSE "exposed"
        [] "U" \in S /\ ~after("R", "U")         -> "missing"
        [] {"R", "U"} \cap S = {} /\ target = "create" -> "missing"
        [] OTHER ->
             IF after("T", "IC") THEN "zero"
             ELSE CASE Cardinality(pages) = 2 -> "new"
                    [] Cardinality(pages) = 1 -> "torn"
                    [] OTHER -> IF "T" \in S THEN "exposed" ELSE "old"

Kinds(k, m, target) ==
  {Replay(S, Ordered(k, m), target) : S \in Images(k, m, target)}

Bad(target) ==
  {"zero", "exposed", "torn"} \cup IF target = "replace" THEN {"missing"} ELSE {}

CrashPoint == 0 .. Len(steps)

(* The verdict. *)
CorruptAnywhere(m, target) ==
  \E k \in CrashPoint : Kinds(k, m, target) \cap Bad(target) # {}

Durable(m, target) == Kinds(Len(steps), m, target) = {"new"}

-------------------------------------------------------------------------------
FileTypeOK == steps \in Seq(DOMAIN issues)

(* The safe-replace protocol: of all programs of these five calls, just    *)
(* those that write the file, fsync it, then first rename it and fsync the *)
(* directory are atomic and durable on every file system.                  *)
SafeReplace ==
  LET four == \E i, j \in DOMAIN steps :
                /\ First("write") \in 1 .. i - 1 /\ steps[i] = "fsyncTmp"
                /\ First("rename") \in i + 1 .. j - 1 /\ steps[j] = "fsyncDir"
  IN  ToSet(steps) \subseteq {"creat", "write", "fsyncTmp", "rename", "fsyncDir"}
      => \A target \in Target :
           four <=> \A m \in MODES : ~CorruptAnywhere(m, target) /\ Durable(m, target)

(* What the book says of the rename without an fsync: five images under    *)
(* data=ordered, all of them old or new, and eight on XFS.                 *)
RenameImages ==
  steps = <<"creat", "write", "rename">> =>
    /\ Cardinality(Images(3, Ext4Ordered, "replace")) = 5
    /\ Cardinality(Images(3, Xfs, "replace")) = 8
    /\ \A k \in CrashPoint : Kinds(k, Ext4Ordered, "replace") \subseteq {"old", "new"}
===============================================================================
