---------------------------- MODULE LatchProtocols ----------------------------
(***************************************************************************)
(* The lab of BLinkLatchProtocolLab.tsx: one inserter and one reader race  *)
(* down the tree under the protocol that is selected, until somebody       *)
(* selects another, flips a switch or presses Reset.  The four protocols   *)
(* are the modules instantiated here; what one of them does not use keeps  *)
(* its initial value, and a switch is flipped only where it is shown.      *)
(***************************************************************************)
EXTENDS LatchedTree

CONSTANT Protocols   \* the protocols offered

ASSUME ProtocolsAssumption == Protocols \subseteq {"crab", "innodb", "olc", "blink"}

VARIABLES
  protocol,
  optimistic, pessimistic,     \* LatchCrabbing
  v56, plan,                   \* InnodbIndexLock
  vAt, vParent, spec,          \* OptimisticCoupling
  checks, goal, stack,         \* BlinkTree
  parent, child                \* fields of a thread several protocols use

Switches == <<protocol, optimistic, v56, checks>>
Threads  == <<pessimistic, plan, vAt, vParent, spec, goal, stack, parent, child>>
vars     == <<treeVars, Switches, Threads>>

Crab   == INSTANCE LatchCrabbing
Innodb == INSTANCE InnodbIndexLock
Olc    == INSTANCE OptimisticCoupling
Blink  == INSTANCE BlinkTree

(* A protocol with its own switch in either position, the others as the   *)
(* lab starts.                                                            *)
Config ==
  {c \in [protocol : Protocols, optimistic : BOOLEAN, v56 : BOOLEAN,
          checks : BOOLEAN] :
     /\ c.protocol # "crab"   => ~c.optimistic
     /\ c.protocol # "innodb" => ~c.v56
     /\ c.protocol # "blink"  => c.checks}

Init ==
  /\ InitTree
  /\ \E c \in Config : /\ protocol   = c.protocol
                       /\ optimistic = c.optimistic
                       /\ v56        = c.v56
                       /\ checks     = c.checks
  /\ pessimistic = FALSE
  /\ plan    = <<>>
  /\ vAt     = [t \in Tid |-> 0]
  /\ vParent = [t \in Tid |-> 0]
  /\ spec    = FALSE
  /\ goal    = [t \in Tid |-> None]
  /\ stack   = <<>>
  /\ parent  = [t \in Tid |-> None]
  /\ child   = None

(* The Reset button, the protocol and switch buttons, the key and parent   *)
(* choices: each starts the race again.                                    *)
Reset ==
  /\ ResetTree
  /\ \E c \in Config : /\ protocol'   = c.protocol
                       /\ optimistic' = c.optimistic
                       /\ v56'        = c.v56
                       /\ checks'     = c.checks
  /\ pessimistic' = FALSE
  /\ plan'    = <<>>
  /\ vAt'     = [t \in Tid |-> 0]
  /\ vParent' = [t \in Tid |-> 0]
  /\ spec'    = FALSE
  /\ goal'    = [t \in Tid |-> None]
  /\ stack'   = <<>>
  /\ parent'  = [t \in Tid |-> None]
  /\ child'   = None

CrabStep(t) ==
  /\ protocol = "crab"
  /\ Crab!Step(t)
  /\ UNCHANGED <<protocol, v56, checks, plan, vAt, vParent, spec, goal, stack,
                 parent, child>>

InnodbStep(t) ==
  /\ protocol = "innodb"
  /\ Innodb!Step(t)
  /\ UNCHANGED <<protocol, optimistic, checks, pessimistic, vAt, vParent, spec,
                 goal, stack>>

OlcStep(t) ==
  /\ protocol = "olc"
  /\ Olc!Step(t)
  /\ UNCHANGED <<Switches, pessimistic, plan, goal, stack, child>>

BlinkStep(t) ==
  /\ protocol = "blink"
  /\ Blink!Step(t)
  /\ UNCHANGED <<protocol, optimistic, v56, pessimistic, plan, vAt, vParent,
                 spec, parent>>

Step(t) == CrabStep(t) \/ InnodbStep(t) \/ OlcStep(t) \/ BlinkStep(t)

Next == (\E t \in Tid : Step(t)) \/ Reset

(* Whoever runs the race keeps stepping both threads. *)
Spec == Init /\ [][Next]_vars /\ \A t \in Tid : WF_vars(Step(t))

-------------------------------------------------------------------------------
(* Key 30 is in the tree from the beginning, so a reader that has returned *)
(* has found it wherever a split has moved it meanwhile - under B-link     *)
(* provided it checks high keys.  Crabbing latches the child before it     *)
(* lets the parent go, so a split never slips in between a thread and the  *)
(* page it is about to enter: the page covers its key at all times.        *)
ReaderFinds ==
  /\ pc["R"] = "done" /\ (protocol = "blink" => checks) => found
  /\ protocol = "crab" => Crab!PageCoversKey

(* Only the holder of a page's X latch changes it: what a writer kept on   *)
(* its way down (crabbing), predicted before the split (InnoDB), locked by *)
(* version (optimistic) or still holds when it posts the downlink (B-link) *)
(* covers everything its split turns out to change.  A change of a page    *)
(* moves its version, so an optimistic reader that remembers the version   *)
(* has seen the page as it is.                                             *)
ChangesLatched ==
  [][Reset \/ /\ OnlyLatchedChange
              /\ protocol = "olc" => Olc!VersionsMove]_vars

(* Latches are asked for in the protocol's order: InnoDB 5.7 top-down and  *)
(* left to right, index->lock first; B-link right or up, so nothing is     *)
(* held on the way down.                                                   *)
LatchOrder ==
  [][Reset \/ /\ protocol = "innodb" /\ ~v56 => Innodb!TopDownLeftToRight
              /\ protocol = "blink" => Blink!RightOrUp]_vars

(* Both threads come to their end under every protocol - no deadlock, no   *)
(* endless restarts - unless somebody keeps pressing Reset for ever.       *)
BothEnd == []<><<Reset>>_vars \/ <>[](\A t \in Tid : pc[t] = "done")
===============================================================================
