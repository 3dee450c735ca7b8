----------------------------- MODULE CatalogCache -----------------------------
(***************************************************************************)
(* CatalogBootstrapInvalidationLab.tsx: backend A runs DDL on a table in   *)
(* scripts of one to three transactions, backend B answers from its cached *)
(* entry of that table.  What A's commits invalidate goes into a ring that *)
(* B drains when it likes; B may fall off the ring, or start cold.         *)
(*                                                                         *)
(* A definition of the table is what the lab compares: its columns, its    *)
(* indexes, each with indisvalid, its statistics.  Of the messages B has   *)
(* not read it matters which kinds are among them.  The catalog's row      *)
(* versions, the file numbers and indisready are only displayed and are    *)
(* left out.                                                               *)
(***************************************************************************)
EXTENDS Integers, Sequences

CONSTANTS
  Columns,      \* columns of the table to begin with
  MaxColumns,   \* bound: columns ever added
  MaxIndexes,   \* bound: indexes created
  BOOT          \* phases of a cold start

CatalogAssumption ==
  /\ Columns \in Nat \ {0} /\ MaxColumns \in Nat /\ MaxIndexes \in Nat
  /\ BOOT \in Nat \ {0}

VARIABLES
  ddl, stepIx,          \* the script of A and its next step
  committed, working,   \* the definition for others, and for A
  aOpen, pending,       \* A's transaction, and its private messages
  unread,               \* the kinds of messages B has not read
  bEntry, bValid,       \* B's cached definition
  bReset,               \* B has fallen off the ring
  bMapStale,            \* B would open the old file of pg_class
  bLocked,              \* B holds a transaction open on the table
  booting, boot,        \* B is starting
  initFile              \* pg_internal.init is there

catalogVars == <<ddl, stepIx, committed, working, aOpen, pending, unread, bEntry,
                 bValid, bReset, bMapStale, bLocked, booting, boot, initFile>>

Schema0 == [natts |-> Columns, dropped |-> {}, idx |-> <<>>, hasStats |-> FALSE]
Absent  == [natts |-> 0]     \* no entry

(* Steps of a script: an operation, or the commit of the transaction. *)
Scripts ==
  [addcol    |-> <<"add column", "commit">>,
   dropcol   |-> <<"drop column", "commit">>,
   createidx |-> <<"create index", "commit">>,
   cic       |-> <<"publish index", "commit and wait", "set ready", "commit",
                   "set valid", "commit">>,
   analyze   |-> <<"analyze", "commit">>,
   vacfull   |-> <<"rewrite pg_class", "commit">>]
Ddl == DOMAIN Scripts

(* DDL_LOCK: what conflicts with the lock of a reader. *)
Conflicts(d) == d \in {"addcol", "dropcol"}

Op == Scripts[ddl][stepIx + 1]
Commits(op) == op \in {"commit", "commit and wait"}

CatalogInit ==
  /\ ddl = "addcol" /\ stepIx = 0
  /\ committed = Schema0 /\ working = Schema0
  /\ aOpen = FALSE /\ pending = {}
  /\ unread = {}
  /\ bEntry = Schema0 /\ bValid = TRUE
  /\ bReset = FALSE /\ bMapStale = FALSE /\ bLocked = FALSE
  /\ booting = FALSE /\ boot = 0
  /\ initFile = TRUE

bVars == <<bEntry, bValid, bReset>>

-------------------------------------------------------------------------------
Droppable == (2 .. working.natts) \ working.dropped
Lowest(s) == CHOOSE c \in s : \A d \in s : c <= d
LastIdx   == Len(working.idx)

Changed(op) ==
  CASE op = "add column"   -> [working EXCEPT !.natts = @ + 1]
    [] op = "drop column"  -> IF Droppable = {} THEN working
                              ELSE [working EXCEPT !.dropped = @ \cup {Lowest(Droppable)}]
    [] op = "create index" -> [working EXCEPT !.idx = Append(@, TRUE)]
    [] op = "publish index" -> [working EXCEPT !.idx = Append(@, FALSE)]
    [] op = "set valid"    -> IF LastIdx = 0 THEN working
                              ELSE [working EXCEPT !.idx[LastIdx] = TRUE]
    [] op = "analyze"      -> [working EXCEPT !.hasStats = TRUE]
    [] OTHER               -> working

(* A bug: an index that becomes valid changes nothing a reader has cached. *)
MessagesOfRows(op) ==
  CASE op = "rewrite pg_class" -> {"map"}
    [] op = "set valid"        -> {}
    [] OTHER                   -> {"entry"}

(* The kinds of message the cached entry depends on: those that make it    *)
(* invalid (relcache, catcache), and those that move pg_class (relmap).    *)
Messages(op) ==
  CASE op = "rewrite pg_class"                -> {"map"}
    [] op = "drop column"                     -> IF Droppable = {} THEN {} ELSE {"entry"}
    [] op \in {"set ready", "set valid"}      -> IF LastIdx = 0 THEN {} ELSE {"entry"}
    [] OTHER                                  -> {"entry"}

(* B's transaction keeps A from its lock, or from ending its wait. *)
Stalled == /\ bLocked
           /\ (Conflicts(ddl) /\ stepIx = 0) \/ Op = "commit and wait"

InBounds == /\ Op = "add column" => working.natts < MaxColumns
            /\ Op \in {"create index", "publish index"} => LastIdx < MaxIndexes

Execute ==
  /\ ~Commits(Op)
  /\ working' = Changed(Op)
  /\ pending' = pending \cup Messages(Op)
  /\ aOpen' = TRUE
  /\ UNCHANGED <<committed, unread, bMapStale, initFile>>

(* Everything pending goes into the ring at once. *)
CommitA ==
  /\ Commits(Op)
  /\ committed' = working
  /\ unread' = unread \cup pending
  /\ bMapStale' = (bMapStale \/ "map" \in pending)
  /\ pending' = {}
  /\ aOpen' = FALSE
  /\ initFile' = FALSE
  /\ UNCHANGED working

stepA ==
  /\ ~booting /\ ~Stalled /\ InBounds
  /\ Execute \/ CommitA
  /\ stepIx' = (stepIx + 1) % Len(Scripts[ddl])
  /\ UNCHANGED <<ddl, bVars, bLocked, booting, boot>>

(* Another statement is chosen, in the middle of a transaction too. *)
ChooseDdl ==
  /\ ddl' \in Ddl \ {ddl} /\ stepIx' = 0
  /\ UNCHANGED <<committed, working, aOpen, pending, unread, bVars, bMapStale,
                 bLocked, booting, boot, initFile>>

HoldOpen ==
  /\ bLocked' = ~bLocked
  /\ UNCHANGED <<ddl, stepIx, committed, working, aOpen, pending, unread, bVars,
                 bMapStale, booting, boot, initFile>>

-------------------------------------------------------------------------------
aVars == <<ddl, stepIx, committed, working, aOpen, pending, bLocked>>

acceptReset ==
  /\ bReset
  /\ bEntry' = Absent /\ bValid' = FALSE /\ bReset' = FALSE
  /\ bMapStale' = FALSE
  /\ unread' = {}

acceptMessages ==
  /\ ~bReset /\ unread # {}
  /\ bValid' = (bValid /\ "entry" \notin unread)
  /\ bMapStale' = (bMapStale /\ "map" \notin unread)
  /\ unread' = {}
  /\ UNCHANGED <<bEntry, bReset>>

acceptB ==
  /\ ~booting
  /\ acceptReset \/ acceptMessages
  /\ UNCHANGED <<aVars, booting, boot, initFile>>

(* A read that finds no entry or an invalid one rebuilds it. *)
readB ==
  /\ ~booting /\ ~bReset /\ ~bMapStale
  /\ ~(aOpen /\ Conflicts(ddl))
  /\ bEntry = Absent \/ ~bValid
  /\ bEntry' = committed /\ bValid' = TRUE
  /\ UNCHANGED <<aVars, unread, bReset, bMapStale, booting, boot, initFile>>

flood ==
  /\ ~booting
  /\ unread' = unread \cup {"entry"}
  /\ bReset' = TRUE
  /\ UNCHANGED <<aVars, bEntry, bValid, bMapStale, booting, boot, initFile>>

cold ==
  /\ ~booting
  /\ booting' = TRUE /\ boot' = 0
  /\ bEntry' = Absent /\ bValid' = FALSE /\ bReset' = FALSE /\ bMapStale' = FALSE
  /\ unread' = {}
  /\ UNCHANGED <<aVars, initFile>>

bootStep ==
  /\ booting
  /\ boot' = boot + 1
  /\ booting' = (boot' < BOOT)
  /\ IF booting' THEN UNCHANGED <<bEntry, bValid>>
                 ELSE bEntry' = committed /\ bValid' = TRUE
  /\ UNCHANGED <<aVars, unread, bReset, bMapStale, initFile>>

CatalogStep ==
  \/ stepA \/ ChooseDdl \/ HoldOpen
  \/ acceptB \/ readB \/ flood \/ cold \/ bootStep

-------------------------------------------------------------------------------
SchemaOK(s) ==
  /\ s.natts \in Columns .. MaxColumns /\ s.dropped \subseteq 2 .. s.natts
  /\ s.idx \in Seq(BOOLEAN) /\ Len(s.idx) <= MaxIndexes
  /\ s.hasStats \in BOOLEAN

CatalogTypeOK ==
  /\ ddl \in Ddl /\ stepIx \in 0 .. Len(Scripts[ddl]) - 1
  /\ SchemaOK(committed) /\ SchemaOK(working)
  /\ IF bEntry = Absent THEN ~bValid ELSE SchemaOK(bEntry)
  /\ {pending, unread} \subseteq SUBSET {"entry", "map"}
  /\ booting \in BOOLEAN /\ boot \in 0 .. BOOT /\ (booting => boot < BOOT)

(* fingerprint(): what the lab compares two definitions by. *)
fingerprint(s) ==
  [cols |-> (1 .. s.natts) \ s.dropped,
   idx  |-> {i \in DOMAIN s.idx : s.idx[i]},
   hasStats |-> s.hasStats]

(* B's entry may be out of date, but never without B finding out: a        *)
(* message that makes it invalid is unread, or a reset is pending.  And a  *)
(* read that has to wait for the file map is let through by what is        *)
(* unread.                                                                 *)
StaleIsFoundOut ==
  /\ bValid /\ ~bReset /\ "entry" \notin unread =>
       fingerprint(bEntry) = fingerprint(committed)
  /\ bMapStale => bReset \/ "map" \in unread
===============================================================================
