----------------------------- MODULE IndexOnlyScan -----------------------------
(***************************************************************************)
(* IndexOnlyScanVisibilityLab.tsx: an index on the orders of one customer, *)
(* and what lets a scan answer without visiting the table: the visibility  *)
(* map of the heap in PostgreSQL, the last transaction that changed the    *)
(* leaf page in InnoDB.  Which rows a statement hits is drawn from a       *)
(* seeded generator there and free here.                                   *)
(*                                                                         *)
(* Of a row's customer it only matters whether it is the one asked for,    *)
(* one with records on the same leaf page, or another.                     *)
(***************************************************************************)
EXTENDS Integers, Sequences, FiniteSets

CONSTANTS
  LAB_PAGES, ROWS_PER_PAGE,
  InitialRows,    \* rows the table is made with
  Hit,            \* rows one statement writes
  Choosable,      \* the columns whose role in the index is changed
  MAX_ENTRIES,
  MaxTrx          \* bound: transactions

ScanAssumption ==
  /\ {LAB_PAGES, ROWS_PER_PAGE, InitialRows, Hit, MAX_ENTRIES, MaxTrx} \subseteq Nat
  /\ ROWS_PER_PAGE > 0 /\ InitialRows \in 1 .. LAB_PAGES * ROWS_PER_PAGE

VARIABLES
  server,         \* "pg" or "innodb"
  def,            \* the role of each column in the index
  orders,         \* the rows, in the order of their ids: [who, status]
  vm, pageXid,    \* per heap page: all-visible bit, last writer
  leaf,           \* the index entries: [row, status, dead]
  leafMaxTrxId,
  nextTrx,
  ltxXid          \* the long-running transaction

tableVars == <<orders, vm, pageXid, leaf, leafMaxTrxId, nextTrx, ltxXid>>
scanVars  == <<server, def, tableVars>>

PayloadCol == {"id", "created_at", "status", "amount_cents", "note"}
Role       == {"off", "key", "include"}
Who        == {"customer", "neighbour", "other"}
Status     == {"open", "shipped"}
Page       == 0 .. LAB_PAGES - 1
BASE_XID   == 900
FIRST_XID  == 1000
None       == 0     \* no long transaction; an entry that is not dead

QUERIES ==
  {[select |-> {"created_at", "amount_cents"}, filterOpen |-> FALSE],
   [select |-> {},                             filterOpen |-> FALSE],
   [select |-> {"id", "status"},               filterOpen |-> FALSE],
   [select |-> PayloadCol,                     filterOpen |-> FALSE],
   [select |-> {"created_at"},                 filterOpen |-> TRUE]}

(* Pages are filled in order and rows never leave: a row's page.  *)
PageOf(row) == (row - 1) \div ROWS_PER_PAGE
RowId       == DOMAIN orders
PagesUsed   == PageOf(Len(orders)) + 1
Asked       == {r \in RowId : orders[r].who = "customer"}

Entry(row, status) == [row |-> row, status |-> status, dead |-> None]
EntriesOf(rs)      == {Entry(r, rs[r].status) : r \in {x \in DOMAIN rs : rs[x].who = "customer"}}

(* makeWorld(): loaded and vacuumed.  Reset makes the table anew. *)
ScanInit ==
  /\ server = "pg"
  /\ def = [c \in PayloadCol |-> "off"]
  /\ orders \in [1 .. InitialRows -> [who : Who, status : Status]]
  /\ \A r \in RowId \ Asked : orders[r].status = "shipped"
  /\ Asked # {}
  /\ vm = [p \in Page |-> p < PagesUsed]
  /\ pageXid = [p \in Page |-> BASE_XID]
  /\ leaf = EntriesOf(orders)
  /\ leafMaxTrxId = BASE_XID
  /\ nextTrx = FIRST_XID
  /\ ltxXid = None

-------------------------------------------------------------------------------
statusIndexed == def["status"] # "off"

(* A bug: a HOT update, which touches no index, leaves the bit set. *)
WrittenToIndex(pages) == [p \in Page |-> vm[p] /\ (p \notin pages \/ ~statusIndexed)]

Written(pages) == [p \in Page |-> vm[p] /\ p \notin pages]

Transaction ==
  /\ nextTrx < FIRST_XID + MaxTrx
  /\ Cardinality(leaf) < MAX_ENTRIES
  /\ nextTrx' = nextTrx + 1
  /\ UNCHANGED <<server, def, ltxXid>>

WritesTo(rs) ==
  LET pages == {PageOf(r) : r \in rs}
  IN  /\ vm' = Written(pages)
      /\ pageXid' = [p \in Page |-> IF p \in pages THEN nextTrx ELSE pageXid[p]]

OnLeaf(rs) == \E r \in rs : orders'[r].who \in {"customer", "neighbour"}

Toggled(s) == IF s = "open" THEN "shipped" ELSE "open"

(* UPDATE of the status of the chosen rows: HOT if status is not indexed,  *)
(* else every row gets a new entry and its old one dies.                   *)
applyUpdate(chosen) ==
  LET mine == {e \in leaf : e.row \in chosen /\ e.dead = None}
  IN
  /\ Transaction
  /\ orders' = [r \in RowId |-> IF r \in chosen
                  THEN [orders[r] EXCEPT !.status = Toggled(@)] ELSE orders[r]]
  /\ WritesTo(chosen)
  /\ IF statusIndexed
       THEN /\ leaf' = (leaf \ mine)
                       \cup {[e EXCEPT !.dead = nextTrx] : e \in mine}
                       \cup {Entry(r, orders'[r].status) : r \in chosen \cap Asked}
            /\ leafMaxTrxId' = IF OnLeaf(chosen) THEN nextTrx ELSE leafMaxTrxId
       ELSE UNCHANGED <<leaf, leafMaxTrxId>>

Some(pool) ==
  {s \in SUBSET pool : Cardinality(s) = IF Cardinality(pool) < Hit
                                        THEN Cardinality(pool) ELSE Hit}

(* INSERT at the tail of the heap, as many as there is room for. *)
applyInsert(who) ==
  LET room  == LAB_PAGES * ROWS_PER_PAGE - Len(orders)
      added == [i \in 1 .. (IF room < Hit THEN room ELSE Hit) |->
                  [who |-> who, status |-> "open"]]
      new   == Len(orders) + 1 .. Len(orders) + Len(added)
  IN
  /\ room > 0
  /\ Transaction
  /\ orders' = orders \o added
  /\ WritesTo(new)
  /\ leaf' = leaf \cup (IF who = "customer" THEN {Entry(r, "open") : r \in new} ELSE {})
  /\ leafMaxTrxId' = IF OnLeaf(new) THEN nextTrx ELSE leafMaxTrxId

(* VACUUM or purge: what died before the horizon goes; VACUUM sets the bit *)
(* of a page whose last writer is behind it.                               *)
applyVacuum ==
  LET horizon == IF ltxXid = None THEN nextTrx ELSE ltxXid
  IN
  /\ leaf' = {e \in leaf : e.dead = None \/ e.dead >= horizon}
  /\ vm' = IF server = "innodb" THEN vm
           ELSE [p \in Page |-> vm[p] \/ (p < PagesUsed /\ pageXid[p] < horizon)]
  /\ UNCHANGED <<server, def, orders, pageXid, leafMaxTrxId, nextTrx, ltxXid>>

setLongTxn ==
  /\ IF ltxXid = None
       THEN /\ nextTrx < FIRST_XID + MaxTrx
            /\ ltxXid' = nextTrx /\ nextTrx' = nextTrx + 1
       ELSE ltxXid' = None /\ UNCHANGED nextTrx
  /\ UNCHANGED <<server, def, orders, vm, pageXid, leaf, leafMaxTrxId>>

(* Another definition is another index: built of the rows that live. *)
setRole(c, role) ==
  /\ role = "include" => server = "pg"
  /\ def' = [def EXCEPT ![c] = role]
  /\ leaf' = EntriesOf(orders)
  /\ UNCHANGED <<server, orders, vm, pageXid, leafMaxTrxId, nextTrx, ltxXid>>

SetEngine ==
  /\ server' \in {"pg", "innodb"} \ {server}
  /\ UNCHANGED <<def, tableVars>>

ScanStep ==
  \/ \E pool \in {RowId, Asked} : \E s \in Some(pool) : applyUpdate(s)
  \/ \E w \in Who : applyInsert(w)
  \/ applyVacuum \/ setLongTxn \/ SetEngine
  \/ \E c \in Choosable, r \in Role : setRole(c, r)

-------------------------------------------------------------------------------
(* runScan() *)
Stored  == {c \in PayloadCol : def[c] # "off"} \cup (IF server = "innodb" THEN {"id"} ELSE {})
Needed(q)  == q.select \cup (IF q.filterOpen THEN {"status"} ELSE {})
covered(q) == Needed(q) \subseteq Stored

StatusKey       == def["status"] = "key" \/ (server = "innodb" /\ statusIndexed)
statusInCond(q) == q.filterOpen /\ StatusKey

pageCheck == leafMaxTrxId < (IF ltxXid = None THEN nextTrx ELSE ltxXid)

(* The entry is taken at its word; otherwise the row is fetched. *)
Unchecked(e) == IF server = "pg" THEN vm[PageOf(e.row)] ELSE pageCheck

valueStatus(e, q) ==
  IF covered(q) /\ (server = "pg" \/ pageCheck) THEN e.status ELSE orders[e.row].status

Returned(q) ==
  {e \in leaf :
     /\ statusInCond(q) => e.status = "open"
     /\ e.dead = None
     /\ q.filterOpen /\ ~statusInCond(q) => valueStatus(e, q) = "open"}

-------------------------------------------------------------------------------
ScanTypeOK ==
  /\ server \in {"pg", "innodb"} /\ def \in [PayloadCol -> Role]
  /\ orders \in Seq([who : Who, status : Status])
  /\ vm \in [Page -> BOOLEAN]
  /\ \A p \in Page : pageXid[p] < nextTrx /\ (vm[p] => p < PagesUsed)
  /\ \A e \in leaf : e.row \in Asked /\ e.dead < nextTrx
  /\ leafMaxTrxId < nextTrx /\ ltxXid < nextTrx

(* Whatever the index holds and the bits say, a scan returns the rows of   *)
(* the customer that pass the filter, each once.                           *)
ScanReturnsRows ==
  \A q \in QUERIES :
    /\ {e.row : e \in Returned(q)} =
         {r \in Asked : q.filterOpen => orders[r].status = "open"}
    /\ \A e, f \in Returned(q) : e.row = f.row => e = f

(* An entry is taken at its word only if nobody can see it otherwise: no   *)
(* dead entry is on an all-visible page, and every open transaction began  *)
(* after the last write to the page, or to a record of the leaf.           *)
UncheckedIsSettled ==
  LET oldest == IF ltxXid = None THEN nextTrx ELSE ltxXid
  IN \A e \in leaf : Unchecked(e) =>
       IF server = "pg" THEN e.dead = None /\ pageXid[PageOf(e.row)] < oldest
                        ELSE e.dead < oldest
===============================================================================
