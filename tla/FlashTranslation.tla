---------------------------- MODULE FlashTranslation ---------------------------
(***************************************************************************)
(* The device of FlashTranslationLab.tsx: every write goes to a fresh page *)
(* of the open block and leaves the old one garbage; when erased pages run *)
(* low the block with the most garbage is emptied into the open one and    *)
(* erased.                                                                 *)
(*                                                                         *)
(* The three workloads are fixed streams of writes and discards; here each *)
(* may come next.  A discard the drive does not hear of does nothing.  A   *)
(* page holds the address it was written for, is erased, or is garbage;    *)
(* the counts of live and garbage pages of a block are counted out.        *)
(***************************************************************************)
EXTENDS Integers, Sequences, SequencesExt, FiniteSets, FiniteSetsExt

CONSTANTS
  DATA_BLOCKS, PAGES_PER_BLOCK,
  SpareBlocks,   \* the choices of over-provisioning
  MaxRounds      \* guard: rounds of one collection

FlashAssumption ==
  /\ DATA_BLOCKS \in Nat \ {0} /\ PAGES_PER_BLOCK \in Nat \ {0} /\ MaxRounds \in Nat
  /\ SpareBlocks \subseteq Nat

VARIABLES
  flash   \* page: what each page holds; map: where each address is;
          \* blk, pg: the open block and its next page

Erased  == -1
Garbage == -2
None    == -1

Lba   == 0 .. DATA_BLOCKS * PAGES_PER_BLOCK - 1
Block == 0 .. Cardinality(DOMAIN flash.page) \div PAGES_PER_BLOCK - 1

Fresh(spare) ==
  [page |-> [p \in 0 .. (DATA_BLOCKS + spare) * PAGES_PER_BLOCK - 1 |-> Erased],
   map  |-> [l \in Lba |-> None], blk |-> 0, pg |-> 0]

FlashInit == \E spare \in SpareBlocks : flash = Fresh(spare)

-------------------------------------------------------------------------------
PagesOf(b)  == b * PAGES_PER_BLOCK .. (b + 1) * PAGES_PER_BLOCK - 1
isFree(d, b) == \A p \in PagesOf(b) : d.page[p] = Erased
invalid(d, b) == Cardinality({p \in PagesOf(b) : d.page[p] = Garbage})

FreeBlocks(d) == {b \in Block : b # d.blk /\ isFree(d, b)}
freePages(d) == PAGES_PER_BLOCK - d.pg + Cardinality(FreeBlocks(d)) * PAGES_PER_BLOCK

(* alloc(): the next page of the open block, or the first of a new one.    *)
CanAlloc(d) == d.pg < PAGES_PER_BLOCK \/ FreeBlocks(d) # {}
Opened(d)   == IF d.pg < PAGES_PER_BLOCK THEN d
               ELSE [d EXCEPT !.blk = Min(FreeBlocks(d)), !.pg = 0]

(* l is programmed into the page alloc() gives. *)
Programmed(d, l) ==
  LET o == Opened(d)
      p == o.blk * PAGES_PER_BLOCK + o.pg
  IN  [o EXCEPT !.pg = @ + 1, !.page[p] = l, !.map[l] = p]

invalidate(d, l) ==
  IF d.map[l] = None THEN d
  ELSE [d EXCEPT !.page[d.map[l]] = Garbage, !.map[l] = None]

erase(d, b) ==
  [d EXCEPT !.page = [p \in DOMAIN @ |-> IF p \in PagesOf(b) THEN Erased ELSE @[p]]]

(* The greedy choice: the first of the blocks with the most garbage. *)
Candidates(d) == {b \in Block \ {d.blk} : invalid(d, b) > 0}
Victim(d) ==
  Min({b \in Candidates(d) : \A c \in Candidates(d) : invalid(d, c) <= invalid(d, b)})

LivePages(d, b) ==
  SetToSortSeq({p \in PagesOf(b) : d.page[p] \in Lba}, LAMBDA p, q : p < q)

(* One round; stopped when nothing can be reclaimed or not all live pages  *)
(* of the victim found a place: it is not erased then.                     *)
Relocated(c, p) ==
  IF c.stopped \/ ~CanAlloc(c.dev) THEN [c EXCEPT !.stopped = TRUE]
  ELSE [c EXCEPT !.dev = Programmed([@ EXCEPT !.page[p] = Garbage], @.page[p])]

Round(c, i) ==
  IF c.stopped \/ freePages(c.dev) >= 2 * PAGES_PER_BLOCK THEN c
  ELSE IF Candidates(c.dev) = {} THEN [c EXCEPT !.stopped = TRUE]
  ELSE LET v == Victim(c.dev)
           e == FoldLeft(Relocated, c, LivePages(c.dev, v))
       IN  IF e.stopped THEN e ELSE [e EXCEPT !.dev = erase(@, v)]

collect(d) ==
  FoldLeft(Round, [dev |-> d, stopped |-> FALSE], [i \in 1 .. MaxRounds |-> i]).dev

-------------------------------------------------------------------------------
(* The old copy is garbage before a place is found for the new one. *)
Write(l) ==
  LET d == collect(invalidate(flash, l)) IN
  flash' = IF CanAlloc(d) THEN Programmed(d, l) ELSE d

Discard(l) == flash' = invalidate(flash, l)

FlashStep == \E l \in Lba : Write(l) \/ Discard(l)

-------------------------------------------------------------------------------
FlashTypeOK ==
  /\ \E spare \in SpareBlocks :
       DOMAIN flash.page = 0 .. (DATA_BLOCKS + spare) * PAGES_PER_BLOCK - 1
  /\ flash.map \in [Lba -> DOMAIN flash.page \cup {None}]
  /\ flash.blk \in Block /\ flash.pg \in 0 .. PAGES_PER_BLOCK

(* The map and the pages agree: each address is in the one live page that  *)
(* was written for it.  Only the open block is programmed in part, up to   *)
(* the write pointer: no erased page is out of reach.                      *)
FlashSound ==
  /\ \A l \in Lba : {p \in DOMAIN flash.page : flash.page[p] = l}
                      = {flash.map[l]} \ {None}
  /\ \A b \in Block, p \in DOMAIN flash.page :
       p \in PagesOf(b) =>
         (flash.page[p] = Erased <=>
            IF b = flash.blk THEN p >= b * PAGES_PER_BLOCK + flash.pg
                             ELSE isFree(flash, b))

Stored == [l \in Lba |-> flash.map[l] # None]

Map == INSTANCE KeyMap WITH Key <- Lba, Value <- BOOLEAN, map <- Stored

(* A write always finds a page, however full the device is, and a          *)
(* collection neither loses nor revives what is stored under an address.   *)
FlashActsAsMap ==
  \E l \in Lba : \/ Map!Set(l, FALSE) /\ Discard(l)
                 \/ Map!Set(l, TRUE)  /\ Write(l)
===============================================================================
