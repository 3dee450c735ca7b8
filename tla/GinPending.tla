------------------------------- MODULE GinPending -------------------------------
(***************************************************************************)
(* The lab of GinPostingListLab.tsx: an inverted index whose insertions    *)
(* wait in a list of pending pages, until the list is longer than a limit  *)
(* or VACUUM comes, or go straight to the posting lists if fastupdate is   *)
(* off.  What the rows hold is any of a few sets of keys.                  *)
(***************************************************************************)
EXTENDS Integers, Sequences, SequencesExt, FiniteSets, FiniteSetsExt

CONSTANTS
  RowKeys,              \* bound: the sets of keys a row has
  PENDING_PAGE_ENTRIES,
  PageLimits,           \* settings of gin_pending_list_limit, in pages
  INITIAL_ROWS, MAX_ROWS

VARIABLES
  gin        \* the keys of each row, posting lists, pending rows, their pages, history

GinKey == UNION RowKeys

GinAssumption ==
  /\ PENDING_PAGE_ENTRIES \in Nat \ {0} /\ PageLimits \subseteq Nat \ {0}
  /\ INITIAL_ROWS \in Nat /\ MAX_ROWS \in Nat /\ INITIAL_ROWS <= MAX_ROWS
  /\ RowKeys # {} /\ {} \notin RowKeys
  /\ \A keys \in RowKeys : IsFiniteSet(keys)

(* A posting list takes a row under each of its keys.                      *)
Posted(main, keys, row) == [k \in GinKey |-> IF k \in keys THEN Append(main[k], row) ELSE main[k]]

(* Rows are posted one after the other.                                    *)
Postings(main, keys, rows) ==
  LET after[n \in 0 .. Len(rows)] ==
        IF n = 0 THEN main ELSE Posted(after[n - 1], keys[rows[n]], rows[n])
  IN  after[Len(rows)]

(* buildIndex(): straight to the posting lists.                            *)
buildIndex(keys) ==
  [keys |-> keys, pending |-> <<>>, pages |-> <<>>, waited |-> {},
   main |-> Postings([k \in GinKey |-> <<>>], keys, [i \in 1 .. Len(keys) |-> i])]

(* The pages hold as many entries as they can; a row's entries go on the   *)
(* last page if that has room for all of them, or else to new pages.       *)
appendPending(pages, n) ==
  IF pages # <<>> /\ Last(pages) + n <= PENDING_PAGE_ENTRIES
  THEN [pages EXCEPT ![Len(pages)] = @ + n]
  ELSE LET fresh == (n + PENDING_PAGE_ENTRIES - 1) \div PENDING_PAGE_ENTRIES
       IN  pages \o [i \in 1 .. fresh |->
                       Min({PENDING_PAGE_ENTRIES, n - (i - 1) * PENDING_PAGE_ENTRIES})]

(* mergePending(): everything that waits, in its order.                    *)
mergePending(g) ==
  [g EXCEPT !.main = Postings(@, g.keys, g.pending), !.pending = <<>>, !.pages = <<>>]

-------------------------------------------------------------------------------
GinInit == \E keys \in [1 .. INITIAL_ROWS -> RowKeys] : gin = buildIndex(keys)

Rebuild == \E keys \in [1 .. INITIAL_ROWS -> RowKeys] : gin' = buildIndex(keys)

(* insertRow().  waited: the rows of which the history says pendingAppend. *)
InsertDirectly(keys) ==
  LET row == Len(gin.keys) + 1
  IN  /\ row <= MAX_ROWS
      /\ gin' = [gin EXCEPT !.keys = Append(@, keys), !.main = Posted(@, keys, row)]

InsertPending(keys, limitPages) ==
  LET row     == Len(gin.keys) + 1
      withRow == [gin EXCEPT !.keys = Append(@, keys), !.pending = Append(@, row),
                             !.pages = appendPending(@, Cardinality(keys)),
                             !.waited = @ \cup {row}]
  IN  /\ row <= MAX_ROWS
      /\ gin' = IF Len(withRow.pages) > limitPages THEN mergePending(withRow) ELSE withRow

vacuumIndex == gin' = mergePending(gin)

GinStep ==
  \/ \E keys \in RowKeys :
       InsertDirectly(keys) \/ \E limit \in PageLimits : InsertPending(keys, limit)
  \/ vacuumIndex \/ Rebuild

-------------------------------------------------------------------------------
GinTypeOK ==
  /\ gin.keys \in Seq(RowKeys) /\ Len(gin.keys) <= MAX_ROWS
  /\ gin.main \in [GinKey -> Seq(1 .. MAX_ROWS)]
  /\ gin.waited \subseteq DOMAIN gin.keys

(* A row is once under each of its keys: in a posting list, or pending,    *)
(* whichever rows waited and whoever merged them; and a posting list is    *)
(* in the order of the rows, but for a row that did not wait beside one    *)
(* that did.                                                               *)
EachOnce ==
  /\ \A row \in DOMAIN gin.keys, k \in GinKey :
       Cardinality({i \in DOMAIN gin.main[k] : gin.main[k][i] = row})
         + (IF k \in gin.keys[row] THEN Cardinality({i \in DOMAIN gin.pending : gin.pending[i] = row})
            ELSE 0)
       = IF k \in gin.keys[row] THEN 1 ELSE 0
  /\ \A k \in GinKey : \A i, j \in DOMAIN gin.main[k] :
       i < j /\ gin.main[k][i] > gin.main[k][j] =>
         gin.main[k][i] \notin gin.waited /\ gin.main[k][j] \in gin.waited

(* The sum of the numbers of a sequence. *)
Total(s) ==
  LET first[n \in 0 .. Len(s)] == IF n = 0 THEN 0 ELSE first[n - 1] + s[n]
  IN  first[Len(s)]

(* The pages account for what is pending, and stay within the limit that   *)
(* the last insertion went by.                                             *)
PendingFits ==
  /\ Total(gin.pages) = Total([i \in DOMAIN gin.pending |-> Cardinality(gin.keys[gin.pending[i]])])
  /\ \A i \in DOMAIN gin.pages : gin.pages[i] \in 1 .. PENDING_PAGE_ENTRIES
  /\ \A limit \in PageLimits : (\A l \in PageLimits : l <= limit) => Len(gin.pages) <= limit
===============================================================================
