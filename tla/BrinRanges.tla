------------------------------- MODULE BrinRanges -------------------------------
(***************************************************************************)
(* The lab of BrinZoneMapPruningLab.tsx: block ranges of a heap, each with *)
(* one summary or none.  Rows that arrive or change widen a summary, rows  *)
(* that are deleted leave it, and several commands make summaries anew, of *)
(* more or fewer of the ranges.  A scan leaves out the ranges whose        *)
(* summary says that they cannot match.                                    *)
(***************************************************************************)
EXTENDS Integers, Sequences, SequencesExt, FiniteSets, FiniteSetsExt

CONSTANTS
  PAGE_ROWS, START_PAGES, MAX_PAGES,
  PPR_OPTIONS, VALUES_PER_RANGE,
  InOrderCount, LateCount,   \* bound: the rows of one button
  LateValue,                 \* bound: the timestamps of late rows
  MaxTs                      \* bound: the timestamps that are given out

VARIABLES
  brin       \* pages, ppr, opclass, summaries, nextTs

BrinAssumption ==
  /\ {PAGE_ROWS, START_PAGES, InOrderCount, LateCount, VALUES_PER_RANGE} \subseteq Nat \ {0}
  /\ MAX_PAGES \in Nat /\ START_PAGES <= MAX_PAGES /\ START_PAGES * PAGE_ROWS <= MaxTs
  /\ PPR_OPTIONS \subseteq Nat \ {0} /\ LateValue \subseteq Nat
  /\ MaxTs \in Nat /\ VALUES_PER_RANGE % 2 = 0

(* A summary is a set of intervals, or missing.                            *)
Unsummarized == [made |-> FALSE, intervals |-> {}]
Made(ivs)    == [made |-> TRUE, intervals |-> ivs]
Within(v, ivs) == \E iv \in ivs : iv[1] <= v /\ v <= iv[2]
Hull(ivs)    == <<Min({iv[1] : iv \in ivs}), Max({iv[2] : iv \in ivs})>>

Ceil(a, b)   == (a + b - 1) \div b
rangeCount(pages, ppr) == Max({1, Ceil(Len(pages), ppr)})
RangeOf(page, ppr)     == (page - 1) \div ppr + 1
RangeValues(pages, ppr, r) ==
  UNION {{row.v : row \in ToSet(pages[p])} : p \in {p \in DOMAIN pages : RangeOf(p, ppr) = r}}

-------------------------------------------------------------------------------
(* compact(): past the limit only the widest gaps stay, the leftmost of    *)
(* equally wide ones first, and none that has nothing in it.               *)
valuesUsed(ivs) == Cardinality(ivs) + Cardinality({iv \in ivs : iv[1] # iv[2]})
compact(ivs) ==
  LET keep     == VALUES_PER_RANGE \div 2 - 1
      right(a) == {b \in ivs : b[1] > a[1]}
      gap(a)   == Min({b[1] : b \in right(a)}) - a[2]
      inner    == {a \in ivs : right(a) # {}}
      before(a) == {b \in inner : gap(b) > gap(a) \/ (gap(b) = gap(a) /\ b[1] < a[1])}
      cut      == {a \in inner : Cardinality(before(a)) < keep /\ gap(a) > 1}
      group(a) == {b \in ivs : \A c \in cut : (b[1] <= c[1]) = (a[1] <= c[1])}
  IN  IF valuesUsed(ivs) <= VALUES_PER_RANGE THEN ivs ELSE {Hull(group(a)) : a \in ivs}

summarizeValues(values, opclass) ==
  LET points == {<<v, v>> : v \in values}
  IN  IF values = {} THEN {} ELSE IF opclass = "minmax" THEN {Hull(points)} ELSE compact(points)

summarizeRange(pages, ppr, r, opclass) == Made(summarizeValues(RangeValues(pages, ppr, r), opclass))

createIndex(pages, ppr, opclass) ==
  [r \in 1 .. rangeCount(pages, ppr) |-> summarizeRange(pages, ppr, r, opclass)]

addValue(ivs, v, opclass) ==
  IF Within(v, ivs) THEN ivs
  ELSE IF opclass = "minmax" THEN {Hull(ivs \cup {<<v, v>>})} ELSE compact(ivs \cup {<<v, v>>})

Widened(s, v, opclass) == IF s.made THEN Made(addValue(s.intervals, v, opclass)) ELSE s

-------------------------------------------------------------------------------
(* insertRows(), one row of it: to the last page or a new one.  The first  *)
(* row of a range may ask for a summary of the range before it, and then   *)
(* widens its own range's summary if there is one.                         *)
insertRow(b, row, autosummarize) ==
  LET full    == Len(Last(b.pages)) >= PAGE_ROWS
      p       == IF full THEN Len(b.pages) + 1 ELSE Len(b.pages)
      pages   == IF full THEN Append(b.pages, <<row>>)
                 ELSE [b.pages EXCEPT ![p] = Append(@, row)]
      r       == RangeOf(p, b.ppr)
      grown   == IF r > Len(b.summaries) THEN Append(b.summaries, Unsummarized) ELSE b.summaries
      asks    == /\ autosummarize /\ r > 1
                 /\ p = (r - 1) * b.ppr + 1 /\ Len(pages[p]) = 1
                 /\ ~grown[r - 1].made
      asked   == IF asks
                 THEN [grown EXCEPT ![r - 1] = summarizeRange(pages, b.ppr, r - 1, b.opclass)]
                 ELSE grown
  IN  IF full /\ Len(b.pages) >= MAX_PAGES THEN b
      ELSE [b EXCEPT !.pages = pages,
                     !.summaries = [asked EXCEPT ![r] = Widened(@, row.v, b.opclass)]]

insertRows(b, rows, autosummarize) ==
  LET after[n \in 0 .. Len(rows)] ==
        IF n = 0 THEN b ELSE insertRow(after[n - 1], rows[n], autosummarize)
  IN  after[Len(rows)]

freeSlots(b) == (MAX_PAGES - Len(b.pages)) * PAGE_ROWS + PAGE_ROWS - Len(Last(b.pages))

-------------------------------------------------------------------------------
(* buildHeap(): a few rows anywhere, the others in order of their          *)
(* timestamps; or every row near its place, and none said to have moved.   *)
StartRows == 1 .. START_PAGES * PAGE_ROWS
Heaps ==
  {h \in [StartRows -> [v : {i - 1 : i \in StartRows}, moved : BOOLEAN]] :
     /\ \A i, j \in StartRows : h[i].v = h[j].v => i = j
     /\ \/ \A i, j \in StartRows : i < j /\ ~h[i].moved /\ ~h[j].moved => h[i].v < h[j].v
        \/ \A i \in StartRows : ~h[i].moved}

newLab(heap, ppr, opclass) ==
  LET pages == [p \in 1 .. START_PAGES |->
                  [i \in 1 .. PAGE_ROWS |-> heap[(p - 1) * PAGE_ROWS + i]]]
  IN  [pages |-> pages, ppr |-> ppr, opclass |-> opclass,
       summaries |-> createIndex(pages, ppr, opclass), nextTs |-> START_PAGES * PAGE_ROWS]

Opclass == {"minmax", "minmax_multi"}

(* Reset table leads back to one of these, and is left out.               *)
BrinInit ==
  brin \in {newLab(heap, ppr, opclass) : heap \in Heaps, ppr \in PPR_OPTIONS, opclass \in Opclass}

reindex(ppr, opclass) ==
  brin' = [brin EXCEPT !.ppr = ppr, !.opclass = opclass,
                       !.summaries = createIndex(brin.pages, ppr, opclass)]

appendInOrder(autosummarize) ==
  LET rows == [k \in 1 .. InOrderCount |-> [v |-> brin.nextTs + k - 1, moved |-> FALSE]]
  IN  /\ freeSlots(brin) >= InOrderCount /\ brin.nextTs + InOrderCount <= MaxTs
      /\ brin' = [insertRows(brin, rows, autosummarize) EXCEPT !.nextTs = @ + InOrderCount]

appendLate(values, autosummarize) ==
  LET rows == [k \in 1 .. LateCount |-> [v |-> values[k], moved |-> TRUE]]
  IN  /\ freeSlots(brin) >= LateCount /\ \A k \in 1 .. LateCount : values[k] < brin.nextTs
      /\ brin' = insertRows(brin, rows, autosummarize)

(* An old row takes the time of day, on its page, among the first four     *)
(* fifths of the heap.                                                     *)
updateToNow(p, slot) ==
  /\ p <= Max({1, (Len(brin.pages) * 4) \div 5}) /\ slot \in DOMAIN brin.pages[p]
  /\ ~brin.pages[p][slot].moved
  /\ brin.nextTs < MaxTs
  /\ brin' = [brin EXCEPT
       !.pages[p][slot] = [v |-> brin.nextTs, moved |-> TRUE],
       !.summaries[RangeOf(p, brin.ppr)] = Widened(@, brin.nextTs, brin.opclass),
       !.nextTs = @ + 1]

(* The rows of a page that a filter of the moved ones leaves. *)
rowsKept(page) ==
  LET upTo[n \in 0 .. Len(page)] ==
        IF n = 0 THEN <<>>
        ELSE IF page[n].moved THEN upTo[n - 1] ELSE Append(upTo[n - 1], page[n])
  IN  upTo[Len(page)]

deleteMoved == brin' = [brin EXCEPT !.pages = [p \in DOMAIN @ |-> rowsKept(@[p])]]

Resummarized(which) ==
  [brin EXCEPT !.summaries =
     [r \in DOMAIN @ |-> IF r \in which THEN summarizeRange(brin.pages, brin.ppr, r, brin.opclass)
                         ELSE @[r]]]

Missing == {r \in DOMAIN brin.summaries : ~brin.summaries[r].made}

(* VACUUM leaves a partial range at the end of the table alone.            *)
vacuum             == brin' = Resummarized({r \in Missing : r * brin.ppr <= Len(brin.pages)})
summarizeNewValues == brin' = Resummarized(Missing)
resummarizeAll     == brin' = Resummarized(DOMAIN brin.summaries)

BrinStep ==
  \/ \E ppr \in PPR_OPTIONS, opclass \in Opclass : reindex(ppr, opclass)
  \/ \E auto \in BOOLEAN :
       appendInOrder(auto) \/ \E vs \in [1 .. LateCount -> LateValue] : appendLate(vs, auto)
  \/ \E p \in DOMAIN brin.pages, slot \in 1 .. PAGE_ROWS : updateToNow(p, slot)
  \/ deleteMoved \/ vacuum \/ summarizeNewValues \/ resummarizeAll

-------------------------------------------------------------------------------
BrinTypeOK ==
  /\ brin.pages \in Seq(Seq([v : 0 .. MaxTs - 1, moved : BOOLEAN]))
  /\ Len(brin.pages) <= MAX_PAGES /\ \A p \in DOMAIN brin.pages : Len(brin.pages[p]) <= PAGE_ROWS
  /\ brin.ppr \in PPR_OPTIONS /\ brin.opclass \in Opclass /\ brin.nextTs \in 0 .. MaxTs

(* scan(): the ranges whose summary does not meet lo .. hi are left out.   *)
pruned(lo, hi) ==
  {r \in DOMAIN brin.summaries :
     /\ brin.summaries[r].made
     /\ \A iv \in brin.summaries[r].intervals : iv[1] > hi \/ iv[2] < lo}

(* No scan misses a row, whatever was inserted, updated, deleted and       *)
(* summarized in which order: a query for its value alone, and so any      *)
(* wider one, reads its range.                                             *)
NothingMissed ==
  \A r \in DOMAIN brin.summaries :
    \A v \in RangeValues(brin.pages, brin.ppr, r) : r \notin pruned(v, v)

(* Every range has its place in the index, the values a summary keeps stay *)
(* within its limit, and its intervals stay apart.                         *)
SummariesFit ==
  /\ Len(brin.summaries) = rangeCount(brin.pages, brin.ppr)
  /\ \A r \in DOMAIN brin.summaries :
       LET ivs == brin.summaries[r].intervals
       IN  /\ brin.opclass = "minmax" => Cardinality(ivs) <= 1
           /\ brin.opclass = "minmax_multi" => valuesUsed(ivs) <= VALUES_PER_RANGE
           /\ \A a, b \in ivs : a # b => a[2] < b[1] \/ b[2] < a[1]
===============================================================================
