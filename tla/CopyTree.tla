------------------------------- MODULE CopyTree -------------------------------
(***************************************************************************)
(* The lab of PathCopyPersistenceLab.tsx: a complete tree of leaves whose  *)
(* every update makes a version, kept by copying paths, in fat nodes, or   *)
(* by copying full nodes; what no retained version needs is reclaimed      *)
(* after every event.  A version is named by its place among the versions. *)
(* Changing a control replays the events under the new configuration: that *)
(* is a behaviour of its own here.                                         *)
(***************************************************************************)
EXTENDS Integers, Sequences, SequencesExt, FiniteSets, FiniteSetsExt

CONSTANTS
  Fanout, Levels,
  Updated,       \* bound: the leaves that are updated
  ExtraSlots,         \* settings of "Extra slots per node"
  KeepOld,          \* settings of "Keep old versions"
  MAX_COMMITS

VARIABLES
  setting,    \* the controls
  versions,  \* each with its line, its parent, its leaf and its root
  heads,     \* the main head, the branch head and the reader's version
  nodes      \* the nodes (for fat nodes, the stamps of each leaf)

copyVars == <<setting, versions, heads, nodes>>

None       == 0
META_PAGES == 2
Leaf       == 0 .. Fanout ^ (Levels - 1) - 1

CopyTreeAssumption ==
  /\ Fanout \in Nat \ {0, 1} /\ Levels \in Nat \ {0, 1}
  /\ Updated \subseteq Leaf /\ ExtraSlots \subseteq Nat \ {0} /\ KeepOld \subseteq Nat /\ MAX_COMMITS \in Nat

(* pathSlots(): which child leads from a level towards the leaf.           *)
Turn(leaf, level) == (leaf \div (Fanout ^ (Levels - 1 - level))) % Fanout

(* The initial tree, level by level from the root, numbered from base.     *)
Size        == (Fanout ^ Levels - 1) \div (Fanout - 1)
Internal    == Size - Cardinality(Leaf)
Kids(i, base) ==
  IF i < Internal THEN [c \in 0 .. Fanout - 1 |-> base + Fanout * i + 1 + c] ELSE <<>>
Position(i) == IF i < Internal THEN None ELSE i - Internal

Version(line, parent, leaf, root) ==
  [line |-> line, parent |-> parent, leaf |-> leaf, root |-> root]

(* A page has the version it was born in, and the one that superseded it.  *)
Page(kids, idx, born) == [kids |-> kids, idx |-> idx, born |-> born, died |-> None]
Node(kids, idx, val)  ==
  [kids |-> kids, idx |-> idx, val |-> val, mods |-> <<>>, copiedAt |-> None]

Initial(rep) ==
  CASE rep = "path" ->
         [tree |-> [pg \in META_PAGES .. META_PAGES + Size - 1 |->
                      Page(Kids(pg - META_PAGES, META_PAGES), Position(pg - META_PAGES), 1)],
          free |-> {}, hwm |-> META_PAGES + Size]
    [] rep = "fat"  -> [leaf \in Leaf |-> {1}]
    [] rep = "copy" ->
         [tree |-> [i \in 1 .. Size |-> Node(Kids(i - 1, 1), Position(i - 1), 1)],
          nextId |-> Size + 1]

(* The extra slots are those of node copying.                              *)
Setting ==
  {s \in [rep : {"path", "fat", "copy"}, keep : KeepOld,
          rule : {"reach", "watermark"}, slots : ExtraSlots] :
     s.rep = "copy" \/ s.slots = Min(ExtraSlots)}

CopyInit ==
  /\ setting \in Setting
  /\ versions = <<Version("main", None, None, IF setting.rep = "path" THEN META_PAGES ELSE 1)>>
  /\ heads = [main |-> 1, branch |-> None, reader |-> None]
  /\ nodes = Initial(setting.rep)

-------------------------------------------------------------------------------
(* What is retained: the heads, the reader, the newest main versions.      *)
Main(vs)    == {v \in DOMAIN vs : vs[v].line = "main"}
Kept(vs, h) == {v \in Main(vs) : v < h.main
                  /\ Cardinality({w \in Main(vs) : v < w /\ w < h.main}) < setting.keep}
Retained(vs, h) == ({h.main, h.branch, h.reader} \ {None}) \cup Kept(vs, h)

Oldest(vs, h) ==
  Min({h.main} \cup ((Retained(vs, h) \ {h.branch}) \cap Main(vs)))

(* fieldAt(): the entry of the largest stamp up to v, -1 being the value.  *)
FieldAt(x, field, v) ==
  LET ms == {i \in DOMAIN x.mods : x.mods[i].field = field /\ x.mods[i].n <= v}
  IN  IF ms # {} THEN x.mods[Max(ms)].target
      ELSE IF field = -1 THEN x.val ELSE x.kids[field]

Child(x, c, v) == IF setting.rep = "path" THEN x.kids[c] ELSE FieldAt(x, c, v)

(* reachPages(), copyReach(): from a version's root, level by level.       *)
Reach(tree, root, v) ==
  LET at[l \in 0 .. Levels - 1] ==
        IF l = 0 THEN {root}
        ELSE {Child(tree[x], c, v) : x \in at[l - 1] \cap DOMAIN tree, c \in 0 .. Fanout - 1}
  IN  UNION {at[l] : l \in 0 .. Levels - 1} \cap DOMAIN tree

Wanted(tree, vs, h) == UNION {Reach(tree, vs[v].root, v) : v \in Retained(vs, h)}

Superseded(x) == IF setting.rep = "path" THEN x.died ELSE x.copiedAt
PastWatermark(x, vs, h) == Superseded(x) # None /\ Superseded(x) <= Oldest(vs, h)

(* pathGc(), copyGc(): what no retained root reaches; under the watermark  *)
(* rule, of that only what was superseded by the oldest retained version.  *)
Garbage(tree, vs, h) ==
  {x \in DOMAIN tree \ Wanted(tree, vs, h) :
     setting.rule = "reach" \/ PastWatermark(tree[x], vs, h)}

(* fatGc(): a stamp is good until the next one.                            *)
Next(stamps, st) == Min({s \in stamps : s > st})
StampsKept(stamps, vs, h) ==
  {st \in stamps :
     \/ st = Max(stamps)
     \/ \E v \in Retained(vs, h) \ {h.main} : st <= v /\ v < Next(stamps, st)
     \/ setting.rule = "watermark" /\ Next(stamps, st) > Min(Retained(vs, h))}

Reclaimed(ns, vs, h) ==
  IF setting.rep = "fat" THEN [leaf \in Leaf |-> StampsKept(ns[leaf], vs, h)]
  ELSE LET gone == Garbage(ns.tree, vs, h)
           left == [x \in DOMAIN ns.tree \ gone |-> ns.tree[x]]
       IN  IF setting.rep = "path" THEN [ns EXCEPT !.tree = left, !.free = @ \cup gone]
           ELSE [ns EXCEPT !.tree = left]

-------------------------------------------------------------------------------
(* The way from the root to the leaf, root first.                          *)
Path(tree, root, leaf, v) ==
  LET at[l \in 1 .. Levels] ==
        IF l = 1 THEN root
        ELSE IF at[l - 1] \in DOMAIN tree THEN Child(tree[at[l - 1]], Turn(leaf, l - 1), v)
        ELSE None
  IN  at

(* A commit on a line copies the path; the lowest free pages go first.     *)
PathCommitted(line, leaf, head) ==
  LET new   == Len(versions) + 1
      old   == Path(nodes.tree, versions[head].root, leaf, head)
      spare == Cardinality(nodes.free)
      fresh == [l \in 1 .. Levels |->
                  IF l > spare THEN nodes.hwm + l - spare - 1
                  ELSE CHOOSE x \in nodes.free :
                         Cardinality({y \in nodes.free : y < x}) = l - 1]
      copies == {fresh[l] : l \in 1 .. Levels}
      copy(l) ==
        LET o == nodes.tree[old[l]]
        IN  Page(IF l = Levels THEN o.kids ELSE [o.kids EXCEPT ![Turn(leaf, l)] = fresh[l + 1]],
                 o.idx, new)
      over(x) == IF line = "main" /\ x.died = None THEN [x EXCEPT !.died = new] ELSE x
  IN  [root  |-> fresh[1],
       nodes |->
         [tree |-> [x \in DOMAIN nodes.tree \cup copies |->
                      IF x \in copies THEN copy(CHOOSE l \in 1 .. Levels : fresh[l] = x)
                      ELSE IF \E l \in 1 .. Levels : old[l] = x THEN over(nodes.tree[x])
                      ELSE nodes.tree[x]],
          free |-> nodes.free \ copies,
          hwm  |-> Max({nodes.hwm} \cup {x + 1 : x \in copies})]]

(* setField(): the new value goes to a free slot of the leaf; a full node  *)
(* is copied, and the pointer to the copy goes to its parent likewise.     *)
CopyCommitted(leaf) ==
  LET new   == Len(versions) + 1
      old   == Path(nodes.tree, versions[heads.main].root, leaf, heads.main)
      room  == {l \in 1 .. Levels : Len(nodes.tree[old[l]].mods) < setting.slots}
      stop  == IF room = {} THEN 0 ELSE Max(room)
      fresh(l) == nodes.nextId + Levels - l
      field(l)  == IF l = Levels THEN -1 ELSE Turn(leaf, l)
      target(l) == IF l = Levels THEN new ELSE fresh(l + 1)
      copy(l) ==
        LET o    == nodes.tree[old[l]]
            kids == [c \in DOMAIN o.kids |->
                       IF c = field(l) THEN target(l) ELSE FieldAt(o, c, new)]
        IN  Node(kids, o.idx, IF l = Levels THEN new ELSE o.val)
      entry(l) == [field |-> field(l), n |-> new, target |-> target(l)]
      level(x) == CHOOSE l \in 1 .. Levels : old[l] = x
      changed(x) ==
        IF level(x) = stop THEN [nodes.tree[x] EXCEPT !.mods = Append(@, entry(stop))]
        ELSE IF level(x) > stop THEN [nodes.tree[x] EXCEPT !.copiedAt = new]
        ELSE nodes.tree[x]
      copies == {fresh(l) : l \in stop + 1 .. Levels}
  IN  [root  |-> IF stop = 0 THEN fresh(1) ELSE versions[heads.main].root,
       nodes |->
         [tree |-> [x \in DOMAIN nodes.tree \cup copies |->
                      IF x \in copies THEN copy(nodes.nextId + Levels - x)
                      ELSE IF \E l \in 1 .. Levels : old[l] = x THEN changed(x)
                      ELSE nodes.tree[x]],
          nextId |-> nodes.nextId + Levels - stop]]

Committed(line, leaf, head) ==
  CASE setting.rep = "path" -> PathCommitted(line, leaf, head)
    [] setting.rep = "fat"  ->
         [root |-> None, nodes |-> [nodes EXCEPT ![leaf] = @ \cup {Len(versions) + 1}]]
    [] setting.rep = "copy" -> CopyCommitted(leaf)

-------------------------------------------------------------------------------
Happened(vs, h, ns) ==
  /\ versions' = vs /\ heads' = h
  /\ nodes' = Reclaimed(ns, vs, h)
  /\ UNCHANGED setting

Commit(line, leaf) ==
  LET head == IF line = "main" THEN heads.main ELSE heads.branch
      done == Committed(line, leaf, head)
  IN  /\ Len(versions) <= MAX_COMMITS
      /\ head # None
      /\ Happened(Append(versions, Version(line, head, leaf, done.root)),
                  IF line = "main" THEN [heads EXCEPT !.main = Len(versions) + 1]
                  ELSE [heads EXCEPT !.branch = Len(versions) + 1],
                  done.nodes)

Open ==
  /\ heads.reader = None
  /\ Happened(versions, [heads EXCEPT !.reader = heads.main], nodes)

Close ==
  /\ heads.reader # None
  /\ Happened(versions, [heads EXCEPT !.reader = None], nodes)

Branch(v) ==
  /\ setting.rep = "path" /\ setting.rule = "reach" /\ heads.branch = None
  /\ v \in Retained(versions, heads)
  /\ Happened(versions, [heads EXCEPT !.branch = v], nodes)

Drop ==
  /\ heads.branch # None
  /\ Happened(versions, [heads EXCEPT !.branch = None], nodes)

ResetCopies ==
  /\ versions' = <<Version("main", None, None, IF setting.rep = "path" THEN META_PAGES ELSE 1)>>
  /\ heads' = [main |-> 1, branch |-> None, reader |-> None]
  /\ nodes' = Initial(setting.rep)
  /\ UNCHANGED setting

CopyStep ==
  \/ \E line \in {"main", "branch"}, leaf \in Updated : Commit(line, leaf)
  \/ Open \/ Close \/ Drop \/ ResetCopies
  \/ \E v \in DOMAIN versions : Branch(v)

-------------------------------------------------------------------------------
CopyTypeOK ==
  /\ \A v \in DOMAIN versions :
       /\ versions[v].line \in {"main", "branch"}
       /\ v > 1 => versions[v].parent \in 1 .. v - 1 /\ versions[v].leaf \in Leaf
  /\ heads.main \in DOMAIN versions
  /\ {heads.branch, heads.reader} \subseteq {None} \cup DOMAIN versions

(* The version whose update of the leaf a version shows: its own, or the   *)
(* one its parent shows.                                                   *)
Wrote(v, leaf) ==
  LET by[w \in DOMAIN versions] ==
        IF w = 1 \/ versions[w].leaf = leaf THEN w ELSE by[versions[w].parent]
  IN  by[v]

(* pathLookup(), fatLookup(), copyLookup()                                 *)
Lookup(v, leaf) ==
  IF setting.rep = "fat" THEN Max({0} \cup {st \in nodes[leaf] : st <= v})
  ELSE LET found == Path(nodes.tree, versions[v].root, leaf, v)[Levels]
           x     == nodes.tree[found]
       IN  IF found \notin DOMAIN nodes.tree \/ x.idx # leaf THEN None
           ELSE IF setting.rep = "path" THEN x.born ELSE FieldAt(x, -1, v)

(* Every retained version - a head, a branch, the one being read, the kept *)
(* ones - shows for each leaf what its history wrote last, whichever pages *)
(* were reclaimed and used again since, and however far copying cascaded.  *)
VersionsReadable ==
  \A v \in ({heads.main, heads.branch, heads.reader} \ {None}) \cup Kept(versions, heads) :
    \A leaf \in Leaf : Lookup(v, leaf) = Wrote(v, leaf)

(* The watermark alone would do: what was superseded by the oldest version *)
(* retained is reached by none of them.  Pages are free or used, not both. *)
WatermarkSafe ==
  /\ setting.rep # "fat" /\ setting.rule = "watermark" =>
       \A x \in Wanted(nodes.tree, versions, heads) :
         ~PastWatermark(nodes.tree[x], versions, heads)
  /\ setting.rep = "path" =>
       /\ nodes.free \cap DOMAIN nodes.tree = {}
       /\ nodes.free \cup DOMAIN nodes.tree = META_PAGES .. nodes.hwm - 1
===============================================================================
