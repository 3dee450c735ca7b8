----------------------------- MODULE BufferedTree -----------------------------
(***************************************************************************)
(* The Bε-tree half of BepsilonCowTreeLab.tsx: a complete tree of fixed    *)
(* shape, whose internal nodes hold buffers of messages.  An operation is  *)
(* a message to the root; a buffer over its capacity passes the messages   *)
(* for its heaviest child on, until it fits, and so does the child; a leaf *)
(* applies what it receives.  A lookup applies what is still on its way.   *)
(***************************************************************************)
EXTENDS Integers, Sequences, SequencesExt, FiniteSets, FiniteSetsExt, Functions

CONSTANTS
  BeFanout, BeLevels,   \* LEAVES = BeFanout ^ BeLevels
  NodeSizes,            \* settings of "Node size B"
  KEYS_PER_LEAF,
  MessageKey,           \* bound: the keys that are written
  MAX_OPS

VARIABLES
  be       \* node size, buffers, leaves, number of operations

LeafIndex  == 0 .. BeFanout ^ BeLevels - 1
BufferNode == {<<d, i>> \in (0 .. BeLevels - 1) \X LeafIndex : i < BeFanout ^ d}
Absent     == -1

BufferedAssumption ==
  /\ BeFanout \in Nat \ {0, 1} /\ BeLevels \in Nat \ {0}
  /\ KEYS_PER_LEAF \in Nat \ {0} /\ MAX_OPS \in Nat
  /\ \A b \in NodeSizes : b \in Nat /\ b > BeFanout
  /\ MessageKey \subseteq 0 .. KEYS_PER_LEAF * BeFanout ^ BeLevels - 1

LeafOf(key) == key \div KEYS_PER_LEAF
(* The node of a level on the way to a key.                                *)
NodeOn(d, key) == <<d, LeafOf(key) \div (BeFanout ^ (BeLevels - d))>>

Room(s) == s.nodeSize - BeFanout

(* Every fifth key is there from the start, with value 0.                  *)
Empty ==
  [nodeSize : NodeSizes, buffers : {[n \in BufferNode |-> <<>>]},
   leaves : {[k \in MessageKey |-> IF k % 5 = 0 THEN 0 ELSE Absent]}, ops : {0}]
BufferedInit == be \in Empty

applyMsg(v, m) ==
  CASE m.type = "insert" -> m.msn
    [] m.type = "upsert" -> (IF v = Absent THEN 0 ELSE v) + 1
    [] m.type = "delete" -> Absent

-------------------------------------------------------------------------------
(* flush(): the segment of the child with the most messages, the first of  *)
(* these if there are several, goes down in its order.                     *)
Heaviest(buf, d) ==
  LET for(i) == Cardinality({j \in DOMAIN buf : NodeOn(d + 1, buf[j].key)[2] = i})
      to     == {NodeOn(d + 1, buf[j].key)[2] : j \in DOMAIN buf}
  IN  Min({i \in to : \A h \in to : for(h) <= for(i)})

RECURSIVE Flush(_, _), Settle(_, _)
Flush(s, n) ==
  LET d     == n[1]
      buf   == s.buffers[n]
      child == <<d + 1, Heaviest(buf, d)>>
      moved == SelectSeq(buf, LAMBDA m : NodeOn(d + 1, m.key) = child)
      rest  == SelectSeq(buf, LAMBDA m : NodeOn(d + 1, m.key) # child)
  IN  IF d + 1 = BeLevels
      THEN [s EXCEPT !.buffers[n] = rest,
                     !.leaves = FoldLeft(LAMBDA ls, m : [ls EXCEPT ![m.key] = applyMsg(@, m)],
                                         @, moved)]
      ELSE Settle([s EXCEPT !.buffers[n] = rest, !.buffers[child] = @ \o moved], child)

Settle(s, n) == IF Len(s.buffers[n]) > Room(s) THEN Settle(Flush(s, n), n) ELSE s

Root == <<0, 0>>

(* One more operation of the workload, whichever it is.                    *)
Operate(key, type) ==
  LET m == [key |-> key, msn |-> be.ops + 1, type |-> type]
  IN  /\ be.ops < MAX_OPS
      /\ be' = Settle([be EXCEPT !.buffers[Root] = Append(@, m), !.ops = @ + 1], Root)

(* Back to no operations, of a node size of one's choice: what the sliders *)
(* show is simulated from there.                                           *)
StartOver == be' \in Empty

BufferedStep ==
  \/ \E key \in MessageKey, type \in {"insert", "upsert", "delete"} : Operate(key, type)
  \/ StartOver

-------------------------------------------------------------------------------
For(buf, key) == SelectSeq(buf, LAMBDA m : m.key = key)

(* lookupBe(): the leaf's value, then the pending messages in MSN order.   *)
LookupBe(s, key) ==
  LET pending == UNION {ToSet(For(s.buffers[NodeOn(d, key)], key)) : d \in 0 .. BeLevels - 1}
  IN  FoldLeft(applyMsg, s.leaves[key], SetToSortSeq(pending, LAMBDA a, b : a.msn < b.msn))

BufferedTypeOK ==
  /\ DOMAIN be.buffers = BufferNode
  /\ \A n \in BufferNode : be.buffers[n] \in
       Seq([key : MessageKey, msn : 1 .. be.ops, type : {"insert", "upsert", "delete"}])
  /\ be.leaves \in [MessageKey -> Int] /\ be.ops \in 0 .. MAX_OPS

(* No buffer is left over its capacity, a message is on the way to its key *)
(* and once only, and nothing overtakes: what a key's leaf will see sooner *)
(* was written earlier, through every cascade.                             *)
MessagesInOrder ==
  /\ \A n \in BufferNode :
       /\ Len(be.buffers[n]) <= Room(be)
       /\ \A i \in DOMAIN be.buffers[n] : NodeOn(n[1], be.buffers[n][i].key) = n
  /\ \A key \in MessageKey :
       LET way[d \in 0 .. BeLevels] ==
             IF d = BeLevels THEN <<>>
             ELSE way[d + 1] \o For(be.buffers[NodeOn(d, key)], key)
       IN  \A i, j \in DOMAIN way[0] : i < j => way[0][i].msn < way[0][j].msn

(* An operation does to its own key what it says, and what is found under  *)
(* any other key stays, however far the flushes reached.                   *)
BufferedActsAsMap ==
  \A key \in MessageKey, type \in {"insert", "upsert", "delete"} :
    Operate(key, type) =>
      \A k \in MessageKey :
        LookupBe(be', k) =
          IF k = key
          THEN applyMsg(LookupBe(be, k), [key |-> key, msn |-> be'.ops, type |-> type])
          ELSE LookupBe(be, k)
===============================================================================
