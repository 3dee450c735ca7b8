----------------------------- MODULE PageOwnership -----------------------------
(***************************************************************************)
(* The lab of CachePathOwnershipLab.tsx: a trace of page accesses under    *)
(* three ways to spend the RAM of a host - an engine's pool over the       *)
(* kernel's page cache, a pool over direct I/O, or a mapped file and no    *)
(* pool.  Copies and their log sequence numbers are modelled; the counts   *)
(* of faults, copies and reads are not.  The trace may name any page.      *)
(***************************************************************************)
EXTENDS Integers, Sequences, SequencesExt, FiniteSets

CONSTANTS
  DataPage,
  RAM,         \* frames
  PoolSlots,   \* settings of the slider
  MaxLsn       \* bound on the number of changes

OwnershipAssumption ==
  RAM \in Nat /\ PoolSlots \subseteq 1 .. RAM - 1 /\ PoolSlots # {} /\ MaxLsn \in Nat

VARIABLES
  host,    \* the settings, the copies, and how far the log is durable
  latest   \* history: the last change of each page

ownershipVars == <<host, latest>>

Frame(p, dirty, lsn, t) == [page |-> p, dirty |-> dirty, lsn |-> lsn, t |-> t]

INITIAL(m, k) ==
  [mode |-> m, slots |-> k, pool |-> <<>>, cache |-> <<>>,
   disk |-> [p \in DataPage |-> 0], walLsn |-> 0, durableLsn |-> 0,
   crashed |-> FALSE, lost |-> {}]

OwnershipInit ==
  /\ \E m \in {"pool", "direct", "mmap"}, k \in PoolSlots : host = INITIAL(m, k)
  /\ latest = [p \in DataPage |-> 0]

-------------------------------------------------------------------------------
cacheCap(h) == IF h.mode = "mmap" THEN RAM ELSE RAM - h.slots

At(list, p) == {i \in DOMAIN list : list[i].page = p}

(* The least recently used frame; of two used at once, the first.          *)
lru(list) ==
  CHOOSE i \in DOMAIN list :
    \A j \in DOMAIN list :
      list[i].t < list[j].t \/ (list[i].t = list[j].t /\ i <= j)

(* Only the order of the ages matters: they are kept as ranks.             *)
Now == RAM + 1
Ranked(list) ==
  [i \in DOMAIN list |->
     [list[i] EXCEPT !.t = Cardinality({f.t : f \in {g \in ToSet(list) : g.t < @}})]]
Aged(h) == [h EXCEPT !.pool = Ranked(@), !.cache = Ranked(@)]

Put(list, f) ==
  IF At(list, f.page) = {} THEN Append(list, f)
  ELSE [i \in DOMAIN list |-> IF i \in At(list, f.page) THEN f ELSE list[i]]
Touched(list, p) ==
  [i \in DOMAIN list |-> IF list[i].page = p THEN [list[i] EXCEPT !.t = Now] ELSE list[i]]

(* The kernel writes a page when it likes: kernelWrite().                  *)
KernelWrite(h, f) == [h EXCEPT !.disk[f.page] = f.lsn]

CacheRoom(h) ==
  IF Len(h.cache) < cacheCap(h) THEN h
  ELSE LET i == lru(h.cache)
           w == IF h.cache[i].dirty THEN KernelWrite(h, h.cache[i]) ELSE h
       IN  [w EXCEPT !.cache = RemoveAt(@, i)]

(* engineWrite(): the log goes first.  A buffered write only makes a page  *)
(* of the page cache dirty.                                                *)
EngineWrite(h, f) ==
  LET logged == [h EXCEPT !.durableLsn = IF f.lsn > @ THEN f.lsn ELSE @]
      r      == IF At(h.cache, f.page) = {} THEN CacheRoom(logged) ELSE logged
  IN  IF h.mode = "direct" THEN [logged EXCEPT !.disk[f.page] = f.lsn]
      ELSE [r EXCEPT !.cache = Put(@, Frame(f.page, TRUE, f.lsn, Now))]

PoolRoom(h) ==
  IF Len(h.pool) < h.slots THEN h
  ELSE LET i == lru(h.pool)
           w == IF h.pool[i].dirty THEN EngineWrite(h, h.pool[i]) ELSE h
       IN  [w EXCEPT !.pool = RemoveAt(@, i)]

(* p comes into the page cache from the device, if it is not there.        *)
Cached(h, p) ==
  IF At(h.cache, p) # {} THEN [h EXCEPT !.cache = Touched(@, p)]
  ELSE LET r == CacheRoom(h)
       IN  [r EXCEPT !.cache = Append(@, Frame(p, FALSE, r.disk[p], Now))]

fetch(h, p) ==
  CASE h.mode = "mmap"    -> Cached(h, p)
    [] At(h.pool, p) # {} -> [h EXCEPT !.pool = Touched(@, p)]
    [] OTHER ->
         LET r    == PoolRoom(h)
             c    == IF h.mode = "direct" THEN r ELSE Cached(r, p)
             read == IF h.mode = "direct" THEN c.disk[p]
                     ELSE c.cache[CHOOSE i \in At(c.cache, p) : TRUE].lsn
         IN  [c EXCEPT !.pool = Append(@, Frame(p, FALSE, read, Now))]

-------------------------------------------------------------------------------
Read(p) == host' = Aged(fetch(host, p)) /\ UNCHANGED latest

Write(p) ==
  LET h   == fetch(host, p)
      lsn == host.walLsn + 1
      f   == Frame(p, TRUE, lsn, Now)
  IN  /\ lsn <= MaxLsn
      /\ host' = Aged(IF h.mode = "mmap"
                      THEN [h EXCEPT !.walLsn = lsn, !.cache = Put(@, f)]
                      ELSE [h EXCEPT !.walLsn = lsn, !.pool = Put(@, f)])
      /\ latest' = [latest EXCEPT ![p] = lsn]

SyncWal ==
  /\ host' = [host EXCEPT !.durableLsn = host.walLsn]
  /\ UNCHANGED latest

Writeback ==
  LET dirty == {f \in ToSet(host.cache) : f.dirty}
  IN  /\ host' = [host EXCEPT
             !.disk  = [p \in DataPage |->
                          IF \E f \in dirty : f.page = p
                          THEN (CHOOSE f \in dirty : f.page = p).lsn ELSE @[p]],
             !.cache = [i \in DOMAIN @ |-> [@[i] EXCEPT !.dirty = FALSE]]]
      /\ UNCHANGED latest

Crash ==
  /\ host' = [host EXCEPT !.crashed = TRUE, !.pool = <<>>, !.cache = <<>>,
                          !.lost = {p \in DataPage : host.disk[p] > host.durableLsn}]
  /\ UNCHANGED latest

(* Reset or Reboot, another mode, another share of the RAM.                *)
StartOver ==
  /\ \E m \in {"pool", "direct", "mmap"}, k \in PoolSlots : host' = INITIAL(m, k)
  /\ latest' = [p \in DataPage |-> 0]

OwnershipStep ==
  \/ /\ ~host.crashed
     /\ \/ \E p \in DataPage : Read(p) \/ Write(p)
        \/ SyncWal \/ Writeback \/ Crash
  \/ StartOver

-------------------------------------------------------------------------------
OwnershipTypeOK ==
  /\ host.mode \in {"pool", "direct", "mmap"} /\ host.slots \in PoolSlots
  /\ \A list \in {host.pool, host.cache} : \A f \in ToSet(list) :
       f.page \in DataPage /\ f.dirty \in BOOLEAN /\ f.lsn \in 0 .. MaxLsn
  /\ \A p \in DataPage : host.disk[p] \in 0 .. MaxLsn /\ latest[p] \in 0 .. MaxLsn
  /\ host.durableLsn \in 0 .. host.walLsn

(* What the engine has handed to the kernel is within the durable log, so  *)
(* that the kernel may write it whenever it likes - evicting, writing back *)
(* - and a power cut leaves nothing on disk that redo cannot explain.  It  *)
(* is not so for a mapped file.                                            *)
KernelSeesOnlyLogged ==
  host.mode # "mmap" =>
    /\ \A f \in ToSet(host.cache) : f.lsn <= host.durableLsn
    /\ \A p \in DataPage : host.disk[p] <= host.durableLsn
    /\ host.lost = {}

(* Of the copies of a page - in a frame, in the page cache, on disk - the  *)
(* one that an access finds is the newest, however often the page went     *)
(* from one to the other; and the copies never exceed the RAM.             *)
Copies(p) ==
  {f.lsn : f \in {g \in ToSet(host.pool) \cup ToSet(host.cache) : g.page = p}}
Found(p) ==
  IF At(host.pool, p) # {} THEN host.pool[CHOOSE i \in At(host.pool, p) : TRUE].lsn
  ELSE IF At(host.cache, p) # {} THEN host.cache[CHOOSE i \in At(host.cache, p) : TRUE].lsn
  ELSE host.disk[p]

NewestFound ==
  /\ ~host.crashed => \A p \in DataPage :
       Found(p) = latest[p] /\ \A lsn \in Copies(p) : lsn <= latest[p]
  /\ Len(host.pool) + Len(host.cache) <= RAM
  /\ \A p \in DataPage : Cardinality(At(host.pool, p)) <= 1 /\ Cardinality(At(host.cache, p)) <= 1
===============================================================================
