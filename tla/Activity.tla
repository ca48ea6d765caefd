------------------------------- MODULE Activity -------------------------------
(***************************************************************************)
(* The activity log: what a metered request leaves behind.                 *)
(* metricsMonitor (internal/server/metrics.go, captures.go and             *)
(* metrics_middleware.go) inserts a row into the store, prunes a store in  *)
(* memory, keeps a capture of the request under the row's id in a cache of *)
(* bounded size (internal/cache/cache.go) and publishes the row.  A reload *)
(* brings a server with an empty cache, and a new store if the path        *)
(* changed; requests of the old server go on with what it had.             *)
(* A capture is the request it was made from, and its compressed size.     *)
(***************************************************************************)
EXTENDS Integers, Sequences, FiniteSets, FiniteSetsExt

CONSTANTS Records,      \* metered requests, each recorded once
          Sizes,        \* sizes of a compressed capture
          MaxBytes,     \* size of the cache
          MaxRows,      \* maxMetrics
          MaxServers    \* servers a reload can have built (bound)

Eras == 1..MaxServers    \* servers, and stores, in the order they were built
None == 0

VARIABLES rows,         \* per store: the rows, each an id with its request
          lastId,       \* per store: the AUTOINCREMENT counter
          inMemory,     \* the stores that are not files
          captures,     \* per server: items, order and size of its cache
          era,          \* the current server
          storeOf,      \* the store of each server
          shut,         \* stores that are closed
          record        \* per request: how far it is, its server and its id

actVars == <<rows, lastId, inMemory, captures, era, storeOf, shut, record>>
storeVars == <<rows, lastId, inMemory>>
serverVars == <<era, storeOf, shut>>

EmptyCache == [items |-> <<>>, order |-> <<>>, size |-> 0]

Init ==
  /\ rows = [s \in Eras |-> {}] /\ lastId = [s \in Eras |-> 0]
  /\ inMemory \in SUBSET Eras
  /\ captures = [e \in Eras |-> EmptyCache]
  /\ era = 1 /\ storeOf = [e \in Eras |-> 1] /\ shut = {}
  /\ record = [q \in Records |-> [at |-> "none", srv |-> None, id |-> None]]

-----------------------------------------------------------------------------
\* cache.Cache

Has(c, id) == id \in DOMAIN c.items

\* The bytes of the first n entries of an order.
Bytes(items, order) ==
  LET sum[n \in 0..Len(order)] == IF n = 0 THEN 0 ELSE sum[n - 1] + items[order[n]].size
  IN sum

\* Add: an entry of the same id goes, then the oldest until there is room.
Without(c, id) ==
  IF Has(c, id) THEN [c EXCEPT !.order = SelectSeq(@, LAMBDA i : i # id), !.size = @ - c.items[id].size]
  ELSE c
Put(c, id, item) ==
  LET freed == Bytes(c.items, c.order)
      n == Min({k \in 0..Len(c.order) :
                  c.size - freed[k] + item.size <= MaxBytes \/ k = Len(c.order)})
      kept == SubSeq(c.order, n + 1, Len(c.order))
  IN [items |-> [i \in {kept[k] : k \in DOMAIN kept} \union {id} |->
                   IF i = id THEN item ELSE c.items[i]],
      order |-> Append(kept, id),
      size |-> c.size - freed[n] + item.size]
CacheAdd(c, id, item) ==
  IF item.size > MaxBytes THEN c ELSE Put(Without(c, id), id, item)

-----------------------------------------------------------------------------
\* A request is handled by the server that is current when it comes.
Handle(q) ==
  /\ record[q].at = "none"
  /\ record' = [record EXCEPT ![q] = [at |-> "handled", srv |-> era, id |-> None]]
  /\ UNCHANGED <<storeVars, captures, serverVars>>

\* record, after the handler returned: Insert.  It gives up when the store
\* does, which one that is closed always does.
Insert(q) ==
  LET s == storeOf[record[q].srv]
  IN /\ record[q].at = "handled"
     /\ \/ /\ s \notin shut
           /\ lastId' = [lastId EXCEPT ![s] = @ + 1]
           /\ rows' = [rows EXCEPT ![s] = @ \union {[id |-> lastId[s] + 1, of |-> q]}]
           /\ record' = [record EXCEPT ![q].at = IF s \in inMemory THEN "inserted" ELSE "stored",
                                       ![q].id = lastId[s] + 1]
        \/ /\ record' = [record EXCEPT ![q].at = "over"]
           /\ UNCHANGED <<rows, lastId>>
     /\ UNCHANGED <<inMemory, captures, serverVars>>

\* Prune: the rows beyond the newest MaxRows, by their ids.
\* Mutant: one row too many is kept.
PruneOneLess(table, maxRows) ==
  {r \in table : r.id >= Max({o.id : o \in table}) - maxRows}
PruneTo(table, maxRows) ==
  LET newest == Max({r.id : r \in table} \union {0})
  IN {r \in table : r.id > newest - maxRows}

Prune(q) ==
  LET s == storeOf[record[q].srv]
  IN /\ record[q].at = "inserted"
     /\ rows' = [rows EXCEPT ![s] = IF s \in shut THEN @ ELSE PruneTo(@, MaxRows)]
     /\ record' = [record EXCEPT ![q].at = "stored"]
     /\ UNCHANGED <<lastId, inMemory, captures, serverVars>>

\* storeCapture, of a request that was answered, with success or without; one
\* whose client left, or whose answer was empty, leaves none.  The event that
\* publishes the row changes nothing here.
StoreCapture(q) ==
  /\ record[q].at = "stored"
  /\ \/ \E n \in Sizes :
          captures' = [captures EXCEPT ![record[q].srv] =
                         CacheAdd(@, record[q].id, [of |-> q, size |-> n])]
     \/ UNCHANGED captures
  /\ record' = [record EXCEPT ![q].at = "over"]
  /\ UNCHANGED <<storeVars, serverVars>>

-----------------------------------------------------------------------------
\* A reload: newMetricsMonitor for the new server, on the store there is or on
\* a new one; then the old store is closed if it was replaced.
ReloadServer ==
  /\ era < MaxServers
  /\ era' = era + 1
  /\ storeOf' \in {[storeOf EXCEPT ![era + 1] = s] : s \in {storeOf[era], era + 1}}
  /\ captures' = [captures EXCEPT ![era + 1] = EmptyCache]
  /\ UNCHANGED <<storeVars, shut, record>>

CloseStore ==
  \E e \in Eras :
    /\ e < era /\ storeOf[e] # storeOf[era] /\ storeOf[e] \notin shut
    /\ shut' = shut \union {storeOf[e]}
    /\ UNCHANGED <<storeVars, captures, era, storeOf, record>>

Next ==
  \/ \E q \in Records : Handle(q) \/ Insert(q) \/ Prune(q) \/ StoreCapture(q)
  \/ ReloadServer \/ CloseStore

Spec == Init /\ [][Next]_actVars

-----------------------------------------------------------------------------
\* The cache keeps its books: what it holds is what it counts, in one order,
\* within its size.
CacheBalances ==
  \A e \in Eras :
    LET c == captures[e]
    IN /\ c.size = Bytes(c.items, c.order)[Len(c.order)]
       /\ c.size <= MaxBytes
       /\ {c.order[i] : i \in DOMAIN c.order} = DOMAIN c.items
       /\ Len(c.order) = Cardinality(DOMAIN c.items)

\* The capture the current server shows for a row is the one of the row's own
\* request, whatever reloads came between (overlayCaptureState, getCaptureByID).
CaptureIsOwn ==
  \A r \in rows[storeOf[era]] :
    Has(captures[era], r.id) => captures[era].items[r.id].of = r.of

\* A store in memory has the newest rows, MaxRows of them or all, and more only
\* as long as somebody has still to prune it.
NewestRows ==
  \A s \in inMemory :
    LET pruners == {q \in Records : record[q].at = "inserted" /\ storeOf[record[q].srv] = s}
        ids == {r.id : r \in rows[s]}
        from == Min(ids \union {lastId[s] + 1})
    IN /\ ids = from..lastId[s]
       /\ Cardinality(ids) >= Min({MaxRows, lastId[s]})
       /\ s \notin shut => Cardinality(ids) <= MaxRows + Cardinality(pruners)

ActivityConsistent == CacheBalances /\ CaptureIsOwn /\ NewestRows
=============================================================================
