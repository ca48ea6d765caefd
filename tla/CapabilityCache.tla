--------------------------- MODULE CapabilityCache ---------------------------
(***************************************************************************)
(* Discovered capabilities of one model: capcompat.Service                 *)
(* (internal/capcompat/service.go) with its memo and its single flight of  *)
(* probes, on the cache table of the store (internal/store/sqlite/cache.go *)
(* and store/cache.go), whose rows expire.  Each server has a Service of   *)
(* its own, so after a reload two of them work on one row.  What a probe   *)
(* finds is a number, a new one each time.                                 *)
(***************************************************************************)
EXTENDS Integers

CONSTANTS Services,    \* the Service of each server a reload has built
          Lookups,     \* callers of Lookup, each with one Service at a time
          Refreshes,   \* goroutines of refreshCapabilities
          MaxProbes    \* probes that find something (bound)

Nothing == 0   \* no row, or a remembered miss
Unasked == -1   \* no memo entry
Bad == -2           \* a row that cannot be decoded

VARIABLES row,         \* the value, and whether its TTL is over
          memo,        \* per Service
          probing,     \* Services whose inflight map has the key
          lookup,      \* per caller: where it is, its Service, what it read
          refresh,     \* per goroutine: the same
          found,       \* probes that found something
          due          \* the value the row should have, if that is known (history)

capVars == <<row, memo, probing, lookup, refresh, found, due>>

NoRow == [val |-> Nothing, expired |-> FALSE]
Done == [at |-> "none", of |-> 0, val |-> Nothing]
Unknown == -3

Init ==
  /\ row = NoRow
  /\ memo = [s \in Services |-> Unasked]
  /\ probing = {}
  /\ lookup = [l \in Lookups |-> Done] /\ refresh = [r \in Refreshes |-> Done]
  /\ found = 0 /\ due = Nothing

Remember(s, val) == memo' = [memo EXCEPT ![s] = val]
Ends(l) == lookup' = [lookup EXCEPT ![l] = Done]

\* The clock passes the row's TTL; and a row of an older version, or a
\* damaged one, turns up in the file.
Expire ==
  /\ row.val # Nothing /\ ~row.expired
  /\ row' = [row EXCEPT !.expired = TRUE]
  /\ due' = Unknown
  /\ UNCHANGED <<memo, probing, lookup, refresh, found>>

Damage ==
  /\ row.val \notin {Nothing, Bad}
  /\ row' = [val |-> Bad, expired |-> FALSE]
  /\ due' = Unknown
  /\ UNCHANGED <<memo, probing, lookup, refresh, found>>

-----------------------------------------------------------------------------
\* Lookup, in the memo, then read with the store's Get.
LookUp(l, s) ==
  /\ lookup[l].at = "none"
  /\ memo[s] = Unasked
  /\ lookup' = [lookup EXCEPT ![l] = [at |-> "get", of |-> s, val |-> Nothing]]
  /\ UNCHANGED <<row, memo, probing, refresh, found, due>>

Get(l) ==
  /\ lookup[l].at = "get"
  /\ \/ lookup' = [lookup EXCEPT ![l] =
          [@ EXCEPT !.at = IF row.expired THEN "clean"
                           ELSE IF row.val = Bad THEN "drop" ELSE "remember",
                    !.val = IF row.expired THEN Nothing ELSE row.val]]
     \/ Ends(l)                           \* the read fails: not remembered
  /\ UNCHANGED <<row, memo, probing, refresh, found, due>>

\* Get's second statement: only a row that is still expired.
\* Mutant: whatever is there by now.
CleanedByKey == NoRow
Cleaned == IF row.expired THEN NoRow ELSE row

CleanExpired(l) ==
  /\ lookup[l].at = "clean"
  /\ row' = Cleaned
  /\ lookup' = [lookup EXCEPT ![l].at = "remember"]
  /\ UNCHANGED <<memo, probing, refresh, found, due>>

\* read's Delete of what it could not decode, by key; the miss is an error.
DropBad(l) ==
  /\ lookup[l].at = "drop"
  /\ row' = NoRow
  /\ due' = IF row.val = Bad THEN due ELSE Unknown
  /\ Ends(l)
  /\ UNCHANGED <<memo, probing, refresh, found>>

LookupRemembers(l) ==
  /\ lookup[l].at = "remember"
  /\ Remember(lookup[l].of, lookup[l].val)
  /\ Ends(l)
  /\ UNCHANGED <<row, probing, refresh, found, due>>

-----------------------------------------------------------------------------
\* Refresh, when the model has become ready; a second probe of one Service is
\* turned away.  Goroutines of two Services do not know of each other.
Refresh(r, s) ==
  /\ refresh[r].at = "none"
  /\ s \notin probing
  /\ probing' = probing \union {s}
  /\ refresh' = [refresh EXCEPT ![r] = [at |-> "probe", of |-> s, val |-> Nothing]]
  /\ due' = IF probing = {} THEN due ELSE Unknown
  /\ UNCHANGED <<row, memo, lookup, found>>

Release(r) == probing' = probing \ {refresh[r].of} /\ refresh' = [refresh EXCEPT ![r] = Done]

\* detect: nothing answers, the upstream is not supported, or it reports.
Probe(r) ==
  /\ refresh[r].at = "probe"
  /\ \/ Release(r) /\ UNCHANGED <<memo, found, due>>
     \/ refresh' = [refresh EXCEPT ![r].at = "delete"] /\ UNCHANGED <<memo, probing, found, due>>
     \/ /\ found < MaxProbes
        /\ found' = found + 1
        /\ Remember(refresh[r].of, found + 1)
        /\ refresh' = [refresh EXCEPT ![r].at = "set", ![r].val = found + 1]
        /\ due' = IF \E s \in probing : s # refresh[r].of THEN Unknown ELSE found + 1
        /\ UNCHANGED probing
  /\ UNCHANGED <<row, lookup>>

\* Unsupported: the row goes, then the miss is remembered; a store that fails
\* ends it before that.
DeleteRow(r) ==
  /\ refresh[r].at = "delete"
  /\ \/ /\ row' = NoRow
        /\ refresh' = [refresh EXCEPT ![r].at = "miss"]
        /\ due' = IF \E s \in probing : s # refresh[r].of THEN Unknown ELSE Nothing
        /\ UNCHANGED probing
     \/ Release(r) /\ UNCHANGED <<row, due>>
  /\ UNCHANGED <<memo, lookup, found>>

RememberMiss(r) ==
  /\ refresh[r].at = "miss"
  /\ Remember(refresh[r].of, Nothing)
  /\ Release(r)
  /\ UNCHANGED <<row, lookup, found, due>>

SetRow(r) ==
  /\ refresh[r].at = "set"
  /\ \/ row' = [val |-> refresh[r].val, expired |-> FALSE] /\ UNCHANGED due
     \/ due' = Unknown /\ UNCHANGED row
  /\ Release(r)
  /\ UNCHANGED <<memo, lookup, found>>

Next ==
  \/ Expire \/ Damage
  \/ \E l \in Lookups :
       \/ \E s \in Services : LookUp(l, s)
       \/ Get(l) \/ CleanExpired(l) \/ DropBad(l) \/ LookupRemembers(l)
  \/ \E r \in Refreshes :
       \/ \E s \in Services : Refresh(r, s)
       \/ Probe(r) \/ DeleteRow(r) \/ RememberMiss(r) \/ SetRow(r)

Spec == Init /\ [][Next]_capVars

-----------------------------------------------------------------------------
\* What a restart will find is what the last probe that was stored has found:
\* no reader's cleaning up, and no second probe of the same Service, leaves
\* another value or none.  Not told of a failed write, of damage, nor of two
\* Services that probe at the same time.
StoreHasLastProbe ==
  (due # Unknown /\ probing = {}) => row.val = due
=============================================================================
