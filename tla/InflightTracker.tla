---------------------------- MODULE InflightTracker ----------------------------
(***************************************************************************)
(* inflightTracker (internal/server/inflight.go): the requests that are    *)
(* being served, and a stream of updates about them.  Request handlers     *)
(* change the table and put an update into a bounded outbox under mu; a    *)
(* publisher goroutine that exists only while there is something to        *)
(* publish empties the outbox.  A full outbox drops the update and asks    *)
(* for a snapshot instead.                                                 *)
(***************************************************************************)
EXTENDS Naturals, Sequences

CONSTANTS Requests,     \* the requests, each used once
          Publishers,   \* goroutines that run publishUpdates (bound)
          OutboxSize,   \* inflightOutboxSize
          MaxChanges,   \* changes of one entry (bound)
          None          \* no entry

VARIABLES requests,          \* the entry of each request: how often it has changed
          served,            \* requests that have been removed
          timer,             \* requests with a timer that is to call emitPending
          mu,                \* where the holder of mu is in enqueueLocked
          updates,           \* the outbox
          needsSnapshot,
          publisherRunning,
          publisher,         \* where each publishUpdates goroutine is
          item               \* the update it is publishing

trackerVars == <<requests, served, timer, mu, updates, needsSnapshot,
                 publisherRunning, publisher, item>>
tableVars == <<requests, served, timer>>
outboxVars == <<mu, updates, needsSnapshot>>
publisherVars == <<publisherRunning, publisher, item>>

Upsert(r, entry) == [op |-> "upsert", id |-> r, entry |-> entry]
RemoveOf(r) == [op |-> "remove", id |-> r]
Snapshot == [op |-> "snapshot", requests |-> requests]

TrackerInit ==
  /\ requests = [r \in Requests |-> None]
  /\ served = {}
  /\ timer = {}
  /\ mu = "free"
  /\ updates = <<>>
  /\ needsSnapshot = FALSE
  /\ publisherRunning = FALSE
  /\ publisher = [p \in Publishers |-> "none"]
  /\ item = [p \in Publishers |-> None]

\* Mutant: a full outbox drops the update and asks for nothing.
EnqueueOrDrop(update) ==
  /\ mu' = "start"
  /\ updates' = IF Len(updates) < OutboxSize THEN Append(updates, update) ELSE updates
\* enqueueLocked up to its select; mu stays held for what follows.
Enqueue(update) ==
  IF Len(updates) < OutboxSize
    THEN updates' = Append(updates, update) /\ mu' = "start"
    ELSE UNCHANGED updates /\ mu' = "overflow"

\* Room for one more change of an entry that is in the table.
Changes(r) == mu = "free" /\ requests[r] \in 0..(MaxChanges - 1)

Track(r) ==
  /\ mu = "free"
  /\ r \notin served
  /\ requests[r] = None
  /\ requests' = [requests EXCEPT ![r] = 0]
  /\ Enqueue(Upsert(r, 0))
  /\ UNCHANGED <<served, timer, needsSnapshot, publisherVars>>

Remove(r) ==
  /\ mu = "free"
  /\ requests[r] # None
  /\ requests' = [requests EXCEPT ![r] = None]
  /\ served' = served \union {r}
  /\ timer' = timer \ {r}
  /\ Enqueue(RemoveOf(r))
  /\ UNCHANGED <<needsSnapshot, publisherVars>>

SetResponseHeaders(r) ==
  /\ Changes(r)
  /\ requests' = [requests EXCEPT ![r] = requests[r] + 1]
  /\ Enqueue(Upsert(r, requests[r] + 1))
  /\ UNCHANGED <<served, timer, needsSnapshot, publisherVars>>

\* AddResponseBytes publishes at most every inflightUpdateInterval; in between
\* it leaves the change to a timer.  Either may be due, since time is not modelled.
AddResponseBytes(r) ==
  /\ Changes(r)
  /\ requests' = [requests EXCEPT ![r] = requests[r] + 1]
  /\ \/ r \notin timer /\ Enqueue(Upsert(r, requests[r] + 1)) /\ UNCHANGED timer
     \/ timer' = timer \union {r} /\ UNCHANGED <<mu, updates>>
  /\ UNCHANGED <<served, needsSnapshot, publisherVars>>

\* The timer's function; it finds no entry, and does nothing, after a Remove.
EmitPending(r) ==
  /\ mu = "free"
  /\ r \in timer
  /\ timer' = timer \ {r}
  /\ Enqueue(Upsert(r, requests[r]))
  /\ UNCHANGED <<requests, served, needsSnapshot, publisherVars>>

\* The outbox was full.
AskForSnapshot ==
  /\ mu = "overflow"
  /\ needsSnapshot' = TRUE
  /\ mu' = "start"
  /\ UNCHANGED <<tableVars, updates, publisherVars>>

\* startPublisher, and the end of the critical section.
StartPublisher ==
  /\ mu = "start"
  /\ mu' = "free"
  /\ IF publisherRunning
       THEN UNCHANGED publisherVars
       ELSE /\ \E p \in Publishers :
                 publisher[p] = "none" /\ publisher' = [publisher EXCEPT ![p] = "select"]
            /\ publisherRunning' = TRUE
            /\ UNCHANGED item
  /\ UNCHANGED <<tableVars, updates, needsSnapshot>>

At(p, from, to) == publisher[p] = from /\ publisher' = [publisher EXCEPT ![p] = to]

\* publishUpdates: the next update, or on the way to idle.
Receive(p) ==
  /\ updates # <<>>
  /\ At(p, "select", "publish")
  /\ item' = [item EXCEPT ![p] = Head(updates)]
  /\ updates' = Tail(updates)
  /\ UNCHANGED <<tableVars, mu, needsSnapshot, publisherRunning>>

FindsNone(p) ==
  /\ updates = <<>>
  /\ At(p, "select", "default")
  /\ UNCHANGED <<tableVars, outboxVars, publisherRunning, item>>

GoIdle(p) ==
  /\ At(p, "default", "idle")
  /\ publisherRunning' = FALSE
  /\ UNCHANGED <<tableVars, outboxVars, item>>

\* Mutant: it returns without a second look.
LooksOnce(p) ==
  /\ At(p, "idle", "none")
  /\ UNCHANGED <<tableVars, outboxVars, publisherRunning, item>>
LooksAgain(p) ==
  /\ At(p, "idle", IF updates # <<>> THEN "reclaim" ELSE "none")
  /\ UNCHANGED <<tableVars, outboxVars, publisherRunning, item>>

Reclaim(p) ==
  /\ At(p, "reclaim", IF publisherRunning THEN "none" ELSE "select")
  /\ publisherRunning' = TRUE
  /\ UNCHANGED <<tableVars, outboxVars, item>>

\* t.publish has returned.
Published(p) ==
  /\ At(p, "publish", "recover")
  /\ item' = [item EXCEPT ![p] = None]
  /\ UNCHANGED <<tableVars, outboxVars, publisherRunning>>

\* publishRecoverySnapshots: discard the outbox, then read the table under mu.
SwapNeedsSnapshot(p) ==
  /\ At(p, "recover", IF needsSnapshot THEN "discard" ELSE "select")
  /\ needsSnapshot' = FALSE
  /\ UNCHANGED <<tableVars, mu, updates, publisherRunning, item>>

Discard(p) ==
  /\ publisher[p] = "discard"
  /\ updates # <<>>
  /\ updates' = Tail(updates)
  /\ UNCHANGED <<tableVars, mu, needsSnapshot, publisherVars>>

ReadCurrent(p) ==
  /\ updates = <<>>
  /\ At(p, "discard", "current")
  /\ UNCHANGED <<tableVars, outboxVars, publisherRunning, item>>

TakeCurrent(p) ==
  /\ mu = "free"
  /\ At(p, "current", "publish")
  /\ item' = [item EXCEPT ![p] = Snapshot]
  /\ UNCHANGED <<tableVars, outboxVars, publisherRunning>>

HandlerStep(r) ==
  Track(r) \/ Remove(r) \/ SetResponseHeaders(r) \/ AddResponseBytes(r)

LockHolderStep == AskForSnapshot \/ StartPublisher

PublisherStep(p) ==
  \/ Receive(p) \/ FindsNone(p) \/ GoIdle(p) \/ LooksAgain(p) \/ Reclaim(p)
  \/ SwapNeedsSnapshot(p) \/ Discard(p) \/ ReadCurrent(p) \/ TakeCurrent(p)
=============================================================================
