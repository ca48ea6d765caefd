----------------------------- MODULE RequestStream -----------------------------
(***************************************************************************)
(* From the in-flight tracker to a browser: the tracker publishes on the   *)
(* event bus, serveSSE and handleAPIEvents (internal/server/apigroup.go)   *)
(* subscribe for each connection, send the table as it is, and put what    *)
(* the bus delivers into a bounded buffer that drops; the interface        *)
(* (ui/src/stores/api.ts) applies what arrives to its list of requests.    *)
(***************************************************************************)
EXTENDS InflightTracker, EventGroup

CONSTANT SendBuffer     \* capacity of sendBuffer
ASSUME SendBufferAssumption == SendBuffer \in Nat

VARIABLES conn,         \* where each handler of /api/events is
          first,        \* the snapshot of the initial payload
          sendBuffer,
          view,         \* the client's list of requests
          lossy         \* connections that missed something (history)

streamVars == <<conn, first, sendBuffer, view, lossy>>
vars == <<trackerVars, groupVars, streamVars>>

Empty == [r \in Requests |-> None]

Init ==
  /\ TrackerInit
  /\ GroupInit
  /\ conn = [c \in Consumers |-> "none"]
  /\ first = [c \in Consumers |-> None]
  /\ sendBuffer = [c \in Consumers |-> <<>>]
  /\ view = [c \in Consumers |-> Empty]
  /\ lossy = {}

\* handleAPIEventMessage of the interface, for an "inflight" message.
Apply(list, update) ==
  CASE update.op = "snapshot" -> update.requests
    [] update.op = "upsert" -> [list EXCEPT ![update.id] = update.entry]
    [] update.op = "remove" -> [list EXCEPT ![update.id] = None]

\* send: what does not fit is dropped.  History: a connection also misses
\* something when an update gets ahead of the older initial snapshot.
Send(c, update) ==
  IF conn[c] = "closed"
    THEN UNCHANGED <<sendBuffer, lossy>>
    ELSE /\ sendBuffer' = IF Len(sendBuffer[c]) < SendBuffer
                            THEN [sendBuffer EXCEPT ![c] = Append(sendBuffer[c], update)]
                            ELSE sendBuffer
         /\ lossy' = IF Len(sendBuffer[c]) >= SendBuffer \/ conn[c] = "payload"
                       THEN lossy \union {c} ELSE lossy

-----------------------------------------------------------------------------
TrackerOnly == UNCHANGED <<groupVars, streamVars>>

HandlerChanges(r) == HandlerStep(r) /\ TrackerOnly
TimerFires(r) == EmitPending(r) /\ TrackerOnly
LockHolder == LockHolderStep /\ TrackerOnly
PublisherWorks(p) == PublisherStep(p) /\ TrackerOnly

\* t.publish is event.Emit, which blocks while a queue is full.
Emit(p) ==
  /\ publisher[p] = "publish"
  /\ BroadcastTo(p, item[p])
  /\ Published(p)
  /\ UNCHANGED streamVars

EmitWaits(p) ==
  /\ publisher[p] = "publish"
  /\ BroadcastWaits(p)
  /\ UNCHANGED <<trackerVars, streamVars>>

\* setup of handleAPIEvents subscribes first and reads the table then.
Subscribe(c) ==
  /\ conn[c] = "none"
  /\ Add(c)
  /\ conn' = [conn EXCEPT ![c] = "subscribed"]
  /\ UNCHANGED <<trackerVars, first, sendBuffer, view, lossy>>

ReadPayload(c) ==
  /\ conn[c] = "subscribed"
  /\ mu = "free"
  /\ conn' = [conn EXCEPT ![c] = "payload"]
  /\ first' = [first EXCEPT ![c] = Snapshot]
  /\ UNCHANGED <<trackerVars, groupVars, sendBuffer, view, lossy>>

SendPayload(c) ==
  /\ conn[c] = "payload"
  /\ conn' = [conn EXCEPT ![c] = "open"]
  /\ first' = [first EXCEPT ![c] = None]
  /\ sendBuffer' = IF Len(sendBuffer[c]) < SendBuffer
                     THEN [sendBuffer EXCEPT ![c] = Append(sendBuffer[c], first[c])]
                     ELSE sendBuffer
  /\ lossy' = IF Len(sendBuffer[c]) >= SendBuffer THEN lossy \union {c} ELSE lossy
  /\ UNCHANGED <<trackerVars, groupVars, view>>

\* The subscriber's fn: sendInFlight.
HandleUpdate(c) ==
  /\ pending[c] # <<>>
  /\ Send(c, Head(pending[c]))
  /\ Handled(c)
  /\ UNCHANGED <<trackerVars, conn, first, view>>

Listens(c) == ListenStep(c) /\ UNCHANGED <<trackerVars, streamVars>>

\* The loop of serveSSE writes to the client, which applies the message.
Deliver(c) ==
  /\ conn[c] = "open"
  /\ sendBuffer[c] # <<>>
  /\ view' = [view EXCEPT ![c] = Apply(view[c], Head(sendBuffer[c]))]
  /\ sendBuffer' = [sendBuffer EXCEPT ![c] = Tail(sendBuffer[c])]
  /\ UNCHANGED <<trackerVars, groupVars, conn, first, lossy>>

\* The client leaves or the server shuts down: unsubscribe, then return.
Close(c) ==
  /\ conn[c] = "open"
  /\ Del(c)
  /\ conn' = [conn EXCEPT ![c] = "closed"]
  /\ sendBuffer' = [sendBuffer EXCEPT ![c] = <<>>]
  /\ view' = [view EXCEPT ![c] = Empty]
  /\ UNCHANGED <<trackerVars, first, lossy>>

Next ==
  \/ \E r \in Requests : HandlerChanges(r) \/ TimerFires(r)
  \/ LockHolder
  \/ \E p \in Publishers : PublisherWorks(p) \/ Emit(p) \/ EmitWaits(p)
  \/ \E c \in Consumers :
       \/ Subscribe(c) \/ ReadPayload(c) \/ SendPayload(c) \/ Close(c)
       \/ HandleUpdate(c) \/ Listens(c) \/ Deliver(c)

Spec == Init /\ [][Next]_vars

\* Goroutines that can run do.  No client has to connect, to read or to leave,
\* and no request has to come, to change or to end.
FairSpec ==
  /\ Spec
  /\ WF_vars(LockHolder)
  /\ \A p \in Publishers : WF_vars(PublisherWorks(p) \/ Emit(p) \/ EmitWaits(p))
  /\ \A c \in Consumers : WF_vars(HandleUpdate(c) \/ Listens(c))

-----------------------------------------------------------------------------
PublisherIdle == \A p \in Publishers : publisher[p] = "none"

\* Nothing about the table is on its way to connection c.
Settled(c) ==
  /\ conn[c] = "open"
  /\ mu = "free" /\ updates = <<>> /\ ~needsSnapshot /\ timer = {} /\ PublisherIdle
  /\ queue[c] = <<>> /\ pending[c] = <<>> /\ sendBuffer[c] = <<>>

\* Whatever was dropped from the outbox, discarded, published late or read
\* twice: a client that lost nothing on its own connection ends with the list
\* of requests the tracker has (enqueueLocked, publishRecoverySnapshots and the
\* order of subscription and Current in handleAPIEvents).
StreamAgrees ==
  \A c \in Consumers : Settled(c) /\ c \notin lossy => view[c] = requests

\* publishUpdates goes idle, and publishers wait for slow subscribers, without
\* a lost wake-up: what is in the outbox is published, also when subscribers
\* come and go and when nobody reads the streams.
OutboxDrains == <>[](updates = <<>> /\ PublisherIdle /\ mu = "free")

\* "On overflow, a later snapshot replaces any dropped incremental updates"
\* (inflight.go:180-182).
SnapshotFollows == needsSnapshot ~> ~needsSnapshot
=============================================================================
