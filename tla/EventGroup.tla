------------------------------ MODULE EventGroup ------------------------------
(***************************************************************************)
(* The subscribers of one event type (internal/event/event.go): a          *)
(* consumer has a queue and a goroutine, Listen, that takes the whole      *)
(* queue at once; a publisher waits while any queue is full.  Consumers    *)
(* and publishers wait on one condition variable.  A critical section is   *)
(* one action; cond.Wait ends it.                                          *)
(***************************************************************************)
EXTENDS Naturals, Sequences

CONSTANTS Consumers,   \* the consumers SubscribeTo may create
          MaxQueue     \* maxQueue of the dispatcher

VARIABLES subs,        \* group.subs: the consumers Broadcast feeds
          listener,    \* where each Listen goroutine is
          stop,        \* consumer.stop
          queue,       \* consumer.queue
          pending,     \* the batch a Listen goroutine took
          parked       \* the publishers in cond.Wait

groupVars == <<subs, listener, stop, queue, pending, parked>>

ListenerStates == {"absent", "running", "waiting", "handling", "returned"}

GroupInit ==
  /\ subs = {}
  /\ listener = [c \in Consumers |-> "absent"]
  /\ stop = [c \in Consumers |-> FALSE]
  /\ queue = [c \in Consumers |-> <<>>]
  /\ pending = [c \in Consumers |-> <<>>]
  /\ parked = {}

\* cond.Broadcast: everyone in cond.Wait looks again.
Woken == [c \in Consumers |-> IF listener[c] = "waiting" THEN "running" ELSE listener[c]]

Full == \E c \in subs : Len(queue[c]) >= MaxQueue

\* SubscribeTo: the group has one more consumer, and its goroutine starts.
Add(c) ==
  /\ listener[c] = "absent"
  /\ subs' = subs \union {c}
  /\ listener' = [listener EXCEPT ![c] = "running"]
  /\ UNCHANGED <<stop, queue, pending, parked>>

\* The CancelFunc of a subscription.  It wakes nobody.
Del(c) ==
  /\ stop' = [stop EXCEPT ![c] = TRUE]
  /\ subs' = subs \ {c}
  /\ UNCHANGED <<listener, queue, pending, parked>>

\* Publish, from the first look or from a wake-up.
BroadcastWaits(p) ==
  /\ Full
  /\ p \notin parked
  /\ parked' = parked \union {p}
  /\ UNCHANGED <<subs, listener, stop, queue, pending>>

BroadcastTo(p, ev) ==
  /\ ~Full
  /\ p \notin parked
  /\ queue' = [c \in Consumers |-> IF c \in subs THEN Append(queue[c], ev) ELSE queue[c]]
  /\ listener' = Woken
  /\ parked' = {}
  /\ UNCHANGED <<subs, stop, pending>>

\* One turn of Listen's loop up to the end of its critical section.
TakeBatch(c) ==
  /\ listener[c] = "running"
  /\ queue[c] # <<>>
  /\ pending' = [pending EXCEPT ![c] = queue[c]]
  /\ queue' = [queue EXCEPT ![c] = <<>>]
  /\ listener' = [listener EXCEPT ![c] = "handling"]
  /\ UNCHANGED <<subs, stop, parked>>

FindsNothing(c) ==
  /\ listener[c] = "running"
  /\ queue[c] = <<>>
  /\ listener' = [listener EXCEPT ![c] = IF stop[c] THEN "returned" ELSE "waiting"]
  /\ UNCHANGED <<subs, stop, queue, pending, parked>>

\* fn(event), for the next event of the batch; what fn does is the subscriber's.
Handled(c) ==
  /\ listener[c] = "handling"
  /\ pending[c] # <<>>
  /\ pending' = [pending EXCEPT ![c] = Tail(pending[c])]
  /\ UNCHANGED <<subs, listener, stop, queue, parked>>

\* The batch is done; publishers that wait for room are woken, without the lock.
BatchEnd(c) ==
  /\ listener[c] = "handling"
  /\ pending[c] = <<>>
  /\ listener' = [Woken EXCEPT ![c] = "running"]
  /\ parked' = {}
  /\ UNCHANGED <<subs, stop, queue, pending>>

ListenStep(c) == TakeBatch(c) \/ FindsNothing(c) \/ BatchEnd(c)
=============================================================================
