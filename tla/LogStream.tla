------------------------------ MODULE LogStream ------------------------------
(***************************************************************************)
(* One log stream: logmon.Monitor (internal/logmon/logging.go) keeps the   *)
(* last bytes in a circular buffer and hands every write to a goroutine    *)
(* that publishes it; a browser gets the history and then what is          *)
(* published (handleAPILogEvents in internal/server/apigroup.go            *)
(* subscribes first, handleLogStream in internal/server/log.go reads the   *)
(* history first).  A byte is the number of bytes written up to it.        *)
(***************************************************************************)
EXTENDS Integers, Sequences, FiniteSets

CONSTANTS Capacity,     \* BufferSize
          MaxWrite,     \* bytes of one Write (bound)
          MaxTotal,     \* bytes written in all (bound)
          MaxWriters,   \* goroutines in Write at once (bound)
          ChannelSize,  \* capacity of broadcastCh
          InboxSize,    \* maxQueue of the monitor's event bus
          SendSize      \* sendBuffer, or sendChan

VARIABLES data, head, size,   \* circularBuffer; data starts at index 0
          total,              \* bytes written
          writing,            \* writes in the buffer and not yet broadcast
          broadcastCh,        \* writes, each a range of bytes
          dropped,            \* the counter of dropped bytes
          hand,               \* what broadcastLoop has still to publish
          told,               \* bytes its markers have reported (history)
          lost,               \* the bytes dropped (history)
          reader,             \* how far the client's handler is
          inbox,              \* the subscriber's queue on the event bus
          sent,               \* sendBuffer
          seen,               \* bytes the client got
          blind               \* bytes it cannot get any more: gone from the
                              \* history it read, or refused by its buffer

logVars == <<data, head, size, total, writing, broadcastCh, dropped, hand, told, lost,
             reader, inbox, sent, seen, blind>>
bufferVars == <<data, head, size, total, writing>>
loopVars == <<dropped, hand, told>>
clientVars == <<reader, inbox, sent, seen, blind>>

Bytes(from, to) == [from |-> from, to |-> to]
Covered(write) == write.from..write.to
Notice(n) == [dropped |-> n]
IsNotice(ev) == "dropped" \in DOMAIN ev
Fresh(write) == [write |-> write]
IsFresh(ev) == "write" \in DOMAIN ev

Init ==
  /\ data = [i \in 0..(Capacity - 1) |-> 0] /\ head = 0 /\ size = 0
  /\ total = 0 /\ writing = {} /\ broadcastCh = <<>>
  /\ dropped = 0 /\ hand = <<>> /\ told = 0 /\ lost = {}
  /\ reader = "none" /\ inbox = <<>> /\ sent = <<>> /\ seen = {} /\ blind = {}

\* circularBuffer.Write of the bytes total+1..total+n.
BufferWrite(n) ==
  IF n >= Capacity
    THEN /\ data' = [i \in 0..(Capacity - 1) |-> total + n - Capacity + 1 + i]
         /\ head' = 0
         /\ size' = Capacity
    ELSE LET firstPart == Capacity - head
             index(k) == IF k < firstPart THEN head + k ELSE k - firstPart
         IN /\ data' = [i \in 0..(Capacity - 1) |->
                          IF \E k \in 0..(n - 1) : index(k) = i
                            THEN total + 1 + (CHOOSE k \in 0..(n - 1) : index(k) = i)
                            ELSE data[i]]
            /\ head' = IF firstPart >= n THEN (head + n) % Capacity ELSE n - firstPart
            /\ size' = IF size + n > Capacity THEN Capacity ELSE size + n

\* circularBuffer.GetHistory
GetHistory ==
  LET start == (head - size + Capacity) % Capacity
  IN [i \in 1..size |-> data[IF start + i - 1 < Capacity THEN start + i - 1
                                                         ELSE start + i - 1 - Capacity]]

\* Monitor.Write, under bufferMu, and then the send, which does not block.
Write(n) ==
  /\ total + n <= MaxTotal /\ Cardinality(writing) < MaxWriters
  /\ BufferWrite(n)
  /\ total' = total + n
  /\ writing' = writing \union {Bytes(total + 1, total + n)}
  /\ UNCHANGED <<broadcastCh, loopVars, lost, clientVars>>

SendOrDrop(write) ==
  /\ write \in writing
  /\ writing' = writing \ {write}
  /\ IF Len(broadcastCh) < ChannelSize
       THEN broadcastCh' = Append(broadcastCh, write) /\ UNCHANGED <<dropped, lost>>
       ELSE /\ dropped' = dropped + Cardinality(Covered(write))
            /\ lost' = lost \union Covered(write)
            /\ UNCHANGED broadcastCh
  /\ UNCHANGED <<data, head, size, total, hand, told, clientVars>>

\* broadcastLoop receives a write and then looks for dropped bytes.
LoopReceives ==
  /\ hand = <<>> /\ broadcastCh # <<>>
  /\ broadcastCh' = Tail(broadcastCh)
  /\ hand' = <<Fresh(Head(broadcastCh))>>
  /\ UNCHANGED <<bufferVars, dropped, told, lost, clientVars>>

\* Mutant: the counter is read and not reset.
LoopLoads ==
  /\ hand # <<>> /\ IsFresh(hand[1])
  /\ hand' = (IF dropped > 0 THEN <<Notice(dropped)>> ELSE <<>>) \o <<hand[1].write>>
  /\ UNCHANGED <<bufferVars, broadcastCh, dropped, told, lost, clientVars>>
LoopSwaps ==
  /\ hand # <<>> /\ IsFresh(hand[1])
  /\ hand' = (IF dropped > 0 THEN <<Notice(dropped)>> ELSE <<>>) \o <<hand[1].write>>
  /\ dropped' = 0
  /\ UNCHANGED <<bufferVars, broadcastCh, told, lost, clientVars>>

Subscribed == reader \in {"tail", "subscribed", "api"}

\* event.Publish: waits while the subscriber's queue is full.
LoopPublishes ==
  /\ hand # <<>> /\ ~IsFresh(hand[1])
  /\ Subscribed => Len(inbox) < InboxSize
  /\ inbox' = IF Subscribed THEN Append(inbox, Head(hand)) ELSE inbox
  /\ told' = told + (IF IsNotice(Head(hand)) THEN Head(hand).dropped ELSE 0)
  /\ hand' = Tail(hand)
  /\ UNCHANGED <<bufferVars, broadcastCh, dropped, lost, reader, sent, seen, blind>>

-----------------------------------------------------------------------------
\* The subscription's callback: what does not fit is dropped.
Callback ==
  /\ inbox # <<>>
  /\ inbox' = Tail(inbox)
  /\ IF Len(sent) < SendSize
       THEN sent' = Append(sent, Head(inbox)) /\ UNCHANGED blind
       ELSE /\ blind' = IF IsNotice(Head(inbox)) THEN blind
                                                 ELSE blind \union Covered(Head(inbox))
            /\ UNCHANGED sent
  /\ UNCHANGED <<bufferVars, broadcastCh, loopVars, lost, reader, seen>>

\* What the history shows is seen; what it no longer holds never will be.
ReadHistory ==
  /\ seen' = seen \union {GetHistory[i] : i \in 1..size}
  /\ blind' = blind \union 1..(total - size)

\* handleLogStream: history, then subscription.
TailReads ==
  /\ reader = "none"
  /\ ReadHistory
  /\ reader' = "read"
  /\ UNCHANGED <<bufferVars, broadcastCh, loopVars, lost, inbox, sent>>

TailSubscribes ==
  /\ reader = "read"
  /\ reader' = "tail"
  /\ UNCHANGED <<bufferVars, broadcastCh, loopVars, lost, inbox, sent, seen, blind>>

\* handleAPILogEvents: subscription, then history (it goes through sendBuffer,
\* where what is live may be ahead of it).
ApiSubscribes ==
  /\ reader = "none"
  /\ reader' = "subscribed"
  /\ UNCHANGED <<bufferVars, broadcastCh, loopVars, lost, inbox, sent, seen, blind>>

ApiReads ==
  /\ reader = "subscribed"
  /\ reader' = "api"
  /\ IF Len(sent) < SendSize
       THEN ReadHistory
       ELSE UNCHANGED seen /\ blind' = blind \union 1..total
  /\ UNCHANGED <<bufferVars, broadcastCh, loopVars, lost, inbox, sent>>

\* The handler's loop writes to the client.
Deliver ==
  /\ reader \in {"tail", "api"}
  /\ sent # <<>>
  /\ sent' = Tail(sent)
  /\ seen' = IF IsNotice(Head(sent)) THEN seen ELSE seen \union Covered(Head(sent))
  /\ UNCHANGED <<bufferVars, broadcastCh, loopVars, lost, reader, inbox, blind>>

\* The client leaves; both handlers unsubscribe.
Leave ==
  /\ reader \in {"tail", "api"}
  /\ reader' = "gone"
  /\ inbox' = <<>> /\ sent' = <<>>
  /\ UNCHANGED <<bufferVars, broadcastCh, loopVars, lost, seen, blind>>

Next ==
  \/ \E n \in 1..MaxWrite : Write(n)
  \/ (\E write \in writing : SendOrDrop(write))
  \/ LoopReceives \/ LoopSwaps \/ LoopPublishes
  \/ Callback \/ Deliver \/ Leave
  \/ TailReads \/ TailSubscribes
  \/ ApiSubscribes \/ ApiReads

Spec == Init /\ [][Next]_logVars

-----------------------------------------------------------------------------
\* The history is the last bytes written, in order, whatever the sizes of the
\* writes and wherever they wrap (circularBuffer).
HistoryIsSuffix ==
  /\ size = IF total < Capacity THEN total ELSE Capacity
  /\ GetHistory = [i \in 1..size |-> total - size + i]

\* Each byte that was not broadcast is reported in one marker, once.
DropsReported ==
  LET notices == {i \in DOMAIN hand : IsNotice(hand[i])}
  IN Cardinality(lost) = dropped + told + (IF notices = {} THEN 0 ELSE hand[1].dropped)

\* A client of the event stream has every byte that was not dropped and still
\* was in the history when it came: subscribing first leaves no gap between the
\* history and the live data.
ApiStreamComplete ==
  (reader = "api" /\ writing = {} /\ broadcastCh = <<>> /\ hand = <<>> /\ inbox = <<>> /\ sent = <<>>)
    => 1..total \subseteq seen \union lost \union blind

LogsAccounted == DropsReported /\ ApiStreamComplete
=============================================================================
