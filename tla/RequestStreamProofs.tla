--------------------------- MODULE RequestStreamProofs ---------------------------
(***************************************************************************)
(* The stream of in-flight requests for any number of requests, publishers *)
(* and connections and any sizes of the outbox and the buffers: a client   *)
(* that lost nothing ends with the tracker's list.  What is on its way is  *)
(* a pipeline of sequences; the invariant follows, for one request at a    *)
(* time, the last word that the pipeline has to say about it.              *)
(***************************************************************************)
EXTENDS RequestStream, TLAPS

-----------------------------------------------------------------------------
(* Updates, and the last word of a sequence of them about a request.       *)

Entries == Nat \cup {None}
Updates ==
  [op : {"upsert"}, id : Requests, entry : Entries]
    \cup [op : {"remove"}, id : Requests]
    \cup [op : {"snapshot"}, requests : [Requests -> Entries]]

About(update, r) == update.op = "snapshot" \/ update.id = r
Value(update, r) ==
  CASE update.op = "snapshot" -> update.requests[r]
    [] update.op = "upsert"   -> update.entry
    [] update.op = "remove"   -> None

Silent(s, r) == \A i \in DOMAIN s : ~About(s[i], r)
Says(s, r, v) ==
  \E i \in DOMAIN s : /\ About(s[i], r) /\ Value(s[i], r) = v
                      /\ \A j \in DOMAIN s : j > i => ~About(s[j], r)

\* The update a publisher has taken and not yet put on the bus.
CarriedSilent(r) ==
  \A p \in Publishers : publisher[p] = "publish" => ~About(item[p], r)
CarriedSays(r, v) ==
  \E p \in Publishers : publisher[p] = "publish" /\ About(item[p], r) /\ Value(item[p], r) = v

\* What is behind the buffer of connection c: outbox, publisher, queue, batch.
Quiet(c, r) ==
  Silent(updates, r) /\ CarriedSilent(r) /\ Silent(queue[c], r) /\ Silent(pending[c], r)
Speaks(c, r, v) ==
  \/ Says(updates, r, v)
  \/ Silent(updates, r) /\ CarriedSays(r, v)
  \/ Silent(updates, r) /\ CarriedSilent(r) /\ Says(queue[c], r, v)
  \/ Silent(updates, r) /\ CarriedSilent(r) /\ Silent(queue[c], r) /\ Says(pending[c], r, v)

-----------------------------------------------------------------------------
(* The inductive invariant.                                                *)

PublisherPlaces ==
  {"none", "select", "publish", "recover", "discard", "current", "default", "idle", "reclaim"}
Working == {"select", "publish", "recover", "discard", "current", "default"}

\* The types of what the argument is about.
TypeOK ==
  /\ requests \in [Requests -> Entries]
  /\ updates \in Seq(Updates)
  /\ publisher \in [Publishers -> PublisherPlaces]
  /\ item \in [Publishers -> Updates \cup {None}]
  /\ \A p \in Publishers : publisher[p] = "publish" => item[p] \in Updates
  /\ queue \in [Consumers -> Seq(Updates)]
  /\ pending \in [Consumers -> Seq(Updates)]
  /\ listener \in [Consumers -> ListenerStates]
  /\ conn \in [Consumers -> {"none", "subscribed", "payload", "open", "closed"}]
  /\ first \in [Consumers -> Updates \cup {None}]
  /\ \A c \in Consumers : conn[c] = "payload" => first[c] \in Updates /\ first[c].op = "snapshot"
  /\ sendBuffer \in [Consumers -> Seq(Updates)]
  /\ view \in [Consumers -> [Requests -> Entries]]

\* publisherRunning lets at most one goroutine work at the outbox.
OnePublisher ==
  \A p \in Publishers : publisher[p] \in Working =>
    publisherRunning /\ \A q \in Publishers : publisher[q] \in Working => q = p

\* A connection is subscribed from before it reads the table until it leaves;
\* a goroutine that listens has handled its batch.
WiringOK ==
  \A c \in Consumers :
    /\ conn[c] \in {"subscribed", "payload", "open"} => c \in subs
    /\ c \in subs => listener[c] # "absent"
    /\ listener[c] # "handling" => pending[c] = <<>>
    /\ listener[c] = "absent" => queue[c] = <<>>

\* An update was dropped, and the snapshot that makes up for it is not taken yet.
Lost == needsSnapshot \/ mu = "overflow" \/ \E p \in Publishers : publisher[p] = "discard"

\* What leaves the tracker last about a request is what the table has.
FreshOK ==
  \A r \in Requests : r \notin timer /\ ~Lost =>
    \/ Says(updates, r, requests[r])
    \/ Silent(updates, r) /\ (CarriedSays(r, requests[r]) \/ CarriedSilent(r))

\* A connection is told what the table has by the last word on its way; if there
\* is none, it has been told, by its first snapshot or since, or is going to be.
Told(c, r, v) ==
  \/ conn[c] = "subscribed"
  \/ conn[c] = "payload" /\ first[c].requests[r] = v
  \/ /\ conn[c] = "open"
     /\ Says(sendBuffer[c], r, v) \/ (Silent(sendBuffer[c], r) /\ view[c][r] = v)
TellsLast(c, r) ==
  conn[c] \in {"subscribed", "payload", "open"} =>
    Speaks(c, r, requests[r]) \/ (Quiet(c, r) /\ Told(c, r, requests[r]))

StreamOK ==
  \A c \in Consumers, r \in Requests :
    c \notin lossy /\ r \notin timer /\ ~Lost /\ (\A p \in Publishers : publisher[p] # "current")
      => TellsLast(c, r)

Inv == TypeOK /\ OnePublisher /\ WiringOK /\ FreshOK /\ StreamOK

-----------------------------------------------------------------------------
(* Last words.                                                             *)

LEMMA EmptyIsSilent == \A r, v : Silent(<<>>, r) /\ ~Says(<<>>, r, v)
  BY DEF Silent, Says

\* What is added is the last word on what it is about, and else says nothing.
LEMMA LastIsAdded ==
  ASSUME NEW M, NEW s \in Seq(M), NEW u \in M, NEW r
  PROVE  /\ About(u, r) => Says(Append(s, u), r, Value(u, r))
         /\ ~About(u, r) /\ Silent(s, r) => Silent(Append(s, u), r)
         /\ \A v : ~About(u, r) /\ Says(s, r, v) => Says(Append(s, u), r, v)
<1> DEFINE t == Append(s, u)
<1>1. /\ Len(t) = Len(s) + 1 /\ Len(s) \in Nat
      /\ DOMAIN t = 1..Len(t) /\ DOMAIN s = 1..Len(s)
      /\ t[Len(t)] = u /\ \A i \in 1..Len(s) : t[i] = s[i]
  OBVIOUS
<1> HIDE DEF t
<1>2. About(u, r) => Says(t, r, Value(u, r))
  <2> SUFFICES ASSUME About(u, r) PROVE Says(t, r, Value(u, r))
    OBVIOUS
  <2>1. Len(t) \in DOMAIN t /\ \A j \in DOMAIN t : ~(j > Len(t))
    BY <1>1
  <2> QED
    BY <1>1, <2>1 DEF Says
<1>3. ~About(u, r) /\ Silent(s, r) => Silent(t, r)
  BY <1>1 DEF Silent
<1>4. \A v : ~About(u, r) /\ Says(s, r, v) => Says(t, r, v)
  <2> SUFFICES ASSUME NEW v, ~About(u, r), Says(s, r, v) PROVE Says(t, r, v)
    OBVIOUS
  <2>1. PICK i \in DOMAIN s : /\ About(s[i], r) /\ Value(s[i], r) = v
                             /\ \A j \in DOMAIN s : j > i => ~About(s[j], r)
    BY DEF Says
  <2>2. i \in DOMAIN t /\ About(t[i], r) /\ Value(t[i], r) = v
    BY <1>1, <2>1
  <2>3. \A j \in DOMAIN t : j > i => ~About(t[j], r)
    BY <1>1, <2>1
  <2> QED
    BY <2>2, <2>3 DEF Says
<1> QED
  BY <1>2, <1>3, <1>4 DEF t

\* The last word is still there when the head goes, or it was the head.
LEMMA HeadGoes ==
  ASSUME NEW M, NEW s \in Seq(M), s # <<>>, NEW r
  PROVE  /\ Silent(s, r) => Silent(Tail(s), r) /\ ~About(Head(s), r)
         /\ \A v : Says(s, r, v) =>
              \/ Says(Tail(s), r, v)
              \/ Silent(Tail(s), r) /\ About(Head(s), r) /\ Value(Head(s), r) = v
<1> DEFINE t == Tail(s)
<1>1. /\ Len(s) \in Nat \ {0} /\ Len(t) = Len(s) - 1
      /\ DOMAIN t = 1..Len(t) /\ DOMAIN s = 1..Len(s)
      /\ Head(s) = s[1] /\ \A i \in 1..Len(t) : t[i] = s[i + 1]
  OBVIOUS
<1> HIDE DEF t
<1>2. Silent(s, r) => Silent(t, r) /\ ~About(Head(s), r)
  BY <1>1 DEF Silent
<1>3. ASSUME NEW v, Says(s, r, v)
      PROVE  \/ Says(t, r, v)
             \/ Silent(t, r) /\ About(Head(s), r) /\ Value(Head(s), r) = v
  <2>1. PICK i \in DOMAIN s : /\ About(s[i], r) /\ Value(s[i], r) = v
                             /\ \A j \in DOMAIN s : j > i => ~About(s[j], r)
    BY <1>3 DEF Says
  <2>2. CASE i = 1
    BY <1>1, <2>1, <2>2 DEF Silent
  <2>3. CASE i # 1
    <3>1. i - 1 \in DOMAIN t /\ t[i - 1] = s[i]
      BY <1>1, <2>3
    <3>2. \A j \in DOMAIN t : j > i - 1 => ~About(t[j], r)
      BY <1>1, <2>1
    <3> QED
      BY <2>1, <3>1, <3>2 DEF Says
  <2> QED
    BY <2>2, <2>3
<1> QED
  BY <1>2, <1>3 DEF t

-----------------------------------------------------------------------------
(* The tracker's steps.                                                    *)

\* What each update is about, and what it says.
LEMMA UpsertSays ==
  ASSUME NEW r \in Requests, NEW entry \in Entries
  PROVE  /\ Upsert(r, entry) \in Updates
         /\ \A q : About(Upsert(r, entry), q) <=> q = r
         /\ Value(Upsert(r, entry), r) = entry
  BY DEF Upsert, Updates, About, Value

LEMMA RemoveSays ==
  ASSUME NEW r \in Requests
  PROVE  /\ RemoveOf(r) \in Updates
         /\ \A q : About(RemoveOf(r), q) <=> q = r
         /\ Value(RemoveOf(r), r) = None
  BY DEF RemoveOf, Updates, About, Value

LEMMA SnapshotSays ==
  ASSUME TypeOK
  PROVE  /\ Snapshot \in Updates /\ Snapshot.op = "snapshot" /\ Snapshot.requests = requests
         /\ \A r : About(Snapshot, r) /\ Value(Snapshot, r) = requests[r]
  BY DEF TypeOK, Snapshot, Updates, About, Value

\* A change of the table: the entry of r becomes v, and an update that says so
\* goes to the outbox, or is dropped, or is left to the timer.
TableStep(r, v) ==
  /\ mu = "free"
  /\ requests' = [requests EXCEPT ![r] = v]
  /\ \A q \in Requests : q # r /\ q \in timer => q \in timer'
  /\ \/ \E u \in Updates : /\ \A q : About(u, q) <=> q = r
                           /\ Value(u, r) = v /\ Enqueue(u)
     \/ r \in timer' /\ UNCHANGED <<mu, updates>>
  /\ UNCHANGED <<needsSnapshot, publisherRunning, publisher, item>>

LEMMA HandlersChangeTable ==
  ASSUME TypeOK, NEW r \in Requests, HandlerStep(r) \/ EmitPending(r)
  PROVE  \E v \in Entries : TableStep(r, v)
<1> USE DEF publisherVars
<1>0. 0 \in Entries /\ None \in Entries /\ requests[r] \in Entries
  BY DEF TypeOK, Entries
<1>1. CASE Track(r)
  <2>1. TableStep(r, 0)
    BY <1>0, <1>1, UpsertSays DEF Track, TableStep
  <2> QED
    BY <1>0, <2>1
<1>2. CASE Remove(r)
  <2>1. TableStep(r, None)
    BY <1>2, RemoveSays DEF Remove, TableStep
  <2> QED
    BY <1>0, <2>1
<1>3. CASE SetResponseHeaders(r) \/ AddResponseBytes(r)
  <2>1. requests[r] \in Nat
    BY <1>3 DEF SetResponseHeaders, AddResponseBytes, Changes
  <2>2. requests[r] + 1 \in Entries
    BY <2>1 DEF Entries
  <2>3. TableStep(r, requests[r] + 1)
    <3>1. CASE SetResponseHeaders(r)
      BY <2>2, <3>1, UpsertSays DEF SetResponseHeaders, Changes, TableStep
    <3>2. CASE AddResponseBytes(r)
      BY <2>2, <3>2, UpsertSays DEF AddResponseBytes, Changes, TableStep
    <3> QED
      BY <1>3, <3>1, <3>2
  <2> QED
    BY <2>2, <2>3
<1>4. CASE EmitPending(r)
  <2>1. requests' = [requests EXCEPT ![r] = requests[r]]
    BY <1>4 DEF EmitPending, TypeOK
  <2>2. TableStep(r, requests[r])
    BY <1>0, <1>4, <2>1, UpsertSays DEF EmitPending, TableStep
  <2> QED
    BY <1>0, <2>2
<1> QED
  BY <1>1, <1>2, <1>3, <1>4 DEF HandlerStep

-----------------------------------------------------------------------------
(* The types, the publisher and the wiring.                                *)

LEMMA InitInv == Init => Inv
<1> SUFFICES ASSUME Init PROVE Inv
  OBVIOUS
<1> USE DEF Init, TrackerInit, GroupInit
<1>0. <<>> \in Seq(Updates) /\ None \in Entries
  BY DEF Entries
<1>1. TypeOK
  BY <1>0 DEF TypeOK, ListenerStates, PublisherPlaces, Empty
<1>2. OnePublisher /\ WiringOK
  BY DEF OnePublisher, WiringOK, Working
<1>3. FreshOK
  <2>1. \A r : Silent(updates, r) /\ CarriedSilent(r)
    BY EmptyIsSilent DEF CarriedSilent
  <2> QED
    BY <2>1 DEF FreshOK
<1>4. StreamOK
  BY DEF StreamOK, TellsLast
<1> QED
  BY <1>1, <1>2, <1>3, <1>4 DEF Inv

\* The steps of the next-state relation, by who takes them.
LEMMA WhoSteps ==
  ASSUME [Next]_vars
  PROVE  \/ UNCHANGED vars
         \/ \E r \in Requests : (HandlerStep(r) \/ EmitPending(r)) /\ TrackerOnly
         \/ (AskForSnapshot \/ StartPublisher) /\ TrackerOnly
         \/ \E p \in Publishers : PublisherStep(p) /\ TrackerOnly
         \/ \E p \in Publishers : Emit(p) \/ EmitWaits(p)
         \/ \E c \in Consumers : \/ Subscribe(c) \/ ReadPayload(c) \/ SendPayload(c) \/ Close(c)
                                 \/ HandleUpdate(c) \/ Listens(c) \/ Deliver(c)
  BY DEF Next, HandlerChanges, TimerFires, LockHolder, LockHolderStep, PublisherWorks

LEMMA QueueTypes ==
  ASSUME NEW s \in Seq(Updates), NEW u \in Updates
  PROVE  /\ Append(s, u) \in Seq(Updates)
         /\ s # <<>> => Head(s) \in Updates /\ Tail(s) \in Seq(Updates)
  OBVIOUS

LEMMA TypeStep == TypeOK /\ [Next]_vars => TypeOK'
<1> SUFFICES ASSUME TypeOK, [Next]_vars PROVE TypeOK'
  OBVIOUS
<1> USE DEF trackerVars, tableVars, outboxVars, publisherVars, groupVars, streamVars, TrackerOnly
<1>1. CASE UNCHANGED vars
  BY <1>1 DEF vars, TypeOK
<1>2. ASSUME NEW r \in Requests, HandlerStep(r) \/ EmitPending(r), TrackerOnly PROVE TypeOK'
  <2>1. PICK v \in Entries : TableStep(r, v)
    BY <1>2, HandlersChangeTable
  <2>2. requests' \in [Requests -> Entries]
    BY <2>1 DEF TableStep, TypeOK
  <2>3. updates' \in Seq(Updates)
    <3>1. CASE UNCHANGED updates
      BY <3>1 DEF TypeOK
    <3>2. ASSUME NEW u \in Updates, updates' = Append(updates, u) PROVE updates' \in Seq(Updates)
      BY <3>2, QueueTypes DEF TypeOK
    <3> QED
      BY <2>1, <3>1, <3>2 DEF TableStep, Enqueue
  <2>4. UNCHANGED <<publisher, item>>
    BY <2>1 DEF TableStep
  <2> QED
    BY <1>2, <2>2, <2>3, <2>4 DEF TypeOK
<1>3. CASE (AskForSnapshot \/ StartPublisher) /\ TrackerOnly
  <2>1. UNCHANGED <<requests, updates, item>>
    BY <1>3 DEF AskForSnapshot, StartPublisher
  <2>2. /\ publisher' \in [Publishers -> PublisherPlaces]
        /\ \A p \in Publishers : publisher'[p] = "publish" => publisher[p] = "publish"
    BY <1>3 DEF AskForSnapshot, StartPublisher, TypeOK, PublisherPlaces
  <2> QED
    BY <1>3, <2>1, <2>2 DEF TypeOK
<1>4. ASSUME NEW p \in Publishers, PublisherStep(p), TrackerOnly PROVE TypeOK'
  <2>0. UNCHANGED publisher \/ \E to \in PublisherPlaces : publisher' = [publisher EXCEPT ![p] = to]
    <3>1. ASSUME NEW from, NEW to \in PublisherPlaces, At(p, from, to)
          PROVE  \E x \in PublisherPlaces : publisher' = [publisher EXCEPT ![p] = x]
      BY <3>1 DEF At
    <3>2. CASE Receive(p) \/ FindsNone(p) \/ GoIdle(p) \/ ReadCurrent(p) \/ TakeCurrent(p)
      BY <3>1, <3>2 DEF Receive, FindsNone, GoIdle, ReadCurrent, TakeCurrent, PublisherPlaces
    <3>3. CASE LooksAgain(p)
      BY <3>1, <3>3 DEF LooksAgain, PublisherPlaces
    <3>4. CASE Reclaim(p)
      BY <3>1, <3>4 DEF Reclaim, PublisherPlaces
    <3>5. CASE SwapNeedsSnapshot(p)
      BY <3>1, <3>5 DEF SwapNeedsSnapshot, PublisherPlaces
    <3>6. CASE Discard(p)
      BY <3>6 DEF Discard
    <3> QED
      BY <1>4, <3>2, <3>3, <3>4, <3>5, <3>6 DEF PublisherStep
  <2>1. UNCHANGED requests /\ publisher' \in [Publishers -> PublisherPlaces]
    <3>1. UNCHANGED requests
      BY <1>4 DEF PublisherStep, Receive, FindsNone, GoIdle, LooksAgain, Reclaim, SwapNeedsSnapshot,
                  Discard, ReadCurrent, TakeCurrent
    <3> QED
      BY <2>0, <3>1 DEF TypeOK
  <2>2. updates' \in Seq(Updates)
    <3>1. UNCHANGED updates \/ (updates # <<>> /\ updates' = Tail(updates))
      BY <1>4 DEF PublisherStep, Receive, FindsNone, GoIdle, LooksAgain, Reclaim,
                  SwapNeedsSnapshot, Discard, ReadCurrent, TakeCurrent
    <3>2. updates \in Seq(Updates)
      BY DEF TypeOK
    <3> QED
      BY <3>1, <3>2, QueueTypes
  <2>3. \/ UNCHANGED item /\ \A q \in Publishers : publisher'[q] = "publish" => publisher[q] = "publish"
        \/ \E u \in Updates : item' = [item EXCEPT ![p] = u] /\ publisher' = [publisher EXCEPT ![p] = "publish"]
    <3>1. CASE Receive(p)
      <4>1. Head(updates) \in Updates
        BY <3>1 DEF Receive, TypeOK
      <4> QED
        BY <3>1, <4>1 DEF Receive, At
    <3>2. CASE TakeCurrent(p)
      BY <3>2, SnapshotSays DEF TakeCurrent, At
    <3>3. CASE ~Receive(p) /\ ~TakeCurrent(p)
      BY <1>4, <3>3 DEF PublisherStep, FindsNone, GoIdle, LooksAgain, Reclaim, SwapNeedsSnapshot,
                Discard, ReadCurrent, At, TypeOK
    <3> QED
      BY <3>1, <3>2, <3>3
  <2>4. /\ item' \in [Publishers -> Updates \cup {None}]
        /\ \A q \in Publishers : publisher'[q] = "publish" => item'[q] \in Updates
    BY <2>3 DEF TypeOK
  <2> QED
    BY <1>4, <2>1, <2>2, <2>4 DEF TypeOK
<1>5. ASSUME NEW p \in Publishers, Emit(p) PROVE TypeOK'
  <2>1. item[p] \in Updates
    BY <1>5 DEF Emit, TypeOK
  <2>2. queue' \in [Consumers -> Seq(Updates)] /\ listener' \in [Consumers -> ListenerStates]
    BY <1>5, <2>1, QueueTypes DEF Emit, BroadcastTo, Woken, TypeOK, ListenerStates
  <2>3. /\ publisher' \in [Publishers -> PublisherPlaces] /\ item' \in [Publishers -> Updates \cup {None}]
        /\ \A q \in Publishers : publisher'[q] = "publish" => item'[q] \in Updates
    BY <1>5 DEF Emit, Published, At, TypeOK, PublisherPlaces
  <2>4. UNCHANGED <<requests, updates, pending, conn, first, sendBuffer, view>>
    BY <1>5 DEF Emit, BroadcastTo, Published
  <2> QED
    BY <2>2, <2>3, <2>4 DEF TypeOK
<1>6. ASSUME NEW p \in Publishers, EmitWaits(p) PROVE TypeOK'
  BY <1>6 DEF EmitWaits, BroadcastWaits, TypeOK
<1>7. ASSUME NEW c \in Consumers, Subscribe(c) \/ ReadPayload(c) \/ SendPayload(c) \/ Close(c)
      PROVE  TypeOK'
  <2>1. UNCHANGED <<requests, updates, publisher, item, queue, pending>>
    BY <1>7 DEF Subscribe, ReadPayload, SendPayload, Close, Add, Del
  <2>2. /\ listener' \in [Consumers -> ListenerStates]
        /\ conn' \in [Consumers -> {"none", "subscribed", "payload", "open", "closed"}]
    BY <1>7 DEF Subscribe, ReadPayload, SendPayload, Close, Add, Del, TypeOK, ListenerStates
  <2>3. /\ first' \in [Consumers -> Updates \cup {None}]
        /\ \A x \in Consumers : conn'[x] = "payload" => first'[x] \in Updates /\ first'[x].op = "snapshot"
    BY <1>7, SnapshotSays DEF Subscribe, ReadPayload, SendPayload, Close, TypeOK
  <2>4. sendBuffer' \in [Consumers -> Seq(Updates)]
    <3>1. CASE SendPayload(c)
      <4>1. first[c] \in Updates
        BY <3>1 DEF SendPayload, TypeOK
      <4>2. Append(sendBuffer[c], first[c]) \in Seq(Updates)
        BY <4>1, QueueTypes DEF TypeOK
      <4> QED
        BY <3>1, <4>2 DEF SendPayload, TypeOK
    <3>2. CASE Close(c)
      <4>1. <<>> \in Seq(Updates)
        OBVIOUS
      <4> QED
        BY <3>2, <4>1 DEF Close, TypeOK
    <3>3. CASE Subscribe(c) \/ ReadPayload(c)
      BY <3>3 DEF Subscribe, ReadPayload, TypeOK
    <3> QED
      BY <1>7, <3>1, <3>2, <3>3
  <2>5. view' \in [Consumers -> [Requests -> Entries]]
    BY <1>7 DEF Subscribe, ReadPayload, SendPayload, Close, TypeOK, Empty, Entries
  <2> QED
    BY <2>1, <2>2, <2>3, <2>4, <2>5 DEF TypeOK
<1>8. ASSUME NEW c \in Consumers, HandleUpdate(c) PROVE TypeOK'
  <2>1. Head(pending[c]) \in Updates /\ Tail(pending[c]) \in Seq(Updates)
    BY <1>8, QueueTypes DEF HandleUpdate, TypeOK
  <2>2. Append(sendBuffer[c], Head(pending[c])) \in Seq(Updates)
    BY <2>1, QueueTypes DEF TypeOK
  <2>3. sendBuffer' \in [Consumers -> Seq(Updates)]
    BY <1>8, <2>2 DEF HandleUpdate, Send, TypeOK
  <2>4. pending' \in [Consumers -> Seq(Updates)]
    BY <1>8, <2>1 DEF HandleUpdate, Handled, TypeOK
  <2>5. UNCHANGED <<requests, updates, publisher, item, queue, listener, conn, first, view>>
    BY <1>8 DEF HandleUpdate, Handled
  <2> QED
    BY <2>3, <2>4, <2>5 DEF TypeOK
<1>9. ASSUME NEW c \in Consumers, Listens(c) PROVE TypeOK'
  <2>1. /\ queue' \in [Consumers -> Seq(Updates)] /\ pending' \in [Consumers -> Seq(Updates)]
        /\ listener' \in [Consumers -> ListenerStates]
    <3>1. <<>> \in Seq(Updates)
      OBVIOUS
    <3>2. QED
      <4>1. CASE TakeBatch(c)
        BY <3>1, <4>1 DEF TakeBatch, TypeOK, ListenerStates
      <4>2. CASE FindsNothing(c)
        BY <4>2 DEF FindsNothing, TypeOK, ListenerStates
      <4>3. CASE BatchEnd(c)
        BY <4>3 DEF BatchEnd, Woken, TypeOK, ListenerStates
      <4> QED
        BY <1>9, <4>1, <4>2, <4>3 DEF Listens, ListenStep
  <2> QED
    BY <1>9, <2>1 DEF Listens, TypeOK
<1>10. ASSUME NEW c \in Consumers, Deliver(c) PROVE TypeOK'
  <2>1. Head(sendBuffer[c]) \in Updates /\ Tail(sendBuffer[c]) \in Seq(Updates)
    BY <1>10, QueueTypes DEF Deliver, TypeOK
  <2>2. Apply(view[c], Head(sendBuffer[c])) \in [Requests -> Entries]
    BY <2>1 DEF Apply, Updates, TypeOK, Entries
  <2> QED
    BY <1>10, <2>1, <2>2 DEF Deliver, TypeOK
<1> QED
  BY <1>1, <1>2, <1>3, <1>4, <1>5, <1>6, <1>7, <1>8, <1>9, <1>10, WhoSteps

\* A second publisher starts, or takes over again, only when none is at work.
LEMMA OnePublisherStep == TypeOK /\ OnePublisher /\ [Next]_vars => OnePublisher'
<1> SUFFICES ASSUME TypeOK, OnePublisher, [Next]_vars PROVE OnePublisher'
  OBVIOUS
<1> USE DEF trackerVars, tableVars, outboxVars, publisherVars, groupVars, streamVars, TrackerOnly
<1>1. CASE UNCHANGED <<publisher, publisherRunning>>
  BY <1>1 DEF OnePublisher
<1>2. ASSUME NEW p \in Publishers, NEW from \in Working, NEW to, At(p, from, to), UNCHANGED publisherRunning
      PROVE  OnePublisher'
  BY <1>2 DEF At, OnePublisher, TypeOK
<1>3. ASSUME NEW p \in Publishers, NEW from, NEW to, to \notin Working, At(p, from, to),
             UNCHANGED publisherRunning
      PROVE  OnePublisher'
  BY <1>3 DEF At, OnePublisher, TypeOK
<1>4. CASE StartPublisher
  <2>1. CASE ~publisherRunning
    <3>1. PICK p \in Publishers : publisher' = [publisher EXCEPT ![p] = "select"]
      BY <1>4, <2>1 DEF StartPublisher
    <3>2. publisherRunning'
      BY <1>4, <2>1 DEF StartPublisher
    <3> QED
      BY <2>1, <3>1, <3>2 DEF OnePublisher, TypeOK
  <2> QED
    BY <1>1, <1>4, <2>1 DEF StartPublisher
<1>5. ASSUME NEW p \in Publishers, PublisherStep(p) PROVE OnePublisher'
  <2>1. CASE Receive(p) \/ FindsNone(p) \/ SwapNeedsSnapshot(p) \/ ReadCurrent(p) \/ TakeCurrent(p)
    <3>1. {"select", "recover", "discard", "current"} \subseteq Working
      BY DEF Working
    <3> QED
      BY <1>2, <2>1, <3>1 DEF Receive, FindsNone, SwapNeedsSnapshot, ReadCurrent, TakeCurrent
  <2>2. CASE Discard(p)
    BY <1>1, <2>2 DEF Discard
  <2>3. CASE LooksAgain(p)
    BY <1>3, <2>3 DEF LooksAgain, Working
  <2>4. CASE GoIdle(p)
    BY <2>4 DEF GoIdle, At, OnePublisher, TypeOK, Working
  <2>5. CASE Reclaim(p)
    <3>1. CASE publisherRunning
      BY <2>5, <3>1 DEF Reclaim, At, OnePublisher, TypeOK, Working
    <3>2. CASE ~publisherRunning
      BY <2>5, <3>2 DEF Reclaim, At, OnePublisher, TypeOK
    <3> QED
      BY <3>1, <3>2
  <2> QED
    BY <1>5, <2>1, <2>2, <2>3, <2>4, <2>5 DEF PublisherStep
<1>6. ASSUME NEW p \in Publishers, Emit(p) PROVE OnePublisher'
  <2>1. "publish" \in Working
    BY DEF Working
  <2> QED
    BY <1>2, <1>6, <2>1 DEF Emit, Published
<1>7. ASSUME NEW r \in Requests, HandlerStep(r) \/ EmitPending(r) PROVE OnePublisher'
  BY <1>1, <1>7, HandlersChangeTable DEF TableStep
<1>8. CASE AskForSnapshot
  BY <1>1, <1>8 DEF AskForSnapshot
<1>9. \/ UNCHANGED <<publisher, publisherRunning>>
      \/ StartPublisher \/ AskForSnapshot
      \/ \E p \in Publishers : PublisherStep(p) \/ Emit(p)
      \/ \E r \in Requests : HandlerStep(r) \/ EmitPending(r)
  BY WhoSteps DEF vars, EmitWaits, Subscribe, ReadPayload, SendPayload, Close, HandleUpdate, Listens, Deliver
<1> QED
  BY <1>1, <1>4, <1>5, <1>6, <1>7, <1>8, <1>9

\* Connections come and go with their subscriptions.
LEMMA WiringStep == TypeOK /\ WiringOK /\ [Next]_vars => WiringOK'
<1> SUFFICES ASSUME TypeOK, WiringOK, [Next]_vars PROVE WiringOK'
  OBVIOUS
<1> USE DEF trackerVars, tableVars, outboxVars, publisherVars, groupVars, streamVars, TrackerOnly
<1>1. CASE UNCHANGED <<conn, subs, listener, pending, queue>>
  BY <1>1 DEF WiringOK
<1>2. ASSUME NEW p \in Publishers, Emit(p) PROVE WiringOK'
  <2>1. UNCHANGED <<conn, subs, pending>>
    BY <1>2 DEF Emit, BroadcastTo
  <2>2. \A c \in Consumers : /\ listener'[c] = "handling" <=> listener[c] = "handling"
                             /\ listener'[c] = "absent" <=> listener[c] = "absent"
                             /\ c \notin subs => queue'[c] = queue[c]
    BY <1>2 DEF Emit, BroadcastTo, Woken
  <2> QED
    BY <2>1, <2>2 DEF WiringOK
<1>3. ASSUME NEW c \in Consumers, Subscribe(c) PROVE WiringOK'
  BY <1>3 DEF Subscribe, Add, WiringOK, TypeOK
<1>4. ASSUME NEW c \in Consumers, ReadPayload(c) \/ SendPayload(c) PROVE WiringOK'
  BY <1>4 DEF ReadPayload, SendPayload, WiringOK, TypeOK
<1>5. ASSUME NEW c \in Consumers, Close(c) PROVE WiringOK'
  BY <1>5 DEF Close, Del, WiringOK, TypeOK
<1>6. ASSUME NEW c \in Consumers, HandleUpdate(c) PROVE WiringOK'
  BY <1>6 DEF HandleUpdate, Handled, WiringOK, TypeOK
<1>7. ASSUME NEW c \in Consumers, Listens(c) PROVE WiringOK'
  <2>1. CASE TakeBatch(c)
    BY <1>7, <2>1 DEF Listens, TakeBatch, WiringOK, TypeOK
  <2>2. CASE FindsNothing(c)
    BY <1>7, <2>2 DEF Listens, FindsNothing, WiringOK, TypeOK
  <2>3. CASE BatchEnd(c)
    <3>1. /\ UNCHANGED <<conn, subs, queue, pending>> /\ pending[c] = <<>> /\ listener[c] = "handling"
          /\ listener'[c] = "running"
          /\ \A x \in Consumers : x # c =>
               /\ listener'[x] = "handling" <=> listener[x] = "handling"
               /\ listener'[x] = "absent" <=> listener[x] = "absent"
      BY <1>7, <2>3 DEF Listens, BatchEnd, Woken
    <3> QED
      BY <3>1 DEF WiringOK
  <2> QED
    BY <1>7, <2>1, <2>2, <2>3 DEF Listens, ListenStep
<1>8. \/ UNCHANGED <<conn, subs, listener, pending, queue>>
      \/ \E p \in Publishers : Emit(p)
      \/ \E c \in Consumers : \/ Subscribe(c) \/ ReadPayload(c) \/ SendPayload(c) \/ Close(c)
                              \/ HandleUpdate(c) \/ Listens(c)
  BY WhoSteps DEF vars, EmitWaits, BroadcastWaits, Deliver
<1> QED
  BY <1>1, <1>2, <1>3, <1>4, <1>5, <1>6, <1>7, <1>8

-----------------------------------------------------------------------------
(* What leaves the tracker.                                                *)

\* A step that leaves alone what the tracker holds and what it publishes.
Steady ==
  /\ UNCHANGED <<requests, timer, updates, item>>
  /\ \A p \in Publishers : /\ publisher'[p] = "publish" <=> publisher[p] = "publish"
                           /\ publisher'[p] = "current" <=> publisher[p] = "current"
  /\ Lost => Lost'

Still == UNCHANGED <<queue, pending, conn, first, sendBuffer, view, lossy>>

ConsumerStep(c) ==
  \/ Subscribe(c) \/ ReadPayload(c) \/ SendPayload(c) \/ Close(c)
  \/ HandleUpdate(c) \/ Listens(c) \/ Deliver(c)

\* The steps, by what they do to the updates that are on their way.
LEMMA StreamMoves ==
  ASSUME TypeOK, OnePublisher, [Next]_vars
  PROVE  \/ Steady /\ Still
         \/ Steady /\ \E c \in Consumers : ConsumerStep(c)
         \/ \E r \in Requests, v \in Entries : TableStep(r, v) /\ Still /\ UNCHANGED subs
         \/ Lost' /\ Still
         \/ \E p \in Publishers : (Receive(p) \/ ReadCurrent(p) \/ TakeCurrent(p)) /\ Still
         \/ \E p \in Publishers : Emit(p)
<1> USE DEF trackerVars, tableVars, outboxVars, publisherVars, groupVars, streamVars, TrackerOnly
<1>1. CASE UNCHANGED vars
  BY <1>1 DEF vars, Steady, Still, Lost
<1>2. ASSUME NEW r \in Requests, HandlerStep(r) \/ EmitPending(r), TrackerOnly
      PROVE  \E v \in Entries : TableStep(r, v) /\ Still /\ UNCHANGED subs
  BY <1>2, HandlersChangeTable DEF Still
<1>3. CASE AskForSnapshot /\ TrackerOnly
  BY <1>3 DEF AskForSnapshot, Lost, Still
<1>4. CASE StartPublisher /\ TrackerOnly
  <2>1. \A p \in Publishers : publisher'[p] # publisher[p] => publisher[p] = "none" /\ publisher'[p] = "select"
    BY <1>4 DEF StartPublisher, TypeOK
  <2>2. UNCHANGED <<requests, timer, updates, item, needsSnapshot>> /\ mu = "start"
    BY <1>4 DEF StartPublisher
  <2>3. Lost => Lost'
    BY <2>1, <2>2 DEF Lost
  <2>4. Steady
    BY <2>1, <2>2, <2>3 DEF Steady
  <2> QED
    BY <1>4, <2>4 DEF Still
<1>5. ASSUME NEW p \in Publishers, PublisherStep(p), TrackerOnly
      PROVE  \/ Steady /\ Still
             \/ Lost' /\ Still
             \/ (Receive(p) \/ ReadCurrent(p) \/ TakeCurrent(p)) /\ Still
  <2>0. Still
    BY <1>5 DEF Still
  <2>1. ASSUME NEW from \in {"select", "default", "idle", "reclaim", "recover"},
               NEW to \in {"default", "idle", "reclaim", "none", "select"},
               At(p, from, to), UNCHANGED <<requests, timer, updates, item, mu>>,
               needsSnapshot => needsSnapshot'
        PROVE  Steady
    <3>1. /\ publisher[p] = from /\ publisher'[p] = to
          /\ \A q \in Publishers : q # p => publisher'[q] = publisher[q]
      BY <2>1 DEF At, TypeOK
    <3>2. Lost => Lost'
      BY <2>1, <3>1 DEF Lost
    <3> QED
      BY <2>1, <3>1, <3>2 DEF Steady
  <2>2. CASE FindsNone(p) \/ GoIdle(p) \/ LooksAgain(p) \/ Reclaim(p)
    <3> SUFFICES Steady
      BY <2>0
    <3>1. UNCHANGED <<requests, timer, updates, item, mu, needsSnapshot>>
      BY <2>2 DEF FindsNone, GoIdle, LooksAgain, Reclaim
    <3>2. CASE FindsNone(p)
      BY <2>1, <3>1, <3>2 DEF FindsNone
    <3>3. CASE GoIdle(p)
      BY <2>1, <3>1, <3>3 DEF GoIdle
    <3>4. CASE LooksAgain(p)
      BY <2>1, <3>1, <3>4 DEF LooksAgain
    <3>5. CASE Reclaim(p)
      BY <2>1, <3>1, <3>5 DEF Reclaim
    <3> QED
      BY <2>2, <3>2, <3>3, <3>4, <3>5
  <2>3. CASE SwapNeedsSnapshot(p)
    <3>1. CASE needsSnapshot
      <4>1. publisher'[p] = "discard"
        BY <2>3, <3>1 DEF SwapNeedsSnapshot, At, TypeOK
      <4> QED
        BY <2>0, <4>1 DEF Lost
    <3>2. CASE ~needsSnapshot
      <4>1. Steady
        BY <2>1, <2>3, <3>2 DEF SwapNeedsSnapshot
      <4> QED
        BY <2>0, <4>1
    <3> QED
      BY <3>1, <3>2
  <2>4. CASE Discard(p)
    <3>1. Lost'
      BY <2>4 DEF Discard, Lost
    <3> QED
      BY <2>0, <3>1
  <2> QED
    BY <1>5, <2>0, <2>2, <2>3, <2>4 DEF PublisherStep
<1>6. ASSUME NEW p \in Publishers, EmitWaits(p) PROVE Steady /\ Still
  BY <1>6 DEF EmitWaits, BroadcastWaits, Steady, Still, Lost
<1>7. ASSUME NEW c \in Consumers, ConsumerStep(c) PROVE Steady
  <2>1. UNCHANGED trackerVars
    BY <1>7 DEF ConsumerStep, Subscribe, ReadPayload, SendPayload, Close, HandleUpdate, Listens, Deliver
  <2> QED
    BY <2>1 DEF Steady, Lost
<1>8. ASSUME NEW c \in Consumers, \/ Subscribe(c) \/ ReadPayload(c) \/ SendPayload(c) \/ Close(c)
                                  \/ HandleUpdate(c) \/ Listens(c) \/ Deliver(c)
      PROVE  ConsumerStep(c)
  BY <1>8 DEF ConsumerStep
<1> QED
  BY <1>1, <1>2, <1>3, <1>4, <1>5, <1>6, <1>7, <1>8, WhoSteps

\* What is carried stays when no publisher takes or gives up an update.
LEMMA CarriedSame ==
  ASSUME UNCHANGED item, \A p \in Publishers : publisher'[p] = "publish" <=> publisher[p] = "publish"
  PROVE  \A r, v : /\ CarriedSilent(r)' <=> CarriedSilent(r)
                   /\ CarriedSays(r, v)' <=> CarriedSays(r, v)
  BY DEF CarriedSilent, CarriedSays

\* The publisher at work is the only one that may carry an update.
LEMMA NoneCarried ==
  ASSUME OnePublisher, NEW p \in Publishers, publisher[p] \in Working, publisher[p] # "publish"
  PROVE  \A r, v : CarriedSilent(r) /\ ~CarriedSays(r, v)
<1>1. \A q \in Publishers : publisher[q] # "publish"
  BY DEF OnePublisher, Working
<1> QED
  BY <1>1 DEF CarriedSilent, CarriedSays

LEMMA OneCarries ==
  ASSUME OnePublisher, NEW p \in Publishers, publisher[p] = "publish"
  PROVE  \A r, v : /\ CarriedSilent(r) <=> ~About(item[p], r)
                   /\ CarriedSays(r, v) <=> About(item[p], r) /\ Value(item[p], r) = v
<1>1. \A q \in Publishers : publisher[q] = "publish" => q = p
  BY DEF OnePublisher, Working
<1> QED
  BY <1>1 DEF CarriedSilent, CarriedSays

\* A change of the table that is not excused is the last word in the outbox; the
\* other entries are as they were, and so is what the outbox says about them.
LEMMA TableSays ==
  ASSUME TypeOK, NEW r \in Requests, NEW v \in Entries, TableStep(r, v),
         NEW q \in Requests, q \notin timer', ~Lost'
  PROVE  \/ q = r /\ Says(updates', q, requests'[q])
         \/ /\ q # r /\ q \notin timer /\ ~Lost /\ requests'[q] = requests[q]
            /\ Silent(updates, q) => Silent(updates', q)
            /\ \A x : Says(updates, q, x) => Says(updates', q, x)
<1>1. requests'[r] = v /\ (q # r => requests'[q] = requests[q])
  BY DEF TableStep, TypeOK
<1>2. ~Lost /\ (q # r => q \notin timer)
  BY DEF TableStep, Lost
<1>3. CASE r \in timer' /\ UNCHANGED updates
  BY <1>1, <1>2, <1>3
<1>4. CASE \E u \in Updates : (\A x : About(u, x) <=> x = r) /\ Value(u, r) = v /\ Enqueue(u)
  <2>1. PICK u \in Updates : (\A x : About(u, x) <=> x = r) /\ Value(u, r) = v /\ Enqueue(u)
    BY <1>4
  <2>2. updates' = Append(updates, u)
    BY <2>1 DEF Enqueue, Lost
  <2>3. /\ About(u, q) => Says(updates', q, Value(u, q))
        /\ ~About(u, q) /\ Silent(updates, q) => Silent(updates', q)
        /\ \A x : ~About(u, q) /\ Says(updates, q, x) => Says(updates', q, x)
    BY <2>2, LastIsAdded DEF TypeOK
  <2> QED
    BY <1>1, <1>2, <2>1, <2>3
<1> QED
  BY <1>3, <1>4 DEF TableStep

LEMMA FreshStep == TypeOK /\ OnePublisher /\ FreshOK /\ [Next]_vars => FreshOK'
<1> SUFFICES ASSUME TypeOK, OnePublisher, FreshOK, [Next]_vars,
                    NEW q \in Requests, q \notin timer', ~Lost'
             PROVE  \/ Says(updates', q, requests'[q])
                    \/ /\ Silent(updates', q)
                       /\ CarriedSays(q, requests[q])' \/ CarriedSilent(q)'
  BY DEF FreshOK
<1>0. OnePublisher'
  BY OnePublisherStep
<1>a. q \notin timer /\ ~Lost =>
        \/ Says(updates, q, requests[q])
        \/ Silent(updates, q) /\ (CarriedSays(q, requests[q]) \/ CarriedSilent(q))
  BY DEF FreshOK
<1>1. CASE Steady
  <2>1. /\ CarriedSilent(q)' <=> CarriedSilent(q)
        /\ CarriedSays(q, requests[q])' <=> CarriedSays(q, requests[q])
    BY <1>1 DEF Steady, CarriedSilent, CarriedSays
  <2>2. q \notin timer /\ ~Lost /\ UNCHANGED <<updates, requests>>
    BY <1>1 DEF Steady
  <2> QED
    BY <1>a, <2>1, <2>2
<1>2. ASSUME NEW r \in Requests, NEW v \in Entries, TableStep(r, v)
      PROVE  \/ Says(updates', q, requests'[q])
             \/ /\ Silent(updates', q)
                /\ CarriedSays(q, requests[q])' \/ CarriedSilent(q)'
  <2>1. \/ q = r /\ Says(updates', q, requests'[q])
        \/ /\ q # r /\ q \notin timer /\ ~Lost /\ requests'[q] = requests[q]
           /\ Silent(updates, q) => Silent(updates', q)
           /\ \A x : Says(updates, q, x) => Says(updates', q, x)
    BY <1>2, TableSays
  <2>2. requests'[q] = requests[q] => /\ CarriedSilent(q)' <=> CarriedSilent(q)
                                      /\ CarriedSays(q, requests[q])' <=> CarriedSays(q, requests[q])
    BY <1>2 DEF TableStep, CarriedSilent, CarriedSays
  <2> QED
    BY <1>a, <2>1, <2>2
<1>3. ASSUME NEW p \in Publishers, Receive(p)
      PROVE  \/ Says(updates', q, requests'[q])
             \/ /\ Silent(updates', q)
                /\ CarriedSays(q, requests[q])' \/ CarriedSilent(q)'
  <2>1. /\ publisher[p] = "select" /\ publisher'[p] = "publish" /\ item'[p] = Head(updates)
        /\ updates # <<>> /\ updates' = Tail(updates) /\ UNCHANGED <<requests, timer, mu, needsSnapshot>>
        /\ \A x \in Publishers : x # p => publisher'[x] = publisher[x]
    BY <1>3 DEF Receive, At, tableVars, TypeOK
  <2>2. ~Lost /\ q \notin timer
    BY <2>1 DEF Lost
  <2>3. CarriedSilent(q) /\ ~CarriedSays(q, requests[q])
    BY <2>1, NoneCarried DEF Working
  <2>4. /\ CarriedSilent(q)' <=> ~About(item'[p], q)
        /\ CarriedSays(q, requests[q])' <=> About(item'[p], q) /\ Value(item'[p], q) = requests'[q]
    <3>1. \A x \in Publishers : publisher'[x] = "publish" => x = p
      BY <1>0, <2>1 DEF OnePublisher, Working
    <3> QED
      BY <2>1, <3>1 DEF CarriedSilent, CarriedSays
  <2>5. /\ Silent(updates, q) => Silent(updates', q) /\ ~About(Head(updates), q)
        /\ Says(updates, q, requests[q]) =>
             \/ Says(updates', q, requests[q])
             \/ /\ Silent(updates', q) /\ About(Head(updates), q)
                /\ Value(Head(updates), q) = requests[q]
    <3>1. updates \in Seq(Updates)
      BY DEF TypeOK
    <3> QED
      BY <2>1, <3>1, HeadGoes
  <2> QED
    BY <1>a, <2>1, <2>2, <2>3, <2>4, <2>5
<1>4. ASSUME NEW p \in Publishers, ReadCurrent(p)
      PROVE  Silent(updates', q) /\ CarriedSilent(q)'
  <2>1. publisher'[p] = "current" /\ updates' = <<>>
    BY <1>4 DEF ReadCurrent, At, outboxVars, TypeOK
  <2>2. \A x \in Publishers : publisher'[x] # "publish"
    BY <1>0, <2>1 DEF OnePublisher, Working
  <2> QED
    BY <2>1, <2>2, EmptyIsSilent DEF CarriedSilent
<1>5. ASSUME NEW p \in Publishers, TakeCurrent(p)
      PROVE  \/ Says(updates', q, requests'[q])
             \/ Silent(updates', q) /\ CarriedSays(q, requests[q])'
  <2>1. /\ publisher[p] = "current" /\ publisher'[p] = "publish" /\ item'[p] = Snapshot
        /\ UNCHANGED <<requests, timer, mu, updates, needsSnapshot>>
        /\ \A x \in Publishers : x # p => publisher'[x] = publisher[x]
    BY <1>5 DEF TakeCurrent, At, tableVars, outboxVars, TypeOK
  <2>2. ~Lost /\ q \notin timer
    BY <2>1 DEF Lost
  <2>3. CarriedSays(q, requests[q])'
    BY <2>1, SnapshotSays DEF CarriedSays
  <2> QED
    BY <1>a, <2>1, <2>2, <2>3
<1>6. ASSUME NEW p \in Publishers, Emit(p)
      PROVE  \/ Says(updates', q, requests'[q])
             \/ Silent(updates', q) /\ CarriedSilent(q)'
  <2>1. /\ publisher[p] = "publish" /\ publisher'[p] = "recover"
        /\ UNCHANGED <<requests, timer, mu, updates, needsSnapshot>>
        /\ \A x \in Publishers : x # p => publisher'[x] = publisher[x]
    BY <1>6 DEF Emit, Published, At, tableVars, outboxVars, TypeOK
  <2>2. ~Lost /\ q \notin timer
    BY <2>1 DEF Lost
  <2>3. \A x \in Publishers : publisher'[x] # "publish"
    BY <1>0, <2>1 DEF OnePublisher, Working
  <2> QED
    BY <1>a, <2>1, <2>2, <2>3 DEF CarriedSilent
<1> QED
  BY <1>1, <1>2, <1>3, <1>4, <1>5, <1>6, StreamMoves

-----------------------------------------------------------------------------
(* What a connection is told.                                              *)

\* The client's list after a message.
LEMMA ApplySays ==
  ASSUME NEW list \in [Requests -> Entries], NEW u \in Updates, NEW r \in Requests
  PROVE  /\ About(u, r) => Apply(list, u)[r] = Value(u, r)
         /\ ~About(u, r) => Apply(list, u)[r] = list[r]
<1>1. CASE u.op = "snapshot"
  BY <1>1 DEF Updates, About, Apply, Value
<1>2. CASE u.op = "upsert"
  BY <1>2 DEF Updates, About, Apply, Value
<1>3. CASE u.op = "remove"
  BY <1>3 DEF Updates, About, Apply, Value
<1> QED
  BY <1>1, <1>2, <1>3 DEF Updates

\* What is behind the buffer is as it was.
LEMMA SameBehind ==
  ASSUME NEW c \in Consumers, UNCHANGED <<updates, item>>,
         \A p \in Publishers : publisher'[p] = "publish" <=> publisher[p] = "publish",
         queue'[c] = queue[c], pending'[c] = pending[c]
  PROVE  \A r, v : (Quiet(c, r)' <=> Quiet(c, r)) /\ (Speaks(c, r, v)' <=> Speaks(c, r, v))
<1> SUFFICES ASSUME NEW r, NEW v
             PROVE  (Quiet(c, r)' <=> Quiet(c, r)) /\ (Speaks(c, r, v)' <=> Speaks(c, r, v))
  OBVIOUS
<1>1. /\ CarriedSilent(r)' <=> CarriedSilent(r)
      /\ CarriedSays(r, v)' <=> CarriedSays(r, v)
  BY CarriedSame
<1> QED
  BY <1>1 DEF Quiet, Speaks

\* A step of the connection c itself keeps c told.
LEMMA ConsumerTold ==
  ASSUME TypeOK, WiringOK, FreshOK,
         NEW c \in Consumers, NEW r \in Requests, ConsumerStep(c), Steady,
         r \notin timer, ~Lost, c \notin lossy', TellsLast(c, r)
  PROVE  TellsLast(c, r)'
<1>1. PICK v : v = requests[r]
  OBVIOUS
<1>2. /\ requests'[r] = v /\ UNCHANGED <<updates, item>>
      /\ \A p \in Publishers : publisher'[p] = "publish" <=> publisher[p] = "publish"
      /\ CarriedSilent(r)' <=> CarriedSilent(r)
      /\ CarriedSays(r, v)' <=> CarriedSays(r, v)
  BY <1>1, CarriedSame DEF Steady
<1>3. conn[c] \in {"subscribed", "payload", "open"} =>
        Speaks(c, r, v) \/ (Quiet(c, r) /\ Told(c, r, v))
  BY <1>1 DEF TellsLast
<1>4. SUFFICES ASSUME conn'[c] \in {"subscribed", "payload", "open"}
               PROVE  Speaks(c, r, v)' \/ (Quiet(c, r)' /\ Told(c, r, v)')
  BY <1>2 DEF TellsLast
<1>5. queue'[c] = queue[c] /\ pending'[c] = pending[c] =>
        (Quiet(c, r)' <=> Quiet(c, r)) /\ (Speaks(c, r, v)' <=> Speaks(c, r, v))
  BY <1>2, SameBehind
<1>6. CASE Subscribe(c)
  <2>1. conn'[c] = "subscribed" /\ UNCHANGED <<queue, pending>> /\ listener[c] = "absent"
    BY <1>6 DEF Subscribe, Add, TypeOK
  <2>2. queue[c] = <<>> /\ pending[c] = <<>>
    BY <2>1 DEF WiringOK
  <2>3. \/ Says(updates, r, v)
        \/ Silent(updates, r) /\ (CarriedSays(r, v) \/ CarriedSilent(r))
    BY <1>1 DEF FreshOK
  <2>4. Silent(queue[c], r) /\ Silent(pending[c], r)
    BY <2>2, EmptyIsSilent
  <2>5. Speaks(c, r, v) \/ Quiet(c, r)
    BY <2>3, <2>4 DEF Speaks, Quiet
  <2> QED
    BY <1>5, <2>1, <2>5 DEF Told
<1>7. CASE ReadPayload(c)
  <2>1. /\ conn[c] = "subscribed" /\ conn'[c] = "payload" /\ UNCHANGED <<queue, pending>>
        /\ first'[c] = Snapshot
    BY <1>7 DEF ReadPayload, groupVars, TypeOK
  <2>2. first'[c].requests[r] = v
    BY <1>1, <2>1 DEF Snapshot
  <2> QED
    BY <1>3, <1>5, <2>1, <2>2 DEF Told
<1>8. CASE SendPayload(c)
  <2>1. /\ conn[c] = "payload" /\ conn'[c] = "open" /\ UNCHANGED <<queue, pending>>
        /\ first[c] \in Updates /\ first[c].op = "snapshot"
    BY <1>8 DEF SendPayload, groupVars, TypeOK
  <2>2. sendBuffer'[c] = Append(sendBuffer[c], first[c])
    BY <1>8, SendBufferAssumption DEF SendPayload, TypeOK
  <2>3. About(first[c], r) /\ Value(first[c], r) = first[c].requests[r]
    BY <2>1 DEF About, Value
  <2>4. Says(sendBuffer'[c], r, first[c].requests[r])
    BY <2>1, <2>2, <2>3, LastIsAdded DEF TypeOK
  <2>5. Told(c, r, v) => Told(c, r, v)'
    BY <2>1, <2>4 DEF Told
  <2> QED
    BY <1>3, <1>5, <2>1, <2>5
<1>9. CASE Close(c)
  BY <1>4, <1>9 DEF Close, TypeOK
<1>10. CASE HandleUpdate(c)
  <2> DEFINE u == Head(pending[c])
  <2>1. /\ conn[c] = conn'[c] /\ queue'[c] = queue[c] /\ view' = view /\ first' = first
        /\ pending[c] # <<>> /\ pending'[c] = Tail(pending[c]) /\ Send(c, u)
    BY <1>10 DEF HandleUpdate, Handled, TypeOK
  <2>2. pending[c] \in Seq(Updates) /\ sendBuffer[c] \in Seq(Updates) /\ u \in Updates
    BY <2>1, QueueTypes DEF TypeOK
  <2>3. conn[c] # "payload" /\ sendBuffer'[c] = Append(sendBuffer[c], u)
    BY <1>4, <2>1, SendBufferAssumption DEF Send, TypeOK
  <2> HIDE DEF u
  <2>4. /\ Silent(pending[c], r) => Silent(pending'[c], r) /\ ~About(u, r)
        /\ Says(pending[c], r, v) =>
             \/ Says(pending'[c], r, v)
             \/ Silent(pending'[c], r) /\ About(u, r) /\ Value(u, r) = v
    BY <2>1, <2>2, HeadGoes DEF u
  <2>5. /\ About(u, r) => Says(sendBuffer'[c], r, Value(u, r))
        /\ ~About(u, r) /\ Silent(sendBuffer[c], r) => Silent(sendBuffer'[c], r)
        /\ ~About(u, r) /\ Says(sendBuffer[c], r, v) => Says(sendBuffer'[c], r, v)
    BY <2>2, <2>3, LastIsAdded
  <2>6. CASE Speaks(c, r, v)
    <3>1. CASE Says(pending[c], r, v) /\ Silent(updates, r) /\ CarriedSilent(r) /\ Silent(queue[c], r)
      <4>1. CASE Says(pending'[c], r, v)
        BY <1>2, <2>1, <3>1, <4>1 DEF Speaks
      <4>2. CASE Silent(pending'[c], r) /\ About(u, r) /\ Value(u, r) = v
        <5>1. Quiet(c, r)'
          BY <1>2, <2>1, <3>1, <4>2 DEF Quiet
        <5>2. Told(c, r, v)'
          BY <1>4, <2>1, <2>3, <2>5, <4>2 DEF Told
        <5> QED
          BY <5>1, <5>2
      <4> QED
        BY <2>4, <3>1, <4>1, <4>2
    <3>2. CASE ~(Says(pending[c], r, v) /\ Silent(updates, r) /\ CarriedSilent(r) /\ Silent(queue[c], r))
      BY <1>2, <2>1, <2>6, <3>2 DEF Speaks
    <3> QED
      BY <3>1, <3>2
  <2>7. CASE Quiet(c, r) /\ Told(c, r, v)
    <3>1. Quiet(c, r)' /\ ~About(u, r)
      BY <1>2, <2>1, <2>4, <2>7 DEF Quiet
    <3>2. Told(c, r, v)'
      BY <2>1, <2>3, <2>5, <2>7, <3>1 DEF Told
    <3> QED
      BY <3>1, <3>2
  <2> QED
    BY <1>3, <1>4, <2>1, <2>6, <2>7
<1>11. CASE Listens(c)
  <2>1. UNCHANGED <<conn, first, sendBuffer, view>>
    BY <1>11 DEF Listens, streamVars
  <2>2. Told(c, r, v)' <=> Told(c, r, v)
    BY <2>1 DEF Told
  <2>3. CASE TakeBatch(c)
    <3>1. pending[c] = <<>> /\ pending'[c] = queue[c] /\ queue'[c] = <<>>
      BY <2>3 DEF TakeBatch, WiringOK, TypeOK
    <3>2. Silent(queue'[c], r) /\ Silent(pending[c], r) /\ ~Says(pending[c], r, v)
      BY <3>1, EmptyIsSilent
    <3>3. Quiet(c, r) => Quiet(c, r)'
      BY <1>2, <3>1, <3>2 DEF Quiet
    <3>4. Speaks(c, r, v) => Speaks(c, r, v)'
      BY <1>2, <3>1, <3>2 DEF Speaks
    <3> QED
      BY <1>3, <1>4, <2>1, <2>2, <3>3, <3>4
  <2>4. CASE FindsNothing(c) \/ BatchEnd(c)
    <3>1. UNCHANGED <<queue, pending>>
      BY <2>4 DEF FindsNothing, BatchEnd
    <3> QED
      BY <1>3, <1>4, <1>5, <2>1, <2>2, <3>1
  <2> QED
    BY <1>11, <2>3, <2>4 DEF Listens, ListenStep
<1>12. CASE Deliver(c)
  <2> DEFINE u == Head(sendBuffer[c])
  <2>1. /\ conn[c] = "open" /\ conn' = conn /\ UNCHANGED <<queue, pending>>
        /\ sendBuffer[c] # <<>> /\ sendBuffer'[c] = Tail(sendBuffer[c])
        /\ view'[c] = Apply(view[c], u)
    BY <1>12 DEF Deliver, groupVars, TypeOK
  <2>2. sendBuffer[c] \in Seq(Updates) /\ u \in Updates /\ view[c] \in [Requests -> Entries]
    BY <2>1, QueueTypes DEF TypeOK
  <2> HIDE DEF u
  <2>3. /\ Silent(sendBuffer[c], r) => Silent(sendBuffer'[c], r) /\ ~About(u, r)
        /\ Says(sendBuffer[c], r, v) =>
             \/ Says(sendBuffer'[c], r, v)
             \/ Silent(sendBuffer'[c], r) /\ About(u, r) /\ Value(u, r) = v
    BY <2>1, <2>2, HeadGoes DEF u
  <2>4. /\ About(u, r) => view'[c][r] = Value(u, r)
        /\ ~About(u, r) => view'[c][r] = view[c][r]
    BY <2>1, <2>2, ApplySays
  <2>5. Told(c, r, v) => Told(c, r, v)'
    BY <2>1, <2>3, <2>4 DEF Told
  <2> QED
    BY <1>3, <1>5, <2>1, <2>5
<1> QED
  BY <1>6, <1>7, <1>8, <1>9, <1>10, <1>11, <1>12 DEF ConsumerStep

\* The other connections do not see it.
LEMMA OthersTold ==
  ASSUME TypeOK, NEW d \in Consumers, ConsumerStep(d), Steady,
         NEW c \in Consumers, c # d, NEW r \in Requests, TellsLast(c, r)
  PROVE  TellsLast(c, r)'
<1>1. /\ queue'[c] = queue[c] /\ pending'[c] = pending[c] /\ conn'[c] = conn[c] /\ first'[c] = first[c]
      /\ sendBuffer'[c] = sendBuffer[c] /\ view'[c] = view[c]
  <2> USE DEF TypeOK, groupVars, streamVars
  <2>1. CASE Subscribe(d) \/ ReadPayload(d) \/ SendPayload(d) \/ Close(d)
    BY <2>1 DEF Subscribe, Add, ReadPayload, SendPayload, Close, Del
  <2>2. CASE HandleUpdate(d)
    BY <2>2 DEF HandleUpdate, Send, Handled
  <2>3. CASE Listens(d)
    BY <2>3 DEF Listens, ListenStep, TakeBatch, FindsNothing, BatchEnd
  <2>4. CASE Deliver(d)
    BY <2>4 DEF Deliver
  <2> QED
    BY <2>1, <2>2, <2>3, <2>4 DEF ConsumerStep
<1>2. PICK v : v = requests[r] /\ v = requests'[r]
  BY DEF Steady
<1>3. (Quiet(c, r)' <=> Quiet(c, r)) /\ (Speaks(c, r, v)' <=> Speaks(c, r, v))
  BY <1>1, SameBehind DEF Steady
<1>4. Told(c, r, v)' <=> Told(c, r, v)
  BY <1>1 DEF Told
<1> QED
  BY <1>1, <1>2, <1>3, <1>4 DEF TellsLast

LEMMA StreamStep == Inv /\ [Next]_vars => StreamOK'
<1> SUFFICES ASSUME Inv, [Next]_vars, NEW c \in Consumers, NEW r \in Requests,
                    c \notin lossy', r \notin timer', ~Lost',
                    \A p \in Publishers : publisher'[p] # "current"
             PROVE  TellsLast(c, r)'
  BY DEF StreamOK
<1> USE DEF Inv
<1>0. OnePublisher'
  BY OnePublisherStep
<1>1. c \notin lossy /\ r \notin timer /\ ~Lost /\ (\A p \in Publishers : publisher[p] # "current")
        => TellsLast(c, r)
  BY DEF StreamOK
<1>2. r \notin timer /\ ~Lost =>
        \/ Says(updates, r, requests[r])
        \/ Silent(updates, r) /\ (CarriedSays(r, requests[r]) \/ CarriedSilent(r))
  BY DEF FreshOK
<1>3. CASE Steady /\ Still
  <2>1. TellsLast(c, r)
    BY <1>1, <1>3 DEF Steady, Still
  <2>2. PICK v : v = requests[r] /\ v = requests'[r]
    BY <1>3 DEF Steady
  <2>3. (Quiet(c, r)' <=> Quiet(c, r)) /\ (Speaks(c, r, v)' <=> Speaks(c, r, v))
    BY <1>3, SameBehind DEF Steady, Still
  <2>4. (Told(c, r, v)' <=> Told(c, r, v)) /\ conn' = conn
    BY <1>3 DEF Told, Still
  <2> QED
    BY <2>1, <2>2, <2>3, <2>4 DEF TellsLast
<1>4. ASSUME NEW d \in Consumers, ConsumerStep(d), Steady PROVE TellsLast(c, r)'
  <2>1. c \notin lossy
    <3>1. lossy \subseteq lossy'
      BY <1>4 DEF ConsumerStep, Subscribe, ReadPayload, SendPayload, Close, HandleUpdate, Send,
                  Listens, Deliver, streamVars
    <3> QED
      BY <3>1
  <2>2. r \notin timer /\ ~Lost /\ TellsLast(c, r)
    BY <1>1, <1>4, <2>1 DEF Steady
  <2> QED
    BY <1>4, <2>1, <2>2, ConsumerTold, OthersTold
<1>5. ASSUME NEW q \in Requests, NEW v \in Entries, TableStep(q, v), Still PROVE TellsLast(c, r)'
  <2>1. \/ q = r /\ Says(updates', r, requests'[r])
        \/ /\ q # r /\ r \notin timer /\ ~Lost /\ requests'[r] = requests[r]
           /\ Silent(updates, r) => Silent(updates', r)
           /\ \A x : Says(updates, r, x) => Says(updates', r, x)
    BY <1>5, TableSays
  <2>2. CASE Says(updates', r, requests'[r])
    BY <2>2 DEF TellsLast, Speaks
  <2>3. CASE /\ r \notin timer /\ ~Lost /\ requests'[r] = requests[r]
             /\ Silent(updates, r) => Silent(updates', r)
             /\ \A x : Says(updates, r, x) => Says(updates', r, x)
    <3>1. TellsLast(c, r)
      BY <1>1, <1>5, <2>3 DEF TableStep, Still
    <3>2. PICK x : x = requests[r] /\ x = requests'[r]
      BY <2>3
    <3>3. /\ CarriedSilent(r)' <=> CarriedSilent(r)
          /\ CarriedSays(r, x)' <=> CarriedSays(r, x)
      BY <1>5, CarriedSame DEF TableStep
    <3>4. Quiet(c, r) => Quiet(c, r)'
      BY <1>5, <2>3, <3>3 DEF Quiet, Still
    <3>5. Speaks(c, r, x) => Speaks(c, r, x)'
      BY <1>5, <2>3, <3>3 DEF Speaks, Still
    <3>6. (Told(c, r, x)' <=> Told(c, r, x)) /\ conn' = conn
      BY <1>5 DEF Told, Still
    <3> QED
      BY <3>1, <3>2, <3>4, <3>5, <3>6 DEF TellsLast
  <2> QED
    BY <2>1, <2>2, <2>3
<1>6. ASSUME NEW p \in Publishers, Receive(p), Still PROVE TellsLast(c, r)'
  <2>1. /\ publisher[p] = "select" /\ publisher'[p] = "publish" /\ item'[p] = Head(updates)
        /\ updates # <<>> /\ updates' = Tail(updates) /\ UNCHANGED <<requests, timer, mu, needsSnapshot>>
        /\ \A x \in Publishers : x # p => publisher'[x] = publisher[x]
    BY <1>6 DEF Receive, At, tableVars, TypeOK
  <2>2. TellsLast(c, r)
    BY <1>1, <1>6, <2>1 DEF Lost, Still
  <2>3. PICK v : v = requests[r] /\ v = requests'[r]
    BY <2>1
  <2>4. CarriedSilent(r) /\ ~CarriedSays(r, v)
    BY <2>1, NoneCarried DEF Working
  <2>5. /\ CarriedSilent(r)' <=> ~About(item'[p], r)
        /\ CarriedSays(r, v)' <=> About(item'[p], r) /\ Value(item'[p], r) = v
    <3>1. \A x \in Publishers : publisher'[x] = "publish" => x = p
      BY <1>0, <2>1 DEF OnePublisher, Working
    <3> QED
      BY <2>1, <3>1 DEF CarriedSilent, CarriedSays
  <2>6. /\ Silent(updates, r) => Silent(updates', r) /\ ~About(Head(updates), r)
        /\ Says(updates, r, v) =>
             \/ Says(updates', r, v)
             \/ Silent(updates', r) /\ About(Head(updates), r) /\ Value(Head(updates), r) = v
    <3>1. updates \in Seq(Updates)
      BY DEF TypeOK
    <3> QED
      BY <2>1, <3>1, HeadGoes
  <2>7. Quiet(c, r) => Quiet(c, r)'
    BY <1>6, <2>1, <2>5, <2>6 DEF Quiet, Still
  <2>8. Speaks(c, r, v) => Speaks(c, r, v)'
    BY <1>6, <2>1, <2>4, <2>5, <2>6 DEF Speaks, Still
  <2>9. (Told(c, r, v)' <=> Told(c, r, v)) /\ conn' = conn
    BY <1>6 DEF Told, Still
  <2> QED
    BY <2>2, <2>3, <2>7, <2>8, <2>9 DEF TellsLast
<1>7. ASSUME NEW p \in Publishers, TakeCurrent(p), Still PROVE TellsLast(c, r)'
  <2>1. /\ publisher'[p] = "publish" /\ item'[p] = Snapshot
        /\ UNCHANGED <<requests, timer, mu, updates, needsSnapshot>>
        /\ publisher[p] = "current" /\ \A x \in Publishers : x # p => publisher'[x] = publisher[x]
    BY <1>7 DEF TakeCurrent, At, tableVars, outboxVars, TypeOK
  <2>2. ~Lost /\ r \notin timer
    BY <2>1 DEF Lost
  <2>3. CarriedSays(r, requests[r])'
    BY <2>1, SnapshotSays DEF CarriedSays
  <2> QED
    BY <1>2, <2>1, <2>2, <2>3 DEF TellsLast, Speaks
<1>8. ASSUME NEW p \in Publishers, Emit(p) PROVE TellsLast(c, r)'
  <2>1. /\ publisher[p] = "publish" /\ publisher'[p] = "recover"
        /\ UNCHANGED <<requests, timer, mu, updates, needsSnapshot>>
        /\ \A x \in Publishers : x # p => publisher'[x] = publisher[x]
    BY <1>8 DEF Emit, Published, At, tableVars, outboxVars, TypeOK
  <2>2. UNCHANGED <<pending, conn, first, sendBuffer, view, lossy>>
    BY <1>8 DEF Emit, BroadcastTo, streamVars
  <2>3. CASE c \notin subs
    BY <2>2, <2>3 DEF WiringOK, TellsLast
  <2>4. CASE c \in subs
    <3>1. queue'[c] = Append(queue[c], item[p])
      BY <1>8, <2>4 DEF Emit, BroadcastTo
    <3>2. TellsLast(c, r)
      BY <1>1, <2>1, <2>2 DEF Lost
    <3>3. PICK v : v = requests[r] /\ v = requests'[r]
      BY <2>1
    <3>4. /\ CarriedSilent(r) <=> ~About(item[p], r)
          /\ CarriedSays(r, v) <=> About(item[p], r) /\ Value(item[p], r) = v
      BY <2>1, OneCarries
    <3>5. CarriedSilent(r)'
      <4>1. \A x \in Publishers : publisher'[x] # "publish"
        BY <1>0, <2>1 DEF OnePublisher, Working
      <4> QED
        BY <4>1 DEF CarriedSilent
    <3>6. /\ About(item[p], r) => Says(queue'[c], r, Value(item[p], r))
          /\ ~About(item[p], r) /\ Silent(queue[c], r) => Silent(queue'[c], r)
          /\ ~About(item[p], r) /\ Says(queue[c], r, v) => Says(queue'[c], r, v)
      <4>1. queue[c] \in Seq(Updates) /\ item[p] \in Updates
        BY <2>1 DEF TypeOK
      <4> QED
        BY <3>1, <4>1, LastIsAdded
    <3>7. Quiet(c, r) => Quiet(c, r)'
      BY <2>1, <2>2, <3>4, <3>5, <3>6 DEF Quiet
    <3>8. Speaks(c, r, v) => Speaks(c, r, v)'
      BY <2>1, <2>2, <3>4, <3>5, <3>6 DEF Speaks
    <3>9. Told(c, r, v)' <=> Told(c, r, v)
      BY <2>2 DEF Told
    <3> QED
      BY <2>2, <3>2, <3>3, <3>7, <3>8, <3>9 DEF TellsLast
  <2> QED
    BY <2>3, <2>4
<1>9. ASSUME NEW p \in Publishers, ReadCurrent(p) PROVE FALSE
  BY <1>9 DEF ReadCurrent, At, TypeOK
<1> QED
  BY <1>3, <1>4, <1>5, <1>6, <1>7, <1>8, <1>9, StreamMoves

-----------------------------------------------------------------------------
\* Inv holds in every state, for every set of requests, publishers and
\* connections and every size of the outbox, the queues and the buffers.
THEOREM StreamInvariant == Spec => []Inv
<1>1. Inv /\ [Next]_vars => Inv'
  BY TypeStep, OnePublisherStep, WiringStep, FreshStep, StreamStep DEF Inv
<1> QED
  BY <1>1, InitInv, PTL DEF Spec

\* A client that missed nothing has, when nothing is on its way to it, the list
\* that the tracker has (handleAPIEvents, publishUpdates, enqueueLocked).
THEOREM ClientsAgree == Spec => []StreamAgrees
<1>1. Inv => StreamAgrees
  <2> SUFFICES ASSUME Inv, NEW c \in Consumers, Settled(c), c \notin lossy
               PROVE  view[c] = requests
    BY DEF StreamAgrees
  <2> USE DEF Inv
  <2>1. ~Lost /\ (\A p \in Publishers : publisher[p] = "none") /\ timer = {} /\ conn[c] = "open"
    BY DEF Settled, PublisherIdle, Lost
  <2>2. ASSUME NEW r \in Requests PROVE view[c][r] = requests[r]
    <3>1. \A x : ~Says(updates, r, x) /\ ~Says(queue[c], r, x) /\ ~Says(pending[c], r, x)
                 /\ ~Says(sendBuffer[c], r, x)
      BY EmptyIsSilent DEF Settled
    <3>2. \A x : ~CarriedSays(r, x)
      BY <2>1 DEF CarriedSays
    <3>3. ~Speaks(c, r, requests[r])
      BY <3>1, <3>2 DEF Speaks
    <3>4. TellsLast(c, r)
      BY <2>1 DEF StreamOK
    <3> QED
      BY <2>1, <3>1, <3>3, <3>4 DEF TellsLast, Told
  <2>3. view[c] \in [Requests -> Entries] /\ requests \in [Requests -> Entries]
    BY DEF TypeOK
  <2> QED
    BY <2>2, <2>3
<1> QED
  BY <1>1, StreamInvariant, PTL
=============================================================================
