------------------------------- MODULE WolProxy -------------------------------
(***************************************************************************)
(* The Wake-on-LAN proxy (cmd/wol-proxy/wol-proxy.go): a goroutine that    *)
(* holds the upstream's event stream open, one that checks its health on a *)
(* ticker, and the handlers of requests, which wake the upstream and wait  *)
(* for it.  They share the status, the start of the wake and the body of   *)
(* the stream, each behind a lock of its own, taken call by call.          *)
(***************************************************************************)
EXTENDS Naturals

CONSTANTS WolRequests,     \* requests
          WakePosts,       \* those that post to wakePath
          MaxStreams       \* streams opened (bound)

VARIABLES requireConfirm, \* the flag, once it is parsed
          wolStatus,   \* status
          wakeAge,     \* wakeStart: "none", or how long ago it is
          lastWake,    \* if lastWake is known
          sseBody,     \* the number of the stream it is the body of, 0 for nil
          monitor,     \* where the monitor is; the number of its stream
          health,      \* where the health check is, and the body it took
          wolClosed,      \* the streams that are closed
          upstreamUp,  \* if the upstream answers
          packets,     \* if a packet was sent without being asked for
          wolCall      \* where each request is

wolVars == <<requireConfirm, wolStatus, wakeAge, lastWake, sseBody, monitor, health, wolClosed, upstreamUp, packets, wolCall>>

Init ==
  /\ requireConfirm = FALSE
  /\ wolStatus = "not ready" /\ wakeAge = "none" /\ lastWake = FALSE
  /\ sseBody = 0 /\ monitor = [at |-> "start", stream |-> 0]
  /\ health = [at |-> "tick", took |-> 0] /\ wolClosed = {}
  /\ upstreamUp = FALSE /\ packets = FALSE
  /\ wolCall = [q \in WolRequests |-> "none"]

\* main: the flags, then newProxy and the listener.
Start(confirm) ==
  /\ monitor.at = "start"
  /\ requireConfirm' = confirm
  /\ monitor' = [monitor EXCEPT !.at = "connect"]
  /\ UNCHANGED <<wolStatus, wakeAge, lastWake, sseBody, health, wolClosed, upstreamUp, packets, wolCall>>

\* The machine wakes, or is suspended: a suspended one does not close its end.
UpstreamChanges ==
  /\ upstreamUp' = ~upstreamUp
  /\ UNCHANGED <<requireConfirm, wolStatus, wakeAge, lastWake, sseBody, monitor, health, wolClosed, packets, wolCall>>

\* maxTrackedWake passes.
WakeGrowsOld ==
  /\ wakeAge = "young"
  /\ wakeAge' = "old"
  /\ UNCHANGED <<requireConfirm, wolStatus, lastWake, sseBody, monitor, health, wolClosed, upstreamUp, packets, wolCall>>

-----------------------------------------------------------------------------
\* setStatus: "ready" ends the wake that is pending, and times it.
SetStatus(status) ==
  /\ wolStatus' = status
  /\ IF status = "ready" /\ wakeAge # "none"
       THEN lastWake' = (lastWake \/ wakeAge = "young") /\ wakeAge' = "none"
       ELSE UNCHANGED <<lastWake, wakeAge>>

\* client.Do; a failure sets the status and the delay doubles (time is left out).
MonitorConnects ==
  /\ monitor.at = "connect"
  /\ \/ /\ upstreamUp /\ monitor.stream < MaxStreams
        /\ monitor' = [at |-> "connected", stream |-> monitor.stream + 1]
        /\ UNCHANGED <<wolStatus, wakeAge, lastWake>>
     \/ SetStatus("not ready") /\ UNCHANGED monitor
  /\ UNCHANGED <<requireConfirm, sseBody, health, wolClosed, upstreamUp, packets, wolCall>>

MonitorIsReady ==
  /\ monitor.at = "connected"
  /\ SetStatus("ready")
  /\ monitor' = [monitor EXCEPT !.at = "ready"]
  /\ UNCHANGED <<requireConfirm, sseBody, health, wolClosed, upstreamUp, packets, wolCall>>

MonitorKeepsBody ==
  /\ monitor.at = "ready"
  /\ sseBody' = monitor.stream
  /\ monitor' = [monitor EXCEPT !.at = "scan"]
  /\ UNCHANGED <<requireConfirm, wolStatus, wakeAge, lastWake, health, wolClosed, upstreamUp, packets, wolCall>>

\* The scanner ends: the health check closed the body, or the upstream did.
StreamEnds ==
  /\ monitor.at = "scan"
  /\ monitor.stream \in wolClosed \/ upstreamUp
  /\ sseBody' = 0
  /\ wolClosed' = wolClosed \union {monitor.stream}
  /\ monitor' = [monitor EXCEPT !.at = "ended"]
  /\ UNCHANGED <<requireConfirm, wolStatus, wakeAge, lastWake, health, upstreamUp, packets, wolCall>>

MonitorLosesStatus ==
  /\ monitor.at = "ended"
  /\ SetStatus("not ready")
  /\ monitor' = [monitor EXCEPT !.at = "connect"]
  /\ UNCHANGED <<requireConfirm, sseBody, health, wolClosed, upstreamUp, packets, wolCall>>

\* The ticker: only an error of the request counts, not what it answers.
HealthFails ==
  /\ health.at = "tick" /\ ~upstreamUp /\ monitor.at # "start"
  /\ health' = [health EXCEPT !.at = "failed"]
  /\ UNCHANGED <<requireConfirm, wolStatus, wakeAge, lastWake, sseBody, monitor, wolClosed, upstreamUp, packets, wolCall>>

HealthSetsStatus ==
  /\ health.at = "failed"
  /\ SetStatus("not ready")
  /\ health' = [health EXCEPT !.at = "take"]
  /\ UNCHANGED <<requireConfirm, sseBody, monitor, wolClosed, upstreamUp, packets, wolCall>>

\* takeSSEBody: whoever takes the body is the one that closes it.
HealthTakesBody ==
  /\ health.at = "take"
  /\ health' = [at |-> IF sseBody = 0 THEN "tick" ELSE "close", took |-> sseBody]
  /\ sseBody' = 0
  /\ UNCHANGED <<requireConfirm, wolStatus, wakeAge, lastWake, monitor, wolClosed, upstreamUp, packets, wolCall>>

HealthClosesBody ==
  /\ health.at = "close"
  /\ wolClosed' = wolClosed \union {health.took}
  /\ health' = [at |-> "tick", took |-> 0]
  /\ UNCHANGED <<requireConfirm, wolStatus, wakeAge, lastWake, sseBody, monitor, upstreamUp, packets, wolCall>>

-----------------------------------------------------------------------------
\* beginWake: not if it came up since; a wake that is pending keeps its start.
\* Mutant: it does not look at the status again.
BeginWakeBlindly == wakeAge' = "young"
BeginWake ==
  wakeAge' = IF wolStatus = "ready" \/ wakeAge = "young" THEN wakeAge ELSE "young"

\* ServeHTTP, as far as the first getStatus; the confirmation page is an answer.
Arrive(q) ==
  /\ wolCall[q] = "none" /\ monitor.at # "start"
  /\ wolCall' = [wolCall EXCEPT ![q] =
       IF wolStatus = "ready"
         THEN IF requireConfirm /\ q \in WakePosts THEN "answered" ELSE "forward"
         ELSE IF requireConfirm /\ q \notin WakePosts THEN "answered" ELSE "begin"]
  /\ UNCHANGED <<requireConfirm, wolStatus, wakeAge, lastWake, sseBody, monitor, health, wolClosed, upstreamUp, packets>>

\* beginWake and the packet; a page or the confirmation is answered, others wait.
Wake(q) ==
  /\ wolCall[q] = "begin"
  /\ BeginWake
  /\ packets' = (packets \/ (requireConfirm /\ q \notin WakePosts))
  /\ \/ wolCall' = [wolCall EXCEPT ![q] = "answered"]
     \/ ~requireConfirm /\ wolCall' = [wolCall EXCEPT ![q] = "wait"]
  /\ UNCHANGED <<requireConfirm, wolStatus, lastWake, sseBody, monitor, health, wolClosed, upstreamUp>>

\* Its ticker finds the status ready, or its timeout ends it.
Waited(q) ==
  /\ wolCall[q] = "wait"
  /\ \/ wolStatus = "ready" /\ wolCall' = [wolCall EXCEPT ![q] = "forward"]
     \/ wolCall' = [wolCall EXCEPT ![q] = "timeout"]
  /\ UNCHANGED <<requireConfirm, wolStatus, wakeAge, lastWake, sseBody, monitor, health, wolClosed, upstreamUp, packets>>

Answer(q) ==
  /\ wolCall[q] \in {"answered", "forward", "timeout"}
  /\ wolCall' = [wolCall EXCEPT ![q] = "none"]
  /\ UNCHANGED <<requireConfirm, wolStatus, wakeAge, lastWake, sseBody, monitor, health, wolClosed, upstreamUp, packets>>

Next ==
  \/ \E confirm \in BOOLEAN : Start(confirm)
  \/ UpstreamChanges \/ WakeGrowsOld
  \/ MonitorConnects \/ MonitorIsReady \/ MonitorKeepsBody \/ StreamEnds \/ MonitorLosesStatus
  \/ HealthFails \/ HealthSetsStatus \/ HealthTakesBody \/ HealthClosesBody
  \/ \E q \in WolRequests : Arrive(q) \/ Wake(q) \/ Waited(q) \/ Answer(q)

Spec == Init /\ [][Next]_wolVars

-----------------------------------------------------------------------------
\* A wake is pending only while the upstream is not ready, whichever of the
\* monitor, the health check and the requests came first: one that stayed
\* pending would make the next wake look longer than it is.
WakeEnds == wakeAge # "none" => wolStatus = "not ready"

\* "ready" is said only while the monitor holds a stream, and a stream whose
\* body is kept is one it reads, or the health check is about to close it.
ReadyHasStream == wolStatus = "ready" => monitor.at \in {"ready", "scan", "ended"}
BodyIsCurrent ==
  /\ sseBody # 0 => sseBody = monitor.stream /\ monitor.at = "scan" /\ sseBody \notin wolClosed
  /\ health.took # 0 => health.took # sseBody

\* No packet without the user's consent, when it is asked for.
ConsentAsked == ~packets

WakeIsSound == WakeEnds /\ ReadyHasStream /\ BodyIsCurrent /\ ConsentAsked
=============================================================================
