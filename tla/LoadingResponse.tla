--------------------------- MODULE LoadingResponse ---------------------------
(***************************************************************************)
(* The answer to one request for a model that may have to be loaded: the   *)
(* caller in baseRouter.ServeHTTP (internal/router/base.go), the goroutine *)
(* that streams the progress of the load to the client meanwhile           *)
(* (internal/router/loading.go), and the recorders the answer goes through *)
(* on its way out, responseBodyCopier (internal/server/metrics.go) around  *)
(* statusRecorder (internal/server/log.go), with the rule for clients that *)
(* left (internal/swaputil/http.go).                                       *)
(***************************************************************************)
EXTENDS Naturals, Sequences

CONSTANTS Statuses,      \* what an upstream may answer
          Refusal,       \* the status of an error of ours
          ClientClosed   \* StatusClientClosedRequest

OK == "200"
BadGateway == "502"
NoLoad == "none"

VARIABLES wire,       \* what the client was sent, repeated chunks as one; "reclaimed"
                      \* marks the moment the loading stream gave the writer back
          copier,     \* responseBodyCopier: status and wroteHeader
          access,     \* statusRecorder: status and wroteHeader
          here,       \* the client is connected
          caller,     \* where ServeHTTP and the middleware around it are
          outcome,    \* what the caller's select received
          loader,     \* where loadingWriter.start is
          swapOver,   \* swapCtx is cancelled
          released,
          recorded    \* the status the activity log was given

loadVars == <<wire, copier, access, here, caller, outcome, loader, swapOver, released, recorded>>
writerVars == <<wire, copier, access>>

Unwritten == [status |-> OK, wrote |-> FALSE]
Loading == loader # NoLoad

Init ==
  /\ wire = <<>> /\ copier = Unwritten /\ access = Unwritten
  /\ here = TRUE
  /\ caller = "new" /\ outcome = "none"
  /\ loader = NoLoad /\ swapOver = FALSE /\ released = FALSE
  /\ recorded = "none"

\* The frames net/http has sent, after one more.
Sent(frame) == IF frame = "chunk" /\ wire # <<>> /\ wire[Len(wire)] = "chunk"
                 THEN wire ELSE Append(wire, frame)

\* WriteHeader through the stack, and the frames that follow it.
Answer(status, frames) ==
  /\ copier' = IF copier.wrote THEN copier ELSE [status |-> status, wrote |-> TRUE]
  /\ access' = IF copier.wrote \/ access.wrote THEN access
                                               ELSE [status |-> status, wrote |-> TRUE]
  /\ wire' = wire \o (IF copier.wrote \/ access.wrote THEN <<>> ELSE <<status>>) \o frames

\* MarkClientClosed: only for a client that left before any status was written.
MarkCopier == IF ~copier.wrote /\ ~here THEN [copier EXCEPT !.status = ClientClosed] ELSE copier
MarkAccess(marker) ==
  IF ~marker.wrote /\ ~here THEN [access EXCEPT !.status = ClientClosed] ELSE access

ClientLeaves ==
  /\ here /\ caller # "over"
  /\ here' = FALSE
  /\ UNCHANGED <<writerVars, caller, outcome, loader, swapOver, released, recorded>>

-----------------------------------------------------------------------------
\* The caller, once admitted.  Loading is shown for a streaming request of a
\* model that was not ready: newLoadingWriter sends 200 and its first lines.
Admitted ==
  /\ caller = "new"
  /\ caller' = "wait"
  /\ \/ UNCHANGED <<writerVars, loader>>
     \/ Answer(OK, <<"chunk">>) /\ loader' = "loop"
  /\ UNCHANGED <<here, outcome, swapOver, released, recorded>>

\* The select, and finishLoading's first step.
Receives(what) ==
  /\ caller = "wait"
  /\ what = "gone" => ~here
  /\ outcome' = what
  /\ swapOver' = TRUE
  /\ caller' = IF Loading THEN "finish" ELSE "answer"
  /\ UNCHANGED <<writerVars, here, loader, released, recorded>>

\* waitForCompletion returns, also after its second; an error is framed.
FramesError ==
  /\ caller = "finish"
  /\ caller' = "release"
  /\ wire' = IF outcome \in {"refused", "shutdown"} THEN Append(wire, "error") ELSE wire
  /\ UNCHANGED <<copier, access, here, outcome, loader, swapOver, released, recorded>>

Releases ==
  /\ caller = "release"
  /\ released' = TRUE
  /\ wire' = Append(wire, "reclaimed")
  /\ caller' = "answer"
  /\ UNCHANGED <<copier, access, here, outcome, loader, swapOver, recorded>>

\* reportError, the client that left, or the process's reverse proxy, whose
\* ErrorHandler keeps silent when the client left or an answer had started.
Answers ==
  /\ caller = "answer"
  /\ caller' = "metrics"
  /\ CASE outcome \in {"refused", "shutdown"} ->
            IF Loading \/ copier.wrote THEN UNCHANGED writerVars ELSE Answer(Refusal, <<"body">>)
       [] outcome = "gone" -> UNCHANGED writerVars
       [] OTHER ->
            \/ \E status \in Statuses : Answer(status, <<"body">>)
            \/ IF copier.wrote THEN UNCHANGED writerVars
               ELSE IF ~here THEN /\ copier' = MarkCopier /\ access' = MarkAccess(copier)
                                  /\ UNCHANGED wire
               ELSE Answer(BadGateway, <<"body">>)
  /\ UNCHANGED <<here, outcome, loader, swapOver, released, recorded>>

\* The metrics middleware, then the access log's.
MetricsRecord ==
  /\ caller = "metrics"
  /\ copier' = MarkCopier /\ access' = MarkAccess(copier)
  /\ recorded' = copier'.status
  /\ caller' = "log"
  /\ UNCHANGED <<wire, here, outcome, loader, swapOver, released>>

AccessLog ==
  /\ caller = "log"
  /\ access' = MarkAccess(access)
  /\ caller' = "over"
  /\ UNCHANGED <<wire, copier, here, outcome, loader, swapOver, released, recorded>>

-----------------------------------------------------------------------------
\* loadingWriter.start.  Each frame is written under writeMu, unless released.
\* Mutant: released is not looked at.
LoaderSendsAlways(frame) == wire' = Sent(frame)
LoaderSends(frame) == wire' = IF released THEN wire ELSE Sent(frame)

\* A tick sends dots, a queue position or a remark, the latter in chunks with
\* pauses that watch the client but not the end of the load.
LoaderTick ==
  /\ loader \in {"loop", "text"}
  /\ LoaderSends("chunk")
  /\ loader' \in {"loop", "text"}
  /\ UNCHANGED <<copier, access, here, caller, outcome, swapOver, released, recorded>>

LoaderEnds ==
  /\ loader = "loop" /\ swapOver
  /\ loader' = IF here THEN "cleanup" ELSE "exited"
  /\ UNCHANGED <<writerVars, here, caller, outcome, swapOver, released, recorded>>

LoaderCleansUp ==
  /\ loader = "cleanup"
  /\ LoaderSends("done")
  /\ loader' = "exited"
  /\ UNCHANGED <<copier, access, here, caller, outcome, swapOver, released, recorded>>

Next ==
  \/ ClientLeaves \/ Admitted \/ FramesError \/ Releases \/ Answers \/ MetricsRecord \/ AccessLog
  \/ \E what \in {"granted", "refused", "shutdown", "gone"} : Receives(what)
  \/ LoaderTick \/ LoaderEnds \/ LoaderCleansUp

Spec == Init /\ [][Next]_loadVars

-----------------------------------------------------------------------------
Frames(kinds) == {i \in DOMAIN wire : wire[i] \in kinds}
Heads == Frames(Statuses \union {OK, Refusal, BadGateway})

\* Once the writer is reclaimed the loading goroutine writes no more: nothing of
\* its own comes between or behind what the handler sends.
NoStrayWrites ==
  \A i \in Frames({"reclaimed"}) : \A j \in Frames({"chunk", "done"}) : j < i

\* An error of ours reaches a client that waits for it, exactly once, and in the
\* form its answer still can have: in the stream if there is one, else as a status
\* with its body and nothing more.
ErrorToldOnce ==
  (caller = "over" /\ outcome \in {"refused", "shutdown"}) =>
    IF Loading THEN (\E i \in DOMAIN wire : Frames({"error"}) = {i}) /\ Frames({"body"}) = {}
               ELSE wire = <<Refusal, "body">>

\* The first status is the only one, and both logs have that one; the sentinel
\* is for answers that never started.
StatusIsTrue ==
  /\ \A i \in Heads : i = 1
  /\ caller = "over" =>
       IF Heads # {} THEN recorded = wire[1] /\ access.status = wire[1]
                     ELSE /\ outcome \in {"gone", "granted"}
                          /\ outcome = "gone" => recorded = ClientClosed
                          /\ recorded = ClientClosed => access.status = ClientClosed

ResponseIsSound == NoStrayWrites /\ ErrorToldOnce /\ StatusIsTrue
=============================================================================
