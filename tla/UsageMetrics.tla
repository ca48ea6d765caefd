----------------------------- MODULE UsageMetrics -----------------------------
(***************************************************************************)
(* How a metered request is recorded.  CreateMetricsMiddleware             *)
(* (internal/server/metrics_middleware.go) puts a responseBodyCopier       *)
(* between the handler and the client; when the handler has returned,      *)
(* record (metrics.go) reads the tokens that the body reports and keeps    *)
(* what the route allows to keep.  A body is a sequence of parts, each one *)
(* event of a stream or one element of a JSON body; Absent is a field that *)
(* is not there.                                                           *)
(***************************************************************************)
EXTENDS Integers, Sequences, FiniteSets

CONSTANTS AnswerKinds, \* kinds of answer: content type, encoding and masks
          Reports,     \* what one part of a body can say
          MaxParts

VARIABLES meter,       \* how far the request is
          answer,      \* its kind
          recorder,      \* responseBodyCopier: wroteHeader, status, body
          client,      \* what the client has: status and body
          clientGone,
          entry        \* the entry that was recorded, or NoEntry

usageVars == <<meter, answer, recorder, client, clientGone, entry>>

Absent == -1
ClientClosed == 499
NoEntry == [status |-> 0]
NoUsage == [in |-> Absent, out |-> Absent, cached |-> Absent, rate |-> FALSE]
NoTimings == [in |-> Absent]
NoMetrics == [draft |-> Absent, rate |-> FALSE]

Valid(part) == part.kind # "noise"
OrZero(n) == IF n = Absent THEN 0 ELSE n

-----------------------------------------------------------------------------
\* extractUsageTokens: not ok when there is no count at all.
UsageOk(usage) == usage.in # Absent \/ usage.out # Absent \/ usage.cached # Absent

\* processStreamingResponse: what is accumulated over the events.
Nothing == [in |-> 0, out |-> 0, cached |-> Absent, usage |-> NoUsage, timings |-> NoTimings,
            metrics |-> NoMetrics, any |-> FALSE]

AddUsage(seen, usage) ==
  IF ~UsageOk(usage) THEN seen
  ELSE [seen EXCEPT !.any = TRUE, !.usage = usage,
                    !.in = IF usage.in > 0 THEN usage.in ELSE @,
                    !.out = IF usage.out > 0 THEN usage.out ELSE @,
                    !.cached = IF usage.cached >= 0 THEN usage.cached ELSE @]

AddEvent(seen, part) ==
  LET u == AddUsage(seen, part.usage)
      t == IF part.timings = NoTimings THEN u ELSE [u EXCEPT !.timings = part.timings, !.any = TRUE]
  IN IF part.metrics = NoMetrics THEN t ELSE [t EXCEPT !.metrics = part.metrics, !.any = TRUE]

\* The lines of the body one after another; one that is no event is skipped.
Seen(body) ==
  LET seen[n \in 0..Len(body)] ==
        IF n = 0 THEN Nothing
        ELSE IF Valid(body[n]) THEN AddEvent(seen[n - 1], body[n]) ELSE seen[n - 1]
  IN seen
Scanned(body) == Seen(body)[Len(body)]

\* buildMetrics: timings take the place of the counts; a rate is where it is from.
BuildMetrics(seen) ==
  LET timed == seen.timings # NoTimings
      t == seen.timings
  IN [in |-> IF timed THEN t.in ELSE seen.in,
      out |-> IF timed THEN t.out ELSE seen.out,
      cached |-> IF timed /\ t.cached # Absent THEN t.cached ELSE seen.cached,
      draft |-> IF seen.metrics.draft # Absent THEN seen.metrics.draft
                ELSE IF timed THEN t.draft ELSE Absent,
      rate |-> IF seen.metrics.rate THEN "metrics" ELSE IF timed THEN "timings"
               ELSE IF seen.usage.rate THEN "usage" ELSE "none"]
NoTokens == [in |-> 0, out |-> 0, cached |-> 0, draft |-> 0, rate |-> "none"]

\* The three ways record reads a body.
Streamed(body) ==
  LET seen == Scanned(body) IN IF seen.any THEN BuildMetrics(seen) ELSE NoTokens
Parsed(body, infill) ==
  IF body = <<>> \/ \E i \in DOMAIN body : ~Valid(body[i]) THEN NoTokens
  ELSE IF ~infill /\ Len(body) > 1 THEN NoTokens
  ELSE LET last == body[Len(body)]
           plain == Len(body) = 1
           usage == IF plain THEN last.usage ELSE NoUsage
           metrics == IF plain THEN last.metrics ELSE NoMetrics
           seen == [Nothing EXCEPT !.in = OrZero(usage.in), !.out = OrZero(usage.out),
                                   !.cached = usage.cached, !.usage = usage,
                                   !.timings = last.timings, !.metrics = metrics]
       IN IF <<usage, last.timings, metrics>> = <<NoUsage, NoTimings, NoMetrics>> THEN NoTokens
          ELSE BuildMetrics(seen)

Tokens(body) ==
  IF answer.type = "stream" THEN Streamed(body) ELSE Parsed(body, answer.type = "infill")

\* storeCapture: the masks of the route, and the response only if it is given.
Capture(body) ==
  IF ~answer.captures THEN [kept |-> FALSE]
  ELSE [kept |-> TRUE, request |-> answer.keepRequest,
        response |-> IF answer.keepResponse THEN body ELSE <<>>]
NoCapture == [kept |-> FALSE]

-----------------------------------------------------------------------------
Init ==
  /\ meter = "start" /\ answer = [type |-> "none"]
  /\ recorder = [wroteHeader |-> FALSE, status |-> 200, body |-> <<>>]
  /\ client = [status |-> 0, body |-> <<>>]
  /\ clientGone = FALSE /\ entry = NoEntry

\* CreateMetricsMiddleware: a request of another method or route passes by.
Arrive(a) ==
  /\ meter = "start"
  /\ answer' = a
  /\ meter' = IF a.metered THEN "handling" ELSE "unmetered"
  /\ UNCHANGED <<recorder, client, clientGone, entry>>

\* WriteHeader: the first counts; net/http lets an interim status pass and
\* sends 200 with the body if no other status was written.
WriteHeader(c, code) == IF c.wroteHeader THEN c ELSE [c EXCEPT !.wroteHeader = TRUE, !.status = code]

HandlerWritesHeader(code) ==
  /\ meter = "handling"
  /\ recorder' = WriteHeader(recorder, code)
  /\ client' = IF recorder.wroteHeader \/ code = 100 \/ client.status # 0 THEN client
               ELSE [client EXCEPT !.status = code]
  /\ UNCHANGED <<meter, answer, clientGone, entry>>

\* Write: to the client and to the buffer, after an upgrade to the client only.
HandlerWrites(part) ==
  /\ meter = "handling" /\ Len(client.body) < MaxParts
  /\ LET c == WriteHeader(recorder, 200)
     IN recorder' = IF c.status = 101 THEN c ELSE [c EXCEPT !.body = Append(@, part)]
  /\ client' = [status |-> IF client.status = 0 THEN 200 ELSE client.status,
                body |-> Append(client.body, part)]
  /\ UNCHANGED <<meter, answer, clientGone, entry>>

HandlerFlushes ==
  /\ meter = "handling"
  /\ recorder' = WriteHeader(recorder, 200)
  /\ client' = [client EXCEPT !.status = IF @ = 0 THEN 200 ELSE @]
  /\ UNCHANGED <<meter, answer, clientGone, entry>>

ClientLeaves ==
  /\ meter = "handling" /\ ~clientGone
  /\ clientGone' = TRUE
  /\ UNCHANGED <<meter, answer, recorder, client, entry>>

\* The handler returns: MarkClientClosed, and net/http commits its own 200.
HandlerReturns ==
  /\ meter = "handling"
  /\ meter' = "returned"
  /\ recorder' = IF ~recorder.wroteHeader /\ clientGone THEN [recorder EXCEPT !.status = ClientClosed] ELSE recorder
  /\ client' = IF clientGone THEN client ELSE [client EXCEPT !.status = IF @ = 0 THEN 200 ELSE @]
  /\ UNCHANGED <<answer, clientGone, entry>>

\* record: the store may refuse the row, and then there is nothing else.
Record ==
  /\ meter = "returned"
  /\ LET recorded(error, tokens, capture) ==
           [status |-> recorder.status, error |-> error, tokens |-> tokens, capture |-> capture]
         readable == answer.encoding # "broken"
         complete ==
           CASE recorder.status = ClientClosed -> recorded("disconnected", NoTokens, NoCapture)
             [] recorder.status \notin {200, ClientClosed} ->
                  recorded(IF readable \/ recorder.body = <<>> THEN "upstream" ELSE "decode", NoTokens, Capture(<<>>))
             [] recorder.status = 200 /\ recorder.body = <<>> -> recorded("", NoTokens, NoCapture)
             [] recorder.status = 200 /\ recorder.body # <<>> /\ ~readable -> recorded("decode", NoTokens, NoCapture)
             [] OTHER -> recorded("", Tokens(recorder.body), Capture(recorder.body))
     IN entry' = complete \/ UNCHANGED entry
  /\ meter' = "recorded"
  /\ UNCHANGED <<answer, recorder, client, clientGone>>

Next ==
  \/ \E a \in AnswerKinds : Arrive(a)
  \/ \E code \in {100, 101, 200, 500} : HandlerWritesHeader(code)
  \/ \E part \in Reports : HandlerWrites(part)
  \/ HandlerFlushes \/ ClientLeaves \/ HandlerReturns \/ Record

Spec == Init /\ [][Next]_usageVars

-----------------------------------------------------------------------------
\* What a stream reports of a count: the last event that gives one.
Latest(events, holds(_)) == {i \in events : holds(i) /\ \A j \in events : holds(j) => j <= i}
ValueOf(events, holds(_), value(_), default) ==
  LET last == Latest(events, holds) IN IF last = {} THEN default ELSE value(CHOOSE i \in last : TRUE)

ReportedBy(body) ==
  LET events == {i \in DOMAIN body : Valid(body[i])}
      used == {i \in events : UsageOk(body[i].usage)}
      timings == ValueOf(events, LAMBDA i : body[i].timings # NoTimings, LAMBDA i : body[i].timings, NoTimings)
      metrics == ValueOf(events, LAMBDA i : body[i].metrics # NoMetrics, LAMBDA i : body[i].metrics, NoMetrics)
      usage == ValueOf(used, LAMBDA i : TRUE, LAMBDA i : body[i].usage, NoUsage)
      cached == ValueOf(used, LAMBDA i : body[i].usage.cached >= 0, LAMBDA i : body[i].usage.cached, Absent)
  IN IF timings # NoTimings
       THEN [in |-> timings.in, out |-> timings.out,
             cached |-> IF timings.cached # Absent THEN timings.cached ELSE cached,
             draft |-> IF metrics.draft # Absent THEN metrics.draft ELSE timings.draft,
             rate |-> IF metrics.rate THEN "metrics" ELSE "timings"]
       ELSE [in |-> ValueOf(used, LAMBDA i : body[i].usage.in > 0, LAMBDA i : body[i].usage.in, 0),
             out |-> ValueOf(used, LAMBDA i : body[i].usage.out > 0, LAMBDA i : body[i].usage.out, 0),
             cached |-> cached, draft |-> metrics.draft,
             rate |-> IF metrics.rate THEN "metrics" ELSE IF usage.rate THEN "usage" ELSE "none"]

Interim == recorder.status = 100

\* However an answer comes in, part by part, and whoever leaves meanwhile: the
\* entry has the status the client got, the last count of each kind that the
\* answer reported, the same for a stream as for a body that says it at once,
\* and a capture shows what the client got, of an answer that succeeded
\* (metrics.go, metrics_middleware.go).  An interim status is set apart: the
\* recorder takes it for the final one.
EntryIsTrue ==
  meter = "recorded" /\ entry # NoEntry /\ ~Interim =>
    /\ entry.status = IF client.status = 0 THEN ClientClosed ELSE client.status
    /\ (entry.error = "") <=> (client.status = 200 /\ (client.body = <<>> \/ answer.encoding # "broken"))
    /\ (entry.capture.kept => answer.captures /\ client.status # 0)
    /\ (entry.capture.kept /\ entry.capture.response # <<>> =>
          client.status = 200 /\ answer.keepResponse /\ entry.capture.response = client.body)
    /\ (answer.type = "stream" /\ entry.tokens # NoTokens => entry.tokens = ReportedBy(client.body))
    /\ (Len(client.body) = 1 /\ entry.error = "" /\ Valid(client.body[1]) =>
          (UsageOk(client.body[1].usage) => entry.tokens = ReportedBy(client.body)))
=============================================================================
