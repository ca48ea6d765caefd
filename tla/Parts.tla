-------------------------------- MODULE Parts --------------------------------
(***************************************************************************)
(* Parts of the program that share no state with one another, side by      *)
(* side: at any time one of them runs, "part", and the others stay as they *)
(* are.  Each is an instance of its own module, with its constants open.   *)
(***************************************************************************)
EXTENDS Integers, Sequences, FiniteSets

CONSTANTS LogCapacity, LogMaxWrite, LogMaxTotal, LogMaxWriters,     \* LogStream
          LogChannel, LogInbox, LogSend,
          MonitorRuns, MonitorSamples, MonitorConfigs,              \* PerfMonitor
          Peers, Offers, FullNames, ClientOf, NoClient, Asks,       \* PeerRouter
          Statuses, Refusal, LeftStatus,                            \* LoadingResponse
          Services, Lookups, Refreshes, MaxProbes,                  \* CapabilityCache
          WolRequests, WakePosts, MaxStreams,                       \* WolProxy
          Dials, MaxClients,                                        \* TailcatClient
          KubePods, KubeFaults, KubeAttempts,                       \* Kubeswap
          PipeCalls, WebSockets, Ignoring, PipeLimit, PipePins,     \* RequestPipeline
          FirstProfile, Selectors, Spillover, LocalModel,
          PeerModel, RoundRobin,
          BodyRequests, BodyPins, SelectorOf, RealName,             \* RequestBody
          UseModelName, Filters, Exposed,
          Metered, CaptureSizes, CaptureBytes, MaxMetrics, Monitors, \* Activity
          AnswerKinds, Reports, MaxParts                            \* UsageMetrics

VARIABLES part,
          data, head, size, total, writing, broadcastCh, dropped, hand, told,
          lost, reader, inbox, sent, seen, blind,
          monConf, monLive, monRun, monUpdate, stopped, sampler, collector,
          ring, pushed, samples,
          asked, late, cut, peerFlag, peerCut, peerShut, graceful, transports,
          clientClosed,
          wire, copier, access, here, caller, outcome, loader, swapOver,
          released, recorded,
          row, memo, probing, lookup, refresh, found, due,
          requireConfirm, wolStatus, wakeAge, lastWake, sseBody, monitor,
          health, wolClosed, upstreamUp, packets, wolCall,
          current, usedClient, retired, pending, tcClosed, dial, tcClient,
          closing,
          strict, dep, svc, pods, serve, poll, state, stopCh, crashCh,
          signalled, del, faults,
          profile, slots, reserved, rr, running, call,
          came, req, bodyAt, named, ctxModel, checked,
          rows, lastId, inMemory, captures, era, storeOf, shut, record,
          meter, answer, recorder, client, clientGone, entry

logsVars == <<data, head, size, total, writing, broadcastCh, dropped, hand, told,
  lost, reader, inbox, sent, seen, blind>>
monitorVars == <<monConf, monLive, monRun, monUpdate, stopped, sampler, collector,
  ring, pushed, samples>>
peersVars == <<asked, late, cut, peerFlag, peerCut, peerShut, graceful, transports,
  clientClosed>>
loadingVars == <<wire, copier, access, here, caller, outcome, loader, swapOver,
  released, recorded>>
capabilitiesVars == <<row, memo, probing, lookup, refresh, found, due>>
wolVars == <<requireConfirm, wolStatus, wakeAge, lastWake, sseBody, monitor, health,
  wolClosed, upstreamUp, packets, wolCall>>
tailcatVars == <<current, usedClient, retired, pending, tcClosed, dial, tcClient,
  closing>>
kubeVars == <<strict, dep, svc, pods, serve, poll, state, stopCh, crashCh,
  signalled, del, faults>>
pipelineVars == <<profile, slots, reserved, rr, running, call>>
bodiesVars == <<came, req, bodyAt, named, ctxModel, checked>>
activityVars == <<rows, lastId, inMemory, captures, era, storeOf, shut, record>>
usageVars == <<meter, answer, recorder, client, clientGone, entry>>

partsVars == <<part, logsVars, monitorVars, peersVars, loadingVars, capabilitiesVars, wolVars,
               tailcatVars, kubeVars, pipelineVars, bodiesVars, activityVars, usageVars>>

\* The buffer of a log has room for a byte.
ASSUME LogAssumption == LogCapacity \in Nat \ {0}

\* A configuration of the monitor: any capacity may be asked for.
ASSUME ConfigsAssumption == MonitorConfigs \subseteq [capacity : Int, disabled : BOOLEAN]

\* Peers are numbered in the order in which the configuration names them.
ASSUME PeersAssumption == Peers \subseteq Nat

\* A frame of a stream is no status line.
ASSUME StatusAssumption ==
  {"chunk", "done", "error", "body", "reclaimed"} \cap (Statuses \union {Refusal, LeftStatus}) = {}

\* A peer has one client to start with, and finitely many dial at once.
ASSUME DialsAssumption == IsFiniteSet(Dials) /\ MaxClients \in Nat \ {0}

\* Requests are finitely many at a time; the targets of a selector are names of
\* models, as loading a configuration checks, and no selector has an empty name.
ASSUME PipeAssumption ==
  /\ IsFiniteSet(DOMAIN PipeCalls) /\ PipeLimit \in Nat /\ RoundRobin \in Nat \ {0}
  /\ Spillover \in Nat
  /\ "" \notin DOMAIN Selectors
  /\ \A s \in DOMAIN Selectors :
       Selectors[s].targets \in Seq(DOMAIN LocalModel \union DOMAIN PeerModel)

\* A request has its fields; no profile pins, and no selector is, the empty name
\* or what stands for a failure; parameters are hard or soft.
ASSUME BodyAssumption ==
  /\ \A r \in BodyRequests : DOMAIN r = {"post", "upload", "ctype", "is", "body", "query", "size",
                                        "tailcat", "form"}
  /\ {"", "error"} \cap (DOMAIN BodyPins \union DOMAIN SelectorOf) = {}
  /\ \A m \in DOMAIN Filters :
       \A raw \in {Filters[m].set} \union {Filters[m].byID[n] : n \in DOMAIN Filters[m].byID} :
         \A e \in DOMAIN raw : e = <<e[1], "hard">> \/ e = <<e[1], "soft">>

\* Finitely many requests are metered; a capture has a size; a store in memory keeps
\* a row at least, as newMetricsMonitor sees to, and there is a server to start with.
ASSUME ActivityAssumption ==
  /\ IsFiniteSet(Metered) /\ CaptureSizes \subseteq Nat /\ CaptureBytes \in Nat
  /\ MaxMetrics \in Nat \ {0} /\ Monitors \in Nat \ {0}

\* Of the upstreams, which count tokens: a count that a part of an answer reports is a
\* natural number, or it is absent.
ASSUME UsageAssumption ==
  \A report \in Reports :
    report.kind = "noise"
    \/ report.usage \in [in : Nat \union {-1}, out : Nat \union {-1}, cached : Nat \union {-1},
                         rate : BOOLEAN]

Log == INSTANCE LogStream WITH Capacity <- LogCapacity, MaxWrite <- LogMaxWrite,
                               MaxTotal <- LogMaxTotal, MaxWriters <- LogMaxWriters,
                               ChannelSize <- LogChannel, InboxSize <- LogInbox,
                               SendSize <- LogSend
Perf == INSTANCE PerfMonitor WITH MaxRuns <- MonitorRuns, MaxSamples <- MonitorSamples,
                                  Configs <- MonitorConfigs
Peer == INSTANCE PeerRouter WITH PeerModelFQN <- FullNames
Load == INSTANCE LoadingResponse WITH ClientClosed <- LeftStatus
Cap == INSTANCE CapabilityCache
Wol == INSTANCE WolProxy
Tc == INSTANCE TailcatClient
Kube == INSTANCE Kubeswap WITH MaxPods <- KubePods, MaxFaults <- KubeFaults,
                               MaxAttempts <- KubeAttempts
Pipe == INSTANCE RequestPipeline WITH Calls <- PipeCalls, Limit <- PipeLimit, Pins <- PipePins
Body == INSTANCE RequestBody WITH Requests <- BodyRequests, Pins <- BodyPins
Act == INSTANCE Activity WITH Records <- Metered, Sizes <- CaptureSizes, MaxBytes <- CaptureBytes,
                              MaxRows <- MaxMetrics, MaxServers <- Monitors
Usage == INSTANCE UsageMetrics

PartsInit ==
  /\ Log!Init /\ Perf!Init /\ Peer!Init /\ Load!Init /\ Cap!Init /\ Wol!Init /\ Tc!Init
  /\ Kube!Init /\ Pipe!Init /\ Body!Init /\ Act!Init /\ Usage!Init

PartsNext ==
  /\ UNCHANGED part
  /\ IF part = "logs" THEN Log!Next ELSE UNCHANGED logsVars
  /\ IF part = "monitor" THEN Perf!Next ELSE UNCHANGED monitorVars
  /\ IF part = "peers" THEN Peer!Next ELSE UNCHANGED peersVars
  /\ IF part = "loading" THEN Load!Next ELSE UNCHANGED loadingVars
  /\ IF part = "capabilities" THEN Cap!Next ELSE UNCHANGED capabilitiesVars
  /\ IF part = "wol" THEN Wol!Next ELSE UNCHANGED wolVars
  /\ IF part = "tailcat" THEN Tc!Next ELSE UNCHANGED tailcatVars
  /\ IF part = "kube" THEN Kube!Next ELSE UNCHANGED kubeVars
  /\ IF part = "pipeline" THEN Pipe!Next ELSE UNCHANGED pipelineVars
  /\ IF part = "bodies" THEN Body!Next ELSE UNCHANGED bodiesVars
  /\ IF part = "activity" THEN Act!Next ELSE UNCHANGED activityVars
  /\ IF part = "usage" THEN Usage!Next ELSE UNCHANGED usageVars

PartsSpec == PartsInit /\ [][PartsNext]_partsVars

-----------------------------------------------------------------------------
\* Log stream: the history is the last bytes written, bytes that were dropped
\* are reported once, and a browser's stream has no gap (logging.go, apigroup.go).
StreamKeepsLogs == part = "logs" => Log!HistoryIsSuffix /\ Log!LogsAccounted

\* Performance monitor: a stopped one samples no more, at most one collector
\* goes on, and the ring shows the newest samples (monitor.go, ring/buffer.go).
SamplingIsSound == part = "monitor" => Perf!SamplingFollowsRuns /\ Perf!RingHasNewest

\* Peer router: a graceful shutdown spares whom it waited for, and closes each
\* Tailcat client once (peer.go).
PeerShutdownClean == part = "peers" => Peer!PeerShutdownClean

\* Loading stream: nothing is written behind the handler's back, errors reach
\* the client once, both logs have the status that was sent (loading.go, base.go).
ResponseIsSound == part = "loading" => Load!ResponseIsSound

\* Capability cache: the row has what the last stored probe found (service.go).
StoreHasLastProbe == part = "capabilities" => Cap!StoreHasLastProbe

\* Wake-on-LAN proxy: status, wake and stream agree, whichever of the monitor,
\* the health check and the requests came first (wol-proxy.go).
WakeIsSound == part = "wol" => Wol!WakeIsSound

\* Tailcat transport: a client that was replaced is closed once nobody uses it,
\* and Close closes them all (transport.go).
ClientsAreRetired == part = "tailcat" => Tc!ClientsAreRetired

\* Request pipeline: what a request takes it gives back once, choices made at the
\* same time are fair, and the name and the parameters of a request survive every
\* rewriting (selector.go, concurrency.go, http.go, filters.go).
PipelineIsSound ==
  /\ part = "pipeline" => Pipe!PipelineIsSound
  /\ part = "bodies" => Body!BodiesAreSound

\* Kubernetes launcher: what serve put there stays, a crash and a deletion
\* leave nothing behind (serve.go, manage.go).
BackendIsOwn == part = "kube" => Kube!BackendIsOwn

\* Activity log: the cache of captures keeps its books, a row shows its own request's
\* capture, a store in memory has the newest rows; an entry says what the client got
\* and the answer reported (metrics.go, cache.go).
ActivityConsistent ==
  /\ part = "activity" => Act!ActivityConsistent
  /\ part = "usage" => Usage!EntryIsTrue
=============================================================================
