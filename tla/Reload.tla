-------------------------------- MODULE Reload --------------------------------
(***************************************************************************)
(* The main program (llama-swap.go) with what it starts, replaces and      *)
(* stops: servers (internal/server/server.go), each with its own local     *)
(* router and models, the stores behind them, the watcher of the           *)
(* configuration (internal/watcher), and the pause state all servers share *)
(* (internal/server/pause.go).  A router is reduced to one model and to    *)
(* what module Router says of it: a swap passes the start gate once, an    *)
(* unload or a shutdown ends swaps and processes and refuses who waits.    *)
(***************************************************************************)
EXTENDS Naturals

CONSTANTS Requests,      \* requests for a local model, each made once
          MaxServers,    \* servers built in one run (bound)
          MaxEdits,      \* edits of the configuration (bound)
          Broken,        \* versions of the configuration that do not load
          StorePath,     \* the store path each version names
          Preloads       \* versions with hooks.on_startup.preload

\* There is room for the server the program starts with.
ASSUME ServersAssumption == MaxServers \in Nat \ {0}

Servers == 1..MaxServers
Versions == 0..MaxEdits
Reloaders == {"watcher", "sighup"}
Preload == [s \in Servers |-> <<"preload", s>>]
Waiters == Requests \union {Preload[s] : s \in Servers}

VARIABLES disk,          \* version of the configuration on disk
          prev,          \* the watcher's last snapshot; "cur" while it reloads
          reload,        \* where each reloader is, with what it has loaded
          reloading,     \* the guard against overlapping reloads
          missed,        \* a change the watcher saw was turned away by the guard, or
                         \* what was loaded since could not be built (history)
          server,        \* life of each server, its configuration and store
          active,        \* activeSrv
          closed,        \* stores closed; a store is named by its first server
          request,       \* where each request is, and the server it went to
          proc,          \* the model of each server
          paused,
          pause,         \* the handler that holds pause.transition, and its server
          cleared,       \* servers with nothing to stop since a pause (history)
          main           \* the signal handler, and what it captured

vars == <<disk, prev, reload, reloading, missed, server, active, closed, request,
          proc, paused, pause, cleared, main>>
reloadVars == <<prev, reload, reloading, missed>>
serverVars == <<server, active, closed>>
pauseVars == <<paused, pause, cleared>>

Idle == [at |-> "idle", conf |-> 0, new |-> 0, old |-> 0]
NoServer == [life |-> "none", conf |-> 0, store |-> 0]

Init ==
  /\ disk = 0 /\ prev = 0
  /\ reload = [r \in Reloaders |-> Idle]
  /\ reloading = FALSE /\ missed = FALSE
  /\ server = [s \in Servers |-> IF s = 1 THEN [life |-> "up", conf |-> 0, store |-> 1]
                                          ELSE NoServer]
  /\ active = 1 /\ closed = {}
  /\ request = [q \in Waiters |-> IF q = Preload[1] /\ 0 \in Preloads
                                    THEN [at |-> "arrived", srv |-> 1]
                                    ELSE [at |-> "none", srv |-> 0]]
  /\ proc = [s \in Servers |-> "stopped"]
  /\ paused = FALSE /\ pause = [at |-> "none", srv |-> 0] /\ cleared = {}
  /\ main = [at |-> "running", srv |-> 0, store |-> 0]

Running == main.at # "exited"
Accepting == main.at = "running"

-----------------------------------------------------------------------------
\* Requests and routers.

\* The http.Server's handler reads activeSrv once for each request.
Arrive(q) ==
  /\ Accepting
  /\ request[q].at = "none" /\ q \in Requests
  /\ request' = [request EXCEPT ![q] = [at |-> "arrived", srv |-> active]]
  /\ UNCHANGED <<disk, reloadVars, serverVars, proc, pauseVars, main>>

\* pause.isPaused; all servers are given the same pauseState.
\* Mutant: only the first server knows that it is paused.
IsPausedAtFirst(s) == paused /\ s = 1
IsPaused(s) == paused

\* serveLocal and startPreload: refused while paused, else up to the router,
\* which refuses after its shutdown.
Dispatch(q) ==
  /\ Running
  /\ request[q].at = "arrived"
  /\ request' = [request EXCEPT ![q].at =
       IF IsPaused(request[q].srv) \/ server[request[q].srv].life # "up" THEN "over" ELSE "waiting"]
  /\ UNCHANGED <<disk, reloadVars, serverVars, proc, pauseVars, main>>

WaitersOf(s) == {q \in Waiters : request[q] = [at |-> "waiting", srv |-> s]}
RefuseAll(s) ==
  [q \in Waiters |-> IF q \in WaitersOf(s) THEN [request[q] EXCEPT !.at = "over"]
                                           ELSE request[q]]

\* A swap begins with the start gate.
StartSwap(s) ==
  /\ Running
  /\ proc[s] = "stopped" /\ WaitersOf(s) # {} /\ server[s].life = "up"
  /\ IF IsPaused(s)
       THEN request' = RefuseAll(s) /\ UNCHANGED proc
       ELSE proc' = [proc EXCEPT ![s] = "starting"] /\ UNCHANGED request
  /\ UNCHANGED <<disk, reloadVars, serverVars, pauseVars, main>>

SwapDone(s) ==
  /\ Running
  /\ proc[s] = "starting"
  /\ proc' = [proc EXCEPT ![s] = "ready"]
  /\ UNCHANGED <<disk, reloadVars, serverVars, request, pauseVars, main>>

Serve(q) ==
  /\ Running
  /\ request[q].at = "waiting" /\ proc[request[q].srv] = "ready"
  /\ request' = [request EXCEPT ![q].at = "over"]
  /\ UNCHANGED <<disk, reloadVars, serverVars, proc, pauseVars, main>>

-----------------------------------------------------------------------------
\* Pause and resume.  A handler belongs to the server its request went to.
PauseBegins ==
  /\ Accepting
  /\ pause.at = "none"
  /\ pause' = [at |-> "arrived", srv |-> active]
  /\ UNCHANGED <<disk, reloadVars, serverVars, request, proc, paused, cleared, main>>

SetPaused ==
  /\ Running
  /\ pause.at = "arrived"
  /\ paused' = TRUE
  /\ pause' = [pause EXCEPT !.at = "unload"]
  /\ UNCHANGED <<disk, reloadVars, serverVars, request, proc, cleared, main>>

\* local.Unload(0), up to its return.
PauseUnloads ==
  /\ Running
  /\ pause.at = "unload"
  /\ proc' = [proc EXCEPT ![pause.srv] = "stopped"]
  /\ request' = RefuseAll(pause.srv)
  /\ pause' = [at |-> "paused", srv |-> 0]
  /\ cleared' = cleared \union {pause.srv}
  /\ UNCHANGED <<disk, reloadVars, serverVars, paused, main>>

Resume ==
  /\ Running
  /\ pause.at = "paused"
  /\ paused' = FALSE
  /\ pause' = [at |-> "resumed", srv |-> 0]
  /\ cleared' = {}
  /\ UNCHANGED <<disk, reloadVars, serverVars, request, proc, main>>

-----------------------------------------------------------------------------
\* Edits, triggers and reloads.
Edit ==
  /\ Running /\ disk < MaxEdits
  /\ disk' = disk + 1
  /\ UNCHANGED <<reloadVars, serverVars, request, proc, pauseVars, main>>

\* The head of reload: the guard.  A reload it turns away is not repeated.
\* Mutant: reloads may overlap.
EnterUnguarded(r) == reloading' = TRUE /\ reload' = [reload EXCEPT ![r].at = "load"]
EnterReload(r) ==
  IF reloading
    THEN UNCHANGED <<reload, reloading>>
    ELSE reloading' = TRUE /\ reload' = [reload EXCEPT ![r].at = "load"]

\* Watcher.Run: a tick stats the file and calls OnChange, which is reload, in
\* the same goroutine; what it compares with next is what it saw before that.
WatcherTick ==
  /\ main.at = "running"
  /\ reload["watcher"] = Idle
  /\ prev # disk
  /\ prev' = disk
  /\ EnterReload("watcher")
  /\ missed' = (missed \/ reloading)
  /\ UNCHANGED <<disk, serverVars, request, proc, pauseVars, main>>

\* The signal loop starts reload in a goroutine of its own.
Sighup ==
  /\ main.at = "running"
  /\ reload["sighup"] = Idle
  /\ EnterReload("sighup")
  /\ UNCHANGED <<disk, prev, missed, serverVars, request, proc, pauseVars, main>>

LeaveReload(r) == reload' = [reload EXCEPT ![r] = Idle] /\ reloading' = FALSE

LoadConfig(r) ==
  /\ Running
  /\ reload[r].at = "load"
  /\ IF disk \in Broken
       THEN LeaveReload(r) /\ UNCHANGED missed
       ELSE /\ reload' = [reload EXCEPT ![r] = [Idle EXCEPT !.at = "build", !.conf = disk]]
            /\ missed' = FALSE
            /\ UNCHANGED reloading
  /\ UNCHANGED <<disk, prev, serverVars, request, proc, pauseVars, main>>

\* A new store if the path changed, and server.New, which preloads.
BuildServer(r) ==
  /\ Running
  /\ reload[r].at = "build"
  /\ \E s \in Servers :
       LET conf == reload[r].conf
           same == StorePath[conf] = StorePath[server[active].conf]
       IN /\ server[s].life = "none" /\ (s = 1 \/ server[s - 1].life # "none")
          /\ server' = [server EXCEPT ![s] =
               [life |-> "up", conf |-> conf,
                store |-> IF same THEN server[active].store ELSE s]]
          /\ request' = IF conf \in Preloads
                          THEN [request EXCEPT ![Preload[s]] = [at |-> "arrived", srv |-> s]]
                          ELSE request
          /\ cleared' = IF paused THEN cleared \union {s} ELSE cleared
          /\ reload' = [reload EXCEPT ![r].at = "swap", ![r].new = s]
  /\ UNCHANGED <<disk, prev, reloading, missed, active, closed, proc, paused, pause, main>>

BuildFails(r) ==
  /\ Running
  /\ reload[r].at = "build"
  /\ LeaveReload(r)
  /\ missed' = TRUE
  /\ UNCHANGED <<disk, prev, serverVars, request, proc, pauseVars, main>>

\* The switch under activeMu; log settings and the monitor's configuration follow.
Activate(r) ==
  /\ Running
  /\ reload[r].at = "swap"
  /\ active' = reload[r].new
  /\ reload' = [reload EXCEPT ![r].at = "retire", ![r].old = active]
  /\ UNCHANGED <<disk, prev, reloading, missed, server, closed, request, proc,
                 pauseVars, main>>

\* Server.Shutdown: whoever comes second returns at once.
ShutdownBegins(s) == server' = [server EXCEPT ![s].life = "stopping"]

Retire(r) ==
  /\ Running
  /\ reload[r].at = "retire"
  /\ IF server[reload[r].old].life = "up"
       THEN ShutdownBegins(reload[r].old) /\ reload' = [reload EXCEPT ![r].at = "stopping"]
       ELSE UNCHANGED server /\ reload' = [reload EXCEPT ![r].at = "close"]
  /\ UNCHANGED <<disk, prev, reloading, missed, active, closed, request, proc,
                 pauseVars, main>>

\* The routers of s have stopped everything.
ShutdownEnds(s) ==
  /\ server[s].life = "stopping"
  /\ server' = [server EXCEPT ![s].life = "down"]
  /\ proc' = [proc EXCEPT ![s] = "stopped"]
  /\ request' = RefuseAll(s)

RetireEnds(r) ==
  /\ Running
  /\ reload[r].at = "stopping"
  /\ ShutdownEnds(reload[r].old)
  /\ reload' = [reload EXCEPT ![r].at = "close"]
  /\ UNCHANGED <<disk, prev, reloading, missed, active, closed, pauseVars, main>>

\* Mutant: also a store that the new server goes on with.
AlwaysLeft(old, new) == {old}
StoreLeft(old, new) == {old} \ {new}

CloseOldStore(r) ==
  /\ Running
  /\ reload[r].at = "close"
  /\ closed' = closed \union StoreLeft(server[reload[r].old].store, server[reload[r].new].store)
  /\ LeaveReload(r)
  /\ UNCHANGED <<disk, prev, missed, server, active, request, proc, pauseVars, main>>

-----------------------------------------------------------------------------
\* SIGINT, SIGTERM: the watcher's context ends, active server and store are
\* read once, streams are closed, and the listener drains or times out.
Sigterm ==
  /\ main.at = "running"
  /\ main' = [at |-> "drain", srv |-> active, store |-> server[active].store]
  /\ UNCHANGED <<disk, reloadVars, serverVars, request, proc, pauseVars>>

MainShutsDown ==
  /\ main.at = "drain"
  /\ IF server[main.srv].life = "up"
       THEN ShutdownBegins(main.srv) /\ main' = [main EXCEPT !.at = "stopping"]
       ELSE UNCHANGED server /\ main' = [main EXCEPT !.at = "close"]
  /\ UNCHANGED <<disk, reloadVars, active, closed, request, proc, pauseVars>>

MainStopped ==
  /\ main.at = "stopping"
  /\ ShutdownEnds(main.srv)
  /\ main' = [main EXCEPT !.at = "close"]
  /\ UNCHANGED <<disk, reloadVars, active, closed, pauseVars>>

Exit ==
  /\ main.at = "close"
  /\ closed' = closed \union {main.store}
  /\ main' = [main EXCEPT !.at = "exited"]
  /\ UNCHANGED <<disk, reloadVars, server, active, request, proc, pauseVars>>

Next ==
  \/ \E q \in Waiters : Arrive(q) \/ Dispatch(q) \/ Serve(q)
  \/ \E s \in Servers : StartSwap(s) \/ SwapDone(s)
  \/ PauseBegins \/ SetPaused \/ PauseUnloads \/ Resume
  \/ Edit \/ WatcherTick \/ Sighup
  \/ \E r \in Reloaders :
       \/ LoadConfig(r) \/ BuildServer(r) \/ BuildFails(r) \/ Activate(r)
       \/ Retire(r) \/ RetireEnds(r) \/ CloseOldStore(r)
  \/ Sigterm \/ MainShutsDown \/ MainStopped \/ Exit

Spec == Init /\ [][Next]_vars

-----------------------------------------------------------------------------
\* "no model can start once it returns" (handleAPIPause): on every server the
\* pause has unloaded, and on every server built since, also by a reload while
\* paused, nothing runs until a resume.
PauseHolds == paused => \A s \in cleared : proc[s] = "stopped"

\* Until the program is asked to end, a server that is up has its store: a
\* reload closes a store only when the last server that uses it is down.
StoresOutliveServers ==
  main.at = "running" =>
    \A s \in Servers : server[s].life \in {"up", "stopping"} => server[s].store \notin closed

\* Once the watcher has seen the last edit and no reload is under way, the
\* active server is built from it, unless it does not load, could not be built,
\* or the guard turned the watcher's reload away and nothing was loaded since.
WatcherCatchesUp ==
  (prev = disk /\ ~reloading /\ ~missed /\ disk \notin Broken)
    => server[active].conf = disk

\* "a clean llama-swap shutdown or config reload stops every loaded model"
\* (docs/kb/guides/tools/kubeswap.md:170).
ShutdownStopsModels ==
  main.at = "exited" => \A s \in Servers : proc[s] = "stopped"
=============================================================================
