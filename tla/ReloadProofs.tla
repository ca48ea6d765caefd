------------------------------ MODULE ReloadProofs ------------------------------
(***************************************************************************)
(* The main program for any number of servers, requests, edits and         *)
(* configurations that do not load: what a reload may not take away, what  *)
(* a pause keeps away, and that no edit the watcher has seen is forgotten. *)
(***************************************************************************)
EXTENDS Reload, TLAPS

-----------------------------------------------------------------------------
(* The inductive invariant.                                                *)

Lives == {"none", "up", "stopping", "down"}
ReloadPlaces == {"idle", "load", "build", "swap", "retire", "stopping", "close"}

\* The types of what the argument is about.
TypeOK ==
  /\ disk \in Nat /\ prev \in Nat
  /\ reload \in [Reloaders -> [at : ReloadPlaces, conf : Nat, new : Nat, old : Nat]]
  /\ server \in [Servers -> [life : Lives, conf : Nat, store : Nat]]
  /\ active \in Servers
  /\ proc \in [Servers -> {"stopped", "starting", "ready"}]
  /\ paused \in BOOLEAN
  /\ pause \in [at : {"none", "arrived", "unload", "paused", "resumed"}, srv : Nat]
  /\ main \in [at : {"running", "drain", "stopping", "close", "exited"}, srv : Nat, store : Nat]

\* The guard holds back every other reload.
GuardOK ==
  \A r \in Reloaders : reload[r].at # "idle" =>
     reloading /\ \A q \in Reloaders : reload[q].at # "idle" => q = r

Built(s) == s \in Servers /\ server[s].life # "none"

\* A reload that has built knows its server, one that has switched knows both.
StagesOK ==
  /\ Built(active)
  /\ \A r \in Reloaders :
       /\ reload[r].at = "swap" => Built(reload[r].new) /\ reload[r].new # active
       /\ reload[r].at \in {"retire", "stopping", "close"} =>
            /\ reload[r].new = active
            /\ Built(reload[r].old) /\ reload[r].old # active

\* The life of a server a reload is at.
LifeAt(r) ==
  CASE reload[r].at = "retire"   -> "up"
    [] reload[r].at = "stopping" -> "stopping"
    [] reload[r].at = "close"    -> "down"
    [] OTHER                     -> server[reload[r].old].life

\* Until the program is asked to end, the active server is up; another one
\* lives only while a reload is about to activate it or to take it down.
LivesOK ==
  /\ server[active].life = "up"
  /\ \A r \in Reloaders :
       /\ reload[r].at = "swap" => server[reload[r].new].life = "up"
       /\ reload[r].at \in {"retire", "stopping", "close"} =>
            server[reload[r].old].life = LifeAt(r)
  /\ \A s \in Servers : server[s].life \in {"up", "stopping"} =>
       \/ s = active
       \/ \E r \in Reloaders : \/ reload[r].at = "swap" /\ s = reload[r].new
                               \/ reload[r].at \in {"retire", "stopping"} /\ s = reload[r].old

\* Stores are named by servers that were built, so a new server's is open.
StoresOK ==
  /\ \A s \in Servers : server[s].life # "none" => Built(server[s].store)
  /\ \A c \in closed : Built(c)
  /\ \A s \in Servers : server[s].life \in {"up", "stopping"} => server[s].store \notin closed

\* Only a pause clears, and what does not exist runs nothing.
PauseOK ==
  /\ cleared # {} \/ pause.at \in {"unload", "paused"} => paused
  /\ pause.at \in {"arrived", "unload"} => pause.srv \in Servers
  /\ \A s \in Servers : server[s].life = "none" => proc[s] = "stopped"
  /\ \A s \in cleared : s \in Servers /\ proc[s] = "stopped"

\* Nothing turned away and nothing new on disk: whatever is loaded, being
\* built, or active is the last edit.
WatchOK ==
  /\ prev <= disk
  /\ \A r \in Reloaders :
       /\ reload[r].at = "swap" => server[reload[r].new].conf = reload[r].conf
       /\ reload[r].at \in {"retire", "stopping", "close"} =>
            server[active].conf = reload[r].conf
  /\ ~missed /\ prev = disk /\ disk \notin Broken =>
       IF reloading
         THEN \A r \in Reloaders : reload[r].at \notin {"idle", "load"} => reload[r].conf = disk
         ELSE server[active].conf = disk

Inv ==
  /\ TypeOK /\ GuardOK /\ StagesOK
  /\ main.at = "running" => LivesOK /\ StoresOK
  /\ PauseOK /\ WatchOK

-----------------------------------------------------------------------------
(* The program starts with one server, built from what is on disk.         *)

LEMMA OneServer == 1 \in Servers
  BY ServersAssumption DEF Servers

LEMMA InitInv == Init => Inv
<1> SUFFICES ASSUME Init PROVE Inv
  OBVIOUS
<1> USE OneServer
<1>1. TypeOK
  BY DEF Init, TypeOK, Idle, NoServer, Lives, ReloadPlaces, Servers
<1>2. GuardOK /\ StagesOK
  BY DEF Init, GuardOK, StagesOK, Built, Idle
<1>3. LivesOK /\ StoresOK
  BY DEF Init, LivesOK, StoresOK, LifeAt, Built, Idle, NoServer
<1>4. PauseOK /\ WatchOK
  BY DEF Init, PauseOK, WatchOK, Idle
<1> QED
  BY <1>1, <1>2, <1>3, <1>4 DEF Inv

-----------------------------------------------------------------------------
(* Steps.                                                                  *)

\* Who asks for reloads, and whose guard it is.
LEMMA EnterEffect ==
  ASSUME NEW r \in Reloaders, TypeOK, EnterReload(r)
  PROVE  \/ reloading /\ UNCHANGED <<reload, reloading>>
         \/ /\ ~reloading /\ reloading'
            /\ reload' = [reload EXCEPT ![r].at = "load"]
  BY DEF EnterReload, TypeOK

\* A reload that is over, and one that has loaded what is on disk.
LEMMA LeaveEffect ==
  ASSUME NEW r \in Reloaders, TypeOK, LeaveReload(r)
  PROVE  /\ reload'[r].at = "idle" /\ ~reloading'
         /\ \A q \in Reloaders : q # r => reload'[q] = reload[q]
  BY DEF LeaveReload, TypeOK, Idle

LEMMA LoadEffect ==
  ASSUME NEW r \in Reloaders, TypeOK, LoadConfig(r)
  PROVE  /\ reload[r].at = "load" /\ UNCHANGED <<disk, prev>>
         /\ \A q \in Reloaders : q # r => reload'[q] = reload[q]
         /\ \/ /\ disk \in Broken /\ UNCHANGED missed
               /\ reload'[r].at = "idle" /\ ~reloading'
            \/ /\ reload'[r].at = "build" /\ reload'[r].conf = disk
               /\ UNCHANGED reloading
<1> DEFINE Loaded == [Idle EXCEPT !.at = "build", !.conf = disk]
<1>1. Loaded.at = "build" /\ Loaded.conf = disk
  BY DEF Idle
<1>2. CASE disk \in Broken
  BY <1>2, LeaveEffect DEF LoadConfig
<1>3. CASE disk \notin Broken
  <2>1. reload' = [reload EXCEPT ![r] = Loaded] /\ UNCHANGED reloading
    BY <1>3 DEF LoadConfig
  <2> HIDE DEF Loaded
  <2> QED
    BY <1>1, <2>1 DEF TypeOK, LoadConfig
<1> QED
  BY <1>2, <1>3

\* The types are kept.
LEMMA TypeStep == TypeOK /\ StagesOK /\ PauseOK /\ [Next]_vars => TypeOK'
<1> SUFFICES ASSUME TypeOK, StagesOK, PauseOK, [Next]_vars PROVE TypeOK'
  OBVIOUS
<1> DEFINE Reloads == [at : ReloadPlaces, conf : Nat, new : Nat, old : Nat]
<1> DEFINE Records == [life : Lives, conf : Nat, store : Nat]
<1> DEFINE Rest == /\ disk' \in Nat /\ prev' \in Nat
                   /\ active' \in Servers
                   /\ proc' \in [Servers -> {"stopped", "starting", "ready"}]
                   /\ paused' \in BOOLEAN
                   /\ pause' \in [at : {"none", "arrived", "unload", "paused", "resumed"}, srv : Nat]
                   /\ main' \in [at : {"running", "drain", "stopping", "close", "exited"},
                                 srv : Nat, store : Nat]
<1> SUFFICES Rest /\ reload' \in [Reloaders -> Reloads] /\ server' \in [Servers -> Records]
  BY DEF TypeOK
<1> USE DEF reloadVars, serverVars, pauseVars
<1>a. Rest
  <2> USE DEF TypeOK
  <2>1. CASE UNCHANGED vars
    BY <2>1 DEF vars
  <2>2. ASSUME NEW q \in Waiters, Arrive(q) \/ Dispatch(q) \/ Serve(q) PROVE Rest
    BY <2>2 DEF Arrive, Dispatch, Serve
  <2>3. ASSUME NEW s \in Servers, StartSwap(s) \/ SwapDone(s) PROVE Rest
    BY <2>3 DEF StartSwap, SwapDone
  <2>4. CASE PauseBegins \/ SetPaused \/ PauseUnloads \/ Resume
    <3>1. CASE PauseBegins
      BY <3>1 DEF PauseBegins, Servers
    <3>2. CASE SetPaused
      BY <3>2 DEF SetPaused
    <3>3. CASE PauseUnloads
      BY <3>3 DEF PauseUnloads
    <3>4. CASE Resume
      BY <3>4 DEF Resume
    <3> QED
      BY <2>4, <3>1, <3>2, <3>3, <3>4
  <2>5. CASE Edit \/ WatcherTick \/ Sighup
    <3>1. CASE Edit
      BY <3>1 DEF Edit
    <3>2. CASE WatcherTick
      BY <3>2 DEF WatcherTick
    <3>3. CASE Sighup
      BY <3>3 DEF Sighup
    <3> QED
      BY <2>5, <3>1, <3>2, <3>3
  <2>6. ASSUME NEW r \in Reloaders, LoadConfig(r) \/ BuildServer(r) \/ BuildFails(r)
        PROVE  Rest
    BY <2>6 DEF LoadConfig, BuildServer, BuildFails
  <2>7. ASSUME NEW r \in Reloaders, Activate(r) \/ CloseOldStore(r) PROVE Rest
    BY <2>7 DEF Activate, CloseOldStore, StagesOK, Built
  <2>8. ASSUME NEW r \in Reloaders, Retire(r) \/ RetireEnds(r) PROVE Rest
    BY <2>8 DEF Retire, RetireEnds, ShutdownBegins, ShutdownEnds
  <2>9. CASE Sigterm \/ MainShutsDown \/ MainStopped \/ Exit
    <3>1. CASE Sigterm
      <4>1. active \in Nat /\ server[active].store \in Nat
        BY DEF Servers
      <4> QED
        BY <3>1, <4>1 DEF Sigterm
    <3>2. CASE MainShutsDown
      BY <3>2 DEF MainShutsDown, ShutdownBegins
    <3>3. CASE MainStopped
      BY <3>3 DEF MainStopped, ShutdownEnds
    <3>4. CASE Exit
      BY <3>4 DEF Exit
    <3> QED
      BY <2>9, <3>1, <3>2, <3>3, <3>4
  <2> QED
    BY <2>1, <2>2, <2>3, <2>4, <2>5, <2>6, <2>7, <2>8, <2>9 DEF Next
<1>b. reload' \in [Reloaders -> Reloads]
  <2>0. reload \in [Reloaders -> Reloads] /\ disk \in Nat /\ active \in Nat
    BY DEF TypeOK, Servers
  <2>1. \A x \in Reloads : \A p \in ReloadPlaces : [x EXCEPT !.at = p] \in Reloads
    OBVIOUS
  <2>2. CASE UNCHANGED reload
    BY <2>0, <2>2
  <2>3. ASSUME NEW r \in Reloaders, NEW x \in Reloads, reload' = [reload EXCEPT ![r] = x]
        PROVE  reload' \in [Reloaders -> Reloads]
    BY <2>0, <2>3
  <2>4. ASSUME NEW r \in Reloaders, NEW p \in ReloadPlaces,
               reload' = [reload EXCEPT ![r].at = p]
        PROVE  reload' \in [Reloaders -> Reloads]
    BY <2>0, <2>1, <2>3, <2>4
  <2>5. Idle \in Reloads
    BY DEF Idle, ReloadPlaces
  <2>6. [Idle EXCEPT !.at = "build", !.conf = disk] \in Reloads
    BY <2>0 DEF Idle, ReloadPlaces
  <2>7. ASSUME NEW r \in Reloaders, EnterReload(r) PROVE reload' \in [Reloaders -> Reloads]
    BY <2>2, <2>4, <2>7 DEF EnterReload, ReloadPlaces
  <2>8. ASSUME NEW r \in Reloaders, LeaveReload(r) PROVE reload' \in [Reloaders -> Reloads]
    BY <2>3, <2>5, <2>8 DEF LeaveReload
  <2>9. ASSUME NEW r \in Reloaders, LoadConfig(r) \/ BuildFails(r) \/ CloseOldStore(r)
        PROVE  reload' \in [Reloaders -> Reloads]
    BY <2>3, <2>6, <2>8, <2>9 DEF LoadConfig, BuildFails, CloseOldStore
  <2>10. ASSUME NEW r \in Reloaders, BuildServer(r) PROVE reload' \in [Reloaders -> Reloads]
    <3>0. PICK s \in Servers : reload' = [reload EXCEPT ![r].at = "swap", ![r].new = s]
      BY <2>10 DEF BuildServer
    <3>1. [reload[r] EXCEPT !.at = "swap", !.new = s] \in Reloads
      <4>1. s \in Nat /\ reload[r] \in Reloads
        BY <2>0 DEF Servers
      <4> QED
        BY <4>1 DEF ReloadPlaces
    <3>2. reload' = [reload EXCEPT ![r] = [reload[r] EXCEPT !.at = "swap", !.new = s]]
      BY <2>0, <3>0
    <3> QED
      BY <2>3, <3>1, <3>2
  <2>11. ASSUME NEW r \in Reloaders, Activate(r) PROVE reload' \in [Reloaders -> Reloads]
    <3>1. [reload[r] EXCEPT !.at = "retire", !.old = active] \in Reloads
      BY <2>0 DEF ReloadPlaces
    <3>2. reload' = [reload EXCEPT ![r] = [reload[r] EXCEPT !.at = "retire", !.old = active]]
      BY <2>0, <2>11 DEF Activate
    <3> QED
      BY <2>3, <3>1, <3>2
  <2>12. ASSUME NEW r \in Reloaders, Retire(r) \/ RetireEnds(r)
         PROVE  reload' \in [Reloaders -> Reloads]
    BY <2>4, <2>12 DEF Retire, RetireEnds, ReloadPlaces
  <2>13. CASE WatcherTick \/ Sighup
    BY <2>7, <2>13 DEF WatcherTick, Sighup, Reloaders
  <2>14. UNCHANGED reload \/ WatcherTick \/ Sighup
         \/ \E r \in Reloaders :
              \/ LoadConfig(r) \/ BuildServer(r) \/ BuildFails(r) \/ Activate(r)
              \/ Retire(r) \/ RetireEnds(r) \/ CloseOldStore(r)
    BY DEF Next, vars, Arrive, Dispatch, Serve, StartSwap, SwapDone, PauseBegins, SetPaused,
           PauseUnloads, Resume, Edit, Sigterm, MainShutsDown, MainStopped, Exit
  <2> QED
    BY <2>2, <2>9, <2>10, <2>11, <2>12, <2>13, <2>14
<1>c. server' \in [Servers -> Records]
  <2>0. server \in [Servers -> Records] /\ \A r \in Reloaders : reload[r].conf \in Nat
    BY DEF TypeOK
  <2>1. CASE UNCHANGED server
    BY <2>0, <2>1
  <2>2. ASSUME NEW s, NEW l \in Lives, server' = [server EXCEPT ![s].life = l]
        PROVE  server' \in [Servers -> Records]
    BY <2>0, <2>2
  <2>3. ASSUME NEW r \in Reloaders, BuildServer(r) PROVE server' \in [Servers -> Records]
    <3>1. PICK s \in Servers, c \in Nat :
            server' = [server EXCEPT ![s] = [life |-> "up", conf |-> reload[r].conf, store |-> c]]
      <4>1. PICK s \in Servers, c \in {server[active].store} \cup Servers :
              /\ c \in {server[active].store, s}
              /\ server' = [server EXCEPT ![s] = [life |-> "up", conf |-> reload[r].conf, store |-> c]]
        BY <2>3, Zenon DEF BuildServer
      <4>2. active \in Servers /\ server[active].store \in Nat /\ s \in Nat
        BY <2>0 DEF TypeOK, Servers
      <4> QED
        BY <4>1, <4>2
    <3> QED
      BY <2>0, <3>1 DEF Lives
  <2>4. ASSUME NEW r \in Reloaders, Retire(r) \/ RetireEnds(r) PROVE server' \in [Servers -> Records]
    BY <2>1, <2>2, <2>4 DEF Retire, RetireEnds, ShutdownBegins, ShutdownEnds, Lives
  <2>5. CASE MainShutsDown \/ MainStopped
    BY <2>1, <2>2, <2>5 DEF MainShutsDown, MainStopped, ShutdownBegins, ShutdownEnds, Lives
  <2>6. UNCHANGED server \/ MainShutsDown \/ MainStopped
        \/ \E r \in Reloaders : BuildServer(r) \/ Retire(r) \/ RetireEnds(r)
    BY DEF Next, vars, Arrive, Dispatch, Serve, StartSwap, SwapDone, PauseBegins, SetPaused,
           PauseUnloads, Resume, Edit, WatcherTick, Sighup, LoadConfig, BuildFails, Activate,
           CloseOldStore, Sigterm, Exit
  <2> QED
    BY <2>1, <2>3, <2>4, <2>5, <2>6
<1> QED
  BY <1>a, <1>b, <1>c

\* What the reloaders do with the guard and the records: nobody else's record
\* changes, and who is not idle has the guard.
LEMMA GuardStep == TypeOK /\ GuardOK /\ [Next]_vars => GuardOK'
<1> SUFFICES ASSUME TypeOK, GuardOK, [Next]_vars PROVE GuardOK'
  OBVIOUS
<1> USE DEF reloadVars, serverVars, pauseVars
<1>1. CASE UNCHANGED <<reload, reloading>>
  BY <1>1 DEF GuardOK
<1>2. ASSUME NEW r \in Reloaders, EnterReload(r) PROVE GuardOK'
  <2>1. \A q \in Reloaders : q # r => reload'[q] = reload[q]
    BY <1>2 DEF EnterReload, TypeOK
  <2>2. CASE reloading
    BY <1>1, <1>2, <2>2 DEF EnterReload
  <2>3. CASE ~reloading
    BY <1>2, <2>1, <2>3 DEF EnterReload, GuardOK
  <2> QED
    BY <2>2, <2>3
<1>3. ASSUME NEW r \in Reloaders, reload[r].at # "idle", LeaveReload(r) PROVE GuardOK'
  BY <1>3 DEF LeaveReload, GuardOK, TypeOK, Idle
<1>4. ASSUME NEW r \in Reloaders, reload[r].at # "idle", UNCHANGED reloading,
             \A q \in Reloaders : q # r => reload'[q] = reload[q]
      PROVE  GuardOK'
  BY <1>4 DEF GuardOK
<1>5. ASSUME NEW r \in Reloaders,
             \/ LoadConfig(r) \/ BuildServer(r) \/ BuildFails(r) \/ Activate(r)
             \/ Retire(r) \/ RetireEnds(r) \/ CloseOldStore(r)
      PROVE  GuardOK'
  <2>1. reload[r].at # "idle"
    BY <1>5 DEF LoadConfig, BuildServer, BuildFails, Activate, Retire, RetireEnds, CloseOldStore
  <2>2. LeaveReload(r) \/ (UNCHANGED reloading /\ \A q \in Reloaders : q # r => reload'[q] = reload[q])
    BY <1>5 DEF LoadConfig, BuildServer, BuildFails, Activate, Retire, RetireEnds, CloseOldStore, TypeOK
  <2> QED
    BY <1>3, <1>4, <2>1, <2>2
<1>6. \/ UNCHANGED <<reload, reloading>>
      \/ \E r \in Reloaders :
           \/ EnterReload(r)
           \/ LoadConfig(r) \/ BuildServer(r) \/ BuildFails(r) \/ Activate(r)
           \/ Retire(r) \/ RetireEnds(r) \/ CloseOldStore(r)
  BY DEF Next, vars, Arrive, Dispatch, Serve, StartSwap, SwapDone, PauseBegins, SetPaused,
         PauseUnloads, Resume, Edit, WatcherTick, Sighup, Sigterm, MainShutsDown, MainStopped,
         Exit, Reloaders
<1> QED
  BY <1>1, <1>2, <1>5, <1>6

\* Servers that are built stay built, and are switched to once.
LEMMA StagesStep == TypeOK /\ GuardOK /\ StagesOK /\ [Next]_vars => StagesOK'
<1> SUFFICES ASSUME TypeOK, GuardOK, StagesOK, [Next]_vars PROVE StagesOK'
  OBVIOUS
<1> USE DEF reloadVars, serverVars, pauseVars
<1> DEFINE Keeps == \A s \in Servers : server[s].life # "none" => server'[s].life # "none"
<1>1. CASE UNCHANGED <<reload, active>> /\ Keeps
  BY <1>1 DEF StagesOK, Built
<1>2. ASSUME NEW s \in Servers, ShutdownBegins(s) \/ ShutdownEnds(s) PROVE Keeps
  BY <1>2 DEF ShutdownBegins, ShutdownEnds, TypeOK
<1>3. ASSUME NEW r \in Reloaders, NEW p \in {"idle", "load", "build"}, Keeps, UNCHANGED active,
             reload'[r].at = p, \A q \in Reloaders : q # r => reload'[q] = reload[q]
      PROVE  StagesOK'
  BY <1>3 DEF StagesOK, Built
<1>4. ASSUME NEW r \in Reloaders, Keeps, UNCHANGED active,
             reload[r].at \in {"retire", "stopping", "close"},
             reload'[r].at \in {"retire", "stopping", "close"},
             reload'[r].new = reload[r].new, reload'[r].old = reload[r].old,
             \A q \in Reloaders : q # r => reload'[q] = reload[q]
      PROVE  StagesOK'
  BY <1>4 DEF StagesOK, Built
<1>5. ASSUME NEW r \in Reloaders, EnterReload(r), UNCHANGED <<server, active>> PROVE StagesOK'
  BY <1>1, <1>3, <1>5 DEF EnterReload, TypeOK
<1>6. ASSUME NEW r \in Reloaders, LoadConfig(r) \/ BuildFails(r) \/ CloseOldStore(r) PROVE StagesOK'
  <2>1. Keeps /\ UNCHANGED active
    BY <1>6 DEF LoadConfig, BuildFails, CloseOldStore
  <2>2. reload'[r].at \in {"idle", "build"} /\ \A q \in Reloaders : q # r => reload'[q] = reload[q]
    BY <1>6, LoadEffect, LeaveEffect DEF BuildFails, CloseOldStore
  <2> QED
    BY <1>3, <2>1, <2>2
<1>7. ASSUME NEW r \in Reloaders, BuildServer(r) PROVE StagesOK'
  <2>1. PICK s \in Servers :
          /\ server[s].life = "none"
          /\ server'[s].life = "up" /\ \A x \in Servers : x # s => server'[x] = server[x]
          /\ reload'[r].at = "swap" /\ reload'[r].new = s
          /\ \A q \in Reloaders : q # r => reload'[q] = reload[q]
          /\ UNCHANGED active
    BY <1>7 DEF BuildServer, TypeOK
  <2>2. s # active
    BY <2>1 DEF StagesOK, Built
  <2>3. \A q \in Reloaders : q # r => reload[q].at = "idle"
    BY <1>7 DEF BuildServer, GuardOK
  <2> QED
    BY <2>1, <2>2, <2>3 DEF StagesOK, Built
<1>8. ASSUME NEW r \in Reloaders, Activate(r) PROVE StagesOK'
  <2>1. /\ reload[r].at = "swap" /\ active' = reload[r].new /\ UNCHANGED server
        /\ reload'[r].at = "retire" /\ reload'[r].new = reload[r].new /\ reload'[r].old = active
        /\ \A q \in Reloaders : q # r => reload'[q] = reload[q]
    BY <1>8 DEF Activate, TypeOK
  <2>2. \A q \in Reloaders : q # r => reload[q].at = "idle"
    BY <2>1 DEF GuardOK
  <2> QED
    BY <2>1, <2>2 DEF StagesOK, Built
<1>9. ASSUME NEW r \in Reloaders, Retire(r) \/ RetireEnds(r) PROVE StagesOK'
  <2>1. reload[r].old \in Servers
    BY <1>9 DEF Retire, RetireEnds, StagesOK, Built
  <2>2. Keeps /\ UNCHANGED active
    BY <1>2, <1>9, <2>1 DEF Retire, RetireEnds
  <2>3. /\ reload[r].at \in {"retire", "stopping", "close"}
        /\ reload'[r].at \in {"retire", "stopping", "close"}
        /\ reload'[r].new = reload[r].new /\ reload'[r].old = reload[r].old
        /\ \A q \in Reloaders : q # r => reload'[q] = reload[q]
    BY <1>9 DEF Retire, RetireEnds, TypeOK
  <2> QED
    BY <1>4, <2>2, <2>3
<1>10. CASE MainShutsDown \/ MainStopped
  <2>1. Keeps /\ UNCHANGED <<reload, active>>
    BY <1>10 DEF MainShutsDown, MainStopped, ShutdownBegins, ShutdownEnds, TypeOK
  <2> QED
    BY <1>1, <2>1
<1>11. CASE WatcherTick \/ Sighup
  BY <1>5, <1>11 DEF WatcherTick, Sighup, Reloaders
<1>12. \/ UNCHANGED <<reload, active, server>>
       \/ WatcherTick \/ Sighup \/ MainShutsDown \/ MainStopped
       \/ \E r \in Reloaders :
            \/ LoadConfig(r) \/ BuildServer(r) \/ BuildFails(r) \/ Activate(r)
            \/ Retire(r) \/ RetireEnds(r) \/ CloseOldStore(r)
  BY DEF Next, vars, Arrive, Dispatch, Serve, StartSwap, SwapDone, PauseBegins, SetPaused,
         PauseUnloads, Resume, Edit, Sigterm, Exit
<1> QED
  BY <1>1, <1>6, <1>7, <1>8, <1>9, <1>10, <1>11, <1>12

\* What a build, a switch and the end of a server do to the records.
LEMMA BuildEffect ==
  ASSUME NEW r \in Reloaders, TypeOK, GuardOK, StagesOK, BuildServer(r)
  PROVE  \E s \in Servers :
           /\ server[s].life = "none" /\ s # active
           /\ server'[s].life = "up" /\ server'[s].conf = reload[r].conf
           /\ server'[s].store \in {s, server[active].store}
           /\ \A x \in Servers : x # s => server'[x] = server[x]
           /\ reload[r].at = "build"
           /\ reload'[r].at = "swap" /\ reload'[r].new = s /\ reload'[r].conf = reload[r].conf
           /\ \A q \in Reloaders : q # r => reload'[q] = reload[q] /\ reload[q].at = "idle"
           /\ cleared' = IF paused THEN cleared \cup {s} ELSE cleared
           /\ UNCHANGED <<disk, prev, reloading, missed, active, closed, proc, paused, pause, main>>
<1>1. PICK s \in Servers, c \in {server[active].store} \cup Servers :
        /\ server[s].life = "none" /\ c \in {s, server[active].store}
        /\ server' = [server EXCEPT ![s] = [life |-> "up", conf |-> reload[r].conf, store |-> c]]
        /\ reload' = [reload EXCEPT ![r].at = "swap", ![r].new = s]
        /\ cleared' = IF paused THEN cleared \cup {s} ELSE cleared
  BY Zenon DEF BuildServer
<1>2. s # active
  BY <1>1 DEF StagesOK, Built
<1>3. /\ server'[s].life = "up" /\ server'[s].conf = reload[r].conf /\ server'[s].store = c
      /\ \A x \in Servers : x # s => server'[x] = server[x]
  BY <1>1 DEF TypeOK
<1>4. /\ reload'[r].at = "swap" /\ reload'[r].new = s /\ reload'[r].conf = reload[r].conf
      /\ \A q \in Reloaders : q # r => reload'[q] = reload[q]
  BY <1>1 DEF TypeOK
<1>5. /\ reload[r].at = "build"
      /\ UNCHANGED <<disk, prev, reloading, missed, active, closed, proc, paused, pause, main>>
  BY DEF BuildServer
<1>6. \A q \in Reloaders : q # r => reload[q].at = "idle"
  BY <1>5 DEF GuardOK
<1> QED
  BY <1>1, <1>2, <1>3, <1>4, <1>5, <1>6, Zenon

LEMMA ActivateEffect ==
  ASSUME NEW r \in Reloaders, TypeOK, GuardOK, Activate(r)
  PROVE  /\ reload[r].at = "swap" /\ active' = reload[r].new
         /\ reload'[r].at = "retire" /\ reload'[r].old = active
         /\ reload'[r].new = reload[r].new /\ reload'[r].conf = reload[r].conf
         /\ \A q \in Reloaders : q # r => reload'[q] = reload[q] /\ reload[q].at = "idle"
         /\ UNCHANGED <<disk, prev, reloading, missed, server, closed, proc, pauseVars, main>>
<1>1. /\ reload[r].at = "swap" /\ active' = reload[r].new
      /\ UNCHANGED <<disk, prev, reloading, missed, server, closed, proc, pauseVars, main>>
  BY DEF Activate
<1>2. /\ reload'[r].at = "retire" /\ reload'[r].old = active
      /\ reload'[r].new = reload[r].new /\ reload'[r].conf = reload[r].conf
      /\ \A q \in Reloaders : q # r => reload'[q] = reload[q]
  BY DEF Activate, TypeOK
<1> QED
  BY <1>1, <1>2 DEF GuardOK

\* Only the life of the server that is shut down changes, and it goes on.
EndsServer(o) ==
  \/ UNCHANGED <<server, proc>>
  \/ /\ server[o].life = "up" /\ server' = [server EXCEPT ![o].life = "stopping"]
     /\ UNCHANGED proc
  \/ /\ server[o].life = "stopping" /\ server' = [server EXCEPT ![o].life = "down"]
     /\ proc' = [proc EXCEPT ![o] = "stopped"]

LEMMA EndsEffect ==
  ASSUME NEW o \in Servers, TypeOK, EndsServer(o)
  PROVE  /\ \A s \in Servers : /\ server'[s].conf = server[s].conf
                               /\ server'[s].store = server[s].store
                               /\ server'[s].life = "none" <=> server[s].life = "none"
                               /\ server'[s].life \in {"up", "stopping"} =>
                                    server[s].life \in {"up", "stopping"}
                               /\ s # o => server'[s] = server[s]
                               /\ proc'[s] # "stopped" => proc'[s] = proc[s]
  BY DEF EndsServer, TypeOK

LEMMA RetireEffect ==
  ASSUME NEW r \in Reloaders, TypeOK, GuardOK, StagesOK, Retire(r) \/ RetireEnds(r)
  PROVE  /\ reload[r].old \in Servers /\ reload[r].old # active
         /\ EndsServer(reload[r].old)
         /\ reload'[r].old = reload[r].old /\ reload'[r].new = reload[r].new
         /\ reload'[r].conf = reload[r].conf
         /\ \/ /\ reload[r].at = "retire" /\ reload'[r].at = "stopping"
               /\ server[reload[r].old].life = "up" /\ server'[reload[r].old].life = "stopping"
            \/ /\ reload[r].at = "stopping" /\ reload'[r].at = "close"
               /\ server'[reload[r].old].life = "down"
            \/ /\ reload[r].at = "retire" /\ reload'[r].at = "close"
               /\ server[reload[r].old].life # "up"
         /\ \A q \in Reloaders : q # r => reload'[q] = reload[q] /\ reload[q].at = "idle"
         /\ UNCHANGED <<disk, prev, reloading, missed, active, closed, pauseVars, main>>
<1>1. reload[r].at \in {"retire", "stopping"}
  BY DEF Retire, RetireEnds
<1>2. reload[r].old \in Servers /\ reload[r].old # active
  BY <1>1 DEF StagesOK, Built
<1>3. EndsServer(reload[r].old)
  BY DEF Retire, RetireEnds, ShutdownBegins, ShutdownEnds, EndsServer
<1>4. /\ reload'[r].old = reload[r].old /\ reload'[r].new = reload[r].new
      /\ reload'[r].conf = reload[r].conf
      /\ \A q \in Reloaders : q # r => reload'[q] = reload[q]
  BY DEF Retire, RetireEnds, TypeOK
<1>5. \/ /\ reload[r].at = "retire" /\ reload'[r].at = "stopping"
         /\ server[reload[r].old].life = "up" /\ server'[reload[r].old].life = "stopping"
      \/ /\ reload[r].at = "stopping" /\ reload'[r].at = "close"
         /\ server'[reload[r].old].life = "down"
      \/ /\ reload[r].at = "retire" /\ reload'[r].at = "close"
         /\ server[reload[r].old].life # "up"
  BY <1>2 DEF Retire, RetireEnds, ShutdownBegins, ShutdownEnds, TypeOK
<1>6. UNCHANGED <<disk, prev, reloading, missed, active, closed, pauseVars, main>>
  BY DEF Retire, RetireEnds
<1>7. \A q \in Reloaders : q # r => reload[q].at = "idle"
  BY <1>1 DEF GuardOK
<1> QED
  BY <1>2, <1>3, <1>4, <1>5, <1>6, <1>7

\* While the program runs, servers are started and shut down by reloads only.
LEMMA LivesStep ==
  ASSUME TypeOK, GuardOK, StagesOK, LivesOK, main.at = "running", main'.at = "running", [Next]_vars
  PROVE  LivesOK'
<1> USE DEF reloadVars, serverVars
<1>1. CASE UNCHANGED <<reload, server, active>>
  BY <1>1 DEF LivesOK, LifeAt
<1>2. ASSUME NEW r \in Reloaders, UNCHANGED <<server, active>>,
             reload[r].at \in {"idle", "load", "build", "close"},
             reload'[r].at \in {"idle", "load", "build"},
             \A q \in Reloaders : q # r => reload'[q] = reload[q]
      PROVE  LivesOK'
  BY <1>2 DEF LivesOK, LifeAt
<1>3. ASSUME NEW r \in Reloaders, EnterReload(r), UNCHANGED <<server, active>> PROVE LivesOK'
  <2>1. CASE reloading
    BY <1>1, <1>3, <2>1, EnterEffect
  <2>2. CASE ~reloading
    <3>1. reload[r].at = "idle"
      BY <2>2 DEF GuardOK
    <3>2. reload'[r].at = "load" /\ \A q \in Reloaders : q # r => reload'[q] = reload[q]
      BY <1>3, <2>2 DEF EnterReload, TypeOK
    <3> QED
      BY <1>2, <1>3, <3>1, <3>2
  <2> QED
    BY <2>1, <2>2
<1>4. ASSUME NEW r \in Reloaders, LoadConfig(r) \/ BuildFails(r) \/ CloseOldStore(r) PROVE LivesOK'
  <2>1. UNCHANGED <<server, active>> /\ reload[r].at \in {"load", "build", "close"}
    BY <1>4 DEF LoadConfig, BuildFails, CloseOldStore
  <2>2. reload'[r].at \in {"idle", "build"} /\ \A q \in Reloaders : q # r => reload'[q] = reload[q]
    BY <1>4, LoadEffect, LeaveEffect DEF BuildFails, CloseOldStore
  <2> QED
    BY <1>2, <2>1, <2>2
<1>5. ASSUME NEW r \in Reloaders, BuildServer(r) PROVE LivesOK'
  BY <1>5, BuildEffect DEF LivesOK, LifeAt, StagesOK, Built
<1>6. ASSUME NEW r \in Reloaders, Activate(r) PROVE LivesOK'
  BY <1>6, ActivateEffect DEF LivesOK, LifeAt, StagesOK, Built
<1>7. ASSUME NEW r \in Reloaders, Retire(r) \/ RetireEnds(r) PROVE LivesOK'
  <2> DEFINE o == reload[r].old
  <2>1. o \in Servers /\ \A s \in Servers : s # o => server'[s] = server[s]
    BY <1>7, RetireEffect, EndsEffect
  <2>2. reload[r].at \in {"retire", "stopping"} => server[o].life = LifeAt(r)
    BY DEF LivesOK
  <2>3. /\ reload[r].at = "retire" => reload'[r].at = "stopping" /\ server'[o].life = "stopping"
        /\ reload[r].at = "stopping" => reload'[r].at = "close" /\ server'[o].life = "down"
        /\ reload[r].at \in {"retire", "stopping"}
    BY <1>7, <2>2, RetireEffect DEF LifeAt
  <2>4. reload'[r].old = o /\ UNCHANGED active /\ active # o
        /\ \A q \in Reloaders : q # r => reload'[q] = reload[q] /\ reload[q].at = "idle"
    BY <1>7, RetireEffect
  <2> HIDE DEF o
  <2>5. server'[active'].life = "up"
    BY <2>1, <2>4 DEF LivesOK, StagesOK, Built
  <2>6. \A q \in Reloaders :
          /\ reload'[q].at # "swap"
          /\ reload'[q].at \in {"retire", "stopping", "close"} =>
               q = r /\ server'[reload'[q].old].life = LifeAt(q)'
    BY <2>3, <2>4 DEF LifeAt
  <2>7. \A s \in Servers : server'[s].life \in {"up", "stopping"} =>
          s = active' \/ (reload'[r].at \in {"retire", "stopping"} /\ s = reload'[r].old)
    <3> SUFFICES ASSUME NEW s \in Servers, server'[s].life \in {"up", "stopping"}, s # active'
                 PROVE  reload'[r].at \in {"retire", "stopping"} /\ s = reload'[r].old
      OBVIOUS
    <3>1. CASE s = o
      BY <2>3, <2>4, <3>1
    <3>2. CASE s # o
      BY <2>1, <2>3, <2>4, <3>2 DEF LivesOK, o
    <3> QED
      BY <3>1, <3>2
  <2> QED
    BY <2>5, <2>6, <2>7 DEF LivesOK
<1>8. CASE WatcherTick \/ Sighup
  BY <1>3, <1>8 DEF WatcherTick, Sighup, Reloaders
<1>9. \/ UNCHANGED <<reload, server, active>>
      \/ WatcherTick \/ Sighup
      \/ \E r \in Reloaders :
           \/ LoadConfig(r) \/ BuildServer(r) \/ BuildFails(r) \/ Activate(r)
           \/ Retire(r) \/ RetireEnds(r) \/ CloseOldStore(r)
  BY DEF Next, vars, Arrive, Dispatch, Serve, StartSwap, SwapDone, PauseBegins, SetPaused,
         PauseUnloads, Resume, Edit, Sigterm, MainShutsDown, MainStopped, Exit
<1> QED
  BY <1>1, <1>4, <1>5, <1>6, <1>7, <1>8, <1>9

\* A reload closes the store of the server it took down, unless the one that
\* is active now, the only one alive by then, goes on with it.
LEMMA StoresStep ==
  ASSUME TypeOK, GuardOK, StagesOK, LivesOK, StoresOK, main.at = "running", main'.at = "running",
         [Next]_vars
  PROVE  StoresOK'
<1> USE DEF reloadVars, serverVars
<1>1. CASE UNCHANGED <<server, closed>>
  BY <1>1 DEF StoresOK, Built
<1>2. ASSUME NEW r \in Reloaders, BuildServer(r) PROVE StoresOK'
  <2>1. PICK s \in Servers :
          /\ server[s].life = "none" /\ s # active /\ server'[s].life = "up"
          /\ server'[s].store \in {s, server[active].store}
          /\ \A x \in Servers : x # s => server'[x] = server[x]
          /\ UNCHANGED closed
    BY <1>2, BuildEffect
  <2>2. s \notin closed /\ server[active].store \notin closed /\ Built(server[active].store)
    BY <2>1 DEF StoresOK, LivesOK, StagesOK, Built
  <2>3. \A x : Built(x) => Built(x)'
    BY <2>1 DEF Built
  <2>4. Built(s)'
    BY <2>1 DEF Built
  <2>5. Built(server[s].store)' /\ server'[s].store \notin closed'
    BY <2>1, <2>2, <2>3, <2>4
  <2>6. \A x \in Servers : server'[x].life # "none" => Built(server[x].store)'
    BY <2>1, <2>3, <2>5 DEF StoresOK
  <2>7. \A c \in closed' : Built(c)'
    BY <2>1, <2>3 DEF StoresOK
  <2>8. \A x \in Servers : server'[x].life \in {"up", "stopping"} => server'[x].store \notin closed'
    BY <2>1, <2>5 DEF StoresOK
  <2> QED
    BY <2>6, <2>7, <2>8 DEF StoresOK
<1>3. ASSUME NEW r \in Reloaders, Retire(r) \/ RetireEnds(r) PROVE StoresOK'
  <2>1. UNCHANGED closed
    BY <1>3, RetireEffect
  <2>2. \A s \in Servers : /\ server'[s].store = server[s].store
                           /\ server'[s].life = "none" <=> server[s].life = "none"
                           /\ server'[s].life \in {"up", "stopping"} =>
                                server[s].life \in {"up", "stopping"}
    BY <1>3, RetireEffect, EndsEffect
  <2> QED
    BY <2>1, <2>2 DEF StoresOK, Built
<1>4. ASSUME NEW r \in Reloaders, CloseOldStore(r) PROVE StoresOK'
  <2> DEFINE old == server[reload[r].old].store
  <2>1. /\ reload[r].at = "close" /\ UNCHANGED <<server, active>>
        /\ closed' = closed \cup ({old} \ {server[reload[r].new].store})
    BY <1>4 DEF CloseOldStore, StoreLeft
  <2>2. reload[r].new = active /\ Built(reload[r].old)
    BY <2>1 DEF StagesOK
  <2>3. Built(old)
    BY <2>2 DEF StoresOK, Built
  <2>4. \A s \in Servers : server[s].life \in {"up", "stopping"} => s = active
    BY <2>1 DEF GuardOK, LivesOK
  <2> HIDE DEF old
  <2> QED
    BY <2>1, <2>2, <2>3, <2>4 DEF StoresOK, Built
<1>5. UNCHANGED <<server, closed>>
      \/ \E r \in Reloaders : BuildServer(r) \/ Retire(r) \/ RetireEnds(r) \/ CloseOldStore(r)
  BY DEF Next, vars, Arrive, Dispatch, Serve, StartSwap, SwapDone, PauseBegins, SetPaused,
         PauseUnloads, Resume, Edit, WatcherTick, Sighup, LoadConfig, BuildFails, Activate,
         Sigterm, MainShutsDown, MainStopped, Exit
<1> QED
  BY <1>1, <1>2, <1>3, <1>4, <1>5

\* A pause holds what it cleared: the gate of a swap looks at paused, and a
\* server that is built meanwhile has nothing running.
LEMMA PauseStep ==
  ASSUME TypeOK, GuardOK, StagesOK, PauseOK, [Next]_vars
  PROVE  PauseOK'
<1> USE DEF reloadVars, serverVars, pauseVars
<1> DEFINE Calm == /\ UNCHANGED <<paused, pause, cleared>>
                   /\ \A s \in Servers : /\ proc'[s] # "stopped" => proc'[s] = proc[s]
                                         /\ server'[s].life = "none" => server[s].life = "none"
<1>1. CASE Calm
  <2>1. \A s \in Servers : proc[s] = "stopped" => proc'[s] = "stopped"
    BY <1>1
  <2> QED
    BY <1>1, <2>1 DEF PauseOK
<1>2. ASSUME NEW s \in Servers, StartSwap(s) PROVE PauseOK'
  <2>1. CASE paused
    BY <1>1, <1>2, <2>1 DEF StartSwap, IsPaused
  <2>2. CASE ~paused
    <3>1. /\ server[s].life = "up" /\ UNCHANGED <<paused, pause, cleared, server>>
          /\ proc' = [proc EXCEPT ![s] = "starting"]
      BY <1>2, <2>2 DEF StartSwap, IsPaused
    <3>2. \A x \in Servers : x # s => proc'[x] = proc[x]
      BY <3>1 DEF TypeOK
    <3> QED
      BY <2>2, <3>1, <3>2 DEF PauseOK
  <2> QED
    BY <2>1, <2>2
<1>3. ASSUME NEW s \in Servers, SwapDone(s) PROVE PauseOK'
  <2>1. /\ proc[s] = "starting" /\ UNCHANGED <<paused, pause, cleared, server>>
        /\ \A x \in Servers : x # s => proc'[x] = proc[x]
    BY <1>3 DEF SwapDone, TypeOK
  <2> QED
    BY <2>1 DEF PauseOK
<1>4. CASE PauseBegins
  BY <1>4 DEF PauseBegins, PauseOK, TypeOK
<1>5. CASE SetPaused
  <2>1. /\ paused' /\ pause'.at = "unload" /\ pause'.srv = pause.srv /\ pause.at = "arrived"
        /\ UNCHANGED <<cleared, server, proc>>
    BY <1>5 DEF SetPaused, TypeOK
  <2> QED
    BY <2>1 DEF PauseOK
<1>6. CASE PauseUnloads
  <2>1. /\ pause.at = "unload" /\ pause'.at = "paused" /\ UNCHANGED <<paused, server>>
        /\ cleared' = cleared \cup {pause.srv}
        /\ proc' = [proc EXCEPT ![pause.srv] = "stopped"]
    BY <1>6 DEF PauseUnloads
  <2>2. pause.srv \in Servers /\ paused
    BY <2>1 DEF PauseOK
  <2>3. proc'[pause.srv] = "stopped" /\ \A x \in Servers : x # pause.srv => proc'[x] = proc[x]
    BY <2>1, <2>2 DEF TypeOK
  <2> QED
    BY <2>1, <2>2, <2>3 DEF PauseOK
<1>7. CASE Resume
  BY <1>7 DEF Resume, PauseOK
<1>8. ASSUME NEW r \in Reloaders, BuildServer(r) PROVE PauseOK'
  <2>1. PICK s \in Servers :
          /\ server[s].life = "none" /\ server'[s].life = "up"
          /\ \A x \in Servers : x # s => server'[x] = server[x]
          /\ cleared' = IF paused THEN cleared \cup {s} ELSE cleared
          /\ UNCHANGED <<proc, paused, pause>>
    BY <1>8, BuildEffect
  <2>2. proc[s] = "stopped"
    BY <2>1 DEF PauseOK
  <2>3. CASE paused
    BY <2>1, <2>2, <2>3 DEF PauseOK
  <2>4. CASE ~paused
    BY <2>1, <2>4 DEF PauseOK
  <2> QED
    BY <2>3, <2>4
<1>9. ASSUME NEW o \in Servers, EndsServer(o), UNCHANGED pauseVars PROVE Calm
  BY <1>9, EndsEffect
<1>10. ASSUME NEW r \in Reloaders, Retire(r) \/ RetireEnds(r) PROVE PauseOK'
  BY <1>1, <1>9, <1>10, RetireEffect
<1>11. CASE MainShutsDown \/ MainStopped
  <2>1. \A s \in Servers : /\ proc'[s] # "stopped" => proc'[s] = proc[s]
                           /\ server'[s].life = "none" => server[s].life = "none"
    BY <1>11 DEF MainShutsDown, MainStopped, ShutdownBegins, ShutdownEnds, TypeOK
  <2> QED
    BY <1>1, <1>11, <2>1 DEF MainShutsDown, MainStopped
<1>12. \/ UNCHANGED <<server, proc, paused, pause, cleared>>
       \/ \E s \in Servers : StartSwap(s) \/ SwapDone(s)
       \/ PauseBegins \/ SetPaused \/ PauseUnloads \/ Resume
       \/ \E r \in Reloaders : BuildServer(r) \/ Retire(r) \/ RetireEnds(r)
       \/ MainShutsDown \/ MainStopped
  BY DEF Next, vars, Arrive, Dispatch, Serve, Edit, WatcherTick, Sighup, LoadConfig, BuildFails,
         Activate, CloseOldStore, Sigterm, Exit
<1> QED
  BY <1>1, <1>2, <1>3, <1>4, <1>5, <1>6, <1>7, <1>8, <1>10, <1>11, <1>12

\* An edit the watcher has seen is loaded, or counted as missed.
LEMMA WatchStep ==
  ASSUME TypeOK, GuardOK, StagesOK, WatchOK, [Next]_vars
  PROVE  WatchOK'
<1> USE DEF reloadVars, serverVars, pauseVars
<1> DEFINE SameConfs == \A s \in Servers : server'[s].conf = server[s].conf
<1>1. CASE UNCHANGED <<disk, prev, reload, reloading, missed, active>> /\ SameConfs
  <2>1. \A r \in Reloaders : reload[r].at = "swap" => reload[r].new \in Servers
    BY DEF StagesOK, Built
  <2>2. active \in Servers
    BY DEF TypeOK
  <2> QED
    BY <1>1, <2>1, <2>2 DEF WatchOK
<1>2. CASE Edit
  <2>1. /\ disk' = disk + 1 /\ UNCHANGED <<prev, reload, reloading, missed, server, active>>
        /\ disk \in Nat /\ prev \in Nat
    BY <1>2 DEF Edit, TypeOK
  <2>2. prev' <= disk' /\ prev' # disk'
    BY <2>1 DEF WatchOK
  <2> QED
    BY <2>1, <2>2 DEF WatchOK
<1>3. CASE WatcherTick
  <2>0. "watcher" \in Reloaders
    BY DEF Reloaders
  <2>1. /\ prev' = disk /\ disk' = disk /\ UNCHANGED <<server, active>>
        /\ prev' <= disk' /\ missed' = (missed \/ reloading)
        /\ EnterReload("watcher")
    BY <1>3 DEF WatcherTick, TypeOK
  <2>2. CASE reloading
    <3>1. missed' /\ UNCHANGED <<reload, reloading>>
      BY <2>1, <2>2 DEF EnterReload
    <3> QED
      BY <2>1, <3>1 DEF WatchOK
  <2>3. CASE ~reloading
    <3>1. \A q \in Reloaders : reload[q].at = "idle"
      BY <2>3 DEF GuardOK
    <3>2. /\ reloading' /\ reload'["watcher"].at = "load"
          /\ \A q \in Reloaders : q # "watcher" => reload'[q] = reload[q]
      BY <2>0, <2>1, <2>3 DEF EnterReload, TypeOK
    <3> QED
      BY <2>0, <2>1, <3>1, <3>2 DEF WatchOK
  <2> QED
    BY <2>2, <2>3
<1>4. CASE Sighup
  <2>0. "sighup" \in Reloaders
    BY DEF Reloaders
  <2>1. EnterReload("sighup") /\ UNCHANGED <<disk, prev, missed, server, active>>
    BY <1>4 DEF Sighup
  <2>2. CASE reloading
    BY <1>1, <2>1, <2>2 DEF EnterReload
  <2>3. CASE ~reloading
    <3>1. \A q \in Reloaders : reload[q].at = "idle"
      BY <2>3 DEF GuardOK
    <3>2. /\ reloading' /\ reload'["sighup"].at = "load"
          /\ \A q \in Reloaders : q # "sighup" => reload'[q] = reload[q]
      BY <2>0, <2>1, <2>3 DEF EnterReload, TypeOK
    <3> QED
      BY <2>0, <2>1, <3>1, <3>2 DEF WatchOK
  <2> QED
    BY <2>2, <2>3
<1>5. ASSUME NEW r \in Reloaders, LoadConfig(r) PROVE WatchOK'
  <2>1. /\ reload[r].at = "load" /\ UNCHANGED <<disk, prev, server, active>>
        /\ \A q \in Reloaders : q # r => reload'[q] = reload[q] /\ reload[q].at = "idle"
        /\ reloading
    BY <1>5, LoadEffect DEF LoadConfig, GuardOK
  <2>2. \/ disk \in Broken /\ reload'[r].at = "idle"
        \/ reload'[r].at = "build" /\ reload'[r].conf = disk /\ reloading'
    BY <1>5, <2>1, LoadEffect
  <2> QED
    BY <2>1, <2>2 DEF WatchOK
<1>6. ASSUME NEW r \in Reloaders, BuildServer(r) PROVE WatchOK'
  <2>1. PICK s \in Servers :
          /\ s # active /\ server'[s].conf = reload[r].conf
          /\ \A x \in Servers : x # s => server'[x] = server[x]
          /\ reload[r].at = "build"
          /\ reload'[r].at = "swap" /\ reload'[r].new = s /\ reload'[r].conf = reload[r].conf
          /\ \A q \in Reloaders : q # r => reload'[q] = reload[q] /\ reload[q].at = "idle"
          /\ UNCHANGED <<disk, prev, reloading, missed, active>>
    BY <1>6, BuildEffect
  <2>2. reloading /\ active \in Servers
    BY <2>1 DEF GuardOK, TypeOK
  <2>3. server'[active'].conf = server[active].conf
    BY <2>1, <2>2
  <2>4. \A q \in Reloaders : /\ reload'[q].at = "swap" => server'[reload'[q].new].conf = reload'[q].conf
                            /\ reload'[q].at \notin {"retire", "stopping", "close"}
    BY <2>1
  <2>5. \A q \in Reloaders : reload'[q].at \notin {"idle", "load"} =>
          q = r /\ reload'[q].conf = reload[q].conf
    BY <2>1
  <2>6. reloading' /\ prev' <= disk'
    BY <2>1, <2>2 DEF WatchOK
  <2>7. ~missed' /\ prev' = disk' /\ disk' \notin Broken => reload[r].conf = disk'
    BY <2>1, <2>2 DEF WatchOK
  <2> QED
    BY <2>4, <2>5, <2>6, <2>7 DEF WatchOK
<1>7. ASSUME NEW r \in Reloaders, BuildFails(r) PROVE WatchOK'
  <2>1. /\ missed' /\ UNCHANGED <<disk, prev, server, active>>
        /\ reload'[r].at = "idle"
        /\ \A q \in Reloaders : q # r => reload'[q] = reload[q]
    BY <1>7, LeaveEffect DEF BuildFails
  <2> QED
    BY <2>1 DEF WatchOK
<1>8. ASSUME NEW r \in Reloaders, Activate(r) PROVE WatchOK'
  <2>1. /\ reload[r].at = "swap" /\ active' = reload[r].new
        /\ reload'[r].at = "retire" /\ reload'[r].conf = reload[r].conf
        /\ \A q \in Reloaders : q # r => reload'[q] = reload[q] /\ reload[q].at = "idle"
        /\ UNCHANGED <<disk, prev, reloading, missed, server>>
    BY <1>8, ActivateEffect
  <2>2. reloading /\ server'[active'].conf = reload'[r].conf
    BY <2>1 DEF WatchOK, GuardOK
  <2> QED
    BY <2>1, <2>2 DEF WatchOK
<1>9. ASSUME NEW r \in Reloaders, Retire(r) \/ RetireEnds(r) PROVE WatchOK'
  <2>1. SameConfs /\ active \in Servers
    BY <1>9, RetireEffect, EndsEffect DEF TypeOK
  <2>2. /\ reload[r].at \in {"retire", "stopping"} /\ reload'[r].at \in {"stopping", "close"}
        /\ reload'[r].conf = reload[r].conf
        /\ \A q \in Reloaders : q # r => reload'[q] = reload[q] /\ reload[q].at = "idle"
        /\ UNCHANGED <<disk, prev, reloading, missed, active>>
    BY <1>9, RetireEffect
  <2> QED
    BY <2>1, <2>2 DEF WatchOK
<1>10. ASSUME NEW r \in Reloaders, CloseOldStore(r) PROVE WatchOK'
  <2>1. /\ reload[r].at = "close" /\ reload'[r].at = "idle" /\ ~reloading'
        /\ \A q \in Reloaders : q # r => reload'[q] = reload[q] /\ reload[q].at = "idle"
        /\ UNCHANGED <<disk, prev, missed, server, active>> /\ reloading
    BY <1>10, LeaveEffect DEF CloseOldStore, GuardOK
  <2> QED
    BY <2>1 DEF WatchOK
<1>11. CASE MainShutsDown \/ MainStopped
  <2>1. SameConfs
    BY <1>11 DEF MainShutsDown, MainStopped, ShutdownBegins, ShutdownEnds, TypeOK
  <2> QED
    BY <1>1, <1>11, <2>1 DEF MainShutsDown, MainStopped
<1>12. \/ UNCHANGED <<disk, prev, reload, reloading, missed, active, server>>
       \/ Edit \/ WatcherTick \/ Sighup \/ MainShutsDown \/ MainStopped
       \/ \E r \in Reloaders :
            \/ LoadConfig(r) \/ BuildServer(r) \/ BuildFails(r) \/ Activate(r)
            \/ Retire(r) \/ RetireEnds(r) \/ CloseOldStore(r)
  BY DEF Next, vars, Arrive, Dispatch, Serve, StartSwap, SwapDone, PauseBegins, SetPaused,
         PauseUnloads, Resume, Sigterm, Exit
<1> QED
  BY <1>1, <1>2, <1>3, <1>4, <1>5, <1>6, <1>7, <1>8, <1>9, <1>10, <1>11, <1>12

-----------------------------------------------------------------------------
(* What holds for every number of servers.                                 *)

\* Every step keeps the invariant; what only holds while the program runs is
\* not asked for again, since a program that was asked to end does not return.
LEMMA NextInv == Inv /\ [Next]_vars => Inv'
<1> SUFFICES ASSUME Inv, [Next]_vars PROVE Inv'
  OBVIOUS
<1>1. main'.at = "running" => main.at = "running"
  BY DEF Next, vars, Arrive, Dispatch, Serve, StartSwap, SwapDone, PauseBegins, SetPaused,
         PauseUnloads, Resume, Edit, WatcherTick, Sighup, LoadConfig, BuildServer, BuildFails,
         Activate, Retire, RetireEnds, CloseOldStore, Sigterm, MainShutsDown, MainStopped, Exit,
         Inv, TypeOK
<1> QED
  BY <1>1, TypeStep, GuardStep, StagesStep, LivesStep, StoresStep, PauseStep, WatchStep DEF Inv

\* The records of reloads, servers and the pause keep in step, for every number
\* of servers, edits and requests (llama-swap.go, pause.go).
THEOREM ReloadInvariant == Spec => []Inv
<1>1. Init => Inv
  BY InitInv
<1> QED
  BY <1>1, NextInv, PTL DEF Spec

\* While paused, nothing runs on a server the pause has unloaded, or on one
\* built since: the start gate looks at paused (server/pause.go).
THEOREM PauseKept == Spec => []PauseHolds
<1>1. Inv => PauseHolds
  BY DEF Inv, PauseOK, PauseHolds
<1> QED
  BY <1>1, ReloadInvariant, PTL

\* No reload closes the store of a server that is up (llama-swap.go).
THEOREM StoresKept == Spec => []StoresOutliveServers
<1>1. Inv => StoresOutliveServers
  BY DEF Inv, StoresOK, StoresOutliveServers
<1> QED
  BY <1>1, ReloadInvariant, PTL

\* The active server is built from the last edit the watcher saw, or that edit
\* is recorded as missed (llama-swap.go, internal/watcher/watcher.go).
THEOREM WatcherKeepsUp == Spec => []WatcherCatchesUp
<1>1. Inv => WatcherCatchesUp
  BY DEF Inv, WatchOK, WatcherCatchesUp
<1> QED
  BY <1>1, ReloadInvariant, PTL
=============================================================================
