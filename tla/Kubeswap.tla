------------------------------- MODULE Kubeswap -------------------------------
(***************************************************************************)
(* kubeswap (cmd/kubeswap): "serve" makes or adopts a model's Deployment   *)
(* and Service and proxies to its pod until the Deployment is gone, the    *)
(* backend crashes or a signal comes; "delete" (cmdStop, and gc for models *)
(* that left the configuration) takes them away.  They share nothing but   *)
(* the cluster, and each call to it is a step.  The cluster's own part     *)
(* (the cascade of a deletion, the pods of a Deployment) is external.      *)
(***************************************************************************)
EXTENDS Naturals, FiniteSets

CONSTANTS MaxPods,      \* pods there can be at once (bound)
          MaxFaults,    \* calls to the API that fail (bound)
          MaxAttempts   \* maxCreateAttempts

VARIABLES strict,       \* --strict
          dep, svc,     \* the objects at the model's names: owner, and if the
                        \* spec drifted; "leaving": a deletion has not finished
          pods,         \* per pod: "none", "pending", "ready", "crashed",
                        \* "leaving"
          serve,        \* where serveCmd is, what ensureResources found out
          poll,         \* where pollOnce is, and what it read
          state,        \* ready, and the pod that is the upstream
          stopCh,       \* if it is closed
          crashCh,      \* if it holds a code
          signalled,    \* if SIGTERM came
          del,          \* where "delete" is, and what it found
          faults        \* calls that failed

clusterVars == <<dep, svc, pods>>
wrapperVars == <<strict, serve, poll, state, stopCh, crashCh, signalled>>
kubeVars == <<strict, dep, svc, pods, serve, poll, state, stopCh, crashCh, signalled, del, faults>>

Nothing == [owner |-> "none", drifted |-> FALSE, leaving |-> FALSE]
Own == [Nothing EXCEPT !.owner = "own"]
Pods == 1..MaxPods
Live(p) == pods[p] \in {"pending", "ready", "crashed"}

Init ==
  /\ strict = FALSE
  /\ dep = Nothing /\ svc = Nothing
  /\ pods = [p \in Pods |-> "none"]
  /\ serve = [at |-> "start", adopted |-> FALSE, tries |-> 0]
  /\ poll = [at |-> "idle", pod |-> 0, ready |-> FALSE]
  /\ state = [ready |-> FALSE, upstream |-> 0]
  /\ stopCh = FALSE /\ crashCh = FALSE /\ signalled = FALSE
  /\ del = [at |-> "none", found |-> FALSE, early |-> FALSE]
  /\ faults = 0

-----------------------------------------------------------------------------
\* The cluster: what was there before, and what it does with what is there.
FoundAtStart(owner, drifted, svcOwner) ==
  /\ serve.at = "start"
  /\ strict' \in BOOLEAN
  /\ dep' = [owner |-> owner, drifted |-> drifted, leaving |-> FALSE]
  /\ svc' = [owner |-> svcOwner, drifted |-> drifted, leaving |-> FALSE]
  /\ serve' = [serve EXCEPT !.at = "get"]
  /\ UNCHANGED <<pods, poll, state, stopCh, crashCh, signalled, del, faults>>

PodStarts(p) ==
  /\ dep.owner = "own" /\ ~dep.leaving
  /\ pods[p] = "none"
  /\ ~\E o \in Pods : Live(o) \/ pods[o] = "leaving"    \* strategy Recreate
  /\ pods' = [pods EXCEPT ![p] = "pending"]
  /\ UNCHANGED <<dep, svc, wrapperVars, del, faults>>

PodChanges(p) ==
  /\ \E to \in {"ready", "crashed", "leaving", "pending"} :
       /\ Live(p) /\ pods[p] # to
       /\ to = "pending" => pods[p] \in {"ready", "crashed"}  \* probes, a restart
       /\ to = "ready" => pods[p] = "pending"
       /\ pods' = [pods EXCEPT ![p] = to]
  /\ UNCHANGED <<dep, svc, wrapperVars, del, faults>>

PodGoes(p) ==
  /\ pods[p] = "leaving"
  /\ pods' = [pods EXCEPT ![p] = "none"]
  /\ UNCHANGED <<dep, svc, wrapperVars, del, faults>>

\* A Deployment that was deleted goes at once, or when its finalizers are done.
DeploymentGoes ==
  /\ dep.leaving
  /\ dep' = Nothing
  /\ UNCHANGED <<svc, pods, wrapperVars, del, faults>>

\* Somebody else takes the name of the Deployment before serve does, and may
\* give it back.
NameTaken ==
  /\ serve.at = "create" /\ dep.owner = "none" /\ serve.tries = 0
  /\ dep' = [Nothing EXCEPT !.owner = "foreign"]
  /\ UNCHANGED <<svc, pods, wrapperVars, del, faults>>

NameFreed ==
  /\ serve.at = "create" /\ dep.owner = "foreign"
  /\ dep' = Nothing
  /\ UNCHANGED <<svc, pods, wrapperVars, del, faults>>

Cascade == [p \in Pods |-> IF Live(p) THEN "leaving" ELSE pods[p]]
DeleteDeployment ==
  /\ dep' \in {IF dep.owner = "none" THEN dep ELSE [dep EXCEPT !.leaving = TRUE], Nothing}
  /\ pods' = IF dep.owner = "own" THEN Cascade ELSE pods
  /\ UNCHANGED svc

Fault == faults < MaxFaults /\ faults' = faults + 1

-----------------------------------------------------------------------------
\* ensureResources.
ServeAt(at) == serve' = [serve EXCEPT !.at = at]

Ensuring == {"get", "delete", "gone", "create", "service", "getsvc", "update"}

EnsureFails ==
  /\ serve.at \in Ensuring
  /\ Fault /\ ServeAt("error")
  /\ UNCHANGED <<clusterVars, strict, poll, state, stopCh, crashCh, signalled, del>>

EnsureGets ==
  /\ serve.at = "get"
  /\ CASE dep.owner = "none" -> ServeAt("create")
       [] dep.owner = "foreign" -> ServeAt("error")              \* verifyOwnership
       [] OTHER -> IF strict /\ dep.drifted
                     THEN ServeAt("delete")
                     ELSE serve' = [serve EXCEPT !.at = "getsvc", !.adopted = TRUE]
  /\ UNCHANGED <<clusterVars, strict, poll, state, stopCh, crashCh, signalled, del, faults>>

EnsureDeletes ==
  /\ serve.at = "delete"
  /\ DeleteDeployment
  /\ ServeAt("gone")
  /\ UNCHANGED <<strict, poll, state, stopCh, crashCh, signalled, del, faults>>

\* waitForDeploymentGone; its timeout is an error like another.
EnsureWaits ==
  /\ serve.at = "gone"
  /\ \/ dep.owner = "none" /\ ServeAt("create")
     \/ dep.owner # "none" /\ ServeAt("error")
  /\ UNCHANGED <<clusterVars, strict, poll, state, stopCh, crashCh, signalled, del, faults>>

\* createMissing: AlreadyExists is tried again, and then it is an error.
EnsureCreates ==
  /\ serve.at = "create"
  /\ IF dep.owner = "none"
       THEN dep' = Own /\ ServeAt("service")
       ELSE /\ serve' = [serve EXCEPT !.tries = @ + 1,
                                      !.at = IF serve.tries + 1 >= MaxAttempts THEN "error" ELSE "create"]
            /\ UNCHANGED dep
  /\ UNCHANGED <<svc, pods, strict, poll, state, stopCh, crashCh, signalled, del, faults>>

EnsureService ==
  /\ serve.at = "service"
  /\ svc' = IF svc.owner = "none" THEN Own ELSE svc           \* AlreadyExists is fine
  /\ ServeAt("getsvc")
  /\ UNCHANGED <<dep, pods, strict, poll, state, stopCh, crashCh, signalled, del, faults>>

EnsureGetsService ==
  /\ serve.at = "getsvc"
  /\ CASE svc.owner = "none" -> svc' = Own /\ ServeAt("serving")
       [] svc.owner = "foreign" -> ServeAt("error") /\ UNCHANGED svc
       [] OTHER -> ServeAt(IF svc.drifted THEN "update" ELSE "serving") /\ UNCHANGED svc
  /\ UNCHANGED <<dep, pods, strict, poll, state, stopCh, crashCh, signalled, del, faults>>

EnsureUpdates ==
  /\ serve.at = "update"
  /\ svc' = [svc EXCEPT !.drifted = FALSE]                    \* NotFound is fine
  /\ ServeAt("serving")
  /\ UNCHANGED <<dep, pods, strict, poll, state, stopCh, crashCh, signalled, del, faults>>

-----------------------------------------------------------------------------
\* pollOnce.  It goes on until serveCmd returns.
Polling == serve.at \in {"serving", "signal", "stop", "crash"}
PollAt(at) == poll' = [poll EXCEPT !.at = at]

PollGets ==
  /\ Polling /\ poll.at = "idle"
  /\ IF dep.owner = "none"
       THEN /\ state' = [state EXCEPT !.ready = FALSE] /\ stopCh' = TRUE /\ UNCHANGED poll
       ELSE /\ PollAt("list") /\ UNCHANGED <<state, stopCh>>
  /\ UNCHANGED <<clusterVars, strict, serve, crashCh, signalled, del, faults>>

PollFails ==
  /\ Polling /\ poll.at \in {"idle", "list"}
  /\ Fault
  /\ state' = [state EXCEPT !.ready = FALSE, !.upstream = IF poll.at = "list" THEN 0 ELSE @]
  /\ PollAt("idle")
  /\ UNCHANGED <<clusterVars, strict, serve, stopCh, crashCh, signalled, del>>

\* findPod and podCrashState; setReady comes before the upstream is stored.
PollLists ==
  /\ Polling /\ poll.at = "list"
  /\ LET live == {p \in Pods : Live(p)}
         pod == IF live = {} THEN 0 ELSE CHOOSE p \in live : TRUE
         crashed == pod # 0 /\ pod \in {p \in live : pods[p] = "crashed"}
         isReady == pod # 0 /\ pod \in {p \in live : pods[p] = "ready"}
     IN IF crashed
          THEN /\ poll' = [at |-> IF stopCh THEN "idle" ELSE "fail", pod |-> pod, ready |-> FALSE]
               /\ UNCHANGED state
          ELSE /\ state' = [state EXCEPT !.ready = isReady]
               /\ poll' = [at |-> "store", pod |-> pod, ready |-> isReady]
  /\ UNCHANGED <<clusterVars, strict, serve, stopCh, crashCh, signalled, del, faults>>

\* The upstream; what follows the pod's log is left out.
PollStores ==
  /\ Polling /\ poll.at = "store"
  /\ state' = [state EXCEPT !.upstream = poll.pod]
  /\ poll' = [at |-> "idle", pod |-> 0, ready |-> FALSE]
  /\ UNCHANGED <<clusterVars, strict, serve, stopCh, crashCh, signalled, del, faults>>

\* fail: not ready, the log flushed, cleanupOwned, and then the code.
FailStops ==
  /\ Polling /\ poll.at = "fail"
  /\ state' = [state EXCEPT !.ready = FALSE]
  /\ PollAt("owndep")
  /\ UNCHANGED <<clusterVars, strict, serve, stopCh, crashCh, signalled, del, faults>>

FailGets(what, object, yes, no) ==
  /\ Polling /\ poll.at = what
  /\ \/ PollAt(IF object.owner = "own" THEN yes ELSE no) /\ UNCHANGED faults
     \/ Fault /\ PollAt(no)
  /\ UNCHANGED <<clusterVars, strict, serve, state, stopCh, crashCh, signalled, del>>

FailDeletesDeployment ==
  /\ Polling /\ poll.at = "deldep"
  /\ \/ DeleteDeployment /\ UNCHANGED faults
     \/ Fault /\ UNCHANGED clusterVars
  /\ PollAt("ownsvc")
  /\ UNCHANGED <<strict, serve, state, stopCh, crashCh, signalled, del>>

FailDeletesService ==
  /\ Polling /\ poll.at = "delsvc"
  /\ \/ svc' = Nothing /\ UNCHANGED <<dep, pods, faults>>
     \/ Fault /\ UNCHANGED clusterVars
  /\ PollAt("code")
  /\ UNCHANGED <<strict, serve, state, stopCh, crashCh, signalled, del>>

FailSendsCode ==
  /\ Polling /\ poll.at = "code"
  /\ crashCh' = TRUE
  /\ poll' = [at |-> "idle", pod |-> 0, ready |-> FALSE]
  /\ UNCHANGED <<clusterVars, strict, serve, state, stopCh, signalled, del, faults>>

Cleanup ==
  \/ FailStops \/ FailGets("owndep", dep, "deldep", "ownsvc") \/ FailDeletesDeployment
  \/ FailGets("ownsvc", svc, "delsvc", "code") \/ FailDeletesService \/ FailSendsCode

-----------------------------------------------------------------------------
\* serveCmd: the signal, the select, and the end after srv.Shutdown.
Signal ==
  /\ ~signalled /\ serve.at = "serving"
  /\ signalled' = TRUE
  /\ UNCHANGED <<clusterVars, strict, serve, poll, state, stopCh, crashCh, del, faults>>

Selects(reason) ==
  /\ serve.at = "serving"
  /\ CASE reason = "signal" -> signalled [] reason = "stop" -> stopCh [] reason = "crash" -> crashCh
  /\ crashCh' = (crashCh /\ reason # "crash")
  /\ ServeAt(reason)
  /\ UNCHANGED <<clusterVars, strict, poll, state, stopCh, signalled, del, faults>>

ServeReturns ==
  /\ serve.at \in {"signal", "stop", "crash"}
  /\ ServeAt([signal |-> "signalled", stop |-> "stopped", crash |-> "crashed"][serve.at])
  /\ poll' = [at |-> "idle", pod |-> 0, ready |-> FALSE]
  /\ UNCHANGED <<clusterVars, strict, state, stopCh, crashCh, signalled, del, faults>>

-----------------------------------------------------------------------------
\* deleteModel, once; "early": it began before serve had made its objects.
DeleteAt(at) == del' = [del EXCEPT !.at = at]

DeleteBegins ==
  /\ del.at = "none" /\ serve.at # "start"
  /\ \/ /\ dep.owner # "foreign"
        /\ del' = [at |-> IF dep.owner = "own" THEN "deldep" ELSE "getsvc", found |-> FALSE,
                   early |-> serve.at \in Ensuring]
     \/ dep.owner = "foreign" /\ DeleteAt("error")            \* verifyOwnership
  /\ UNCHANGED <<clusterVars, wrapperVars, faults>>

DeleteDeletesDeployment ==
  /\ del.at = "deldep"
  /\ DeleteDeployment
  /\ del' = [del EXCEPT !.at = "getsvc", !.found = TRUE]
  /\ UNCHANGED <<wrapperVars, faults>>

DeleteGetsService ==
  /\ del.at = "getsvc"
  /\ DeleteAt(CASE svc.owner = "own" -> "delsvc" [] svc.owner = "foreign" -> "error"
                [] OTHER -> IF del.found THEN "wait" ELSE "ok")
  /\ UNCHANGED <<clusterVars, wrapperVars, faults>>

DeleteDeletesService ==
  /\ del.at = "delsvc"
  /\ svc' = Nothing
  /\ del' = [del EXCEPT !.at = "wait", !.found = TRUE]
  /\ UNCHANGED <<dep, pods, wrapperVars, faults>>

\* waitForPodsGone: a pod that is terminating is still there.
\* Mutant: one that terminates is taken for gone.
GoneOrLeaving(p) == ~Live(p)
Gone(p) == pods[p] = "none"

DeleteWaits ==
  /\ del.at = "wait"
  /\ \/ (\A p \in Pods : Gone(p)) /\ DeleteAt("ok")
     \/ (\E p \in Pods : ~Gone(p)) /\ DeleteAt("error")
  /\ UNCHANGED <<clusterVars, wrapperVars, faults>>

DeleteFails ==
  /\ del.at \in {"deldep", "getsvc", "delsvc", "wait"}
  /\ Fault /\ DeleteAt("error")
  /\ UNCHANGED <<clusterVars, wrapperVars>>

Next ==
  \/ \E owner \in {"none", "own", "foreign"} : \E svcOwner \in {"none", owner} :
       \E drifted \in {FALSE, owner = "own"} : FoundAtStart(owner, drifted, svcOwner)
  \/ \E p \in Pods : PodStarts(p) \/ PodChanges(p) \/ PodGoes(p)
  \/ DeploymentGoes \/ NameTaken \/ NameFreed
  \/ EnsureFails \/ EnsureGets \/ EnsureDeletes \/ EnsureWaits \/ EnsureCreates
  \/ EnsureService \/ EnsureGetsService \/ EnsureUpdates
  \/ PollGets \/ PollFails \/ PollLists \/ PollStores \/ Cleanup
  \/ Signal \/ (\E reason \in {"signal", "stop", "crash"} : Selects(reason)) \/ ServeReturns
  \/ DeleteBegins \/ DeleteDeletesDeployment \/ DeleteGetsService \/ DeleteDeletesService
  \/ DeleteWaits \/ DeleteFails

Spec == Init /\ [][Next]_kubeVars

-----------------------------------------------------------------------------
\* --strict: what serve put in the place of a Deployment that drifted is there
\* to stay, though the old one may linger under the same name; unless "delete"
\* or a crash takes it away.
ReplacementStays ==
  (strict /\ serve.at = "serving" /\ del.at = "none" /\ poll.at \in {"idle", "list", "store", "fail"} /\ ~crashCh) =>
    dep.owner = "own" /\ ~dep.leaving /\ ~dep.drifted

\* After a backend crashed and no call failed, nothing of the model is left for
\* the next start to adopt.
CrashLeavesNothing ==
  (serve.at = "crashed" /\ faults = 0) => (dep.owner # "own" \/ dep.leaving) /\ svc.owner # "own"

\* "delete" says so only when the pods are gone, if it found something to delete
\* and serve had made its objects before.
DeleteFreesNode ==
  (del.at = "ok" /\ del.found /\ ~del.early) =>
    (\A p \in Pods : ~Live(p) /\ pods[p] # "leaving") /\ (dep.owner # "own" \/ dep.leaving)

\* The wrapper stops for a Deployment that is gone, not for a call that failed.
StopsWhenGone == serve.at = "stopped" => stopCh /\ (dep.owner # "own" \/ dep.leaving)

BackendIsOwn ==
  ReplacementStays /\ CrashLeavesNothing /\ DeleteFreesNode /\ StopsWhenGone
=============================================================================
