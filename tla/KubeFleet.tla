------------------------------ MODULE KubeFleet ------------------------------
(***************************************************************************)
(* The models of one namespace and the commands of kubeswap that share it  *)
(* (cmd/kubeswap/naming.go, manage.go, createMissing of serve.go): "start" *)
(* makes a model's claims, Deployment and Service, "delete" takes them     *)
(* away, "gc" deletes what no allowed model needs, "status" and "logs"     *)
(* look.  Each call to the API is a step.  One model's serve, with its     *)
(* pods and its Service, is Kubeswap.  An ID and a name are the sequences  *)
(* of their characters.                                                    *)
(***************************************************************************)
EXTENDS Naturals, Sequences, FiniteSets
LOCAL INSTANCE SequencesExt

CONSTANTS Letters,      \* "a" to "z" and "0" to "9"
          LowerOf,      \* from "A" to "Z" to "a" to "z"
          MaxLabel,     \* 63
          MaxPrefix,    \* 50
          idHash,       \* per ID, eight characters that no other ID has
          Ids,          \* model IDs of the namespace
          OtherIds,     \* further IDs, for the names alone
          Mounts,       \* per ID, its --volume pvc: entries, in order
          Fleets,       \* what may be there at first: models, orphaned Services,
                        \* claims, Deployments without the annotation, users' claims
          Allowed,      \* what gc keeps
          MaxCommands,  \* bound
          LookPods      \* lists of pods to look at

VARIABLES objects,      \* the Deployments, Services and claims
          jobs,         \* per command, where it is and what it has read
          wrong,        \* a deletion hit what was not its own when it was read
          podList,      \* the pods as listed
          strangers     \* what was there first and is no model's

fleetVars == <<objects, jobs, wrong, podList, strangers>>

-----------------------------------------------------------------------------
\* Names.
TrimEnd(s) == IF s # <<>> /\ Last(s) = "-" THEN Front(s) ELSE s
Cut(s, n) == TrimEnd(SubSeq(s, 1, IF Len(s) < n THEN Len(s) ELSE n))
sanitizeModelID(id) ==
  LET Add(s, c) == CASE c \in Letters        -> Append(s, c)
                     [] c \in DOMAIN LowerOf -> Append(s, LowerOf[c])
                     [] s # <<>> /\ Last(s) # "-" -> Append(s, "-")
                     [] OTHER                -> s
  IN Cut(TrimEnd(FoldLeft(Add, <<>>, id)), MaxLabel)
Nameable(id) == sanitizeModelID(id) # <<>>
deploymentName(id) == Cut(sanitizeModelID(id), MaxPrefix) \o <<"-">> \o idHash[id]
serviceName(id) == deploymentName(id) \o <<"-", "s", "v", "c">>

\* managedLabels, with the deployment label of podSelectorLabels for a pod.
Label(id) == sanitizeModelID(id)

Made(kind, name, id) == [kind |-> kind, name |-> name, label |-> Label(id), owner |-> id, writable |-> TRUE]
DeploymentOf(id) == Made("deployment", deploymentName(id), id)
ServiceOf(id) == Made("service", serviceName(id), id)
At(kind, name) == {o \in objects : o.kind = kind /\ o.name = name}
There(kind, name) == At(kind, name) # {}

\* The managed label is there, the annotation is the ID, or there is none and
\* the label is right.
verifyOwnership(o, id) ==
  /\ o.label # <<>>
  /\ o.owner = id \/ (o.owner = <<>> /\ o.label = Label(id))

-----------------------------------------------------------------------------
Idle == [op |-> "none", model |-> <<>>, at |-> "none", volumes |-> FALSE, dry |-> FALSE,
         todo |-> <<>>, rest |-> {}, report |-> {}, began |-> {}, alone |-> TRUE]

Over == {"done", "refused", "failed"}

Init ==
  /\ objects = {} /\ jobs = <<>> /\ wrong = FALSE /\ podList = <<>> /\ strangers = {}

Fresh == jobs = <<>> /\ objects = {} /\ podList = <<>>

Found(fleet) ==
  /\ objects' =
       {DeploymentOf(id) : id \in fleet.loaded} \union {ServiceOf(id) : id \in fleet.loaded \union fleet.orphans}
         \union UNION {Range([i \in DOMAIN Mounts[id] |-> Made("claim", Mounts[id][i].name, id)]) : id \in fleet.claimed}
         \union {[Made("deployment", Label(id), <<>>) EXCEPT !.label = Label(id)] : id \in fleet.old}
         \union {[Made("claim", name, <<>>) EXCEPT !.label = <<>>, !.writable = FALSE] : name \in fleet.users}
  /\ strangers' = {o \in objects' : o.label = <<>> \/ (o.kind = "deployment" /\ o.owner = <<>>)}
  /\ UNCHANGED <<jobs, wrong, podList>>

Look(list) ==
  /\ podList' = [i \in DOMAIN list |->
       [owner |-> list[i].of, label |-> Label(list[i].of),
        deployment |-> IF list[i].old THEN <<>> ELSE deploymentName(list[i].of),
        ready |-> list[i].ready, leaving |-> list[i].leaving, age |-> list[i].age]]
  /\ UNCHANGED <<objects, jobs, wrong, strangers>>

\* What was there when a command began matters as long as it is alone.
Issue(new) ==
  LET busy == \E c \in DOMAIN jobs : jobs[c].at \notin Over
  IN /\ objects # {} /\ Len(jobs) < MaxCommands
     /\ jobs' = Append([c \in DOMAIN jobs |-> IF jobs[c].at \in Over THEN [Idle EXCEPT !.at = "done"]
                                              ELSE [jobs[c] EXCEPT !.alone = FALSE, !.began = {}]],
                       [new EXCEPT !.alone = ~busy, !.began = IF busy THEN {} ELSE objects])
     /\ UNCHANGED <<objects, wrong, podList, strangers>>

Start(id) == Issue([Idle EXCEPT !.op = "start", !.model = id, !.at = "deployment"])
Delete(id, volumes) ==
  Issue([Idle EXCEPT !.op = "delete", !.model = id, !.at = "deployment", !.volumes = volumes])
GC(volumes, dry) == Issue([Idle EXCEPT !.op = "gc", !.at = "list", !.volumes = volumes, !.dry = dry])

To(c, at) == jobs' = [jobs EXCEPT ![c].at = at]
Read(c, at) == To(c, at) /\ UNCHANGED <<objects, wrong, podList, strangers>>
\* The object is not the model's, or a call fails: the command ends.
Fails(c) == Read(c, "refused")
CallFails(c) == jobs[c].at \notin Over /\ Read(c, "failed")
IsAt(c, ops, at) == jobs[c].op \in ops /\ jobs[c].at = at

-----------------------------------------------------------------------------
\* ensureResources: a Deployment that is there is adopted, or else its claims
\* are made first, one by one.
EnsureDeployment(c) ==
  LET id == jobs[c].model
  IN /\ IsAt(c, {"start"}, "deployment")
     /\ \/ /\ ~There("deployment", deploymentName(id))
           /\ jobs' = [jobs EXCEPT ![c].at = "volumes", ![c].todo = Mounts[id]]
           /\ UNCHANGED <<objects, wrong, podList, strangers>>
        \/ /\ There("deployment", deploymentName(id))
           /\ IF \A o \in At("deployment", deploymentName(id)) : verifyOwnership(o, id)
                THEN Read(c, "service") ELSE Fails(c)

\* A claim that is there is used as it is, whoever made it, if it can be
\* written where it must; what is missing is made for this model.
Claim(c) == Head(jobs[c].todo)
GetClaim(c) ==
  /\ IsAt(c, {"start"}, "volumes")
  /\ \/ jobs[c].todo = <<>> /\ Read(c, "create")
     \/ /\ jobs[c].todo # <<>> /\ ~There("claim", Claim(c).name) /\ Read(c, "claim")
     \/ /\ jobs[c].todo # <<>> /\ There("claim", Claim(c).name)
        /\ IF \A o \in At("claim", Claim(c).name) : Claim(c).readOnly \/ o.writable
             THEN /\ jobs' = [jobs EXCEPT ![c].todo = Tail(@)]
                  /\ UNCHANGED <<objects, wrong, podList, strangers>>
             ELSE Fails(c)
CreateClaim(c) ==
  /\ IsAt(c, {"start"}, "claim")
  /\ objects' = IF There("claim", Claim(c).name) THEN objects
                ELSE objects \union {Made("claim", Claim(c).name, jobs[c].model)}
  /\ jobs' = [jobs EXCEPT ![c].at = "volumes", ![c].todo = Tail(@)]
  /\ UNCHANGED <<wrong, podList, strangers>>

\* A name that stays taken is an error: nobody else is adopted here.
CreateDeployment(c) ==
  LET id == jobs[c].model
  IN /\ IsAt(c, {"start"}, "create")
     /\ IF There("deployment", deploymentName(id)) THEN Fails(c)
        ELSE /\ objects' = objects \union {DeploymentOf(id)}
             /\ To(c, "create service")
             /\ UNCHANGED <<wrong, podList, strangers>>

\* The Service is created with the Deployment, and then looked for in any case:
\* it may have been there, or be gone by now.  AlreadyExists is no error.
CreateService(c, at, next) ==
  LET id == jobs[c].model
  IN /\ IsAt(c, {"start"}, at)
     /\ objects' = IF There("service", serviceName(id)) THEN objects
                   ELSE objects \union {ServiceOf(id)}
     /\ To(c, next)
     /\ UNCHANGED <<wrong, podList, strangers>>
GetService(c) ==
  LET id == jobs[c].model
  IN /\ IsAt(c, {"start"}, "service")
     /\ IF ~There("service", serviceName(id)) THEN Read(c, "missing service")
        ELSE IF \A o \in At("service", serviceName(id)) : verifyOwnership(o, id)
          THEN Read(c, "done") ELSE Fails(c)

-----------------------------------------------------------------------------
\* deleteModel: each object is read, verified, and then deleted by its name.
Deletes == {"delete", "gc"}
GetToDelete(c, kind, name, next) ==
  /\ IsAt(c, Deletes, kind)
  /\ IF ~There(kind, name) THEN Read(c, next)
     ELSE IF \A o \in At(kind, name) : verifyOwnership(o, jobs[c].model)
       THEN Read(c, "delete " \o kind) ELSE Fails(c)
DeleteByName(c, kind, name, next) ==
  /\ IsAt(c, Deletes, "delete " \o kind)
  /\ objects' = objects \ At(kind, name)
  /\ wrong' = (wrong \/ \E o \in At(kind, name) :
                 o.owner # jobs[c].model \/ (jobs[c].op = "gc" /\ o.owner \in Allowed))
  /\ To(c, next)
  /\ UNCHANGED <<podList, strangers>>

\* The claims come from the labels, which siblings share: one that is not the
\* model's own ends the command, after the Deployment and the Service are gone.
\* Mutant: what the labels find is taken for the model's own.
ListedForModel(id) == {o \in objects : o.kind = "claim" /\ o.label = Label(id)}
ListedUnverified(id) == {[o EXCEPT !.owner = id] : o \in ListedForModel(id)}
ListClaims(c) ==
  /\ IsAt(c, Deletes, "claims")
  /\ jobs' = [jobs EXCEPT ![c].at = "claim",
               ![c].rest = IF jobs[c].volumes THEN ListedForModel(jobs[c].model) ELSE {}]
  /\ UNCHANGED <<objects, wrong, podList, strangers>>
DeleteClaim(c) ==
  /\ IsAt(c, Deletes, "claim")
  /\ \E o \in jobs[c].rest :
       IF ~verifyOwnership(o, jobs[c].model) THEN Fails(c)
       ELSE /\ objects' = objects \ At("claim", o.name)
            /\ wrong' = (wrong \/ ~jobs[c].volumes \/ (o \in objects /\ o.owner \notin {jobs[c].model, <<>>})
                               \/ (o \notin objects /\ \E p \in At("claim", o.name) : p.owner = <<>>))
            /\ jobs' = [jobs EXCEPT ![c].rest = @ \ {o}]
            /\ UNCHANGED <<podList, strangers>>
ClaimsGone(c) ==
  /\ IsAt(c, Deletes, "claim") /\ jobs[c].rest = {}
  /\ Read(c, IF jobs[c].op = "gc" THEN "next" ELSE "done")

\* gcCollect: the list is read once; a Deployment without the annotation cannot
\* be matched with a configuration, and stays; the first error ends it.
Collectable ==
  {o.owner : o \in {d \in objects : d.kind = "deployment" /\ d.label # <<>> /\ d.owner # <<>>}} \ Allowed
ListDeployments(c) ==
  /\ IsAt(c, {"gc"}, "list")
  /\ jobs' = [jobs EXCEPT ![c].at = IF jobs[c].dry THEN "done" ELSE "next",
                        ![c].report = IF jobs[c].dry THEN Collectable ELSE {},
                        ![c].todo = SetToSeq(Collectable)]
  /\ UNCHANGED <<objects, wrong, podList, strangers>>
CollectNext(c) ==
  /\ IsAt(c, {"gc"}, "next")
  /\ jobs' = [jobs EXCEPT ![c].report = IF jobs[c].model = <<>> THEN @ ELSE @ \union {jobs[c].model},
                        ![c].todo = IF @ = <<>> THEN @ ELSE Tail(@),
                        ![c].model = IF jobs[c].todo = <<>> THEN @ ELSE Head(jobs[c].todo),
                        ![c].at = IF jobs[c].todo = <<>> THEN "done" ELSE "deployment"]
  /\ UNCHANGED <<objects, wrong, podList, strangers>>

Next ==
  \/ /\ Fresh
     /\ (\E fleet \in Fleets : Found(fleet)) \/ (\E list \in LookPods : Look(list))
  \/ \E id \in Ids : Start(id) \/ \E volumes \in BOOLEAN : Delete(id, volumes)
  \/ GC(TRUE, FALSE) \/ GC(FALSE, FALSE) \/ GC(FALSE, TRUE)   \* a dry run deletes no claims
  \/ \E c \in DOMAIN jobs :
       \/ EnsureDeployment(c) \/ GetClaim(c) \/ CreateClaim(c) \/ CreateDeployment(c)
       \/ CreateService(c, "create service", "service") \/ GetService(c)
       \/ CreateService(c, "missing service", "done")
       \/ GetToDelete(c, "deployment", deploymentName(jobs[c].model), "service")
       \/ DeleteByName(c, "deployment", deploymentName(jobs[c].model), "service")
       \/ GetToDelete(c, "service", serviceName(jobs[c].model), "claims")
       \/ DeleteByName(c, "service", serviceName(jobs[c].model), "claims")
       \/ ListClaims(c) \/ DeleteClaim(c) \/ ClaimsGone(c)
       \/ ListDeployments(c) \/ CollectNext(c) \/ CallFails(c)

Spec == Init /\ [][Next]_fleetVars

-----------------------------------------------------------------------------
\* What the commands that look show: "logs" and serve take a ready pod if there
\* is one, then the newest; "status" takes the first that is listed.
LivePods == SelectSeq(podList, LAMBDA p : ~p.leaving)
\* Mutant: a pod is the model's if its label is.
PodsByLabel(id) == SelectSeq(LivePods, LAMBDA p : p.label = Label(id))
PodsOf(id) == SelectSeq(LivePods, LAMBDA p : p.label = Label(id) /\ p.deployment = deploymentName(id))
findModelPod(id) ==
  LET Better(p, q) == (p.ready /\ ~q.ready) \/ (p.ready = q.ready /\ p.age < q.age)
  IN FoldLeft(LAMBDA best, p : IF Better(p, best) THEN p ELSE best, PodsOf(id)[1], PodsOf(id))
\* A pod from before there was a deployment label goes by the model's label,
\* which was the Deployment's name.
StatusKey(p) == IF p.deployment = <<>> THEN p.label ELSE p.deployment
StatusPods(name) == SelectSeq(LivePods, LAMBDA p : StatusKey(p) = name)

-----------------------------------------------------------------------------
\* Every name is a DNS label, and no two IDs share a Deployment or a Service,
\* even those that share all the characters that are left (naming.go).
IsLabel(s) ==
  /\ s # <<>> /\ Len(s) <= MaxLabel
  /\ \A i \in DOMAIN s : s[i] \in Letters \union {"-"}
  /\ s[1] # "-" /\ s[Len(s)] # "-"
NamesAreOwn ==
  LET all == {id \in Ids \union OtherIds : Nameable(id)}
  IN \A id \in all :
       /\ IsLabel(Label(id)) /\ IsLabel(deploymentName(id)) /\ IsLabel(serviceName(id))
       /\ \A other \in all \ {id} :
            deploymentName(id) # deploymentName(other) /\ serviceName(id) # serviceName(other)

\* No pod of a sibling is shown; with one live pod, "status" and "logs" agree.
LooksAtOwn ==
  \A id \in Ids :
    LET shown == StatusPods(deploymentName(id))
    IN /\ (shown = <<>>) = (PodsOf(id) = <<>>)
       /\ PodsOf(id) # <<>> =>
            /\ findModelPod(id).owner = id /\ shown[1].owner = id
            /\ Len(PodsOf(id)) = 1 => findModelPod(id) = shown[1]
            /\ (\E i \in DOMAIN podList : LET p == podList[i]
                                        IN p.owner = id /\ p.deployment # <<>> /\ p.ready /\ ~p.leaving)
                 => findModelPod(id).ready

\* What a command that nothing interferes with leaves when it ends well: start
\* adds what its model lacks, delete takes what is its model's, gc what belongs
\* to the models that have a Deployment and are not allowed, and a dry run
\* names just those; and it ends well unless it has to refuse.
OwnOf(id, volumes, o) ==
  /\ verifyOwnership(o, id)
  /\ o.name \in {deploymentName(id), serviceName(id)} \/ (volumes /\ o.kind = "claim")
Needs(id) == {Made("claim", Mounts[id][i].name, id) : i \in DOMAIN Mounts[id]}
CollectableOf(all) ==
  {o.owner : o \in {d \in all : d.kind = "deployment" /\ d.owner # <<>>}} \ Allowed
Promised(c) ==
  LET id == jobs[c].model  was == jobs[c].began
      Has(o) == \E p \in was : p.kind = o.kind /\ p.name = o.name
  IN CASE jobs[c].op = "start" ->
            was \union {o \in {DeploymentOf(id), ServiceOf(id)} : ~Has(o)}
                \union (IF Has(DeploymentOf(id)) THEN {} ELSE {o \in Needs(id) : ~Has(o)})
       [] jobs[c].op = "delete" -> {o \in was : ~OwnOf(id, jobs[c].volumes, o)}
       [] jobs[c].dry -> was
       [] OTHER -> {o \in was : ~\E m \in CollectableOf(was) : OwnOf(m, jobs[c].volumes, o)}
\* Where it has to refuse: a claim that cannot be written, one of a sibling.
HasToRefuse(c) ==
  LET was == jobs[c].began  id == jobs[c].model
      Strange(m) == \E o \in was : o.kind = "claim" /\ o.label = Label(m) /\ ~verifyOwnership(o, m)
  IN CASE jobs[c].op = "start" ->
            /\ ~\E o \in was : o.kind = "deployment" /\ o.name = deploymentName(id)
            /\ \E i \in DOMAIN Mounts[id] : \E o \in was :
                 o.kind = "claim" /\ o.name = Mounts[id][i].name /\ ~o.writable /\ ~Mounts[id][i].readOnly
       [] jobs[c].op = "delete" -> jobs[c].volumes /\ Strange(id)
       [] OTHER -> jobs[c].volumes /\ \E m \in CollectableOf(was) : Strange(m)
CommandsKeepPromises ==
  \A c \in {Len(jobs)} \ {0} :
    jobs[c].at \in {"done", "refused"} /\ jobs[c].alone =>
      /\ HasToRefuse(c) = (jobs[c].at = "refused")
      /\ jobs[c].at = "done" => objects = Promised(c)
      /\ jobs[c].at = "done" /\ jobs[c].op = "gc" => jobs[c].report = CollectableOf(jobs[c].began)

\* However commands overlap, and wherever one fails, nothing is deleted that is
\* another model's, that nobody asked for or that gc must keep; what carries no
\* label of kubeswap, and the Deployment nobody is known to own, stay.
NothingOfOthers == ~wrong /\ strangers \subseteq objects

FleetIsSound ==
  /\ Fresh => NamesAreOwn
  /\ podList # <<>> => LooksAtOwn
  /\ CommandsKeepPromises
  /\ NothingOfOthers
=============================================================================
