----------------------------- MODULE KubeObjects -----------------------------
(***************************************************************************)
(* The objects kubeswap makes of its flags (cmd/kubeswap/main.go,          *)
(* objects.go, toConfig of serve.go): what the flags may be, the           *)
(* Deployment and the Service they are rendered to, and the comparison     *)
(* with what the cluster has that decides, under --strict, if a backend is *)
(* replaced.  A Deployment that is kept though it drifted serves the wrong *)
(* model; one that is replaced though it did not costs minutes of loading. *)
(* An entry "a=b" or "a:b:c" is the tuple of its fields, a path with "/"   *)
(* in it the tuple of its parts, "!" a field no rule of Kubernetes accepts.*)
(***************************************************************************)
EXTENDS Integers, Sequences, FiniteSets

CONSTANTS FlagSets,       \* the flags of one model's serve, or start, to try
          Unrooted,       \* paths that do not start with "/"
          SelectorLabels, \* podSelectorLabels of the model
          MaxPort         \* 65535

VARIABLES round,          \* "start", "up", "edited", "done" or "refused"
          flags,          \* of the last command
          deployment,     \* what the cluster has
          service,
          replaced        \* the last command replaced the Deployment

objVars == <<round, flags, deployment, service, replaced>>

Elements(s) == {s[i] : i \in DOMAIN s}
LastOf(s, Has(_)) == s[CHOOSE i \in DOMAIN s : Has(s[i]) /\ \A j \in DOMAIN s : Has(s[j]) => j <= i]
\* A map that is filled in order: the last entry of a key stays.
ByKey(s, Key(_), Value(_)) ==
  [k \in {Key(s[i]) : i \in DOMAIN s} |-> Value(LastOf(s, LAMBDA e : Key(e) = k))]
Over(new, old) == [k \in DOMAIN new \union DOMAIN old |-> IF k \in DOMAIN new THEN new[k] ELSE old[k]]
Times(s, e) == Cardinality({i \in DOMAIN s : s[i] = e})
SameBag(s, t) == Len(s) = Len(t) /\ \A e \in Elements(s) : Times(s, e) = Times(t, e)
First(e) == e[1]
Second(e) == e[2]

-----------------------------------------------------------------------------
\* The flags.
Pairs(entries) == \A e \in Elements(entries) : Len(e) = 2 /\ e[1] \notin {"", "!"}
Unique(entries) == Cardinality({e[1] : e \in Elements(entries)}) = Len(entries)

parseEnvVars(entries) == Pairs(entries)
parseKeyValues(entries) == Pairs(entries) /\ \A e \in Elements(entries) : e[2] # "!"
parseGPUs(entries) == \A e \in Elements(entries) : Len(e) = 2 /\ e[1] # "" /\ e[2] \in Nat \ {0}
parseResourceClaims(entries) ==
  Pairs(entries) /\ (\A e \in Elements(entries) : e[2] \notin {"", "!"}) /\ Unique(entries)
\* A quantity that does not parse is -1.
parseResources(entries) == Pairs(entries) /\ \A e \in Elements(entries) : e[2] # -1
parseServicePorts(entries) ==
  Pairs(entries) /\ (\A e \in Elements(entries) : e[2] \in 1..MaxPort) /\ Unique(entries)

Operator(e) == IF e[2] = "" THEN "Equal" ELSE e[2]
parseTolerations(entries) ==
  \A e \in Elements(entries) :
    /\ Len(e) = 4 /\ e[3] # "!"
    /\ e[4] \in {"", "NoSchedule", "PreferNoSchedule", "NoExecute"}
    /\ \/ Operator(e) = "Equal" /\ e[1] # ""
       \/ Operator(e) = "Exists" /\ e[3] = ""

\* nfsSource: what is before the first "/", and the rest.
Server(source) == source[1]
Export(source) == Tail(source)
parseVolumes(entries) ==
  \A e \in Elements(entries) :
    /\ Len(e) \in {3, 4} /\ (Len(e) = 4 => e[4] = "ro")
    /\ e[1] \in {"pvc", "emptydir", "hostpath", "nfs"}
    /\ e[2] # <<"">> /\ e[3] # ""
    /\ e[1] = "nfs" => Server(e[2]) # "" /\ Export(e[2]) \notin {<<>>, <<"">>}

Reserved == DOMAIN SelectorLabels \union {"app"}

\* validateServeFlags and toConfig, as far as they refuse.
Accepts(f) ==
  /\ f.image # "" /\ f.port \in 1..MaxPort /\ f.grace >= 0
  /\ f.health \notin Unrooted /\ f.liveness \notin Unrooted
  /\ parseEnvVars(f.env) /\ parseGPUs(f.gpus) /\ parseResourceClaims(f.claims)
  /\ parseKeyValues(f.nodeSel) /\ parseTolerations(f.tols) /\ parseVolumes(f.volumes)
  /\ parseKeyValues(f.labels) /\ \A e \in Elements(f.labels) : e[1] \notin Reserved
  /\ parseResources(f.requests) /\ parseResources(f.limits)
  /\ parseServicePorts(f.servicePorts)
  /\ \A e \in Elements(f.servicePorts) : e[1] # "http" /\ e[2] # f.port

-----------------------------------------------------------------------------
\* The objects.
Probe(path, port, delay, period, timeout, failures) ==
  [path |-> path, port |-> port, delay |-> delay, period |-> period,
   timeout |-> timeout, failures |-> failures]
livenessPath(f) == IF f.liveness # "" THEN f.liveness ELSE f.health
probeTimeout(f) == IF f.probeTimeout >= 1 THEN f.probeTimeout ELSE 1
startupFailureThreshold(f) == ((IF f.startup > 0 THEN f.startup ELSE 600) + 4) \div 5

renderPorts(f) == <<<<"http", f.port>>>> \o f.servicePorts
\* A GPU is requested and limited; an entry of --request or --limit prevails.
renderResources(f) ==
  LET gpus == ByKey(f.gpus, First, Second)
  IN [requests |-> Over(ByKey(f.requests, First, Second), gpus),
      limits |-> Over(ByKey(f.limits, First, Second), gpus),
      claims |-> [i \in DOMAIN f.claims |-> f.claims[i][1]]]
renderTolerations(f) ==
  [i \in DOMAIN f.tols |-> [key |-> f.tols[i][1], operator |-> Operator(f.tols[i]),
                            value |-> f.tols[i][3], effect |-> f.tols[i][4], seconds |-> -1]]
\* The i-th volume and its mount are named for their place.
ReadOnly(e) == Len(e) = 4
renderVolumes(f) ==
  [i \in DOMAIN f.volumes |->
     LET e == f.volumes[i]
     IN [name |-> i, kind |-> e[1], from |-> IF e[1] = "emptydir" THEN <<>> ELSE e[2],
         readOnly |-> e[1] \in {"pvc", "nfs"} /\ ReadOnly(e)]]
renderMounts(f) ==
  [i \in DOMAIN f.volumes |->
     [name |-> i, path |-> f.volumes[i][3], readOnly |-> ReadOnly(f.volumes[i])]]

renderDeployment(f) ==
  LET Check(path, delay, period, failures) ==
        Probe(path, f.port, delay, period, probeTimeout(f), failures)
      extra == ByKey(f.labels, First, Second)
      app == [app |-> "kubeswap"]
  IN [labels |-> Over(extra, Over([k \in DOMAIN SelectorLabels \ {"deployment"} |-> SelectorLabels[k]], app)),
      podLabels |-> Over(extra, Over(SelectorLabels, app)),
      image |-> f.image, command |-> f.command, args |-> f.args,
      env |-> f.env, ports |-> renderPorts(f), resources |-> renderResources(f),
      readiness |-> Check(f.health, 2, 5, 3),
      liveness |-> Check(livenessPath(f), 30, 15, 3),
      startup |-> Check(livenessPath(f), 0, 5, startupFailureThreshold(f)),
      volumes |-> renderVolumes(f), mounts |-> renderMounts(f),
      podClaims |-> f.claims,
      nodeSelector |-> ByKey(f.nodeSel, First, Second),
      tolerations |-> renderTolerations(f), grace |-> f.grace]

renderService(f) ==
  LET ports == renderPorts(f)
  IN [selector |-> SelectorLabels,
      ports |-> [i \in DOMAIN ports |->
                   [name |-> ports[i][1], port |-> ports[i][2], target |-> ports[i][2]]]]

-----------------------------------------------------------------------------
\* The comparison of what is there with what is wanted.
envsEqual(a, b) ==
  LET ma == ByKey(a, First, Second)  mb == ByKey(b, First, Second)
  IN Len(a) = Len(b) /\ \A k \in DOMAIN ma : k \in DOMAIN mb /\ mb[k] = ma[k]
SameByName(a, b, Value(_)) ==
  ByKey(a, LAMBDA e : e.name, Value) = ByKey(b, LAMBDA e : e.name, Value)
portsEqual(a, b) == ByKey(a, First, Second) = ByKey(b, First, Second)
podResourceClaimsEqual(a, b) == ByKey(a, First, Second) = ByKey(b, First, Second)
containerClaimsEqual(a, b) == SameBag(a, b)
tolerationsEqual(a, b) == SameBag(a, b)
mountsEqual(a, b) == SameByName(a, b, LAMBDA e : <<e.path, e.readOnly>>)
\* Mutant: a mount that became read-only is not seen.
mountsEqualPath(a, b) == SameByName(a, b, LAMBDA e : e.path)
\* The source of a claim is its name alone: that it is read-only the mount tells.
Source(v) == <<v.kind, v.from, v.kind = "nfs" /\ v.readOnly>>
volumesEqual(a, b) ==
  LET ma == ByKey(a, LAMBDA v : v.name, Source)
  IN /\ Cardinality(DOMAIN ma) = Len(b)
     /\ \A v \in Elements(b) : v.name \in DOMAIN ma /\ ma[v.name] = Source(v)
resourcesEqual(a, b) ==
  a.limits = b.limits /\ a.requests = b.requests /\ containerClaimsEqual(a.claims, b.claims)

deploymentSpecMatches(have, want) ==
  /\ have.labels = want.labels
  /\ have.nodeSelector = want.nodeSelector
  /\ tolerationsEqual(have.tolerations, want.tolerations)
  /\ volumesEqual(have.volumes, want.volumes)
  /\ podResourceClaimsEqual(have.podClaims, want.podClaims)
  /\ have.grace = want.grace /\ have.image = want.image
  /\ have.command = want.command /\ have.args = want.args
  /\ envsEqual(have.env, want.env)
  /\ mountsEqual(have.mounts, want.mounts)
  /\ portsEqual(have.ports, want.ports)
  /\ have.readiness = want.readiness /\ have.liveness = want.liveness /\ have.startup = want.startup
  /\ resourcesEqual(have.resources, want.resources)

serviceSpecMatches(have, want) ==
  /\ have.selector = want.selector
  /\ SameByName(have.ports, want.ports, LAMBDA p : <<p.port, p.target>>)

-----------------------------------------------------------------------------
NoFlags == [strict |-> FALSE]

Init ==
  /\ round = "start" /\ flags = NoFlags /\ replaced = FALSE
  /\ deployment = <<>> /\ service = <<>>

Refuse(f) ==
  /\ round = "start" /\ ~Accepts(f)
  /\ round' = "refused" /\ flags' = f
  /\ UNCHANGED <<deployment, service, replaced>>

Create(f) ==
  /\ round = "start" /\ Accepts(f)
  /\ round' = "up" /\ flags' = f
  /\ deployment' = renderDeployment(f) /\ service' = renderService(f)
  /\ UNCHANGED replaced

\* Somebody edits the objects (external): values, order, a field no flag sets.
HandEdits(d) ==
  {[d EXCEPT !.grace = @ + 1], [d EXCEPT !.startup.failures = 1],
   [d EXCEPT !.env = <<<<"EXTRA", "">>>> \o @],
   [d EXCEPT !.env = [i \in DOMAIN @ |-> <<@[i][1], "">>]],
   [d EXCEPT !.env = [i \in DOMAIN @ |-> <<IF i = 1 THEN "OTHER" ELSE @[i][1], @[i][2]>>]],
   [d EXCEPT !.ports = [i \in DOMAIN @ |-> @[Len(@) + 1 - i]]],
   [d EXCEPT !.tolerations = [i \in DOMAIN @ |-> [@[i] EXCEPT !.seconds = 0]]],
   [d EXCEPT !.tolerations = [i \in DOMAIN @ |-> @[1]]],
   [d EXCEPT !.podClaims = [i \in DOMAIN @ |-> <<@[i][1], "">>]],
   [d EXCEPT !.resources.claims = <<>>],
   [d EXCEPT !.mounts = [i \in DOMAIN @ |-> [@[i] EXCEPT !.readOnly = ~@]]],
   [d EXCEPT !.volumes = @ \o <<[name |-> 9, kind |-> "emptydir", from |-> <<>>, readOnly |-> FALSE]>>,
             !.mounts = @ \o <<[name |-> 9, path |-> "/scratch", readOnly |-> FALSE]>>]}
HandEdit ==
  /\ round = "up"
  /\ round' = "edited"
  /\ \/ deployment' \in HandEdits(deployment) /\ UNCHANGED service
     \/ /\ service' \in {[service EXCEPT !.ports = Tail(@)], [service EXCEPT !.ports[1].target = 0]}
        /\ UNCHANGED deployment
  /\ UNCHANGED <<flags, replaced>>

\* The next serve, or start, of the model: it adopts the Deployment, or with
\* --strict replaces the one that drifted; the Service is updated in place.
Adopt(f) ==
  /\ round \in {"up", "edited"} /\ Accepts(f)
  /\ LET want == renderDeployment(f)
         drifted == f.strict /\ ~deploymentSpecMatches(deployment, want)
     IN /\ replaced' = drifted
        /\ deployment' = IF drifted THEN want ELSE deployment
  /\ service' = IF serviceSpecMatches(service, renderService(f)) THEN service ELSE renderService(f)
  /\ round' = "done" /\ flags' = f

Next ==
  \/ round \in {"start", "up", "edited"} /\ \E f \in FlagSets : Refuse(f) \/ Create(f) \/ Adopt(f)
  \/ HandEdit

Spec == Init /\ [][Next]_objVars

-----------------------------------------------------------------------------
\* What a backend is, whatever its lists are ordered by: what it runs, what it
\* sees at each path, what it gets, where it may be placed and how it is probed.
SameBackend(d, e) ==
  LET Env(x) == ByKey(x.env, First, Second)
      Mounted(x) == {<<m.path, m.readOnly, LastOf(x.volumes, LAMBDA v : v.name = m.name).from,
                       LastOf(x.volumes, LAMBDA v : v.name = m.name).kind>> : m \in Elements(x.mounts)}
      Plain(x) == <<x.image, x.command, x.args, x.readiness, x.liveness, x.startup, x.grace,
                    x.nodeSelector, x.labels, x.resources.requests, x.resources.limits>>
  IN /\ Plain(d) = Plain(e) /\ Env(d) = Env(e) /\ Mounted(d) = Mounted(e)
     /\ Elements(d.ports) = Elements(e.ports)
     /\ SameBag(d.tolerations, e.tolerations)
     /\ Elements(d.podClaims) = Elements(e.podClaims)
     /\ Elements(d.resources.claims) = Elements(e.resources.claims)

\* The comparison is of mappings when no name of --env is given twice.
PlainEnv(f) == Unique(f.env)

\* Under --strict the backend is what the flags say, whatever it was, and under
\* no flags is one replaced that already is; the Service always fits (objects.go).
StrictIsExact ==
  round = "done" =>
    LET want == renderDeployment(flags)
    IN /\ flags.strict /\ PlainEnv(flags) /\ Unique(deployment.env) => SameBackend(deployment, want)
       /\ replaced => flags.strict
       /\ Elements(service.ports) = Elements(renderService(flags).ports)
       /\ service.selector = renderService(flags).selector

\* A comparison that says "the same" only of what is the same, and of all that
\* is but for the order of the volumes, which are named for their place.
NoNeedlessReplace ==
  round \in {"up", "edited"} =>
    \A f \in FlagSets :
      (Accepts(f) /\ SameBackend(deployment, renderDeployment(f))
                  /\ deployment.mounts = renderMounts(f))
        => deploymentSpecMatches(deployment, renderDeployment(f))

\* What was accepted is rendered to objects the cluster takes: names are there
\* once, the selector finds the pods and no flag can change whom it finds, a GPU
\* is limited to what is requested, loading has as long as --startup-timeout.
RenderedIsValid ==
  round = "up" =>
    /\ Unique(deployment.ports) /\ Unique(deployment.podClaims)
    /\ \A k \in DOMAIN SelectorLabels : deployment.podLabels[k] = SelectorLabels[k]
    /\ \A v \in Elements(deployment.volumes) :
         \E m \in Elements(deployment.mounts) : m.name = v.name /\ (v.readOnly => m.readOnly)
    /\ \A e \in Elements(flags.gpus) :
         (\A o \in Elements(flags.requests) \union Elements(flags.limits) : o[1] # e[1]) =>
           deployment.resources.requests[e[1]] = deployment.resources.limits[e[1]]
    /\ flags.startup > 0 =>
         deployment.startup.failures * deployment.startup.period - flags.startup \in 0..4

ObjectsAreExact == StrictIsExact /\ NoNeedlessReplace /\ RenderedIsValid
=============================================================================
