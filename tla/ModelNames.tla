------------------------------ MODULE ModelNames ------------------------------
(***************************************************************************)
(* What a model name in a request leads to.  LoadConfigFromReader          *)
(* (internal/config/load.go) gathers the names of models, aliases, peers,  *)
(* selectors and profiles, normalizes the routing block and refuses what   *)
(* is ambiguous; server.New builds the routers from that; then a profile,  *)
(* a selector and the dispatch of a request each look a name up by rules   *)
(* of their own, and /upstream finds it in a path.  A name is a sequence   *)
(* of the segments that "/" joins.                                         *)
(***************************************************************************)
EXTENDS Integers, Sequences, FiniteSets

CONSTANTS Confs,     \* configurations, as decoded from YAML
          Tails      \* what follows a model's name in an /upstream path

VARIABLES cfg,            \* the accepted configuration, or NoConfig
          activeProfile   \* Server.activeProfile

namesVars == <<cfg, activeProfile>>

NoName == <<>>
DefaultGroup == "(default)"
Elements(s) == {s[i] : i \in DOMAIN s}
Names(c) == DOMAIN c.models
PeerModelFQN(peer, model) == peer \o model

-----------------------------------------------------------------------------
\* Aliases, with the keys of setParamsByID.
AliasesOf(c, m) == Elements(c.models[m].aliases) \cup (c.models[m].byID \ {m})

AliasTable(c) ==
  [a \in UNION {AliasesOf(c, m) : m \in Names(c)} |-> CHOOSE m \in Names(c) : a \in AliasesOf(c, m)]

AliasesAccepted(c) ==
  /\ \A m, n \in Names(c) : \A i \in DOMAIN c.models[m].aliases, j \in DOMAIN c.models[n].aliases :
       c.models[m].aliases[i] = c.models[n].aliases[j] => m = n /\ i = j
  /\ \A m \in Names(c) : \A k \in c.models[m].byID \ {m} :
       k \notin Names(c) /\ \A n \in Names(c) \ {m} : k \notin AliasesOf(c, n)

\* TTL and unloadTimeout: -1 and 0 stand for the global value.
Ttl(c, m) == IF c.models[m].ttl = -1 THEN c.globalTTL ELSE c.models[m].ttl

SettingsAccepted(c) ==
  c.globalTTL >= 0 /\ \A m \in Names(c) : Ttl(c, m) >= 0

-----------------------------------------------------------------------------
\* The two styles of routing configuration, and the engine they select.
Engine(c) == IF c.use = "" THEN "group" ELSE c.use

\* AddDefaultGroupToConfig: it puts its own group in the place of one that has
\* its name.
Grouped(c) == UNION {Elements(c.groups[g].members) : g \in DOMAIN c.groups}

\* Mutant: a model is left out when it has an alias that is in a group.
AddDefaultGroupByAlias(c) ==
  [g \in DOMAIN c.groups \cup {DefaultGroup} |->
     IF g = DefaultGroup
       THEN [swap |-> TRUE, exclusive |-> TRUE,
             members |-> {m \in Names(c) : m \notin Grouped(c) /\ AliasesOf(c, m) \cap Grouped(c) = {}}]
       ELSE [c.groups[g] EXCEPT !.members = Elements(@)]]
AddDefaultGroup(c) ==
  [g \in DOMAIN c.groups \cup {DefaultGroup} |->
     IF g = DefaultGroup
       THEN [swap |-> TRUE, exclusive |-> TRUE, members |-> Names(c) \ Grouped(c)]
       ELSE [c.groups[g] EXCEPT !.members = Elements(@)]]

\* Members are looked at after the default group was put in, and its own are
\* nobody else's.
RoutingAccepted(c) ==
  /\ c.topLevel => c.use = "" /\ c.sets = {}
  /\ Engine(c) \in {"group", "matrix", "capacity"}
  /\ Engine(c) = "matrix" => c.sets # {} /\ UNION c.sets \subseteq Names(c)
  /\ Engine(c) = "capacity" => \A m \in Names(c) : c.models[m].usage <= c.pool
  /\ Engine(c) = "group" => \A g, h \in DOMAIN c.groups \ {DefaultGroup} :
       \A i \in DOMAIN c.groups[g].members, j \in DOMAIN c.groups[h].members :
         c.groups[g].members[i] = c.groups[h].members[j] => g = h /\ i = j

-----------------------------------------------------------------------------
\* Lookups, over a configuration whose aliases are gathered.
RealModelName(c, s) ==
  IF s \in Names(c) THEN s ELSE IF s \in DOMAIN c.aliases THEN c.aliases[s] ELSE NoName

Offered(c) == UNION {{<<p, m>> : m \in Elements(c.peers[p])} : p \in DOMAIN c.peers}

\* The peer's model that a name stands for, as a set of one, or no one.
ResolvePeerModel(c, s) ==
  LET full == {o \in Offered(c) : PeerModelFQN(o[1], o[2]) = s}
      bare == {o \in Offered(c) : o[2] = s}
      found == IF full # {} THEN full ELSE bare
  IN IF Cardinality(found) = 1 THEN found ELSE {}

ResolveBaseModel(c, s) ==
  IF RealModelName(c, s) # NoName THEN RealModelName(c, s)
  ELSE IF ResolvePeerModel(c, s) # {} THEN s ELSE NoName

ValidatePeerNamespace(c) ==
  LET full(o) == PeerModelFQN(o[1], o[2])
  IN \A o \in Offered(c) :
       /\ \A q \in Offered(c) \ {o} : full(q) # full(o)
       /\ full(o) \notin Names(c) \cup DOMAIN c.aliases \cup DOMAIN c.selectors
       /\ \A p \in DOMAIN c.profiles : full(o) \notin DOMAIN c.profiles[p]

\* A spillover's targets as they are resolved.
Resolved(c, t) ==
  IF RealModelName(c, t) # NoName THEN RealModelName(c, t)
  ELSE LET o == CHOOSE q \in ResolvePeerModel(c, t) : TRUE IN PeerModelFQN(o[1], o[2])

LocalTargets(c, s) ==
  {RealModelName(c, t) : t \in Elements(c.selectors[s].targets)} \ {NoName}

RECURSIVE Usage(_, _)
Usage(c, models) ==
  IF models = {} THEN 0
  ELSE LET m == CHOOSE m \in models : TRUE IN c.models[m].usage + Usage(c, models \ {m})

ValidateSpilloverCoexistence(c, locals) ==
  Cardinality(locals) > 1 =>
    CASE Engine(c) = "capacity" -> Usage(c, locals) <= c.pool
      [] Engine(c) = "matrix" -> \E set \in c.sets : locals \subseteq set
      [] OTHER -> \E g \in DOMAIN c.routes : ~c.routes[g].swap /\ locals \subseteq c.routes[g].members

SelectorAccepted(c, s) ==
  LET sel == c.selectors[s] targets == sel.targets
  IN /\ s \notin Names(c) \cup DOMAIN c.aliases
     /\ sel.strategy \in {"warm", "pin", "spillover"} /\ targets # <<>>
     /\ \A t \in Elements(targets) :
          /\ t \notin DOMAIN c.selectors /\ ResolveBaseModel(c, t) # NoName
          /\ sel.strategy = "warm" => RealModelName(c, t) # NoName
     /\ sel.strategy = "spillover" =>
          /\ sel.spillover >= 1
          /\ Cardinality({Resolved(c, t) : t \in Elements(targets)}) = Len(targets)
          /\ ValidateSpilloverCoexistence(c, LocalTargets(c, s))

ValidateProfiles(c) ==
  /\ \A p \in DOMAIN c.profiles :
       /\ DOMAIN c.profiles[p] # {}
       /\ \A pin \in DOMAIN c.profiles[p] :
            LET target == c.profiles[p][pin]
            IN target = NoName \/ ResolveBaseModel(c, target) # NoName \/ target \in DOMAIN c.selectors
  /\ c.startup # "" => c.startup \in DOMAIN c.profiles

\* validateTailcatConfig: what may be exposed by name.
PublicTailcatModelIDs(c) ==
  UNION {{m} \cup AliasesOf(c, m) : m \in Names(c)} \cup DOMAIN c.selectors
    \cup UNION {DOMAIN c.profiles[p] : p \in DOMAIN c.profiles}
    \cup {PeerModelFQN(o[1], o[2]) : o \in Offered(c)}

PriorityAndPreload(c) ==
  /\ \A m \in c.priority : RealModelName(c, m) # NoName
  /\ c.tailcat \subseteq PublicTailcatModelIDs(c)

Normalized(c) ==
  [models |-> c.models, peers |-> c.peers, selectors |-> c.selectors, profiles |-> c.profiles,
   startup |-> c.startup, use |-> Engine(c), sets |-> c.sets, pool |-> c.pool, groups |-> c.groups,
   aliases |-> AliasTable(c), routes |-> IF Engine(c) = "group" THEN AddDefaultGroup(c) ELSE <<>>,
   priority |-> c.priority, tailcat |-> c.tailcat, preload |-> c.preload]

\* hooks.on_startup.preload: real names, what is unknown left out.
Preload(c) == {RealModelName(c, m) : m \in c.preload} \ {NoName}

LoadAccepted(c) ==
  /\ SettingsAccepted(c) /\ AliasesAccepted(c) /\ RoutingAccepted(c)
  /\ LET n == Normalized(c)
     IN /\ ValidatePeerNamespace(n) /\ ValidateProfiles(n) /\ PriorityAndPreload(n)
        /\ \A s \in DOMAIN c.selectors : SelectorAccepted(n, s)

\* server.New: the group router has no process for a member it does not know.
Processes(c) ==
  IF c.use = "group" THEN UNION {c.routes[g].members : g \in DOMAIN c.routes} ELSE Names(c)

NewSucceeds(c) == \A m \in Processes(c) : RealModelName(c, m) # NoName

-----------------------------------------------------------------------------
\* A request.  Peer.Handles is about the table NewPeer makes.
PeerRoute(c, id) ==
  LET full == {o \in Offered(c) : PeerModelFQN(o[1], o[2]) = id}
      bare == {o \in Offered(c) : o[2] = id}
  IN IF full # {} THEN full ELSE IF Cardinality(bare) = 1 THEN bare ELSE {}

\* FetchContext and localPeerHandler.
RouterFor(c, name) ==
  LET id == IF RealModelName(c, name) # NoName THEN RealModelName(c, name) ELSE name
  IN IF id \in Processes(c) THEN [router |-> "local", to |-> id]
     ELSE IF PeerRoute(c, id) # {}
       THEN [router |-> "peer", to |-> LET o == CHOOSE q \in PeerRoute(c, id) : TRUE IN PeerModelFQN(o[1], o[2])]
     ELSE [router |-> "none", to |-> NoName]

Pins(c, p) == IF p \in DOMAIN c.profiles THEN c.profiles[p] ELSE <<>>

\* CreateProfileMiddleware, for a name in a body or a query.
Pinned(c, p, name) == IF name \in DOMAIN Pins(c, p) THEN Pins(c, p)[name] ELSE name

\* CreateSelectorMiddleware: what each strategy may answer.
Selected(c, name) ==
  IF name \notin DOMAIN c.selectors THEN {name}
  ELSE LET sel == c.selectors[name]
       IN CASE sel.strategy = "pin" -> {sel.targets[1]}
            [] sel.strategy = "warm" -> Elements(sel.targets)
            [] OTHER -> {Resolved(c, t) : t \in Elements(sel.targets)}

Dispatch(c, p, name) ==
  IF Pinned(c, p, name) = NoName THEN {[router |-> "none", to |-> NoName]}
  ELSE {RouterFor(c, n) : n \in Selected(c, Pinned(c, p, name))}

\* /upstream: upstreamProfilePin, ReplaceRequestModel and FindModelInPath.
Starts(name, path) == Len(name) <= Len(path) /\ SubSeq(path, 1, Len(name)) = name
Longest(names) == CHOOSE n \in names : \A m \in names : Len(m) <= Len(n)
After(name, path) == SubSeq(path, Len(name) + 1, Len(path))

RewrittenPath(c, p, path) ==
  LET pins == {n \in DOMAIN Pins(c, p) : Starts(n, path)}
  IN IF pins = {} THEN path
     ELSE LET pin == Longest(pins)
          IN IF Pins(c, p)[pin] = NoName THEN <<>> ELSE Pins(c, p)[pin] \o After(pin, path)

FindModelInPath(c, path) ==
  LET found == {n \in {SubSeq(path, 1, i) : i \in 1..Len(path)} : ResolveBaseModel(c, n) # NoName}
  IN IF found = {} THEN NoName ELSE Longest(found)

Upstream(c, p, path) ==
  LET rewritten == RewrittenPath(c, p, path)
      name == FindModelInPath(c, rewritten)
  IN IF name = NoName THEN [router |-> "none", to |-> NoName, rest |-> <<>>]
     ELSE LET r == RouterFor(c, name) IN [router |-> r.router, to |-> r.to, rest |-> After(name, rewritten)]

-----------------------------------------------------------------------------
NoConfig == [models |-> <<>>, peers |-> <<>>, selectors |-> <<>>, profiles |-> <<>>,
             use |-> "none", sets |-> {}, aliases |-> <<>>, routes |-> <<>>, groups |-> <<>>, preload |-> {}]

Init == cfg = NoConfig /\ activeProfile = ""

\* A configuration is loaded and the server made from it, or refused.
Load(c) ==
  /\ cfg.use = "none"
  /\ LoadAccepted(c) /\ NewSucceeds(Normalized(c))
  /\ cfg' = Normalized(c)
  /\ activeProfile' = c.startup

SetActiveProfile(p) ==
  /\ p # activeProfile
  /\ activeProfile' = p
  /\ UNCHANGED cfg

Next ==
  \/ \E c \in Confs : Load(c)
  \/ \E p \in {""} \cup DOMAIN cfg.profiles : SetActiveProfile(p)

Spec == Init /\ [][Next]_namesVars

-----------------------------------------------------------------------------
\* handleListModels.  A profile's pin is listed unless it hides a model.
ModelIDs(c) ==
  Names(c) \cup DOMAIN c.aliases \cup DOMAIN c.selectors
    \cup {PeerModelFQN(o[1], o[2]) : o \in Offered(c)}
    \cup {o[2] : o \in {q \in Offered(c) : ResolvePeerModel(c, q[2]) = {q}}}

Listed(c, p) ==
  UNION {{m} \cup AliasesOf(c, m) : m \in {n \in Names(c) : ~c.models[n].unlisted}}
    \cup {PeerModelFQN(o[1], o[2]) : o \in Offered(c)}
    \cup {s \in DOMAIN c.selectors : ~c.selectors[s].unlisted}
    \cup {n \in DOMAIN Pins(c, p) : Pins(c, p)[n] # NoName /\ n \notin ModelIDs(c)}

\* The full name of a peer's model leads to that peer whatever models, aliases,
\* selectors and pins there are: "reserved", says ValidatePeerNamespace.
FullNamesReachPeers ==
  \A o \in Offered(cfg) :
    Dispatch(cfg, activeProfile, PeerModelFQN(o[1], o[2])) =
      {[router |-> "peer", to |-> PeerModelFQN(o[1], o[2])]}

\* Every name of the list is one that a router serves, by each target a selector
\* may choose; but for a model that the profile hides on purpose, and unless
\* the configuration has a group with the name of the default one.
ListedNamesWork ==
  DefaultGroup \notin DOMAIN cfg.groups =>
    \A name \in Listed(cfg, activeProfile) :
      Pinned(cfg, activeProfile, name) = NoName
      \/ \A r \in Dispatch(cfg, activeProfile, name) : r.router # "none"

\* The group policy never stops one local target of a spillover for another,
\* and what is preloaded has a process.
TargetsCoexist ==
  /\ cfg.use = "group" => \A s \in DOMAIN cfg.selectors : cfg.selectors[s].strategy = "spillover" =>
       LET locals == LocalTargets(cfg, s)
           groupOf(m) == CHOOSE g \in DOMAIN cfg.routes : m \in cfg.routes[g].members
       IN \A m, n \in locals :
            m # n => ~IF groupOf(m) = groupOf(n) THEN cfg.routes[groupOf(m)].swap
                      ELSE cfg.routes[groupOf(m)].exclusive
  /\ DefaultGroup \notin DOMAIN cfg.groups => Preload(cfg) \subseteq Processes(cfg)

\* In a path and in a body a name leads to the same model, with the rest of the
\* path left to it; unless the body's leads to a selector, which a path does
\* not know, or a pin is a part of the name or the rest completes a longer one.
PathsAgree ==
  \A name \in ModelIDs(cfg) : \A tail \in Tails :
    (/\ Pinned(cfg, activeProfile, name) \notin DOMAIN cfg.selectors
     /\ \A n \in DOMAIN Pins(cfg, activeProfile) : Starts(n, name \o tail) => n = name
     /\ \A n \in ModelIDs(cfg) : Starts(n, Pinned(cfg, activeProfile, name) \o tail) =>
          Len(n) <= Len(Pinned(cfg, activeProfile, name))) =>
    LET u == Upstream(cfg, activeProfile, name \o tail)
    IN {[router |-> u.router, to |-> u.to]} = Dispatch(cfg, activeProfile, name)
       /\ (u.router # "none" => u.rest = tail)

\* An alias leads to the model that has it, unless it is itself a model's ID, and
\* what is chosen for being warm is a model that can be.
ChoicesAreLocal ==
  /\ \A m \in Names(cfg) : \A a \in AliasesOf(cfg, m) : a \in Names(cfg) \/ RealModelName(cfg, a) = m
  /\ DefaultGroup \notin DOMAIN cfg.groups =>
       \A s \in DOMAIN cfg.selectors : cfg.selectors[s].strategy = "warm" =>
         \A n \in Selected(cfg, s) : RouterFor(cfg, n).router = "local"

NamesResolve ==
  ChoicesAreLocal /\ FullNamesReachPeers /\ ListedNamesWork /\ TargetsCoexist /\ PathsAgree
=============================================================================
