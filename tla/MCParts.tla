------------------------------- MODULE MCParts -------------------------------
(***************************************************************************)
(* The parts of the program that share no state with one another, for TLC: *)
(* the part that runs is chosen at the start, the others stay as they are. *)
(* To Reload and to the parts of module Parts it adds the other ones.      *)
(***************************************************************************)
EXTENDS Reload, Parts, Integers, Sequences, FiniteSets, TLC

VARIABLES capAsk, capPlan,
          question, decision,
          round, flags, deployment, service, replaced,
          objects, jobs, wrong, podList, strangers,
          cfg, activeProfile,
          phase, sources, unread, document,
          progress, declared, raw, toExpand, nextPort

capacityVars == <<capAsk, capPlan>>
matrixVars == <<question, decision>>
objectsVars == <<round, flags, deployment, service, replaced>>
fleetVars == <<objects, jobs, wrong, podList, strangers>>
namesVars == <<cfg, activeProfile>>
sourcesVars == <<phase, sources, unread, document>>
macrosVars == <<progress, declared, raw, toExpand, nextPort>>

MCReloadRequests == {<<"request", 1>>}
MCStorePath == (0 :> "a") @@ (1 :> "b") @@ (2 :> "b")

MCConfigs == {[capacity |-> 2, disabled |-> FALSE], [capacity |-> 3, disabled |-> TRUE]}

\* Two peers offer n; the first and the last share a Tailcat client.
MCOffers == (1 :> {"m", "n"}) @@ (2 :> {"n"}) @@ (3 :> {"k"})
MCFullNames == <<[m |-> "1m", n |-> "1n"], [n |-> "2n"], [k |-> "3k"]>>
MCAsks == <<"m", "2n", "n">>
MCClientOf == (1 :> "c") @@ (2 :> "none") @@ (3 :> "c")

\* One selector spills over from two local models to a peer's, the other takes
\* what is warm; a profile leads from this to that.
MCPipeCalls == <<"s", "w", "k">>
MCPins == ("" :> <<>>) @@ ("p" :> ("w" :> "s"))
MCSelectors == [s |-> [strategy |-> "spillover", targets |-> <<"m", "n", "k">>],
                w |-> [strategy |-> "warm", targets |-> <<"k", "n", "a">>]]
MCLocalModel == [m |-> "m", a |-> "m", n |-> "n"]
MCPeerModel == [k |-> "1k"]

\* Two pools; models that cost nothing to stop, one that fills a pool, and
\* costs that make cheap and small plans differ.
MCPools == <<6, 5>>
MCCapConfigs ==
  <<[use |-> <<<<3, 1>>, <<2, 2>>, <<1, 3>>, <<4, 0>>, <<2, 1>>>>, cost |-> <<2, 1, 1, 3, 0>>],
    [use |-> <<<<2, 1>>, <<2, 2>>, <<2, 2>>, <<6, 5>>, <<3, 3>>>>, cost |-> <<0, 0, 0, 0, 0>>],
    [use |-> <<<<1, 1>>, <<2, 1>>, <<3, 1>>, <<4, 4>>, <<3, 2>>>>, cost |-> <<1, 2, 3, 1, 5>>]>>

\* Matrices: definitions that nest, repeat models, refer to one another, in a
\* circle too, name the orphans, leave models out, or are malformed.
Token(t) == [typ |-> IF t \in {"(", ")", "and", "or"} THEN t
                     ELSE IF t \in {"s", "t", "u", "auto:orphans"} THEN "ref" ELSE "ident", val |-> t]
Def(name, dsl) == [name |-> name, dsl |-> [i \in DOMAIN dsl |-> Token(dsl[i])]]
MCMatrices ==
  <<<<Def("s", <<"v", "and", "(", "b", "or", "c", ")", "or", "d">>)>>,
    <<Def("s", <<"t", "and", "a">>), Def("t", <<"b", "or", "c", "and", "d">>)>>,
    <<Def("s", <<"a", "and", "auto:orphans">>), Def("t", <<"b", "or", "s">>)>>,
    <<Def("s", <<"(", "a", "or", "b", ")", "and", "auto:orphans", "and", "t">>),
      Def("t", <<"c", "or", "d", "or", "a", "and", "d">>), Def("u", <<"e">>)>>,
    <<Def("s", <<"t", "and", "a">>), Def("t", <<"b", "or", "s">>)>>,
    <<Def("s", <<"a", "and", "(", "b">>)>>,
    <<Def("s", <<"(", "a", "or", "b", "or", "a", "and", "c", ")", "and", "(", "d", "or", "b", "and", "e", ")">>),
      Def("auto:orphans", <<"e">>), Def("t", <<"auto:orphans", "or", "s">>)>>>>
MCVars == [v |-> "a"]
MCEvictCosts == [a |-> 2, b |-> 3]

\* Configurations: names that are prefixes of one another, models and selectors
\* with the name of a peer's model, aliases, and each way to group them.
NA == <<"a">>  NB == <<"b">>  NM == <<"m">>  NK == <<"k">>  NX == <<"x">>
PM == <<"p", "m">>
MCModel(aliases, byID, unlisted) ==
  [aliases |-> aliases, byID |-> byID, unlisted |-> unlisted, ttl |-> -1, usage |-> 2]
Plain == MCModel(<<>>, {}, FALSE)
MCModels ==
  {(NA :> MCModel(<<NX>>, {NA, <<"y">>}, FALSE)) @@ (NB :> Plain),
   (NA :> MCModel(<<NX>>, {}, FALSE)) @@ (NB :> MCModel(<<>>, {NX}, FALSE)),
   (NA :> Plain) @@ (NB :> MCModel(<<PM>>, {}, FALSE)),
   (NA :> MCModel(<<NX>>, {}, FALSE)) @@ (NB :> MCModel(<<>>, {}, TRUE)) @@ (NM :> Plain),
   (NA :> Plain) @@ (NB :> Plain) @@ (<<"a", "b">> :> MCModel(<<NX, <<"x", "m">>>>, {}, FALSE))}
MCPeers ==
  {<<>>, <<"p">> :> <<NM>>, (<<"p">> :> <<NM>>) @@ (<<"q">> :> <<NM, NK>>),
   (<<"p">> :> <<<<"m", "k">>>>) @@ (PM :> <<NK>>),
   (<<"p">> :> <<NM, <<"m", "k">>, NM>>) @@ (NM :> <<NK>>)}
MCSelector(strategy, targets) ==
  [strategy |-> strategy, targets |-> targets, spillover |-> 1, unlisted |-> FALSE]
MCSelectorBlocks ==
  {<<>>, <<"s">> :> MCSelector("pin", <<NM>>), <<"s">> :> MCSelector("warm", <<NA, NM>>),
   <<"s">> :> MCSelector("spillover", <<NX, NB, NM>>), PM :> MCSelector("pin", <<NA>>),
   <<"s">> :> MCSelector("spillover", <<NX, NA>>)}
MCProfiles ==
  {[startup |-> "", profiles |-> <<>>],
   [startup |-> "w", profiles |-> [w |-> (NA :> NB), v |-> (NX :> <<>>) @@ (<<"z">> :> <<"s">>)]],
   [startup |-> "", profiles |-> [w |-> (PM :> NA)]],
   [startup |-> "", profiles |-> [w |-> (NA :> NM) @@ (<<"a", "b">> :> NB)]]}
MCGroup(swap, exclusive, members) == [swap |-> swap, exclusive |-> exclusive, members |-> members]
MCRouting ==
  {[use |-> u, topLevel |-> l, groups |-> g, sets |-> s] :
     u \in {""}, l \in BOOLEAN, s \in {{}},
     g \in {<<>>, [g |-> MCGroup(FALSE, FALSE, <<NA, NB>>)],
            [g |-> MCGroup(TRUE, FALSE, <<NA>>), h |-> MCGroup(FALSE, FALSE, <<NB>>)],
            ("(default)" :> MCGroup(FALSE, FALSE, <<NA, NB>>)),
            ("(default)" :> MCGroup(FALSE, FALSE, <<NA, NB, NB>>)) @@ [g |-> MCGroup(FALSE, FALSE, <<NA>>)],
            [g |-> MCGroup(FALSE, TRUE, <<NX, NB>>)], [g |-> MCGroup(FALSE, TRUE, <<NA, NA>>)]}}
  \cup {[use |-> "matrix", topLevel |-> FALSE, groups |-> <<>>, sets |-> {{NA, NB}, {NA, NM}}],
        [use |-> "capacity", topLevel |-> FALSE, groups |-> <<>>, sets |-> {}]}
MCConfs ==
  {[models |-> m, peers |-> p, selectors |-> s, profiles |-> f.profiles, startup |-> f.startup,
    use |-> r.use, topLevel |-> r.topLevel, groups |-> r.groups, sets |-> r.sets, pool |-> 4,
    globalTTL |-> 0, priority |-> {NA}, preload |-> {NX, NK}, tailcat |-> {NB}] :
     m \in MCModels, p \in MCPeers, s \in MCSelectorBlocks, f \in MCProfiles, r \in MCRouting}

\* Requests in every format, with the name in the body, the query or both; a
\* pin to a selector, which leads to an alias, and one to nothing.
MCBodies ==
  {[model |-> n] : n \in {"pub", "alias", "off", "pm"}}
  \cup {[model |-> "alias", t |-> "1"], [model |-> "m", t |-> "1", n |-> "1", z |-> "1"], [model |-> "sel", n |-> "1"], [n |-> "1"]}
MCRequest(post, upload, ctype, is, body, query, fits, tailcat) ==
  [post |-> post, upload |-> upload, ctype |-> ctype, is |-> is, body |-> body, query |-> query,
   size |-> fits, tailcat |-> tailcat, form |-> ""]
MCRequests ==
  {MCRequest(TRUE, u, c, i, b, q, "fits", t) :
     u \in BOOLEAN, c \in {"json", "multipart", "form", "other"}, i \in {"json", "multipart", "form"},
     b \in MCBodies, q \in {"", "pub"}, t \in BOOLEAN}
  \cup {MCRequest(TRUE, u, c, i, <<>>, "m", s, t) :
     u \in BOOLEAN, c \in {"json", "multipart", "form", "other"}, i \in {"empty", "multipart"},
     s \in {"over", "declared", "fits"}, t \in BOOLEAN}
  \cup {MCRequest(FALSE, FALSE, "other", "empty", <<>>, q, "fits", t) :
     q \in {"", "pub", "alias", "off", "pm"}, t \in BOOLEAN}
MCSelectorOf == [sel |-> "alias"]
MCRealName == [alias |-> "m", m |-> "m"]
MCUseModelName == [m |-> "u"]
MCBodyPins == [pub |-> "sel", off |-> ""]
MCFilters ==
  [m |-> [strip |-> {"t", "model"},
          set |-> (<<"t", "soft">> :> "2") @@ (<<"n", "hard">> :> "2") @@ (<<"n", "soft">> :> "3")
                  @@ (<<"model", "hard">> :> "2"),
          byID |-> [alias |-> (<<"n", "soft">> :> "4") @@ (<<"z", "hard">> :> "4") @@ (<<"t", "soft">> :> "4")]],
   pm |-> [strip |-> {}, set |-> (<<"n", "soft">> :> "2"), byID |-> <<>>]]

\* Files that define entities, list keys, set or leave out one value; two that
\* say the same, two that contradict one another, and entries nobody reads.
MCMap(content) == [kind |-> "mapping", content |-> content]
MCText(text) == [kind |-> "scalar", content |-> text]
MCList(items) == [kind |-> "sequence", content |-> [i \in DOMAIN items |-> MCText(items[i])]]
MCSettings(groups) ==
  MCMap(<<<<"router", MCMap(<<<<"settings", MCMap(<<<<"groups", groups>>>>)>>>>)>>>>)
MCEntity(key, field) == MCMap(<<<<key, MCMap(<<<<field, MCText("x")>>>>)>>>>)
MCFile(name, root) == [name |-> name, isDir |-> FALSE, yaml |-> TRUE, env |-> {"SET"}, root |-> root]
MCDirEntries ==
  <<MCFile("a.yml", MCMap(<<<<"models", MCEntity("m", "cmd")>>, <<"macros", MCEntity("g", "h")>>,
                            <<"apiKeys", MCList(<<"k">>)>>, <<"startPort", MCText("5")>>>>)),
    MCFile("b.yaml", MCMap(<<<<"startPort", MCText("")>>, <<"apiKeys", MCList(<<"l", "k">>)>>,
                             <<"models", MCEntity("n", "cmd")>>, <<"macros", MCEntity("g", "i")>>>>)),
    MCFile("c.yml", MCMap(<<<<"models", MCEntity("m", "ttl")>>, <<"apiKeys", MCText("")>>>>)),
    MCFile("d.yml", MCMap(<<<<"models", MCText("")>>, <<"routing", MCText("")>>>>)),
    MCFile("e.yml", MCMap(<<<<"startPort", MCText("6")>>, <<"routing", MCSettings(MCEntity("g", "swap"))>>>>)),
    MCFile("f.yml", MCMap(<<<<"routing", MCSettings(MCEntity("h", "swap"))>>, <<"macros", MCText("null")>>>>)),
    [MCFile("g.yml", MCMap(<<<<"startPort", MCText("7")>>>>)) EXCEPT !.isDir = TRUE],
    [MCFile("h.txt", MCMap(<<<<"startPort", MCText("7")>>>>)) EXCEPT !.yaml = FALSE],
    MCFile("i.yml", MCText("nothing"))>>
MCConfigFiles ==
  {MCDirEntries[2], MCFile("z.yml", MCMap(<<<<"routing", MCSettings(MCEntity("g", "swap"))>>, <<"apiKeys", MCList(<<"z">>)>>>>)),
   MCFile("y.yml", MCList(<<"k">>)), [MCFile("x.yml", MCMap(<<>>)) EXCEPT !.env = {"SET", "UNSET"}]}

\* Macros that use earlier ones, later ones, themselves or reserved names, that
\* are numbers, and that a model overrides; ports that are asked for or not.
MCLit(x) == <<"lit", x>>
MCRef(name) == <<"ref", name>>
MCStr(text) == [typed |-> FALSE, text |-> text]
MCMacro(name, text) == [name |-> name, value |-> MCStr(text)]
MCNumber(name, n) == [name |-> name, value |-> [typed |-> TRUE, text |-> <<<<"num", n>>>>]]
MCGlobals ==
  {<<>>, <<MCNumber("A", 3), MCMacro("B", <<MCLit("x"), MCRef("A")>>)>>,
   <<MCMacro("A", <<MCRef("PORT")>>), MCMacro("B", <<MCRef("A"), MCRef("A")>>)>>,
   <<MCMacro("A", <<MCRef("B")>>), MCMacro("B", <<MCLit("y")>>)>>,
   <<MCMacro("A", <<MCLit("z"), MCRef("MODEL_ID")>>)>>, <<MCMacro("A", <<MCRef("A")>>)>>}
MCMacroModels ==
  {[macros |-> macros, cmd |-> MCStr(cmd), proxy |-> MCStr(proxy), cmdStop |-> MCStr(<<MCRef("PID")>>), keys |-> keys] :
     macros \in {<<>>, <<MCMacro("A", <<MCLit("own")>>)>>, <<MCMacro("C", <<MCRef("B"), MCRef("A")>>)>>},
     cmd \in {<<MCLit("run")>>, <<MCLit("run"), MCRef("PORT")>>, <<MCRef("B")>>, <<MCRef("C"), MCRef("MODEL_ID")>>},
     proxy \in {<<>>, <<MCRef("A")>>}, keys \in {<<>>, <<<<MCRef("A")>>, <<MCRef("B")>>>>}}
MCPlainModel ==
  [macros |-> <<>>, cmd |-> MCStr(<<MCRef("PORT")>>), proxy |-> MCStr(<<>>), cmdStop |-> MCStr(<<MCRef("A")>>), keys |-> <<>>]
MCDocuments ==
  {[globals |-> globals, startPort |-> start, other |-> MCStr(other), models |-> models] :
     globals \in MCGlobals, start \in {MCNumber("", 5).value, MCStr(<<MCRef("A")>>)},
     other \in {<<>>, <<MCRef("B")>>},
     models \in {("b" :> m) : m \in MCMacroModels}
       \cup {("a" :> [MCPlainModel EXCEPT !.cmdStop = MCStr(<<>>)]) @@ ("b" :> m) @@ ("c" :> MCPlainModel) : m \in MCMacroModels}}

\* What an event can report: the counts of the start and the end of a message,
\* zeros, rates alone, the timings of llama-server, the metrics of vLLM.
MCUsage(in, out, cached, rate) == [in |-> in, out |-> out, cached |-> cached, rate |-> rate]
MCPart(usage, timings, metrics) == [kind |-> "data", usage |-> usage, timings |-> timings, metrics |-> metrics]
MCNone == MCUsage(-1, -1, -1, FALSE)
MCReports ==
  {[kind |-> "noise"]}
  \cup {MCPart(u, [in |-> -1], [draft |-> -1, rate |-> FALSE]) :
          u \in {MCUsage(7, 1, 3, FALSE), MCUsage(-1, 5, -1, TRUE), MCUsage(0, 0, 0, FALSE), MCUsage(-1, -1, -1, TRUE)}}
  \cup {MCPart(u, [in |-> 9, out |-> 8, cached |-> c, draft |-> d], [draft |-> -1, rate |-> FALSE]) :
          u \in {MCNone, MCUsage(7, 1, 3, FALSE)}, c \in {-1}, d \in {4}}
  \cup {MCPart(u, [in |-> -1], [draft |-> 6, rate |-> r]) : u \in {MCNone, MCUsage(7, 1, -1, FALSE)}, r \in {TRUE}}
MCAnswers ==
  {[metered |-> TRUE, type |-> t, encoding |-> e, captures |-> TRUE, keepRequest |-> k, keepResponse |-> k] :
     t \in {"stream", "json", "infill"}, e \in {"ok", "broken"}, k \in BOOLEAN}
  \cup {[metered |-> FALSE], [metered |-> TRUE, type |-> "stream", encoding |-> "ok", captures |-> FALSE,
                              keepRequest |-> TRUE, keepResponse |-> TRUE]}

\* The flags of a backend, and what a later command may say instead: other
\* values, other orders, and what no command may say.
MCFlags ==
  [strict |-> TRUE, image |-> "i", port |-> 80, health |-> "/h", liveness |-> "", probeTimeout |-> 5,
   startup |-> 600, command |-> <<>>, args |-> <<"-m">>, env |-> <<<<"A", "">>, <<"B", "1">>>>,
   gpus |-> <<<<"gpu", 1>>>>, requests |-> <<<<"cpu", 2>>>>, limits |-> <<>>,
   servicePorts |-> <<<<"metrics", 90>>>>, claims |-> <<<<"c", "one">>, <<"d", "two">>>>,
   nodeSel |-> <<<<"zone", "">>>>, tols |-> <<<<"k", "", "v", "NoExecute">>, <<"", "Exists", "", "">>>>,
   volumes |-> <<<<"pvc", <<"cache">>, "/models">>, <<"nfs", <<"host", "data">>, "/data", "ro">>>>,
   labels |-> <<<<"team", "x">>>>, grace |-> 30]
MCFlagSets ==
  {MCFlags, [MCFlags EXCEPT !.strict = FALSE], [MCFlags EXCEPT !.strict = FALSE, !.image = "j", !.port = 81]}
  \cup {[MCFlags EXCEPT !.image = x] : x \in {"", "j"}}
  \cup {[MCFlags EXCEPT !.port = x] : x \in {0, 81, 90, 99}}
  \cup {[MCFlags EXCEPT !.liveness = x] : x \in {"l", "/h", "/l"}}
  \cup {[MCFlags EXCEPT !.probeTimeout = x] : x \in {0, 1}}
  \cup {[MCFlags EXCEPT !.startup = x] : x \in {0, 1, 604}}
  \cup {[MCFlags EXCEPT !.args = <<>>, !.command = <<"-m">>], [MCFlags EXCEPT !.grace = -1]}
  \cup {[MCFlags EXCEPT !.env = x] :
          x \in {<<<<"B", "1">>, <<"A", "">>>>, <<<<"A", "">>, <<"C", "1">>>>, <<<<"A", "">>, <<"B", "1">>, <<"C", "">>>>,
                 <<<<"A">>>>, <<<<"A", "">>, <<"A", "1">>>>}}
  \cup {[MCFlags EXCEPT !.gpus = x] : x \in {<<>>, <<<<"gpu", 2>>>>, <<<<"gpu", 0>>>>}}
  \cup {[MCFlags EXCEPT !.requests = x] :
          x \in {<<<<"mem", 2>>>>, <<<<"cpu", 1>>, <<"cpu", 2>>>>, <<<<"cpu", -1>>>>, <<<<"gpu", 2>>, <<"cpu", 2>>>>}}
  \cup {[MCFlags EXCEPT !.servicePorts = x] :
          x \in {<<>>, <<<<"metrics", 91>>>>, <<<<"http", 90>>>>, <<<<"a", 90>>, <<"a", 91>>>>,
                 <<<<"a", 91>>, <<"metrics", 90>>>>}}
  \cup {[MCFlags EXCEPT !.claims = x] :
          x \in {<<<<"d", "two">>, <<"c", "one">>>>, <<<<"c", "two">>, <<"d", "one">>>>, <<<<"c", "one">>, <<"c", "two">>>>, <<<<"c", "">>>>}}
  \cup {[MCFlags EXCEPT !.nodeSel = x] : x \in {<<<<"rack", "">>>>, <<<<"zone", "!">>>>}}
  \cup {[MCFlags EXCEPT !.tols = x] :
          x \in {<<<<"", "Exists", "", "">>, <<"k", "Equal", "v", "NoExecute">>>>, <<<<"k", "Equal", "v", "All">>>>,
                 <<<<"", "Exists", "", "">>, <<"", "Exists", "", "">>>>, <<<<"", "", "v", "">>>>, <<<<"k", "Exists", "v", "">>>>}}
  \cup {[MCFlags EXCEPT !.volumes = x] :
          x \in {<<<<"pvc", <<"cache">>, "/models", "ro">>, <<"nfs", <<"host", "data">>, "/data", "ro">>>>,
                 <<<<"nfs", <<"host", "data">>, "/data", "ro">>, <<"pvc", <<"cache">>, "/models">>>>,
                 <<<<"hostpath", <<"cache">>, "/models">>, <<"emptydir", <<"cache">>, "/data", "ro">>>>,
                 <<<<"nfs", <<"host">>, "/data">>>>, <<<<"pvc", <<"cache">>, "/models", "rw">>>>, <<<<"disk", <<"d">>, "/d">>>>}}
  \cup {[MCFlags EXCEPT !.labels = x] : x \in {<<<<"team", "">>>>, <<<<"app", "other">>>>, <<<<"deployment", "m">>>>}}
MCSelectorLabels == [managedBy |-> "kubeswap", model |-> "m", deployment |-> "m-1"]

\* Two IDs that sanitize to one label, and one that shares a claim with them;
\* a claim of a user, an old Deployment, and what each model may have left.
IDA == <<"M", "_", "A">>  IDB == <<"m", "-", "a">>  IDC == <<"b">>
MCOtherIds ==
  <<<<"/", "M", "b">>, <<"m", "a", "b", "/">>, <<"m", "a", "b", "m", "A">>, <<"/", ".">>,
    <<"m", "a", ".", "/", "b", "m">>, [i \in 1..12 |-> IF i % 2 = 0 THEN "b" ELSE "/"], [i \in 1..12 |-> "a"]>>
MCAllIds == <<IDA, IDB, IDC>> \o MCOtherIds
MCHash ==
  [id \in {MCAllIds[i] : i \in DOMAIN MCAllIds} |->
     LET i == CHOOSE i \in DOMAIN MCAllIds : MCAllIds[i] = id
     IN <<<<"a", "b", "m">>[(i % 3) + 1], <<"a", "b", "m", "1">>[(i \div 3) + 1]>>]
MCMounts ==
  (IDA :> <<[name |-> <<"c">>, readOnly |-> FALSE], [name |-> <<"u">>, readOnly |-> TRUE]>>) @@
  (IDB :> <<[name |-> <<"d">>, readOnly |-> FALSE]>>) @@ (IDC :> <<[name |-> <<"c">>, readOnly |-> FALSE]>>)
MCFleet(loaded, orphans, claimed, old, users) ==
  [loaded |-> loaded, orphans |-> orphans, claimed |-> claimed, old |-> old, users |-> users]
MCFleets ==
  {MCFleet({IDA, IDB}, {IDC}, {IDB, IDC}, {IDB}, {<<"u">>}), MCFleet({IDC}, {IDB}, {IDA}, {}, {<<"d">>})}
MCPods ==
  {[of |-> id, old |-> o, ready |-> r, leaving |-> l, age |-> a] :
     id \in {IDA, IDB}, o \in BOOLEAN, r \in BOOLEAN, l \in BOOLEAN, a \in {1, 2}}
MCLookPods == {<<p>> : p \in MCPods} \cup {<<p, q>> : p, q \in {x \in MCPods : ~x.leaving \/ x.age = 1}}

Plan == INSTANCE CapacityPolicy WITH CapModels <- 1..5, CapPools <- MCPools, CapConfigs <- MCCapConfigs,
                               Budgets <- {2, 6, 100000}, MaxInt <- 20
Matrix == INSTANCE MatrixPolicy WITH MatrixModels <- {"a", "b", "c", "d", "e"}, Matrices <- MCMatrices,
                               Vars <- MCVars, EvictCosts <- MCEvictCosts
Obj == INSTANCE KubeObjects WITH FlagSets <- MCFlagSets, Unrooted <- {"l"}, SelectorLabels <- MCSelectorLabels,
                             MaxPort <- 98
Fleet == INSTANCE KubeFleet WITH Letters <- {"a", "b", "m", "s", "v", "c", "1"}, LowerOf <- ("A" :> "a") @@ ("M" :> "m"),
                           MaxLabel <- 10, MaxPrefix <- 3, idHash <- MCHash, Ids <- {IDA, IDB, IDC},
                           OtherIds <- {MCOtherIds[i] : i \in DOMAIN MCOtherIds}, Mounts <- MCMounts,
                           Fleets <- MCFleets, Allowed <- {IDB}, MaxCommands <- 2, LookPods <- MCLookPods
Names == INSTANCE ModelNames WITH Confs <- MCConfs, Tails <- {<<>>, <<"m">>, <<"v", "k">>}
Files == INSTANCE ConfigSources WITH DirEntries <- MCDirEntries, ConfigFiles <- MCConfigFiles, Environment <- {"SET"}
Mac == INSTANCE Macros WITH Documents <- MCDocuments, Ids <- <<"a", "b", "c">>

MCPartNames ==
  {"logs", "reload", "monitor", "activity", "peers", "loading", "capabilities",
   "pipeline", "capacity", "matrix", "wol", "kube", "objects", "fleet",
   "tailcat", "names", "bodies", "sources", "usage", "macros"}

MCInit ==
  /\ part \in MCPartNames
  /\ Init /\ PartsInit
  /\ Plan!Init /\ Matrix!Init
  /\ Obj!Init /\ Fleet!Init
  /\ Names!Init /\ Files!Init /\ Mac!Init
  \* what a part that does not run starts with does not matter
  /\ part # "monitor" => monConf.capacity = 2
  /\ part # "activity" => inMemory = {}

MCNext ==
  /\ PartsNext
  /\ IF part = "reload" THEN Next ELSE UNCHANGED vars
  /\ IF part = "capacity" THEN Plan!Next ELSE UNCHANGED capacityVars
  /\ IF part = "matrix" THEN Matrix!Next ELSE UNCHANGED matrixVars
  /\ IF part = "objects" THEN Obj!Next ELSE UNCHANGED objectsVars
  /\ IF part = "fleet" THEN Fleet!Next ELSE UNCHANGED fleetVars
  /\ IF part = "names" THEN Names!Next ELSE UNCHANGED namesVars
  /\ IF part = "sources" THEN Files!Next ELSE UNCHANGED sourcesVars
  /\ IF part = "macros" THEN Mac!Next ELSE UNCHANGED macrosVars

mcVars == <<partsVars, vars, capacityVars, matrixVars,
            objectsVars, fleetVars, namesVars, sourcesVars,
            macrosVars>>

MCSpec == MCInit /\ [][MCNext]_mcVars

-----------------------------------------------------------------------------
\* Policies: the capacity planner and the matrix solver find the best plan
\* (capacity.go, matrix/program.go).
PlansAreBest ==
  /\ part = "capacity" => Plan!PlanIsBest
  /\ part = "matrix" => Matrix!SolveIsBest

\* Names and what is made from them: every name the configuration accepts leads
\* where it says, by body, by path and by list (load.go, selectors.go, peer.go,
\* profiles.go, http.go); the sources and the macros of a configuration mean what
\* they say; the objects in the cluster are what the flags say, under names that
\* no two models share (objects.go, manage.go).
NamesResolve ==
  /\ part = "names" => Names!NamesResolve
  /\ part = "sources" => Files!SourcesMergeWhole
  /\ part = "macros" => Mac!MacrosMeanWhatTheySay
  /\ part = "objects" => Obj!ObjectsAreExact
  /\ part = "fleet" => Fleet!FleetIsSound
=============================================================================
