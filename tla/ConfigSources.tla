---------------------------- MODULE ConfigSources ----------------------------
(***************************************************************************)
(* The sources of the configuration and how they become one document       *)
(* (internal/config/merge.go): the -config file, then the YAML files of    *)
(* -config-dir in the order of their names, merged one after the other.    *)
(* A node of YAML is [kind, content]: the content of a mapping is the      *)
(* sequence of its <<key, node>>, that of a sequence its nodes, that of a  *)
(* scalar its text, the tag included.                                      *)
(***************************************************************************)
EXTENDS Integers, Sequences, FiniteSets
LOCAL INSTANCE SequencesExt

CONSTANTS DirEntries,   \* the entries of a directory, in the order of their names
          ConfigFiles,  \* files that -config may name
          Environment   \* the environment variables that are set

VARIABLES phase,        \* "start", "reading", "loaded", "defaults" or "refused"
          sources,      \* the source files, in the order they are read
          unread,       \* those that parseSource has still to read
          document      \* what is merged so far, or NoNode

sourceVars == <<phase, sources, unread, document>>

NoNode == [kind |-> "none", content |-> <<>>]
Refused == [kind |-> "refused", content |-> <<>>]
Mapping(content) == [kind |-> "mapping", content |-> content]

\* The children of these name entities, each defined by one source only.
IdentityMapPaths ==
  {<<"models">>, <<"groups">>, <<"profiles">>, <<"selectors">>, <<"peers">>, <<"matrix">>}
  \cup {<<"routing", "router", "settings">> \o p : p \in {<<"groups">>, <<"matrix">>, <<"capacity", "pools">>}}

\* isNullScalar: a key with nothing after it; a written "null" is a text.
IsNull(node) == node.kind = "scalar" /\ node.content = ""

Keys(node) == {node.content[i][1] : i \in DOMAIN node.content}
Child(node, key) == node.content[CHOOSE i \in DOMAIN node.content : node.content[i][1] = key][2]

\* mergeIdentityMap: what both have is a duplicate.
MergeIdentityMap(dst, src) ==
  IF dst.kind # "mapping" \/ src.kind # "mapping" THEN Refused
  ELSE IF Keys(dst) \cap Keys(src) # {} THEN Refused
  ELSE Mapping(dst.content \o src.content)

RECURSIVE MergeNodes(_, _, _)
MergeValue(dst, src, path) ==
  CASE dst.kind = "mapping" /\ src.kind = "mapping" -> MergeNodes(dst, src, path)
    [] dst.kind = "sequence" /\ src.kind = "sequence" -> [dst EXCEPT !.content = @ \o src.content]
    [] IsNull(dst) -> src
    [] IsNull(src) -> dst
    [] dst.kind = "scalar" /\ src.kind = "scalar" -> IF dst.content = src.content THEN dst ELSE Refused
    [] OTHER -> Refused

MergeNodes(dst, src, path) ==
  LET shared(key) ==
        LET childPath == Append(path, key)
        IN IF childPath \in IdentityMapPaths
             THEN MergeIdentityMap(Child(dst, key), Child(src, key))
             ELSE MergeValue(Child(dst, key), Child(src, key), childPath)
      merged == [i \in DOMAIN dst.content |->
                   LET entry == dst.content[i]
                   IN IF entry[1] \in Keys(src) THEN <<entry[1], shared(entry[1])>> ELSE entry]
  IN IF \E i \in DOMAIN merged : merged[i][2].kind = "refused" THEN Refused
     ELSE Mapping(merged \o SelectSeq(src.content, LAMBDA entry : entry[1] \notin Keys(dst)))

\* listYAMLFiles: not the subdirectories, and only *.yml and *.yaml.
ListYAMLFiles(entries) == SelectSeq(entries, LAMBDA e : ~e.isDir /\ e.yaml)

\* parseSource: an empty file has no node, and a text alone counts as empty.
ParseSource(file) ==
  IF ~(file.env \subseteq Environment) THEN Refused
  ELSE IF file.root.kind = "scalar" \/ file.root.content = <<>> THEN NoNode
  ELSE IF file.root.kind # "mapping" THEN Refused
  ELSE file.root

\* The indices of a sequence that are in a set, in order.
InOrder(s, indices) == SelectSeq([i \in DOMAIN s |-> i], LAMBDA i : i \in indices)

-----------------------------------------------------------------------------
Init == phase = "start" /\ sources = <<>> /\ unread = <<>> /\ document = NoNode

\* LoadConfigSources up to its loop: config is the file of -config, if any,
\* and entries what the directory of -config-dir holds.
ListSources(config, entries) ==
  LET files == ListYAMLFiles(entries)
      all == (IF config = NoNode THEN <<>> ELSE <<config>>) \o files
  IN /\ phase = "start"
     /\ IF \/ all = <<>>
           \/ config # NoNode /\ \E i \in DOMAIN files : files[i].name = config.name
          THEN phase' = "refused" /\ UNCHANGED <<sources, unread>>
          ELSE phase' = "reading" /\ sources' = all /\ unread' = all
     /\ UNCHANGED document

\* One turn of the loop.
ReadSource ==
  /\ phase = "reading" /\ unread # <<>>
  /\ LET node == ParseSource(Head(unread))
         merged == IF node.kind \in {"none", "refused"} THEN node
                   ELSE IF document = NoNode THEN node ELSE MergeNodes(document, node, <<>>)
     IN CASE merged.kind = "refused" -> phase' = "refused" /\ UNCHANGED document
          [] merged.kind = "none" -> UNCHANGED <<phase, document>>
          [] OTHER -> document' = merged /\ UNCHANGED phase
  /\ unread' = Tail(unread)
  /\ UNCHANGED sources

\* All sources empty: the pipeline runs on an empty document.
HandOver ==
  /\ phase = "reading" /\ unread = <<>>
  /\ phase' = IF document = NoNode THEN "defaults" ELSE "loaded"
  /\ UNCHANGED <<sources, unread, document>>

Next ==
  \/ \E config \in ConfigFiles \cup {NoNode}, chosen \in SUBSET DOMAIN DirEntries :
       ListSources(config,
         LET kept == InOrder(DirEntries, chosen) IN [i \in DOMAIN kept |-> DirEntries[kept[i]]])
  \/ ReadSource
  \/ HandOver

Spec == Init /\ [][Next]_sourceVars

-----------------------------------------------------------------------------
RECURSIVE PathsOf(_)
PathsOf(node) ==
  IF node.kind # "mapping" THEN {<<>>}
  ELSE {<<>>} \cup UNION {{<<key>> \o p : p \in PathsOf(Child(node, key))} : key \in Keys(node)}

RECURSIVE At(_, _)
At(node, path) == IF path = <<>> THEN node ELSE At(Child(node, Head(path)), Tail(path))

Read == {i \in DOMAIN sources : ParseSource(sources[i]).kind = "mapping"}
Said(i) == {p \in PathsOf(sources[i].root) : ~IsNull(At(sources[i].root, p))}
SameShape(a, b) ==
  /\ a.kind = b.kind
  /\ a.kind = "scalar" => a.content = b.content

\* Two sources contradict one another: they define one entity twice, put
\* something else where entities belong, or say two things of one path.
Contradict(i, j) ==
  LET a == sources[i].root b == sources[j].root
  IN \/ \E p \in PathsOf(a) \cap PathsOf(b) \cap IdentityMapPaths :
          \/ At(a, p).kind # "mapping" \/ At(b, p).kind # "mapping"
          \/ Keys(At(a, p)) \cap Keys(At(b, p)) # {}
     \/ \E p \in Said(i) \cap Said(j) : ~SameShape(At(a, p), At(b, p))

\* What the sources list under one path, in their order.
Listed(p) ==
  FlattenSeq([n \in 1..Cardinality(Read) |->
    LET i == InOrder(sources, Read)[n]
    IN IF p \in Said(i) /\ At(sources[i].root, p).kind = "sequence" THEN At(sources[i].root, p).content ELSE <<>>])

\* However a configuration is cut into files, and whatever order their names
\* give them: it is accepted exactly when no two of them contradict one another,
\* and then nothing a file says is lost, changed or said by none (merge.go).
SourcesMergeWhole ==
  /\ phase \in {"loaded", "defaults"} => \A i, j \in Read : i # j => ~Contradict(i, j)
  /\ phase = "refused" /\ sources # <<>> =>
       \/ \E i \in DOMAIN sources : ParseSource(sources[i]).kind = "refused"
       \/ \E i, j \in Read : i # j /\ Contradict(i, j)
  /\ phase = "loaded" =>
       LET said == {p \in PathsOf(document) : ~IsNull(At(document, p))}
       IN /\ said = UNION {Said(i) : i \in Read}
          /\ \A i \in Read : \A p \in Said(i) : SameShape(At(document, p), At(sources[i].root, p))
          /\ \A p \in said : At(document, p).kind = "sequence" => At(document, p).content = Listed(p)
=============================================================================
