------------------------------- MODULE Macros -------------------------------
(***************************************************************************)
(* The expansion of macros (internal/config/macros.go): global macros in   *)
(* everything but the models, a model's own over the global ones in that   *)
(* model, the port of each model that asks for one, and the refusal of     *)
(* what is left.  A value is [typed, text]: a text is a sequence of tokens *)
(* <<"ref", name>> for ${name} and <<"lit", _>>; a number is typed.        *)
(***************************************************************************)
EXTENDS Integers, Sequences, FiniteSets
LOCAL INSTANCE SequencesExt

CONSTANTS Documents,   \* decoded documents: [globals, startPort, other, models]
          Ids          \* the model IDs, sorted

VARIABLES progress,    \* "start", "globals", "models", "accepted" or "refused"
          declared,    \* the document as it was read, or NoDocument
          raw,         \* the tree that is expanded
          toExpand,     \* the sorted IDs of the models that are still to be expanded
          nextPort

macroVars == <<progress, declared, raw, toExpand, nextPort>>

NoDocument == [globals |-> <<>>]
Missing == [typed |-> FALSE, text |-> <<>>]
Ref(name) == <<"ref", name>>
Number(n) == [typed |-> TRUE, text |-> <<<<"num", n>>>>]
TextOf(text) == [typed |-> FALSE, text |-> text]
DefaultProxy == TextOf(<<<<"lit", "http://localhost:">>, Ref("PORT")>>)

ModelIDs(doc) == SelectSeq(Ids, LAMBDA id : id \in DOMAIN doc.models)
Mentions(value, name) == ~value.typed /\ \E i \in DOMAIN value.text : value.text[i] = Ref(name)
Unresolved(value, allowed) ==
  ~value.typed /\ \E i \in DOMAIN value.text : value.text[i][1] = "ref" /\ value.text[i][2] \notin allowed

\* validateMacro: a macro is [name, value].
ValidateMacro(macro) ==
  /\ macro.name \notin {"PID", "PORT", "MODEL_ID"}
  /\ ~Mentions(macro.value, macro.name)

\* substituteMacroInValue: a text that is the macro alone takes its type.
Replaced(text, macro) ==
  FlattenSeq([i \in DOMAIN text |-> IF text[i] = Ref(macro.name) THEN macro.value.text ELSE <<text[i]>>])
SubstituteMacroInValue(value, macro) ==
  IF value.typed THEN value
  ELSE IF value.text = <<Ref(macro.name)>> THEN macro.value
  ELSE TextOf(Replaced(value.text, macro))

\* From the last macro to the first: a macro may use those before it.
SubstituteMacroList(value, macros) ==
  FoldRight(LAMBDA macro, acc : SubstituteMacroInValue(acc, macro), macros, value)

\* mergeModelMacros: a model's macro takes the place of the global one.
MergeModelMacros(id, globals, own) ==
  LET place(merged, macro) ==
        IF \E i \in DOMAIN merged : merged[i].name = macro.name
          THEN [i \in DOMAIN merged |-> IF merged[i].name = macro.name THEN macro ELSE merged[i]]
          ELSE Append(merged, macro)
  IN FoldLeft(place, <<[name |-> "MODEL_ID", value |-> TextOf(<<<<"lit", id>>>>)]>> \o globals, own)

\* The keys of setParamsByID; two that become one are refused.
SubstituteKeys(keys, macros) ==
  [i \in DOMAIN keys |-> FoldRight(LAMBDA macro, acc : Replaced(acc, macro), macros, keys[i])]
KeysDistinct(keys) == \A i, j \in DOMAIN keys : keys[i] = keys[j] => i = j

\* rawStartPort, with 0 for what is refused: a text, or a number below 1.
RawStartPort(value) ==
  IF value.typed /\ value.text[1][2] >= 1 THEN value.text[1][2] ELSE 0

Substituted(model, macros) ==
  [model EXCEPT !.cmd = SubstituteMacroList(@, macros),
                !.proxy = SubstituteMacroList(@, macros),
                !.cmdStop = SubstituteMacroList(@, macros),
                !.keys = SubstituteKeys(@, macros)]

-----------------------------------------------------------------------------
Init ==
  /\ progress = "start"
  /\ declared = NoDocument /\ raw = NoDocument
  /\ toExpand = <<>> /\ nextPort = 0

\* The declarations are read and validated; they are taken out of the tree, and
\* the default proxy is put in.
ReadDeclarations(doc) ==
  /\ progress = "start"
  /\ declared' = doc
  /\ raw' = [doc EXCEPT !.models =
               [id \in DOMAIN doc.models |->
                  [doc.models[id] EXCEPT !.proxy = IF @ = Missing THEN DefaultProxy ELSE @]]]
  /\ progress' = IF /\ \A i \in DOMAIN doc.globals : ValidateMacro(doc.globals[i])
                    /\ \A id \in DOMAIN doc.models : \A i \in DOMAIN doc.models[id].macros :
                         ValidateMacro(doc.models[id].macros[i])
                 THEN "globals" ELSE "refused"
  /\ UNCHANGED <<toExpand, nextPort>>

\* The global pass, and startPort read after it.
ExpandGlobals ==
  /\ progress = "globals"
  /\ LET start == SubstituteMacroList(raw.startPort, declared.globals)
     IN /\ raw' = [raw EXCEPT !.startPort = start,
                              !.other = SubstituteMacroList(@, declared.globals)]
        /\ IF RawStartPort(start) # 0
             THEN progress' = "models" /\ nextPort' = RawStartPort(start) /\ toExpand' = ModelIDs(declared)
             ELSE progress' = "refused" /\ UNCHANGED <<nextPort, toExpand>>
  /\ UNCHANGED declared

\* One model: its macros, its port, the keys that are left.
ExpandModel ==
  /\ progress = "models" /\ toExpand # <<>>
  /\ LET id == Head(toExpand)
         macros == MergeModelMacros(id, declared.globals, declared.models[id].macros)
         model == Substituted(raw.models[id], macros)
         asks == Mentions(model.cmd, "PORT")
         port == <<[name |-> "PORT", value |-> Number(nextPort)]>>
         withPort == IF asks THEN Substituted(model, port) ELSE model
     IN IF \/ ~KeysDistinct(model.keys) \/ ~KeysDistinct(withPort.keys)
           \/ Mentions(model.proxy, "PORT") /\ ~asks
           \/ \E i \in DOMAIN withPort.keys : Unresolved(TextOf(withPort.keys[i]), {})
          THEN progress' = "refused" /\ UNCHANGED <<raw, nextPort>>
          ELSE /\ raw' = [raw EXCEPT !.models[id] = withPort]
               /\ nextPort' = IF asks THEN nextPort + 1 ELSE nextPort
               /\ UNCHANGED progress
  /\ toExpand' = Tail(toExpand)
  /\ UNCHANGED declared

\* validateConfigMacroUses: PID is left for the process, in cmdStop alone.
ValidateUses ==
  /\ progress = "models" /\ toExpand = <<>>
  /\ progress' = IF \/ Unresolved(raw.other, {})
                    \/ \E id \in DOMAIN raw.models :
                         \/ Unresolved(raw.models[id].cmd, {}) \/ Unresolved(raw.models[id].proxy, {})
                         \/ Unresolved(raw.models[id].cmdStop, {"PID"})
                 THEN "refused" ELSE "accepted"
  /\ UNCHANGED <<declared, raw, toExpand, nextPort>>

Next ==
  \/ \E doc \in Documents : ReadDeclarations(doc)
  \/ ExpandGlobals
  \/ ExpandModel
  \/ ValidateUses

Spec == Init /\ [][Next]_macroVars

-----------------------------------------------------------------------------
\* The declarations that are in force in a model, or outside of them, in their
\* order: <<place, name, value>>, the model's own in the place of the global.
Named(macros, name) == {i \in DOMAIN macros : macros[i].name = name}
InForce(own) ==
  LET globals == declared.globals
  IN [name \in {globals[i].name : i \in DOMAIN globals} \cup {own[i].name : i \in DOMAIN own} |->
        LET g == Named(globals, name) o == Named(own, name)
        IN [place |-> IF g # {} THEN CHOOSE i \in g : TRUE ELSE Len(globals) + CHOOSE i \in o : TRUE,
            text |-> (IF o # {} THEN own[CHOOSE i \in o : TRUE] ELSE globals[CHOOSE i \in g : TRUE]).value.text]]

\* What a text means: each macro it names stands for its own meaning, as long as
\* it was declared before the one whose value names it.
RECURSIVE Meaning(_, _, _)
Meaning(text, table, before) ==
  FlattenSeq([i \in DOMAIN text |->
    IF text[i][1] = "ref" /\ text[i][2] \in DOMAIN table
      THEN IF table[text[i][2]].place < before
             THEN Meaning(table[text[i][2]].text, table, table[text[i][2]].place)
             ELSE <<text[i]>>
      ELSE <<text[i]>>])

Bound(text, name, token) == [i \in DOMAIN text |-> IF text[i] = Ref(name) THEN token ELSE text[i]]
Far == 100
MeaningIn(id, text) ==
  Bound(Meaning(text, InForce(declared.models[id].macros), Far), "MODEL_ID", <<"lit", id>>)
Has(text, name) == \E i \in DOMAIN text : text[i] = Ref(name)
ProxyOf(id) == IF declared.models[id].proxy = Missing THEN DefaultProxy.text ELSE declared.models[id].proxy.text
Asking(id) == Has(MeaningIn(id, declared.models[id].cmd.text), "PORT")
Earlier(id) == LET n == CHOOSE i \in DOMAIN Ids : Ids[i] = id IN {Ids[i] : i \in 1..(n - 1)}
PortToken(id) ==
  <<"num", Meaning(declared.startPort.text, InForce(<<>>), Far)[1][2]
           + Cardinality({n \in Earlier(id) \cap DOMAIN declared.models : Asking(n)})>>
Expected(id, text) ==
  IF Asking(id) THEN Bound(MeaningIn(id, text), "PORT", PortToken(id)) ELSE MeaningIn(id, text)

\* However macros name one another and whoever overrides them: an accepted
\* document means what its declarations say, each model that asks for a port has
\* one of its own that does not depend on the others' order in the file, and a
\* document is refused only for what no declaration resolves (macros.go).
MacrosMeanWhatTheySay ==
  /\ progress = "accepted" =>
       /\ raw.other.text = Meaning(declared.other.text, InForce(<<>>), Far)
       /\ \A id \in DOMAIN declared.models :
            LET model == declared.models[id]
            IN /\ raw.models[id].cmd.text = Expected(id, model.cmd.text)
               /\ raw.models[id].proxy.text = Expected(id, ProxyOf(id))
               /\ raw.models[id].cmdStop.text = Expected(id, model.cmdStop.text)
               /\ \A i \in DOMAIN model.keys : raw.models[id].keys[i] = Expected(id, model.keys[i])
               /\ \A i, j \in DOMAIN model.keys : i # j => raw.models[id].keys[i] # raw.models[id].keys[j]
               /\ ~Unresolved(TextOf(raw.models[id].cmd.text \o raw.models[id].proxy.text), {})
       /\ \A m, n \in DOMAIN declared.models :
            m # n /\ Asking(m) /\ Asking(n) => PortToken(m) # PortToken(n)
  /\ progress = "refused" =>
       \/ \E i \in DOMAIN declared.globals : ~ValidateMacro(declared.globals[i])
       \/ LET start == Meaning(declared.startPort.text, InForce(<<>>), Far)
          IN start[1][1] # "num" \/ Len(start) # 1 \/ start[1][2] < 1
       \/ Unresolved(TextOf(Meaning(declared.other.text, InForce(<<>>), Far)), {})
       \/ \E id \in DOMAIN declared.models :
            LET model == declared.models[id]
                texts == <<Expected(id, model.cmd.text), Expected(id, ProxyOf(id))>>
                         \o [i \in DOMAIN model.keys |-> Expected(id, model.keys[i])]
            IN \/ \E i \in DOMAIN model.macros : ~ValidateMacro(model.macros[i])
               \/ \E i \in DOMAIN texts : Unresolved(TextOf(texts[i]), {})
               \/ Unresolved(TextOf(Expected(id, model.cmdStop.text)), {"PID"})
               \/ \E i, j \in DOMAIN model.keys : i # j /\ Expected(id, model.keys[i]) = Expected(id, model.keys[j])
=============================================================================
