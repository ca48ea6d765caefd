----------------------------- MODULE MatrixPolicy -----------------------------
(***************************************************************************)
(* The matrix of sets of models that may run together: how its definitions *)
(* are compiled (Compile in internal/matrix/program.go), how a set is      *)
(* chosen for a target without expanding the expressions (Solve, evaluate, *)
(* addToFrontier), and whether models can coexist (CanContainAll).         *)
(* Checked against the sets that the expressions stand for.  A definition  *)
(* is a sequence of tokens, parsed as in dsl.go into a leaf, a reference   *)
(* to another definition, an "and" or an "or".  A mask is the set of the   *)
(* models whose bits are set.                                              *)
(***************************************************************************)
EXTENDS Integers, Sequences, FiniteSets, FiniteSetsExt, SequencesExt

CONSTANTS MatrixModels, \* all models of the configuration
          Matrices,     \* matrices, each a sequence of [name, dsl]; dsl is a
                        \* sequence of tokens [typ, val]
          Vars,         \* names for models
          EvictCosts    \* ResolvedEvictCosts, positive, for some models

VARIABLES question,     \* the matrix, the target and what runs
          decision      \* what Compile and Solve answer

matrixVars == <<question, decision>>

Orphans == "auto:orphans"
Leaf(m) == [kind |-> "leaf", name |-> m]
Ref(name) == [kind |-> "ref", name |-> name]
Or(children) == [kind |-> "or", children |-> children]
Empty == [kind |-> "empty"]

\* parseOrExpr, parseAndExpr and parseAtom: "or" binds weaker than "and".
TypeAt(dsl, pos) == IF pos \in DOMAIN dsl THEN dsl[pos].typ ELSE "eof"
Fail == [ok |-> FALSE]
RECURSIVE Parse(_, _, _), ParseMore(_, _, _, _)
Tighter(level) == IF level = "or" THEN "and" ELSE "atom"
ParseMore(level, dsl, children, pos) ==
  IF TypeAt(dsl, pos) = level
    THEN LET next == Parse(Tighter(level), dsl, pos + 1)
         IN IF next.ok THEN ParseMore(level, dsl, Append(children, next.node), next.pos) ELSE Fail
    ELSE [ok |-> TRUE, pos |-> pos,
          node |-> IF Len(children) = 1 THEN children[1] ELSE [kind |-> level, children |-> children]]
Parse(level, dsl, pos) ==
  IF level # "atom"
    THEN LET first == Parse(Tighter(level), dsl, pos)
         IN IF first.ok THEN ParseMore(level, dsl, <<first.node>>, first.pos) ELSE Fail
    ELSE CASE TypeAt(dsl, pos) = "ident" -> [ok |-> TRUE, pos |-> pos + 1, node |-> Leaf(dsl[pos].val)]
           [] TypeAt(dsl, pos) = "ref" -> [ok |-> TRUE, pos |-> pos + 1, node |-> Ref(dsl[pos].val)]
           [] TypeAt(dsl, pos) = "(" ->
                LET inner == Parse("or", dsl, pos + 1)
                IN IF inner.ok /\ (inner.ok => TypeAt(dsl, inner.pos) = ")")
                     THEN [inner EXCEPT !.pos = @ + 1] ELSE Fail
           [] OTHER -> Fail

ParseDSL(dsl) ==
  LET parsed == Parse("or", dsl, 1)
  IN IF parsed.ok THEN IF parsed.pos = Len(dsl) + 1 THEN parsed ELSE Fail ELSE Fail

Resolve(ident) == IF ident \in DOMAIN Vars THEN Vars[ident] ELSE ident
RECURSIVE Resolved(_)
Resolved(node) ==
  CASE node.kind = "leaf" -> Leaf(Resolve(node.name))
    [] node.kind = "ref" -> node
    [] OTHER -> [node EXCEPT !.children = [i \in DOMAIN @ |-> Resolved(@[i])]]

RECURSIVE Names(_, _)
Names(kind, node) ==
  CASE node.kind = kind -> {node.name}
    [] node.kind \in {"and", "or"} -> UNION {Names(kind, node.children[i]) : i \in DOMAIN node.children}
    [] OTHER -> {}

\* The references of an expression, in the order a walk meets them first.
RECURSIVE RefsInOrder(_)
RefsInOrder(node) ==
  CASE node.kind = "ref" -> <<node.name>>
    [] node.kind \in {"and", "or"} ->
         FoldLeft(LAMBDA refs, child : refs \o SelectSeq(RefsInOrder(child), LAMBDA r : r \notin ToSet(refs)),
                  <<>>, node.children)
    [] OTHER -> <<>>

-----------------------------------------------------------------------------
\* Compile, first half: the roots by name ("defs" are parsed and resolved), with
\* the set of orphans when a definition refers to it and none defines it.
DefNames(defs) == {defs[i].name : i \in DOMAIN defs}
Mentioned(defs) == UNION {Names("leaf", defs[i].expr) : i \in DOMAIN defs}
Referenced(defs) == UNION {Names("ref", defs[i].expr) : i \in DOMAIN defs}
Synthesizes(defs) == Orphans \in Referenced(defs) /\ Orphans \notin DefNames(defs)
BuildModelSet(models) ==
  IF models = {} THEN Empty
  ELSE Or([i \in DOMAIN SetToSeq(models) |-> Leaf(SetToSeq(models)[i])])

Roots(defs) ==
  [n \in DefNames(defs) \union (IF Synthesizes(defs) THEN {Orphans} ELSE {}) |->
     IF n \in DefNames(defs) THEN defs[CHOOSE i \in DOMAIN defs : defs[i].name = n].expr
     ELSE BuildModelSet(MatrixModels \ Mentioned(defs))]

Undefined(defs) == Referenced(defs) \ DOMAIN Roots(defs) # {}

\* topologicalOrder: visit with the colours 1 and 2; "order" is what is done.
RECURSIVE Visit(_, _, _, _)
Visit(roots, name, path, st) ==
  IF st.circular \/ name \in path THEN [st EXCEPT !.circular = TRUE]
  ELSE IF name \in ToSet(st.order) THEN st
  ELSE LET deps == RefsInOrder(roots[name])
           after == FoldLeft(LAMBDA s, dep : Visit(roots, dep, path \union {name}, s), st, deps)
       IN IF after.circular THEN after ELSE [after EXCEPT !.order = Append(@, name)]

TopologicalOrder(defs) ==
  FoldLeft(LAMBDA st, def : Visit(Roots(defs), def.name, {}, st),
           [order |-> <<>>, circular |-> FALSE], defs)

\* simplifyEmptyRefs, in that order; a term that is empty is dropped.
RECURSIVE Simplify(_, _)
Simplify(node, roots) ==
  IF node.kind = "ref" THEN IF roots[node.name] = Empty THEN Empty ELSE node
  ELSE IF node.kind \in {"leaf", "empty"} THEN node
  ELSE LET children == [i \in DOMAIN node.children |-> Simplify(node.children[i], roots)]
           kept == SelectSeq(children, LAMBDA c : c # Empty)
       IN CASE Len(kept) = 0 -> Empty
            [] Len(kept) = 1 -> kept[1]
            [] OTHER -> [node EXCEPT !.children = kept]

\* Compile: the sets in order, each linked; the synthesized one is not a set.
Compile(matrix) ==
  LET parsed == [i \in DOMAIN matrix |-> ParseDSL(matrix[i].dsl)]
      defs == [i \in DOMAIN matrix |-> [name |-> matrix[i].name, expr |-> Resolved(parsed[i].node)]]
      topo == TopologicalOrder(defs)
      roots == IF Orphans \notin Referenced(defs) THEN Roots(defs)
               ELSE FoldLeft(LAMBDA rs, name : [rs EXCEPT ![name] = Simplify(@, rs)],
                             Roots(defs), topo.order)
  IN IF matrix = <<>> \/ \E i \in DOMAIN matrix : ~parsed[i].ok THEN Fail
     ELSE IF ~(Mentioned(defs) \subseteq MatrixModels) \/ Undefined(defs) THEN Fail
     ELSE IF topo.circular THEN Fail
     ELSE [ok |-> TRUE, roots |-> roots,
           sets |-> IF Synthesizes(defs) THEN SelectSeq(topo.order, LAMBDA n : n # Orphans)
                    ELSE topo.order]

-----------------------------------------------------------------------------
\* addToFrontier: a mask within one that is kept adds nothing.
\* Mutant: the smaller of two masks is kept.
AddSmaller(states, candidate) ==
  IF \E i \in DOMAIN states : states[i] \subseteq candidate THEN states
  ELSE Append(SelectSeq(states, LAMBDA s : ~(candidate \subseteq s)), candidate)
AddToFrontier(states, candidate) ==
  IF \E i \in DOMAIN states : candidate \subseteq states[i] THEN states
  ELSE Append(SelectSeq(states, LAMBDA s : ~(s \subseteq candidate)), candidate)

\* evaluate: the projections of a node on the relevant models.
RECURSIVE Evaluate(_, _, _)
Evaluate(node, roots, relevant) ==
  LET Children == [i \in DOMAIN node.children |-> Evaluate(node.children[i], roots, relevant)]
      Combine(states, child) ==
        FoldLeft(LAMBDA combined, left :
                   FoldLeft(LAMBDA c, right : AddToFrontier(c, left \union right), combined, child),
                 <<>>, states)
  IN CASE node.kind = "empty" -> <<>>
       [] node.kind = "leaf" -> <<{node.name} \intersect relevant>>
       [] node.kind = "ref" -> Evaluate(roots[node.name], roots, relevant)
       [] node.kind = "or" ->
            FoldLeft(LAMBDA states, child : FoldLeft(AddToFrontier, states, child), <<>>, Children)
       [] node.kind = "and" -> FoldLeft(Combine, <<{}>>, Children)

\* computeSupport: what an expression can mention.
RECURSIVE Support(_, _)
Support(node, roots) ==
  CASE node.kind = "leaf" -> {node.name}
    [] node.kind = "ref" -> Support(roots[node.name], roots)
    [] node.kind = "empty" -> {}
    [] OTHER -> UNION {Support(node.children[i], roots) : i \in DOMAIN node.children}

CostOf(models) ==
  MapThenSumSet(LAMBDA m : IF m \in DOMAIN EvictCosts THEN EvictCosts[m] ELSE 1, models)

\* Solve: the first of the cheapest masks, over the sets in their order.
Solve(program, target, running) ==
  LET Masks(name) ==
        IF target \notin Support(program.roots[name], program.roots) THEN <<>>
        ELSE SelectSeq(Evaluate(program.roots[name], program.roots, running \union {target}),
                       LAMBDA mask : target \in mask)
      masks == FoldLeft(LAMBDA all, name : all \o Masks(name), <<>>, program.sets)
      best == Min({CostOf(running \ masks[i]) : i \in DOMAIN masks})
      chosen == masks[Min({i \in DOMAIN masks : CostOf(running \ masks[i]) = best})]
  IN CASE target \in running -> {}
       [] target \notin running /\ masks = <<>> -> running
       [] OTHER -> running \ chosen

CanContainAll(program, models) ==
  \/ models = {}
  \/ \E i \in DOMAIN program.sets :
       LET root == program.roots[program.sets[i]]
           masks == Evaluate(root, program.roots, models)
       IN /\ models \subseteq Support(root, program.roots)
          /\ \E j \in DOMAIN masks : models \subseteq masks[j]

-----------------------------------------------------------------------------
NoQuestion == [matrix |-> 0, target |-> "", running |-> {}]
NoDecision == [compiled |-> FALSE, evict |-> {}, together |-> FALSE]

Init == question = NoQuestion /\ decision = NoDecision

Ask(i, target, running) ==
  LET program == Compile(Matrices[i])
  IN /\ question = NoQuestion
     /\ question' = [matrix |-> i, target |-> target, running |-> running]
     /\ decision' = IF ~program.ok THEN NoDecision
                    ELSE [compiled |-> TRUE, evict |-> Solve(program, target, running),
                          together |-> CanContainAll(program, running)]

Next ==
  \E i \in DOMAIN Matrices, target \in MatrixModels, running \in SUBSET MatrixModels :
    Ask(i, target, running)

Spec == Init /\ [][Next]_matrixVars

-----------------------------------------------------------------------------
\* What the tokens stand for, by cutting them at an operator that is in no
\* parenthesis, an "or" before an "and".
Depth(dsl, i) ==
  Cardinality({j \in 1..(i - 1) : dsl[j].typ = "("}) - Cardinality({j \in 1..(i - 1) : dsl[j].typ = ")"})
Outer(dsl, typ) == {i \in DOMAIN dsl : dsl[i].typ = typ /\ Depth(dsl, i) = 0}
Cut(dsl) == IF Outer(dsl, "or") # {} THEN Min(Outer(dsl, "or"))
            ELSE IF Outer(dsl, "and") # {} THEN Min(Outer(dsl, "and")) ELSE 0
Before(dsl) == SubSeq(dsl, 1, Cut(dsl) - 1)
After(dsl) == SubSeq(dsl, Cut(dsl) + 1, Len(dsl))
Inner(dsl) == SubSeq(dsl, 2, Len(dsl) - 1)

RECURSIVE WellFormed(_)
WellFormed(dsl) ==
  IF Cut(dsl) # 0 THEN WellFormed(Before(dsl)) /\ WellFormed(After(dsl))
  ELSE IF Len(dsl) = 1 THEN dsl[1].typ \in {"ident", "ref"}
  ELSE Len(dsl) > 2 /\ TypeAt(dsl, 1) = "(" /\ TypeAt(dsl, Len(dsl)) = ")" /\ WellFormed(Inner(dsl))

\* A family of sets, written out in full.  The orphans are the models that no
\* definition mentions; a term without any is left out.
TokensOf(matrix, typ) ==
  UNION {{token.val : token \in {t \in ToSet(matrix[i].dsl) : t.typ = typ}} : i \in DOMAIN matrix}
Expression(matrix, name) == matrix[CHOOSE i \in DOMAIN matrix : matrix[i].name = name].dsl

RECURSIVE Family(_, _)
Family(dsl, matrix) ==
  LET left == Family(Before(dsl), matrix)
      right == Family(After(dsl), matrix)
  IN IF Cut(dsl) # 0
       THEN IF dsl[Cut(dsl)].typ = "or" \/ left = {} \/ right = {} THEN left \union right
            ELSE {x \union y : x \in left, y \in right}
     ELSE CASE dsl[1].typ = "ident" -> {{Resolve(dsl[1].val)}}
            [] dsl[1].typ = "(" -> Family(Inner(dsl), matrix)
            [] OTHER ->
                 IF dsl[1].val \in DefNames(matrix) THEN Family(Expression(matrix, dsl[1].val), matrix)
                 ELSE {{m} : m \in MatrixModels \ {Resolve(n) : n \in TokensOf(matrix, "ident")}}

Allowed(matrix) == UNION {Family(matrix[i].dsl, matrix) : i \in DOMAIN matrix}

\* Definitions that refer to each other in a circle: no order of them has every
\* reference before its use.
RefersTo(matrix, name) ==
  {n \in DefNames(matrix) : \E i \in DOMAIN Expression(matrix, name) :
     Expression(matrix, name)[i] = [typ |-> "ref", val |-> n]}
Circular(matrix) ==
  \E circle \in SUBSET DefNames(matrix) \ {{}} :
    \A n \in circle : RefersTo(matrix, n) \intersect circle # {}
Wrong(matrix) ==
  \/ \E i \in DOMAIN matrix : ~WellFormed(matrix[i].dsl)
  \/ ~({Resolve(n) : n \in TokensOf(matrix, "ident")} \subseteq MatrixModels)
  \/ ~(TokensOf(matrix, "ref") \subseteq DefNames(matrix) \union {Orphans})
  \/ Circular(matrix)

\* The comments of Compile and Solve, for every target and every running set:
\* what is refused, that target and survivors are within an allowed set (or the
\* target runs alone if it is in none), that no allowed set is cheaper, and that
\* CanContainAll agrees with the sets written out.
SolveIsBest ==
  question # NoQuestion =>
    LET matrix == Matrices[question.matrix]
        stay == question.running \ decision.evict
        with == {s \in Allowed(matrix) : question.target \in s}
    IN IF Wrong(matrix) THEN ~decision.compiled
       ELSE /\ decision.compiled
            /\ question.target \notin question.running =>
                 IF with = {} THEN stay = {}
                 ELSE /\ \E s \in with : stay \subseteq s
                      /\ \A s \in with : CostOf(decision.evict) <= CostOf(question.running \ s)
            /\ decision.together <=>
                 question.running = {} \/ \E s \in Allowed(matrix) : question.running \subseteq s
=============================================================================
