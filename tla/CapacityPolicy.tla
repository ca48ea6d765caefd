---------------------------- MODULE CapacityPolicy ----------------------------
(***************************************************************************)
(* The planner of the capacity router (internal/router/capacity.go): which *)
(* running models to stop so that a target fits the pools.  A greedy plan  *)
(* seeds a depth-first search with a budget of nodes; a plan the budget    *)
(* cut short is trimmed.  Checked against the plan the comment asks for:   *)
(* least cost, then fewest models, then first by name.                     *)
(***************************************************************************)
EXTENDS Integers, Sequences, FiniteSets, FiniteSetsExt, SequencesExt

CONSTANTS CapModels,   \* models, numbered in the order of their names
          CapPools,    \* resource pools, with the total of each
          CapConfigs,  \* configurations <<[use, cost], ...>>: per model, what it
                       \* uses of each pool, and evict_cost
          Budgets,     \* limits of searchNodes
          MaxInt       \* the largest int64

VARIABLES capAsk,      \* the target, what runs, the configuration and the budget
          capPlan      \* lastEvict, and if the search was limited

planVars == <<capAsk, capPlan>>

\* ValidateCapacity: what it refuses never reaches the planner.
Sum(f, S) == MapThenSumSet(LAMBDA m : f[m], S)
Valid(conf) ==
  /\ \A p \in DOMAIN CapPools : CapPools[p] > 0
  /\ \A m \in CapModels : conf.cost[m] \in 0..MaxInt
  /\ \A m \in CapModels : \A p \in DOMAIN CapPools : conf.use[m][p] \in 0..CapPools[p]
  /\ \A p \in DOMAIN CapPools : Sum([m \in CapModels |-> conf.use[m][p]], CapModels) <= MaxInt
  /\ Sum(conf.cost, CapModels) <= MaxInt

\* fits: what stays and the target are within every pool.
Fits(ask, evict) ==
  \A p \in DOMAIN CapPools :
    Sum([m \in CapModels |-> CapConfigs[ask.conf].use[m][p]], (ask.running \ evict) \union {ask.target}) <= CapPools[p]

Candidates(ask) == SetToSortSeq(ask.running \ {ask.target}, <)
CostOf(ask, evict) == Sum(CapConfigs[ask.conf].cost, evict)

\* The order of plans: their cost, their size, their sorted names.
LexLess(a, b) ==
  \E i \in DOMAIN a : a[i] < b[i] /\ \A j \in 1..(i - 1) : a[j] = b[j]
Better(ask, a, b) ==
  LET costA == CostOf(ask, ToSet(a))
      costB == CostOf(ask, ToSet(b))
  IN \/ costA < costB
     \/ costA = costB /\ Len(a) < Len(b)
     \/ costA = costB /\ Len(a) = Len(b) /\ LexLess(a, b)

\* The seed: all go, and the most expensive that may stay do.
Greedy(ask) ==
  LET order == SetToSortSeq(ToSet(Candidates(ask)), LAMBDA a, b :
                 \/ CapConfigs[ask.conf].cost[a] > CapConfigs[ask.conf].cost[b]
                 \/ CapConfigs[ask.conf].cost[a] = CapConfigs[ask.conf].cost[b] /\ a < b)
  IN SetToSortSeq(FoldLeft(LAMBDA gone, m : IF Fits(ask, gone \ {m}) THEN gone \ {m} ELSE gone,
                           ToSet(order), order), <)

\* search(i, cost): "with" and then "without" the i-th candidate.
RECURSIVE Search(_, _, _, _)
Search(ask, i, chosen, st) ==
  LET candidates == Candidates(ask)
      s == [st EXCEPT !.nodes = @ + 1]
      cost == CostOf(ask, ToSet(chosen))
      bestCost == CostOf(ask, ToSet(s.best))
      all == ToSet(chosen) \union ToSet(SubSeq(candidates, i, Len(candidates)))
  IN CASE st.nodes >= ask.budget -> [st EXCEPT !.limited = TRUE]
       [] st.nodes < ask.budget /\ Fits(ask, ToSet(chosen)) ->
            IF Better(ask, chosen, s.best) THEN [s EXCEPT !.best = chosen] ELSE s
       [] OTHER ->
            IF \/ i > Len(candidates)
               \/ cost > bestCost
               \/ cost = bestCost /\ Len(chosen) >= Len(s.best)
               \/ ~Fits(ask, all)
              THEN s
              ELSE Search(ask, i + 1, chosen, Search(ask, i + 1, Append(chosen, candidates[i]), s))

\* After a search that ran out: keep each model that need not go, last first.
Trim(ask, best) ==
  SetToSortSeq(FoldRight(LAMBDA m, gone : IF Fits(ask, gone \ {m}) THEN gone \ {m} ELSE gone,
                         best, ToSet(best)), <)

Plan(ask) ==
  LET found == Search(ask, 1, <<>>, [best |-> Greedy(ask), nodes |-> 0, limited |-> FALSE])
  IN IF Fits(ask, {}) THEN [evict |-> <<>>, limited |-> FALSE]
     ELSE [evict |-> IF found.limited THEN Trim(ask, found.best) ELSE found.best,
           limited |-> found.limited]

-----------------------------------------------------------------------------
NoAsk == [target |-> 0, running |-> {}, conf |-> 0, budget |-> 0]

Init == capAsk = NoAsk /\ capPlan = [evict |-> <<>>, limited |-> FALSE]

\* EvictionFor; OnSwapStart asks the same again and reads what is cached.
EvictionFor(target, running, conf, budget) ==
  /\ capAsk = NoAsk
  /\ Valid(CapConfigs[conf])
  /\ capAsk' = [target |-> target, running |-> running, conf |-> conf, budget |-> budget]
  /\ capPlan' = Plan(capAsk')

Next ==
  \E target \in CapModels, running \in SUBSET CapModels, conf \in DOMAIN CapConfigs, budget \in Budgets :
    EvictionFor(target, running, conf, budget)

Spec == Init /\ [][Next]_planVars

-----------------------------------------------------------------------------
\* What evictionFor's comment promises.  Whatever the budget, the target fits
\* and no model goes that could stay; when the search was not cut short, the
\* plan is the first of all in the order of the comment.
PlanIsBest ==
  capAsk # NoAsk =>
    LET gone == ToSet(capPlan.evict)
        asked == capAsk.running \ {capAsk.target}
    IN /\ gone \subseteq asked
       /\ Fits(capAsk, gone)
       /\ \A m \in gone : ~Fits(capAsk, gone \ {m})
       /\ ~capPlan.limited =>
            \A other \in SUBSET asked :
              Fits(capAsk, other) => ~Better(capAsk, SetToSortSeq(other, <), capPlan.evict)
=============================================================================
