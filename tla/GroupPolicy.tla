----------------------------- MODULE GroupPolicy -----------------------------
(***************************************************************************)
(* The eviction policy of the group router: groupSwapper in                 *)
(* internal/router/group.go.  A model belongs to one group; a group may     *)
(* swap its members, be exclusive of other groups, be persistent.           *)
(***************************************************************************)

CONSTANTS
    GroupOf,      \* groupSwapper.modelToGroup
    SwapGroups,   \* groups configured with swap
    Exclusive,    \* groups configured with exclusive
    Persistent    \* groups configured with persistent

Evicts(target, m) ==
    \/ GroupOf[m] = GroupOf[target] /\ GroupOf[target] \in SwapGroups
    \/ /\ GroupOf[m] # GroupOf[target]
       /\ GroupOf[target] \in Exclusive
       /\ GroupOf[m] \notin Persistent

GroupEvictionFor(target, running) == {m \in running \ {target} : Evicts(target, m)}

\* Models that evict one another, whichever is loaded first.
MutuallyExclusive(models) ==
    {p \in models \X models : p[1] # p[2] /\ Evicts(p[1], p[2]) /\ Evicts(p[2], p[1])}
=============================================================================
