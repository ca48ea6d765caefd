------------------------------ MODULE MCRouter ------------------------------
(***************************************************************************)
(* Instances of Router for TLC, with the group policy of GroupPolicy.       *)
(***************************************************************************)
EXTENDS Router

CONSTANTS m1, m2, m3, r1, r2, r3, r4,
          GroupOf, SwapGroups, Exclusive, Persistent

G == INSTANCE GroupPolicy

MCEvictionFor(target, running) == G!GroupEvictionFor(target, running)
MCRivals == G!MutuallyExclusive(Models)

\* All models in one group that swaps its members.
OneGroup == [m \in Models |-> "swap"]
\* m1 on its own; m2 and m3 in exclusive, persistent groups: loading either
\* evicts m1, and they evict neither one another nor are they evicted.
ThreeGroups == (m1 :> "plain") @@ (m2 :> "left") @@ (m3 :> "right")

LimitOne == [m \in Models |-> 1]
LimitTwo == [m \in Models |-> 2]
LaterIsUrgent == [m \in Models |-> IF m = m3 THEN 1 ELSE 0]

TwoForOne == (r1 :> m1) @@ (r2 :> m2) @@ (r3 :> m1)
TwoModels == (r1 :> m1) @@ (r2 :> m2)
\* r4 asks for a model the router does not know.
OneEach == (r1 :> m1) @@ (r2 :> m2) @@ (r3 :> m3) @@ (r4 :> "unknown")
Crowd == (r1 :> m1) @@ (r2 :> m2) @@ (r3 :> m3) @@ (r4 :> m3)

UnloadFirst == {{m1}}
=============================================================================
