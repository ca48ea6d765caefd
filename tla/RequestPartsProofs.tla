--------------------------- MODULE RequestPartsProofs ---------------------------
(***************************************************************************)
(* The parts of module Parts that a request goes through, for any values   *)
(* of their constants: the middlewares and routes, what they make of its   *)
(* body, and what is recorded of it and of its answer.  The other parts    *)
(* are in module PartsProofs.                                              *)
(***************************************************************************)
EXTENDS Parts, FiniteSetTheorems, SequenceTheorems, TLAPS

-----------------------------------------------------------------------------
(* Numbers up to some n, one after another.                                *)

\* A set of numbers has a least one.  The induction is that of the strict
\* subsets: of the segments below its members, one has no smaller one.
LEMMA LeastNumber ==
  ASSUME NEW T, T \subseteq Nat, T # {}
  PROVE  \E p \in T : \A o \in T : ~(o < p)
<1> DEFINE Below(p) == 0..(p - 1)
           Segments == {Below(p) : p \in T}
<1>1. Segments \subseteq FiniteSubsetsOf(Nat)
  <2>1. \A p \in T : Below(p) \subseteq Nat /\ IsFiniteSet(Below(p))
    BY FS_Interval
  <2> QED
    BY <2>1 DEF FiniteSubsetsOf
<1>2. Segments # {}
  OBVIOUS
<1>3. IsWellFoundedOn(StrictSubsetOrdering(Nat), FiniteSubsetsOf(Nat))
  BY FS_StrictSubsetOrderingWellFounded
<1>4. PICK m \in Segments : \A y \in Segments : ~ (<<y, m>> \in StrictSubsetOrdering(Nat))
  <2> HIDE DEF Segments
  <2> QED
    BY <1>1, <1>2, <1>3, WFMin
<1>5. PICK p \in T : m = Below(p)
  BY <1>4
<1>6. ASSUME NEW o \in T, o < p PROVE FALSE
  <2>1. Below(o) \subseteq Below(p) /\ Below(o) # Below(p)
    <3>1. o \in Below(p) /\ o \notin Below(o) /\ \A x \in Below(o) : x \in Below(p)
      BY <1>6, SMT
    <3> QED
      BY <3>1
  <2>2. Below(o) \in SUBSET Nat /\ Below(p) \in SUBSET Nat
    OBVIOUS
  <2>3. <<Below(o), Below(p)>> \in StrictSubsetOrdering(Nat)
    <3> HIDE DEF Below
    <3> QED
      BY <2>1, <2>2 DEF StrictSubsetOrdering
  <2> QED
    BY <2>3, <1>4, <1>5
<1> QED
  BY <1>6

\* A set that has 0, and with a number below n the next one, has all up to n.
LEMMA UpTo ==
  ASSUME NEW n \in Nat, NEW T, 0 \in T, \A k \in 0..(n - 1) : k \in T => k + 1 \in T
  PROVE  \A k \in 0..n : k \in T
<1> DEFINE Missing == (0..n) \ T
<1>1. SUFFICES ASSUME Missing # {} PROVE FALSE
  OBVIOUS
<1>2. PICK p \in Missing : \A o \in Missing : ~(o < p)
  <2>1. Missing \subseteq Nat
    OBVIOUS
  <2> HIDE DEF Missing
  <2> QED
    BY <1>1, <2>1, LeastNumber
<1>3. p \in 0..n /\ p \notin T /\ p # 0
  OBVIOUS
<1>4. p - 1 \in 0..(n - 1) /\ p - 1 \in 0..n /\ p - 1 < p
  BY <1>3
<1>5. p - 1 \in T
  BY <1>2, <1>4
<1> QED
  BY <1>3, <1>4, <1>5

\* f changes at the steps of H only, and to what V says.
Changes(f, H, V, n) == \A k \in 1..n : f[k] = IF H[k] THEN V[k] ELSE f[k - 1]
LastOf(H, n) == {i \in 1..n : H[i] /\ \A j \in 1..n : H[j] => j <= i}

\* What changes at some steps only is what the last of them made of it.
LEMMA LastChange ==
  ASSUME NEW n \in Nat, NEW f, NEW H, NEW V, Changes(f, H, V, n)
  PROVE  \/ f[n] = f[0] /\ \A i \in 1..n : ~H[i]
         \/ \E i \in 1..n : H[i] /\ f[n] = V[i] /\ \A j \in 1..n : H[j] => j <= i
<1> DEFINE Is(k) == \/ f[k] = f[0] /\ \A i \in 1..k : ~H[i]
                    \/ \E i \in 1..k : H[i] /\ f[k] = V[i] /\ \A j \in 1..k : H[j] => j <= i
           T == {k \in 0..n : Is(k)}
<1>1. Is(0)
  OBVIOUS
<1>2. ASSUME NEW k \in 0..(n - 1), Is(k) PROVE Is(k + 1)
  <2>1. k + 1 \in 1..n /\ (k + 1) - 1 = k /\ k \in Nat
    OBVIOUS
  <2>2. f[k + 1] = IF H[k + 1] THEN V[k + 1] ELSE f[k]
    BY <2>1 DEF Changes
  <2>3. \A i \in 1..(k + 1) : i \in 1..k \/ i = k + 1
    BY <2>1
  <2>4. CASE H[k + 1]
    <3>1. k + 1 \in 1..(k + 1) /\ \A j \in 1..(k + 1) : j <= k + 1
      BY <2>1
    <3> QED
      BY <2>2, <2>4, <3>1
  <2>5. CASE ~H[k + 1] /\ f[k] = f[0] /\ \A i \in 1..k : ~H[i]
    BY <2>2, <2>3, <2>5
  <2>6. CASE ~H[k + 1] /\ \E i \in 1..k : H[i] /\ f[k] = V[i] /\ \A j \in 1..k : H[j] => j <= i
    <3>1. PICK i \in 1..k : H[i] /\ f[k] = V[i] /\ \A j \in 1..k : H[j] => j <= i
      BY <2>6
    <3>2. i \in 1..(k + 1)
      BY <2>1
    <3>3. \A j \in 1..(k + 1) : H[j] => j <= i
      BY <2>3, <2>6, <3>1
    <3> QED
      BY <2>2, <2>6, <3>1, <3>2, <3>3
  <2> QED
    BY <1>2, <2>4, <2>5, <2>6
<1>3. 0 \in T /\ \A k \in 0..(n - 1) : k \in T => k + 1 \in T
  <2>1. 0 \in 0..n /\ \A k \in 0..(n - 1) : k + 1 \in 0..n
    OBVIOUS
  <2> HIDE DEF Is
  <2> QED
    BY <1>1, <1>2, <2>1
<1>4. n \in T
  <2>1. n \in 0..n
    OBVIOUS
  <2> HIDE DEF T
  <2> QED
    BY <1>3, <2>1, UpTo
<1> QED
  BY <1>4

\* The value that the last change leaves, as one that is chosen from the last place.
LEMMA ValueLeft ==
  ASSUME NEW n \in Nat, NEW f, NEW H, NEW V, Changes(f, H, V, n)
  PROVE  f[n] = IF LastOf(H, n) = {} THEN f[0] ELSE V[CHOOSE i \in LastOf(H, n) : TRUE]
<1> DEFINE last == LastOf(H, n)
<1>1. CASE f[n] = f[0] /\ \A i \in 1..n : ~H[i]
  <2>1. last = {}
    BY <1>1 DEF LastOf
  <2> QED
    BY <1>1, <2>1, Zenon
<1>2. ASSUME NEW i \in 1..n, H[i], f[n] = V[i], \A j \in 1..n : H[j] => j <= i
      PROVE  f[n] = IF last = {} THEN f[0] ELSE V[CHOOSE k \in last : TRUE]
  <2>1. last = {i}
    <3>1. \A j \in 1..n : j \in Int
      OBVIOUS
    <3>2. \A j \in last : j <= i /\ i <= j /\ j \in Int /\ i \in Int
      BY <1>2, <3>1 DEF LastOf
    <3>3. \A j \in last : j = i
      <4> HIDE DEF last
      <4> QED
        BY <3>2
    <3>4. i \in last
      BY <1>2 DEF LastOf
    <3> QED
      BY <3>3, <3>4, Zenon
  <2> HIDE DEF last
  <2>2. (CHOOSE k \in last : TRUE) = i
    BY <2>1
  <2> QED
    BY <1>2, <2>1, <2>2
<1> QED
  BY <1>1, <1>2, LastChange

-----------------------------------------------------------------------------
(* The request pipeline.                                                   *)

PipePlaces ==
  {"none", "over", "profile", "select", "spill", "rename", "dispatch", "local", "peer"}
PipeFields == {"at", "name", "holds", "target", "seen", "fair"}
KnownNames == DOMAIN LocalModel \union DOMAIN PeerModel

\* A request that holds a reservation has chosen a target and not yet returned.
PipeCall(c) ==
  /\ DOMAIN c = PipeFields
  /\ c.at \in PipePlaces /\ c.holds \in Pipe!Spilling \union {""} /\ c.fair = TRUE
  /\ c.holds # "" => c.at \in {"rename", "dispatch", "local", "peer"} /\ c.target \in KnownNames
  /\ c.at = "spill" => c.name \in Pipe!Spilling

PipeTypes ==
  /\ slots \in Nat /\ rr \in [Pipe!Spilling -> Nat]
  /\ reserved \in [Pipe!Spilling -> [Pipe!Models -> Nat]]
  /\ DOMAIN call = DOMAIN PipeCalls
  /\ \A q \in DOMAIN PipeCalls : PipeCall(call[q])

\* Who holds a reservation of a selector on a model.
Holding(s, m) ==
  {q \in Pipe!Inside : call[q].holds = s /\ Pipe!ModelOf(call[q].target) = m}

\* The counts are those of the requests they count.
PipeCounts ==
  /\ PipeLimit # 0 => slots = Cardinality(Pipe!Inside) /\ slots <= PipeLimit
  /\ \A s \in Pipe!Spilling : \A m \in Pipe!Models : reserved[s][m] = Cardinality(Holding(s, m))

PipeInv == PipeTypes /\ PipeCounts

LEMMA PipeCardinality == \A S : Pipe!Cardinality(S) = Cardinality(S)
  BY Zenon DEF Pipe!Cardinality, Cardinality, Pipe!IsFiniteSet, IsFiniteSet

LEMMA PipeConstants ==
  IsFiniteSet(DOMAIN PipeCalls) /\ "" \notin Pipe!Spilling
  BY PipeAssumption, Zenon DEF Pipe!Spilling

LEMMA PipeNumbers ==
  PipeLimit \in Nat /\ Spillover \in Nat /\ RoundRobin \in Nat /\ RoundRobin # 0
  BY PipeAssumption, Zenon

LEMMA Positive == \A k \in Nat : k + 1 \in Nat /\ (k # 0 => k > 0 /\ k - 1 \in Nat)
  OBVIOUS

LEMMA OneCountChanges ==
  ASSUME NEW S, NEW M, NEW f \in [S -> [M -> Nat]], NEW t \in S, NEW n \in M, NEW k \in Nat,
         NEW g, g = [f EXCEPT ![t][n] = k]
  PROVE  /\ g \in [S -> [M -> Nat]] /\ g[t][n] = k
         /\ \A s \in S : \A m \in M : (s # t \/ m # n) => g[s][m] = f[s][m]
<1> DEFINE h == [f[t] EXCEPT ![n] = k]
<1>1. f[t] \in [M -> Nat]
  OBVIOUS
<1>2. h \in [M -> Nat] /\ h[n] = k /\ \A m \in M : m # n => h[m] = f[t][m]
  BY <1>1
<1>a. g = [f EXCEPT ![t] = h]
  BY DEF h
<1> HIDE DEF h
<1>3. /\ g \in [S -> [M -> Nat]] /\ g[t] = h
      /\ \A s \in S : s # t => g[s] = f[s]
  BY <1>2, <1>a
<1>5. \A s \in S : \A m \in M : (s # t \/ m # n) => g[s][m] = f[s][m]
  BY <1>2, <1>3
<1> QED
  BY <1>2, <1>3, <1>5

\* One count becomes k, the others stay.
Counts(t, n, k) ==
  /\ reserved' \in [Pipe!Spilling -> [Pipe!Models -> Nat]] /\ reserved'[t][n] = k
  /\ \A s \in Pipe!Spilling : \A m \in Pipe!Models :
       (s # t \/ m # n) => reserved'[s][m] = reserved[s][m]

LEMMA ReservedChanges ==
  ASSUME reserved \in [Pipe!Spilling -> [Pipe!Models -> Nat]], NEW t \in Pipe!Spilling,
         NEW n \in Pipe!Models, NEW k \in Nat, reserved' = [reserved EXCEPT ![t][n] = k]
  PROVE  Counts(t, n, k)
  BY OneCountChanges DEF Counts

LEMMA PipeFinite ==
  /\ IsFiniteSet(Pipe!Inside)
  /\ \A s \in Pipe!Spilling, m \in Pipe!Models : IsFiniteSet(Holding(s, m))
<1>1. Pipe!Inside \subseteq DOMAIN PipeCalls
  BY DEF Pipe!Inside
<1>2. \A s \in Pipe!Spilling, m \in Pipe!Models : Holding(s, m) \subseteq DOMAIN PipeCalls
  BY <1>1 DEF Holding
<1> QED
  BY <1>1, <1>2, PipeConstants, FS_Subset, Zenon

LEMMA PipeImplies == PipeInv => Pipe!PipelineIsSound
<1> SUFFICES ASSUME PipeInv PROVE Pipe!PipelineIsSound
  OBVIOUS
<1>1. Pipe!ChoicesAreFair
  BY Zenon DEF PipeInv, PipeTypes, PipeCall, Pipe!ChoicesAreFair, Pipe!Inside
<1>2. Pipe!NothingLeaks
  BY PipeCardinality, Zenon DEF PipeInv, PipeCounts, Pipe!NothingLeaks, Holding
<1> QED
  BY <1>1, <1>2 DEF Pipe!PipelineIsSound

LEMMA PipeInitial == Pipe!Init => PipeInv
<1> SUFFICES ASSUME Pipe!Init PROVE PipeInv
  OBVIOUS
<1>1. \A q \in DOMAIN PipeCalls : call[q] = Pipe!NoCall
  BY DEF Pipe!Init
<1>2. PipeCall(Pipe!NoCall)
  BY DEF PipeCall, Pipe!NoCall, PipeFields, PipePlaces
<1>3. PipeTypes
  <2>1. slots = 0 /\ rr \in [Pipe!Spilling -> Nat] /\ DOMAIN call = DOMAIN PipeCalls
    BY DEF Pipe!Init
  <2>2. reserved \in [Pipe!Spilling -> [Pipe!Models -> Nat]]
    <3>1. [m \in Pipe!Models |-> 0] \in [Pipe!Models -> Nat]
      OBVIOUS
    <3> QED
      BY <3>1 DEF Pipe!Init
  <2>3. \A q \in DOMAIN PipeCalls : PipeCall(call[q])
    BY <1>1, <1>2
  <2> QED
    BY <2>1, <2>2, <2>3 DEF PipeTypes
<1>4. Pipe!Inside = {}
  <2>1. Pipe!NoCall.at = "none"
    BY DEF Pipe!NoCall
  <2> QED
    BY <1>1, <2>1 DEF Pipe!Inside
<1>5. \A s, m : Holding(s, m) = {}
  BY <1>4 DEF Holding
<1>6. Cardinality({}) = 0
  BY FS_EmptySet
<1>7. PipeCounts
  <2>1. slots = 0 /\ 0 <= PipeLimit
    <3>1. slots = 0
      BY DEF Pipe!Init
    <3> QED
      BY <3>1, PipeNumbers
  <2>2. \A s \in Pipe!Spilling : \A m \in Pipe!Models : reserved[s][m] = 0
    BY DEF Pipe!Init
  <2> QED
    BY <1>4, <1>5, <1>6, <2>1, <2>2 DEF PipeCounts
<1> QED
  BY <1>3, <1>7 DEF PipeInv

\* A request that goes on inside and keeps what it holds.
LEMMA PipeMoves ==
  ASSUME PipeInv, NEW q \in Pipe!Inside, NEW c, call' = [call EXCEPT ![q] = c], PipeCall(c),
         c.at \notin {"none", "over"}, c.holds = call[q].holds,
         c.holds # "" => c.target = call[q].target, UNCHANGED <<slots, reserved, rr>>
  PROVE  PipeInv'
<1>1. q \in DOMAIN PipeCalls
  BY Zenon DEF Pipe!Inside
<1>2. /\ DOMAIN call' = DOMAIN PipeCalls /\ call'[q] = c
      /\ \A p \in DOMAIN PipeCalls : p # q => call'[p] = call[p]
  BY <1>1, Zenon DEF PipeInv, PipeTypes
<1>3. PipeTypes'
  BY <1>2, Zenon DEF PipeInv, PipeTypes
<1>4. Pipe!Inside' = Pipe!Inside
  BY <1>2, Zenon DEF Pipe!Inside
<1>5. "" \notin Pipe!Spilling
  BY PipeConstants, Zenon
<1>6. ASSUME NEW s \in Pipe!Spilling, NEW m \in Pipe!Models PROVE Holding(s, m)' = Holding(s, m)
  <2>1. s # ""
    BY <1>5, Zenon
  <2>2. \A p \in Pipe!Inside :
          (/\ call'[p].holds = s /\ Pipe!ModelOf(call'[p].target) = m)
             <=> (/\ call[p].holds = s /\ Pipe!ModelOf(call[p].target) = m)
    BY <1>2, <2>1, Zenon DEF Pipe!Inside
  <2> QED
    BY <1>4, <2>2, Zenon DEF Holding
<1>7. PipeCounts'
  BY <1>4, <1>6, Zenon DEF PipeInv, PipeCounts
<1> QED
  BY <1>3, <1>7, Zenon DEF PipeInv

\* release: who holds a reservation is counted, and gives one back.
LEMMA PipeReleases ==
  ASSUME PipeInv, NEW q \in Pipe!Inside, call[q].holds # ""
  PROVE  \E s \in Pipe!Spilling, m \in Pipe!Models :
           /\ s = call[q].holds /\ m = Pipe!ModelOf(call[q].target)
           /\ reserved[s][m] - 1 \in Nat
           /\ Pipe!Released(s, call[q].target) = [reserved EXCEPT ![s][m] = @ - 1]
<1> DEFINE s == call[q].holds
           m == Pipe!ModelOf(call[q].target)
<1>1. PipeCall(call[q])
  BY Zenon DEF Pipe!Inside, PipeInv, PipeTypes
<1>2. s \in Pipe!Spilling /\ m \in Pipe!Models
  BY <1>1, Zenon DEF PipeCall, Pipe!Models, KnownNames
<1>3. q \in Holding(s, m)
  BY Zenon DEF Holding
<1>4. Cardinality(Holding(s, m)) # 0 /\ Cardinality(Holding(s, m)) \in Nat
  BY <1>2, <1>3, PipeFinite, FS_EmptySet, FS_CardinalityType, Zenon
<1>5. reserved[s][m] \in Nat /\ reserved[s][m] # 0
  BY <1>2, <1>4, Zenon DEF PipeInv, PipeCounts
<1>6. Pipe!Released(s, call[q].target) = [reserved EXCEPT ![s][m] = @ - 1]
  <2>1. reserved[s][m] > 0
    BY <1>5, Positive, Zenon
  <2> QED
    BY <2>1, Zenon DEF Pipe!Released
<1> QED
  BY <1>2, <1>5, <1>6, Positive, Zenon

\* The handler returns: the request leaves, and with it what it held.
LEMMA PipeReturns ==
  ASSUME PipeInv, NEW q \in Pipe!Inside, Pipe!Returns(q)
  PROVE  PipeInv'
<1> DEFINE c == [Pipe!NoCall EXCEPT !.at = "over"]
<1>1. q \in DOMAIN PipeCalls /\ PipeCall(call[q])
  BY DEF Pipe!Inside, PipeInv, PipeTypes
<1>2. PipeCall(c) /\ c.at = "over"
  BY DEF PipeCall, Pipe!NoCall, PipeFields, PipePlaces
<1>3. /\ DOMAIN call' = DOMAIN PipeCalls /\ call'[q] = c
      /\ \A p \in DOMAIN PipeCalls : p # q => call'[p] = call[p]
  BY <1>1, Zenon DEF PipeInv, PipeTypes, Pipe!Returns
<1> HIDE DEF c
<1>4. Pipe!Inside' = Pipe!Inside \ {q}
  BY <1>2, <1>3 DEF Pipe!Inside
<1>5. Cardinality(Pipe!Inside') = Cardinality(Pipe!Inside) - 1 /\ Cardinality(Pipe!Inside) \in Nat
      /\ Cardinality(Pipe!Inside') \in Nat
  <2>1. IsFiniteSet(Pipe!Inside) /\ IsFiniteSet(Pipe!Inside \ {q})
    BY PipeFinite, FS_RemoveElement
  <2>2. Cardinality(Pipe!Inside \ {q}) = Cardinality(Pipe!Inside) - 1
    BY <2>1, FS_RemoveElement
  <2>3. Cardinality(Pipe!Inside) \in Nat /\ Cardinality(Pipe!Inside \ {q}) \in Nat
    BY <2>1, FS_CardinalityType
  <2> QED
    BY <1>4, <2>2, <2>3
<1>6. slots' \in Nat /\ (PipeLimit # 0 => slots' = Cardinality(Pipe!Inside') /\ slots' <= PipeLimit)
  <2>1. slots' = IF PipeLimit = 0 THEN slots ELSE slots - 1
    BY Zenon DEF Pipe!Returns
  <2>2. slots \in Nat /\ (PipeLimit # 0 => slots = Cardinality(Pipe!Inside) /\ slots <= PipeLimit)
    BY DEF PipeInv, PipeTypes, PipeCounts
  <2> QED
    BY <1>5, <2>1, <2>2, PipeNumbers
<1>7. ASSUME NEW s \in Pipe!Spilling, NEW m \in Pipe!Models
      PROVE  Holding(s, m)' = Holding(s, m) \ {q}
  BY <1>3, <1>4 DEF Holding, Pipe!Inside
<1>8. /\ reserved' \in [Pipe!Spilling -> [Pipe!Models -> Nat]]
      /\ \A s \in Pipe!Spilling : \A m \in Pipe!Models :
           reserved'[s][m] = Cardinality(Holding(s, m)')
  <2>1. CASE call[q].holds = ""
    <3>1. reserved' = reserved
      BY <2>1, Zenon DEF Pipe!Returns
    <3>2. "" \notin Pipe!Spilling
      BY PipeConstants, Zenon
    <3>3. ASSUME NEW s \in Pipe!Spilling, NEW m \in Pipe!Models PROVE q \notin Holding(s, m)
      BY <3>2, <2>1, Zenon DEF Holding
    <3>4. ASSUME NEW s \in Pipe!Spilling, NEW m \in Pipe!Models
          PROVE  Holding(s, m)' = Holding(s, m)
      BY <3>3, <1>7
    <3> QED
      BY <3>1, <3>4 DEF PipeInv, PipeTypes, PipeCounts
  <2>2. CASE call[q].holds # ""
    <3>1. PICK t \in Pipe!Spilling, n \in Pipe!Models :
            /\ t = call[q].holds /\ n = Pipe!ModelOf(call[q].target)
            /\ reserved[t][n] - 1 \in Nat
            /\ Pipe!Released(t, call[q].target) = [reserved EXCEPT ![t][n] = @ - 1]
      BY <2>2, PipeReleases, Zenon
    <3>0. reserved' = [reserved EXCEPT ![t][n] = @ - 1]
      BY <3>1, <2>2, Zenon DEF Pipe!Returns
    <3>2. q \in Holding(t, n)
      BY <3>1 DEF Holding
    <3>3. ASSUME NEW s \in Pipe!Spilling, NEW m \in Pipe!Models, s # t \/ m # n
          PROVE  q \notin Holding(s, m)
      BY <3>1, <3>3 DEF Holding
    <3>4. /\ reserved' \in [Pipe!Spilling -> [Pipe!Models -> Nat]]
          /\ reserved'[t][n] = reserved[t][n] - 1
          /\ \A s \in Pipe!Spilling : \A m \in Pipe!Models :
               (s # t \/ m # n) => reserved'[s][m] = reserved[s][m]
      <4>1. reserved \in [Pipe!Spilling -> [Pipe!Models -> Nat]]
        BY DEF PipeInv, PipeTypes
      <4>2. PICK k \in Nat : k = reserved[t][n] - 1
        BY <3>1, Zenon
      <4>3. reserved' = [reserved EXCEPT ![t][n] = k]
        BY <3>0, <4>2
      <4>4. Counts(t, n, k)
        BY <4>1, <4>3, ReservedChanges
      <4> QED
        BY <4>2, <4>4 DEF Counts
    <3>5. ASSUME NEW s \in Pipe!Spilling, NEW m \in Pipe!Models
          PROVE  reserved'[s][m] = Cardinality(Holding(s, m)')
      <4>1. CASE s = t /\ m = n
        <5>1. IsFiniteSet(Holding(t, n)) /\ Cardinality(Holding(t, n)) = reserved[t][n]
          BY <3>1, PipeFinite DEF PipeInv, PipeCounts
        <5>2. Cardinality(Holding(t, n) \ {q}) = Cardinality(Holding(t, n)) - 1
          BY <5>1, <3>2, FS_RemoveElement
        <5>3. Holding(s, m)' = Holding(t, n) \ {q}
          BY <4>1, <1>7, <3>1
        <5>4. reserved'[s][m] = reserved[t][n] - 1
          BY <4>1, <3>4
        <5> QED
          BY <5>1, <5>2, <5>3, <5>4
      <4>2. CASE s # t \/ m # n
        <5>1. Holding(s, m)' = Holding(s, m)
          BY <3>3, <4>2, <1>7
        <5>2. reserved[s][m] = Cardinality(Holding(s, m))
          BY DEF PipeInv, PipeCounts
        <5>3. reserved'[s][m] = reserved[s][m]
          BY <4>2, <3>4, Zenon
        <5> QED
          BY <5>1, <5>2, <5>3
      <4> QED
        BY <4>1, <4>2
    <3> QED
      BY <3>4, <3>5
  <2> QED
    BY <2>1, <2>2, Zenon
<1>9. PipeTypes'
  BY <1>2, <1>3, <1>6, <1>8, Zenon DEF PipeInv, PipeTypes, Pipe!Returns
<1>10. PipeCounts'
  BY <1>6, <1>8 DEF PipeCounts
<1> QED
  BY <1>9, <1>10 DEF PipeInv

\* TryAcquire: a request comes in, or is turned away at once.
LEMMA PipeEnters ==
  ASSUME PipeInv, NEW q \in DOMAIN PipeCalls, Pipe!Enter(q)
  PROVE  PipeInv'
<1>1. PipeCall(call[q]) /\ q \notin Pipe!Inside /\ call[q].at = "none" /\ call[q].holds = ""
  BY Zenon DEF Pipe!Inside, PipeInv, PipeTypes, Pipe!Enter, PipeCall
<1>2. UNCHANGED <<reserved, rr>>
  BY DEF Pipe!Enter
<1>3. ASSUME NEW c, call' = [call EXCEPT ![q] = c], c.holds = ""
      PROVE  /\ DOMAIN call' = DOMAIN PipeCalls /\ call'[q] = c
             /\ \A p \in DOMAIN PipeCalls : p # q => call'[p] = call[p]
             /\ \A s \in Pipe!Spilling, m \in Pipe!Models : Holding(s, m)' = Holding(s, m)
  <2>1. /\ DOMAIN call' = DOMAIN PipeCalls /\ call'[q] = c
        /\ \A p \in DOMAIN PipeCalls : p # q => call'[p] = call[p]
    BY <1>3, Zenon DEF PipeInv, PipeTypes
  <2>2. "" \notin Pipe!Spilling
    BY PipeConstants, Zenon
  <2>3. \A p \in DOMAIN PipeCalls : p # q => (p \in Pipe!Inside' <=> p \in Pipe!Inside)
    BY <2>1 DEF Pipe!Inside
  <2>4. Pipe!Inside \subseteq DOMAIN PipeCalls /\ Pipe!Inside' \subseteq DOMAIN PipeCalls
    BY DEF Pipe!Inside
  <2>5. ASSUME NEW s \in Pipe!Spilling, NEW m \in Pipe!Models
        PROVE  Holding(s, m)' = Holding(s, m)
    <3>1. q \notin Holding(s, m) /\ q \notin Holding(s, m)'
      BY <1>1, <1>3, <2>1, <2>2, Zenon DEF Holding
    <3> QED
      BY <2>1, <2>3, <2>4, <3>1 DEF Holding
  <2> QED
    BY <2>1, <2>5
<1>4. CASE /\ slots' = IF PipeLimit = 0 THEN slots ELSE slots + 1
           /\ call' = [call EXCEPT ![q].at = "profile", ![q].name = PipeCalls[q]]
           /\ PipeLimit = 0 \/ slots < PipeLimit
  <2> DEFINE c == [call[q] EXCEPT !.at = "profile", !.name = PipeCalls[q]]
  <2>1. call' = [call EXCEPT ![q] = c]
    BY <1>4
  <2>2. PipeCall(c) /\ c.at = "profile" /\ c.holds = ""
    BY <1>1, Zenon DEF PipeCall, PipeFields, PipePlaces
  <2> HIDE DEF c
  <2>3. /\ DOMAIN call' = DOMAIN PipeCalls /\ call'[q] = c
        /\ \A p \in DOMAIN PipeCalls : p # q => call'[p] = call[p]
        /\ \A s \in Pipe!Spilling, m \in Pipe!Models : Holding(s, m)' = Holding(s, m)
    BY <1>3, <2>1, <2>2, Zenon
  <2>4. Pipe!Inside' = Pipe!Inside \union {q}
    BY <2>2, <2>3, <1>1, Zenon DEF Pipe!Inside
  <2>5. Cardinality(Pipe!Inside') = Cardinality(Pipe!Inside) + 1 /\ Cardinality(Pipe!Inside) \in Nat
    <3>1. IsFiniteSet(Pipe!Inside)
      BY PipeFinite
    <3>2. Cardinality(Pipe!Inside \union {q}) = Cardinality(Pipe!Inside) + 1
      BY <3>1, <1>1, FS_AddElement, Zenon
    <3> QED
      BY <2>4, <3>1, <3>2, FS_CardinalityType
  <2>6. slots' \in Nat /\ (PipeLimit # 0 => slots' = Cardinality(Pipe!Inside') /\ slots' <= PipeLimit)
    <3>1. slots \in Nat /\ (PipeLimit # 0 => slots = Cardinality(Pipe!Inside) /\ slots <= PipeLimit)
      BY DEF PipeInv, PipeTypes, PipeCounts
    <3>2. /\ slots' = IF PipeLimit = 0 THEN slots ELSE slots + 1
          /\ PipeLimit = 0 \/ slots < PipeLimit
      BY <1>4
    <3> QED
      BY <2>5, <3>1, <3>2, PipeNumbers
  <2>7. PipeTypes'
    BY <2>2, <2>3, <2>6, <1>2, Zenon DEF PipeInv, PipeTypes
  <2>8. PipeCounts'
    BY <2>6, <2>3, <1>2 DEF PipeInv, PipeCounts
  <2> QED
    BY <2>7, <2>8 DEF PipeInv
<1>5. CASE call' = [call EXCEPT ![q].at = "over"] /\ UNCHANGED slots
  <2> DEFINE c == [call[q] EXCEPT !.at = "over"]
  <2>1. call' = [call EXCEPT ![q] = c]
    BY <1>5
  <2>2. PipeCall(c) /\ c.at = "over" /\ c.holds = ""
    BY <1>1, Zenon DEF PipeCall, PipeFields, PipePlaces
  <2> HIDE DEF c
  <2>3. /\ DOMAIN call' = DOMAIN PipeCalls /\ call'[q] = c
        /\ \A p \in DOMAIN PipeCalls : p # q => call'[p] = call[p]
        /\ \A s \in Pipe!Spilling, m \in Pipe!Models : Holding(s, m)' = Holding(s, m)
    BY <1>3, <2>1, <2>2, Zenon
  <2>4. Pipe!Inside' = Pipe!Inside
    BY <2>2, <2>3, <1>1, Zenon DEF Pipe!Inside
  <2>7. PipeTypes'
    BY <2>2, <2>3, <1>5, <1>2, Zenon DEF PipeInv, PipeTypes
  <2>8. PipeCounts'
    BY <2>4, <2>3, <1>5, <1>2 DEF PipeInv, PipeCounts
  <2> QED
    BY <2>7, <2>8 DEF PipeInv
<1> QED
  BY <1>4, <1>5 DEF Pipe!Enter

\* An upgrade that is ignored keeps no reservation: it is given back here.
LEMMA PipeGivesBack ==
  ASSUME PipeInv, NEW q \in Pipe!Inside, NEW c, call' = [call EXCEPT ![q] = c], PipeCall(c),
         c.at \notin {"none", "over"}, call[q].holds # "", c.holds = "",
         reserved' = Pipe!Released(call[q].holds, call[q].target), UNCHANGED <<slots, rr>>
  PROVE  PipeInv'
<1>1. q \in DOMAIN PipeCalls
  BY Zenon DEF Pipe!Inside
<1>2. /\ DOMAIN call' = DOMAIN PipeCalls /\ call'[q] = c
      /\ \A p \in DOMAIN PipeCalls : p # q => call'[p] = call[p]
  BY <1>1, Zenon DEF PipeInv, PipeTypes
<1>3. Pipe!Inside' = Pipe!Inside
  BY <1>2, Zenon DEF Pipe!Inside
<1>4. ASSUME NEW s \in Pipe!Spilling, NEW m \in Pipe!Models
      PROVE  Holding(s, m)' = Holding(s, m) \ {q}
  <2>1. s # ""
    BY PipeConstants, Zenon
  <2> QED
    BY <1>2, <1>3, <2>1, Zenon DEF Holding, Pipe!Inside
<1>5. PICK t \in Pipe!Spilling, n \in Pipe!Models :
        /\ t = call[q].holds /\ n = Pipe!ModelOf(call[q].target)
        /\ reserved[t][n] - 1 \in Nat
        /\ Pipe!Released(t, call[q].target) = [reserved EXCEPT ![t][n] = @ - 1]
  BY PipeReleases, Zenon
<1>6. q \in Holding(t, n)
  BY <1>5, Zenon DEF Holding
<1>7. ASSUME NEW s \in Pipe!Spilling, NEW m \in Pipe!Models, s # t \/ m # n
      PROVE  q \notin Holding(s, m)
  BY <1>5, <1>7, Zenon DEF Holding
<1>8. /\ reserved' \in [Pipe!Spilling -> [Pipe!Models -> Nat]]
      /\ reserved'[t][n] = reserved[t][n] - 1
      /\ \A s \in Pipe!Spilling : \A m \in Pipe!Models :
           (s # t \/ m # n) => reserved'[s][m] = reserved[s][m]
  <2>1. reserved \in [Pipe!Spilling -> [Pipe!Models -> Nat]]
    BY Zenon DEF PipeInv, PipeTypes
  <2>2. PICK k \in Nat : k = reserved[t][n] - 1
    BY <1>5, Zenon
  <2>3. reserved' = [reserved EXCEPT ![t][n] = k]
    BY <1>5, <2>2, Zenon
  <2>4. Counts(t, n, k)
    BY <2>1, <2>3, ReservedChanges, Zenon
  <2> QED
    BY <2>2, <2>4, Zenon DEF Counts
<1>9. ASSUME NEW s \in Pipe!Spilling, NEW m \in Pipe!Models
      PROVE  reserved'[s][m] = Cardinality(Holding(s, m)')
  <2>1. CASE s = t /\ m = n
    <3>1. IsFiniteSet(Holding(t, n)) /\ Cardinality(Holding(t, n)) = reserved[t][n]
      BY <1>5, PipeFinite, Zenon DEF PipeInv, PipeCounts
    <3>2. Cardinality(Holding(t, n) \ {q}) = Cardinality(Holding(t, n)) - 1
      BY <3>1, <1>6, FS_RemoveElement, Zenon
    <3>3. Holding(s, m)' = Holding(t, n) \ {q}
      BY <2>1, <1>4, <1>5, Zenon
    <3>4. reserved'[s][m] = reserved[t][n] - 1
      BY <2>1, <1>8, Zenon
    <3> QED
      BY <3>1, <3>2, <3>3, <3>4, Zenon
  <2>2. CASE s # t \/ m # n
    <3>1. Holding(s, m)' = Holding(s, m)
      <4>1. q \notin Holding(s, m)
        BY <1>7, <2>2, Zenon
      <4>2. Holding(s, m)' = Holding(s, m) \ {q}
        BY <1>4, Zenon
      <4> QED
        BY <4>1, <4>2, Zenon
    <3>2. reserved[s][m] = Cardinality(Holding(s, m))
      BY Zenon DEF PipeInv, PipeCounts
    <3>3. reserved'[s][m] = reserved[s][m]
      BY <2>2, <1>8, Zenon
    <3> QED
      BY <3>1, <3>2, <3>3, Zenon
  <2> QED
    BY <2>1, <2>2, Zenon
<1>10. PipeTypes'
  BY <1>2, <1>8, Zenon DEF PipeInv, PipeTypes
<1>11. PipeCounts'
  BY <1>3, <1>9, Zenon DEF PipeInv, PipeCounts
<1> QED
  BY <1>10, <1>11, Zenon DEF PipeInv

\* A reservation is made for the request that chose, and counted.
LEMMA PipeReserves ==
  ASSUME PipeInv, NEW q \in Pipe!Inside, NEW c, NEW t \in Pipe!Spilling, NEW target \in KnownNames,
         call' = [call EXCEPT ![q] = c], PipeCall(c),
         c.at \notin {"none", "over"}, call[q].holds = "", c.holds = t, c.target = target,
         reserved' = [reserved EXCEPT ![t][Pipe!ModelOf(target)] = @ + 1],
         UNCHANGED slots, rr' \in [Pipe!Spilling -> Nat]
  PROVE  PipeInv'
<1> PICK n \in Pipe!Models : n = Pipe!ModelOf(target)
  BY Zenon DEF Pipe!Models, KnownNames
<1>1. q \in DOMAIN PipeCalls
  BY Zenon DEF Pipe!Inside
<1>2. /\ DOMAIN call' = DOMAIN PipeCalls /\ call'[q] = c
      /\ \A p \in DOMAIN PipeCalls : p # q => call'[p] = call[p]
  BY <1>1, Zenon DEF PipeInv, PipeTypes
<1>3. Pipe!Inside' = Pipe!Inside
  BY <1>2, Zenon DEF Pipe!Inside
<1>4. ASSUME NEW s \in Pipe!Spilling, NEW m \in Pipe!Models
      PROVE  /\ q \notin Holding(s, m)
             /\ Holding(s, m)' = IF (s = t /\ m = n) THEN Holding(s, m) \union {q} ELSE Holding(s, m)
  <2>1. s # ""
    BY PipeConstants, Zenon
  <2>2. q \notin Holding(s, m)
    BY <2>1, Zenon DEF Holding
  <2>3. \A p \in Pipe!Inside : p # q => (p \in Holding(s, m)' <=> p \in Holding(s, m))
    BY <1>2, <1>3, Zenon DEF Holding, Pipe!Inside
  <2>4. q \in Holding(s, m)' <=> (s = t /\ m = n)
    BY <1>2, <1>3, Zenon DEF Holding
  <2>5. Holding(s, m) \subseteq Pipe!Inside /\ Holding(s, m)' \subseteq Pipe!Inside
    BY <1>3, Zenon DEF Holding
  <2>6. CASE s = t /\ m = n
    BY <2>2, <2>3, <2>4, <2>5, <2>6, Zenon
  <2>7. CASE s # t \/ m # n
    <3>1. \A p : p \in Holding(s, m)' <=> p \in Holding(s, m)
      BY <2>2, <2>3, <2>4, <2>5, <2>7, Zenon
    <3> QED
      BY <3>1, <2>2, <2>7, Zenon
  <2> QED
    BY <2>6, <2>7, Zenon
<1>6. /\ reserved' \in [Pipe!Spilling -> [Pipe!Models -> Nat]]
      /\ reserved'[t][n] = reserved[t][n] + 1
      /\ \A s \in Pipe!Spilling : \A m \in Pipe!Models :
           (s # t \/ m # n) => reserved'[s][m] = reserved[s][m]
  <2>1. reserved \in [Pipe!Spilling -> [Pipe!Models -> Nat]]
    BY Zenon DEF PipeInv, PipeTypes
  <2>2. reserved[t][n] \in Nat
    BY <2>1, Zenon
  <2>3. PICK k \in Nat : k = reserved[t][n] + 1
    BY <2>2, Positive, Zenon
  <2>4. reserved' = [reserved EXCEPT ![t][n] = k]
    BY <2>3, Zenon
  <2>5. Counts(t, n, k)
    BY <2>1, <2>4, ReservedChanges, Zenon
  <2> QED
    BY <2>3, <2>5, Zenon DEF Counts
<1>7. ASSUME NEW s \in Pipe!Spilling, NEW m \in Pipe!Models
      PROVE  reserved'[s][m] = Cardinality(Holding(s, m)')
  <2>1. CASE s = t /\ m = n
    <3>1. IsFiniteSet(Holding(t, n)) /\ Cardinality(Holding(t, n)) = reserved[t][n]
      BY PipeFinite, Zenon DEF PipeInv, PipeCounts
    <3>2. Cardinality(Holding(t, n) \union {q}) = Cardinality(Holding(t, n)) + 1
      BY <3>1, <1>4, FS_AddElement, Zenon
    <3>3. Holding(s, m)' = Holding(t, n) \union {q}
      BY <2>1, <1>4, Zenon
    <3>4. reserved'[s][m] = reserved[t][n] + 1
      BY <2>1, <1>6, Zenon
    <3> QED
      BY <3>1, <3>2, <3>3, <3>4, Zenon
  <2>2. CASE s # t \/ m # n
    <3>1. Holding(s, m)' = Holding(s, m)
      BY <2>2, <1>4, Zenon
    <3>2. reserved[s][m] = Cardinality(Holding(s, m))
      BY Zenon DEF PipeInv, PipeCounts
    <3>3. reserved'[s][m] = reserved[s][m]
      BY <2>2, <1>6, Zenon
    <3> QED
      BY <3>1, <3>2, <3>3, Zenon
  <2> QED
    BY <2>1, <2>2, Zenon
<1>8. PipeTypes'
  BY <1>2, <1>6, Zenon DEF PipeInv, PipeTypes
<1>9. PipeCounts'
  BY <1>3, <1>7, Zenon DEF PipeInv, PipeCounts
<1> QED
  BY <1>8, <1>9, Zenon DEF PipeInv

\* Of a finite set of numbers, each place below its size is one of them's.  The
\* least place of which that is not so would follow one that is.
LEMMA NthExists ==
  ASSUME NEW T, T \subseteq Nat, IsFiniteSet(T), NEW k \in Nat, k < Cardinality(T)
  PROVE  \E i \in T : Cardinality({j \in T : j < i}) = k
<1> DEFINE Lower(i) == {j \in T : j < i}
           Bad == {n \in Nat : n < Cardinality(T) /\ \A i \in T : Cardinality(Lower(i)) # n}
<1>1. SUFFICES ASSUME Bad # {} PROVE FALSE
  OBVIOUS
<1>2. PICK n \in Bad : \A o \in Bad : ~(o < n)
  <2>1. Bad \subseteq Nat
    OBVIOUS
  <2> HIDE DEF Bad
  <2> QED
    BY <1>1, <2>1, LeastNumber
<1>3. Cardinality(T) \in Nat
  BY FS_CardinalityType
<1>4. CASE n = 0
  <2>1. T # {}
    <3>1. Cardinality(T) # 0
      BY <1>2, <1>3, <1>4
    <3> QED
      BY <3>1, FS_EmptySet
  <2>2. PICK i \in T : \A j \in T : ~(j < i)
    BY <2>1, LeastNumber
  <2>3. Lower(i) = {}
    BY <2>2
  <2> QED
    BY <2>3, <1>2, <1>4, FS_EmptySet
<1>5. CASE n # 0
  <2>1. n \in Nat /\ n < Cardinality(T) /\ n - 1 \in Nat /\ n - 1 < Cardinality(T) /\ n - 1 < n
    BY <1>2, <1>3, <1>5
  <2>2. PICK i \in T : Cardinality(Lower(i)) = n - 1
    <3>1. n - 1 \notin Bad
      BY <1>2, <2>1
    <3> QED
      BY <3>1, <2>1
  <2> DEFINE Up2(j) == j \in T /\ i < j
             Low == Lower(i) \union {i}
  <2>3. IsFiniteSet(Lower(i)) /\ i \notin Lower(i)
    <3>1. Lower(i) \subseteq T
      OBVIOUS
    <3>2. i \notin Lower(i)
      OBVIOUS
    <3> QED
      BY <3>1, <3>2, FS_Subset
  <2>4. Cardinality(Low) = n
    <3>1. Cardinality(Low) = Cardinality(Lower(i)) + 1
      <4> HIDE DEF Lower
      <4> QED
        BY <2>3, FS_AddElement
    <3> QED
      BY <3>1, <2>1, <2>2
  <2>5. T \ Low # {}
    <3>1. T # Low
      BY <2>4, <2>1, <1>3
    <3> QED
      BY <3>1
  <2>6. PICK h \in T \ Low : \A j \in T \ Low : ~(j < h)
    BY <2>5, LeastNumber
  <2>7. Lower(h) = Low
    <3>1. h \in T /\ i \in T /\ ~(h < i) /\ h # i /\ i < h
      BY <2>6
    <3>2. ASSUME NEW j \in T PROVE j \in Lower(h) <=> j \in Low
      <4>1. j \in Nat /\ i \in Nat /\ h \in Nat
        BY <3>1
      <4>2. j < h => j \in Low
        BY <2>6
      <4>3. j \in Low => j < h
        BY <3>1, <4>1
      <4> QED
        BY <4>2, <4>3
    <3>3. Lower(h) \subseteq T /\ Low \subseteq T
      OBVIOUS
    <3> QED
      BY <3>2, <3>3
  <2>8. Cardinality(Lower(h)) = n
    BY <2>7, <2>4
  <2> QED
    BY <2>8, <2>6, <1>2
<1> QED
  BY <1>4, <1>5

LEMMA Modulo ==
  ASSUME NEW a \in Nat, NEW b \in Nat, b # 0
  PROVE  a % b \in Nat /\ a % b < b
  OBVIOUS

LEMMA NthIsOne ==
  ASSUME NEW T, T \subseteq Nat, IsFiniteSet(T), NEW k \in Nat, k < Cardinality(T)
  PROVE  Pipe!Nth(T, k) \in T
<1>1. \E i \in T : Pipe!Cardinality({j \in T : j < i}) = k
  BY NthExists, PipeCardinality, Zenon
<1> QED
  BY <1>1, Zenon DEF Pipe!Nth

LEMMA LeastIs ==
  ASSUME NEW T, T \subseteq Nat, T # {}
  PROVE  Pipe!Min(T) \in T /\ \A o \in T : Pipe!Min(T) <= o
<1>1. PICK p \in T : \A o \in T : ~(o < p)
  BY LeastNumber
<1>2. \A o \in T : p <= o
  BY <1>1
<1> QED
  BY <1>2 DEF Pipe!Min

\* What strategySpillover takes its turns among, and why each one is a fair choice.
LEMMA SpillChooses ==
  ASSUME PipeInv, NEW q \in DOMAIN PipeCalls, NEW s \in Pipe!Spilling
  PROVE  LET choices == Pipe!BestTargets(q, s)
             targets == Selectors[s].targets
         IN /\ choices \subseteq Nat /\ IsFiniteSet(choices)
            /\ \A i \in choices : targets[i] \in KnownNames
                                  /\ Pipe!FairChoice(q, s, targets[i]) = TRUE
<1> DEFINE targets == Selectors[s].targets
           usable == {i \in DOMAIN targets : ~Pipe!Stopping(q, targets[i])}
           Taken(i) == Pipe!Up(q, targets[i]) \/ Pipe!Load(s, targets[i]) > 0
           active == {i \in usable : Taken(i)}
           cold == usable \ active
           loads == {Pipe!Load(s, targets[i]) : i \in active}
           minimum == Pipe!Min(loads)
           choices == Pipe!BestTargets(q, s)
<1>1. DOMAIN targets \subseteq Nat /\ IsFiniteSet(DOMAIN targets)
      /\ \A i \in DOMAIN targets : targets[i] \in KnownNames
  <2>1. targets \in Seq(KnownNames)
    BY PipeAssumption, Zenon DEF Pipe!Spilling, KnownNames
  <2> HIDE DEF targets
  <2>2. Len(targets) \in Nat /\ DOMAIN targets = 1..Len(targets)
    BY <2>1
  <2>3. IsFiniteSet(1..Len(targets))
    BY <2>2, FS_Interval
  <2> QED
    BY <2>1, <2>2, <2>3
<1>2. ASSUME NEW i \in DOMAIN targets PROVE Pipe!Load(s, targets[i]) \in Nat
  <2>1. Pipe!ModelOf(targets[i]) \in Pipe!Models
    BY <1>1, Zenon DEF Pipe!Models, KnownNames
  <2>2. reserved \in [Pipe!Spilling -> [Pipe!Models -> Nat]]
    BY DEF PipeInv, PipeTypes
  <2> QED
    BY <2>1, <2>2 DEF Pipe!Load
<1>3. choices = IF active = {} \/ (minimum >= Spillover /\ cold # {})
                  THEN IF cold = {} THEN {} ELSE {Pipe!Min(cold)}
                  ELSE {i \in active : Pipe!Load(s, targets[i]) = minimum}
  BY Zenon DEF Pipe!BestTargets
<1>a. cold \subseteq DOMAIN targets /\ active \subseteq DOMAIN targets
  OBVIOUS
<1>b. cold # {} => Pipe!Min(cold) \in cold
  <2> HIDE DEF cold
  <2> QED
    BY <1>1, <1>a, LeastIs
<1>c. active # {} => minimum \in Nat /\ \A j \in active : minimum <= Pipe!Load(s, targets[j])
  <2>1. SUFFICES ASSUME active # {}
                 PROVE  minimum \in Nat /\ \A j \in active : minimum <= Pipe!Load(s, targets[j])
    OBVIOUS
  <2>2. loads \subseteq Nat /\ loads # {}
    BY <2>1, <1>2, <1>a
  <2>3. \A j \in active : Pipe!Load(s, targets[j]) \in loads
    OBVIOUS
  <2> HIDE DEF loads
  <2>4. Pipe!Min(loads) \in loads /\ \A o \in loads : Pipe!Min(loads) <= o
    BY <2>2, LeastIs
  <2> QED
    BY <2>2, <2>3, <2>4
<1>4. choices \subseteq cold \/ choices \subseteq active
  <2>1. \A i : i \in {j \in active : Pipe!Load(s, targets[j]) = minimum} => i \in active
    OBVIOUS
  <2> HIDE DEF choices, cold, active, minimum, targets
  <2> QED
    BY <1>3, <1>b, <2>1
<1>5. choices \subseteq DOMAIN targets
  BY <1>4, <1>a
<1>6. ASSUME NEW i \in choices PROVE Pipe!FairChoice(q, s, targets[i]) = TRUE
  <2>1. SUFFICES ASSUME NEW j \in DOMAIN targets, ~Pipe!Stopping(q, targets[j]), Taken(j)
                 PROVE  IF Taken(i) THEN Pipe!Load(s, targets[i]) <= Pipe!Load(s, targets[j])
                                    ELSE Pipe!Load(s, targets[j]) >= Spillover
    BY DEF Pipe!FairChoice
  <2>2. j \in active
    BY <2>1
  <2>3. minimum \in Nat /\ minimum <= Pipe!Load(s, targets[j]) /\ Pipe!Load(s, targets[j]) \in Nat
    BY <2>2, <1>c, <1>2
  <2>4. CASE minimum >= Spillover /\ cold # {}
    <3>1. i \in cold
      BY <1>3, <1>b, <2>4
    <3>2. ~Taken(i)
      BY <3>1
    <3>3. Pipe!Load(s, targets[j]) >= Spillover
      <4> HIDE DEF minimum
      <4> QED
        BY <2>3, <2>4, PipeNumbers
    <3> QED
      BY <3>2, <3>3
  <2>5. CASE ~(minimum >= Spillover /\ cold # {})
    <3>1. i \in active /\ Pipe!Load(s, targets[i]) = minimum
      BY <1>3, <2>2, <2>5
    <3>2. Taken(i)
      BY <3>1
    <3> HIDE DEF Taken, active, minimum
    <3> QED
      BY <2>3, <3>1, <3>2
  <2> QED
    BY <2>4, <2>5
<1>7. choices \subseteq Nat /\ IsFiniteSet(choices)
  BY <1>1, <1>5, FS_Subset
<1> QED
  BY <1>1, <1>5, <1>6, <1>7, Zenon

\* strategySpillover: whatever it chooses is fair, and is counted at once.
LEMMA PipeSpills ==
  ASSUME PipeInv, NEW q \in DOMAIN PipeCalls, Pipe!Spill(q)
  PROVE  PipeInv'
<1> DEFINE s == call[q].name
           choices == Pipe!BestTargets(q, s)
           inUse(t) == Pipe!Up(q, t) \/ Pipe!Load(s, t) > 0
           turns == \E i \in choices : inUse(Selectors[s].targets[i])
           turn == IF turns THEN rr[s] % Pipe!Cardinality(choices) ELSE 0
           target == Selectors[s].targets[Pipe!Nth(choices, turn)]
           c == [call[q] EXCEPT !.at = "rename", !.holds = s, !.seen = <<>>,
                                !.target = target, !.fair = Pipe!FairChoice(q, s, target)]
<1>1. PipeCall(call[q]) /\ call[q].at = "spill" /\ q \in Pipe!Inside
  BY DEF PipeInv, PipeTypes, Pipe!Spill, Pipe!Inside
<1>2. s \in Pipe!Spilling /\ call[q].holds = ""
  BY <1>1, Zenon DEF PipeCall
<1>3. CASE Pipe!Returns(q)
  BY <1>1, <1>3, PipeReturns
<1>4. CASE /\ choices # {} /\ UNCHANGED <<profile, slots, running>>
           /\ reserved' = [reserved EXCEPT ![s][Pipe!ModelOf(target)] = @ + 1]
           /\ rr' = IF turns THEN [rr EXCEPT ![s] = (@ + 1) % RoundRobin] ELSE rr
           /\ call' = [call EXCEPT ![q] = c]
  <2>1. /\ choices \subseteq Nat /\ IsFiniteSet(choices)
        /\ \A i \in choices : Selectors[s].targets[i] \in KnownNames
                              /\ Pipe!FairChoice(q, s, Selectors[s].targets[i]) = TRUE
    BY <1>2, SpillChooses, Zenon
  <2>2. rr \in [Pipe!Spilling -> Nat] /\ rr[s] \in Nat
    BY <1>2, Zenon DEF PipeInv, PipeTypes
  <2>3. turn \in Nat /\ turn < Cardinality(choices)
    <3>1. Cardinality(choices) \in Nat /\ Cardinality(choices) # 0
      <4> HIDE DEF choices
      <4> QED
        BY <1>4, <2>1, FS_CardinalityType, FS_EmptySet
    <3>2. rr[s] % Cardinality(choices) \in Nat /\ rr[s] % Cardinality(choices) < Cardinality(choices)
      BY <2>2, <3>1, Modulo
    <3>3. turn = IF turns THEN rr[s] % Cardinality(choices) ELSE 0
      BY PipeCardinality, Zenon
    <3> HIDE DEF turn, turns, choices
    <3> QED
      BY <3>1, <3>2, <3>3
  <2>4. Pipe!Nth(choices, turn) \in choices
    <3> HIDE DEF choices, turn
    <3> QED
      BY <2>1, <2>3, NthIsOne
  <2>5. target \in KnownNames /\ Pipe!FairChoice(q, s, target) = TRUE
    BY <2>1, <2>4, Zenon
  <2>6. rr' \in [Pipe!Spilling -> Nat]
    <3>1. PICK k \in Nat : k = (rr[s] + 1) % RoundRobin
      <4>1. rr[s] + 1 \in Nat
        BY <2>2
      <4> QED
        BY <4>1, PipeNumbers, Modulo
    <3>2. rr' = [rr EXCEPT ![s] = k] \/ rr' = rr
      <4> HIDE DEF turns
      <4> QED
        BY <1>4, <3>1
    <3> HIDE DEF s
    <3> QED
      BY <2>2, <3>2
  <2>7. PipeCall(c) /\ c.at = "rename" /\ c.holds = s /\ c.target = target
    <3> HIDE DEF s, target
    <3> QED
      BY <1>1, <1>2, <2>5, PipeConstants, Zenon DEF PipeCall, PipeFields, PipePlaces
  <2>8. /\ call' = [call EXCEPT ![q] = c] /\ UNCHANGED slots
        /\ reserved' = [reserved EXCEPT ![s][Pipe!ModelOf(target)] = @ + 1]
    BY <1>4
  <2> HIDE DEF c, s, target
  <2>9. c.at \notin {"none", "over"}
    BY <2>7
  <2> QED
    BY <1>1, <1>2, <2>5, <2>6, <2>7, <2>8, <2>9, PipeReserves, Zenon
<1> QED
  BY <1>3, <1>4, Zenon DEF Pipe!Spill

\* A request that goes on, its name and its place only changed.
LEMMA PipeGoesOn ==
  ASSUME PipeInv, NEW q \in DOMAIN PipeCalls, Pipe!ApplyProfile(q) \/ Pipe!Dispatch(q)
  PROVE  PipeInv'
<1>1. PipeCall(call[q]) /\ q \in Pipe!Inside /\ call[q].at \in {"profile", "dispatch"}
  BY DEF PipeInv, PipeTypes, Pipe!Inside, Pipe!ApplyProfile, Pipe!Dispatch
<1>2. CASE Pipe!Returns(q)
  BY <1>1, <1>2, PipeReturns
<1>3. ASSUME NEW at \in {"select", "local", "peer"}, NEW name, UNCHANGED Pipe!sharedVars,
             call' = [call EXCEPT ![q] = [call[q] EXCEPT !.at = at, !.name = name]],
             at = "select" => call[q].at = "profile"
      PROVE  PipeInv'
  <2> DEFINE c == [call[q] EXCEPT !.at = at, !.name = name]
  <2>0. call[q].holds # "" => call[q].at = "dispatch"
    BY <1>1, Zenon DEF PipeCall
  <2>1. PipeCall(c) /\ c.at \notin {"none", "over"} /\ c.holds = call[q].holds
        /\ c.target = call[q].target
    BY <1>1, <1>3, <2>0, Zenon DEF PipeCall, PipeFields, PipePlaces
  <2>2. call' = [call EXCEPT ![q] = c] /\ UNCHANGED <<slots, reserved, rr>>
    BY <1>3 DEF Pipe!sharedVars
  <2> HIDE DEF c
  <2> QED
    BY <1>1, <2>1, <2>2, PipeMoves, Zenon
<1>4. CASE /\ call[q].at = "profile" /\ UNCHANGED Pipe!sharedVars
           /\ call' = [call EXCEPT ![q].at = "select",
                         ![q].name = IF @ \in DOMAIN PipePins[profile]
                                       THEN PipePins[profile][@] ELSE @]
  <2> DEFINE name == IF call[q].name \in DOMAIN PipePins[profile]
                       THEN PipePins[profile][call[q].name] ELSE call[q].name
  <2>1. call' = [call EXCEPT ![q] = [call[q] EXCEPT !.at = "select", !.name = name]]
    BY <1>4
  <2> HIDE DEF name
  <2> QED
    BY <1>3, <1>4, <2>1, Zenon
<1>5. ASSUME NEW at \in {"local", "peer"}, UNCHANGED Pipe!sharedVars,
             call' = [call EXCEPT ![q].at = at]
      PROVE  PipeInv'
  <2>1. call' = [call EXCEPT ![q] = [call[q] EXCEPT !.at = at, !.name = call[q].name]]
    <3>1. [call[q] EXCEPT !.at = at, !.name = call[q].name] = [call[q] EXCEPT !.at = at]
      BY <1>1, Zenon DEF PipeCall
    <3> QED
      BY <1>5, <3>1
  <2> QED
    BY <1>3, <1>5, <2>1, Zenon
<1>6. CASE Pipe!ApplyProfile(q)
  BY <1>2, <1>4, <1>6 DEF Pipe!ApplyProfile
<1>7. CASE Pipe!Dispatch(q)
  <2>1. CASE call' = [call EXCEPT ![q].at = "local"] /\ UNCHANGED Pipe!sharedVars
    BY <1>5, <2>1
  <2>2. CASE call' = [call EXCEPT ![q].at = "peer"] /\ UNCHANGED Pipe!sharedVars
    BY <1>5, <2>2
  <2> QED
    BY <1>2, <1>7, <2>1, <2>2 DEF Pipe!Dispatch
<1> QED
  BY <1>6, <1>7

\* A selector that reserves nothing chooses at once, the other comes to its lock.
LEMMA PipeSelects ==
  ASSUME PipeInv, NEW q \in DOMAIN PipeCalls, Pipe!Select(q)
  PROVE  PipeInv'
<1>1. PipeCall(call[q]) /\ q \in Pipe!Inside /\ call[q].at = "select" /\ call[q].holds = ""
  BY Zenon DEF PipeInv, PipeTypes, Pipe!Inside, Pipe!Select, PipeCall
<1>2. UNCHANGED <<slots, reserved, rr>>
  BY DEF Pipe!Select, Pipe!sharedVars
<1>3. ASSUME NEW c, call' = [call EXCEPT ![q] = c], PipeCall(c), c.holds = "",
             c.at \in {"dispatch", "spill", "rename"}
      PROVE  PipeInv'
  <2>1. c.at \notin {"none", "over"} /\ c.holds = call[q].holds
        /\ (c.holds # "" => c.target = call[q].target)
    BY <1>1, <1>3, Zenon
  <2> QED
    BY <1>1, <1>2, <1>3, <2>1, PipeMoves, Zenon
<1>4. CASE call' = [call EXCEPT ![q].at = "dispatch"]
  <2> DEFINE c == [call[q] EXCEPT !.at = "dispatch"]
  <2>1. call' = [call EXCEPT ![q] = c] /\ PipeCall(c) /\ c.at = "dispatch" /\ c.holds = ""
    BY <1>1, <1>4, Zenon DEF PipeCall, PipeFields, PipePlaces
  <2> HIDE DEF c
  <2> QED
    BY <1>3, <2>1, Zenon
<1>5. CASE call[q].name \in Pipe!Spilling
           /\ call' = [call EXCEPT ![q].at = "spill", ![q].seen = running]
  <2> DEFINE c == [call[q] EXCEPT !.at = "spill", !.seen = running]
  <2>1. call' = [call EXCEPT ![q] = c] /\ PipeCall(c) /\ c.at = "spill" /\ c.holds = ""
    BY <1>1, <1>5, Zenon DEF PipeCall, PipeFields, PipePlaces
  <2> HIDE DEF c
  <2> QED
    BY <1>3, <2>1, Zenon
<1>6. CASE \E t : call' = [call EXCEPT ![q].at = "rename", ![q].target = t]
  <2> PICK t : call' = [call EXCEPT ![q].at = "rename", ![q].target = t]
    BY <1>6
  <2> DEFINE c == [call[q] EXCEPT !.at = "rename", !.target = t]
  <2>1. call' = [call EXCEPT ![q] = c] /\ PipeCall(c) /\ c.at = "rename" /\ c.holds = ""
    BY <1>1, Zenon DEF PipeCall, PipeFields, PipePlaces
  <2> HIDE DEF c
  <2> QED
    BY <1>3, <2>1, Zenon
<1>7. CASE call[q].name \notin DOMAIN Selectors
  <2>1. call[q].name \notin Pipe!Spilling
    BY <1>7 DEF Pipe!Spilling
  <2>2. call' = [call EXCEPT ![q].at = "dispatch"]
    BY <1>7, <2>1 DEF Pipe!Select
  <2> QED
    BY <1>4, <2>2
<1>8. CASE call[q].name \in Pipe!Spilling
  <2>1. call[q].name \in DOMAIN Selectors
    BY <1>8 DEF Pipe!Spilling
  <2>2. call' = [call EXCEPT ![q].at = "spill", ![q].seen = running]
    BY <1>8, <2>1 DEF Pipe!Select
  <2> QED
    BY <1>5, <1>8, <2>2
<1>9. CASE call[q].name \in DOMAIN Selectors /\ call[q].name \notin Pipe!Spilling
  <2> DEFINE sel == Selectors[call[q].name]
             t == IF sel.strategy = "pin" THEN sel.targets[1] ELSE Pipe!Warm(sel.targets)
  <2>1. call' = [call EXCEPT ![q].at = "rename", ![q].target = t]
    BY <1>9 DEF Pipe!Select
  <2> HIDE DEF t
  <2> QED
    BY <1>6, <2>1
<1> QED
  BY <1>7, <1>8, <1>9

\* ReplaceRequestModel, and the upgrade that a model ignores.
LEMMA PipeRenames ==
  ASSUME PipeInv, NEW q \in DOMAIN PipeCalls, Pipe!Rename(q)
  PROVE  PipeInv'
<1> DEFINE target == call[q].target
           ignored == /\ call[q].holds # "" /\ q \in WebSockets
                      /\ Pipe!IsLocal(target) /\ LocalModel[target] \in Ignoring
<1>1. PipeCall(call[q]) /\ q \in Pipe!Inside /\ call[q].at = "rename"
  BY Zenon DEF PipeInv, PipeTypes, Pipe!Inside, Pipe!Rename
<1>2. CASE Pipe!Returns(q)
  BY <1>1, <1>2, PipeReturns
<1>3. CASE /\ call' = [call EXCEPT ![q].at = "dispatch", ![q].name = target,
                                   ![q].holds = IF ignored THEN "" ELSE @]
           /\ reserved' = IF ignored THEN Pipe!Released(call[q].holds, target) ELSE reserved
           /\ UNCHANGED <<profile, slots, rr, running>>
  <2>1. CASE ignored
    <3> DEFINE c == [call[q] EXCEPT !.at = "dispatch", !.name = target, !.holds = ""]
    <3>1. call' = [call EXCEPT ![q] = c]
      BY <1>3, <2>1, Zenon
    <3>2. PipeCall(c) /\ c.at \notin {"none", "over"} /\ c.holds = ""
      BY <1>1, Zenon DEF PipeCall, PipeFields, PipePlaces
    <3>3. call[q].holds # "" /\ reserved' = Pipe!Released(call[q].holds, call[q].target)
          /\ UNCHANGED <<slots, rr>>
      BY <1>3, <2>1, Zenon
    <3> HIDE DEF c, ignored
    <3> QED
      BY <1>1, <3>1, <3>2, <3>3, PipeGivesBack, Zenon
  <2>2. CASE ~ignored
    <3> DEFINE c == [call[q] EXCEPT !.at = "dispatch", !.name = target]
    <3>1. call' = [call EXCEPT ![q] = c]
      <4>1. c = [call[q] EXCEPT !.at = "dispatch", !.name = target, !.holds = call[q].holds]
        BY <1>1, Zenon DEF PipeCall
      <4> HIDE DEF ignored
      <4> QED
        BY <1>3, <2>2, <4>1
    <3>2. PipeCall(c) /\ c.at \notin {"none", "over"} /\ c.holds = call[q].holds
          /\ c.target = call[q].target
      BY <1>1, Zenon DEF PipeCall, PipeFields, PipePlaces
    <3>3. UNCHANGED <<slots, reserved, rr>>
      <4> HIDE DEF ignored
      <4> QED
        BY <1>3, <2>2
    <3> HIDE DEF c, ignored
    <3> QED
      BY <1>1, <3>1, <3>2, <3>3, PipeMoves, Zenon
  <2> QED
    BY <2>1, <2>2, Zenon
<1> QED
  BY <1>2, <1>3, Zenon DEF Pipe!Rename

LEMMA PipeStays ==
  ASSUME PipeInv, UNCHANGED <<slots, reserved, rr, call>>
  PROVE  PipeInv'
<1>1. Pipe!Inside' = Pipe!Inside
  BY DEF Pipe!Inside
<1>2. \A s, m : Holding(s, m)' = Holding(s, m)
  BY <1>1 DEF Holding
<1> QED
  BY <1>1, <1>2 DEF PipeInv, PipeTypes, PipeCounts

LEMMA PipeStep == PipeInv /\ [Pipe!Next]_(Pipe!pipeVars) => PipeInv'
<1> SUFFICES ASSUME PipeInv, [Pipe!Next]_(Pipe!pipeVars) PROVE PipeInv'
  OBVIOUS
<1>1. CASE UNCHANGED Pipe!pipeVars
  BY <1>1, PipeStays DEF Pipe!pipeVars
<1>2. ASSUME NEW m \in Pipe!LocalModels, Pipe!StateChanges(m) PROVE PipeInv'
  BY <1>2, PipeStays DEF Pipe!StateChanges
<1>3. ASSUME NEW p \in DOMAIN PipePins, Pipe!SetActiveProfile(p) PROVE PipeInv'
  BY <1>3, PipeStays DEF Pipe!SetActiveProfile
<1>4. ASSUME NEW q \in DOMAIN PipeCalls, Pipe!Enter(q) PROVE PipeInv'
  BY <1>4, PipeEnters
<1>5. ASSUME NEW q \in DOMAIN PipeCalls, Pipe!ApplyProfile(q) \/ Pipe!Dispatch(q) PROVE PipeInv'
  BY <1>5, PipeGoesOn
<1>6. ASSUME NEW q \in DOMAIN PipeCalls, Pipe!Select(q) PROVE PipeInv'
  BY <1>6, PipeSelects
<1>7. ASSUME NEW q \in DOMAIN PipeCalls, Pipe!Spill(q) PROVE PipeInv'
  BY <1>7, PipeSpills
<1>8. ASSUME NEW q \in DOMAIN PipeCalls, Pipe!Rename(q) PROVE PipeInv'
  BY <1>8, PipeRenames
<1>9. ASSUME NEW q \in DOMAIN PipeCalls, Pipe!Served(q) PROVE PipeInv'
  <2>1. q \in Pipe!Inside /\ Pipe!Returns(q)
    BY <1>9 DEF Pipe!Served, Pipe!Inside
  <2> QED
    BY <2>1, PipeReturns
<1> QED
  BY <1>1, <1>2, <1>3, <1>4, <1>5, <1>6, <1>7, <1>8, <1>9, Zenon DEF Pipe!Next

\* Nothing that a request took is left behind, whatever way it leaves, and each choice
\* of a selector that spreads its load is fair, however old the states it read are.
THEOREM PipeSound == Pipe!Spec => [](Pipe!PipelineIsSound)
<1>1. Pipe!Spec => []PipeInv
  BY PipeInitial, PipeStep, PTL DEF Pipe!Spec
<1> QED
  BY <1>1, PipeImplies, PTL
-----------------------------------------------------------------------------
(* What becomes of a request.                                              *)

BodyFields ==
  {"post", "upload", "ctype", "is", "body", "query", "size", "tailcat", "form"}

\* Requests that say their name in one place, and what they say there.
Anew(r) == ~r.post \/ r.ctype = "json" \/ (r.ctype = "multipart" /\ r.query = "")
Told(r) ==
  IF ~r.post THEN r.query
  ELSE IF r.size = "over" THEN "error"
  ELSE IF r.ctype = "json" THEN IF r.is = "json" THEN Body!Field(r) ELSE ""
  ELSE IF r.is = "multipart" THEN Body!Field(r) ELSE "error"

\* What net/http kept of a form is what the form says.
FormIsRead(r) ==
  (r.post /\ r.ctype = "multipart" /\ r.query = "") =>
    r.form = "unparsed" \/ (r.is = "multipart" /\ r.form = Body!Field(r))

\* The same parameters, the model apart.
SameBesides(a, b) ==
  \A k : k # "model" =>
    (k \in DOMAIN a <=> k \in DOMAIN b) /\ (k \in DOMAIN a => a[k] = b[k])

\* Reading a name changes nothing but the form.
SameButForm(r, x) ==
  /\ DOMAIN x = BodyFields /\ x.post = r.post /\ x.upload = r.upload /\ x.ctype = r.ctype
  /\ x.is = r.is /\ x.body = r.body /\ x.query = r.query /\ x.size = r.size

LEMMA ReadsWhatIsTold ==
  ASSUME NEW r, Anew(r), FormIsRead(r)
  PROVE  Body!ExtractModel(r) = Told(r)
<1>1. CASE ~r.post \/ r.size = "over" \/ r.ctype = "json"
  BY <1>1, Zenon DEF Body!ExtractModel, Told, Body!Failed, Body!NoName
<1>2. CASE r.post /\ r.size # "over" /\ r.ctype # "json"
  <2>1. r.ctype = "multipart" /\ r.query = ""
    BY <1>2, Zenon DEF Anew
  <2>2. Body!Parsed(r) = IF r.is = "multipart" THEN Body!Field(r) ELSE "error"
    BY <2>1, Zenon DEF Body!Parsed, Body!FirstOf, Body!NoName, Body!Failed
  <2>3. Body!ExtractModel(r) = IF r.form = "unparsed" THEN Body!Parsed(r) ELSE r.form
    BY <1>2 DEF Body!ExtractModel, Body!Unparsed
  <2>4. Told(r) = IF r.is = "multipart" THEN Body!Field(r) ELSE "error"
    BY <1>2 DEF Told
  <2>5. r.form = "unparsed" \/ (r.is = "multipart" /\ r.form = Body!Field(r))
    BY <1>2, <2>1, Zenon DEF FormIsRead
  <2> QED
    BY <2>2, <2>3, <2>4, <2>5
<1> QED
  BY <1>1, <1>2

LEMMA ReadingKeeps ==
  ASSUME NEW r, DOMAIN r = BodyFields
  PROVE  LET x == Body!Extracted(r)
         IN /\ SameButForm(r, x) /\ Body!ExtractModel(x) = Body!ExtractModel(r)
            /\ FormIsRead(r) => FormIsRead(x)
<1> DEFINE name == Body!ExtractModel(r)
           y == [r EXCEPT !.form = name]
<1>0. SameButForm(r, r) /\ SameButForm(r, y) /\ y.form = name
  BY DEF SameButForm, BodyFields
<1>1. CASE r.post /\ r.ctype # "json" /\ r.size # "over" /\ name # "error"
  <2>1. Body!Extracted(r) = y
    BY <1>1 DEF Body!Extracted, Body!Failed
  <2> HIDE DEF y
  <2>2. Body!Parsed(y) = Body!Parsed(r) /\ Body!Field(y) = Body!Field(r)
    BY <1>0 DEF Body!Parsed, Body!Field, SameButForm
  <2>3. name = IF r.form = "unparsed" THEN Body!Parsed(r) ELSE r.form
    BY <1>1 DEF Body!ExtractModel, Body!Unparsed
  <2>4. Body!ExtractModel(y) = IF y.form = "unparsed" THEN Body!Parsed(y) ELSE y.form
    BY <1>0, <1>1 DEF Body!ExtractModel, Body!Unparsed, SameButForm
  <2>5. Body!ExtractModel(y) = name
    <3> HIDE DEF name
    <3> QED
      BY <1>0, <2>2, <2>3, <2>4
  <2>6. ASSUME FormIsRead(r) PROVE FormIsRead(y)
    <3>1. SUFFICES ASSUME r.ctype = "multipart", r.query = ""
                   PROVE  r.is = "multipart" /\ name = Body!Field(r)
      BY <1>0, <2>2, Zenon DEF FormIsRead, SameButForm
    <3>2. Body!Parsed(r) = IF r.is = "multipart" THEN Body!Field(r) ELSE "error"
      BY <3>1, Zenon DEF Body!Parsed, Body!FirstOf, Body!NoName, Body!Failed
    <3> HIDE DEF name
    <3> QED
      BY <1>1, <2>3, <2>6, <3>1, <3>2, Zenon DEF FormIsRead
  <2> QED
    BY <1>0, <2>1, <2>5, <2>6
<1>2. CASE ~(r.post /\ r.ctype # "json" /\ r.size # "over" /\ name # "error")
  <2>1. Body!Extracted(r) = r
    BY <1>2 DEF Body!Extracted, Body!Failed
  <2> QED
    BY <1>0, <2>1
<1> QED
  BY <1>1, <1>2

LEMMA PutKeeps ==
  ASSUME NEW f, NEW v
  PROVE  LET g == Body!Put(f, "model", v)
         IN "model" \in DOMAIN g /\ g["model"] = v /\ SameBesides(g, f)
  BY DEF Body!Put, SameBesides

\* Another name in the place of the one told is what the request tells then.
LEMMA ReplacingTells ==
  ASSUME NEW r, NEW name, DOMAIN r = BodyFields, FormIsRead(r)
  PROVE  LET x == Body!ReplaceRequestModel(r, name)
         IN /\ DOMAIN x = BodyFields /\ x.post = r.post /\ x.ctype = r.ctype
            /\ x.post => x.query = r.query
            /\ FormIsRead(x)
            /\ x.ctype = "json" => SameBesides(x.body, r.body)
            /\ (Anew(r) /\ Told(r) \notin {"", "error"}) =>
                 Told(x) = name /\ (r.post => Body!Field(x) = name)
<1> DEFINE x == Body!ReplaceRequestModel(r, name)
<1>1. CASE ~r.post
  <2>1. x = [r EXCEPT !.query = name]
    BY <1>1 DEF Body!ReplaceRequestModel, Body!ReplaceAnywhere
  <2>2. /\ DOMAIN x = BodyFields /\ x.post = r.post /\ x.ctype = r.ctype /\ x.body = r.body
        /\ x.query = name
    BY <2>1 DEF BodyFields
  <2> QED
    BY <1>1, <2>2, Zenon DEF FormIsRead, SameBesides, Told
<1>2. CASE r.post /\ r.ctype = "json"
  <2>1. x = [r EXCEPT !.body = Body!Put(r.body, "model", name)]
    BY <1>2 DEF Body!ReplaceRequestModel, Body!ReplaceAnywhere
  <2>2. /\ DOMAIN x = BodyFields /\ x.post = r.post /\ x.ctype = r.ctype /\ x.query = r.query
        /\ x.body = Body!Put(r.body, "model", name) /\ x.size = r.size /\ x.is = r.is
    BY <2>1 DEF BodyFields
  <2>3. Body!Field(x) = name /\ SameBesides(x.body, r.body)
    BY <2>2, PutKeeps DEF Body!Field, Body!Has
  <2>4. Told(r) \notin {"", "error"} => r.size # "over" /\ r.is = "json"
    BY <1>2, Zenon DEF Told
  <2>5. Told(r) \notin {"", "error"} => Told(x) = name /\ Body!Field(x) = name
    BY <1>2, <2>2, <2>3, <2>4, Zenon DEF Told
  <2> QED
    BY <1>2, <2>2, <2>3, <2>5, Zenon DEF FormIsRead
<1>3. CASE r.post /\ r.ctype = "multipart"
  <2> DEFINE b == IF "model" \in DOMAIN r.body THEN Body!Put(r.body, "model", name) ELSE r.body
  <2>1. x = [r EXCEPT !.form = "unparsed", !.body = b]
    BY <1>3 DEF Body!ReplaceRequestModel, Body!ReplaceAnywhere, Body!Unparsed, Body!Has
  <2>2. /\ DOMAIN x = BodyFields /\ x.post = r.post /\ x.ctype = r.ctype /\ x.query = r.query
        /\ x.body = b /\ x.size = r.size /\ x.is = r.is /\ x.form = "unparsed"
    <3> HIDE DEF b
    <3> QED
      BY <2>1 DEF BodyFields
  <2>3. Told(r) \notin {"", "error"} =>
          r.size # "over" /\ r.is = "multipart" /\ "model" \in DOMAIN r.body
    BY <1>3, Zenon DEF Told, Body!Field, Body!Has, Body!NoName
  <2>4. "model" \in DOMAIN r.body => Body!Field(x) = name
    BY <2>2, PutKeeps DEF Body!Field, Body!Has
  <2>5. Told(r) \notin {"", "error"} => Told(x) = name /\ Body!Field(x) = name
    BY <1>3, <2>2, <2>3, <2>4, Zenon DEF Told
  <2> QED
    BY <1>3, <2>2, <2>5, Zenon DEF FormIsRead
<1>4. CASE r.post /\ r.ctype # "json" /\ r.ctype # "multipart"
  <2> DEFINE b == Body!Put(IF r.ctype = "form" THEN r.body ELSE <<>>, "model", name)
  <2>1. x = [r EXCEPT !.is = "form", !.body = b]
    BY <1>4 DEF Body!ReplaceRequestModel, Body!ReplaceAnywhere
  <2>2. DOMAIN x = BodyFields /\ x.post = r.post /\ x.ctype = r.ctype /\ x.query = r.query
    <3> HIDE DEF b
    <3> QED
      BY <2>1 DEF BodyFields
  <2> QED
    BY <1>4, <2>2, Zenon DEF FormIsRead, Anew
<1> QED
  BY <1>1, <1>2, <1>3, <1>4, Zenon

\* A parameter has a hard form, a soft one, or none.
WellFormed(set) == \A e \in DOMAIN set : e = <<e[1], "hard">> \/ e = <<e[1], "soft">>
Hard(set, k) == <<k, "hard">> \in DOMAIN set
Soft(set, k) == <<k, "soft">> \in DOMAIN set

LEMMA ParametersSet ==
  ASSUME NEW set, WellFormed(set), NEW b, NEW k, k # "model"
  PROVE  LET c == Body!SetParams(b, Body!Sanitized(set))
         IN /\ k \in DOMAIN c <=> k \in DOMAIN b \/ Hard(set, k) \/ Soft(set, k)
            /\ k \in DOMAIN c => c[k] = IF Hard(set, k) THEN set[<<k, "hard">>]
                                         ELSE IF k \in DOMAIN b THEN b[k] ELSE set[<<k, "soft">>]
<1> DEFINE p == Body!Sanitized(set)
           c == Body!SetParams(b, p)
<1>1. k \in {e[1] : e \in DOMAIN set} <=> Hard(set, k) \/ Soft(set, k)
  <2>1. ASSUME NEW e \in DOMAIN set, k = e[1] PROVE Hard(set, k) \/ Soft(set, k)
    BY <2>1 DEF WellFormed, Hard, Soft
  <2>2. ASSUME Hard(set, k) \/ Soft(set, k) PROVE \E e \in DOMAIN set : k = e[1]
    <3>1. <<k, "hard">>[1] = k /\ <<k, "soft">>[1] = k
      OBVIOUS
    <3> QED
      BY <2>2, <3>1 DEF Hard, Soft
  <2> QED
    BY <2>1, <2>2
<1>2. DOMAIN p = {e[1] : e \in DOMAIN set} \ {"model"}
  BY DEF Body!Sanitized, Body!Protected
<1>3. k \in DOMAIN p <=> Hard(set, k) \/ Soft(set, k)
  BY <1>1, <1>2
<1>4. k \in DOMAIN p => p[k] = IF Hard(set, k) THEN [soft |-> FALSE, value |-> set[<<k, "hard">>]]
                                ELSE [soft |-> TRUE, value |-> set[<<k, "soft">>]]
  BY DEF Body!Sanitized, Body!Protected, Body!Has, Hard
<1>5. k \in DOMAIN p =>
        /\ Hard(set, k) => ~p[k].soft /\ p[k].value = set[<<k, "hard">>]
        /\ ~Hard(set, k) => p[k].soft /\ p[k].value = set[<<k, "soft">>]
  <2> HIDE DEF p
  <2>1. CASE Hard(set, k)
    BY <1>4, <2>1
  <2>2. CASE ~Hard(set, k)
    BY <1>4, <2>2
  <2> QED
    BY <2>1, <2>2
<1> HIDE DEF p
<1>6. DOMAIN c = DOMAIN b \union DOMAIN p
  BY DEF Body!SetParams
<1>7. k \in DOMAIN c => c[k] = IF k \in DOMAIN p /\ ~(p[k].soft /\ k \in DOMAIN b)
                                 THEN p[k].value ELSE b[k]
  BY DEF Body!SetParams, Body!Has
<1> HIDE DEF c
<1>8. k \in DOMAIN c <=> k \in DOMAIN b \/ Hard(set, k) \/ Soft(set, k)
  BY <1>3, <1>6
<1>9. k \in DOMAIN c => c[k] = IF Hard(set, k) THEN set[<<k, "hard">>]
                                ELSE IF k \in DOMAIN b THEN b[k] ELSE set[<<k, "soft">>]
  BY <1>3, <1>5, <1>6, <1>7
<1> QED
  BY <1>8, <1>9, Zenon DEF c, p

\* The filters of a model leave its name alone, or put the configured one there.
LEMMA ModelKept ==
  ASSUME NEW set, NEW b, "model" \in DOMAIN b
  PROVE  LET c == Body!SetParams(b, Body!Sanitized(set))
         IN "model" \in DOMAIN c /\ c["model"] = b["model"]
<1>1. "model" \notin DOMAIN Body!Sanitized(set)
  BY DEF Body!Sanitized, Body!Protected
<1> QED
  BY <1>1 DEF Body!SetParams, Body!Has

ByName(name) ==
  LET f == Body!ResolveFilters(name)
  IN IF Body!Has(f.byID, name) THEN f.byID[name] ELSE <<>>

LEMMA FiltersWellFormed ==
  ASSUME NEW name
  PROVE  WellFormed(Body!ResolveFilters(name).set) /\ WellFormed(ByName(name))
<1> DEFINE m == IF Body!Has(RealName, name) THEN RealName[name] ELSE name
<1>1. CASE m \in DOMAIN Filters
  <2>1. Body!ResolveFilters(name) = Filters[m]
    BY <1>1 DEF Body!ResolveFilters, Body!Has
  <2>2. \A raw \in {Filters[m].set} \union {Filters[m].byID[n] : n \in DOMAIN Filters[m].byID} :
          WellFormed(raw)
    BY <1>1, BodyAssumption, Zenon DEF WellFormed
  <2>3. WellFormed(<<>>)
    BY DEF WellFormed
  <2>4. ByName(name) = IF name \in DOMAIN Filters[m].byID THEN Filters[m].byID[name] ELSE <<>>
    BY <2>1, Zenon DEF ByName, Body!Has
  <2> HIDE DEF m
  <2> QED
    BY <2>1, <2>2, <2>3, <2>4
<1>2. CASE m \notin DOMAIN Filters
  <2>1. Body!ResolveFilters(name) = [strip |-> {}, set |-> <<>>, byID |-> <<>>]
    BY <1>2 DEF Body!ResolveFilters, Body!Has
  <2>2. WellFormed(<<>>) /\ ByName(name) = <<>>
    BY <2>1 DEF WellFormed, ByName, Body!Has
  <2> QED
    BY <2>1, <2>2
<1> QED
  BY <1>1, <1>2

\* What the filters of a name make of a body, key by key.
Composes(old, b, name) ==
  LET f == Body!ResolveFilters(name)
      byID == ByName(name)
  IN \A k : k # "model" =>
       /\ k \in DOMAIN b <=> \/ k \in DOMAIN old /\ k \notin f.strip
                             \/ Hard(f.set, k) \/ Soft(f.set, k) \/ Hard(byID, k) \/ Soft(byID, k)
       /\ k \in DOMAIN b =>
            b[k] = IF Hard(byID, k) THEN byID[<<k, "hard">>]
                   ELSE IF Hard(f.set, k) THEN f.set[<<k, "hard">>]
                   ELSE IF k \in DOMAIN old /\ k \notin f.strip THEN old[k]
                   ELSE IF Soft(f.set, k) THEN f.set[<<k, "soft">>]
                   ELSE byID[<<k, "soft">>]

LEMMA FiltersApplied ==
  ASSUME NEW old, NEW b, NEW name, SameBesides(b, old)
  PROVE  LET c == Body!ApplyFilters(b, name)
         IN /\ Composes(old, c, name)
            /\ "model" \in DOMAIN b =>
                 /\ "model" \in DOMAIN c
                 /\ c["model"] = IF Body!ResolveUseName(name) # "" THEN Body!ResolveUseName(name)
                                 ELSE b["model"]
<1> DEFINE f == Body!ResolveFilters(name)
           byID == ByName(name)
           u == Body!ResolveUseName(name)
           b1 == IF u # "" THEN Body!Put(b, "model", u) ELSE b
           b2 == Body!StripParams(b1, f.strip)
           b3 == Body!SetParams(b2, Body!Sanitized(f.set))
           b4 == IF name \in DOMAIN f.byID
                   THEN Body!SetParams(b3, Body!Sanitized(f.byID[name])) ELSE b3
<1>1. Body!ApplyFilters(b, name) = b4
  BY Zenon DEF Body!ApplyFilters, Body!Has, Body!NoName
<1>2. SameBesides(b1, b) /\ ("model" \in DOMAIN b => "model" \in DOMAIN b1
                              /\ b1["model"] = IF u # "" THEN u ELSE b["model"])
  <2> HIDE DEF u
  <2>1. CASE u = ""
    BY <2>1, Zenon DEF SameBesides
  <2>2. CASE u # ""
    BY <2>2, PutKeeps, Zenon
  <2> QED
    BY <2>1, <2>2, Zenon
<1>3. /\ DOMAIN b2 = DOMAIN b1 \ (f.strip \ {"model"})
      /\ \A k \in DOMAIN b2 : b2[k] = b1[k]
  BY Zenon DEF Body!StripParams, Body!Protected
<1>4. WellFormed(f.set) /\ WellFormed(byID)
  BY FiltersWellFormed
<1>5. byID = IF name \in DOMAIN f.byID THEN f.byID[name] ELSE <<>>
  BY Zenon DEF ByName, Body!Has
<1> HIDE DEF b1, f, byID, u
<1>6. ASSUME NEW k, k # "model"
      PROVE  /\ k \in DOMAIN b4 <=> \/ k \in DOMAIN old /\ k \notin f.strip
                                    \/ Hard(f.set, k) \/ Soft(f.set, k) \/ Hard(byID, k) \/ Soft(byID, k)
             /\ k \in DOMAIN b4 =>
                  b4[k] = IF Hard(byID, k) THEN byID[<<k, "hard">>]
                          ELSE IF Hard(f.set, k) THEN f.set[<<k, "hard">>]
                          ELSE IF k \in DOMAIN old /\ k \notin f.strip THEN old[k]
                          ELSE IF Soft(f.set, k) THEN f.set[<<k, "soft">>]
                          ELSE byID[<<k, "soft">>]
  <2>1. /\ k \in DOMAIN b2 <=> k \in DOMAIN old /\ k \notin f.strip
        /\ k \in DOMAIN b2 => b2[k] = old[k]
    BY <1>2, <1>3, <1>6, Zenon DEF SameBesides
  <2> HIDE DEF b2
  <2>2. /\ k \in DOMAIN b3 <=> k \in DOMAIN b2 \/ Hard(f.set, k) \/ Soft(f.set, k)
        /\ k \in DOMAIN b3 => b3[k] = IF Hard(f.set, k) THEN f.set[<<k, "hard">>]
                                       ELSE IF k \in DOMAIN b2 THEN b2[k] ELSE f.set[<<k, "soft">>]
    BY <1>4, <1>6, ParametersSet
  <2> HIDE DEF b3
  <2>3. /\ k \in DOMAIN b4 <=> k \in DOMAIN b3 \/ Hard(byID, k) \/ Soft(byID, k)
        /\ k \in DOMAIN b4 => b4[k] = IF Hard(byID, k) THEN byID[<<k, "hard">>]
                                       ELSE IF k \in DOMAIN b3 THEN b3[k] ELSE byID[<<k, "soft">>]
    <3>1. CASE name \in DOMAIN f.byID
      <4>1. b4 = Body!SetParams(b3, Body!Sanitized(byID))
        BY <3>1, <1>5
      <4> HIDE DEF b4
      <4> QED
        BY <4>1, <1>4, <1>6, ParametersSet
    <3>2. CASE name \notin DOMAIN f.byID
      <4>1. b4 = b3 /\ byID = <<>>
        BY <3>2, <1>5
      <4>2. ~Hard(byID, k) /\ ~Soft(byID, k)
        BY <4>1 DEF Hard, Soft
      <4> QED
        BY <4>1, <4>2
    <3> QED
      BY <3>1, <3>2
  <2> HIDE DEF b4
  <2>4. k \in DOMAIN b4 <=> \/ k \in DOMAIN old /\ k \notin f.strip
                            \/ Hard(f.set, k) \/ Soft(f.set, k) \/ Hard(byID, k) \/ Soft(byID, k)
    BY <2>1, <2>2, <2>3
  <2>5. ASSUME k \in DOMAIN b4
        PROVE  b4[k] = IF Hard(byID, k) THEN byID[<<k, "hard">>]
                       ELSE IF Hard(f.set, k) THEN f.set[<<k, "hard">>]
                       ELSE IF k \in DOMAIN old /\ k \notin f.strip THEN old[k]
                       ELSE IF Soft(f.set, k) THEN f.set[<<k, "soft">>]
                       ELSE byID[<<k, "soft">>]
    <3>1. CASE Hard(byID, k)
      BY <2>5, <2>3, <3>1
    <3>2. CASE ~Hard(byID, k) /\ k \in DOMAIN b3
      BY <2>1, <2>2, <2>3, <2>5, <3>2
    <3>3. CASE ~Hard(byID, k) /\ k \notin DOMAIN b3
      BY <2>1, <2>2, <2>3, <2>5, <3>3
    <3> QED
      BY <3>1, <3>2, <3>3
  <2> QED
    BY <2>4, <2>5
<1>7. ASSUME "model" \in DOMAIN b
      PROVE  "model" \in DOMAIN b4 /\ b4["model"] = IF u # "" THEN u ELSE b["model"]
  <2>1. "model" \in DOMAIN b2 /\ b2["model"] = b1["model"]
    BY <1>2, <1>3, <1>7, Zenon
  <2> HIDE DEF b2
  <2>2. "model" \in DOMAIN b3 /\ b3["model"] = b2["model"]
    BY <2>1, ModelKept
  <2> HIDE DEF b3
  <2>3. "model" \in DOMAIN b4 /\ b4["model"] = b3["model"]
    BY <2>2, ModelKept
  <2> QED
    BY <1>2, <1>7, <2>1, <2>2, <2>3, Zenon
<1>8. Composes(old, b4, name)
  <2> HIDE DEF b4
  <2> QED
    BY <1>6, Zenon DEF Composes, f, byID
<1> HIDE DEF b4
<1> QED
  BY <1>1, <1>7, <1>8, Zenon DEF u

Passed == {"selector", "context", "filter", "form", "sent"}
Unfiltered == {"tailcat", "type", "profile", "selector", "context", "filter"}
Given(name) ==
  IF Body!ResolveUseName(name) # "" THEN Body!ResolveUseName(name) ELSE name

\* Until the filters, a body that is JSON has what it came with; then what they made of it.
BodyInv ==
  /\ DOMAIN req = BodyFields /\ req.post = came.post
  /\ req.post => req.query = came.query
  /\ FormIsRead(req)
  /\ bodyAt \in {"tailcat", "type"} => req.body = came.body
  /\ bodyAt \in Unfiltered /\ req.ctype = "json" => SameBesides(req.body, came.body)
  /\ bodyAt \in {"form", "sent"} /\ req.ctype = "json" => Composes(came.body, req.body, ctxModel)
  /\ came.tailcat =>
       /\ bodyAt = "type" => Body!Normalizes(req) # "json"
       /\ bodyAt \in {"type", "profile"} => Body!ExtractModel(req) = checked
       /\ bodyAt \in Passed => named = checked
  /\ Anew(req) =>
       /\ bodyAt = "selector" =>
            Told(req) = IF named \in DOMAIN BodyPins THEN BodyPins[named] ELSE named
       /\ bodyAt = "context" => Told(req) = Body!Chosen(named)
       /\ bodyAt \in {"filter", "form", "sent"} =>
            ctxModel = Body!Chosen(named) /\ ctxModel \notin {"", "error"}
       /\ bodyAt = "filter" => Told(req) = ctxModel
       /\ bodyAt = "form" /\ req.post =>
            IF req.ctype = "json" THEN Body!Field(req) = Given(ctxModel) ELSE Told(req) = ctxModel
       /\ bodyAt = "sent" /\ req.post => Body!Field(req) = Given(ctxModel)

LEMMA BodyImplies == BodyInv => Body!BodiesAreSound
<1> SUFFICES ASSUME BodyInv PROVE Body!BodiesAreSound
  OBVIOUS
<1>1. Body!ReadAnew => Anew(req)
  BY Zenon DEF BodyInv, Body!ReadAnew, Anew, Body!NoName
<1>2. Body!ReplacementsHoldReadAnew
  BY <1>1, Zenon DEF BodyInv, Body!ReplacementsHoldReadAnew, Body!ReplacementsHold
<1>3. Body!UpstreamGetsName
  BY <1>1, Zenon DEF BodyInv, Body!UpstreamGetsName, Given, Body!FirstOf, Body!NoName
<1>4. Body!TailcatServesChecked
  BY Zenon DEF BodyInv, Body!TailcatServesChecked, Passed
<1>5. Body!FiltersCompose
  <2>1. SUFFICES ASSUME bodyAt = "sent", req.ctype = "json" PROVE Body!FiltersCompose
    BY Zenon DEF Body!FiltersCompose
  <2> DEFINE f == Body!ResolveFilters(ctxModel)
             byID == ByName(ctxModel)
             kept == DOMAIN came.body \ f.strip
             keys == kept \cup {e[1] : e \in DOMAIN byID \cup DOMAIN f.set}
             value(k) == IF Hard(byID, k) THEN byID[<<k, "hard">>]
                         ELSE IF Hard(f.set, k) THEN f.set[<<k, "hard">>]
                         ELSE IF k \in kept THEN came.body[k]
                         ELSE IF Soft(f.set, k) THEN f.set[<<k, "soft">>]
                         ELSE byID[<<k, "soft">>]
  <2>2. Composes(came.body, req.body, ctxModel)
    BY <2>1, Zenon DEF BodyInv
  <2>3. WellFormed(f.set) /\ WellFormed(byID)
    BY FiltersWellFormed
  <2>4. ASSUME NEW k \in (keys \cup DOMAIN req.body) \ {"model"}
        PROVE  k \in DOMAIN req.body /\ req.body[k] = value(k)
    <3>1. /\ k \in DOMAIN req.body <=> \/ k \in DOMAIN came.body /\ k \notin f.strip
                                \/ Hard(f.set, k) \/ Soft(f.set, k) \/ Hard(byID, k) \/ Soft(byID, k)
          /\ k \in DOMAIN req.body => req.body[k] = value(k)
      BY <2>2 DEF Composes
    <3>2. ASSUME NEW e \in DOMAIN byID \cup DOMAIN f.set, k = e[1]
          PROVE  Hard(f.set, k) \/ Soft(f.set, k) \/ Hard(byID, k) \/ Soft(byID, k)
      <4> HIDE DEF f, byID
      <4> QED
        BY <2>3, <3>2 DEF WellFormed, Hard, Soft
    <3>3. k \in DOMAIN req.body
      <4> HIDE DEF f, byID
      <4> QED
        BY <3>1, <3>2
    <3> QED
      BY <3>1, <3>3
  <2> QED
    BY <2>4, Zenon DEF Body!FiltersCompose, Body!Has, Body!Protected, ByName, Hard, Soft
<1> QED
  BY <1>2, <1>3, <1>4, <1>5 DEF Body!BodiesAreSound

LEMMA BodyInitial == Body!Init => BodyInv
<1> SUFFICES ASSUME Body!Init PROVE BodyInv
  OBVIOUS
<1>1. req = Body!NoRequest /\ came = Body!NoRequest /\ bodyAt = "none"
  BY DEF Body!Init
<1>2. DOMAIN Body!NoRequest = BodyFields /\ Body!NoRequest.post = FALSE
  BY DEF Body!NoRequest, BodyFields
<1> QED
  BY <1>1, <1>2, Zenon DEF BodyInv, FormIsRead, Unfiltered, Passed

\* A request that comes to a Tailcat client's handler or to the first middleware.
LEMMA BodyArrives ==
  ASSUME BodyInv, NEW r \in BodyRequests, Body!Arrives(r)
  PROVE  BodyInv'
<1>1. DOMAIN r = BodyFields
  BY BodyAssumption, Zenon DEF BodyFields
<1>2. /\ req' = [r EXCEPT !.form = "unparsed"] /\ came' = req'
      /\ bodyAt' = IF r.tailcat THEN "tailcat" ELSE "type"
  BY DEF Body!Arrives, Body!Unparsed, Body!Goes
<1>3. DOMAIN req' = BodyFields /\ req'.form = "unparsed" /\ req'.tailcat = r.tailcat
  BY <1>1, <1>2 DEF BodyFields
<1> QED
  BY <1>2, <1>3, Zenon DEF BodyInv, FormIsRead, Unfiltered, Passed, SameBesides

LEMMA PreparingKeeps ==
  ASSUME NEW r, DOMAIN r = BodyFields
  PROVE  LET p == Body!Prepared(r)
         IN /\ DOMAIN p = BodyFields /\ p.post = r.post /\ p.query = r.query /\ p.body = r.body
            /\ FormIsRead(r) => FormIsRead(p)
            /\ Body!Normalizes(p) # "json"
            /\ Body!Normalizes(r) # "json" => p = r
<1>1. CASE Body!Normalizes(r) = "json"
  <2> DEFINE p == [r EXCEPT !.ctype = "json"]
  <2>1. Body!Prepared(r) = p
    BY <1>1 DEF Body!Prepared
  <2>2. /\ DOMAIN p = BodyFields /\ p.post = r.post /\ p.query = r.query /\ p.body = r.body
        /\ p.ctype = "json" /\ p.upload = r.upload
    BY DEF BodyFields
  <2>3. ~r.upload
    BY <1>1 DEF Body!Normalizes, Body!Failed
  <2> HIDE DEF p
  <2>4. Body!Normalizes(p) # "json"
    BY <2>2, <2>3 DEF Body!Normalizes
  <2> QED
    BY <1>1, <2>1, <2>2, <2>4 DEF FormIsRead
<1>2. CASE Body!Normalizes(r) # "json"
  BY <1>2 DEF Body!Prepared
<1> QED
  BY <1>1, <1>2

LEMMA BodyIsChecked ==
  ASSUME BodyInv, Body!ServeTailcatHTTP
  PROVE  BodyInv'
<1> DEFINE p == Body!Prepared(req)
           x == Body!Extracted(p)
<1>1. DOMAIN req = BodyFields /\ FormIsRead(req) /\ bodyAt = "tailcat" /\ req.body = came.body
      /\ req.post = came.post /\ (req.post => req.query = came.query)
  BY DEF BodyInv, Body!ServeTailcatHTTP
<1>2. /\ DOMAIN p = BodyFields /\ p.post = req.post /\ p.query = req.query /\ p.body = req.body
      /\ FormIsRead(p) /\ Body!Normalizes(p) # "json"
  BY <1>1, PreparingKeeps
<1>3. CASE /\ req' = x /\ checked' = Body!ExtractModel(p) /\ bodyAt' = "type"
           /\ UNCHANGED <<came, named, ctxModel>>
  <2> HIDE DEF p
  <2>1. SameButForm(p, x) /\ Body!ExtractModel(x) = Body!ExtractModel(p) /\ FormIsRead(x)
    BY <1>2, ReadingKeeps
  <2> HIDE DEF x
  <2>2. Body!Normalizes(x) # "json"
    BY <1>2, <2>1 DEF SameButForm, Body!Normalizes, Body!Field
  <2> QED
    BY <1>1, <1>2, <1>3, <2>1, <2>2 DEF BodyInv, SameButForm, SameBesides, Unfiltered, Passed
<1>4. CASE bodyAt' = "refused" /\ UNCHANGED <<came, req, named, ctxModel, checked>>
  BY <1>4, Zenon DEF BodyInv, Unfiltered, Passed
<1> QED
  BY <1>3, <1>4, Zenon DEF Body!ServeTailcatHTTP, Body!Goes

LEMMA BodyIsTyped ==
  ASSUME BodyInv, Body!ContentType
  PROVE  BodyInv'
<1> DEFINE p == Body!Prepared(req)
<1>1. DOMAIN req = BodyFields /\ FormIsRead(req) /\ bodyAt = "type" /\ req.body = came.body
      /\ req.post = came.post /\ (req.post => req.query = came.query)
      /\ (came.tailcat => Body!Normalizes(req) # "json" /\ Body!ExtractModel(req) = checked)
  BY DEF BodyInv, Body!ContentType
<1>2. /\ DOMAIN p = BodyFields /\ p.post = req.post /\ p.query = req.query /\ p.body = req.body
      /\ FormIsRead(p) /\ (Body!Normalizes(req) # "json" => p = req)
  BY <1>1, PreparingKeeps
<1>3. CASE req' = p /\ bodyAt' = "profile" /\ UNCHANGED <<came, named, ctxModel, checked>>
  <2> HIDE DEF p
  <2> QED
    BY <1>1, <1>2, <1>3 DEF BodyInv, SameBesides, Unfiltered, Passed
<1>4. CASE bodyAt' = "refused" /\ UNCHANGED <<came, req, named, ctxModel, checked>>
  BY <1>4, Zenon DEF BodyInv, Unfiltered, Passed
<1> QED
  BY <1>3, <1>4, Zenon DEF Body!ContentType, Body!Goes

\* What a middleware does that reads the name and, if it is in its table, replaces it.
Rewritten(r, table) ==
  IF Body!ExtractModel(r) \in DOMAIN table
    THEN Body!ReplaceRequestModel(Body!Extracted(r), table[Body!ExtractModel(r)])
    ELSE Body!Extracted(r)

LEMMA RewritingTells ==
  ASSUME NEW r, NEW table, DOMAIN r = BodyFields, FormIsRead(r),
         {"", "error"} \cap DOMAIN table = {}
  PROVE  LET x == Rewritten(r, table)
         IN /\ DOMAIN x = BodyFields /\ x.post = r.post /\ x.ctype = r.ctype
            /\ x.post => x.query = r.query
            /\ FormIsRead(x)
            /\ x.ctype = "json" => SameBesides(x.body, r.body)
            /\ Anew(r) => Told(x) = IF Told(r) \in DOMAIN table THEN table[Told(r)] ELSE Told(r)
<1> DEFINE e == Body!Extracted(r)
           name == Body!ExtractModel(r)
<1>1. SameButForm(r, e) /\ FormIsRead(e)
  BY ReadingKeeps, Zenon
<1>2. Anew(r) => name = Told(r)
  BY ReadsWhatIsTold, Zenon
<1> HIDE DEF e, name
<1>3. (Anew(r) => Anew(e)) /\ Told(e) = Told(r)
  BY <1>1, Zenon DEF SameButForm, Anew, Told, Body!Field
<1>4. CASE name \in DOMAIN table
  <2> DEFINE x == Body!ReplaceRequestModel(e, table[name])
  <2>1. Rewritten(r, table) = x
    BY <1>4, Zenon DEF Rewritten, e, name
  <2>2. /\ DOMAIN x = BodyFields /\ x.post = e.post /\ x.ctype = e.ctype
        /\ x.post => x.query = e.query
        /\ FormIsRead(x)
        /\ x.ctype = "json" => SameBesides(x.body, e.body)
        /\ (Anew(e) /\ Told(e) \notin {"", "error"}) =>
             Told(x) = table[name] /\ (e.post => Body!Field(x) = table[name])
    <3> HIDE DEF x
    <3>1. DOMAIN e = BodyFields
      BY <1>1, Zenon DEF SameButForm
    <3> QED
      BY <1>1, <3>1, ReplacingTells, Zenon DEF x
  <2> HIDE DEF x
  <2>3. name \notin {"", "error"}
    BY <1>4, Zenon
  <2>4. Anew(r) => Told(x) = table[name] /\ name = Told(r)
    BY <1>2, <1>3, <2>2, <2>3, Zenon
  <2> QED
    BY <1>1, <1>4, <2>1, <2>2, <2>4, Zenon DEF SameButForm
<1>5. CASE name \notin DOMAIN table
  <2>1. Rewritten(r, table) = e
    BY <1>5, Zenon DEF Rewritten, e, name
  <2>2. SameBesides(r.body, r.body)
    BY Zenon DEF SameBesides
  <2>3. Anew(r) => Told(r) \notin DOMAIN table
    BY <1>2, <1>5, Zenon
  <2> QED
    BY <1>1, <1>3, <2>1, <2>2, <2>3, Zenon DEF SameButForm
<1> QED
  BY <1>4, <1>5, Zenon

LEMMA SameTwice ==
  ASSUME NEW a, NEW b, NEW c, SameBesides(a, b), SameBesides(b, c)
  PROVE  SameBesides(a, c)
  BY DEF SameBesides

LEMMA BodyTables ==
  {"", "error"} \cap DOMAIN BodyPins = {} /\ {"", "error"} \cap DOMAIN SelectorOf = {}
  BY BodyAssumption, Zenon

\* The profile, and after it the selector.
LEMMA BodyIsPinned ==
  ASSUME BodyInv, Body!ApplyProfile
  PROVE  BodyInv'
<1> DEFINE x == Rewritten(req, BodyPins)
<1>1. /\ req' = x /\ named' = Body!ExtractModel(req) /\ bodyAt = "profile" /\ bodyAt' = "selector"
      /\ UNCHANGED <<came, ctxModel, checked>>
  BY Zenon DEF Body!ApplyProfile, Rewritten, Body!Has, Body!Goes
<1>2. /\ DOMAIN req = BodyFields /\ FormIsRead(req) /\ req.post = came.post
      /\ (req.post => req.query = came.query)
      /\ (req.ctype = "json" => SameBesides(req.body, came.body))
      /\ (came.tailcat => Body!ExtractModel(req) = checked)
  BY <1>1 DEF BodyInv, Unfiltered
<1>3. /\ DOMAIN x = BodyFields /\ x.post = req.post /\ x.ctype = req.ctype
      /\ x.post => x.query = req.query
      /\ FormIsRead(x)
      /\ x.ctype = "json" => SameBesides(x.body, req.body)
      /\ Anew(req) => Told(x) = IF Told(req) \in DOMAIN BodyPins THEN BodyPins[Told(req)]
                                ELSE Told(req)
  BY <1>2, BodyTables, RewritingTells, Zenon
<1> HIDE DEF x
<1>4. Anew(x) => Anew(req)
  BY <1>3, Zenon DEF Anew
<1>5. Anew(x) => Told(x) = IF named' \in DOMAIN BodyPins THEN BodyPins[named'] ELSE named'
  BY <1>1, <1>2, <1>3, <1>4, ReadsWhatIsTold
<1>6. x.ctype = "json" => SameBesides(x.body, came.body)
  BY <1>2, <1>3, SameTwice
<1> QED
  BY <1>1, <1>2, <1>3, <1>5, <1>6 DEF BodyInv, Unfiltered, Passed

LEMMA BodyIsSelected ==
  ASSUME BodyInv, Body!Select
  PROVE  BodyInv'
<1> DEFINE x == Rewritten(req, SelectorOf)
<1>1. /\ req' = x /\ bodyAt = "selector" /\ bodyAt' = "context"
      /\ UNCHANGED <<came, named, ctxModel, checked>>
  BY Zenon DEF Body!Select, Rewritten, Body!Has, Body!Goes
<1>2. /\ DOMAIN req = BodyFields /\ FormIsRead(req) /\ req.post = came.post
      /\ (req.post => req.query = came.query)
      /\ (req.ctype = "json" => SameBesides(req.body, came.body))
      /\ (came.tailcat => named = checked)
      /\ (Anew(req) => Told(req) = IF named \in DOMAIN BodyPins THEN BodyPins[named] ELSE named)
  BY <1>1 DEF BodyInv, Unfiltered, Passed
<1>3. /\ DOMAIN x = BodyFields /\ x.post = req.post /\ x.ctype = req.ctype
      /\ x.post => x.query = req.query
      /\ FormIsRead(x)
      /\ x.ctype = "json" => SameBesides(x.body, req.body)
      /\ Anew(req) => Told(x) = IF Told(req) \in DOMAIN SelectorOf THEN SelectorOf[Told(req)]
                                ELSE Told(req)
  BY <1>2, BodyTables, RewritingTells, Zenon
<1> HIDE DEF x
<1>4. Anew(x) => Told(x) = Body!Chosen(named)
  <2>1. SUFFICES ASSUME Anew(x) PROVE Told(x) = Body!Chosen(named)
    OBVIOUS
  <2>2. Anew(req)
    BY <1>3, <2>1, Zenon DEF Anew
  <2> QED
    BY <1>2, <1>3, <2>2 DEF Body!Chosen, Body!Has
<1>5. x.ctype = "json" => SameBesides(x.body, came.body)
  BY <1>2, <1>3, SameTwice
<1> QED
  BY <1>1, <1>2, <1>3, <1>4, <1>5 DEF BodyInv, Unfiltered, Passed

\* The name is kept in the context.
LEMMA BodyIsRead ==
  ASSUME BodyInv, Body!RequestContext
  PROVE  BodyInv'
<1> DEFINE x == Body!Extracted(req)
           name == Body!ExtractModel(req)
<1>1. /\ DOMAIN req = BodyFields /\ FormIsRead(req) /\ req.post = came.post /\ bodyAt = "context"
      /\ (req.post => req.query = came.query)
      /\ (req.ctype = "json" => SameBesides(req.body, came.body))
      /\ (came.tailcat => named = checked)
      /\ (Anew(req) => Told(req) = Body!Chosen(named))
  BY DEF BodyInv, Unfiltered, Passed, Body!RequestContext
<1>2. CASE /\ name \notin {"", "error"} /\ ctxModel' = name /\ req' = x /\ bodyAt' = "filter"
           /\ UNCHANGED <<came, named, checked>>
  <2>1. SameButForm(req, x) /\ FormIsRead(x)
    BY <1>1, ReadingKeeps
  <2>2. Anew(req) => name = Told(req)
    BY <1>1, ReadsWhatIsTold
  <2> HIDE DEF x, name
  <2>3. (Anew(x) => Anew(req)) /\ Told(x) = Told(req)
    BY <2>1, Zenon DEF SameButForm, Anew, Told, Body!Field
  <2> QED
    BY <1>1, <1>2, <2>1, <2>2, <2>3, Zenon DEF BodyInv, SameButForm, Unfiltered, Passed
<1>3. CASE bodyAt' = "refused" /\ UNCHANGED <<came, req, named, ctxModel, checked>>
  BY <1>3, Zenon DEF BodyInv, Unfiltered, Passed
<1> QED
  BY <1>2, <1>3, Zenon DEF Body!RequestContext, Body!Goes, Body!NoName, Body!Failed

\* A JSON body is filtered, a form comes after it.
LEMMA BodyIsFiltered ==
  ASSUME BodyInv, Body!Filter
  PROVE  BodyInv'
<1>1. /\ DOMAIN req = BodyFields /\ FormIsRead(req) /\ req.post = came.post /\ bodyAt = "filter"
      /\ (req.post => req.query = came.query)
      /\ (req.ctype = "json" => SameBesides(req.body, came.body))
      /\ (came.tailcat => named = checked)
      /\ (Anew(req) => /\ ctxModel = Body!Chosen(named) /\ ctxModel \notin {"", "error"}
                       /\ Told(req) = ctxModel)
  BY Zenon DEF BodyInv, Unfiltered, Passed, Body!Filter
<1>2. bodyAt' = "form" /\ UNCHANGED <<came, named, ctxModel, checked>>
  BY DEF Body!Filter, Body!Goes
<1>3. CASE req.ctype = "json"
  <2> DEFINE b == Body!ApplyFilters(req.body, ctxModel)
  <2>1. req' = [req EXCEPT !.body = b]
    BY <1>3 DEF Body!Filter
  <2>2. /\ Composes(came.body, b, ctxModel)
        /\ "model" \in DOMAIN req.body =>
             /\ "model" \in DOMAIN b
             /\ b["model"] = IF Body!ResolveUseName(ctxModel) # "" THEN Body!ResolveUseName(ctxModel)
                             ELSE req.body["model"]
    <3>1. SameBesides(req.body, came.body)
      BY <1>1, <1>3, Zenon
    <3> QED
      BY <3>1, FiltersApplied, Zenon
  <2> HIDE DEF b
  <2>3. /\ DOMAIN req' = BodyFields /\ req'.post = req.post /\ req'.ctype = "json"
        /\ req'.query = req.query /\ req'.body = b
    BY <1>1, <1>3, <2>1, Zenon DEF BodyFields
  <2>4. ASSUME Anew(req), req.post PROVE Body!Field(req') = Given(ctxModel)
    <3>1. Body!Field(req) = ctxModel /\ ctxModel # ""
      BY <1>1, <1>3, <2>4, Zenon DEF Told
    <3>2. "model" \in DOMAIN req.body /\ req.body["model"] = ctxModel
      BY <3>1, Zenon DEF Body!Field, Body!Has, Body!NoName
    <3> QED
      BY <2>2, <2>3, <3>2, Zenon DEF Body!Field, Body!Has, Given
  <2>5. Anew(req') => Anew(req)
    BY <1>3, Zenon DEF Anew
  <2> QED
    BY <1>1, <1>2, <1>3, <2>2, <2>3, <2>4, <2>5, Zenon DEF BodyInv, FormIsRead, Unfiltered, Passed
<1>4. CASE req.ctype # "json"
  <2>1. req' = req
    BY <1>4 DEF Body!Filter
  <2> QED
    BY <1>1, <1>2, <1>4, <2>1, Zenon DEF BodyInv, Unfiltered, Passed
<1> QED
  BY <1>3, <1>4

LEMMA FormIsFiltered ==
  ASSUME BodyInv, Body!FormFilter
  PROVE  BodyInv'
<1> DEFINE u == Body!ResolveUseName(ctxModel)
           e == Body!Extracted(req)
           x == Body!ReplaceRequestModel(e, u)
           replaces == req.ctype = "multipart" /\ u # "" /\ Body!ExtractModel(req) = ctxModel
<1>1. /\ DOMAIN req = BodyFields /\ FormIsRead(req) /\ req.post = came.post /\ bodyAt = "form"
      /\ (req.post => req.query = came.query)
      /\ (req.ctype = "json" => Composes(came.body, req.body, ctxModel))
      /\ (came.tailcat => named = checked)
      /\ (Anew(req) =>
            /\ ctxModel = Body!Chosen(named) /\ ctxModel \notin {"", "error"}
            /\ req.post => IF req.ctype = "json" THEN Body!Field(req) = Given(ctxModel)
                           ELSE Told(req) = ctxModel)
  BY Zenon DEF BodyInv, Unfiltered, Passed, Body!FormFilter
<1>2. bodyAt' = "sent" /\ UNCHANGED <<came, named, ctxModel, checked>>
  BY DEF Body!FormFilter, Body!Goes
<1>3. req' = IF replaces THEN x ELSE req
  BY Zenon DEF Body!FormFilter, Body!NoName
<1>4. ASSUME NEW r, Anew(r), r.post, r.ctype # "json", Told(r) \notin {"", "error"}
      PROVE  Told(r) = Body!Field(r) /\ r.ctype = "multipart"
  BY <1>4, Zenon DEF Anew, Told
<1>5. CASE replaces
  <2>1. SameButForm(req, e) /\ FormIsRead(e)
    BY <1>1, ReadingKeeps, Zenon
  <2> HIDE DEF e
  <2>2. /\ DOMAIN x = BodyFields /\ x.post = e.post /\ x.ctype = e.ctype
        /\ x.post => x.query = e.query
        /\ FormIsRead(x)
        /\ (Anew(e) /\ Told(e) \notin {"", "error"}) =>
             Told(x) = u /\ (e.post => Body!Field(x) = u)
    <3>1. DOMAIN e = BodyFields
      BY <2>1 DEF SameButForm
    <3> HIDE DEF u
    <3> QED
      BY <2>1, <3>1, ReplacingTells, Zenon
  <2> HIDE DEF x
  <2>3. (Anew(x) /\ x.post) => (Anew(req) /\ Anew(e)) /\ Told(e) = Told(req) /\ req.post
    BY <2>1, <2>2, Zenon DEF SameButForm, Anew, Told, Body!Field
  <2>4. x.post = req.post /\ x.ctype = "multipart" /\ req.ctype = "multipart"
    BY <1>5, <2>1, <2>2, Zenon DEF SameButForm
  <2>5. ASSUME Anew(x), x.post PROVE Body!Field(x) = u
    BY <1>1, <2>2, <2>3, <2>4, <2>5, Zenon
  <2>6. ~x.post /\ Anew(x) => Anew(req)
    BY <2>4, Zenon DEF Anew
  <2> QED
    BY <1>1, <1>2, <1>3, <1>5, <2>1, <2>2, <2>3, <2>4, <2>5, <2>6, Zenon
       DEF BodyInv, SameButForm, Unfiltered, Passed, Given
<1>6. CASE ~replaces
  <2>1. req' = req
    BY <1>3, <1>6, Zenon
  <2>2. ASSUME Anew(req), req.post PROVE Body!Field(req) = Given(ctxModel)
    <3>1. CASE req.ctype = "json"
      BY <1>1, <2>2, <3>1, Zenon
    <3>2. CASE req.ctype # "json"
      <4>1. Told(req) = ctxModel /\ Told(req) \notin {"", "error"}
        BY <1>1, <2>2, <3>2, Zenon
      <4>2. Body!Field(req) = ctxModel /\ req.ctype = "multipart"
        BY <1>4, <2>2, <3>2, <4>1, Zenon
      <4>3. Body!ExtractModel(req) = ctxModel
        BY <1>1, <2>2, <4>1, ReadsWhatIsTold, Zenon
      <4>4. u = ""
        BY <1>6, <4>2, <4>3, Zenon
      <4> QED
        BY <4>2, <4>4, Zenon DEF Given
    <3> QED
      BY <3>1, <3>2
  <2> QED
    BY <1>1, <1>2, <2>1, <2>2, Zenon DEF BodyInv, Unfiltered, Passed
<1> QED
  BY <1>5, <1>6, Zenon

LEMMA BodyStep == BodyInv /\ [Body!Next]_(Body!bodyVars) => BodyInv'
<1> SUFFICES ASSUME BodyInv, [Body!Next]_(Body!bodyVars) PROVE BodyInv'
  OBVIOUS
<1>1. CASE UNCHANGED Body!bodyVars
  BY <1>1, Zenon DEF Body!bodyVars, BodyInv
<1>2. ASSUME NEW r \in BodyRequests, Body!Arrives(r) PROVE BodyInv'
  BY <1>2, BodyArrives
<1>3. CASE Body!ServeTailcatHTTP
  BY <1>3, BodyIsChecked
<1>4. CASE Body!ContentType
  BY <1>4, BodyIsTyped
<1>5. CASE Body!ApplyProfile
  BY <1>5, BodyIsPinned
<1>6. CASE Body!Select
  BY <1>6, BodyIsSelected
<1>7. CASE Body!RequestContext
  BY <1>7, BodyIsRead
<1>8. CASE Body!Filter
  BY <1>8, BodyIsFiltered
<1>9. CASE Body!FormFilter
  BY <1>9, FormIsFiltered
<1> QED
  BY <1>1, <1>2, <1>3, <1>4, <1>5, <1>6, <1>7, <1>8, <1>9, Zenon DEF Body!Next

\* The name that profile and selector choose is the one in the context and, under the
\* name it is configured with, the one the upstream gets; the filters compose; and what
\* was checked for a Tailcat client is what is served.
THEOREM BodySound == Body!Spec => [](Body!BodiesAreSound)
<1>1. Body!Spec => []BodyInv
  BY BodyInitial, BodyStep, PTL DEF Body!Spec
<1> QED
  BY <1>1, BodyImplies, PTL

-----------------------------------------------------------------------------
(* Activity.                                                               *)

\* What Bytes is: that there is such a function is shown up to each number.
LEMMA BytesIs ==
  ASSUME NEW items, NEW order \in Seq(Nat), \A i \in DOMAIN order : items[order[i]].size \in Nat
  PROVE  LET sum == Act!Bytes(items, order)
         IN /\ sum = [n \in 0..Len(order) |->
                        IF n = 0 THEN 0 ELSE sum[n - 1] + items[order[n]].size]
            /\ \A n \in 0..Len(order) : sum[n] \in Nat
<1> DEFINE sum == Act!Bytes(items, order)
           IsSum(f, m) == f = [n \in 0..m |-> IF n = 0 THEN 0 ELSE f[n - 1] + items[order[n]].size]
           N == Len(order)
           T == {m \in 0..N : \E f : IsSum(f, m)}
<1>1. N \in Nat /\ DOMAIN order = 1..N
  OBVIOUS
<1>2. \E f : IsSum(f, 0)
  <2>1. IsSum([n \in 0..0 |-> 0], 0)
    OBVIOUS
  <2> QED
    BY <2>1
<1>3. ASSUME NEW m \in 0..(N - 1), \E f : IsSum(f, m) PROVE \E f : IsSum(f, m + 1)
  <2>1. PICK f : IsSum(f, m)
    BY <1>3
  <2> DEFINE g == [n \in 0..(m + 1) |-> IF n = m + 1 THEN f[m] + items[order[m + 1]].size ELSE f[n]]
  <2>2. ASSUME NEW n \in 0..(m + 1)
        PROVE  g[n] = IF n = 0 THEN 0 ELSE g[n - 1] + items[order[n]].size
    <3>1. CASE n = m + 1
      <4>1. m \in 0..(m + 1) /\ m # m + 1 /\ (m + 1) - 1 = m /\ m + 1 # 0 /\ m + 1 \in 0..(m + 1)
        OBVIOUS
      <4>2. g[m] = f[m] /\ g[m + 1] = f[m] + items[order[m + 1]].size
        BY <4>1
      <4> QED
        BY <3>1, <4>1, <4>2
    <3>2. CASE n # m + 1 /\ n # 0
      <4>1. n \in 0..m /\ n - 1 \in 0..(m + 1) /\ n - 1 # m + 1 /\ n \in 0..(m + 1)
        BY <3>2
      <4>2. g[n] = f[n] /\ g[n - 1] = f[n - 1]
        BY <3>2, <4>1
      <4>3. f[n] = f[n - 1] + items[order[n]].size
        BY <2>1, <3>2, <4>1
      <4> QED
        BY <3>2, <4>2, <4>3
    <3>3. CASE n = 0
      <4>1. 0 \in 0..(m + 1) /\ 0 # m + 1 /\ 0 \in 0..m
        OBVIOUS
      <4>2. f[0] = 0
        BY <2>1, <4>1
      <4> QED
        BY <3>3, <4>1, <4>2
    <3> QED
      BY <3>1, <3>2, <3>3
  <2>3. IsSum(g, m + 1)
    BY <2>2
  <2> QED
    BY <2>3
<1>4. 0 \in T /\ \A k \in 0..(N - 1) : k \in T => k + 1 \in T
  <2>1. 0 \in 0..N /\ \A k \in 0..(N - 1) : k + 1 \in 0..N
    BY <1>1
  <2> HIDE DEF IsSum, N
  <2> QED
    BY <1>2, <1>3, <2>1
<1>5. \E f : IsSum(f, N)
  <2>1. N \in 0..N
    BY <1>1
  <2>2. \A k \in 0..N : k \in T
    <3> HIDE DEF T, N
    <3> QED
      BY <1>1, <1>4, UpTo
  <2> QED
    BY <2>1, <2>2
<1>6. IsSum(sum, N)
  BY <1>5 DEF Act!Bytes
<1>7. \A n \in 0..N : sum[n] \in Nat
  <2> DEFINE Z == {n \in 0..N : sum[n] \in Nat}
  <2>1. 0 \in Z
    BY <1>1, <1>6
  <2>2. ASSUME NEW k \in 0..(N - 1), k \in Z PROVE k + 1 \in Z
    <3>1. k + 1 \in 0..N /\ k + 1 # 0 /\ (k + 1) - 1 = k /\ k + 1 \in DOMAIN order
      BY <1>1
    <3>2. sum[k + 1] = sum[k] + items[order[k + 1]].size
      BY <1>6, <3>1
    <3>3. items[order[k + 1]].size \in Nat
      BY <3>1
    <3> QED
      BY <2>2, <3>1, <3>2, <3>3
  <2>3. \A n \in 0..N : n \in Z
    <3> HIDE DEF Z, N
    <3> QED
      BY <1>1, <2>1, <2>2, UpTo
  <2> QED
    BY <2>3
<1> QED
  BY <1>6, <1>7

Sized(items, order) == order \in Seq(Nat) /\ \A i \in DOMAIN order : items[order[i]].size \in Nat
TailOf(rest, tail, items, order, n) ==
  /\ n \in 0..Len(order) /\ Len(tail) >= Len(order) - n
  /\ \A k \in 1..(Len(order) - n) : rest[tail[k]].size = items[order[n + k]].size

\* The bytes of what follows the first n entries.
LEMMA BytesAfter ==
  ASSUME NEW items, NEW order, Sized(items, order), NEW rest, NEW tail, Sized(rest, tail),
         NEW n, TailOf(rest, tail, items, order, n)
  PROVE  \A k \in 0..(Len(order) - n) :
           Act!Bytes(rest, tail)[k] + Act!Bytes(items, order)[n] = Act!Bytes(items, order)[n + k]
<1> DEFINE sum == Act!Bytes(items, order)
           part1 == Act!Bytes(rest, tail)
           L == Len(order) - n
           T == {k \in 0..L : part1[k] + sum[n] = sum[n + k]}
<1>1. Len(order) \in Nat /\ Len(tail) \in Nat /\ L \in Nat /\ n \in Nat /\ L <= Len(tail)
      /\ n <= Len(order) /\ n + L = Len(order)
  BY DEF Sized, TailOf
<1>2. /\ sum = [m \in 0..Len(order) |-> IF m = 0 THEN 0 ELSE sum[m - 1] + items[order[m]].size]
      /\ \A m \in 0..Len(order) : sum[m] \in Nat
  BY BytesIs, Zenon DEF Sized
<1>3. /\ part1 = [m \in 0..Len(tail) |-> IF m = 0 THEN 0 ELSE part1[m - 1] + rest[tail[m]].size]
      /\ \A m \in 0..Len(tail) : part1[m] \in Nat
  BY BytesIs, Zenon DEF Sized
<1>4. \A k \in 1..L : rest[tail[k]].size = items[order[n + k]].size /\ items[order[n + k]].size \in Nat
  <2>1. \A k \in 1..L : n + k \in DOMAIN order
    BY <1>1 DEF Sized
  <2> QED
    BY <2>1 DEF Sized, TailOf
<1> HIDE DEF sum, part1, L
<1>5. 0 \in T
  BY <1>1, <1>2, <1>3
<1>6. ASSUME NEW k \in 0..(L - 1), k \in T PROVE k + 1 \in T
  <2>1. /\ k + 1 \in 0..L /\ k + 1 \in 1..L /\ k + 1 \in 0..Len(tail) /\ k \in 0..Len(tail) /\ k + 1 # 0
        /\ (k + 1) - 1 = k
        /\ n + (k + 1) \in 0..Len(order) /\ n + k \in 0..Len(order) /\ n + (k + 1) # 0
        /\ (n + (k + 1)) - 1 = n + k /\ n \in 0..Len(order)
    BY <1>1
  <2>2. part1[k + 1] = part1[k] + rest[tail[k + 1]].size
    BY <1>3, <2>1
  <2>3. sum[n + (k + 1)] = sum[n + k] + items[order[n + (k + 1)]].size
    BY <1>2, <2>1
  <2>4. part1[k] \in Nat /\ sum[n] \in Nat /\ sum[n + k] \in Nat
    BY <1>2, <1>3, <2>1
  <2>5. rest[tail[k + 1]].size = items[order[n + (k + 1)]].size /\ items[order[n + (k + 1)]].size \in Nat
    BY <1>4, <2>1
  <2>6. part1[k] + sum[n] = sum[n + k]
    BY <1>6
  <2>7. part1[k + 1] + sum[n] = sum[n + (k + 1)]
    <3> DEFINE a == part1[k]
               b == sum[n]
               c == sum[n + k]
               d == items[order[n + (k + 1)]].size
               x == part1[k + 1]
               y == sum[n + (k + 1)]
    <3>1. a \in Nat /\ b \in Nat /\ c \in Nat /\ d \in Nat /\ a + b = c /\ x = a + d /\ y = c + d
      BY <2>2, <2>3, <2>4, <2>5, <2>6
    <3> HIDE DEF a, b, c, d, x, y
    <3>2. x + b = y
      BY <3>1
    <3> QED
      BY <3>2 DEF x, b, y
  <2> QED
    BY <2>1, <2>7
<1>7. \A k \in 0..L : k \in T
  <2> HIDE DEF T
  <2> QED
    BY <1>1, <1>5, <1>6, UpTo
<1> QED
  BY <1>7 DEF sum, part1, L

\* A cache: its order names what it holds, each once; its size is their sum and within
\* the bound.
CacheOK(c) ==
  /\ c.order \in Seq(Nat)
  /\ \A i, j \in DOMAIN c.order : c.order[i] = c.order[j] => i = j
  /\ {c.order[i] : i \in DOMAIN c.order} = DOMAIN c.items
  /\ \A id \in DOMAIN c.items : c.items[id].size \in Nat
  /\ c.size \in Nat /\ c.size <= CaptureBytes
  /\ c.size = Act!Bytes(c.items, c.order)[Len(c.order)]

LEMMA EmptyCacheOK == CacheOK(Act!EmptyCache) /\ DOMAIN Act!EmptyCache.items = {}
<1> DEFINE c == Act!EmptyCache
<1>1. c.order = <<>> /\ c.items = <<>> /\ c.size = 0
  BY DEF Act!EmptyCache
<1>2. <<>> \in Seq(Nat) /\ Len(<<>>) = 0 /\ DOMAIN <<>> = {} /\ 0 \in 0..0
  OBVIOUS
<1>3. LET sum == Act!Bytes(c.items, c.order)
      IN sum = [n \in 0..Len(c.order) |-> IF n = 0 THEN 0 ELSE sum[n - 1] + c.items[c.order[n]].size]
  <2>1. c.order \in Seq(Nat) /\ \A i \in DOMAIN c.order : c.items[c.order[i]].size \in Nat
    BY <1>1, <1>2
  <2> HIDE DEF c
  <2> QED
    BY <2>1, BytesIs, Zenon
<1>4. Act!Bytes(c.items, c.order)[Len(c.order)] = 0
  <2>1. 0 \in 0..Len(c.order) /\ Len(c.order) = 0
    BY <1>1, <1>2
  <2> QED
    BY <1>3, <2>1
<1>5. {c.order[i] : i \in DOMAIN c.order} = DOMAIN c.items
  BY <1>1, <1>2
<1> QED
  BY <1>1, <1>2, <1>4, <1>5, ActivityAssumption DEF CacheOK

\* Adding what is not there yet keeps the books, and the captures that stay.
LEMMA CacheAddKeeps ==
  ASSUME NEW c, CacheOK(c), NEW id \in Nat, id \notin DOMAIN c.items, NEW item, item.size \in Nat
  PROVE  LET new == Act!CacheAdd(c, id, item)
         IN /\ CacheOK(new)
            /\ \A i \in DOMAIN new.items :
                 \/ i = id /\ new.items[i] = item
                 \/ i \in DOMAIN c.items /\ new.items[i] = c.items[i]
<1> DEFINE order == c.order
           N == Len(order)
           freed == Act!Bytes(c.items, order)
           S == {k \in 0..N : c.size - freed[k] + item.size <= CaptureBytes \/ k = N}
           n == Act!Min(S)
           kept == SubSeq(order, n + 1, N)
           items == [i \in {kept[k] : k \in DOMAIN kept} \union {id} |->
                       IF i = id THEN item ELSE c.items[i]]
           new == Act!CacheAdd(c, id, item)
<1>1. CASE item.size > CaptureBytes
  <2>1. new = c
    BY <1>1 DEF Act!CacheAdd
  <2> QED
    BY <2>1, Zenon
<1>2. CASE ~(item.size > CaptureBytes)
  <2>1. new = [items |-> items, order |-> Append(kept, id), size |-> c.size - freed[n] + item.size]
    <3>1. Act!Without(c, id) = c
      BY DEF Act!Without, Act!Has
    <3>2. new = Act!Put(c, id, item)
      BY <1>2, <3>1, Zenon DEF Act!CacheAdd
    <3> HIDE DEF new
    <3> QED
      BY <3>2, Zenon DEF Act!Put
  <2>2. N \in Nat /\ DOMAIN order = 1..N /\ order \in Seq(Nat) /\ CaptureBytes \in Nat /\ c.size \in Nat
    BY ActivityAssumption DEF CacheOK
  <2>3. \A i \in DOMAIN order : order[i] \in Nat /\ order[i] \in DOMAIN c.items /\ c.items[order[i]].size \in Nat
    BY DEF CacheOK
  <2>4. \A k \in 0..N : freed[k] \in Nat
    <3> HIDE DEF order, N
    <3> QED
      BY <2>2, <2>3, BytesIs, Zenon DEF N
  <2>5. c.size = freed[N]
    BY DEF CacheOK
  <2>6. n \in S
    <3>1. S \subseteq Nat /\ S # {}
      <4>1. N \in S
        BY <2>2
      <4> QED
        BY <2>2, <4>1
    <3>2. PICK p \in S : \A o \in S : ~(o < p)
      <4> HIDE DEF S
      <4> QED
        BY <3>1, LeastNumber
    <3>3. \A o \in S : p <= o
      BY <3>1, <3>2
    <3> HIDE DEF S
    <3> QED
      BY <3>3 DEF Act!Min
  <2>7. n \in 0..N /\ (c.size - freed[n] + item.size <= CaptureBytes \/ n = N)
    BY <2>6
  <2> HIDE DEF n, S
  <2>8. kept \in Seq(Nat) /\ Len(kept) = N - n /\ \A k \in 1..(N - n) : kept[k] = order[n + k]
    <3>1. \A i \in (n + 1)..N : order[i] \in Nat
      BY <2>2, <2>3, <2>7
    <3>2. /\ kept \in Seq(Nat)
          /\ Len(kept) = IF n + 1 <= N THEN N - (n + 1) + 1 ELSE 0
          /\ \A i \in 1..(N - (n + 1) + 1) : kept[i] = order[(n + 1) + i - 1]
      <4>1. n + 1 \in Int /\ N \in Int
        BY <2>2, <2>7
      <4> HIDE DEF order, N
      <4> QED
        BY <3>1, <4>1, SubSeqProperties
    <3>3. N - (n + 1) + 1 = N - n /\ (~(n + 1 <= N) => N - n = 0)
      BY <2>2, <2>7
    <3>4. \A i \in 1..(N - n) : (n + 1) + i - 1 = n + i
      BY <2>2, <2>7
    <3> QED
      BY <3>2, <3>3, <3>4
  <2> HIDE DEF kept
  <2> DEFINE tail == Append(kept, id)
  <2>9. /\ tail \in Seq(Nat) /\ Len(tail) = N - n + 1 /\ DOMAIN tail = 1..(N - n + 1)
        /\ \A k \in 1..(N - n) : tail[k] = order[n + k]
        /\ tail[N - n + 1] = id
    BY <2>8, AppendProperties
  <2> HIDE DEF tail
  <2>10. \A k \in 1..(N - n) : n + k \in DOMAIN order
    BY <2>2, <2>7
  <2>11. \A k \in DOMAIN tail : k \in 1..(N - n) \/ k = N - n + 1
    BY <2>2, <2>7, <2>9
  <2>12. ASSUME NEW k \in 1..(N - n) PROVE order[n + k] # id
    <3>1. n + k \in DOMAIN order
      BY <2>10
    <3>2. order[n + k] \in DOMAIN c.items
      BY <2>3, <3>1
    <3> QED
      BY <3>2
  <2>13. N - n \in Nat /\ DOMAIN kept = 1..(N - n) /\ \A k \in 1..(N - n) : k \in 1..(N - n + 1)
         /\ N - n + 1 \in 1..(N - n + 1)
    <3>1. N - n \in Nat
      BY <2>2, <2>7
    <3>2. DOMAIN kept = 1..Len(kept)
      BY <2>8
    <3>3. \A m \in Nat : m + 1 \in 1..(m + 1) /\ \A k \in 1..m : k \in 1..(m + 1)
      OBVIOUS
    <3> QED
      BY <2>8, <3>1, <3>2, <3>3, Zenon
  <2>14. DOMAIN items = {order[n + k] : k \in 1..(N - n)} \union {id}
    BY <2>8, <2>13
  <2>15. items[id] = item /\ \A k \in 1..(N - n) : items[order[n + k]] = c.items[order[n + k]]
    <3>1. \A i \in DOMAIN items : items[i] = IF i = id THEN item ELSE c.items[i]
      OBVIOUS
    <3> HIDE DEF items
    <3> QED
      BY <2>12, <2>14, <3>1
  <2> HIDE DEF items
  <2>16. {tail[k] : k \in DOMAIN tail} = DOMAIN items
    <3>1. \A k \in DOMAIN tail : tail[k] \in DOMAIN items
      BY <2>9, <2>11, <2>14
    <3>2. \A k \in 1..(N - n) : k \in DOMAIN tail /\ tail[k] = order[n + k]
      BY <2>9, <2>13
    <3>3. N - n + 1 \in DOMAIN tail /\ tail[N - n + 1] = id
      BY <2>9, <2>13
    <3> QED
      BY <2>14, <3>1, <3>2, <3>3
  <2>17. ASSUME NEW i \in DOMAIN tail, NEW j \in DOMAIN tail, tail[i] = tail[j] PROVE i = j
    <3>1. \A k, l \in DOMAIN order : order[k] = order[l] => k = l
      BY DEF CacheOK
    <3>2. CASE i \in 1..(N - n) /\ j \in 1..(N - n)
      <4>1. order[n + i] = order[n + j] /\ n + i \in DOMAIN order /\ n + j \in DOMAIN order
        BY <2>9, <2>10, <2>17, <3>2
      <4>2. n + i = n + j
        BY <3>1, <4>1
      <4> QED
        BY <2>2, <2>7, <3>2, <4>2
    <3> QED
      BY <2>9, <2>11, <2>12, <2>17, <3>2
  <2>18. \A i \in DOMAIN items : items[i].size \in Nat
    BY <2>3, <2>10, <2>14, <2>15
  <2>19. Act!Bytes(items, tail)[N - n + 1] = c.size - freed[n] + item.size
    <3>1. \A i \in DOMAIN tail : items[tail[i]].size \in Nat
      BY <2>16, <2>18
    <3>2. \A k \in 1..(N - n) : items[tail[k]].size = c.items[order[n + k]].size
      BY <2>9, <2>15
    <3>3. Act!Bytes(items, tail)[N - n] + freed[n] = freed[n + (N - n)]
      <4>1. N - n \in 0..(N - n)
        BY <2>13
      <4>2. Sized(c.items, order)
        BY <2>2, <2>3 DEF Sized
      <4>3. Sized(items, tail)
        BY <2>9, <3>1 DEF Sized
      <4>4. TailOf(items, tail, c.items, order, n)
        <5>1. Len(tail) >= N - n
          BY <2>9, <2>13
        <5> QED
          BY <2>7, <3>2, <5>1 DEF TailOf
      <4>5. \A k \in 0..(Len(order) - n) :
              Act!Bytes(items, tail)[k] + Act!Bytes(c.items, order)[n] = Act!Bytes(c.items, order)[n + k]
        BY <4>2, <4>3, <4>4, BytesAfter
      <4> QED
        BY <4>1, <4>5, Zenon
    <3> DEFINE B == Act!Bytes(items, tail)
    <3>4. /\ B = [m \in 0..Len(tail) |-> IF m = 0 THEN 0 ELSE B[m - 1] + items[tail[m]].size]
          /\ \A m \in 0..Len(tail) : B[m] \in Nat
      BY <2>9, <3>1, BytesIs, Zenon
    <3> HIDE DEF B
    <3>5. B[N - n + 1] = B[N - n] + item.size
      <4>1. N - n + 1 \in 0..Len(tail) /\ N - n + 1 # 0 /\ (N - n + 1) - 1 = N - n
        BY <2>9, <2>13
      <4>2. B[N - n + 1] = B[N - n] + items[tail[N - n + 1]].size
        BY <3>4, <4>1
      <4>3. tail[N - n + 1] = id /\ items[id] = item
        BY <2>9, <2>15, Zenon
      <4>4. items[tail[N - n + 1]].size = item.size
        BY <4>3
      <4> QED
        BY <4>2, <4>4, Zenon
    <3>6. n + (N - n) = N /\ N - n \in 0..Len(tail)
      <4> HIDE DEF N
      <4> QED
        BY <2>2, <2>7, <2>9
    <3> DEFINE a == B[N - n]
               b == freed[n]
               d == freed[N]
               x == B[N - n + 1]
    <3>7. b \in Nat /\ d \in Nat /\ a \in Nat /\ a + b = d /\ x = a + item.size /\ c.size = d
      <4>1. n \in 0..N /\ N \in 0..N
        BY <2>2, <2>7
      <4>2. b \in Nat /\ d \in Nat
        BY <2>4, <4>1, Zenon
      <4>3. a \in Nat
        BY <3>4, <3>6, Zenon
      <4>4. a + b = d
        BY <3>3, <3>6, Zenon DEF B
      <4> QED
        BY <2>5, <3>5, <4>2, <4>3, <4>4, Zenon
    <3> HIDE DEF a, b, d, x
    <3>8. x = c.size - b + item.size
      BY <3>7
    <3> QED
      BY <3>8, Zenon DEF x, b, B
  <2>20. c.size - freed[n] + item.size \in Nat /\ c.size - freed[n] + item.size <= CaptureBytes
    <3>1. Act!Bytes(items, tail)[N - n + 1] \in Nat
      <4>1. \A i \in DOMAIN tail : items[tail[i]].size \in Nat
        BY <2>16, <2>18
      <4>2. N - n + 1 \in 0..Len(tail)
        BY <2>9, <2>13
      <4> QED
        BY <2>9, <4>1, <4>2, BytesIs, Zenon
    <3>2. freed[n] \in Nat /\ freed[N] \in Nat
      BY <2>2, <2>4, <2>7
    <3> HIDE DEF freed
    <3>3. n = N => c.size - freed[n] + item.size = item.size
      BY <2>5, <3>2
    <3> QED
      BY <1>2, <2>2, <2>7, <2>19, <3>1, <3>3
  <2>21. new.items = items /\ new.order = tail /\ new.size = c.size - freed[n] + item.size
    BY <2>1 DEF tail
  <2> HIDE DEF new, freed
  <2>22. CacheOK(new)
    BY <2>9, <2>16, <2>17, <2>18, <2>19, <2>20, <2>21 DEF CacheOK
  <2>23. \A i \in DOMAIN items : \/ i = id /\ items[i] = item
                                 \/ i \in DOMAIN c.items /\ items[i] = c.items[i]
    BY <2>3, <2>10, <2>14, <2>15
  <2> QED
    BY <2>21, <2>22, <2>23, Zenon DEF new
<1> QED
  BY <1>1, <1>2

RecordPlaces == {"none", "handled", "inserted", "stored", "over"}
StoreFor(q) == storeOf[record[q].srv]
Pruners(s) == {q \in Metered : record[q].at = "inserted" /\ StoreFor(q) = s}

ActTypes ==
  /\ era \in Act!Eras
  /\ storeOf \in [Act!Eras -> Act!Eras]
  /\ lastId \in [Act!Eras -> Nat]
  /\ inMemory \subseteq Act!Eras
  /\ record \in [Metered -> [at : RecordPlaces, srv : Nat, id : Nat]]
  /\ rows \in [Act!Eras -> SUBSET [id : Nat, of : Metered]]
  /\ captures = [e \in Act!Eras |-> captures[e]]

\* Whoever is under way has a server; an id is of one record in its store.
RecordsOwn ==
  \A q \in Metered :
    /\ record[q].at # "none" => record[q].srv \in 1..era
    /\ record[q].at \in {"inserted", "stored"} => record[q].id # 0
    /\ record[q].at \in {"none", "handled"} => record[q].id = 0
    /\ record[q].id # 0 =>
         /\ record[q].id <= lastId[StoreFor(q)]
         /\ \A p \in Metered : record[p].id = record[q].id /\ StoreFor(p) = StoreFor(q) => p = q

\* A row has the id of the record it is of, and is in that record's store.
RowsOwn ==
  \A s \in Act!Eras : \A r \in rows[s] :
    r.id # 0 /\ record[r.of].id = r.id /\ StoreFor(r.of) = s

\* A capture is kept by the server of its record, under the record's id.
CapturesOwn ==
  \A e \in Act!Eras : \A id \in DOMAIN captures[e].items :
    LET q == captures[e].items[id].of
    IN q \in Metered /\ record[q].at = "over" /\ record[q].srv = e /\ record[q].id = id /\ id # 0

CachesOK == \A e \in Act!Eras : CacheOK(captures[e])

\* The rows of a store in memory are the last ones without a gap: all of them, or
\* MaxMetrics at least, and no more than that but for those who have still to prune.
RowsNewest ==
  \A s \in inMemory : \E low \in 0..lastId[s] :
    /\ {r.id : r \in rows[s]} = (low + 1)..lastId[s]
    /\ low > 0 => lastId[s] - low >= MaxMetrics
    /\ s \notin shut => lastId[s] - low <= MaxMetrics + Cardinality(Pruners(s))

ActInv == ActTypes /\ RecordsOwn /\ RowsOwn /\ CapturesOwn /\ CachesOK /\ RowsNewest

LEMMA ActStarts == Act!Init => ActInv
<1> SUFFICES ASSUME Act!Init PROVE ActInv
  OBVIOUS
<1>1. /\ rows = [s \in Act!Eras |-> {}] /\ lastId = [s \in Act!Eras |-> 0]
      /\ inMemory \subseteq Act!Eras
      /\ captures = [e \in Act!Eras |-> Act!EmptyCache]
      /\ era = 1 /\ storeOf = [e \in Act!Eras |-> 1] /\ shut = {}
      /\ record = [q \in Metered |-> [at |-> "none", srv |-> 0, id |-> 0]]
  BY Zenon DEF Act!Init, Act!None
<1>2. Act!Eras = 1..Monitors /\ 1 \in Act!Eras
  BY ActivityAssumption DEF Act!Eras
<1>3. ActTypes
  <2>1. captures = [e \in Act!Eras |-> captures[e]]
    BY <1>1, Zenon
  <2>2. rows \in [Act!Eras -> SUBSET [id : Nat, of : Metered]]
    BY <1>1
  <2>3. record \in [Metered -> [at : RecordPlaces, srv : Nat, id : Nat]]
    BY <1>1 DEF RecordPlaces
  <2> QED
    BY <1>1, <1>2, <2>1, <2>2, <2>3 DEF ActTypes
<1>4. RecordsOwn
  BY <1>1 DEF RecordsOwn
<1>5. RowsOwn
  BY <1>1 DEF RowsOwn
<1>6. CapturesOwn /\ CachesOK
  BY <1>1, EmptyCacheOK DEF CapturesOwn, CachesOK
<1>7. RowsNewest
  <2> SUFFICES ASSUME NEW s \in inMemory
               PROVE  \E low \in 0..lastId[s] :
                        /\ {r.id : r \in rows[s]} = (low + 1)..lastId[s]
                        /\ low > 0 => lastId[s] - low >= MaxMetrics
                        /\ s \notin shut => lastId[s] - low <= MaxMetrics + Cardinality(Pruners(s))
    BY DEF RowsNewest
  <2>1. Cardinality(Pruners(s)) = 0
    <3>1. Pruners(s) = {}
      BY <1>1 DEF Pruners
    <3> QED
      BY <3>1, FS_EmptySet
  <2>2. lastId[s] = 0 /\ rows[s] = {}
    BY <1>1
  <2>3. {r.id : r \in rows[s]} = (0 + 1)..0
    BY <2>2
  <2>4. 0 \in 0..lastId[s] /\ lastId[s] - 0 <= MaxMetrics + Cardinality(Pruners(s))
    BY <2>1, <2>2, ActivityAssumption
  <2> QED
    BY <2>2, <2>3, <2>4
<1> QED
  BY <1>3, <1>4, <1>5, <1>6, <1>7 DEF ActInv

\* A step that changes no row, no shut store and no pruner leaves the rows newest.
LEMMA RowsStay ==
  ASSUME RowsNewest, UNCHANGED <<rows, lastId, inMemory>>, shut \subseteq shut',
         \A s \in inMemory : Pruners(s)' = Pruners(s)
  PROVE  RowsNewest'
<1> SUFFICES ASSUME NEW s \in inMemory
             PROVE  \E low \in 0..lastId'[s] :
                      /\ {r.id : r \in rows'[s]} = (low + 1)..lastId'[s]
                      /\ low > 0 => lastId'[s] - low >= MaxMetrics
                      /\ s \notin shut' => lastId'[s] - low <= MaxMetrics + Cardinality(Pruners(s)')
  BY DEF RowsNewest
<1>1. PICK low \in 0..lastId[s] :
         /\ {r.id : r \in rows[s]} = (low + 1)..lastId[s]
         /\ low > 0 => lastId[s] - low >= MaxMetrics
         /\ s \notin shut => lastId[s] - low <= MaxMetrics + Cardinality(Pruners(s))
  BY DEF RowsNewest
<1> QED
  BY <1>1

\* Pruners are finitely many.
LEMMA PrunersFinite == ASSUME NEW s PROVE IsFiniteSet(Pruners(s)) /\ Cardinality(Pruners(s)) \in Nat
<1>1. Pruners(s) \subseteq Metered /\ IsFiniteSet(Metered)
  BY ActivityAssumption DEF Pruners
<1> QED
  BY <1>1, FS_Subset, FS_CardinalityType

LEMMA HandleKeeps == ASSUME ActInv, NEW q \in Metered, Act!Handle(q) PROVE ActInv'
<1>1. /\ record[q].at = "none"
      /\ record' = [record EXCEPT ![q] = [at |-> "handled", srv |-> era, id |-> 0]]
      /\ UNCHANGED <<rows, lastId, inMemory, captures, era, storeOf, shut>>
  BY Zenon DEF Act!Handle, Act!storeVars, Act!serverVars, Act!None
<1>2. ActTypes
  BY DEF ActInv
<1>3. era \in Nat /\ era \in 1..era
  BY <1>2, ActivityAssumption DEF ActTypes, Act!Eras
<1>4. /\ record'[q].at = "handled" /\ record'[q].srv = era /\ record'[q].id = 0
      /\ \A p \in Metered : p # q => record'[p] = record[p]
      /\ record[q].id = 0
  BY <1>1, <1>2 DEF ActTypes, ActInv, RecordsOwn
<1>5. ActTypes'
  <2>1. record' \in [Metered -> [at : RecordPlaces, srv : Nat, id : Nat]]
    BY <1>1, <1>2, <1>3 DEF ActTypes, RecordPlaces
  <2> QED
    BY <1>1, <1>2, <2>1 DEF ActTypes
<1>6. RecordsOwn'
  BY <1>1, <1>3, <1>4 DEF ActInv, RecordsOwn, StoreFor
<1>7. RowsOwn'
  BY <1>1, <1>2, <1>4 DEF ActInv, RowsOwn, StoreFor, ActTypes
<1>8. CapturesOwn' /\ CachesOK'
  BY <1>1, <1>4 DEF ActInv, CapturesOwn, CachesOK
<1>9. RowsNewest'
  <2>1. \A s \in inMemory : Pruners(s)' = Pruners(s)
    BY <1>1, <1>4 DEF Pruners, StoreFor
  <2> QED
    BY <1>1, <2>1, RowsStay DEF ActInv
<1> QED
  BY <1>5, <1>6, <1>7, <1>8, <1>9 DEF ActInv

LEMMA InsertKeeps == ASSUME ActInv, NEW q \in Metered, Act!Insert(q) PROVE ActInv'
<1> DEFINE s == StoreFor(q)
           place == IF s \in inMemory THEN "inserted" ELSE "stored"
<1>1. /\ record[q].at = "handled" /\ UNCHANGED <<inMemory, captures, era, storeOf, shut>>
      /\ \/ /\ s \notin shut
            /\ lastId' = [lastId EXCEPT ![s] = @ + 1]
            /\ rows' = [rows EXCEPT ![s] = @ \union {[id |-> lastId[s] + 1, of |-> q]}]
            /\ record' = [record EXCEPT ![q].at = place, ![q].id = lastId[s] + 1]
         \/ /\ record' = [record EXCEPT ![q].at = "over"]
            /\ UNCHANGED <<rows, lastId>>
  BY Zenon DEF Act!Insert, Act!serverVars, StoreFor
<1>2. ActTypes /\ RecordsOwn /\ RowsOwn /\ CapturesOwn /\ CachesOK /\ RowsNewest
  BY DEF ActInv
<1>3. /\ record[q].srv \in 1..era /\ era \in Act!Eras /\ s \in Act!Eras /\ record[q].id = 0
      /\ lastId[s] \in Nat
  <2>1. record[q].srv \in 1..era /\ record[q].id = 0
    BY <1>1, <1>2 DEF RecordsOwn
  <2>2. record[q].srv \in Act!Eras
    BY <1>2, <2>1, ActivityAssumption DEF ActTypes, Act!Eras
  <2> QED
    BY <1>2, <2>1, <2>2 DEF ActTypes, StoreFor
<1> HIDE DEF s
<1>4. CASE /\ s \notin shut
           /\ lastId' = [lastId EXCEPT ![s] = @ + 1]
           /\ rows' = [rows EXCEPT ![s] = @ \union {[id |-> lastId[s] + 1, of |-> q]}]
           /\ record' = [record EXCEPT ![q].at = place, ![q].id = lastId[s] + 1]
  <2> DEFINE n == lastId[s] + 1
  <2>1. /\ record'[q].at = place /\ record'[q].srv = record[q].srv /\ record'[q].id = n
        /\ \A p \in Metered : p # q => record'[p] = record[p]
    BY <1>2, <1>4 DEF ActTypes
  <2>2. /\ lastId'[s] = n /\ \A t \in Act!Eras : t # s => lastId'[t] = lastId[t]
        /\ n \in Nat /\ n # 0 /\ n > lastId[s] /\ lastId' \in [Act!Eras -> Nat]
    BY <1>2, <1>3, <1>4 DEF ActTypes
  <2>3. /\ rows'[s] = rows[s] \union {[id |-> n, of |-> q]}
        /\ \A t \in Act!Eras : t # s => rows'[t] = rows[t]
    BY <1>2, <1>3, <1>4 DEF ActTypes
  <2>4. place \in {"inserted", "stored"} /\ place \in RecordPlaces
    BY DEF RecordPlaces
  <2> HIDE DEF n, place
  <2>5. /\ StoreFor(q)' = s /\ \A p \in Metered : p # q => StoreFor(p)' = StoreFor(p)
    BY <1>1, <2>1 DEF StoreFor, s
  <2>6. ActTypes'
    <3>1. record' \in [Metered -> [at : RecordPlaces, srv : Nat, id : Nat]]
      <4>1. record' = [p \in Metered |-> record'[p]]
        BY <1>2, <1>4 DEF ActTypes
      <4>2. \A p \in Metered : record'[p] \in [at : RecordPlaces, srv : Nat, id : Nat]
        <5>1. record[q] \in [at : RecordPlaces, srv : Nat, id : Nat]
          BY <1>2 DEF ActTypes
        <5>2. record'[q] = [record[q] EXCEPT !.at = place, !.id = n]
          BY <1>2, <1>4 DEF ActTypes, n
        <5>3. record'[q] \in [at : RecordPlaces, srv : Nat, id : Nat]
          BY <2>2, <2>4, <5>1, <5>2
        <5> QED
          BY <1>2, <2>1, <5>3 DEF ActTypes
      <4> QED
        BY <4>1, <4>2, Zenon
    <3>2. rows' \in [Act!Eras -> SUBSET [id : Nat, of : Metered]]
      <4>1. [id |-> n, of |-> q] \in [id : Nat, of : Metered]
        BY <2>2
      <4>2. rows' = [rows EXCEPT ![s] = @ \union {[id |-> n, of |-> q]}]
        BY <1>4 DEF n
      <4> QED
        BY <1>2, <1>3, <4>1, <4>2 DEF ActTypes
    <3> QED
      BY <1>1, <1>2, <2>2, <3>1, <3>2 DEF ActTypes
  <2>7. RecordsOwn'
    <3> SUFFICES ASSUME NEW p \in Metered
                 PROVE  /\ record'[p].at # "none" => record'[p].srv \in 1..era
                        /\ record'[p].at \in {"inserted", "stored"} => record'[p].id # 0
                        /\ record'[p].at \in {"none", "handled"} => record'[p].id = 0
                        /\ record'[p].id # 0 =>
                             /\ record'[p].id <= lastId'[StoreFor(p)']
                             /\ \A o \in Metered : record'[o].id = record'[p].id /\ StoreFor(o)' = StoreFor(p)' => o = p
      BY <1>1 DEF RecordsOwn
    <3>1. \A o \in Metered : record[o].id # 0 =>
            record[o].id <= lastId[StoreFor(o)] /\ record[o].id \in Nat /\ lastId[StoreFor(o)] \in Nat
            /\ StoreFor(o) \in Act!Eras
      <4> SUFFICES ASSUME NEW o \in Metered, record[o].id # 0
                   PROVE  record[o].id <= lastId[StoreFor(o)] /\ record[o].id \in Nat
                          /\ lastId[StoreFor(o)] \in Nat /\ StoreFor(o) \in Act!Eras
        OBVIOUS
      <4>1. record[o].at # "none" /\ record[o].id <= lastId[StoreFor(o)]
        BY <1>2 DEF RecordsOwn
      <4>2. record[o].srv \in Act!Eras
        BY <1>2, <4>1, ActivityAssumption DEF RecordsOwn, ActTypes, Act!Eras
      <4> QED
        BY <1>2, <4>1, <4>2 DEF ActTypes, StoreFor
    <3>2. \A o \in Metered : o # q /\ record[o].id # 0 /\ StoreFor(o) = s => record[o].id # n
      BY <1>3, <2>2, <3>1
    <3>3. CASE p = q
      BY <1>3, <2>1, <2>2, <2>4, <2>5, <3>2, <3>3
    <3>4. CASE p # q
      <4>1. /\ record[p].at # "none" => record[p].srv \in 1..era
            /\ record[p].at \in {"inserted", "stored"} => record[p].id # 0
            /\ record[p].at \in {"none", "handled"} => record[p].id = 0
            /\ record[p].id # 0 =>
                 \A o \in Metered : record[o].id = record[p].id /\ StoreFor(o) = StoreFor(p) => o = p
        BY <1>2 DEF RecordsOwn
      <4>2. record[p].id # 0 => record[p].id <= lastId'[StoreFor(p)]
        BY <1>3, <2>2, <3>1
      <4> QED
        BY <2>1, <2>5, <3>2, <3>4, <4>1, <4>2
    <3> QED
      BY <3>3, <3>4
  <2>8. RowsOwn'
    <3> SUFFICES ASSUME NEW t \in Act!Eras, NEW r \in rows'[t]
                 PROVE  r.id # 0 /\ record'[r.of].id = r.id /\ StoreFor(r.of)' = t
      BY DEF RowsOwn, StoreFor
    <3>1. CASE r \in rows[t]
      <4>1. r.id # 0 /\ record[r.of].id = r.id /\ StoreFor(r.of) = t /\ r.of \in Metered
        BY <1>2, <3>1 DEF RowsOwn, ActTypes
      <4>2. r.of # q
        BY <1>3, <4>1
      <4> QED
        BY <2>1, <2>5, <4>1, <4>2
    <3>2. CASE t = s /\ r = [id |-> n, of |-> q]
      BY <2>1, <2>2, <2>5, <3>2
    <3> QED
      BY <2>3, <3>1, <3>2
  <2>9. CapturesOwn' /\ CachesOK'
    <3>1. \A p \in Metered : record[p].at = "over" => record'[p] = record[p]
      BY <1>1, <2>1
    <3> QED
      BY <1>1, <1>2, <3>1 DEF CapturesOwn, CachesOK
  <2>10. RowsNewest'
    <3> SUFFICES ASSUME NEW t \in inMemory
                 PROVE  \E low \in 0..lastId'[t] :
                          /\ {r.id : r \in rows'[t]} = (low + 1)..lastId'[t]
                          /\ low > 0 => lastId'[t] - low >= MaxMetrics
                          /\ t \notin shut => lastId'[t] - low <= MaxMetrics + Cardinality(Pruners(t)')
      BY <1>1 DEF RowsNewest
    <3>1. PICK low \in 0..lastId[t] :
             /\ {r.id : r \in rows[t]} = (low + 1)..lastId[t]
             /\ low > 0 => lastId[t] - low >= MaxMetrics
             /\ t \notin shut => lastId[t] - low <= MaxMetrics + Cardinality(Pruners(t))
      BY <1>2 DEF RowsNewest
    <3>2. t \in Act!Eras /\ lastId[t] \in Nat
      BY <1>2 DEF ActTypes
    <3>3. CASE t # s
      <4>1. Pruners(t)' = Pruners(t)
        BY <1>1, <2>1, <2>5, <3>3 DEF Pruners, s
      <4> QED
        BY <2>2, <2>3, <3>1, <3>2, <3>3, <4>1
    <3>4. CASE t = s
      <4>1. Pruners(t)' = Pruners(t) \union {q}
        <5>1. place = "inserted"
          BY <3>4 DEF place
        <5> QED
          BY <1>1, <2>1, <2>5, <3>4, <5>1 DEF Pruners
      <4>2. q \notin Pruners(t)
        BY <1>1 DEF Pruners
      <4>3. Cardinality(Pruners(t)') = Cardinality(Pruners(t)) + 1 /\ Cardinality(Pruners(t)) \in Nat
        BY <4>1, <4>2, PrunersFinite, FS_AddElement
      <4>4. {r.id : r \in rows'[t]} = {r.id : r \in rows[t]} \union {n}
        <5> DEFINE new == [id |-> n, of |-> q]
        <5>1. new.id = n /\ rows'[t] = rows[t] \union {new}
          BY <2>3, <3>4
        <5> HIDE DEF new
        <5> QED
          BY <5>1
      <4>5. lastId[t] = lastId[s] /\ lastId'[t] = n /\ n = lastId[t] + 1
        BY <2>2, <3>4 DEF n
      <4>6. {r.id : r \in rows'[t]} = (low + 1)..n
        <5>1. (low + 1)..n = ((low + 1)..lastId[t]) \union {n}
          BY <3>1, <3>2, <4>5
        <5> QED
          BY <3>1, <4>4, <5>1
      <4>7. low \in 0..n /\ (low > 0 => n - low >= MaxMetrics)
        BY <3>1, <3>2, <4>5, ActivityAssumption
      <4>8. t \notin shut => n - low <= MaxMetrics + Cardinality(Pruners(t)')
        BY <3>1, <3>2, <4>3, <4>5, ActivityAssumption
      <4> QED
        BY <4>5, <4>6, <4>7, <4>8
    <3> QED
      BY <3>3, <3>4
  <2> QED
    BY <2>6, <2>7, <2>8, <2>9, <2>10 DEF ActInv
<1>5. CASE record' = [record EXCEPT ![q].at = "over"] /\ UNCHANGED <<rows, lastId>>
  <2>1. /\ record'[q].at = "over" /\ record'[q].srv = record[q].srv /\ record'[q].id = record[q].id
        /\ \A p \in Metered : p # q => record'[p] = record[p]
    BY <1>2, <1>5 DEF ActTypes
  <2>2. \A p \in Metered : StoreFor(p)' = StoreFor(p) /\ record'[p].id = record[p].id
    BY <1>1, <2>1 DEF StoreFor
  <2>3. ActTypes'
    <3>1. record' \in [Metered -> [at : RecordPlaces, srv : Nat, id : Nat]]
      BY <1>2, <1>5 DEF ActTypes, RecordPlaces
    <3> QED
      BY <1>1, <1>2, <1>5, <3>1 DEF ActTypes
  <2>4. RecordsOwn'
    BY <1>1, <1>2, <1>3, <1>5, <2>1, <2>2 DEF RecordsOwn
  <2>5. RowsOwn'
    BY <1>2, <1>5, <2>2 DEF RowsOwn, ActTypes
  <2>6. CapturesOwn' /\ CachesOK'
    BY <1>1, <1>2, <2>1 DEF CapturesOwn, CachesOK
  <2>7. RowsNewest'
    <3>1. \A t \in inMemory : Pruners(t)' = Pruners(t)
      BY <1>1, <2>1, <2>2 DEF Pruners
    <3> QED
      BY <1>1, <1>2, <1>5, <3>1, RowsStay
  <2> QED
    BY <2>3, <2>4, <2>5, <2>6, <2>7 DEF ActInv
<1> QED
  BY <1>1, <1>4, <1>5

LEMMA PruneKeeps == ASSUME ActInv, NEW q \in Metered, Act!Prune(q) PROVE ActInv'
<1> DEFINE s == StoreFor(q)
<1>1. /\ record[q].at = "inserted"
      /\ rows' = [rows EXCEPT ![s] = IF s \in shut THEN @ ELSE Act!PruneTo(@, MaxMetrics)]
      /\ record' = [record EXCEPT ![q].at = "stored"]
      /\ UNCHANGED <<lastId, inMemory, captures, era, storeOf, shut>>
  BY Zenon DEF Act!Prune, Act!serverVars, StoreFor
<1>2. ActTypes /\ RecordsOwn /\ RowsOwn /\ CapturesOwn /\ CachesOK /\ RowsNewest
  BY DEF ActInv
<1>3. s \in Act!Eras
  <2>1. record[q].srv \in 1..era
    BY <1>1, <1>2 DEF RecordsOwn
  <2>2. record[q].srv \in Act!Eras
    BY <1>2, <2>1, ActivityAssumption DEF ActTypes, Act!Eras
  <2> QED
    BY <1>2, <2>1, <2>2 DEF ActTypes, StoreFor
<1> HIDE DEF s
<1>4. /\ record'[q].at = "stored" /\ record'[q].srv = record[q].srv /\ record'[q].id = record[q].id
      /\ \A p \in Metered : p # q => record'[p] = record[p]
  BY <1>1, <1>2 DEF ActTypes
<1>5. \A p \in Metered : StoreFor(p)' = StoreFor(p) /\ record'[p].id = record[p].id
                         /\ record'[p].srv = record[p].srv
  BY <1>1, <1>4 DEF StoreFor
<1>6. /\ rows'[s] = IF s \in shut THEN rows[s] ELSE Act!PruneTo(rows[s], MaxMetrics)
      /\ \A t \in Act!Eras : t # s => rows'[t] = rows[t]
      /\ \A t \in Act!Eras : rows'[t] \subseteq rows[t]
  <2>1. Act!PruneTo(rows[s], MaxMetrics) \subseteq rows[s]
    BY DEF Act!PruneTo
  <2> QED
    BY <1>1, <1>2, <1>3, <2>1 DEF ActTypes
<1>7. ActTypes'
  <2>1. record' \in [Metered -> [at : RecordPlaces, srv : Nat, id : Nat]]
    BY <1>1, <1>2 DEF ActTypes, RecordPlaces
  <2>2. rows' \in [Act!Eras -> SUBSET [id : Nat, of : Metered]]
    <3>1. rows' = [t \in Act!Eras |-> rows'[t]]
      BY <1>1, <1>2 DEF ActTypes
    <3>2. \A t \in Act!Eras : rows'[t] \in SUBSET [id : Nat, of : Metered]
      BY <1>2, <1>6 DEF ActTypes
    <3> QED
      BY <3>1, <3>2, Zenon
  <2> QED
    BY <1>1, <1>2, <2>1, <2>2 DEF ActTypes
<1>8. RecordsOwn'
  <2>1. record'[q].id # 0
    BY <1>1, <1>2, <1>4 DEF RecordsOwn
  <2> QED
    BY <1>1, <1>2, <1>4, <1>5, <2>1 DEF RecordsOwn
<1>9. RowsOwn'
  BY <1>2, <1>5, <1>6 DEF RowsOwn, ActTypes
<1>10. CapturesOwn' /\ CachesOK'
  <2>1. \A p \in Metered : record[p].at = "over" => record'[p] = record[p]
    BY <1>1, <1>4
  <2> QED
    BY <1>1, <1>2, <2>1 DEF CapturesOwn, CachesOK
<1>11. RowsNewest'
  <2> SUFFICES ASSUME NEW t \in inMemory
               PROVE  \E low \in 0..lastId[t] :
                        /\ {r.id : r \in rows'[t]} = (low + 1)..lastId[t]
                        /\ low > 0 => lastId[t] - low >= MaxMetrics
                        /\ t \notin shut => lastId[t] - low <= MaxMetrics + Cardinality(Pruners(t)')
    BY <1>1 DEF RowsNewest
  <2>1. PICK low \in 0..lastId[t] :
           /\ {r.id : r \in rows[t]} = (low + 1)..lastId[t]
           /\ low > 0 => lastId[t] - low >= MaxMetrics
           /\ t \notin shut => lastId[t] - low <= MaxMetrics + Cardinality(Pruners(t))
    BY <1>2 DEF RowsNewest
  <2>2. t \in Act!Eras /\ lastId[t] \in Nat /\ MaxMetrics \in Nat /\ MaxMetrics > 0
    BY <1>2, ActivityAssumption DEF ActTypes
  <2>3. CASE t # s
    <3>1. Pruners(t)' = Pruners(t)
      BY <1>1, <1>4, <1>5, <2>3 DEF Pruners, s
    <3> QED
      BY <1>6, <2>1, <2>2, <2>3, <3>1
  <2>4. CASE t = s /\ s \in shut
    BY <1>6, <2>1, <2>4
  <2>5. CASE t = s /\ s \notin shut
    <3> DEFINE last == lastId[t]
               ids == {r.id : r \in rows[t]}
               newest == Act!Max(ids \union {0})
               kept == {r \in rows[t] : r.id > newest - MaxMetrics}
    <3>1. rows'[t] = kept
      BY <1>6, <2>5, Zenon DEF Act!PruneTo
    <3>2. ids = (low + 1)..last
      BY <2>1
    <3>3. Cardinality(Pruners(t)') \in Nat
      <4>1. \A p \in Metered : record'[p].at = "inserted" => record[p].at = "inserted"
        BY <1>4
      <4>2. Pruners(t)' \subseteq Pruners(t)
        BY <1>5, <4>1 DEF Pruners
      <4> QED
        BY <4>2, PrunersFinite, FS_Subset, FS_CardinalityType
    <3>4. low < last => newest = last
      <4> HIDE DEF ids
      <4> SUFFICES ASSUME low < last PROVE newest = last
        OBVIOUS
      <4>1. last \in ids \union {0} /\ \A y \in ids \union {0} : last >= y /\ y \in Nat
        BY <2>1, <2>2, <3>2
      <4>2. newest \in ids \union {0} /\ \A y \in ids \union {0} : newest >= y
        BY <4>1 DEF Act!Max
      <4>3. newest \in Nat /\ newest >= last /\ last >= newest /\ last \in Nat
        BY <2>2, <4>1, <4>2
      <4> HIDE DEF newest, last
      <4> QED
        BY <4>3
    <3>5. {r.id : r \in kept} = {i \in ids : i > newest - MaxMetrics}
      <4> HIDE DEF newest
      <4> QED
        OBVIOUS
    <3> HIDE DEF ids, kept, newest
    <3>6. CASE low = last
      <4>1. {r.id : r \in kept} = (low + 1)..last
        <5>1. (low + 1)..last = {}
          BY <2>2, <3>6
        <5> QED
          BY <3>2, <3>5, <5>1
      <4>2. low \in 0..last /\ (low > 0 => last - low >= MaxMetrics)
            /\ last - low <= MaxMetrics + Cardinality(Pruners(t)')
        BY <2>1, <2>2, <3>3, <3>6
      <4> QED
        BY <3>1, <4>1, <4>2
    <3>7. CASE low < last /\ last - MaxMetrics <= low
      <4>1. {r.id : r \in kept} = (low + 1)..last
        BY <2>1, <2>2, <3>2, <3>4, <3>5, <3>7
      <4>2. low \in 0..last /\ (low > 0 => last - low >= MaxMetrics)
            /\ last - low <= MaxMetrics + Cardinality(Pruners(t)')
        BY <2>1, <2>2, <3>3, <3>7
      <4> QED
        BY <3>1, <4>1, <4>2
    <3>8. CASE low < last /\ last - MaxMetrics > low
      <4> DEFINE from == last - MaxMetrics
      <4>1. {r.id : r \in kept} = (from + 1)..last
        BY <2>1, <2>2, <3>2, <3>4, <3>5, <3>8
      <4>2. from \in 0..last /\ last - from >= MaxMetrics
            /\ last - from <= MaxMetrics + Cardinality(Pruners(t)')
        BY <2>1, <2>2, <3>3, <3>8
      <4> HIDE DEF from
      <4> QED
        BY <3>1, <4>1, <4>2
    <3> QED
      BY <2>1, <2>2, <3>6, <3>7, <3>8
  <2> QED
    BY <2>3, <2>4, <2>5
<1> QED
  BY <1>7, <1>8, <1>9, <1>10, <1>11 DEF ActInv

LEMMA CaptureKeeps == ASSUME ActInv, NEW q \in Metered, Act!StoreCapture(q) PROVE ActInv'
<1> DEFINE e == record[q].srv
           id == record[q].id
<1>1. /\ record[q].at = "stored"
      /\ \/ \E n \in CaptureSizes :
              captures' = [captures EXCEPT ![e] = Act!CacheAdd(@, id, [of |-> q, size |-> n])]
         \/ UNCHANGED captures
      /\ record' = [record EXCEPT ![q].at = "over"]
      /\ UNCHANGED <<rows, lastId, inMemory, era, storeOf, shut>>
  BY Zenon DEF Act!StoreCapture, Act!storeVars, Act!serverVars
<1>2. ActTypes /\ RecordsOwn /\ RowsOwn /\ CapturesOwn /\ CachesOK /\ RowsNewest
  BY DEF ActInv
<1>3. e \in Act!Eras /\ id \in Nat /\ id # 0
  <2>1. record[q].srv \in 1..era /\ id # 0
    BY <1>1, <1>2 DEF RecordsOwn
  <2> QED
    BY <1>2, <2>1, ActivityAssumption DEF ActTypes, Act!Eras
<1>4. /\ record'[q].at = "over" /\ record'[q].srv = e /\ record'[q].id = id
      /\ \A p \in Metered : p # q => record'[p] = record[p]
  BY <1>1, <1>2 DEF ActTypes
<1>5. \A p \in Metered : StoreFor(p)' = StoreFor(p) /\ record'[p].id = record[p].id
                         /\ record'[p].srv = record[p].srv
  BY <1>1, <1>4 DEF StoreFor
<1>6. id \notin DOMAIN captures[e].items
  <2> SUFFICES ASSUME id \in DOMAIN captures[e].items PROVE FALSE
    OBVIOUS
  <2> DEFINE p == captures[e].items[id].of
  <2>1. p \in Metered /\ record[p].at = "over" /\ record[p].srv = e /\ record[p].id = id
    BY <1>2, <1>3 DEF CapturesOwn
  <2>2. StoreFor(p) = StoreFor(q)
    BY <2>1 DEF StoreFor
  <2>3. p = q
    BY <1>2, <1>3, <2>1, <2>2 DEF RecordsOwn
  <2> QED
    BY <1>1, <2>1, <2>3
<1> HIDE DEF e, id
<1>7. /\ \A d \in Act!Eras : d # e => captures'[d] = captures[d]
      /\ \/ captures'[e] = captures[e]
         \/ \E n \in CaptureSizes : captures'[e] = Act!CacheAdd(captures[e], id, [of |-> q, size |-> n])
      /\ captures' = [d \in Act!Eras |-> captures'[d]]
  <2>1. captures = [d \in Act!Eras |-> captures[d]]
    BY <1>2 DEF ActTypes
  <2>2. CASE UNCHANGED captures
    BY <2>1, <2>2
  <2>3. ASSUME NEW n \in CaptureSizes,
               captures' = [captures EXCEPT ![e] = Act!CacheAdd(@, id, [of |-> q, size |-> n])]
        PROVE  <1>7
    BY <1>3, <2>1, <2>3
  <2> QED
    BY <1>1, <2>2, <2>3 DEF e, id
<1>8. ActTypes'
  <2>1. record' \in [Metered -> [at : RecordPlaces, srv : Nat, id : Nat]]
    BY <1>1, <1>2 DEF ActTypes, RecordPlaces
  <2> QED
    BY <1>1, <1>2, <1>7, <2>1 DEF ActTypes
<1>9. RecordsOwn'
  BY <1>1, <1>2, <1>3, <1>4, <1>5 DEF RecordsOwn, id
<1>10. RowsOwn'
  BY <1>1, <1>2, <1>5 DEF RowsOwn, ActTypes
<1>11. \A p \in Metered : record[p].at = "over" => record'[p] = record[p]
  BY <1>1, <1>4
<1>12. ASSUME captures'[e] = captures[e] PROVE CapturesOwn' /\ CachesOK'
  <2>1. captures' = captures
    BY <1>2, <1>7, <1>12 DEF ActTypes
  <2>2. CachesOK'
    BY <1>2, <2>1 DEF CachesOK
  <2>3. CapturesOwn'
    <3> SUFFICES ASSUME NEW d \in Act!Eras, NEW i \in DOMAIN captures[d].items
                 PROVE  LET p == captures[d].items[i].of
                        IN p \in Metered /\ record'[p].at = "over" /\ record'[p].srv = d /\ record'[p].id = i
                           /\ i # 0
      BY <2>1 DEF CapturesOwn
    <3> DEFINE p == captures[d].items[i].of
    <3>1. p \in Metered /\ record[p].at = "over" /\ record[p].srv = d /\ record[p].id = i /\ i # 0
      BY <1>2, Zenon DEF CapturesOwn
    <3> HIDE DEF p
    <3>2. record'[p] = record[p]
      BY <1>11, <3>1
    <3> QED
      BY <3>1, <3>2, Zenon DEF p
  <2> QED
    BY <2>2, <2>3
<1>13. ASSUME NEW n \in CaptureSizes, captures'[e] = Act!CacheAdd(captures[e], id, [of |-> q, size |-> n])
       PROVE  CapturesOwn' /\ CachesOK'
  <2> DEFINE item == [of |-> q, size |-> n]
             c == captures[e]
             new == captures'[e]
  <2>1. item.size \in Nat /\ item.of = q
    BY ActivityAssumption
  <2>2. CacheOK(c) /\ id \in Nat /\ id \notin DOMAIN c.items
    BY <1>2, <1>3, <1>6 DEF CachesOK
  <2>3. new = Act!CacheAdd(c, id, item)
    BY <1>13
  <2> HIDE DEF item, c, new
  <2>4. /\ CacheOK(new)
        /\ \A i \in DOMAIN new.items : \/ i = id /\ new.items[i] = item
                                       \/ i \in DOMAIN c.items /\ new.items[i] = c.items[i]
    BY <2>1, <2>2, <2>3, CacheAddKeeps
  <2>5. CachesOK'
    BY <1>2, <1>7, <2>4 DEF CachesOK, new
  <2>6. CapturesOwn'
    <3> SUFFICES ASSUME NEW d \in Act!Eras, NEW i \in DOMAIN captures'[d].items
                 PROVE  LET p == captures'[d].items[i].of
                        IN p \in Metered /\ record'[p].at = "over" /\ record'[p].srv = d /\ record'[p].id = i
                           /\ i # 0
      BY DEF CapturesOwn
    <3>1. ASSUME NEW f \in Act!Eras, NEW j \in DOMAIN captures[f].items
          PROVE  LET p == captures[f].items[j].of
                 IN p \in Metered /\ record'[p].at = "over" /\ record'[p].srv = f /\ record'[p].id = j
                    /\ j # 0
      BY <1>2, <1>11 DEF CapturesOwn
    <3>2. CASE d # e
      BY <1>7, <3>1, <3>2
    <3>3. CASE d = e /\ i = id /\ captures'[d].items[i] = item
      BY <1>3, <1>4, <2>1, <3>3
    <3>4. CASE d = e /\ i \in DOMAIN captures[d].items /\ captures'[d].items[i] = captures[d].items[i]
      BY <3>1, <3>4
    <3> QED
      BY <2>4, <3>2, <3>3, <3>4 DEF c, new
  <2> QED
    BY <2>5, <2>6
<1>14. RowsNewest'
  <2>1. \A t \in inMemory : Pruners(t)' = Pruners(t)
    BY <1>1, <1>4, <1>5 DEF Pruners
  <2> QED
    BY <1>1, <1>2, <2>1, RowsStay
<1> QED
  BY <1>7, <1>8, <1>9, <1>10, <1>12, <1>13, <1>14 DEF ActInv

LEMMA ReloadKeeps == ASSUME ActInv, Act!ReloadServer PROVE ActInv'
<1> DEFINE new == era + 1
<1>1. /\ era < Monitors /\ era' = new
      /\ \E s \in {storeOf[era], new} : storeOf' = [storeOf EXCEPT ![new] = s]
      /\ captures' = [captures EXCEPT ![new] = Act!EmptyCache]
      /\ UNCHANGED <<rows, lastId, inMemory, shut, record>>
  BY Zenon DEF Act!ReloadServer, Act!storeVars
<1>2. ActTypes /\ RecordsOwn /\ RowsOwn /\ CapturesOwn /\ CachesOK /\ RowsNewest
  BY DEF ActInv
<1>3. /\ era \in Nat /\ era \in Act!Eras /\ new \in Act!Eras /\ new > era /\ Monitors \in Nat
      /\ \A k \in 1..era : k \in 1..new /\ k # new /\ k \in Act!Eras
  BY <1>1, <1>2, ActivityAssumption DEF ActTypes, Act!Eras
<1> HIDE DEF new
<1>4. /\ storeOf' \in [Act!Eras -> Act!Eras]
      /\ \A k \in Act!Eras : k # new => storeOf'[k] = storeOf[k]
  BY <1>1, <1>2, <1>3 DEF ActTypes
<1>5. \A p \in Metered : record[p].at # "none" => StoreFor(p)' = StoreFor(p)
  BY <1>1, <1>2, <1>3, <1>4 DEF RecordsOwn, StoreFor
<1>6. \A p \in Metered : record[p].id # 0 => record[p].at # "none"
  BY <1>2 DEF RecordsOwn
<1>7. ActTypes'
  BY <1>1, <1>2, <1>3, <1>4 DEF ActTypes
<1>8. RecordsOwn'
  BY <1>1, <1>2, <1>3, <1>5, <1>6 DEF RecordsOwn
<1>9. RowsOwn'
  BY <1>1, <1>2, <1>5, <1>6 DEF RowsOwn, ActTypes
<1>10. captures'[new] = Act!EmptyCache /\ \A k \in Act!Eras : k # new => captures'[k] = captures[k]
  BY <1>1, <1>2, <1>3 DEF ActTypes
<1>11. CachesOK'
  BY <1>2, <1>10, EmptyCacheOK DEF CachesOK
<1>12. CapturesOwn'
  <2> SUFFICES ASSUME NEW d \in Act!Eras, NEW i \in DOMAIN captures'[d].items
               PROVE  LET p == captures'[d].items[i].of
                      IN p \in Metered /\ record[p].at = "over" /\ record[p].srv = d /\ record[p].id = i
                         /\ i # 0
    BY <1>1 DEF CapturesOwn
  <2>1. d # new
    BY <1>10, EmptyCacheOK
  <2> QED
    BY <1>2, <1>10, <2>1 DEF CapturesOwn
<1>13. RowsNewest'
  <2>1. \A t \in inMemory : Pruners(t)' = Pruners(t)
    BY <1>1, <1>5 DEF Pruners
  <2> QED
    BY <1>1, <1>2, <2>1, RowsStay
<1> QED
  BY <1>7, <1>8, <1>9, <1>11, <1>12, <1>13 DEF ActInv

LEMMA CloseKeeps == ASSUME ActInv, Act!CloseStore PROVE ActInv'
<1>1. shut \subseteq shut' /\ UNCHANGED <<rows, lastId, inMemory, captures, era, storeOf, record>>
  BY DEF Act!CloseStore, Act!storeVars
<1>2. \A s \in inMemory : Pruners(s)' = Pruners(s)
  BY <1>1 DEF Pruners, StoreFor
<1>3. RowsNewest'
  BY <1>1, <1>2, RowsStay DEF ActInv
<1>4. ActTypes' /\ RecordsOwn' /\ RowsOwn'
  BY <1>1 DEF ActInv, ActTypes, RecordsOwn, RowsOwn, StoreFor
<1>5. CapturesOwn' /\ CachesOK'
  BY <1>1 DEF ActInv, CapturesOwn, CachesOK
<1> QED
  BY <1>3, <1>4, <1>5 DEF ActInv

LEMMA ActStep == ActInv /\ [Act!Next]_(Act!actVars) => ActInv'
<1> SUFFICES ASSUME ActInv, [Act!Next]_(Act!actVars) PROVE ActInv'
  OBVIOUS
<1>1. CASE UNCHANGED Act!actVars
  <2>1. UNCHANGED <<rows, lastId, inMemory, captures, era, storeOf, shut, record>>
    BY <1>1 DEF Act!actVars
  <2>2. \A s \in inMemory : Pruners(s)' = Pruners(s)
    BY <2>1 DEF Pruners, StoreFor
  <2>3. RowsNewest'
    BY <2>1, <2>2, RowsStay DEF ActInv
  <2>4. ActTypes' /\ RecordsOwn' /\ RowsOwn'
    BY <2>1 DEF ActInv, ActTypes, RecordsOwn, RowsOwn, StoreFor
  <2>5. CapturesOwn' /\ CachesOK'
    BY <2>1 DEF ActInv, CapturesOwn, CachesOK
  <2> QED
    BY <2>3, <2>4, <2>5 DEF ActInv
<1>2. CASE Act!Next
  BY <1>2, HandleKeeps, InsertKeeps, PruneKeeps, CaptureKeeps, ReloadKeeps, CloseKeeps, Zenon DEF Act!Next
<1> QED
  BY <1>1, <1>2

\* As many as there are positions: the order of a cache is as long as it holds captures.
LEMMA OrderCounts ==
  ASSUME NEW c, CacheOK(c)
  PROVE  Len(c.order) = Cardinality(DOMAIN c.items)
<1> DEFINE N == Len(c.order)
           D == DOMAIN c.items
<1>1. N \in Nat /\ DOMAIN c.order = 1..N /\ c.order \in [1..N -> D]
  BY DEF CacheOK
<1>2. c.order \in Bijection(1..N, D)
  <2>1. c.order \in Injection(1..N, D)
    BY <1>1 DEF CacheOK, Injection, IsInjective
  <2>2. \A t \in D : \E i \in 1..N : c.order[i] = t
    BY <1>1 DEF CacheOK
  <2> QED
    BY <1>1, <2>1, <2>2 DEF Bijection, Surjection
<1>3. IsFiniteSet(1..N) /\ Cardinality(1..N) = N
  BY <1>1, FS_Interval
<1>4. Cardinality(D) = Cardinality(1..N)
  <2>1. ExistsBijection(1..N, D)
    BY <1>2 DEF ExistsBijection
  <2> HIDE DEF N, D
  <2> QED
    BY <1>3, <2>1, FS_Bijection
<1> QED
  BY <1>3, <1>4

LEMMA ActCardinality == \A S : Act!Cardinality(S) = Cardinality(S)
  BY Zenon DEF Act!Cardinality, Cardinality, Act!IsFiniteSet, IsFiniteSet

LEMMA ActConsistent == ActInv => Act!ActivityConsistent
<1> SUFFICES ASSUME ActInv PROVE Act!ActivityConsistent
  OBVIOUS
<1>1. ActTypes /\ RecordsOwn /\ RowsOwn /\ CapturesOwn /\ CachesOK /\ RowsNewest
  BY DEF ActInv
<1>2. Act!CacheBalances
  <2> SUFFICES ASSUME NEW e \in Act!Eras
               PROVE  LET c == captures[e]
                      IN /\ c.size = Act!Bytes(c.items, c.order)[Len(c.order)]
                         /\ c.size <= CaptureBytes
                         /\ {c.order[i] : i \in DOMAIN c.order} = DOMAIN c.items
                         /\ Len(c.order) = Cardinality(DOMAIN c.items)
    BY ActCardinality, Zenon DEF Act!CacheBalances
  <2>1. CacheOK(captures[e])
    BY <1>1 DEF CachesOK
  <2>2. Len(captures[e].order) = Cardinality(DOMAIN captures[e].items)
    BY <2>1, OrderCounts
  <2> QED
    BY <2>1, <2>2 DEF CacheOK
<1>3. Act!CaptureIsOwn
  <2> DEFINE s == storeOf[era]
             items == captures[era].items
  <2> SUFFICES ASSUME NEW r \in rows[s], r.id \in DOMAIN items PROVE items[r.id].of = r.of
    BY DEF Act!CaptureIsOwn, Act!Has
  <2>1. era \in Act!Eras /\ s \in Act!Eras
    BY <1>1 DEF ActTypes
  <2>2. r.id # 0 /\ record[r.of].id = r.id /\ StoreFor(r.of) = s /\ r.of \in Metered
    BY <1>1, <2>1 DEF RowsOwn, ActTypes
  <2> DEFINE p == items[r.id].of
  <2>3. p \in Metered /\ record[p].srv = era /\ record[p].id = r.id
    BY <1>1, <2>1 DEF CapturesOwn
  <2>4. StoreFor(p) = StoreFor(r.of)
    BY <2>2, <2>3 DEF StoreFor
  <2> HIDE DEF p
  <2>5. p = r.of
    BY <1>1, <2>2, <2>3, <2>4 DEF RecordsOwn
  <2> QED
    BY <2>5 DEF p
<1>4. Act!NewestRows
  <2> SUFFICES ASSUME NEW s \in inMemory
               PROVE  LET pruners == {q \in Metered : record[q].at = "inserted" /\ storeOf[record[q].srv] = s}
                          ids == {r.id : r \in rows[s]}
                          from == Act!Min(ids \union {lastId[s] + 1})
                      IN /\ ids = from..lastId[s]
                         /\ Cardinality(ids) >= Act!Min({MaxMetrics, lastId[s]})
                         /\ s \notin shut => Cardinality(ids) <= MaxMetrics + Cardinality(pruners)
    BY ActCardinality, Zenon DEF Act!NewestRows
  <2> DEFINE last == lastId[s]
             ids == {r.id : r \in rows[s]}
  <2>1. PICK low \in 0..last :
           /\ ids = (low + 1)..last
           /\ low > 0 => last - low >= MaxMetrics
           /\ s \notin shut => last - low <= MaxMetrics + Cardinality(Pruners(s))
    BY <1>1 DEF RowsNewest
  <2>2. last \in Nat /\ MaxMetrics \in Nat
    BY <1>1, ActivityAssumption DEF ActTypes
  <2> HIDE DEF last, ids
  <2>3. Act!Min(ids \union {last + 1}) = low + 1
    <3> DEFINE T == ids \union {last + 1}
    <3>1. low + 1 \in T /\ \A o \in T : low + 1 <= o /\ o \in Nat
      BY <2>1, <2>2
    <3> HIDE DEF T
    <3>2. Act!Min(T) \in T /\ \A o \in T : Act!Min(T) <= o
      BY <3>1 DEF Act!Min
    <3>3. Act!Min(T) <= low + 1 /\ low + 1 <= Act!Min(T) /\ Act!Min(T) \in Nat
      BY <3>1, <3>2
    <3>4. Act!Min(T) = low + 1
      BY <2>1, <3>3
    <3> QED
      BY <3>4 DEF T
  <2>4. Cardinality(ids) = last - low
    <3>1. Cardinality((low + 1)..last) = IF low + 1 > last THEN 0 ELSE last - (low + 1) + 1
      BY <2>1, <2>2, FS_Interval
    <3> QED
      BY <2>1, <2>2, <3>1
  <2>5. last - low >= Act!Min({MaxMetrics, last})
    <3> DEFINE T == {MaxMetrics, last}
    <3>1. Act!Min(T) \in T /\ \A o \in T : Act!Min(T) <= o
      <4>1. \E x \in T : \A o \in T : x <= o
        BY <2>2
      <4> QED
        BY <4>1 DEF Act!Min
    <3> DEFINE m == Act!Min(T)
    <3>2. m <= MaxMetrics /\ m <= last /\ m \in Nat
      BY <2>2, <3>1
    <3> HIDE DEF m
    <3>3. last - low >= m
      BY <2>1, <2>2, <3>2
    <3> QED
      BY <3>3 DEF m
  <2> QED
    BY <2>1, <2>3, <2>4, <2>5, Zenon DEF Pruners, StoreFor, last, ids
<1> QED
  BY <1>2, <1>3, <1>4 DEF Act!ActivityConsistent

\* The activity log, for any number of requests and servers.
THEOREM ActSound == Act!Spec => []Act!ActivityConsistent
<1> QED
  BY ActStarts, ActStep, ActConsistent, PTL DEF Act!Spec

-----------------------------------------------------------------------------
(* UsageMetrics.                                                           *)

ScanFields == {"in", "out", "cached", "usage", "timings", "metrics", "any"}

\* What one event changes of what is accumulated.
LEMMA EventAdds ==
  ASSUME NEW old, DOMAIN old = ScanFields, NEW event
  PROVE  LET new == Usage!AddEvent(old, event)
             u == event.usage
             ok == Usage!UsageOk(u)
         IN /\ DOMAIN new = ScanFields
            /\ new.in = IF ok /\ u.in > 0 THEN u.in ELSE old.in
            /\ new.out = IF ok /\ u.out > 0 THEN u.out ELSE old.out
            /\ new.cached = IF ok /\ u.cached >= 0 THEN u.cached ELSE old.cached
            /\ new.usage = IF ok THEN u ELSE old.usage
            /\ new.timings = IF event.timings # Usage!NoTimings THEN event.timings ELSE old.timings
            /\ new.metrics = IF event.metrics # Usage!NoMetrics THEN event.metrics ELSE old.metrics
            /\ ok => new.any = TRUE
<1> DEFINE u == event.usage
           ok == Usage!UsageOk(u)
           added == Usage!AddUsage(old, u)
           timed == IF event.timings = Usage!NoTimings THEN added
                    ELSE [added EXCEPT !.timings = event.timings, !.any = TRUE]
           new == Usage!AddEvent(old, event)
<1>1. new = IF event.metrics = Usage!NoMetrics THEN timed
            ELSE [timed EXCEPT !.metrics = event.metrics, !.any = TRUE]
  BY Zenon DEF Usage!AddEvent
<1>2. /\ DOMAIN added = ScanFields
      /\ added.in = IF ok /\ u.in > 0 THEN u.in ELSE old.in
      /\ added.out = IF ok /\ u.out > 0 THEN u.out ELSE old.out
      /\ added.cached = IF ok /\ u.cached >= 0 THEN u.cached ELSE old.cached
      /\ added.usage = IF ok THEN u ELSE old.usage
      /\ added.timings = old.timings /\ added.metrics = old.metrics
      /\ ok => added.any = TRUE
  <2> HIDE DEF u
  <2>1. CASE ~ok
    BY <2>1 DEF Usage!AddUsage
  <2>2. CASE ok
    <3>1. added = [old EXCEPT !.any = TRUE, !.usage = u,
                               !.in = IF u.in > 0 THEN u.in ELSE @,
                               !.out = IF u.out > 0 THEN u.out ELSE @,
                               !.cached = IF u.cached >= 0 THEN u.cached ELSE @]
      BY <2>2 DEF Usage!AddUsage
    <3> HIDE DEF ok, added
    <3> QED
      BY <2>2, <3>1 DEF ScanFields
  <2> QED
    BY <2>1, <2>2
<1> HIDE DEF u, ok, added
<1>3. /\ DOMAIN timed = ScanFields
      /\ timed.in = added.in /\ timed.out = added.out /\ timed.cached = added.cached
      /\ timed.usage = added.usage /\ timed.metrics = added.metrics
      /\ timed.timings = IF event.timings # Usage!NoTimings THEN event.timings ELSE added.timings
      /\ added.any = TRUE => timed.any = TRUE
  BY <1>2 DEF ScanFields
<1> HIDE DEF timed
<1>4. /\ DOMAIN new = ScanFields
      /\ new.in = timed.in /\ new.out = timed.out /\ new.cached = timed.cached
      /\ new.usage = timed.usage /\ new.timings = timed.timings
      /\ new.metrics = IF event.metrics # Usage!NoMetrics THEN event.metrics ELSE timed.metrics
      /\ timed.any = TRUE => new.any = TRUE
  <2> HIDE DEF new
  <2> QED
    BY <1>1, <1>3 DEF ScanFields
<1> QED
  BY <1>2, <1>3, <1>4, Zenon DEF u, ok

\* What Seen is: that there is such a function is shown up to each number.
LEMMA SeenIs ==
  ASSUME NEW body \in Seq(Reports)
  PROVE  Usage!Seen(body) =
           [n \in 0..Len(body) |->
              IF n = 0 THEN Usage!Nothing
              ELSE IF Usage!Valid(body[n]) THEN Usage!AddEvent(Usage!Seen(body)[n - 1], body[n])
                   ELSE Usage!Seen(body)[n - 1]]
<1> DEFINE Next1(prev, n) == IF Usage!Valid(body[n]) THEN Usage!AddEvent(prev, body[n]) ELSE prev
           IsSeen(f, m) == f = [n \in 0..m |-> IF n = 0 THEN Usage!Nothing ELSE Next1(f[n - 1], n)]
           N == Len(body)
           T == {m \in 0..N : \E f : IsSeen(f, m)}
<1>1. N \in Nat
  OBVIOUS
<1>2. \E f : IsSeen(f, 0)
  <2>1. IsSeen([n \in 0..0 |-> Usage!Nothing], 0)
    BY SMT
  <2> QED
    BY <2>1
<1> HIDE DEF Next1
<1>3. ASSUME NEW m \in 0..(N - 1), \E f : IsSeen(f, m) PROVE \E f : IsSeen(f, m + 1)
  <2>1. PICK f : IsSeen(f, m)
    BY <1>3
  <2> DEFINE g == [n \in 0..(m + 1) |-> IF n = m + 1 THEN Next1(f[m], m + 1) ELSE f[n]]
  <2>2. ASSUME NEW n \in 0..(m + 1)
        PROVE  g[n] = IF n = 0 THEN Usage!Nothing ELSE Next1(g[n - 1], n)
    <3>1. CASE n = m + 1
      <4>1. m \in 0..(m + 1) /\ m # m + 1 /\ (m + 1) - 1 = m /\ m + 1 # 0 /\ m + 1 \in 0..(m + 1)
        OBVIOUS
      <4>2. g[m] = f[m] /\ g[m + 1] = Next1(f[m], m + 1)
        BY <4>1
      <4> QED
        BY <3>1, <4>1, <4>2
    <3>2. CASE n # m + 1 /\ n # 0
      <4>1. n \in 0..m /\ n - 1 \in 0..(m + 1) /\ n - 1 # m + 1 /\ n \in 0..(m + 1)
        BY <3>2
      <4>2. g[n] = f[n] /\ g[n - 1] = f[n - 1]
        BY <3>2, <4>1
      <4>3. f[n] = Next1(f[n - 1], n)
        BY <2>1, <3>2, <4>1
      <4> QED
        BY <3>2, <4>2, <4>3
    <3>3. CASE n = 0
      <4>1. 0 \in 0..(m + 1) /\ 0 # m + 1 /\ 0 \in 0..m
        OBVIOUS
      <4>2. f[0] = Usage!Nothing
        BY <2>1, <4>1
      <4> QED
        BY <3>3, <4>1, <4>2
    <3> QED
      BY <3>1, <3>2, <3>3
  <2>3. IsSeen(g, m + 1)
    BY <2>2
  <2> QED
    BY <2>3
<1>4. 0 \in T /\ \A k \in 0..(N - 1) : k \in T => k + 1 \in T
  <2>1. 0 \in 0..N /\ \A k \in 0..(N - 1) : k + 1 \in 0..N
    BY <1>1
  <2> HIDE DEF IsSeen, N
  <2> QED
    BY <1>2, <1>3, <2>1
<1>5. \E f : IsSeen(f, N)
  <2>1. N \in 0..N
    BY <1>1
  <2>2. \A k \in 0..N : k \in T
    <3> HIDE DEF T, N
    <3> QED
      BY <1>1, <1>4, UpTo
  <2> QED
    BY <2>1, <2>2
<1>6. IsSeen(Usage!Seen(body), N)
  BY <1>5 DEF Usage!Seen, Next1
<1> QED
  BY <1>6 DEF Next1


\* Two accumulated states that say the same make the same entry.
LEMMA SameMetrics ==
  ASSUME NEW a, NEW b, a.in = b.in, a.out = b.out, a.cached = b.cached, a.usage = b.usage,
         a.timings = b.timings, a.metrics = b.metrics
  PROVE  Usage!BuildMetrics(a) = Usage!BuildMetrics(b)
  BY DEF Usage!BuildMetrics

\* The scan of a body, count by count, is what the body reports.
LEMMA ScannedReports ==
  ASSUME NEW body \in Seq(Reports)
  PROVE  Usage!BuildMetrics(Usage!Scanned(body)) = Usage!ReportedBy(body)
<1> DEFINE N == Len(body)
           S == Usage!Seen(body)
           Ok(i) == Usage!Valid(body[i]) /\ Usage!UsageOk(body[i].usage)
           events == {i \in DOMAIN body : Usage!Valid(body[i])}
           used == {i \in events : Usage!UsageOk(body[i].usage)}
<1>1. N \in Nat /\ DOMAIN body = 1..N
  OBVIOUS
<1>2. S = [n \in 0..N |-> IF n = 0 THEN Usage!Nothing
                          ELSE IF Usage!Valid(body[n]) THEN Usage!AddEvent(S[n - 1], body[n]) ELSE S[n - 1]]
  BY SeenIs, Zenon
<1> HIDE DEF S
<1>3. \A k \in 0..N : DOMAIN S[k] = ScanFields
  <2> DEFINE T == {k \in 0..N : DOMAIN S[k] = ScanFields}
  <2>1. 0 \in T
    <3>1. S[0] = Usage!Nothing /\ 0 \in 0..N
      BY <1>1, <1>2
    <3>2. DOMAIN Usage!Nothing = ScanFields
      BY DEF Usage!Nothing, ScanFields
    <3> QED
      BY <3>1, <3>2
  <2>2. ASSUME NEW k \in 0..(N - 1), k \in T PROVE k + 1 \in T
    <3>1. k + 1 \in 0..N /\ k + 1 # 0 /\ (k + 1) - 1 = k
      BY <1>1
    <3>2. S[k + 1] = IF Usage!Valid(body[k + 1]) THEN Usage!AddEvent(S[k], body[k + 1]) ELSE S[k]
      BY <1>2, <3>1
    <3>3. DOMAIN S[k] = ScanFields
      BY <2>2
    <3>4. DOMAIN Usage!AddEvent(S[k], body[k + 1]) = ScanFields
      BY <3>3, EventAdds, Zenon
    <3> QED
      BY <3>1, <3>2, <3>3, <3>4
  <2>3. \A k \in 0..N : k \in T
    <3> HIDE DEF T, N
    <3> QED
      BY <1>1, <2>1, <2>2, UpTo
  <2> QED
    BY <2>3
<1>4. ASSUME NEW k \in 1..N
      PROVE  LET u == body[k].usage
             IN /\ S[k].in = IF Ok(k) /\ u.in > 0 THEN u.in ELSE S[k - 1].in
                /\ S[k].out = IF Ok(k) /\ u.out > 0 THEN u.out ELSE S[k - 1].out
                /\ S[k].cached = IF Ok(k) /\ u.cached >= 0 THEN u.cached ELSE S[k - 1].cached
                /\ S[k].usage = IF Ok(k) THEN u ELSE S[k - 1].usage
                /\ S[k].timings = IF Usage!Valid(body[k]) /\ body[k].timings # Usage!NoTimings
                                    THEN body[k].timings ELSE S[k - 1].timings
                /\ S[k].metrics = IF Usage!Valid(body[k]) /\ body[k].metrics # Usage!NoMetrics
                                    THEN body[k].metrics ELSE S[k - 1].metrics
  <2>1. k \in 0..N /\ k # 0 /\ k - 1 \in 0..N
    BY <1>1
  <2>2. S[k] = IF Usage!Valid(body[k]) THEN Usage!AddEvent(S[k - 1], body[k]) ELSE S[k - 1]
    BY <1>2, <2>1
  <2>3. DOMAIN S[k - 1] = ScanFields
    BY <1>3, <2>1
  <2>4. CASE ~Usage!Valid(body[k])
    BY <2>2, <2>4, Zenon
  <2>5. CASE Usage!Valid(body[k])
    <3>1. S[k] = Usage!AddEvent(S[k - 1], body[k])
      BY <2>2, <2>5
    <3> DEFINE prev == S[k - 1]
               event == body[k]
               new == S[k]
    <3>2. new = Usage!AddEvent(prev, event) /\ DOMAIN prev = ScanFields /\ Usage!Valid(event)
      BY <2>3, <2>5, <3>1
    <3> HIDE DEF prev, event, new
    <3>3. LET u == event.usage
              ok == Usage!UsageOk(u)
          IN /\ new.in = IF ok /\ u.in > 0 THEN u.in ELSE prev.in
             /\ new.out = IF ok /\ u.out > 0 THEN u.out ELSE prev.out
             /\ new.cached = IF ok /\ u.cached >= 0 THEN u.cached ELSE prev.cached
             /\ new.usage = IF ok THEN u ELSE prev.usage
             /\ new.timings = IF event.timings # Usage!NoTimings THEN event.timings ELSE prev.timings
             /\ new.metrics = IF event.metrics # Usage!NoMetrics THEN event.metrics ELSE prev.metrics
      BY <3>2, EventAdds, Zenon
    <3> QED
      BY <3>2, <3>3, Zenon DEF prev, event, new
  <2> QED
    BY <2>4, <2>5
<1>5. S[0] = Usage!Nothing /\ 0 \in 0..N /\ N \in 0..N
  BY <1>1, <1>2
<1>6. /\ S[0].in = 0 /\ S[0].out = 0 /\ S[0].cached = Usage!Absent /\ S[0].usage = Usage!NoUsage
      /\ S[0].timings = Usage!NoTimings /\ S[0].metrics = Usage!NoMetrics
  BY <1>5 DEF Usage!Nothing
<1>7. used = {i \in 1..N : Ok(i)} /\ events = {i \in 1..N : Usage!Valid(body[i])}
  BY <1>1
<1>8. S[N].in = Usage!ValueOf(used, LAMBDA i : body[i].usage.in > 0, LAMBDA i : body[i].usage.in, 0)
  <2> DEFINE f == [k \in 0..N |-> S[k].in]
             H == [k \in 1..N |-> Ok(k) /\ body[k].usage.in > 0]
             V == [k \in 1..N |-> body[k].usage.in]
             last == LastOf(H, N)
             latest == {i \in used : body[i].usage.in > 0 /\ \A j \in used : body[j].usage.in > 0 => j <= i}
  <2>1. \A k \in 1..N : f[k] = IF H[k] THEN V[k] ELSE f[k - 1]
    <3>1. \A k \in 1..N : k \in 0..N /\ k - 1 \in 0..N
      BY <1>1
    <3>2. \A k \in 1..N : S[k].in = IF Ok(k) /\ body[k].usage.in > 0 THEN body[k].usage.in ELSE S[k - 1].in
      BY <1>4, Zenon
    <3> QED
      BY <3>1, <3>2, Zenon
  <2>2. f[0] = 0 /\ f[N] = S[N].in
    BY <1>5, <1>6
  <2>3. f[N] = IF last = {} THEN f[0] ELSE V[CHOOSE i \in last : TRUE]
    <3>1. Changes(f, H, V, N)
      BY <2>1, Zenon DEF Changes
    <3> HIDE DEF f, H, V, N
    <3> QED
      BY <1>1, <3>1, ValueLeft, Zenon
  <2>4. latest = last
    BY <1>7, Zenon DEF LastOf
  <2>5. last # {} => (CHOOSE i \in last : TRUE) \in 1..N
    <3>1. last \subseteq 1..N
      BY DEF LastOf
    <3> HIDE DEF last
    <3> QED
      BY <3>1
  <2>6. Usage!ValueOf(used, LAMBDA i : body[i].usage.in > 0, LAMBDA i : body[i].usage.in, 0)
          = IF latest = {} THEN 0 ELSE body[CHOOSE i \in latest : TRUE].usage.in
    BY Zenon DEF Usage!ValueOf, Usage!Latest
  <2>7. last # {} => V[CHOOSE i \in last : TRUE] = body[CHOOSE i \in last : TRUE].usage.in
    <3> HIDE DEF last
    <3> QED
      BY <2>5
  <2> HIDE DEF last, latest, f
  <2> QED
    BY <2>2, <2>3, <2>4, <2>6, <2>7, Zenon
<1>9. S[N].out = Usage!ValueOf(used, LAMBDA i : body[i].usage.out > 0, LAMBDA i : body[i].usage.out, 0)
  <2> DEFINE f == [k \in 0..N |-> S[k].out]
             H == [k \in 1..N |-> Ok(k) /\ body[k].usage.out > 0]
             V == [k \in 1..N |-> body[k].usage.out]
             last == LastOf(H, N)
             latest == {i \in used : body[i].usage.out > 0 /\ \A j \in used : body[j].usage.out > 0 => j <= i}
  <2>1. \A k \in 1..N : f[k] = IF H[k] THEN V[k] ELSE f[k - 1]
    <3>1. \A k \in 1..N : k \in 0..N /\ k - 1 \in 0..N
      BY <1>1
    <3>2. \A k \in 1..N : S[k].out = IF Ok(k) /\ body[k].usage.out > 0 THEN body[k].usage.out ELSE S[k - 1].out
      BY <1>4, Zenon
    <3> QED
      BY <3>1, <3>2, Zenon
  <2>2. f[0] = 0 /\ f[N] = S[N].out
    BY <1>5, <1>6
  <2>3. f[N] = IF last = {} THEN f[0] ELSE V[CHOOSE i \in last : TRUE]
    <3>1. Changes(f, H, V, N)
      BY <2>1, Zenon DEF Changes
    <3> HIDE DEF f, H, V, N
    <3> QED
      BY <1>1, <3>1, ValueLeft, Zenon
  <2>4. latest = last
    BY <1>7, Zenon DEF LastOf
  <2>5. last # {} => (CHOOSE i \in last : TRUE) \in 1..N
    <3>1. last \subseteq 1..N
      BY DEF LastOf
    <3> HIDE DEF last
    <3> QED
      BY <3>1
  <2>6. Usage!ValueOf(used, LAMBDA i : body[i].usage.out > 0, LAMBDA i : body[i].usage.out, 0)
          = IF latest = {} THEN 0 ELSE body[CHOOSE i \in latest : TRUE].usage.out
    BY Zenon DEF Usage!ValueOf, Usage!Latest
  <2>7. last # {} => V[CHOOSE i \in last : TRUE] = body[CHOOSE i \in last : TRUE].usage.out
    <3> HIDE DEF last
    <3> QED
      BY <2>5
  <2> HIDE DEF last, latest, f
  <2> QED
    BY <2>2, <2>3, <2>4, <2>6, <2>7, Zenon
<1>10. S[N].cached = Usage!ValueOf(used, LAMBDA i : body[i].usage.cached >= 0, LAMBDA i : body[i].usage.cached, Usage!Absent)
  <2> DEFINE f == [k \in 0..N |-> S[k].cached]
             H == [k \in 1..N |-> Ok(k) /\ body[k].usage.cached >= 0]
             V == [k \in 1..N |-> body[k].usage.cached]
             last == LastOf(H, N)
             latest == {i \in used : body[i].usage.cached >= 0 /\ \A j \in used : body[j].usage.cached >= 0 => j <= i}
  <2>1. \A k \in 1..N : f[k] = IF H[k] THEN V[k] ELSE f[k - 1]
    <3>1. \A k \in 1..N : k \in 0..N /\ k - 1 \in 0..N
      BY <1>1
    <3>2. \A k \in 1..N : S[k].cached = IF Ok(k) /\ body[k].usage.cached >= 0 THEN body[k].usage.cached ELSE S[k - 1].cached
      BY <1>4, Zenon
    <3> QED
      BY <3>1, <3>2, Zenon
  <2>2. f[0] = Usage!Absent /\ f[N] = S[N].cached
    BY <1>5, <1>6
  <2>3. f[N] = IF last = {} THEN f[0] ELSE V[CHOOSE i \in last : TRUE]
    <3>1. Changes(f, H, V, N)
      BY <2>1, Zenon DEF Changes
    <3> HIDE DEF f, H, V, N
    <3> QED
      BY <1>1, <3>1, ValueLeft, Zenon
  <2>4. latest = last
    BY <1>7, Zenon DEF LastOf
  <2>5. last # {} => (CHOOSE i \in last : TRUE) \in 1..N
    <3>1. last \subseteq 1..N
      BY DEF LastOf
    <3> HIDE DEF last
    <3> QED
      BY <3>1
  <2>6. Usage!ValueOf(used, LAMBDA i : body[i].usage.cached >= 0, LAMBDA i : body[i].usage.cached, Usage!Absent)
          = IF latest = {} THEN Usage!Absent ELSE body[CHOOSE i \in latest : TRUE].usage.cached
    BY Zenon DEF Usage!ValueOf, Usage!Latest
  <2>7. last # {} => V[CHOOSE i \in last : TRUE] = body[CHOOSE i \in last : TRUE].usage.cached
    <3> HIDE DEF last
    <3> QED
      BY <2>5
  <2> HIDE DEF last, latest, f
  <2> QED
    BY <2>2, <2>3, <2>4, <2>6, <2>7, Zenon
<1>11. S[N].usage = Usage!ValueOf(used, LAMBDA i : TRUE, LAMBDA i : body[i].usage, Usage!NoUsage)
  <2> DEFINE f == [k \in 0..N |-> S[k].usage]
             H == [k \in 1..N |-> Ok(k)]
             V == [k \in 1..N |-> body[k].usage]
             last == LastOf(H, N)
             latest == {i \in used : TRUE /\ \A j \in used : TRUE => j <= i}
  <2>1. \A k \in 1..N : f[k] = IF H[k] THEN V[k] ELSE f[k - 1]
    <3>1. \A k \in 1..N : k \in 0..N /\ k - 1 \in 0..N
      BY <1>1
    <3>2. \A k \in 1..N : S[k].usage = IF Ok(k) THEN body[k].usage ELSE S[k - 1].usage
      BY <1>4, Zenon
    <3> QED
      BY <3>1, <3>2, Zenon
  <2>2. f[0] = Usage!NoUsage /\ f[N] = S[N].usage
    BY <1>5, <1>6
  <2>3. f[N] = IF last = {} THEN f[0] ELSE V[CHOOSE i \in last : TRUE]
    <3>1. Changes(f, H, V, N)
      BY <2>1, Zenon DEF Changes
    <3> HIDE DEF f, H, V, N
    <3> QED
      BY <1>1, <3>1, ValueLeft, Zenon
  <2>4. latest = last
    BY <1>7, Zenon DEF LastOf
  <2>5. last # {} => (CHOOSE i \in last : TRUE) \in 1..N
    <3>1. last \subseteq 1..N
      BY DEF LastOf
    <3> HIDE DEF last
    <3> QED
      BY <3>1
  <2>6. Usage!ValueOf(used, LAMBDA i : TRUE, LAMBDA i : body[i].usage, Usage!NoUsage)
          = IF latest = {} THEN Usage!NoUsage ELSE body[CHOOSE i \in latest : TRUE].usage
    BY Zenon DEF Usage!ValueOf, Usage!Latest
  <2>7. last # {} => V[CHOOSE i \in last : TRUE] = body[CHOOSE i \in last : TRUE].usage
    <3> HIDE DEF last
    <3> QED
      BY <2>5
  <2> HIDE DEF last, latest, f
  <2> QED
    BY <2>2, <2>3, <2>4, <2>6, <2>7, Zenon
<1>12. S[N].timings = Usage!ValueOf(events, LAMBDA i : body[i].timings # Usage!NoTimings, LAMBDA i : body[i].timings, Usage!NoTimings)
  <2> DEFINE f == [k \in 0..N |-> S[k].timings]
             H == [k \in 1..N |-> Usage!Valid(body[k]) /\ body[k].timings # Usage!NoTimings]
             V == [k \in 1..N |-> body[k].timings]
             last == LastOf(H, N)
             latest == {i \in events : body[i].timings # Usage!NoTimings /\ \A j \in events : body[j].timings # Usage!NoTimings => j <= i}
  <2>1. \A k \in 1..N : f[k] = IF H[k] THEN V[k] ELSE f[k - 1]
    <3>1. \A k \in 1..N : k \in 0..N /\ k - 1 \in 0..N
      BY <1>1
    <3>2. \A k \in 1..N : S[k].timings = IF Usage!Valid(body[k]) /\ body[k].timings # Usage!NoTimings THEN body[k].timings ELSE S[k - 1].timings
      BY <1>4, Zenon
    <3> QED
      BY <3>1, <3>2, Zenon
  <2>2. f[0] = Usage!NoTimings /\ f[N] = S[N].timings
    BY <1>5, <1>6
  <2>3. f[N] = IF last = {} THEN f[0] ELSE V[CHOOSE i \in last : TRUE]
    <3>1. Changes(f, H, V, N)
      BY <2>1, Zenon DEF Changes
    <3> HIDE DEF f, H, V, N
    <3> QED
      BY <1>1, <3>1, ValueLeft, Zenon
  <2>4. latest = last
    BY <1>7, Zenon DEF LastOf
  <2>5. last # {} => (CHOOSE i \in last : TRUE) \in 1..N
    <3>1. last \subseteq 1..N
      BY DEF LastOf
    <3> HIDE DEF last
    <3> QED
      BY <3>1
  <2>6. Usage!ValueOf(events, LAMBDA i : body[i].timings # Usage!NoTimings, LAMBDA i : body[i].timings, Usage!NoTimings)
          = IF latest = {} THEN Usage!NoTimings ELSE body[CHOOSE i \in latest : TRUE].timings
    BY Zenon DEF Usage!ValueOf, Usage!Latest
  <2>7. last # {} => V[CHOOSE i \in last : TRUE] = body[CHOOSE i \in last : TRUE].timings
    <3> HIDE DEF last
    <3> QED
      BY <2>5
  <2> HIDE DEF last, latest, f
  <2> QED
    BY <2>2, <2>3, <2>4, <2>6, <2>7, Zenon
<1>13. S[N].metrics = Usage!ValueOf(events, LAMBDA i : body[i].metrics # Usage!NoMetrics, LAMBDA i : body[i].metrics, Usage!NoMetrics)
  <2> DEFINE f == [k \in 0..N |-> S[k].metrics]
             H == [k \in 1..N |-> Usage!Valid(body[k]) /\ body[k].metrics # Usage!NoMetrics]
             V == [k \in 1..N |-> body[k].metrics]
             last == LastOf(H, N)
             latest == {i \in events : body[i].metrics # Usage!NoMetrics /\ \A j \in events : body[j].metrics # Usage!NoMetrics => j <= i}
  <2>1. \A k \in 1..N : f[k] = IF H[k] THEN V[k] ELSE f[k - 1]
    <3>1. \A k \in 1..N : k \in 0..N /\ k - 1 \in 0..N
      BY <1>1
    <3>2. \A k \in 1..N : S[k].metrics = IF Usage!Valid(body[k]) /\ body[k].metrics # Usage!NoMetrics THEN body[k].metrics ELSE S[k - 1].metrics
      BY <1>4, Zenon
    <3> QED
      BY <3>1, <3>2, Zenon
  <2>2. f[0] = Usage!NoMetrics /\ f[N] = S[N].metrics
    BY <1>5, <1>6
  <2>3. f[N] = IF last = {} THEN f[0] ELSE V[CHOOSE i \in last : TRUE]
    <3>1. Changes(f, H, V, N)
      BY <2>1, Zenon DEF Changes
    <3> HIDE DEF f, H, V, N
    <3> QED
      BY <1>1, <3>1, ValueLeft, Zenon
  <2>4. latest = last
    BY <1>7, Zenon DEF LastOf
  <2>5. last # {} => (CHOOSE i \in last : TRUE) \in 1..N
    <3>1. last \subseteq 1..N
      BY DEF LastOf
    <3> HIDE DEF last
    <3> QED
      BY <3>1
  <2>6. Usage!ValueOf(events, LAMBDA i : body[i].metrics # Usage!NoMetrics, LAMBDA i : body[i].metrics, Usage!NoMetrics)
          = IF latest = {} THEN Usage!NoMetrics ELSE body[CHOOSE i \in latest : TRUE].metrics
    BY Zenon DEF Usage!ValueOf, Usage!Latest
  <2>7. last # {} => V[CHOOSE i \in last : TRUE] = body[CHOOSE i \in last : TRUE].metrics
    <3> HIDE DEF last
    <3> QED
      BY <2>5
  <2> HIDE DEF last, latest, f
  <2> QED
    BY <2>2, <2>3, <2>4, <2>6, <2>7, Zenon
<1>14. Usage!Scanned(body) = S[N]
  BY Zenon DEF Usage!Scanned, S
<1> DEFINE s == S[N]
<1>15. Usage!ReportedBy(body) =
         IF s.timings # Usage!NoTimings
           THEN [in |-> s.timings.in, out |-> s.timings.out,
                 cached |-> IF s.timings.cached # Usage!Absent THEN s.timings.cached ELSE s.cached,
                 draft |-> IF s.metrics.draft # Usage!Absent THEN s.metrics.draft ELSE s.timings.draft,
                 rate |-> IF s.metrics.rate THEN "metrics" ELSE "timings"]
           ELSE [in |-> s.in, out |-> s.out, cached |-> s.cached, draft |-> s.metrics.draft,
                 rate |-> IF s.metrics.rate THEN "metrics" ELSE IF s.usage.rate THEN "usage" ELSE "none"]
  BY <1>8, <1>9, <1>10, <1>11, <1>12, <1>13, Zenon DEF Usage!ReportedBy
<1> HIDE DEF s
<1>16. Usage!Scanned(body) = s
  BY <1>14 DEF s
<1> QED
  BY <1>15, <1>16 DEF Usage!BuildMetrics

\* A body of one event that has a count: the scan has seen something.
LEMMA OneEvent ==
  ASSUME NEW body \in Seq(Reports), Len(body) = 1, Usage!Valid(body[1])
  PROVE  Usage!Scanned(body) = Usage!AddEvent(Usage!Nothing, body[1])
<1>1. Usage!Seen(body) =
        [n \in 0..1 |-> IF n = 0 THEN Usage!Nothing
                        ELSE IF Usage!Valid(body[n]) THEN Usage!AddEvent(Usage!Seen(body)[n - 1], body[n])
                             ELSE Usage!Seen(body)[n - 1]]
  BY SeenIs, Zenon
<1> DEFINE S == Usage!Seen(body)
<1> HIDE DEF S
<1>2. S = [n \in 0..1 |-> IF n = 0 THEN Usage!Nothing
                          ELSE IF Usage!Valid(body[n]) THEN Usage!AddEvent(S[n - 1], body[n])
                               ELSE S[n - 1]]
  BY <1>1, Zenon DEF S
<1>3. 0 \in 0..1 /\ 1 \in 0..1 /\ 1 # 0 /\ 1 - 1 = 0
  OBVIOUS
<1>4. S[0] = Usage!Nothing /\ S[1] = Usage!AddEvent(S[0], body[1])
  BY <1>2, <1>3
<1> QED
  BY <1>4, Zenon DEF Usage!Scanned, S

\* The first event of a scan.
LEMMA FirstEvent ==
  ASSUME NEW event
  PROVE  LET new == Usage!AddEvent(Usage!Nothing, event)
             u == event.usage
             ok == Usage!UsageOk(u)
         IN /\ new.in = IF ok /\ u.in > 0 THEN u.in ELSE 0
            /\ new.out = IF ok /\ u.out > 0 THEN u.out ELSE 0
            /\ new.cached = IF ok /\ u.cached >= 0 THEN u.cached ELSE -1
            /\ new.usage = IF ok THEN u ELSE Usage!NoUsage
            /\ new.timings = event.timings /\ new.metrics = event.metrics
            /\ ok => new.any = TRUE
<1> DEFINE old == Usage!Nothing
<1>1. DOMAIN old = ScanFields
  BY DEF Usage!Nothing, ScanFields
<1>2. /\ old.in = 0 /\ old.out = 0 /\ old.cached = -1 /\ old.usage = Usage!NoUsage
      /\ old.timings = Usage!NoTimings /\ old.metrics = Usage!NoMetrics
  BY DEF Usage!Nothing, Usage!Absent
<1> HIDE DEF old
<1>3. LET new == Usage!AddEvent(old, event)
          u == event.usage
          ok == Usage!UsageOk(u)
      IN /\ new.in = IF ok /\ u.in > 0 THEN u.in ELSE old.in
         /\ new.out = IF ok /\ u.out > 0 THEN u.out ELSE old.out
         /\ new.cached = IF ok /\ u.cached >= 0 THEN u.cached ELSE old.cached
         /\ new.usage = IF ok THEN u ELSE old.usage
         /\ new.timings = IF event.timings # Usage!NoTimings THEN event.timings ELSE old.timings
         /\ new.metrics = IF event.metrics # Usage!NoMetrics THEN event.metrics ELSE old.metrics
         /\ ok => new.any = TRUE
  BY <1>1, EventAdds, Zenon
<1>4. LET new == Usage!AddEvent(old, event)
          u == event.usage
          ok == Usage!UsageOk(u)
      IN /\ new.in = IF ok /\ u.in > 0 THEN u.in ELSE 0
         /\ new.out = IF ok /\ u.out > 0 THEN u.out ELSE 0
         /\ new.cached = IF ok /\ u.cached >= 0 THEN u.cached ELSE -1
         /\ new.usage = IF ok THEN u ELSE Usage!NoUsage
         /\ new.timings = event.timings /\ new.metrics = event.metrics
         /\ ok => new.any = TRUE
  BY <1>2, <1>3
<1> QED
  BY <1>4 DEF old

\* A body that says it all in one part says the same as a stream of that one event.
LEMMA OnePart ==
  ASSUME NEW body \in Seq(Reports), Len(body) = 1, Usage!Valid(body[1]),
         Usage!UsageOk(body[1].usage), NEW infill
  PROVE  /\ Usage!Streamed(body) = Usage!ReportedBy(body)
         /\ Usage!Parsed(body, infill) = Usage!ReportedBy(body)
<1> DEFINE one == body[1]
           u == one.usage
           scan == Usage!Scanned(body)
<1>1. one \in Reports /\ body # <<>> /\ DOMAIN body = {1} /\ 1 \in Nat
  OBVIOUS
<1>2. scan = Usage!AddEvent(Usage!Nothing, one)
  BY OneEvent
<1>3. DOMAIN Usage!Nothing = ScanFields
  BY DEF Usage!Nothing, ScanFields
<1>4. u \in [in : Nat \union {-1}, out : Nat \union {-1}, cached : Nat \union {-1}, rate : BOOLEAN]
  BY <1>1, UsageAssumption DEF Usage!Valid
<1> HIDE DEF one
<1>6. LET said == one.usage
          ok == Usage!UsageOk(said)
      IN /\ scan.in = IF ok /\ said.in > 0 THEN said.in ELSE 0
         /\ scan.out = IF ok /\ said.out > 0 THEN said.out ELSE 0
         /\ scan.cached = IF ok /\ said.cached >= 0 THEN said.cached ELSE -1
         /\ scan.usage = IF ok THEN said ELSE Usage!NoUsage
         /\ scan.timings = one.timings /\ scan.metrics = one.metrics
         /\ ok => scan.any = TRUE
  <2> HIDE DEF scan, u
  <2> QED
    BY <1>2, FirstEvent, Zenon
<1> HIDE DEF scan
<1>7. Usage!UsageOk(u)
  BY DEF one
<1> HIDE DEF u
<1>8. /\ scan.in = Usage!OrZero(u.in) /\ scan.out = Usage!OrZero(u.out) /\ scan.cached = u.cached
      /\ scan.usage = u /\ scan.timings = one.timings /\ scan.metrics = one.metrics
      /\ scan.any = TRUE
  BY <1>4, <1>6, <1>7 DEF Usage!OrZero, Usage!Absent, u
<1>9. Usage!BuildMetrics(scan) = Usage!ReportedBy(body)
  BY ScannedReports DEF scan
<1>10. Usage!Streamed(body) = Usage!ReportedBy(body)
  BY <1>8, <1>9, Zenon DEF Usage!Streamed, scan
<1>11. Usage!Parsed(body, infill) = Usage!ReportedBy(body)
  <2> DEFINE parsed == [Usage!Nothing EXCEPT !.in = Usage!OrZero(u.in), !.out = Usage!OrZero(u.out),
                                           !.cached = u.cached, !.usage = u,
                                           !.timings = one.timings, !.metrics = one.metrics]
  <2>1. <<u, one.timings, one.metrics>> # <<Usage!NoUsage, Usage!NoTimings, Usage!NoMetrics>>
    <3>1. u # Usage!NoUsage
      BY <1>7 DEF Usage!UsageOk, Usage!NoUsage
    <3> QED
      BY <3>1
  <2>2. ~(Len(body) > 1) /\ ~(\E i \in DOMAIN body : ~Usage!Valid(body[i])) /\ body[Len(body)] = one
    BY <1>1 DEF one
  <2>3. Usage!Parsed(body, infill) = Usage!BuildMetrics(parsed)
    BY <1>1, <2>1, <2>2, Zenon DEF Usage!Parsed, u
  <2>4. /\ parsed.in = scan.in /\ parsed.out = scan.out /\ parsed.cached = scan.cached
        /\ parsed.usage = scan.usage /\ parsed.timings = scan.timings /\ parsed.metrics = scan.metrics
    BY <1>3, <1>8 DEF ScanFields
  <2> HIDE DEF parsed
  <2>5. Usage!BuildMetrics(parsed) = Usage!BuildMetrics(scan)
    BY <2>4, SameMetrics, Zenon
  <2> QED
    BY <1>9, <2>3, <2>5, Zenon
<1> QED
  BY <1>10, <1>11

\* What a stream's entry has is no tokens at all, or what the stream reports.
LEMMA StreamReports ==
  ASSUME NEW body \in Seq(Reports), Usage!Streamed(body) # Usage!NoTokens
  PROVE  Usage!Streamed(body) = Usage!ReportedBy(body)
  BY ScannedReports, Zenon DEF Usage!Streamed

Codes == {100, 101, 200, 499, 500}
CodesOrNone == {0} \union Codes
Recorders == [wroteHeader : BOOLEAN, status : Codes, body : Seq(Reports)]
Clients == [status : CodesOrNone, body : Seq(Reports)]

LEMMA CodeValues ==
  /\ 200 \in Codes /\ 499 \in Codes /\ {100, 101, 200, 500} \subseteq Codes
  /\ 0 \in CodesOrNone /\ 200 \in CodesOrNone /\ Codes \subseteq CodesOrNone
  BY DEF Codes, CodesOrNone

UsageTypes ==
  /\ meter \in {"start", "handling", "unmetered", "returned", "recorded"}
  /\ recorder \in Recorders /\ client \in Clients
  /\ meter # "recorded" => entry = Usage!NoEntry

\* Before the header the recorder has its defaults and the client nothing; net/http's
\* own 200 is sent when the handler returns, unless the client has left.
HeaderPending ==
  /\ recorder.body = <<>> /\ client.body = <<>>
  /\ meter \in {"start", "handling", "unmetered"} => recorder.status = 200 /\ client.status = 0
  /\ meter \in {"returned", "recorded"} =>
       \/ clientGone /\ recorder.status = 499 /\ client.status = 0
       \/ ~clientGone /\ recorder.status = 200 /\ client.status = 200

\* After it the recorder has what the client got, but for an interim status and for
\* what follows an upgrade.
HeaderSent ==
  /\ recorder.status # 499
  /\ recorder.status # 100 => client.status = recorder.status
  /\ recorder.status # 101 => recorder.body = client.body

UsageInv ==
  /\ UsageTypes
  /\ IF recorder.wroteHeader THEN HeaderSent ELSE HeaderPending
  /\ Usage!EntryIsTrue

LEMMA UsageStarts == Usage!Init => UsageInv
<1> SUFFICES ASSUME Usage!Init PROVE UsageInv
  OBVIOUS
<1>1. UsageTypes /\ ~recorder.wroteHeader /\ HeaderPending
  BY CodeValues DEF Usage!Init, UsageTypes, Recorders, Clients, HeaderPending
<1>2. Usage!EntryIsTrue
  BY Zenon DEF Usage!Init, Usage!EntryIsTrue
<1> QED
  BY <1>1, <1>2 DEF UsageInv

\* As long as nothing is recorded there is no entry to be true.
LEMMA NotRecorded == ASSUME meter' # "recorded" PROVE Usage!EntryIsTrue'
  BY Zenon DEF Usage!EntryIsTrue

LEMMA HeaderWrittenKeeps ==
  ASSUME UsageInv, NEW code \in {100, 101, 200, 500}, Usage!HandlerWritesHeader(code)
  PROVE  UsageInv'
<1>1. meter = "handling" /\ meter' = meter /\ entry' = entry
  BY DEF Usage!HandlerWritesHeader
<1>2. Usage!EntryIsTrue'
  BY <1>1, NotRecorded
<1>3. CASE recorder.wroteHeader
  <2>1. recorder' = recorder /\ client' = client
    BY <1>3 DEF Usage!HandlerWritesHeader, Usage!WriteHeader
  <2>2. UsageTypes' /\ recorder'.wroteHeader /\ HeaderSent'
    BY <1>1, <1>3, <2>1 DEF UsageInv, UsageTypes, Recorders, Codes, HeaderSent
  <2> QED
    BY <1>2, <2>2 DEF UsageInv
<1>4. CASE ~recorder.wroteHeader
  <2>1. HeaderPending /\ client.status = 0 /\ UsageTypes
    BY <1>1, <1>4 DEF UsageInv, HeaderPending
  <2>2. /\ recorder' = [recorder EXCEPT !.wroteHeader = TRUE, !.status = code]
        /\ client' = IF code = 100 THEN client ELSE [client EXCEPT !.status = code]
    BY <1>4, <2>1 DEF Usage!HandlerWritesHeader, Usage!WriteHeader
  <2>3. /\ recorder'.wroteHeader /\ recorder'.status = code /\ recorder'.body = recorder.body
        /\ client'.body = client.body /\ (code # 100 => client'.status = code)
    BY <2>1, <2>2 DEF UsageTypes, Recorders, Clients
  <2>4. UsageTypes'
    <3>1. code \in Codes /\ code \in CodesOrNone
      BY CodeValues
    <3>2. recorder' \in Recorders
      BY <2>1, <2>2, <3>1 DEF UsageTypes, Recorders
    <3>3. client' \in Clients
      BY <2>1, <2>2, <3>1 DEF UsageTypes, Clients
    <3> QED
      BY <1>1, <2>1, <3>2, <3>3 DEF UsageTypes
  <2>5. HeaderSent'
    BY <2>1, <2>3 DEF HeaderPending, HeaderSent
  <2> QED
    BY <1>2, <2>3, <2>4, <2>5 DEF UsageInv
<1> QED
  BY <1>3, <1>4

LEMMA WrittenKeeps ==
  ASSUME UsageInv, NEW event \in Reports, Usage!HandlerWrites(event)
  PROVE  UsageInv'
<1> DEFINE c == Usage!WriteHeader(recorder, 200)
<1>1. meter = "handling" /\ meter' = meter /\ entry' = entry
  BY DEF Usage!HandlerWrites
<1>2. Usage!EntryIsTrue'
  BY <1>1, NotRecorded
<1>3. UsageTypes
  BY DEF UsageInv
<1>4. /\ c \in Recorders /\ c.wroteHeader /\ c.body = recorder.body
      /\ c.status = IF recorder.wroteHeader THEN recorder.status ELSE 200
  <2>1. c = IF recorder.wroteHeader THEN recorder ELSE [recorder EXCEPT !.wroteHeader = TRUE, !.status = 200]
    BY DEF Usage!WriteHeader
  <2> HIDE DEF c
  <2>2. c \in Recorders
    <3>1. 200 \in Codes /\ recorder \in Recorders
      BY <1>3, CodeValues DEF UsageTypes
    <3> QED
      BY <2>1, <3>1 DEF Recorders
  <2>3. /\ c.wroteHeader /\ c.body = recorder.body
        /\ c.status = IF recorder.wroteHeader THEN recorder.status ELSE 200
    BY <1>3, <2>1, CodeValues DEF UsageTypes, Recorders
  <2> QED
    BY <2>2, <2>3
<1>5. recorder' = IF c.status = 101 THEN c ELSE [c EXCEPT !.body = Append(@, event)]
  BY DEF Usage!HandlerWrites
<1>6. client' = [status |-> IF client.status = 0 THEN 200 ELSE client.status,
                 body |-> Append(client.body, event)]
  BY DEF Usage!HandlerWrites
<1> HIDE DEF c
<1>7. UsageTypes'
  <2>1. recorder' \in Recorders
    BY <1>4, <1>5 DEF Recorders
  <2>2. client' \in Clients
    <3>1. (IF client.status = 0 THEN 200 ELSE client.status) \in CodesOrNone
      BY <1>3, CodeValues DEF UsageTypes, Clients
    <3> QED
      BY <1>3, <1>6, <3>1 DEF UsageTypes, Clients
  <2> QED
    BY <1>1, <1>3, <2>1, <2>2 DEF UsageTypes
<1>8. /\ recorder'.wroteHeader /\ recorder'.status = c.status
      /\ c.status # 101 => recorder'.body = Append(recorder.body, event)
      /\ client'.body = Append(client.body, event)
      /\ client'.status = IF client.status = 0 THEN 200 ELSE client.status
  <2>1. /\ recorder'.wroteHeader /\ recorder'.status = c.status
        /\ c.status # 101 => recorder'.body = Append(c.body, event)
    <3>1. CASE c.status = 101
      BY <1>4, <1>5, <3>1
    <3>2. CASE c.status # 101
      BY <1>4, <1>5, <3>2 DEF Recorders
    <3> QED
      BY <3>1, <3>2
  <2>2. /\ client'.body = Append(client.body, event)
        /\ client'.status = IF client.status = 0 THEN 200 ELSE client.status
    BY <1>6
  <2> QED
    BY <1>4, <2>1, <2>2
<1>9. HeaderSent'
  <2>1. CASE recorder.wroteHeader
    <3>1. c.status = recorder.status /\ c.status # 0 /\ HeaderSent
      BY <1>3, <1>4, <2>1 DEF UsageInv, UsageTypes, Recorders, Codes
    <3> QED
      BY <1>8, <3>1 DEF HeaderSent
  <2>2. CASE ~recorder.wroteHeader
    BY <1>1, <1>4, <1>8, <2>2 DEF UsageInv, HeaderPending, HeaderSent
  <2> QED
    BY <2>1, <2>2
<1> QED
  BY <1>2, <1>7, <1>8, <1>9 DEF UsageInv

LEMMA FlushedKeeps ==
  ASSUME UsageInv, Usage!HandlerFlushes
  PROVE  UsageInv'
<1>1. meter = "handling" /\ meter' = meter /\ entry' = entry
  BY DEF Usage!HandlerFlushes
<1>2. Usage!EntryIsTrue'
  BY <1>1, NotRecorded
<1>3. UsageTypes
  BY DEF UsageInv
<1>4. /\ recorder' = IF recorder.wroteHeader THEN recorder
                     ELSE [recorder EXCEPT !.wroteHeader = TRUE, !.status = 200]
      /\ client' = [client EXCEPT !.status = IF client.status = 0 THEN 200 ELSE client.status]
  BY DEF Usage!HandlerFlushes, Usage!WriteHeader
<1>5. UsageTypes'
  <2>1. recorder' \in Recorders
    <3>1. 200 \in Codes /\ 499 \in Codes /\ recorder \in Recorders
      BY <1>3, CodeValues DEF UsageTypes
    <3> QED
      BY <1>4, <3>1 DEF Recorders
  <2>2. client' \in Clients
    <3>1. (IF client.status = 0 THEN 200 ELSE client.status) \in CodesOrNone
      BY <1>3, CodeValues DEF UsageTypes, Clients
    <3> QED
      BY <1>3, <1>4, <3>1 DEF UsageTypes, Clients
  <2> QED
    BY <1>1, <1>3, <2>1, <2>2 DEF UsageTypes
<1>6. /\ recorder'.wroteHeader /\ recorder'.body = recorder.body /\ client'.body = client.body
      /\ recorder'.status = IF recorder.wroteHeader THEN recorder.status ELSE 200
      /\ client'.status = IF client.status = 0 THEN 200 ELSE client.status
  <2>1. /\ recorder'.wroteHeader /\ recorder'.body = recorder.body
        /\ recorder'.status = IF recorder.wroteHeader THEN recorder.status ELSE 200
    BY <1>3, <1>4 DEF UsageTypes, Recorders
  <2>2. /\ client'.body = client.body
        /\ client'.status = IF client.status = 0 THEN 200 ELSE client.status
    BY <1>3, <1>4 DEF UsageTypes, Clients
  <2> QED
    BY <2>1, <2>2
<1>7. HeaderSent'
  <2>1. CASE recorder.wroteHeader
    BY <1>3, <1>6, <2>1 DEF UsageInv, UsageTypes, Recorders, Codes, HeaderSent
  <2>2. CASE ~recorder.wroteHeader
    BY <1>1, <1>6, <2>2 DEF UsageInv, HeaderPending, HeaderSent
  <2> QED
    BY <2>1, <2>2
<1> QED
  BY <1>2, <1>5, <1>6, <1>7 DEF UsageInv

LEMMA ReturnedKeeps ==
  ASSUME UsageInv, Usage!HandlerReturns
  PROVE  UsageInv'
<1>1. meter = "handling" /\ meter' = "returned" /\ clientGone' = clientGone /\ entry' = entry
  BY DEF Usage!HandlerReturns
<1>2. Usage!EntryIsTrue'
  BY <1>1, NotRecorded
<1>3. UsageTypes
  BY DEF UsageInv
<1>4. /\ recorder' = IF ~recorder.wroteHeader /\ clientGone THEN [recorder EXCEPT !.status = 499]
                     ELSE recorder
      /\ client' = IF clientGone THEN client
                   ELSE [client EXCEPT !.status = IF client.status = 0 THEN 200 ELSE client.status]
  BY DEF Usage!HandlerReturns, Usage!ClientClosed
<1>5. UsageTypes'
  <2>1. recorder' \in Recorders
    <3>1. 200 \in Codes /\ 499 \in Codes /\ recorder \in Recorders
      BY <1>3, CodeValues DEF UsageTypes
    <3> QED
      BY <1>4, <3>1 DEF Recorders
  <2>2. client' \in Clients
    <3>1. (IF client.status = 0 THEN 200 ELSE client.status) \in CodesOrNone
      BY <1>3, CodeValues DEF UsageTypes, Clients
    <3> QED
      BY <1>3, <1>4, <3>1 DEF UsageTypes, Clients
  <2> QED
    BY <1>1, <1>3, <2>1, <2>2 DEF UsageTypes
<1>6. /\ recorder'.wroteHeader = recorder.wroteHeader
      /\ recorder'.body = recorder.body /\ client'.body = client.body
      /\ recorder'.status = IF ~recorder.wroteHeader /\ clientGone THEN 499 ELSE recorder.status
      /\ client'.status = IF ~clientGone /\ client.status = 0 THEN 200 ELSE client.status
  <2>1. /\ recorder'.wroteHeader = recorder.wroteHeader /\ recorder'.body = recorder.body
        /\ recorder'.status = IF ~recorder.wroteHeader /\ clientGone THEN 499 ELSE recorder.status
    BY <1>3, <1>4 DEF UsageTypes, Recorders
  <2>2. /\ client'.body = client.body
        /\ client'.status = IF ~clientGone /\ client.status = 0 THEN 200 ELSE client.status
    BY <1>3, <1>4 DEF UsageTypes, Clients
  <2> QED
    BY <2>1, <2>2
<1>7. CASE recorder.wroteHeader
  <2>1. HeaderSent'
    BY <1>3, <1>6, <1>7 DEF UsageInv, UsageTypes, Recorders, Codes, HeaderSent
  <2> QED
    BY <1>2, <1>5, <1>6, <1>7, <2>1 DEF UsageInv
<1>8. CASE ~recorder.wroteHeader
  <2>1. HeaderPending'
    BY <1>1, <1>6, <1>8 DEF UsageInv, HeaderPending
  <2> QED
    BY <1>2, <1>5, <1>6, <1>8, <2>1 DEF UsageInv
<1> QED
  BY <1>7, <1>8

LEMMA RecordedKeeps ==
  ASSUME UsageInv, Usage!Record
  PROVE  UsageInv'
<1> DEFINE status == recorder.status
           got == recorder.body
           readable == answer.encoding # "broken"
           Entry(error, tokens, capture) ==
             [status |-> status, error |-> error, tokens |-> tokens, capture |-> capture]
<1>1. /\ meter = "returned" /\ meter' = "recorded"
      /\ UNCHANGED <<answer, recorder, client, clientGone>>
  BY Zenon DEF Usage!Record
<1> DEFINE failed == IF readable \/ got = <<>> THEN "upstream" ELSE "decode"
           left == Entry("disconnected", Usage!NoTokens, Usage!NoCapture)
           refused == Entry(failed, Usage!NoTokens, Usage!Capture(<<>>))
           empty == Entry("", Usage!NoTokens, Usage!NoCapture)
           garbled == Entry("decode", Usage!NoTokens, Usage!NoCapture)
           full == Entry("", Usage!Tokens(got), Usage!Capture(got))
<1>2. entry' = entry \/ entry' =
        CASE status = 499 -> left
          [] status \notin {200, 499} -> refused
          [] status = 200 /\ got = <<>> -> empty
          [] status = 200 /\ got # <<>> /\ ~readable -> garbled
          [] OTHER -> full
  BY Zenon DEF Usage!Record, Usage!ClientClosed
<1>3. UsageTypes /\ UsageTypes'
  BY <1>1 DEF UsageInv, UsageTypes
<1>4. IF recorder'.wroteHeader THEN HeaderSent' ELSE HeaderPending'
  BY <1>1 DEF UsageInv, HeaderSent, HeaderPending
<1>5. /\ status = 499 => client.status = 0
      /\ status \in {101, 200, 500} => client.status = status
      /\ status # 101 => got = client.body
  <2>1. CASE recorder.wroteHeader
    BY <2>1 DEF UsageInv, HeaderSent
  <2>2. CASE ~recorder.wroteHeader
    BY <1>1, <2>2 DEF UsageInv, HeaderPending
  <2> QED
    BY <2>1, <2>2
<1>6. got \in Seq(Reports) /\ client.body \in Seq(Reports) /\ status \in {100, 101, 200, 499, 500}
  BY <1>3 DEF UsageTypes, Recorders, Clients, Codes
<1> DEFINE Says(error, tokens, capture) ==
             /\ (error = "") <=> (client.status = 200 /\ (client.body = <<>> \/ readable))
             /\ capture.kept => answer.captures /\ client.status # 0
             /\ capture.kept /\ capture.response # <<>> =>
                  client.status = 200 /\ answer.keepResponse /\ capture.response = client.body
             /\ answer.type = "stream" /\ tokens # Usage!NoTokens => tokens = Usage!ReportedBy(client.body)
             /\ Len(client.body) = 1 /\ error = "" /\ Usage!Valid(client.body[1]) =>
                  (Usage!UsageOk(client.body[1].usage) => tokens = Usage!ReportedBy(client.body))
<1>7. ASSUME NEW error, NEW tokens, NEW capture, entry' = Entry(error, tokens, capture), status # 100,
             Says(error, tokens, capture)
      PROVE  Usage!EntryIsTrue'
  <2>1. /\ entry'.status = status /\ entry'.error = error
        /\ entry'.tokens = tokens /\ entry'.capture = capture
    <3> HIDE DEF status
    <3>1. entry' = [status |-> status, error |-> error, tokens |-> tokens, capture |-> capture]
      BY <1>7, Zenon
    <3> QED
      BY <3>1, SMT
  <2>2. answer' = answer /\ client' = client
    BY <1>1
  <2>3. status = IF client.status = 0 THEN 499 ELSE client.status
    <3>1. status # 100
      BY <1>7, Zenon
    <3> HIDE DEF status
    <3> QED
      BY <1>5, <1>6, <3>1
  <2>4. Usage!ReportedBy(client.body)' = Usage!ReportedBy(client.body)
    BY <2>2
  <2> HIDE DEF status, got, readable
  <2> QED
    BY <1>7, <2>1, <2>2, <2>3, <2>4, Zenon DEF Says, Usage!EntryIsTrue, Usage!ClientClosed, readable
<1> HIDE DEF status, got, readable, Says, failed, left, refused, empty, garbled, full, Entry
<1>8. CASE entry' = entry
  <2>1. entry' = Usage!NoEntry
    BY <1>1, <1>3, <1>8 DEF UsageTypes
  <2> QED
    BY <1>3, <1>4, <2>1, Zenon DEF UsageInv, Usage!EntryIsTrue
<1>9. CASE entry' # entry
  <2>1. Usage!EntryIsTrue'
    <3>1. CASE status = 100
      BY <1>1, <3>1, Zenon DEF Usage!EntryIsTrue, Usage!Interim, status
    <3> DEFINE tokens == Usage!Tokens(got)
               kept == Usage!Capture(got)
               none == Usage!Capture(<<>>)
    <3> HIDE DEF tokens, kept, none
    <3>2. CASE status = 499
      <4>1. entry' = Entry("disconnected", Usage!NoTokens, Usage!NoCapture)
        <5>1. entry' = left
          BY <1>2, <1>9, <3>2
        <5> QED
          BY <5>1, Zenon DEF left
      <4>2. client.status = 0 /\ Usage!NoCapture.kept = FALSE /\ "disconnected" # ""
        BY <1>5, <3>2 DEF Usage!NoCapture
      <4>3. status # 100
        BY <3>2
      <4> QED
        <5>1. Says("disconnected", Usage!NoTokens, Usage!NoCapture)
          BY <4>2 DEF Says
        <5> QED
          BY <1>7, <4>1, <4>3, <5>1, Zenon
    <3>3. CASE status \in {101, 500}
      <4>1. entry' = Entry(failed, Usage!NoTokens, none)
        <5>1. entry' = refused
          BY <1>2, <1>9, <3>3
        <5> QED
          BY <5>1, Zenon DEF refused, none
      <4>2. client.status = status /\ client.status # 200 /\ client.status # 0 /\ failed # ""
        BY <1>5, <3>3 DEF failed
      <4>3. /\ none.kept => answer.captures
            /\ none.kept => none.response = <<>>
        <5>1. CASE ~answer.captures
          BY <5>1 DEF Usage!Capture, none
        <5>2. CASE answer.captures
          BY <5>2 DEF Usage!Capture, none
        <5> QED
          BY <5>1, <5>2
      <4>4. status # 100
        BY <3>3
      <4> QED
        <5>1. Says(failed, Usage!NoTokens, none)
          BY <4>2, <4>3, Zenon DEF Says
        <5> QED
          BY <1>7, <4>1, <4>4, <5>1, Zenon
    <3>4. CASE status = 200 /\ got = <<>>
      <4>1. entry' = Entry("", Usage!NoTokens, Usage!NoCapture)
        <5>1. entry' = empty
          BY <1>2, <1>9, <3>4
        <5> QED
          BY <5>1, Zenon DEF empty
      <4>2. client.status = 200 /\ client.body = <<>> /\ Len(client.body) # 1 /\ Usage!NoCapture.kept = FALSE
        BY <1>5, <3>4 DEF Usage!NoCapture
      <4>3. status # 100
        BY <3>4
      <4> QED
        <5>1. Says("", Usage!NoTokens, Usage!NoCapture)
          BY <4>2 DEF Says
        <5> QED
          BY <1>7, <4>1, <4>3, <5>1, Zenon
    <3>5. CASE status = 200 /\ got # <<>> /\ ~readable
      <4>1. entry' = Entry("decode", Usage!NoTokens, Usage!NoCapture)
        <5>1. entry' = garbled
          BY <1>2, <1>9, <3>5
        <5> QED
          BY <5>1, Zenon DEF garbled
      <4>2. ~readable /\ client.body # <<>> /\ Usage!NoCapture.kept = FALSE /\ "decode" # ""
        BY <1>5, <3>5 DEF Usage!NoCapture
      <4>3. status # 100
        BY <3>5
      <4> QED
        <5>1. Says("decode", Usage!NoTokens, Usage!NoCapture)
          BY <4>2 DEF Says
        <5> QED
          BY <1>7, <4>1, <4>3, <5>1, Zenon
    <3>6. CASE status = 200 /\ got # <<>> /\ readable
      <4>1. entry' = Entry("", tokens, kept)
        <5>1. entry' = full
          BY <1>2, <1>9, <3>6
        <5> QED
          BY <5>1, Zenon DEF full, tokens, kept
      <4>2. client.status = 200 /\ readable /\ got = client.body
        BY <1>5, <3>6
      <4>3. /\ kept.kept => answer.captures
            /\ kept.kept /\ kept.response # <<>> => answer.keepResponse /\ kept.response = got
        <5>1. CASE ~answer.captures
          BY <5>1 DEF Usage!Capture, kept
        <5>2. CASE answer.captures
          <6>1. kept = [kept |-> TRUE, request |-> answer.keepRequest,
                        response |-> IF answer.keepResponse THEN got ELSE <<>>]
            BY <5>2 DEF Usage!Capture, kept
          <6> QED
            BY <5>2, <6>1
        <5> QED
          BY <5>1, <5>2
      <4>4. answer.type = "stream" /\ tokens # Usage!NoTokens => tokens = Usage!ReportedBy(client.body)
        BY <1>6, <4>2, StreamReports, Zenon DEF Usage!Tokens, tokens
      <4>5. Len(client.body) = 1 /\ Usage!Valid(client.body[1]) =>
              (Usage!UsageOk(client.body[1].usage) => tokens = Usage!ReportedBy(client.body))
        <5>1. tokens = Usage!Streamed(client.body) \/ \E infill \in BOOLEAN : tokens = Usage!Parsed(client.body, infill)
          BY <4>2, Zenon DEF Usage!Tokens, tokens
        <5> QED
          BY <1>6, <5>1, OnePart, SMT
      <4>6. status # 100
        BY <3>6
      <4> QED
        <5>1. Says("", tokens, kept)
          BY <4>2, <4>3, <4>4, <4>5 DEF Says
        <5> QED
          BY <1>7, <4>1, <4>6, <5>1, Zenon
    <3> QED
      BY <1>6, <3>1, <3>2, <3>3, <3>4, <3>5, <3>6
  <2> QED
    BY <1>3, <1>4, <2>1, Zenon DEF UsageInv
<1> QED
  BY <1>8, <1>9

LEMMA UsageStep == UsageInv /\ [Usage!Next]_(Usage!usageVars) => UsageInv'
<1> SUFFICES ASSUME UsageInv, [Usage!Next]_(Usage!usageVars) PROVE UsageInv'
  OBVIOUS
<1>1. CASE \E a \in AnswerKinds : Usage!Arrive(a)
  <2>1. /\ meter = "start" /\ meter' \in {"handling", "unmetered"}
        /\ UNCHANGED <<recorder, client, clientGone, entry>>
    BY <1>1 DEF Usage!Arrive
  <2>2. UsageTypes'
    BY <2>1 DEF UsageInv, UsageTypes
  <2>3. IF recorder'.wroteHeader THEN HeaderSent' ELSE HeaderPending'
    BY <2>1 DEF UsageInv, HeaderSent, HeaderPending
  <2> QED
    BY <2>1, <2>2, <2>3, NotRecorded DEF UsageInv
<1>2. CASE \E code \in {100, 101, 200, 500} : Usage!HandlerWritesHeader(code)
  BY <1>2, HeaderWrittenKeeps
<1>3. CASE \E event \in Reports : Usage!HandlerWrites(event)
  BY <1>3, WrittenKeeps
<1>4. CASE Usage!HandlerFlushes
  BY <1>4, FlushedKeeps
<1>5. CASE Usage!ClientLeaves
  <2>1. meter = "handling" /\ UNCHANGED <<meter, recorder, client, entry>>
    BY <1>5 DEF Usage!ClientLeaves
  <2>2. UsageTypes'
    BY <2>1 DEF UsageInv, UsageTypes
  <2>3. IF recorder'.wroteHeader THEN HeaderSent' ELSE HeaderPending'
    BY <2>1 DEF UsageInv, HeaderSent, HeaderPending
  <2> QED
    BY <2>1, <2>2, <2>3, NotRecorded DEF UsageInv
<1>6. CASE Usage!HandlerReturns
  BY <1>6, ReturnedKeeps
<1>7. CASE Usage!Record
  BY <1>7, RecordedKeeps
<1>8. CASE UNCHANGED Usage!usageVars
  BY <1>8, Zenon DEF Usage!usageVars, UsageInv, UsageTypes, HeaderSent, HeaderPending,
              Usage!EntryIsTrue, Usage!Interim
<1> QED
  BY <1>1, <1>2, <1>3, <1>4, <1>5, <1>6, <1>7, <1>8 DEF Usage!Next

\* A recorded request, for any answers and any bodies.
THEOREM UsageSound == Usage!Spec => []Usage!EntryIsTrue
<1>1. UsageInv => Usage!EntryIsTrue
  BY DEF UsageInv
<1> QED
  BY <1>1, UsageStarts, UsageStep, PTL DEF Usage!Spec

-----------------------------------------------------------------------------
(* Side by side.                                                           *)

\* Whatever part runs, each of these parts takes its own steps or none.
LEMMA RequestsSideBySide ==
  PartsSpec => /\ Pipe!Spec /\ Body!Spec /\ Act!Spec /\ Usage!Spec
<1>1. [PartsNext]_partsVars => [Pipe!Next]_(Pipe!pipeVars)
  BY DEF PartsNext, partsVars, pipelineVars, Pipe!pipeVars
<1>2. [PartsNext]_partsVars => [Body!Next]_(Body!bodyVars)
  BY DEF PartsNext, partsVars, bodiesVars, Body!bodyVars
<1>3. [PartsNext]_partsVars => [Act!Next]_(Act!actVars)
  BY DEF PartsNext, partsVars, activityVars, Act!actVars
<1>4. [PartsNext]_partsVars => [Usage!Next]_(Usage!usageVars)
  BY DEF PartsNext, partsVars, usageVars, Usage!usageVars
<1>5. PartsInit =>
         /\ Pipe!Init /\ Body!Init /\ Act!Init /\ Usage!Init
  BY DEF PartsInit
<1> QED
  BY <1>1, <1>2, <1>3, <1>4, <1>5, PTL
  DEF PartsSpec, Pipe!Spec, Body!Spec, Act!Spec, Usage!Spec

\* A request gives back what it takes, once, whatever way it leaves; choices that are
\* made at the same time are fair; and its name and parameters survive every rewriting
\* (selector.go, concurrency.go, http.go, filters.go).
THEOREM PipelineStaysSound == PartsSpec => []PipelineIsSound
<1>1. Pipe!PipelineIsSound /\ Body!BodiesAreSound => PipelineIsSound
  BY DEF PipelineIsSound
<1> QED
  BY <1>1, PipeSound, BodySound, RequestsSideBySide, PTL

\* The cache of captures keeps its books, a row shows its own request's capture and no
\* other's, a store in memory keeps the newest rows; a row's tokens are what the answer
\* reported and its capture is what the client got (metrics.go, cache.go,
\* metrics_middleware.go).
THEOREM ActivityStaysConsistent == PartsSpec => []ActivityConsistent
<1>1. Act!ActivityConsistent /\ Usage!EntryIsTrue => ActivityConsistent
  BY DEF ActivityConsistent
<1> QED
  BY <1>1, ActSound, UsageSound, RequestsSideBySide, PTL
=============================================================================
