------------------------- MODULE OrchestratorProofs -------------------------
(***************************************************************************)
(* OrderedOrReported of PipelineEngine, for any stages: what getExecution- *)
(* Order lists is what can run, and the searches for cycles end and find   *)
(* them, whatever the graph.                                               *)
(*                                                                         *)
(* NeverTerminates and ReportsTrue of KillSwitch, for any callers and      *)
(* components and any number of triggers, as long as nobody cancels or     *)
(* forces a shutdown: a cancelled one leaves a thread that the next        *)
(* trigger destroys, and forceImmediate opens mutex_ under other callers.  *)
(* And SignalReachesSwitch of EmergencyStop, as long as nobody resets or   *)
(* disables the switch.                                                    *)
(***************************************************************************)
EXTENDS PipelineEngine, EmergencyStop, FiniteSetTheorems, WellFoundedInduction, TLAPS

-----------------------------------------------------------------------------
(* Induction, and functions defined by it.                                 *)

LEMMA LeastThere ==
  ASSUME NEW Out \in SUBSET Nat, Out # {}
  PROVE  \E m \in Out : \A k \in Out : m <= k
<1> DEFINE R == {q \in Nat \X Nat : q[1] < q[2]}
<1>1. IsWellFoundedOn(R, Nat)
  BY NatLessThanWellFounded DEF OpToRel
<1> HIDE DEF R
<1>2. PICK m \in Out : \A y \in Out : ~ (<<y, m>> \in R)
  BY <1>1, WFMin
<1>3. ASSUME NEW k \in Out PROVE m <= k
  <2>1. ~ (<<k, m>> \in R) /\ k \in Nat /\ m \in Nat
    BY <1>2
  <2>2. QED
    BY <2>1 DEF R
<1>4. QED
  BY <1>3

\* What holds of 0, and of each number with the one before it, holds up to n.
LEMMA Upwards ==
  ASSUME NEW n \in Nat, NEW S, 0 \in S, \A k \in 1 .. n : k - 1 \in S => k \in S
  PROVE  \A k \in 0 .. n : k \in S
<1> DEFINE Out == {k \in 0 .. n : k \notin S}
<1> SUFFICES ASSUME Out # {} PROVE FALSE
  OBVIOUS
<1>1. PICK m \in Out : \A k \in Out : m <= k
  <2>1. Out \in SUBSET Nat
    OBVIOUS
  <2> HIDE DEF Out
  <2>2. QED
    BY <2>1, LeastThere
<1>2. m \in 1 .. n /\ m \notin S
  OBVIOUS
<1>3. m - 1 \in 0 .. n /\ ~(m <= m - 1)
  BY <1>2
<1>4. m - 1 \in S
  BY <1>1, <1>3
<1>5. QED
  BY <1>2, <1>4

\* A loop of n turns computes something.
Computed(f, V, n, base, step) ==
  f \in [0 .. n -> V] /\ f[0] = base /\ \A k \in 1 .. n : f[k] = step[<<k, f[k - 1]>>]

LEMMA Loops ==
  ASSUME NEW V, NEW n \in Nat, NEW base \in V, NEW step \in [(1 .. n) \X V -> V]
  PROVE  \E f : Computed(f, V, n, base, step)
<1> DEFINE Upto(f, m) == /\ f \in [0 .. m -> V] /\ f[0] = base
                         /\ \A k \in 1 .. m : f[k] = step[<<k, f[k - 1]>>]
           There == {m \in 0 .. n : \E f : Upto(f, m)}
<1>1. 0 \in There
  <2>1. Upto([i \in 0 .. 0 |-> base], 0) /\ 0 \in 0 .. n
    OBVIOUS
  <2> HIDE DEF Upto
  <2>2. QED
    BY <2>1
<1>2. ASSUME NEW m \in 1 .. n, m - 1 \in There PROVE m \in There
  <2>1. PICK f : Upto(f, m - 1)
    BY <1>2
  <2> DEFINE g == [i \in 0 .. m |-> IF i = m THEN step[<<m, f[m - 1]>>] ELSE f[i]]
  <2>2. f[m - 1] \in V /\ step[<<m, f[m - 1]>>] \in V
    BY <2>1
  <2>3. g \in [0 .. m -> V] /\ g[0] = base
    BY <2>1, <2>2
  <2>4. ASSUME NEW k \in 1 .. m PROVE g[k] = step[<<k, g[k - 1]>>]
    <3>1. k - 1 \in 0 .. m /\ k - 1 # m
      OBVIOUS
    <3>2. g[k - 1] = f[k - 1]
      BY <3>1
    <3>3. CASE k = m
      <4>1. g[m] = step[<<m, f[m - 1]>>]
        OBVIOUS
      <4>2. QED
        BY <3>2, <3>3, <4>1
    <3>4. CASE k # m
      <4>1. k \in 1 .. m - 1 /\ k \in 0 .. m
        BY <3>4
      <4>2. g[k] = f[k]
        BY <3>4, <4>1
      <4>3. f[k] = step[<<k, f[k - 1]>>]
        BY <2>1, <4>1
      <4>4. QED
        BY <3>2, <4>2, <4>3
    <3>5. QED
      BY <3>3, <3>4
  <2> HIDE DEF g
  <2>5. Upto(g, m)
    BY <2>3, <2>4
  <2> HIDE DEF Upto
  <2>6. QED
    BY <2>5
<1>3. n \in There
  <2> HIDE DEF There
  <2>1. \A m \in 0 .. n : m \in There
    BY <1>1, <1>2, Upwards
  <2>2. QED
    BY <2>1
<1>4. QED
  BY <1>3 DEF Computed

\* Of n sets that grow within one of no more than n members, the last is all of it, unless
\* they have ceased to grow.
LEMMA Settles ==
  ASSUME NEW U, IsFiniteSet(U), NEW n \in Nat, Cardinality(U) <= n, NEW f \in [0 .. n -> SUBSET U],
         NEW D, \A k \in 1 .. n : f[k - 1] \subseteq f[k],
         \A k \in 1 .. n : k - 1 \in D => k \in D,
         \A k \in 1 .. n : k - 1 \notin D => f[k] # f[k - 1]
  PROVE  n \in D \/ f[n] = U
<1> DEFINE S == {k \in 0 .. n : k \in D \/ Cardinality(f[k]) >= k}
<1>1. ASSUME NEW k \in 0 .. n
      PROVE  IsFiniteSet(f[k]) /\ Cardinality(f[k]) \in Nat /\ f[k] \subseteq U
  <2>1. f[k] \in SUBSET U
    OBVIOUS
  <2>2. IsFiniteSet(f[k])
    BY <2>1, FS_Subset
  <2>3. QED
    BY <2>1, <2>2, FS_CardinalityType
<1>2. 0 \in S
  BY <1>1
<1>3. ASSUME NEW k \in 1 .. n, k - 1 \in S PROVE k \in S
  <2>1. CASE k - 1 \in D
    BY <2>1
  <2>2. CASE k - 1 \notin D
    <3>1. k - 1 \in 0 .. n /\ k \in 0 .. n
      OBVIOUS
    <3>2. Cardinality(f[k - 1]) >= k - 1
      BY <1>3, <2>2
    <3>3. f[k - 1] \in SUBSET f[k] /\ f[k] # f[k - 1]
      BY <2>2
    <3>4. Cardinality(f[k - 1]) <= Cardinality(f[k]) /\ Cardinality(f[k - 1]) # Cardinality(f[k])
      BY <1>1, <3>1, <3>3, FS_Subset
    <3>5. Cardinality(f[k]) \in Nat /\ Cardinality(f[k - 1]) \in Nat
      BY <1>1, <3>1
    <3>6. Cardinality(f[k]) >= k
      BY <3>2, <3>4, <3>5
    <3>7. QED
      BY <3>1, <3>6
  <2>3. QED
    BY <2>1, <2>2
<1>4. n \in S
  <2> HIDE DEF S
  <2>1. \A k \in 0 .. n : k \in S
    BY <1>2, <1>3, Upwards
  <2>2. QED
    BY <2>1
<1>5. CASE Cardinality(f[n]) >= n
  <2>1. f[n] \in SUBSET U /\ Cardinality(U) \in Nat /\ Cardinality(f[n]) \in Nat
    BY <1>1, FS_CardinalityType
  <2>2. Cardinality(f[n]) <= Cardinality(U)
    BY <2>1, FS_Subset
  <2>3. Cardinality(U) = Cardinality(f[n])
    BY <1>5, <2>1, <2>2
  <2>4. QED
    BY <2>1, <2>3, FS_Subset
<1>6. QED
  BY <1>4, <1>5

-----------------------------------------------------------------------------
(* Lists of stages.                                                        *)

\* What a pipeline always is.
IsList(p) ==
  p \in Seq(ToSet(p)) /\ \A i \in DOMAIN p : p[i].dependencies \in Seq(ToSet(p[i].dependencies))

LEMMA Members ==
  ASSUME NEW s, s \in Seq(ToSet(s))
  PROVE  /\ IsFiniteSet(ToSet(s)) /\ Cardinality(ToSet(s)) <= Len(s) /\ Len(s) \in Nat
         /\ DOMAIN s = 1 .. Len(s)
<1>1. Len(s) \in Nat /\ DOMAIN s = 1 .. Len(s)
  OBVIOUS
<1> DEFINE f == [i \in 1 .. Len(s) |-> s[i]]
<1>2. f \in Surjection(1 .. Len(s), ToSet(s))
  BY <1>1 DEF Surjection, ToSet
<1>3. IsFiniteSet(1 .. Len(s)) /\ Cardinality(1 .. Len(s)) = Len(s)
  BY <1>1, FS_Interval
<1> HIDE DEF f
<1>4. IsFiniteSet(ToSet(s)) /\ Cardinality(ToSet(s)) <= Cardinality(1 .. Len(s))
  BY <1>2, <1>3, FS_Surjection
<1>5. QED
  BY <1>1, <1>3, <1>4

LEMMA OfMembers ==
  ASSUME NEW A, NEW s \in Seq(A)
  PROVE  ToSet(s) \subseteq A
<1>1. \A i \in DOMAIN s : s[i] \in A
  OBVIOUS
<1>2. QED
  BY <1>1 DEF ToSet

LEMMA NodesFinite ==
  ASSUME NEW p, IsList(p)
  PROVE  /\ IsFiniteSet(Ids(p)) /\ Cardinality(Ids(p)) <= Len(p)
         /\ IsFiniteSet(Nodes(p)) /\ Ids(p) \subseteq Nodes(p)
<1> DEFINE ids == [i \in DOMAIN p |-> p[i].id]
           lists == [i \in DOMAIN p |-> ToSet(p[i].dependencies)]
<1>1. DOMAIN p = 1 .. Len(p) /\ Len(p) \in Nat
  BY DEF IsList
<1>2. IsFiniteSet(DOMAIN p) /\ Cardinality(DOMAIN p) = Len(p)
  <2>1. PICK n \in Nat : n = Len(p)
    BY <1>1
  <2>2. IsFiniteSet(1 .. n) /\ Cardinality(1 .. n) = n
    BY FS_Interval
  <2>3. QED
    BY <1>1, <2>1, <2>2
<1>3. ids \in Surjection(DOMAIN p, Ids(p))
  BY DEF Surjection, Ids
<1>4. IsFiniteSet(Ids(p)) /\ Cardinality(Ids(p)) <= Len(p)
  <2> HIDE DEF ids
  <2>1. QED
    BY <1>2, <1>3, FS_Surjection
<1> DEFINE Lists == {ToSet(p[i].dependencies) : i \in DOMAIN p}
<1>5. lists \in Surjection(DOMAIN p, Lists)
  BY DEF Surjection
<1>6. IsFiniteSet(Lists)
  <2> HIDE DEF lists, Lists
  <2>1. QED
    BY <1>2, <1>5, FS_Surjection
<1>7. \A L \in Lists : IsFiniteSet(L)
  BY Members DEF IsList
<1>8. IsFiniteSet(UNION Lists)
  <2> HIDE DEF Lists
  <2>1. QED
    BY <1>6, <1>7, FS_UNION
<1>9. Nodes(p) = Ids(p) \cup UNION Lists
  BY DEF Nodes
<1> HIDE DEF Lists
<1>10. IsFiniteSet(Ids(p) \cup UNION Lists)
  BY <1>4, <1>8, FS_Union
<1>11. QED
  BY <1>4, <1>9, <1>10

LEMMA NamedThere ==
  ASSUME NEW p, IsList(p), NEW id \in Ids(p)
  PROVE  Named(p, id) \in DOMAIN p /\ p[Named(p, id)].id = id
<1> DEFINE Out == {i \in DOMAIN p : p[i].id = id}
<1>1. Out \in SUBSET Nat /\ Out # {} /\ DOMAIN p = 1 .. Len(p) /\ Len(p) \in Nat
  BY DEF IsList, Ids
<1>2. PICK m \in Out : \A k \in Out : m <= k
  <2> HIDE DEF Out
  <2>1. QED
    BY <1>1, LeastThere
<1>3. \A j \in 1 .. (m - 1) : p[j].id # id
  <2> SUFFICES ASSUME NEW j \in 1 .. (m - 1), p[j].id = id PROVE FALSE
    OBVIOUS
  <2>1. m \in 1 .. Len(p)
    BY <1>1
  <2>2. j \in 1 .. Len(p) /\ ~(m <= j)
    BY <1>1, <2>1
  <2>3. QED
    BY <1>1, <1>2, <2>2
<1>4. QED
  BY <1>2, <1>3 DEF Named

\* DependenciesOf, for lists of stages.
LEMMA Dependencies ==
  ASSUME NEW p, IsList(p), NEW id
  PROVE  /\ DependenciesOf(p, id) \in Seq(Nodes(p))
         /\ id \notin Ids(p) => DependenciesOf(p, id) = <<>>
         /\ Direct(p, {id}) = ToSet(DependenciesOf(p, id))
<1>1. Direct(p, {id}) = ToSet(DependenciesOf(p, id))
  BY DEF Direct
<1>2. CASE id \notin Ids(p)
  BY <1>1, <1>2 DEF DependenciesOf
<1>3. CASE id \in Ids(p)
  <2>1. PICK i \in DOMAIN p : DependenciesOf(p, id) = p[i].dependencies
    BY <1>3, NamedThere DEF DependenciesOf
  <2>2. p[i].dependencies \in Seq(ToSet(p[i].dependencies))
    BY DEF IsList
  <2>3. ToSet(p[i].dependencies) \subseteq Nodes(p)
    BY DEF Nodes
  <2>4. DependenciesOf(p, id) \in Seq(Nodes(p))
    BY <2>1, <2>2, <2>3
  <2>5. QED
    BY <1>1, <1>3, <2>4
<1>4. QED
  BY <1>2, <1>3

LEMMA DirectIs ==
  ASSUME NEW p, IsList(p), NEW S
  PROVE  /\ Direct(p, S) \subseteq Nodes(p)
         /\ \A d : d \in Direct(p, S) <=> \E v \in S : d \in Direct(p, {v})
         /\ \A T : S \subseteq T => Direct(p, S) \subseteq Direct(p, T)
<1>1. \A d : d \in Direct(p, S) <=> \E v \in S : d \in Direct(p, {v})
  BY DEF Direct
<1>2. ASSUME NEW v PROVE Direct(p, {v}) \subseteq Nodes(p)
  <2>1. DependenciesOf(p, v) \in Seq(Nodes(p)) /\ Direct(p, {v}) = ToSet(DependenciesOf(p, v))
    BY Dependencies
  <2>2. QED
    BY <2>1, OfMembers
<1>3. \A T : S \subseteq T => Direct(p, S) \subseteq Direct(p, T)
  BY DEF Direct
<1>4. QED
  BY <1>1, <1>2, <1>3

-----------------------------------------------------------------------------
(* Below: the least set that has what ids depend on, and with each name    *)
(* what that depends on.                                                   *)

Closed(p, S) == Direct(p, S) \subseteq S

Steps(p, ids, step, n) ==
  /\ n \in Nat /\ n = Cardinality(Nodes(p)) /\ step \in [0 .. n -> SUBSET Nodes(p)]
  /\ step[0] = Direct(p, ids)
  /\ \A k \in 1 .. n : step[k] = step[k - 1] \cup Direct(p, step[k - 1])

LEMMA BelowSteps ==
  ASSUME NEW p, IsList(p), NEW ids
  PROVE  \E step, n : Steps(p, ids, step, n) /\ Below(p, ids) = step[n]
<1> DEFINE n == Cardinality(Nodes(p))
           V == SUBSET Nodes(p)
           Is(f) == f = [k \in 0 .. n |-> IF k = 0 THEN Direct(p, ids)
                                          ELSE f[k - 1] \cup Direct(p, f[k - 1])]
           whole == CHOOSE f : Is(f)
           more == [q \in (1 .. n) \X V |-> q[2] \cup Direct(p, q[2])]
<1>1. n \in Nat /\ Below(p, ids) = whole[n]
  BY NodesFinite, FS_CardinalityType DEF Below
<1>2. Direct(p, ids) \in V /\ more \in [(1 .. n) \X V -> V]
  BY DirectIs
<1> HIDE DEF n
<1>3. PICK f : Computed(f, V, n, Direct(p, ids), more)
  <2> HIDE DEF more, V
  <2>1. QED
    BY <1>1, <1>2, Loops
<1>4. ASSUME NEW k \in 1 .. n PROVE f[k] = f[k - 1] \cup Direct(p, f[k - 1])
  <2>1. k - 1 \in 0 .. n /\ f[k - 1] \in V
    BY <1>1, <1>3 DEF Computed
  <2>2. QED
    BY <1>3, <2>1 DEF Computed
<1>5. Is(f)
  <2>1. ASSUME NEW k \in 0 .. n
        PROVE  f[k] = IF k = 0 THEN Direct(p, ids) ELSE f[k - 1] \cup Direct(p, f[k - 1])
    BY <1>1, <1>3, <1>4 DEF Computed
  <2>2. f = [k \in 0 .. n |-> f[k]]
    BY <1>3 DEF Computed
  <2>3. QED
    BY <2>1, <2>2
<1>6. Is(whole)
  BY <1>5
<1> HIDE DEF whole
<1>7. whole[0] = Direct(p, ids) /\ \A k \in 1 .. n : whole[k] = whole[k - 1] \cup Direct(p, whole[k - 1])
  <2>1. 0 \in 0 .. n /\ \A k \in 1 .. n : k \in 0 .. n /\ k # 0
    BY <1>1
  <2>2. whole[0] = Direct(p, ids)
    BY <1>6, <2>1
  <2>3. ASSUME NEW k \in 1 .. n PROVE whole[k] = whole[k - 1] \cup Direct(p, whole[k - 1])
    BY <1>6, <2>1
  <2>4. QED
    BY <2>2, <2>3
<1> DEFINE Fine == {k \in 0 .. n : whole[k] \in V}
<1>8. \A k \in 0 .. n : k \in Fine
  <2>1. 0 \in Fine
    BY <1>1, <1>2, <1>7
  <2>2. ASSUME NEW k \in 1 .. n, k - 1 \in Fine PROVE k \in Fine
    BY <1>7, <2>2, DirectIs
  <2> HIDE DEF Fine
  <2>3. QED
    BY <1>1, <2>1, <2>2, Upwards
<1>9. whole \in [0 .. n -> V]
  BY <1>6, <1>8
<1>10. QED
  BY <1>1, <1>7, <1>9 DEF n, Steps

LEMMA BelowIs ==
  ASSUME NEW p, IsList(p), NEW ids
  PROVE  /\ Below(p, ids) \subseteq Nodes(p)
         /\ Direct(p, ids) \subseteq Below(p, ids) /\ Closed(p, Below(p, ids))
         /\ \A S : Direct(p, ids) \subseteq S /\ Closed(p, S) => Below(p, ids) \subseteq S
<1>0. PICK step, n : Steps(p, ids, step, n) /\ Below(p, ids) = step[n]
  BY BelowSteps
<1>1. /\ n \in Nat /\ n = Cardinality(Nodes(p)) /\ step \in [0 .. n -> SUBSET Nodes(p)]
      /\ step[0] = Direct(p, ids)
      /\ \A k \in 1 .. n : step[k] = step[k - 1] \cup Direct(p, step[k - 1])
      /\ Below(p, ids) = step[n]
  BY <1>0 DEF Steps
<1>2. Below(p, ids) \subseteq Nodes(p)
  BY <1>1
<1>3. Direct(p, ids) \subseteq Below(p, ids)
  <2> DEFINE S == {k \in 0 .. n : Direct(p, ids) \subseteq step[k]}
  <2>1. 0 \in S
    BY <1>1
  <2>2. ASSUME NEW k \in 1 .. n, k - 1 \in S PROVE k \in S
    BY <1>1, <2>2
  <2> HIDE DEF S
  <2>3. \A k \in 0 .. n : k \in S
    BY <1>1, <2>1, <2>2, Upwards
  <2>4. QED
    BY <1>1, <2>3 DEF S
<1>4. Closed(p, Below(p, ids))
  <2> DEFINE D == {k \in 0 .. n : Closed(p, step[k])}
  <2>1. \A k \in 1 .. n : step[k - 1] \subseteq step[k]
    BY <1>1
  <2>2. ASSUME NEW k \in 1 .. n, k - 1 \in D PROVE k \in D
    <3>1. step[k] = step[k - 1]
      BY <1>1, <2>2 DEF Closed
    <3>2. QED
      BY <2>2, <3>1
  <2>3. ASSUME NEW k \in 1 .. n, k - 1 \notin D PROVE step[k] # step[k - 1]
    <3>1. k - 1 \in 0 .. n
      BY <1>1
    <3>2. QED
      BY <1>1, <2>3, <3>1 DEF Closed
  <2> HIDE DEF D
  <2>4. n \in D \/ step[n] = Nodes(p)
    <3> DEFINE U == Nodes(p)
    <3>1. n \in Nat /\ IsFiniteSet(U) /\ Cardinality(U) <= n /\ step \in [0 .. n -> SUBSET U]
      BY <1>1, NodesFinite
    <3> HIDE DEF U
    <3>2. n \in D \/ step[n] = U
      BY <2>1, <2>2, <2>3, <3>1, Settles
    <3>3. QED
      BY <3>2 DEF U
  <2>5. QED
    BY <1>1, <2>4, DirectIs DEF D, Closed
<1>5. ASSUME NEW S, Direct(p, ids) \subseteq S, Closed(p, S) PROVE Below(p, ids) \subseteq S
  <2> DEFINE T == {k \in 0 .. n : step[k] \subseteq S}
  <2>1. 0 \in T
    BY <1>1, <1>5
  <2>2. ASSUME NEW k \in 1 .. n, k - 1 \in T PROVE k \in T
    <3>1. Direct(p, step[k - 1]) \subseteq Direct(p, S)
      BY <2>2, DirectIs
    <3>2. QED
      BY <1>1, <1>5, <2>2, <3>1 DEF Closed
  <2> HIDE DEF T
  <2>3. \A k \in 0 .. n : k \in T
    BY <1>1, <2>1, <2>2, Upwards
  <2>4. QED
    BY <1>1, <2>3 DEF T
<1>6. QED
  BY <1>2, <1>3, <1>4, <1>5

\* Stages that all wait for one another are on cycles, some at least.
LEMMA Stuck ==
  ASSUME NEW p, IsList(p), NEW X \in SUBSET Nodes(p), X # {},
         \A v \in X : Direct(p, {v}) \cap X # {}
  PROVE  \E v \in X : OnCycle(p, v)
<1> SUFFICES ASSUME \A v \in X : v \notin Below(p, {v}) PROVE FALSE
  BY DEF OnCycle
<1> DEFINE Size(v) == Cardinality(Below(p, {v}))
           Sizes == {Size(v) : v \in X}
<1>1. ASSUME NEW v PROVE IsFiniteSet(Below(p, {v})) /\ Size(v) \in Nat
  <2>1. Below(p, {v}) \in SUBSET Nodes(p) /\ IsFiniteSet(Nodes(p))
    BY BelowIs, NodesFinite
  <2>2. IsFiniteSet(Below(p, {v}))
    BY <2>1, FS_Subset
  <2>3. QED
    BY <2>2, FS_CardinalityType
<1>2. PICK v \in X : \A w \in X : Size(v) <= Size(w)
  <2>1. Sizes \in SUBSET Nat /\ Sizes # {}
    BY <1>1
  <2>2. PICK m \in Sizes : \A k \in Sizes : m <= k
    <3> HIDE DEF Sizes
    <3>1. QED
      BY <2>1, LeastThere
  <2> HIDE DEF Size
  <2>3. QED
    BY <2>2
<1>3. PICK w \in X : w \in Direct(p, {v})
  OBVIOUS
<1>4. w \in Below(p, {v}) /\ Closed(p, Below(p, {v}))
  BY <1>3, BelowIs
<1>5. Direct(p, {w}) \subseteq Below(p, {v})
  <2>1. Direct(p, {w}) \subseteq Direct(p, Below(p, {v}))
    BY <1>4, DirectIs
  <2>2. QED
    BY <1>4, <2>1 DEF Closed
<1>6. Below(p, {w}) \in SUBSET Below(p, {v})
  BY <1>4, <1>5, BelowIs
<1>7. Below(p, {w}) # Below(p, {v})
  BY <1>4
<1>8. Size(w) <= Size(v) /\ Size(w) # Size(v)
  BY <1>1, <1>6, <1>7, FS_Subset
<1>9. Size(w) \in Nat /\ Size(v) \in Nat /\ Size(v) <= Size(w)
  BY <1>1, <1>2
<1> HIDE DEF Size
<1>10. QED
  BY <1>8, <1>9

-----------------------------------------------------------------------------
(* getExecutionOrder.                                                      *)

LEMMA OwnDependencies ==
  ASSUME NEW p, IsList(p), Distinct(p), NEW i \in DOMAIN p
  PROVE  p[i].id \in Ids(p) /\ ToSet(p[i].dependencies) = Direct(p, {p[i].id})
<1>1. p[i].id \in Ids(p)
  BY DEF Ids
<1>2. Named(p, p[i].id) = i
  BY <1>1, NamedThere DEF Distinct
<1>3. DependenciesOf(p, p[i].id) = p[i].dependencies
  BY <1>1, <1>2 DEF DependenciesOf
<1>4. QED
  BY <1>1, <1>3, Dependencies

\* What has been placed: each once, and after what it depends on.
Placed(p, o) ==
  /\ o \in Seq(Ids(p)) /\ IsInjective(o)
  /\ \A i \in DOMAIN o : Direct(p, {o[i]}) \subseteq {o[j] : j \in 1 .. (i - 1)}

\* No stage can be placed any more.
NothingMore(p, S) == \A i \in DOMAIN p : p[i].id \in S \/ ~(ToSet(p[i].dependencies) \subseteq S)

LEMMA Appending ==
  ASSUME NEW A, NEW s \in Seq(A), NEW a \in A
  PROVE  /\ Append(s, a) \in Seq(A) /\ Append(s, a) # <<>>
         /\ Len(s) \in Nat /\ Len(Append(s, a)) = Len(s) + 1
         /\ DOMAIN s = 1 .. Len(s) /\ DOMAIN Append(s, a) = 1 .. Len(s) + 1
         /\ \A k \in 1 .. Len(s) : Append(s, a)[k] = s[k]
         /\ Append(s, a)[Len(s) + 1] = a
OBVIOUS

LEMMA AppendedSet ==
  ASSUME NEW A, NEW s \in Seq(A), NEW a \in A
  PROVE  ToSet(Append(s, a)) = ToSet(s) \cup {a}
<1>1. /\ Len(s) \in Nat /\ DOMAIN s = 1 .. Len(s) /\ DOMAIN Append(s, a) = 1 .. Len(s) + 1
      /\ \A k \in 1 .. Len(s) : Append(s, a)[k] = s[k]
      /\ Append(s, a)[Len(s) + 1] = a
  BY Appending
<1>2. \A k \in 1 .. Len(s) + 1 : k \in 1 .. Len(s) \/ k = Len(s) + 1
  BY <1>1
<1>3. 1 .. Len(s) \subseteq 1 .. Len(s) + 1 /\ Len(s) + 1 \in 1 .. Len(s) + 1
  BY <1>1
<1>4. QED
  BY <1>1, <1>2, <1>3 DEF ToSet

\* A turn of the for loop.
LEMMA PlaceStep ==
  ASSUME NEW p, IsList(p), Distinct(p), NEW o, Placed(p, o), NEW i \in DOMAIN p
  PROVE  /\ Placed(p, PlaceStage(o, p[i])) /\ ToSet(o) \subseteq ToSet(PlaceStage(o, p[i]))
         /\ p[i].id \in ToSet(PlaceStage(o, p[i])) \/ ~(ToSet(p[i].dependencies) \subseteq ToSet(o))
         /\ NothingMore(p, ToSet(o)) => PlaceStage(o, p[i]) = o
<1>1. NothingMore(p, ToSet(o)) => PlaceStage(o, p[i]) = o
  BY DEF NothingMore, PlaceStage
<1>2. CASE p[i].id \in ToSet(o) \/ ~(ToSet(p[i].dependencies) \subseteq ToSet(o))
  BY <1>1, <1>2 DEF PlaceStage
<1>3. CASE p[i].id \notin ToSet(o) /\ ToSet(p[i].dependencies) \subseteq ToSet(o)
  <2> DEFINE a == p[i].id
             q == Append(o, a)
  <2>1. PlaceStage(o, p[i]) = q
    BY <1>3 DEF PlaceStage
  <2>2. a \in Ids(p) /\ ToSet(p[i].dependencies) = Direct(p, {a})
    BY OwnDependencies
  <2>3. o \in Seq(Ids(p)) /\ IsInjective(o) /\ a \notin ToSet(o) /\ Direct(p, {a}) \subseteq ToSet(o)
    BY <1>3, <2>2 DEF Placed
  <2> HIDE DEF a
  <2>4. /\ q \in Seq(Ids(p)) /\ Len(o) \in Nat /\ DOMAIN o = 1 .. Len(o) /\ DOMAIN q = 1 .. Len(o) + 1
        /\ \A k \in 1 .. Len(o) : q[k] = o[k]
        /\ q[Len(o) + 1] = a
    BY <2>2, <2>3, Appending
  <2>5. ToSet(q) = ToSet(o) \cup {a}
    BY <2>2, <2>3, AppendedSet
  <2> HIDE DEF q
  <2>6. \A k \in DOMAIN q : k \in 1 .. Len(o) \/ k = Len(o) + 1
    BY <2>4
  <2>7. \A k \in 1 .. Len(o) : o[k] # a
    BY <2>3, <2>4 DEF ToSet
  <2>8. IsInjective(q)
    <3> SUFFICES ASSUME NEW j \in DOMAIN q, NEW k \in DOMAIN q, q[j] = q[k] PROVE j = k
      BY DEF IsInjective
    <3>1. CASE j \in 1 .. Len(o) /\ k \in 1 .. Len(o)
      BY <2>3, <2>4, <3>1 DEF IsInjective
    <3>2. CASE j = Len(o) + 1 \/ k = Len(o) + 1
      BY <2>4, <2>6, <2>7, <3>2
    <3>3. QED
      BY <2>6, <3>1, <3>2
  <2>9. ASSUME NEW k \in DOMAIN q PROVE Direct(p, {q[k]}) \subseteq {q[j] : j \in 1 .. (k - 1)}
    <3>1. CASE k \in 1 .. Len(o)
      <4>1. q[k] = o[k] /\ Direct(p, {o[k]}) \subseteq {o[j] : j \in 1 .. (k - 1)}
        BY <2>4, <3>1 DEF Placed
      <4>2. \A j \in 1 .. (k - 1) : j \in 1 .. Len(o) /\ q[j] = o[j]
        BY <2>4, <3>1
      <4>3. QED
        BY <4>1, <4>2
    <3>2. CASE k = Len(o) + 1
      <4>1. q[k] = a /\ 1 .. (k - 1) = 1 .. Len(o)
        BY <2>4, <3>2
      <4>2. ToSet(o) = {q[j] : j \in 1 .. Len(o)}
        BY <2>4 DEF ToSet
      <4>3. QED
        BY <2>3, <4>1, <4>2
    <3>3. QED
      BY <2>6, <3>1, <3>2
  <2>10. Placed(p, q)
    BY <2>4, <2>8, <2>9 DEF Placed
  <2>11. QED
    BY <1>1, <2>1, <2>5, <2>10 DEF a
<1>4. QED
  BY <1>2, <1>3

PassSteps(p, o, placed) ==
  /\ placed[0] = o /\ \A k \in 1 .. Len(p) : placed[k] = PlaceStage(placed[k - 1], p[k])
  /\ Pass(p, o) = placed[Len(p)]

LEMMA PassThere ==
  ASSUME NEW p, IsList(p), NEW o \in Seq(Ids(p))
  PROVE  Pass(p, o) \in Seq(Ids(p)) /\ \E placed : PassSteps(p, o, placed)
<1> DEFINE n == Len(p)
           V == Seq(Ids(p))
           Is(f) == f = [k \in 0 .. n |-> IF k = 0 THEN o ELSE PlaceStage(f[k - 1], p[k])]
           whole == CHOOSE f : Is(f)
           more == [q \in (1 .. n) \X V |-> PlaceStage(q[2], p[q[1]])]
<1>1. n \in Nat /\ DOMAIN p = 1 .. n /\ Pass(p, o) = whole[n]
  BY DEF IsList, Pass
<1>2. ASSUME NEW k \in 1 .. n, NEW q \in V PROVE PlaceStage(q, p[k]) \in V
  <2>1. p[k].id \in Ids(p)
    BY <1>1 DEF Ids
  <2>2. Append(q, p[k].id) \in V
    BY <2>1, Appending
  <2>3. QED
    BY <2>2 DEF PlaceStage
<1> HIDE DEF n
<1>3. more \in [(1 .. n) \X V -> V]
  <2> HIDE DEF V
  <2>1. QED
    BY <1>2
<1>4. PICK f : Computed(f, V, n, o, more)
  <2> HIDE DEF more, V
  <2>1. o \in V
    BY DEF V
  <2>2. QED
    BY <1>1, <1>3, <2>1, Loops
<1> HIDE DEF V
<1>5. ASSUME NEW k \in 1 .. n PROVE f[k] = PlaceStage(f[k - 1], p[k])
  <2>1. k - 1 \in 0 .. n /\ f[k - 1] \in V
    BY <1>1, <1>4 DEF Computed
  <2>2. QED
    BY <1>4, <2>1 DEF Computed
<1>6. Is(f)
  <2>1. ASSUME NEW k \in 0 .. n
        PROVE  f[k] = IF k = 0 THEN o ELSE PlaceStage(f[k - 1], p[k])
    BY <1>1, <1>4, <1>5 DEF Computed
  <2>2. f = [k \in 0 .. n |-> f[k]]
    BY <1>4 DEF Computed
  <2>3. QED
    BY <2>1, <2>2
<1>7. Is(whole)
  BY <1>6
<1> HIDE DEF whole, more
<1>8. whole[0] = o /\ \A k \in 1 .. n : whole[k] = PlaceStage(whole[k - 1], p[k])
  <2>1. 0 \in 0 .. n /\ \A k \in 1 .. n : k \in 0 .. n /\ k # 0
    BY <1>1
  <2>2. whole[0] = o
    BY <1>7, <2>1
  <2>3. ASSUME NEW k \in 1 .. n PROVE whole[k] = PlaceStage(whole[k - 1], p[k])
    BY <1>7, <2>1
  <2>4. QED
    BY <2>2, <2>3
<1> DEFINE Fine == {k \in 0 .. n : whole[k] \in V}
<1>9. \A k \in 0 .. n : k \in Fine
  <2>1. 0 \in Fine
    BY <1>1, <1>8 DEF V
  <2>2. ASSUME NEW k \in 1 .. n, k - 1 \in Fine PROVE k \in Fine
    BY <1>2, <1>8, <2>2
  <2> HIDE DEF Fine
  <2>3. QED
    BY <1>1, <2>1, <2>2, Upwards
<1>10. whole[n] \in V
  BY <1>1, <1>9
<1>11. PassSteps(p, o, whole)
  BY <1>1, <1>8 DEF PassSteps, n
<1>12. QED
  BY <1>1, <1>10, <1>11 DEF V

\* A pass places what it can, and nothing when there is nothing to place.
LEMMA PassStep ==
  ASSUME NEW p, IsList(p), Distinct(p), NEW o, Placed(p, o)
  PROVE  /\ Placed(p, Pass(p, o)) /\ ToSet(o) \subseteq ToSet(Pass(p, o))
         /\ NothingMore(p, ToSet(o)) => Pass(p, o) = o
         /\ ToSet(Pass(p, o)) = ToSet(o) => NothingMore(p, ToSet(o))
<1> DEFINE n == Len(p)
<1>1. n \in Nat /\ DOMAIN p = 1 .. n
  BY DEF IsList
<1>2. PICK f : PassSteps(p, o, f)
  BY PassThere DEF Placed
<1>3. /\ f[0] = o /\ Pass(p, o) = f[n]
      /\ \A k \in 1 .. n : f[k] = PlaceStage(f[k - 1], p[k])
  BY <1>2 DEF PassSteps
<1> HIDE DEF n
<1> DEFINE S == {k \in 0 .. n : /\ Placed(p, f[k]) /\ ToSet(o) \subseteq ToSet(f[k])
                               /\ (NothingMore(p, ToSet(o)) => f[k] = o)
                               /\ \A i \in 1 .. k : p[i].id \in ToSet(f[k])
                                                    \/ ~(ToSet(p[i].dependencies) \subseteq ToSet(o))}
<1>4. 0 \in S
  <2>1. 0 \in 0 .. n /\ \A i \in 1 .. 0 : FALSE
    BY <1>1
  <2>2. QED
    BY <1>3, <2>1
<1>5. ASSUME NEW k \in 1 .. n, k - 1 \in S PROVE k \in S
  <2> DEFINE q == f[k - 1]
  <2>1. /\ Placed(p, q) /\ ToSet(o) \subseteq ToSet(q)
        /\ (NothingMore(p, ToSet(o)) => q = o)
        /\ \A i \in 1 .. (k - 1) : p[i].id \in ToSet(q)
                                   \/ ~(ToSet(p[i].dependencies) \subseteq ToSet(o))
    BY <1>5
  <2>2. f[k] = PlaceStage(q, p[k]) /\ k \in DOMAIN p
    BY <1>1, <1>3
  <2> HIDE DEF q, S
  <2>3. /\ Placed(p, f[k]) /\ ToSet(q) \subseteq ToSet(f[k])
        /\ p[k].id \in ToSet(f[k]) \/ ~(ToSet(p[k].dependencies) \subseteq ToSet(q))
        /\ NothingMore(p, ToSet(q)) => f[k] = q
    BY <2>1, <2>2, PlaceStep
  <2>4. ASSUME NEW i \in 1 .. k
        PROVE  p[i].id \in ToSet(f[k]) \/ ~(ToSet(p[i].dependencies) \subseteq ToSet(o))
    <3>1. CASE i = k
      BY <2>1, <2>3, <3>1
    <3>2. CASE i # k
      <4>1. i \in 1 .. (k - 1)
        BY <1>1, <3>2
      <4>2. QED
        BY <2>1, <2>3, <4>1
    <3>3. QED
      BY <3>1, <3>2
  <2>5. k \in 0 .. n
    BY <1>1
  <2>6. QED
    BY <2>1, <2>3, <2>4, <2>5 DEF S
<1>6. n \in S
  <2> HIDE DEF S
  <2>1. \A k \in 0 .. n : k \in S
    BY <1>1, <1>4, <1>5, Upwards
  <2>2. QED
    BY <1>1, <2>1
<1>7. QED
  BY <1>1, <1>3, <1>6 DEF NothingMore

LEMMA NothingPlaced ==
  ASSUME NEW p
  PROVE  Placed(p, <<>>) /\ ToSet(<<>>) = {}
<1>1. <<>> \in Seq(Ids(p)) /\ \A i \in DOMAIN <<>> : FALSE
  OBVIOUS
<1>2. QED
  BY <1>1 DEF Placed, IsInjective, ToSet

OrderSteps(p, order) ==
  /\ order[0] = <<>> /\ \A k \in 1 .. Len(p) : order[k] = Pass(p, order[k - 1])
  /\ GetExecutionOrder(p) = order[Len(p)]

LEMMA OrderThere ==
  ASSUME NEW p, IsList(p)
  PROVE  \E order : OrderSteps(p, order)
<1> DEFINE n == Len(p)
           V == Seq(Ids(p))
           Is(f) == f = [k \in 0 .. n |-> IF k = 0 THEN <<>> ELSE Pass(p, f[k - 1])]
           whole == CHOOSE f : Is(f)
           more == [q \in (1 .. n) \X V |-> Pass(p, q[2])]
<1>1. n \in Nat /\ GetExecutionOrder(p) = whole[n]
  BY DEF IsList, GetExecutionOrder
<1>2. <<>> \in V /\ \A q \in V : Pass(p, q) \in V
  BY PassThere
<1> HIDE DEF n, V
<1>3. more \in [(1 .. n) \X V -> V]
  BY <1>2
<1>4. PICK f : Computed(f, V, n, <<>>, more)
  <2> HIDE DEF more
  <2>1. QED
    BY <1>1, <1>2, <1>3, Loops
<1>5. ASSUME NEW k \in 1 .. n PROVE f[k] = Pass(p, f[k - 1])
  <2>1. k - 1 \in 0 .. n /\ f[k - 1] \in V
    BY <1>1, <1>4 DEF Computed
  <2>2. QED
    BY <1>4, <2>1 DEF Computed
<1>6. Is(f)
  <2>1. ASSUME NEW k \in 0 .. n PROVE f[k] = IF k = 0 THEN <<>> ELSE Pass(p, f[k - 1])
    BY <1>1, <1>4, <1>5 DEF Computed
  <2>2. f = [k \in 0 .. n |-> f[k]]
    BY <1>4 DEF Computed
  <2>3. QED
    BY <2>1, <2>2
<1>7. Is(whole)
  BY <1>6
<1> HIDE DEF whole, more
<1>8. whole[0] = <<>> /\ \A k \in 1 .. n : whole[k] = Pass(p, whole[k - 1])
  <2>1. 0 \in 0 .. n /\ \A k \in 1 .. n : k \in 0 .. n /\ k # 0
    BY <1>1
  <2>2. whole[0] = <<>>
    BY <1>7, <2>1
  <2>3. ASSUME NEW k \in 1 .. n PROVE whole[k] = Pass(p, whole[k - 1])
    BY <1>7, <2>1
  <2>4. QED
    BY <2>2, <2>3
<1>9. OrderSteps(p, whole)
  BY <1>1, <1>8 DEF OrderSteps, n
<1>10. QED
  BY <1>9

\* The while loop ends when no stage can be placed, for want of passes it does not.
LEMMA OrderIs ==
  ASSUME NEW p, IsList(p), Distinct(p)
  PROVE  Placed(p, GetExecutionOrder(p)) /\ NothingMore(p, ToSet(GetExecutionOrder(p)))
<1> DEFINE n == Len(p)
<1>1. n \in Nat
  BY DEF IsList
<1>2. PICK order : OrderSteps(p, order)
  BY OrderThere
<1>3. /\ order[0] = <<>> /\ GetExecutionOrder(p) = order[n]
      /\ \A k \in 1 .. n : order[k] = Pass(p, order[k - 1])
  BY <1>2 DEF OrderSteps
<1>4. Cardinality(Ids(p)) <= n /\ IsFiniteSet(Ids(p))
  BY NodesFinite
<1> HIDE DEF n
<1> DEFINE S == {k \in 0 .. n : Placed(p, order[k])}
<1>5. \A k \in 0 .. n : k \in S
  <2>1. 0 \in S
    BY <1>1, <1>3, NothingPlaced
  <2>2. ASSUME NEW k \in 1 .. n, k - 1 \in S PROVE k \in S
    BY <1>3, <2>2, PassStep
  <2> HIDE DEF S
  <2>3. QED
    BY <1>1, <2>1, <2>2, Upwards
<1> DEFINE f == [k \in 0 .. n |-> ToSet(order[k])]
           D == {k \in 0 .. n : NothingMore(p, ToSet(order[k]))}
<1>6. f \in [0 .. n -> SUBSET Ids(p)]
  BY <1>5, OfMembers DEF Placed
<1>7. ASSUME NEW k \in 1 .. n
      PROVE  /\ f[k - 1] \subseteq f[k] /\ (k - 1 \in D => k \in D)
             /\ (k - 1 \notin D => f[k] # f[k - 1])
  <2>1. k - 1 \in 0 .. n /\ k \in 0 .. n
    BY <1>1
  <2>2. Placed(p, order[k - 1]) /\ order[k] = Pass(p, order[k - 1])
    BY <1>3, <1>5, <2>1
  <2>3. f[k - 1] = ToSet(order[k - 1]) /\ f[k] = ToSet(order[k])
    BY <2>1
  <2>4. /\ ToSet(order[k - 1]) \subseteq ToSet(order[k])
        /\ NothingMore(p, ToSet(order[k - 1])) => order[k] = order[k - 1]
        /\ ToSet(order[k]) = ToSet(order[k - 1]) => NothingMore(p, ToSet(order[k - 1]))
    BY <2>2, PassStep
  <2> HIDE DEF f
  <2>5. QED
    BY <2>1, <2>3, <2>4
<1> HIDE DEF f
<1>8. n \in D \/ f[n] = Ids(p)
  <2> DEFINE U == Ids(p)
  <2>1. IsFiniteSet(U) /\ Cardinality(U) <= n /\ f \in [0 .. n -> SUBSET U]
    BY <1>4, <1>6
  <2> HIDE DEF U, D
  <2>2. n \in D \/ f[n] = U
    BY <1>1, <1>7, <2>1, Settles
  <2>3. QED
    BY <2>2 DEF U
<1>9. Ids(p) = ToSet(order[n]) => NothingMore(p, ToSet(order[n]))
  BY DEF NothingMore, Ids
<1>10. n \in 0 .. n /\ f[n] = ToSet(order[n])
  BY <1>1 DEF f
<1>11. QED
  BY <1>3, <1>5, <1>8, <1>9, <1>10

\* What is placed is exactly what can run.
LEMMA PlacedGrounded ==
  ASSUME NEW p, IsList(p), Distinct(p), NEW o, Placed(p, o), NothingMore(p, ToSet(o))
  PROVE  ToSet(o) = Grounded(p)
<1> DEFINE P == ToSet(o)
           Before(i) == {o[j] : j \in 1 .. (i - 1)}
<1>1. DOMAIN o = 1 .. Len(o) /\ Len(o) \in Nat /\ P \subseteq Ids(p) /\ P = {o[i] : i \in DOMAIN o}
  BY OfMembers DEF Placed, ToSet
<1>2. ASSUME NEW i \in DOMAIN o
      PROVE  Below(p, {o[i]}) \subseteq P /\ o[i] \notin Below(p, {o[i]})
  <2>1. \A j \in 1 .. (i - 1) : j \in DOMAIN o /\ j # i /\ 1 .. (j - 1) \subseteq 1 .. (i - 1)
    BY <1>1
  <2>2. \A j \in DOMAIN o : Direct(p, {o[j]}) \subseteq Before(j)
    BY DEF Placed
  <2>3. \A j \in 1 .. (i - 1) : Before(j) \subseteq Before(i)
    BY <2>1
  <2>4. Before(i) \subseteq P /\ o[i] \notin Before(i)
    BY <1>1, <2>1 DEF Placed, IsInjective
  <2>5. \A v \in Before(i) : Direct(p, {v}) \subseteq Before(i)
    BY <2>1, <2>2, <2>3
  <2> HIDE DEF Before, P
  <2>6. Closed(p, Before(i))
    BY <2>5, DirectIs DEF Closed
  <2>7. Direct(p, {o[i]}) \subseteq Before(i)
    BY <2>2
  <2>8. Below(p, {o[i]}) \subseteq Before(i)
    BY <2>6, <2>7, BelowIs
  <2>9. QED
    BY <2>4, <2>8
<1>3. P \subseteq Grounded(p)
  <2>1. \A d \in P : d \in Ids(p) /\ Below(p, {d}) \subseteq P /\ ~OnCycle(p, d)
    BY <1>1, <1>2 DEF OnCycle
  <2> HIDE DEF P
  <2>2. QED
    BY <2>1 DEF Grounded
<1>4. ASSUME NEW g \in Grounded(p), g \notin P PROVE FALSE
  <2> DEFINE All == {g} \cup Below(p, {g})
             X == All \ P
  <2>1. \A d \in All : d \in Ids(p) /\ ~OnCycle(p, d)
    BY DEF Grounded
  <2>2. \A v \in All : Direct(p, {v}) \subseteq All
    <3>1. Direct(p, {g}) \subseteq Below(p, {g}) /\ Direct(p, Below(p, {g})) \subseteq Below(p, {g})
      BY BelowIs DEF Closed
    <3>2. \A v \in Below(p, {g}) : Direct(p, {v}) \subseteq Direct(p, Below(p, {g}))
      BY DirectIs
    <3>3. QED
      BY <3>1, <3>2
  <2>3. X \in SUBSET Nodes(p) /\ X # {}
    BY <1>4, <2>1, NodesFinite
  <2>4. ASSUME NEW v \in X PROVE Direct(p, {v}) \cap X # {}
    <3>1. PICK i \in DOMAIN p : p[i].id = v
      BY <2>1 DEF Ids
    <3>2. ~(ToSet(p[i].dependencies) \subseteq P)
      BY <3>1 DEF NothingMore
    <3>3. ToSet(p[i].dependencies) = Direct(p, {v})
      BY <3>1, OwnDependencies
    <3>4. QED
      BY <2>2, <3>2, <3>3
  <2> HIDE DEF X
  <2>5. \E v \in X : OnCycle(p, v)
    BY <2>3, <2>4, Stuck
  <2>6. QED
    BY <2>1, <2>5 DEF X
<1>5. QED
  BY <1>3, <1>4

LEMMA OrderExact ==
  ASSUME NEW p, IsList(p), Distinct(p)
  PROVE  Sorted(p, GetExecutionOrder(p), Grounded(p))
<1> DEFINE o == GetExecutionOrder(p)
<1>1. Placed(p, o) /\ NothingMore(p, ToSet(o))
  BY OrderIs
<1> HIDE DEF o
<1>2. ToSet(o) = Grounded(p)
  BY <1>1, PlacedGrounded
<1>3. \A i \in DOMAIN o : ToSet(DependenciesOf(p, o[i])) \subseteq {o[j] : j \in 1 .. (i - 1)}
  BY <1>1, Dependencies DEF Placed
<1>4. Sorted(p, o, Grounded(p))
  BY <1>1, <1>2, <1>3 DEF Placed, Sorted
<1>5. QED
  BY <1>4 DEF o

-----------------------------------------------------------------------------
(* The depth-first searches.                                               *)

\* What a search keeps.
SearchState(p) ==
  [visited : SUBSET Nodes(p), rec_stack : SUBSET Nodes(p), path : Seq(Nodes(p)),
   at : [Nodes(p) -> Nat], found : BOOLEAN]

Looked(s, v) == [s EXCEPT !.at[v] = @ + 1]

LEMMA Fields ==
  ASSUME NEW p, NEW s \in SearchState(p)
  PROVE  /\ s.visited \in SUBSET Nodes(p) /\ s.rec_stack \in SUBSET Nodes(p)
         /\ s.path \in Seq(Nodes(p)) /\ s.at \in [Nodes(p) -> Nat] /\ s.found \in BOOLEAN
BY DEF SearchState

LEMMA LookedIs ==
  ASSUME NEW p, NEW s \in SearchState(p), NEW v \in Nodes(p)
  PROVE  /\ Looked(s, v) \in SearchState(p)
         /\ Looked(s, v).visited = s.visited /\ Looked(s, v).rec_stack = s.rec_stack
         /\ Looked(s, v).path = s.path /\ Looked(s, v).found = s.found
         /\ Looked(s, v).at[v] = s.at[v] + 1
         /\ \A w \in Nodes(p) : w # v => Looked(s, v).at[w] = s.at[w]
<1> DEFINE at == [s.at EXCEPT ![v] = @ + 1]
<1>1. at \in [Nodes(p) -> Nat] /\ at[v] = s.at[v] + 1 /\ \A w \in Nodes(p) : w # v => at[w] = s.at[w]
  BY Fields
<1>2. Looked(s, v) = [s EXCEPT !.at = at]
  BY DEF Looked
<1> HIDE DEF at
<1>3. Looked(s, v) \in SearchState(p)
  BY <1>1, <1>2 DEF SearchState
<1>4. /\ Looked(s, v).visited = s.visited /\ Looked(s, v).rec_stack = s.rec_stack
      /\ Looked(s, v).path = s.path /\ Looked(s, v).found = s.found /\ Looked(s, v).at = at
  BY <1>2 DEF SearchState
<1>5. QED
  BY <1>1, <1>3, <1>4

LEMMA EnterIs ==
  ASSUME NEW p, NEW s \in SearchState(p), NEW v \in Nodes(p)
  PROVE  /\ Enter(s, v) \in SearchState(p)
         /\ Enter(s, v).visited = s.visited \cup {v} /\ Enter(s, v).rec_stack = s.rec_stack \cup {v}
         /\ Enter(s, v).path = Append(s.path, v) /\ Enter(s, v).found = s.found
         /\ Enter(s, v).at = s.at
<1> DEFINE path == Append(s.path, v)
           visited == s.visited \cup {v}
           rec_stack == s.rec_stack \cup {v}
<1>1. path \in Seq(Nodes(p)) /\ visited \in SUBSET Nodes(p) /\ rec_stack \in SUBSET Nodes(p)
  BY Fields
<1>2. Enter(s, v) = [s EXCEPT !.visited = visited, !.rec_stack = rec_stack, !.path = path]
  BY DEF Enter
<1> HIDE DEF path, visited, rec_stack
<1>3. Enter(s, v) \in SearchState(p)
  BY <1>1, <1>2 DEF SearchState
<1>4. /\ Enter(s, v).visited = visited /\ Enter(s, v).rec_stack = rec_stack
      /\ Enter(s, v).path = path /\ Enter(s, v).found = s.found /\ Enter(s, v).at = s.at
  BY <1>2 DEF SearchState
<1>5. QED
  BY <1>3, <1>4 DEF path, visited, rec_stack

\* All but the last of a sequence.
LEMMA FrontIs ==
  ASSUME NEW A, NEW q \in Seq(A), q # <<>>
  PROVE  /\ Front(q) \in Seq(A) /\ Len(q) \in Nat \ {0} /\ Len(Front(q)) = Len(q) - 1
         /\ DOMAIN q = 1 .. Len(q) /\ DOMAIN Front(q) = 1 .. Len(q) - 1
         /\ \A i \in 1 .. Len(q) - 1 : Front(q)[i] = q[i]
         /\ Last(q) = q[Len(q)] /\ Last(q) \in A
         /\ ToSet(q) = ToSet(Front(q)) \cup {Last(q)}
         /\ IsInjective(q) => IsInjective(Front(q)) /\ Last(q) \notin ToSet(Front(q))
<1>1. /\ Front(q) \in Seq(A) /\ Len(q) \in Nat \ {0} /\ Len(Front(q)) = Len(q) - 1
      /\ DOMAIN q = 1 .. Len(q) /\ DOMAIN Front(q) = 1 .. Len(q) - 1
      /\ \A i \in 1 .. Len(q) - 1 : Front(q)[i] = q[i]
      /\ Last(q) = q[Len(q)] /\ Last(q) \in A
  <2>1. Len(q) \in Nat \ {0} /\ DOMAIN q = 1 .. Len(q) /\ \A i \in 1 .. Len(q) : q[i] \in A
    OBVIOUS
  <2>2. Last(q) = q[Len(q)] /\ Last(q) \in A
    BY <2>1 DEF Last
  <2>3. \A i \in 1 .. Len(q) - 1 : i \in 1 .. Len(q)
    BY <2>1
  <2>4. /\ Front(q) = SubSeq(q, 1, Len(q) - 1) /\ Front(q) = [i \in 1 .. Len(q) - 1 |-> q[i]]
    BY <2>1 DEF Front
  <2>5. Front(q) \in Seq(A) /\ Len(Front(q)) = Len(q) - 1
    BY <2>1, <2>3, <2>4
  <2>6. QED
    BY <2>1, <2>2, <2>4, <2>5
<1>2. \A i \in 1 .. Len(q) : i = Len(q) \/ i \in 1 .. Len(q) - 1
  BY <1>1
<1>3. 1 .. Len(q) - 1 \subseteq 1 .. Len(q) /\ Len(q) \in 1 .. Len(q) /\ Len(q) \notin 1 .. Len(q) - 1
  BY <1>1
<1>4. ToSet(q) = ToSet(Front(q)) \cup {Last(q)}
  BY <1>1, <1>2, <1>3 DEF ToSet
<1>5. IsInjective(q) => IsInjective(Front(q)) /\ Last(q) \notin ToSet(Front(q))
  BY <1>1, <1>3 DEF ToSet, IsInjective
<1>6. QED
  BY <1>1, <1>4, <1>5

LEMMA LeaveIs ==
  ASSUME NEW p, NEW s \in SearchState(p), s.path # <<>>, NEW v \in Nodes(p), NEW cleared
  PROVE  /\ Leave(s, v, cleared) \in SearchState(p)
         /\ Leave(s, v, cleared).visited = s.visited
         /\ Leave(s, v, cleared).rec_stack = s.rec_stack \ ({v} \cap cleared)
         /\ Leave(s, v, cleared).path = Front(s.path) /\ Leave(s, v, cleared).found = s.found
         /\ Leave(s, v, cleared).at = s.at
<1>1. Front(s.path) \in Seq(Nodes(p))
  BY FrontIs DEF SearchState
<1>2. QED
  BY <1>1 DEF Leave, SearchState

\* What has been searched to the end.
Black(s) == s.visited \ ToSet(s.path)

\* A search that has found nothing yet, in four parts: its stack,
OnStack(p, cleared, s) ==
  /\ s \in SearchState(p) /\ ~s.found /\ IsInjective(s.path)
  /\ ToSet(s.path) \subseteq s.rec_stack /\ s.rec_stack \subseteq s.visited
  /\ (s.rec_stack \ ToSet(s.path)) \cap cleared = {}

\* how far the loops have come,
Turned(p, s) ==
  /\ \A v \in Nodes(p) \ s.visited : s.at[v] = 0
  /\ \A j \in DOMAIN s.path : s.at[s.path[j]] <= Len(DependenciesOf(p, s.path[j]))

\* where the calls are, each in the turn that called the next, with what the turns before
\* looked at searched to the end,
Called(p, s) ==
  \A j \in DOMAIN s.path : \A i \in 1 .. s.at[s.path[j]] :
     \/ DependenciesOf(p, s.path[j])[i] \in Black(s)
     \/ j < Len(s.path) /\ DependenciesOf(p, s.path[j])[i] = s.path[j + 1]

Chain(p, path) == \A j \in 1 .. Len(path) - 1 : path[j + 1] \in Direct(p, {path[j]})

\* and what has been searched to the end.
NoneMissed(p, s) == Closed(p, Black(s)) /\ \A v \in Black(s) : ~OnCycle(p, v)

Searching(p, cleared, s) ==
  OnStack(p, cleared, s) /\ Turned(p, s) /\ Called(p, s) /\ Chain(p, s.path) /\ NoneMissed(p, s)

\* A path like the one that detectCircularDependencies answers.
Leads(p, path) ==
  Len(path) > 1 /\ Chain(p, path) /\ Last(path) \in ToSet(Front(path))

\* A search that has found something, which is a cycle if rec_stack is the stack.
HasFound(p, cleared, s) ==
  /\ s \in SearchState(p) /\ s.found
  /\ Nodes(p) \subseteq cleared => Leads(p, s.path) /\ Cyclic(p)

LEMMA NothingSearched ==
  ASSUME NEW p, IsList(p), NEW cleared
  PROVE  Searching(p, cleared, NothingVisited(p)) /\ NothingVisited(p).path = <<>>
<1> DEFINE s == NothingVisited(p)
<1>1. /\ s \in SearchState(p) /\ ~s.found /\ s.path = <<>> /\ s.rec_stack = {} /\ s.visited = {}
      /\ \A v \in Nodes(p) : s.at[v] = 0
  BY DEF NothingVisited, SearchState
<1> HIDE DEF s
<1>2. ToSet(<<>>) = {} /\ IsInjective(<<>>) /\ DOMAIN <<>> = {} /\ Len(<<>>) = 0
  BY DEF ToSet, IsInjective
<1>3. Black(s) = {} /\ Closed(p, {})
  BY <1>1 DEF Black, Closed, Direct
<1>4. OnStack(p, cleared, s) /\ Turned(p, s) /\ Called(p, s) /\ Chain(p, s.path) /\ NoneMissed(p, s)
  <2>1. OnStack(p, cleared, s)
    BY <1>1, <1>2 DEF OnStack
  <2>2. Turned(p, s) /\ Called(p, s)
    BY <1>1, <1>2 DEF Turned, Called
  <2>3. Chain(p, s.path)
    BY <1>1, <1>2 DEF Chain
  <2>4. NoneMissed(p, s)
    BY <1>3 DEF NoneMissed
  <2>5. QED
    BY <2>1, <2>2, <2>3, <2>4
<1>5. QED
  BY <1>1, <1>4 DEF Searching, s

LEMMA AppendedOnce ==
  ASSUME NEW A, NEW s \in Seq(A), NEW a \in A, IsInjective(s), a \notin ToSet(s)
  PROVE  IsInjective(Append(s, a))
<1> DEFINE q == Append(s, a)
<1>1. /\ Len(s) \in Nat /\ DOMAIN s = 1 .. Len(s) /\ DOMAIN q = 1 .. Len(s) + 1
      /\ \A k \in 1 .. Len(s) : q[k] = s[k]
      /\ q[Len(s) + 1] = a
  BY Appending
<1>2. \A k \in 1 .. Len(s) : s[k] # a
  BY <1>1 DEF ToSet
<1>3. \A k \in DOMAIN q : k \in 1 .. Len(s) \/ k = Len(s) + 1
  BY <1>1
<1> HIDE DEF q
<1> SUFFICES ASSUME NEW j \in DOMAIN q, NEW k \in DOMAIN q, q[j] = q[k] PROVE j = k
  BY DEF IsInjective, q
<1>4. CASE j \in 1 .. Len(s) /\ k \in 1 .. Len(s)
  BY <1>1, <1>4 DEF IsInjective
<1>5. CASE j = Len(s) + 1 \/ k = Len(s) + 1
  BY <1>1, <1>2, <1>3, <1>5
<1>6. QED
  BY <1>3, <1>4, <1>5

\* A chain leads to what its stages depend on.
LEMMA ChainBelow ==
  ASSUME NEW p, IsList(p), NEW A, NEW q \in Seq(A), Chain(p, q),
         NEW j \in 1 .. Len(q), NEW k \in 1 .. Len(q), j < k
  PROVE  q[k] \in Below(p, {q[j]})
<1> DEFINE n == Len(q)
           S == {i \in 0 .. n : j < i => q[i] \in Below(p, {q[j]})}
<1>1. n \in Nat
  OBVIOUS
<1>2. 0 \in S
  BY <1>1
<1>3. ASSUME NEW i \in 1 .. n, i - 1 \in S PROVE i \in S
  <2>1. i \in 0 .. n /\ i - 1 \in 0 .. n /\ (j < i => i - 1 \in 1 .. n - 1 /\ (j < i - 1 \/ j = i - 1))
    BY <1>1
  <2> SUFFICES ASSUME j < i PROVE q[i] \in Below(p, {q[j]})
    BY <2>1
  <2>2. q[i] \in Direct(p, {q[i - 1]})
    <3>1. PICK m \in 1 .. n - 1 : m = i - 1 /\ m + 1 = i
      BY <2>1
    <3>2. q[m + 1] \in Direct(p, {q[m]})
      BY <3>1 DEF Chain
    <3>3. QED
      BY <3>1, <3>2
  <2>3. CASE j = i - 1
    BY <2>2, <2>3, BelowIs
  <2>4. CASE j < i - 1
    <3>1. q[i - 1] \in Below(p, {q[j]})
      BY <1>3, <2>4
    <3>2. Direct(p, {q[i - 1]}) \subseteq Direct(p, Below(p, {q[j]}))
      BY <3>1, DirectIs
    <3>3. QED
      BY <2>2, <3>2, BelowIs DEF Closed
  <2>5. QED
    BY <2>1, <2>3, <2>4
<1>4. k \in S
  <2> HIDE DEF S, n
  <2>1. \A i \in 0 .. n : i \in S
    BY <1>1, <1>2, <1>3, Upwards
  <2>2. k \in 0 .. n
    BY <1>1 DEF n
  <2>3. QED
    BY <2>1, <2>2
<1>5. QED
  BY <1>4

LEMMA CycleIn ==
  ASSUME NEW p, IsList(p), NEW d, OnCycle(p, d)
  PROVE  d \in Ids(p)
<1> SUFFICES ASSUME d \notin Ids(p) PROVE FALSE
  OBVIOUS
<1>1. Direct(p, {d}) = {} /\ Closed(p, {})
  <2>1. Direct(p, {d}) = ToSet(<<>>)
    BY Dependencies
  <2>2. QED
    BY <2>1 DEF Closed, Direct, ToSet
<1>2. Below(p, {d}) \subseteq {}
  BY <1>1, BelowIs
<1>3. QED
  BY <1>2 DEF OnCycle

\* What the last call sees.
LEMMA Top ==
  ASSUME NEW p, IsList(p), NEW cleared, NEW s, Searching(p, cleared, s), s.path # <<>>
  PROVE  /\ Last(s.path) \in Nodes(p) /\ Last(s.path) \in ToSet(s.path) /\ Last(s.path) \in s.visited
         /\ Last(s.path) = s.path[Len(s.path)] /\ Len(s.path) \in Nat \ {0}
         /\ DOMAIN s.path = 1 .. Len(s.path)
         /\ \A j \in 1 .. Len(s.path) - 1 : j \in DOMAIN s.path /\ s.path[j] # Last(s.path)
         /\ s.at[Last(s.path)] \in Nat /\ s.at[Last(s.path)] <= Len(DependenciesOf(p, Last(s.path)))
         /\ Len(DependenciesOf(p, Last(s.path))) \in Nat
         /\ \A i \in 1 .. Len(DependenciesOf(p, Last(s.path))) :
               DependenciesOf(p, Last(s.path))[i] \in Nodes(p) \cap Direct(p, {Last(s.path)})
         /\ \A i \in 1 .. s.at[Last(s.path)] : DependenciesOf(p, Last(s.path))[i] \in Black(s)
<1> DEFINE v == Last(s.path)
           n == Len(s.path)
           deps == DependenciesOf(p, v)
<1>1. s \in SearchState(p) /\ s.path \in Seq(Nodes(p)) /\ s.at \in [Nodes(p) -> Nat]
  BY Fields DEF Searching, OnStack
<1>2. v = s.path[n] /\ v \in Nodes(p) /\ n \in Nat \ {0} /\ DOMAIN s.path = 1 .. n
  BY <1>1, FrontIs
<1>3. v \in ToSet(s.path) /\ n \in DOMAIN s.path
  BY <1>2 DEF ToSet
<1>4. v \in s.visited
  BY <1>3 DEF Searching, OnStack
<1>5. \A j \in 1 .. n - 1 : j \in DOMAIN s.path /\ s.path[j] # v
  BY <1>2, <1>3 DEF Searching, OnStack, IsInjective
<1>6. s.at[v] \in Nat /\ s.at[v] <= Len(deps)
  BY <1>1, <1>2, <1>3 DEF Searching, Turned
<1>7. deps \in Seq(Nodes(p)) /\ ToSet(deps) = Direct(p, {v})
  BY Dependencies
<1>8. Len(deps) \in Nat /\ \A i \in 1 .. Len(deps) : deps[i] \in Nodes(p) \cap Direct(p, {v})
  <2> HIDE DEF deps
  <2>1. Len(deps) \in Nat /\ DOMAIN deps = 1 .. Len(deps) /\ \A i \in 1 .. Len(deps) : deps[i] \in Nodes(p)
    BY <1>7
  <2>2. \A i \in 1 .. Len(deps) : deps[i] \in ToSet(deps)
    BY <2>1 DEF ToSet
  <2>3. QED
    BY <1>7, <2>1, <2>2
<1>9. \A i \in 1 .. s.at[v] : deps[i] \in Black(s)
  <2>1. ~(n < n)
    BY <1>2
  <2>2. QED
    BY <1>2, <1>3, <2>1 DEF Searching, Called
<1>10. QED
  BY <1>2, <1>3, <1>4, <1>5, <1>6, <1>8, <1>9

\* The call of a stage all of whose dependencies have been searched returns.
LEMMA TurnLeaves ==
  ASSUME NEW p, IsList(p), NEW cleared, NEW s, Searching(p, cleared, s), s.path # <<>>,
         s.at[Last(s.path)] = Len(DependenciesOf(p, Last(s.path)))
  PROVE  Searching(p, cleared, Leave(Looked(s, Last(s.path)), Last(s.path), cleared))
<1> DEFINE v == Last(s.path)
           n == Len(s.path)
           t == Leave(Looked(s, v), v, cleared)
<1>1. s \in SearchState(p) /\ s.path \in Seq(Nodes(p)) /\ s.at \in [Nodes(p) -> Nat] /\ v \in Nodes(p)
  BY Fields, Top DEF Searching, OnStack
<1>2. /\ t \in SearchState(p) /\ t.visited = s.visited /\ t.rec_stack = s.rec_stack \ ({v} \cap cleared)
      /\ t.path = Front(s.path) /\ t.found = s.found
      /\ \A w \in Nodes(p) : w # v => t.at[w] = s.at[w]
  <2> DEFINE l == Looked(s, v)
  <2>1. /\ l \in SearchState(p) /\ l.visited = s.visited /\ l.rec_stack = s.rec_stack
        /\ l.path = s.path /\ l.found = s.found
        /\ \A w \in Nodes(p) : w # v => l.at[w] = s.at[w]
    BY <1>1, LookedIs
  <2> HIDE DEF l, v
  <2>2. /\ Leave(l, v, cleared) \in SearchState(p) /\ Leave(l, v, cleared).visited = l.visited
        /\ Leave(l, v, cleared).rec_stack = l.rec_stack \ ({v} \cap cleared)
        /\ Leave(l, v, cleared).path = Front(l.path) /\ Leave(l, v, cleared).found = l.found
        /\ Leave(l, v, cleared).at = l.at
    BY <1>1, <2>1, LeaveIs
  <2>3. QED
    BY <2>1, <2>2 DEF l
<1> HIDE DEF t
<1>3. /\ ~s.found /\ IsInjective(s.path) /\ ToSet(s.path) \subseteq s.rec_stack
      /\ s.rec_stack \subseteq s.visited /\ (s.rec_stack \ ToSet(s.path)) \cap cleared = {}
  BY DEF Searching, OnStack
<1>4. /\ n \in Nat \ {0} /\ Len(t.path) = n - 1 /\ DOMAIN t.path = 1 .. n - 1
      /\ \A i \in 1 .. n - 1 : t.path[i] = s.path[i]
      /\ v = s.path[n] /\ ToSet(s.path) = ToSet(t.path) \cup {v}
      /\ IsInjective(t.path) /\ v \notin ToSet(t.path)
  BY <1>1, <1>2, <1>3, FrontIs
<1>5. /\ v \in s.visited
      /\ \A j \in 1 .. n - 1 : j \in DOMAIN s.path /\ s.path[j] # v /\ s.path[j] \in Nodes(p)
      /\ \A i \in 1 .. Len(DependenciesOf(p, v)) : DependenciesOf(p, v)[i] \in Black(s)
  <2>1. /\ v \in s.visited /\ \A j \in 1 .. n - 1 : j \in DOMAIN s.path /\ s.path[j] # v
        /\ \A i \in 1 .. s.at[v] : DependenciesOf(p, v)[i] \in Black(s)
    BY Top
  <2>2. s.at[v] = Len(DependenciesOf(p, v))
    OBVIOUS
  <2>3. \A j \in DOMAIN s.path : s.path[j] \in Nodes(p)
    BY <1>1
  <2> HIDE DEF v, n
  <2>4. QED
    BY <2>1, <2>2, <2>3
<1> HIDE DEF v, n
<1>6. OnStack(p, cleared, t)
  <2>1. ToSet(t.path) \subseteq t.rec_stack /\ t.rec_stack \subseteq t.visited
    BY <1>2, <1>3, <1>4
  <2>2. (t.rec_stack \ ToSet(t.path)) \cap cleared = {}
    BY <1>2, <1>3, <1>4
  <2>3. QED
    BY <1>2, <1>3, <1>4, <2>1, <2>2 DEF OnStack
<1>7. \A j \in 1 .. n - 1 : t.at[t.path[j]] = s.at[s.path[j]]
  BY <1>2, <1>4, <1>5
<1>8. Turned(p, t)
  <2>1. \A w \in Nodes(p) \ t.visited : t.at[w] = 0
    BY <1>2, <1>5 DEF Searching, Turned
  <2>2. \A j \in DOMAIN t.path : t.at[t.path[j]] <= Len(DependenciesOf(p, t.path[j]))
    BY <1>4, <1>5, <1>7 DEF Searching, Turned
  <2>3. QED
    BY <2>1, <2>2 DEF Turned
<1>9. Black(t) = Black(s) \cup {v}
  BY <1>2, <1>4, <1>5 DEF Black
<1>10. Called(p, t)
  <2>0. DOMAIN t.path = 1 .. n - 1 /\ Len(t.path) = n - 1
    BY <1>4
  <2>1. \A j \in 1 .. n - 1 : t.path[j] = s.path[j]
    BY <1>4
  <2> SUFFICES ASSUME NEW j \in 1 .. n - 1, NEW i \in 1 .. s.at[s.path[j]]
               PROVE  \/ DependenciesOf(p, s.path[j])[i] \in Black(t)
                      \/ j < n - 1 /\ DependenciesOf(p, s.path[j])[i] = t.path[j + 1]
    BY <1>7, <2>0, <2>1 DEF Called
  <2>2. \/ DependenciesOf(p, s.path[j])[i] \in Black(s)
        \/ DependenciesOf(p, s.path[j])[i] = s.path[j + 1]
    BY <1>5 DEF Searching, Called
  <2>3. CASE j = n - 1
    <3>1. j + 1 = n
      BY <1>4, <2>3
    <3>2. QED
      BY <1>4, <1>9, <2>2, <3>1
  <2>4. CASE j # n - 1
    <3>1. j + 1 \in 1 .. n - 1 /\ j < n - 1
      BY <1>4, <2>4
    <3>2. QED
      BY <1>4, <1>9, <2>2, <3>1
  <2>5. QED
    BY <2>3, <2>4
<1>11. Chain(p, t.path)
  <2> SUFFICES ASSUME NEW j \in 1 .. n - 1 - 1 PROVE t.path[j + 1] \in Direct(p, {t.path[j]})
    BY <1>4 DEF Chain
  <2>1. j \in 1 .. n - 1 /\ j + 1 \in 1 .. n - 1
    BY <1>4
  <2>2. s.path[j + 1] \in Direct(p, {s.path[j]})
    BY <2>1 DEF Searching, Chain, n
  <2>3. QED
    BY <1>4, <2>1, <2>2
<1>12. NoneMissed(p, t)
  <2>1. Closed(p, Black(s)) /\ \A w \in Black(s) : ~OnCycle(p, w)
    BY DEF Searching, NoneMissed
  <2>2. Direct(p, {v}) \subseteq Black(s)
    <3>1. DependenciesOf(p, v) \in Seq(Nodes(p)) /\ Direct(p, {v}) = ToSet(DependenciesOf(p, v))
      BY Dependencies
    <3> DEFINE deps == DependenciesOf(p, v)
    <3>2. DOMAIN deps = 1 .. Len(deps)
      BY <3>1
    <3>3. QED
      BY <1>5, <3>1, <3>2 DEF ToSet
  <2>3. Below(p, {v}) \subseteq Black(s)
    BY <2>1, <2>2, BelowIs
  <2>4. v \notin Black(s)
    BY <1>4 DEF Black
  <2>5. ~OnCycle(p, v)
    BY <2>3, <2>4 DEF OnCycle
  <2>6. ASSUME NEW w \in Black(t) PROVE Direct(p, {w}) \subseteq Black(t)
    <3>1. CASE w = v
      BY <1>9, <2>2, <3>1
    <3>2. CASE w \in Black(s)
      <4>1. Direct(p, {w}) \subseteq Direct(p, Black(s))
        BY <3>2, DirectIs
      <4>2. QED
        BY <1>9, <2>1, <4>1 DEF Closed
    <3>3. QED
      BY <1>9, <3>1, <3>2
  <2>7. Closed(p, Black(t))
    BY <2>6, DirectIs DEF Closed
  <2>8. QED
    BY <1>9, <2>1, <2>5, <2>7 DEF NoneMissed
<1>13. QED
  BY <1>6, <1>8, <1>10, <1>11, <1>12 DEF Searching, t, v

\* A call enters a stage that has not been visited.
LEMMA TurnEnters ==
  ASSUME NEW p, IsList(p), NEW cleared, NEW s, Searching(p, cleared, s), s.path # <<>>,
         NEW w, w \notin s.visited, s.at[Last(s.path)] # Len(DependenciesOf(p, Last(s.path))),
         w = DependenciesOf(p, Last(s.path))[s.at[Last(s.path)] + 1]
  PROVE  Searching(p, cleared, Enter(Looked(s, Last(s.path)), w))
<1> DEFINE v == Last(s.path)
           n == Len(s.path)
           deps == DependenciesOf(p, v)
           t == Enter(Looked(s, v), w)
<1>1. /\ v \in Nodes(p) /\ v \in s.visited /\ v = s.path[n] /\ n \in Nat \ {0} /\ DOMAIN s.path = 1 .. n
      /\ \A j \in 1 .. n - 1 : j \in DOMAIN s.path /\ s.path[j] # v
      /\ s.at[v] \in Nat /\ s.at[v] <= Len(deps) /\ Len(deps) \in Nat
      /\ \A i \in 1 .. Len(deps) : deps[i] \in Nodes(p) \cap Direct(p, {v})
      /\ \A i \in 1 .. s.at[v] : deps[i] \in Black(s)
  BY Top
<1>2. s \in SearchState(p) /\ s.path \in Seq(Nodes(p)) /\ s.at \in [Nodes(p) -> Nat]
  BY Fields DEF Searching, OnStack
<1>3. w \notin s.visited /\ s.at[v] # Len(deps) /\ w = deps[s.at[v] + 1]
  OBVIOUS
<1> HIDE DEF v, n, deps
<1>4. /\ s.at[v] + 1 \in 1 .. Len(deps) /\ s.at[v] + 1 <= Len(deps)
      /\ \A i \in 1 .. s.at[v] + 1 : i = s.at[v] + 1 \/ i \in 1 .. s.at[v]
  <2>1. s.at[v] \in Nat /\ Len(deps) \in Nat /\ s.at[v] <= Len(deps) /\ s.at[v] # Len(deps)
    BY <1>1, <1>3
  <2>2. QED
    BY <2>1
<1>5. w \in Nodes(p) /\ w \in Direct(p, {v}) /\ w # v
  BY <1>1, <1>3, <1>4
<1>6. /\ t \in SearchState(p) /\ t.visited = s.visited \cup {w} /\ t.rec_stack = s.rec_stack \cup {w}
      /\ t.path = Append(s.path, w) /\ t.found = s.found
      /\ t.at[v] = s.at[v] + 1 /\ \A x \in Nodes(p) : x # v => t.at[x] = s.at[x]
  <2> DEFINE l == Looked(s, v)
  <2>1. /\ l \in SearchState(p) /\ l.visited = s.visited /\ l.rec_stack = s.rec_stack
        /\ l.path = s.path /\ l.found = s.found
        /\ l.at[v] = s.at[v] + 1 /\ \A x \in Nodes(p) : x # v => l.at[x] = s.at[x]
    BY <1>1, <1>2, LookedIs
  <2> HIDE DEF l
  <2>2. /\ Enter(l, w) \in SearchState(p) /\ Enter(l, w).visited = l.visited \cup {w}
        /\ Enter(l, w).rec_stack = l.rec_stack \cup {w}
        /\ Enter(l, w).path = Append(l.path, w) /\ Enter(l, w).found = l.found
        /\ Enter(l, w).at = l.at
    BY <1>5, <2>1, EnterIs
  <2>3. QED
    BY <2>1, <2>2 DEF l
<1> HIDE DEF t
<1>7. /\ ~s.found /\ IsInjective(s.path) /\ ToSet(s.path) \subseteq s.rec_stack
      /\ s.rec_stack \subseteq s.visited /\ (s.rec_stack \ ToSet(s.path)) \cap cleared = {}
  BY DEF Searching, OnStack
<1>8. /\ Len(t.path) = n + 1 /\ DOMAIN t.path = 1 .. n + 1
      /\ \A j \in 1 .. n : t.path[j] = s.path[j] /\ s.path[j] \in Nodes(p)
      /\ t.path[n + 1] = w
  BY <1>2, <1>5, <1>6, Appending DEF n
<1>9. ToSet(t.path) = ToSet(s.path) \cup {w} /\ IsInjective(t.path)
  BY <1>2, <1>3, <1>5, <1>6, <1>7, AppendedSet, AppendedOnce
<1>10. OnStack(p, cleared, t)
  BY <1>6, <1>7, <1>9 DEF OnStack
<1>11. ASSUME NEW j \in 1 .. n + 1 PROVE j \in 1 .. n - 1 \/ j = n \/ j = n + 1
  BY <1>1
<1>12. t.at[w] = 0
  BY <1>3, <1>5, <1>6 DEF Searching, Turned
<1>13. \A j \in 1 .. n - 1 : t.at[t.path[j]] = s.at[s.path[j]] /\ j \in 1 .. n
  BY <1>1, <1>6, <1>8
<1>14. t.path[n] = v /\ n \in 1 .. n /\ 0 <= Len(DependenciesOf(p, w))
  <2>1. DependenciesOf(p, w) \in Seq(Nodes(p))
    BY Dependencies
  <2>2. Len(DependenciesOf(p, w)) \in Nat
    BY <2>1
  <2>3. QED
    BY <1>1, <1>8, <2>2
<1>15. Turned(p, t)
  <2>1. \A x \in Nodes(p) \ t.visited : t.at[x] = 0
    BY <1>1, <1>6 DEF Searching, Turned
  <2>2. ASSUME NEW j \in 1 .. n + 1 PROVE t.at[t.path[j]] <= Len(DependenciesOf(p, t.path[j]))
    <3>1. CASE j \in 1 .. n - 1
      BY <1>1, <1>8, <1>13, <3>1 DEF Searching, Turned
    <3>2. CASE j = n
      BY <1>4, <1>6, <1>14, <3>2 DEF deps
    <3>3. CASE j = n + 1
      BY <1>8, <1>12, <1>14, <3>3
    <3>4. QED
      BY <1>11, <3>1, <3>2, <3>3
  <2>3. QED
    BY <1>8, <2>1, <2>2 DEF Turned
<1>16. Black(t) = Black(s)
  BY <1>3, <1>6, <1>9 DEF Black
<1>17. Called(p, t)
  <2> SUFFICES ASSUME NEW j \in 1 .. n + 1, NEW i \in 1 .. t.at[t.path[j]]
               PROVE  \/ DependenciesOf(p, t.path[j])[i] \in Black(t)
                      \/ j < n + 1 /\ DependenciesOf(p, t.path[j])[i] = t.path[j + 1]
    BY <1>8 DEF Called
  <2>1. CASE j \in 1 .. n - 1
    <3>1. j + 1 \in 1 .. n /\ j < n + 1 /\ t.path[j] = s.path[j]
      BY <1>1, <1>8, <1>13, <2>1
    <3>2. \/ DependenciesOf(p, s.path[j])[i] \in Black(s)
          \/ DependenciesOf(p, s.path[j])[i] = s.path[j + 1]
      BY <1>1, <1>13, <2>1 DEF Searching, Called
    <3>3. QED
      BY <1>8, <1>16, <3>1, <3>2
  <2>2. CASE j = n
    <3>1. i \in 1 .. s.at[v] + 1 /\ n < n + 1
      BY <1>1, <1>6, <1>14, <2>2
    <3>2. CASE i = s.at[v] + 1
      BY <1>3, <1>8, <1>14, <2>2, <3>1, <3>2 DEF deps
    <3>3. CASE i \in 1 .. s.at[v]
      BY <1>1, <1>14, <1>16, <2>2, <3>3 DEF deps
    <3>4. QED
      BY <1>4, <3>1, <3>2, <3>3
  <2>3. CASE j = n + 1
    BY <1>8, <1>12, <2>3
  <2>4. QED
    BY <1>11, <2>1, <2>2, <2>3
<1>18. Chain(p, t.path)
  <2>0. 1 .. Len(t.path) - 1 = 1 .. n
    BY <1>1, <1>8
  <2> SUFFICES ASSUME NEW j \in 1 .. n PROVE t.path[j + 1] \in Direct(p, {t.path[j]})
    BY <2>0 DEF Chain
  <2>1. CASE j = n
    BY <1>5, <1>8, <1>14, <2>1
  <2>2. CASE j # n
    <3>1. j \in 1 .. n - 1 /\ j \in 1 .. n /\ j + 1 \in 1 .. n
      BY <1>1, <2>2
    <3>2. s.path[j + 1] \in Direct(p, {s.path[j]})
      BY <3>1 DEF Searching, Chain, n
    <3>3. QED
      BY <1>8, <3>1, <3>2
  <2>3. QED
    BY <2>1, <2>2
<1>19. NoneMissed(p, t)
  BY <1>16 DEF Searching, NoneMissed
<1>20. QED
  BY <1>10, <1>15, <1>17, <1>18, <1>19 DEF Searching, t, v

\* A call looks at a stage that has been searched.
LEMMA TurnPasses ==
  ASSUME NEW p, IsList(p), NEW cleared, NEW s, Searching(p, cleared, s), s.path # <<>>,
         NEW w, w \in s.visited, w \notin s.rec_stack,
         s.at[Last(s.path)] # Len(DependenciesOf(p, Last(s.path))),
         w = DependenciesOf(p, Last(s.path))[s.at[Last(s.path)] + 1]
  PROVE  Searching(p, cleared, Looked(s, Last(s.path)))
<1> DEFINE v == Last(s.path)
           n == Len(s.path)
           deps == DependenciesOf(p, v)
           t == Looked(s, v)
<1>1. /\ v \in Nodes(p) /\ v \in s.visited /\ v = s.path[n] /\ n \in Nat \ {0} /\ DOMAIN s.path = 1 .. n
      /\ \A j \in 1 .. n - 1 : j \in DOMAIN s.path /\ s.path[j] # v
      /\ s.at[v] \in Nat /\ s.at[v] <= Len(deps) /\ Len(deps) \in Nat
      /\ \A i \in 1 .. s.at[v] : deps[i] \in Black(s)
  BY Top
<1>2. s \in SearchState(p) /\ \A j \in DOMAIN s.path : s.path[j] \in Nodes(p)
  BY Fields DEF Searching, OnStack
<1>3. s.at[v] # Len(deps) /\ w = deps[s.at[v] + 1]
  OBVIOUS
<1> HIDE DEF v, n, deps
<1>4. /\ t \in SearchState(p) /\ t.visited = s.visited /\ t.rec_stack = s.rec_stack
      /\ t.path = s.path /\ t.found = s.found
      /\ t.at[v] = s.at[v] + 1 /\ \A x \in Nodes(p) : x # v => t.at[x] = s.at[x]
  BY <1>1, <1>2, LookedIs
<1> HIDE DEF t
<1>5. s.at[v] + 1 <= Len(deps)
  BY <1>1, <1>3
<1>6. \A j \in 1 .. n : j \in 1 .. n - 1 \/ j = n
  BY <1>1
<1>7. OnStack(p, cleared, t)
  BY <1>4 DEF Searching, OnStack
<1>8. Turned(p, t)
  <2>1. \A x \in Nodes(p) \ t.visited : t.at[x] = 0
    BY <1>1, <1>4 DEF Searching, Turned
  <2>2. ASSUME NEW j \in 1 .. n PROVE t.at[t.path[j]] <= Len(DependenciesOf(p, t.path[j]))
    <3>1. CASE j \in 1 .. n - 1
      BY <1>1, <1>2, <1>4, <3>1 DEF Searching, Turned
    <3>2. CASE j = n
      BY <1>1, <1>4, <1>5, <3>2 DEF deps
    <3>3. QED
      BY <1>6, <3>1, <3>2
  <2>3. QED
    BY <1>1, <1>4, <2>1, <2>2 DEF Turned
<1>9. Black(t) = Black(s) /\ w \in Black(s)
  BY <1>4 DEF Black, Searching, OnStack
<1>10. Called(p, t)
  <2>0. t.path = s.path /\ DOMAIN s.path = 1 .. n /\ Len(s.path) = n /\ Black(t) = Black(s)
    BY <1>1, <1>4, <1>9 DEF n
  <2> SUFFICES ASSUME NEW j \in 1 .. n, NEW i \in 1 .. t.at[s.path[j]]
               PROVE  \/ DependenciesOf(p, s.path[j])[i] \in Black(s)
                      \/ j < n /\ DependenciesOf(p, s.path[j])[i] = s.path[j + 1]
    BY <2>0, Zenon DEF Called
  <2>1. CASE j \in 1 .. n - 1
    <3>1. t.at[s.path[j]] = s.at[s.path[j]]
      BY <1>1, <1>2, <1>4, <2>1
    <3>2. QED
      BY <1>1, <3>1 DEF Searching, Called, n
  <2>2. CASE j = n
    <3>1. i \in 1 .. s.at[v] + 1
      BY <1>1, <1>4, <2>2
    <3>2. CASE i = s.at[v] + 1
      BY <1>1, <1>3, <1>9, <2>2, <3>2 DEF deps
    <3>3. CASE i # s.at[v] + 1
      <4>1. i \in 1 .. s.at[v]
        BY <1>1, <3>1, <3>3
      <4>2. QED
        BY <1>1, <2>2, <4>1 DEF deps
    <3>4. QED
      BY <3>2, <3>3
  <2>3. QED
    BY <1>6, <2>1, <2>2
<1>11. Chain(p, t.path) /\ NoneMissed(p, t)
  BY <1>4, <1>9 DEF Searching, NoneMissed
<1>12. QED
  BY <1>7, <1>8, <1>10, <1>11 DEF Searching, t, v

CycleSeen(s, w) == [s EXCEPT !.found = TRUE, !.path = Append(@, w)]

\* A call looks at a stage on the stack.
LEMMA TurnFinds ==
  ASSUME NEW p, IsList(p), NEW cleared, NEW s, Searching(p, cleared, s), s.path # <<>>,
         NEW w, w \in s.rec_stack,
         s.at[Last(s.path)] # Len(DependenciesOf(p, Last(s.path))),
         w = DependenciesOf(p, Last(s.path))[s.at[Last(s.path)] + 1]
  PROVE  LET t == CycleSeen(Looked(s, Last(s.path)), w)
         IN  HasFound(p, cleared, t) /\ t.visited = s.visited /\ t.at = Looked(s, Last(s.path)).at
<1> DEFINE v == Last(s.path)
           n == Len(s.path)
           deps == DependenciesOf(p, v)
           l == Looked(s, v)
           t == CycleSeen(l, w)
           q == Append(s.path, w)
<1>1. /\ v \in Nodes(p) /\ v = s.path[n] /\ n \in Nat \ {0} /\ DOMAIN s.path = 1 .. n
      /\ s.at[v] \in Nat /\ s.at[v] <= Len(deps) /\ Len(deps) \in Nat
      /\ \A i \in 1 .. Len(deps) : deps[i] \in Nodes(p) \cap Direct(p, {v})
  BY Top
<1>2. s \in SearchState(p) /\ s.path \in Seq(Nodes(p))
  BY Fields DEF Searching, OnStack
<1>3. s.at[v] # Len(deps) /\ w = deps[s.at[v] + 1]
  OBVIOUS
<1> HIDE DEF v, n, deps
<1>4. s.at[v] + 1 \in 1 .. Len(deps)
  BY <1>1, <1>3
<1>5. w \in Nodes(p) /\ w \in Direct(p, {v})
  BY <1>1, <1>3, <1>4
<1>6. l \in SearchState(p) /\ l.visited = s.visited /\ l.path = s.path
  BY <1>1, <1>2, LookedIs
<1> HIDE DEF l
<1>7. /\ q \in Seq(Nodes(p)) /\ Len(q) = n + 1 /\ \A j \in 1 .. n : q[j] = s.path[j]
      /\ q[n + 1] = w /\ q # <<>>
  BY <1>2, <1>5, Appending DEF n
<1> HIDE DEF q
<1>8. t = [l EXCEPT !.found = TRUE, !.path = q]
  BY <1>6 DEF CycleSeen, q
<1> HIDE DEF t
<1>9. t \in SearchState(p) /\ t.found /\ t.path = q /\ t.visited = s.visited /\ t.at = l.at
  <2>1. t \in SearchState(p)
    BY <1>6, <1>7, <1>8 DEF SearchState
  <2>2. t.found /\ t.path = q /\ t.visited = l.visited /\ t.at = l.at
    BY <1>6, <1>8 DEF SearchState
  <2>3. QED
    BY <1>6, <2>1, <2>2
<1>10. ASSUME Nodes(p) \subseteq cleared PROVE Leads(p, q) /\ Cyclic(p)
  <2>1. Chain(p, q)
    <3>1. 1 .. Len(q) - 1 = 1 .. n
      BY <1>1, <1>7
    <3>2. ASSUME NEW j \in 1 .. n PROVE q[j + 1] \in Direct(p, {q[j]})
      <4>1. CASE j = n
        BY <1>1, <1>5, <1>7, <4>1
      <4>2. CASE j # n
        <5>1. j \in 1 .. n - 1 /\ j \in 1 .. n /\ j + 1 \in 1 .. n
          BY <1>1, <4>2
        <5>2. s.path[j + 1] \in Direct(p, {s.path[j]})
          BY <5>1 DEF Searching, Chain, n
        <5>3. QED
          BY <1>7, <5>1, <5>2
      <4>3. QED
        BY <4>1, <4>2
    <3>3. QED
      BY <3>1, <3>2 DEF Chain
  <2>2. w \in ToSet(s.path)
    BY <1>2, <1>10, Fields DEF Searching, OnStack
  <2>3. PICK j \in 1 .. n : s.path[j] = w
    BY <1>1, <2>2 DEF ToSet
  <2>4. j \in 1 .. Len(q) /\ n + 1 \in 1 .. Len(q) /\ j < n + 1 /\ q[j] = w /\ Len(q) > 1
    BY <1>1, <1>7, <2>3
  <2>5. q[n + 1] \in Below(p, {q[j]})
    BY <1>7, <2>1, <2>4, ChainBelow
  <2>6. OnCycle(p, w)
    BY <1>7, <2>4, <2>5 DEF OnCycle
  <2>7. Cyclic(p)
    BY <2>6, CycleIn DEF Cyclic
  <2>8. /\ Last(q) = q[Len(q)] /\ DOMAIN Front(q) = 1 .. Len(q) - 1
        /\ \A i \in 1 .. Len(q) - 1 : Front(q)[i] = q[i]
    BY <1>7, FrontIs
  <2>9. j \in 1 .. Len(q) - 1
    BY <1>1, <1>7
  <2>10. Last(q) \in ToSet(Front(q))
    BY <1>7, <2>4, <2>8, <2>9 DEF ToSet
  <2>11. QED
    BY <2>1, <2>4, <2>7, <2>10 DEF Leads
<1>11. HasFound(p, cleared, t)
  BY <1>9, <1>10 DEF HasFound
<1>12. QED
  BY <1>9, <1>11 DEF t, l, v

LEMMA TurnIs ==
  ASSUME NEW p, NEW cleared, NEW s \in SearchState(p), Last(s.path) \in Nodes(p)
  PROVE  LET v == Last(s.path)
             deps == DependenciesOf(p, v)
             w == deps[s.at[v] + 1]
         IN  /\ s.at[v] = Len(deps) => Turn(p, cleared, s) = Leave(Looked(s, v), v, cleared)
             /\ s.at[v] # Len(deps) =>
                   /\ w \notin s.visited => Turn(p, cleared, s) = Enter(Looked(s, v), w)
                   /\ w \in s.visited /\ w \in s.rec_stack =>
                         Turn(p, cleared, s) = CycleSeen(Looked(s, v), w)
                   /\ w \in s.visited /\ w \notin s.rec_stack => Turn(p, cleared, s) = Looked(s, v)
<1> DEFINE v == Last(s.path)
           deps == DependenciesOf(p, v)
           l == Looked(s, v)
           w == deps[s.at[v] + 1]
<1>1. l.at[v] = s.at[v] + 1
  BY LookedIs
<1>2. Turn(p, cleared, s) = IF s.at[v] = Len(deps) THEN Leave(l, v, cleared)
                            ELSE IF deps[l.at[v]] \notin s.visited THEN Enter(l, deps[l.at[v]])
                            ELSE IF deps[l.at[v]] \in s.rec_stack THEN CycleSeen(l, deps[l.at[v]])
                            ELSE l
  BY DEF Turn, Looked, CycleSeen
<1> HIDE DEF v, deps, l
<1>3. Turn(p, cleared, s) = IF s.at[v] = Len(deps) THEN Leave(l, v, cleared)
                            ELSE IF w \notin s.visited THEN Enter(l, w)
                            ELSE IF w \in s.rec_stack THEN CycleSeen(l, w)
                            ELSE l
  BY <1>1, <1>2
<1> HIDE DEF w
<1>4. /\ s.at[v] = Len(deps) => Turn(p, cleared, s) = Leave(l, v, cleared)
      /\ s.at[v] # Len(deps) =>
            /\ w \notin s.visited => Turn(p, cleared, s) = Enter(l, w)
            /\ w \in s.visited /\ w \in s.rec_stack => Turn(p, cleared, s) = CycleSeen(l, w)
            /\ w \in s.visited /\ w \notin s.rec_stack => Turn(p, cleared, s) = l
  BY <1>3
<1>5. QED
  BY <1>4 DEF l, w, deps, v

\* A turn: the search goes on, or has found something.
Went(p, cleared, s, t) ==
  /\ Searching(p, cleared, t) \/ HasFound(p, cleared, t)
  /\ s.visited \subseteq t.visited
  /\ t.at[Last(s.path)] = s.at[Last(s.path)] + 1
  /\ \A x \in Nodes(p) : x # Last(s.path) => t.at[x] = s.at[x]

LEMMA TurnStep ==
  ASSUME NEW p, IsList(p), NEW cleared, NEW s, Searching(p, cleared, s), s.path # <<>>
  PROVE  Went(p, cleared, s, Turn(p, cleared, s))
<1> DEFINE v == Last(s.path)
           deps == DependenciesOf(p, v)
           l == Looked(s, v)
           w == deps[s.at[v] + 1]
           t == Turn(p, cleared, s)
<1>1. v \in Nodes(p) /\ s \in SearchState(p)
  BY Top DEF Searching, OnStack
<1>2. /\ s.at[v] = Len(deps) => t = Leave(l, v, cleared)
      /\ s.at[v] # Len(deps) =>
            /\ w \notin s.visited => t = Enter(l, w)
            /\ w \in s.visited /\ w \in s.rec_stack => t = CycleSeen(l, w)
            /\ w \in s.visited /\ w \notin s.rec_stack => t = l
  BY <1>1, TurnIs
<1>3. /\ l \in SearchState(p) /\ l.visited = s.visited /\ l.path = s.path
      /\ l.at[v] = s.at[v] + 1 /\ \A x \in Nodes(p) : x # v => l.at[x] = s.at[x]
  BY <1>1, LookedIs
<1>4. s.rec_stack \subseteq s.visited
  BY DEF Searching, OnStack
<1> SUFFICES Went(p, cleared, s, t)
  OBVIOUS
<1> HIDE DEF t
<1>5. CASE s.at[v] = Len(deps)
  <2>1. Searching(p, cleared, t)
    BY <1>2, <1>5, TurnLeaves
  <2>2. t.visited = l.visited /\ t.at = l.at
    <3> HIDE DEF l, v, deps
    <3>1. l.path # <<>>
      BY <1>3
    <3>2. QED
      BY <1>1, <1>2, <1>3, <1>5, <3>1, LeaveIs
  <2>3. QED
    BY <1>3, <2>1, <2>2 DEF Went
<1>6. CASE s.at[v] # Len(deps) /\ w \notin s.visited
  <2>1. Searching(p, cleared, t)
    BY <1>2, <1>6, TurnEnters
  <2>2. w \in Nodes(p)
    <3>1. /\ s.at[v] \in Nat /\ s.at[v] <= Len(deps) /\ Len(deps) \in Nat
          /\ \A i \in 1 .. Len(deps) : deps[i] \in Nodes(p)
      BY Top
    <3> HIDE DEF v, deps
    <3>2. s.at[v] + 1 \in 1 .. Len(deps)
      BY <1>6, <3>1
    <3>3. QED
      BY <3>1, <3>2
  <2>3. t.visited = l.visited \cup {w} /\ t.at = l.at
    <3> HIDE DEF l, w
    <3>1. QED
      BY <1>2, <1>3, <1>6, <2>2, EnterIs
  <2>4. QED
    BY <1>3, <2>1, <2>3 DEF Went
<1>7. CASE s.at[v] # Len(deps) /\ w \in s.rec_stack
  <2>1. HasFound(p, cleared, t) /\ t.visited = s.visited /\ t.at = l.at
    BY <1>2, <1>4, <1>7, TurnFinds
  <2>2. QED
    BY <1>3, <2>1 DEF Went
<1>8. CASE s.at[v] # Len(deps) /\ w \in s.visited /\ w \notin s.rec_stack
  <2>1. Searching(p, cleared, t)
    BY <1>2, <1>8, TurnPasses
  <2>2. t = l
    BY <1>2, <1>8
  <2>3. QED
    BY <1>3, <2>1, <2>2 DEF Went
<1>9. QED
  <2> HIDE DEF v, deps, l, w
  <2>1. QED
    BY <1>4, <1>5, <1>6, <1>7, <1>8

\* The first call.
LEMMA FirstCall ==
  ASSUME NEW p, IsList(p), NEW cleared, NEW s, Searching(p, cleared, s), s.path = <<>>,
         NEW v \in Nodes(p), v \notin s.visited
  PROVE  /\ Searching(p, cleared, Enter(s, v)) /\ s.visited \subseteq Enter(s, v).visited
         /\ v \in Enter(s, v).visited
<1> DEFINE t == Enter(s, v)
<1>1. s \in SearchState(p) /\ s.path \in Seq(Nodes(p)) /\ s.at \in [Nodes(p) -> Nat]
  BY Fields DEF Searching, OnStack
<1>2. /\ t \in SearchState(p) /\ t.visited = s.visited \cup {v} /\ t.rec_stack = s.rec_stack \cup {v}
      /\ t.path = Append(s.path, v) /\ t.found = s.found /\ t.at = s.at
  BY <1>1, EnterIs
<1> HIDE DEF t
<1>3. t.path = <<v>> /\ Len(t.path) = 1 /\ DOMAIN t.path = {1} /\ t.path[1] = v
  BY <1>2
<1>4. ToSet(t.path) = {v} /\ IsInjective(t.path) /\ ToSet(s.path) = {}
  BY <1>3 DEF ToSet, IsInjective
<1>5. OnStack(p, cleared, t)
  BY <1>2, <1>4 DEF Searching, OnStack
<1>6. t.at[v] = 0
  BY <1>2 DEF Searching, Turned
<1>7. DependenciesOf(p, v) \in Seq(Nodes(p))
  BY Dependencies
<1>8. Turned(p, t)
  <2>1. 0 <= Len(DependenciesOf(p, v))
    BY <1>7
  <2>2. QED
    BY <1>2, <1>3, <1>6, <2>1 DEF Searching, Turned
<1>9. Called(p, t)
  BY <1>3, <1>6 DEF Called
<1>10. Chain(p, t.path)
  BY <1>3 DEF Chain
<1>11. Black(t) = Black(s)
  BY <1>2, <1>4 DEF Black
<1>12. NoneMissed(p, t)
  BY <1>11 DEF Searching, NoneMissed
<1>13. QED
  BY <1>2, <1>5, <1>8, <1>9, <1>10, <1>12 DEF Searching, t

LEMMA TurnsFinite ==
  ASSUME NEW p, IsList(p)
  PROVE  /\ IsFiniteSet(Turns(p)) /\ Cardinality(Turns(p)) \in Nat
         /\ \A w, i : <<w, i>> \in Turns(p) <=> w \in Nodes(p) /\ i \in 0 .. Len(DependenciesOf(p, w))
         /\ \A q \in Turns(p) : q[1] \in Nodes(p) /\ q[2] \in Nat /\ q = <<q[1], q[2]>>
<1> DEFINE Of(w) == {w} \X (0 .. Len(DependenciesOf(p, w)))
           of == [w \in Nodes(p) |-> Of(w)]
           Parts == {Of(w) : w \in Nodes(p)}
<1>1. Turns(p) = UNION Parts
  BY DEF Turns
<1>2. ASSUME NEW w PROVE Len(DependenciesOf(p, w)) \in Nat
  <2>1. DependenciesOf(p, w) \in Seq(Nodes(p))
    BY Dependencies
  <2>2. QED
    BY <2>1
<1>3. ASSUME NEW w PROVE IsFiniteSet(Of(w))
  <2>1. PICK m \in Nat : m = Len(DependenciesOf(p, w))
    BY <1>2
  <2>2. IsFiniteSet({w})
    BY FS_Singleton
  <2>3. IsFiniteSet(0 .. m)
    BY FS_Interval
  <2>4. QED
    BY <2>1, <2>2, <2>3, FS_Product
<1>4. IsFiniteSet(Parts)
  <2>1. of \in Surjection(Nodes(p), Parts)
    BY DEF Surjection
  <2> HIDE DEF of, Parts
  <2>2. QED
    BY <2>1, NodesFinite, FS_Surjection
<1>5. \A L \in Parts : IsFiniteSet(L)
  BY <1>3
<1>6. \A w, i : <<w, i>> \in UNION Parts <=> w \in Nodes(p) /\ i \in 0 .. Len(DependenciesOf(p, w))
  OBVIOUS
<1>7. \A q \in UNION Parts : q[1] \in Nodes(p) /\ q[2] \in Nat /\ q = <<q[1], q[2]>>
  BY <1>2
<1> HIDE DEF Parts
<1>8. IsFiniteSet(UNION Parts)
  BY <1>4, <1>5, FS_UNION
<1>9. QED
  BY <1>1, <1>6, <1>7, <1>8, FS_CardinalityType

\* The turns of a search, until it is over.
NextTurn(p, cleared, t) == IF t.found \/ t.path = <<>> THEN t ELSE Turn(p, cleared, t)

SearchSteps(p, cleared, s, v, turn, n) ==
  /\ n \in Nat /\ n = Cardinality(Turns(p))
  /\ turn[0] = Enter(s, v) /\ \A k \in 1 .. n : turn[k] = NextTurn(p, cleared, turn[k - 1])
  /\ \A k \in 0 .. n : Searching(p, cleared, turn[k]) \/ HasFound(p, cleared, turn[k])
  /\ Search(p, cleared, s, v) = turn[n]

LEMMA SearchThere ==
  ASSUME NEW p, IsList(p), NEW cleared, NEW s, Searching(p, cleared, s), s.path = <<>>,
         NEW v \in Nodes(p), v \notin s.visited
  PROVE  \E turn, n : SearchSteps(p, cleared, s, v, turn, n)
<1> DEFINE n == Cardinality(Turns(p))
           V == {t \in SearchState(p) : Searching(p, cleared, t) \/ HasFound(p, cleared, t)}
           base == Enter(s, v)
           Is(f) == f = [k \in 0 .. n |-> IF k = 0 THEN base
                                          ELSE IF f[k - 1].found \/ f[k - 1].path = <<>> THEN f[k - 1]
                                               ELSE Turn(p, cleared, f[k - 1])]
           whole == CHOOSE f : Is(f)
           more == [q \in (1 .. n) \X V |-> NextTurn(p, cleared, q[2])]
<1>1. n \in Nat /\ Search(p, cleared, s, v) = whole[n]
  BY TurnsFinite DEF Search
<1>2. base \in V
  BY FirstCall DEF Searching, OnStack
<1>3. ASSUME NEW t \in V PROVE NextTurn(p, cleared, t) \in V
  <2>1. CASE t.found \/ t.path = <<>>
    BY <2>1 DEF NextTurn
  <2>2. CASE ~(t.found \/ t.path = <<>>)
    <3>1. Searching(p, cleared, t)
      BY <2>2 DEF HasFound
    <3>2. Went(p, cleared, t, Turn(p, cleared, t))
      BY <2>2, <3>1, TurnStep
    <3>3. QED
      BY <2>2, <3>2 DEF NextTurn, Went, HasFound, Searching, OnStack
  <2>3. QED
    BY <2>1, <2>2
<1> HIDE DEF n, V, base
<1>4. more \in [(1 .. n) \X V -> V]
  BY <1>3
<1>5. PICK f : Computed(f, V, n, base, more)
  <2> HIDE DEF more
  <2>1. QED
    BY <1>1, <1>2, <1>4, Loops
<1>6. ASSUME NEW k \in 1 .. n PROVE f[k] = NextTurn(p, cleared, f[k - 1])
  <2>1. k - 1 \in 0 .. n /\ f[k - 1] \in V
    BY <1>1, <1>5 DEF Computed
  <2>2. QED
    BY <1>5, <2>1 DEF Computed
<1>7. Is(f)
  <2>1. ASSUME NEW k \in 0 .. n
        PROVE  f[k] = IF k = 0 THEN base
                      ELSE IF f[k - 1].found \/ f[k - 1].path = <<>> THEN f[k - 1]
                           ELSE Turn(p, cleared, f[k - 1])
    BY <1>1, <1>5, <1>6 DEF Computed, NextTurn
  <2>2. f = [k \in 0 .. n |-> f[k]]
    BY <1>5 DEF Computed
  <2>3. QED
    BY <2>1, <2>2
<1>8. Is(whole)
  BY <1>7
<1> HIDE DEF whole, more
<1>9. whole[0] = base /\ \A k \in 1 .. n : whole[k] = NextTurn(p, cleared, whole[k - 1])
  <2>1. 0 \in 0 .. n /\ \A k \in 1 .. n : k \in 0 .. n /\ k # 0
    BY <1>1
  <2>2. whole[0] = base
    BY <1>8, <2>1
  <2>3. ASSUME NEW k \in 1 .. n PROVE whole[k] = NextTurn(p, cleared, whole[k - 1])
    BY <1>8, <2>1 DEF NextTurn
  <2>4. QED
    BY <2>2, <2>3
<1> DEFINE Fine == {k \in 0 .. n : whole[k] \in V}
<1>10. \A k \in 0 .. n : k \in Fine
  <2>1. 0 \in Fine
    BY <1>1, <1>2, <1>9
  <2>2. ASSUME NEW k \in 1 .. n, k - 1 \in Fine PROVE k \in Fine
    BY <1>3, <1>9, <2>2
  <2> HIDE DEF Fine
  <2>3. QED
    BY <1>1, <2>1, <2>2, Upwards
<1>11. \A k \in 0 .. n : Searching(p, cleared, whole[k]) \/ HasFound(p, cleared, whole[k])
  BY <1>10 DEF V
<1>12. SearchSteps(p, cleared, s, v, whole, n)
  BY <1>1, <1>9, <1>11 DEF SearchSteps, n, base
<1>13. QED
  BY <1>12

\* A search ends, with something found or with all of it searched.
LEMMA SearchIs ==
  ASSUME NEW p, IsList(p), NEW cleared, NEW s, Searching(p, cleared, s), s.path = <<>>,
         NEW v \in Nodes(p), v \notin s.visited
  PROVE  \/ /\ Searching(p, cleared, Search(p, cleared, s, v))
            /\ Search(p, cleared, s, v).path = <<>>
            /\ s.visited \cup {v} \subseteq Search(p, cleared, s, v).visited
         \/ HasFound(p, cleared, Search(p, cleared, s, v))
<1>0. PICK turn, n : SearchSteps(p, cleared, s, v, turn, n)
  BY SearchThere
<1>1. /\ n \in Nat /\ n = Cardinality(Turns(p)) /\ turn[0] = Enter(s, v)
      /\ \A k \in 1 .. n : turn[k] = NextTurn(p, cleared, turn[k - 1])
      /\ \A k \in 0 .. n : Searching(p, cleared, turn[k]) \/ HasFound(p, cleared, turn[k])
      /\ Search(p, cleared, s, v) = turn[n]
  BY <1>0 DEF SearchSteps
<1> DEFINE Over(k) == turn[k].found \/ turn[k].path = <<>>
           D == {k \in 0 .. n : Over(k)}
<1>2. ASSUME NEW k \in 0 .. n, ~Over(k) PROVE Searching(p, cleared, turn[k]) /\ turn[k].path # <<>>
  BY <1>1, <1>2 DEF HasFound
<1>3. ASSUME NEW k \in 1 .. n
      PROVE  /\ Over(k - 1) => turn[k] = turn[k - 1]
             /\ ~Over(k - 1) => Went(p, cleared, turn[k - 1], turn[k])
  <2>1. k - 1 \in 0 .. n
    BY <1>1
  <2>2. QED
    BY <1>1, <1>2, <2>1, TurnStep DEF NextTurn
<1>4. s.visited \cup {v} \subseteq turn[n].visited
  <2> DEFINE W == {k \in 0 .. n : s.visited \cup {v} \subseteq turn[k].visited}
  <2>1. 0 \in W
    BY <1>1, FirstCall
  <2>2. ASSUME NEW k \in 1 .. n, k - 1 \in W PROVE k \in W
    BY <1>3, <2>2 DEF Went
  <2>3. \A k \in 0 .. n : k \in W
    <3> HIDE DEF W
    <3>1. QED
      BY <1>1, <2>1, <2>2, Upwards
  <2>4. QED
    BY <1>1, <2>3
<1> DEFINE U == Turns(p)
           f == [k \in 0 .. n |-> {q \in U : q[2] < turn[k].at[q[1]]}]
<1>5. ASSUME NEW k \in 0 .. n PROVE turn[k].at \in [Nodes(p) -> Nat]
  BY <1>1, Fields DEF Searching, OnStack, HasFound
<1>6. ASSUME NEW k \in 0 .. n, ~Over(k)
      PROVE  \E q \in U : q[1] = Last(turn[k].path) /\ q[2] = turn[k].at[Last(turn[k].path)] /\ q \notin f[k]
  <2> DEFINE top == Last(turn[k].path)
  <2>1. /\ top \in Nodes(p) /\ turn[k].at[top] \in Nat
        /\ turn[k].at[top] <= Len(DependenciesOf(p, top)) /\ Len(DependenciesOf(p, top)) \in Nat
    BY <1>2, <1>6, Top
  <2> HIDE DEF top
  <2>2. <<top, turn[k].at[top]>> \in U
    BY <2>1, TurnsFinite
  <2>3. <<top, turn[k].at[top]>> \notin f[k]
    BY <2>1
  <2>4. QED
    BY <2>2, <2>3 DEF top
<1>7. ASSUME NEW k \in 1 .. n
      PROVE  /\ f[k - 1] \subseteq f[k] /\ (k - 1 \in D => k \in D)
             /\ (k - 1 \notin D => f[k] # f[k - 1])
  <2>1. k - 1 \in 0 .. n /\ k \in 0 .. n
    BY <1>1
  <2>2. CASE Over(k - 1)
    BY <1>3, <2>1, <2>2
  <2>3. CASE ~Over(k - 1)
    <3> DEFINE top == Last(turn[k - 1].path)
    <3>1. /\ turn[k].at[top] = turn[k - 1].at[top] + 1
          /\ \A x \in Nodes(p) : x # top => turn[k].at[x] = turn[k - 1].at[x]
      BY <1>3, <2>3 DEF Went
    <3>2. PICK q \in U : q[1] = top /\ q[2] = turn[k - 1].at[top] /\ q \notin f[k - 1]
      BY <1>6, <2>1, <2>3
    <3> HIDE DEF top
    <3>3. \A x \in Nodes(p) : turn[k - 1].at[x] \in Nat /\ turn[k].at[x] \in Nat
      BY <1>5, <2>1
    <3>4. \A x \in Nodes(p) : turn[k - 1].at[x] <= turn[k].at[x]
      BY <3>1, <3>3
    <3>5. \A r \in U : r[1] \in Nodes(p) /\ r[2] \in Nat
      BY TurnsFinite
    <3>6. f[k - 1] \subseteq f[k]
      BY <2>1, <3>3, <3>4, <3>5
    <3>7. q \in f[k]
      BY <2>1, <3>1, <3>2, <3>3, <3>5
    <3> HIDE DEF f
    <3>8. QED
      BY <2>1, <2>3, <3>2, <3>6, <3>7
  <2>4. QED
    BY <2>2, <2>3
<1>8. IsFiniteSet(U) /\ Cardinality(U) <= n /\ f \in [0 .. n -> SUBSET U]
  BY <1>1, TurnsFinite
<1>9. n \in D \/ f[n] = U
  <2>1. n \in Nat
    BY <1>1
  <2> HIDE DEF f, D, U
  <2>2. QED
    BY <1>7, <1>8, <2>1, Settles
<1>10. n \in 0 .. n
  BY <1>1
<1>11. Over(n)
  BY <1>6, <1>9, <1>10
<1>12. QED
  BY <1>1, <1>4, <1>10, <1>11 DEF HasFound, Searching, OnStack

-----------------------------------------------------------------------------
(* What the engine and the resolver report.                                *)

\* A search that is over has missed no cycle.
LEMMA OverIsRight ==
  ASSUME NEW p, NEW cleared, NEW s, Searching(p, cleared, s), s.path = <<>>,
         NEW v \in s.visited
  PROVE  ~OnCycle(p, v)
<1>1. v \in Black(s)
  BY DEF Black, ToSet
<1>2. QED
  BY <1>1 DEF Searching, NoneMissed

LEMMA RootIs ==
  ASSUME NEW p, IsList(p), NEW root \in Ids(p)
  PROVE  /\ OnCycle(p, root) => FromRoot(p, root).found
         /\ Nodes(p) \subseteq Ids(p) /\ FromRoot(p, root).found =>
               Leads(p, FromRoot(p, root).path) /\ Cyclic(p)
<1> DEFINE s == NothingVisited(p)
           e == FromRoot(p, root)
           c == Ids(p)
<1>1. Searching(p, c, s) /\ s.path = <<>>
  BY NothingSearched
<1>2. s.visited = {} /\ root \in Nodes(p)
  BY NodesFinite DEF NothingVisited
<1>3. e = Search(p, c, s, root)
  BY DEF FromRoot, FindCycleDFS
<1> HIDE DEF s, e, c
<1>4. \/ Searching(p, c, e) /\ e.path = <<>> /\ root \in e.visited
      \/ HasFound(p, c, e)
  BY <1>1, <1>2, <1>3, SearchIs
<1>5. OnCycle(p, root) => e.found
  BY <1>4, OverIsRight DEF HasFound
<1>6. Nodes(p) \subseteq c /\ e.found => Leads(p, e.path) /\ Cyclic(p)
  BY <1>4 DEF HasFound, Searching, OnStack
<1>7. QED
  BY <1>5, <1>6 DEF e, c

LEMMA EngineReports ==
  ASSUME NEW p, IsList(p), Distinct(p)
  PROVE  /\ Cyclic(p) => ~ValidateDependencies(p)
         /\ Complete(p) => /\ ValidateDependencies(p) = ~Cyclic(p)
                           /\ Cyclic(p) => Leads(p, DetectCircularDependencies(p))
<1>1. Cyclic(p) => ~ValidateDependencies(p)
  BY RootIs DEF Cyclic, ValidateDependencies
<1>2. ASSUME Complete(p) PROVE Nodes(p) \subseteq Ids(p)
  <2>1. ASSUME NEW i \in DOMAIN p PROVE ToSet(p[i].dependencies) \subseteq Ids(p)
    <3>1. ToSet(p[i].dependencies) = Direct(p, {p[i].id}) /\ p[i].id \in Ids(p)
      BY OwnDependencies
    <3>2. Direct(p, {p[i].id}) \subseteq Direct(p, Ids(p))
      BY <3>1, DirectIs
    <3>3. QED
      BY <1>2, <3>1, <3>2 DEF Complete
  <2>2. QED
    BY <2>1 DEF Nodes
<1>3. ASSUME Complete(p), ~ValidateDependencies(p)
      PROVE  Cyclic(p) /\ Leads(p, DetectCircularDependencies(p))
  <2> DEFINE Out == {i \in DOMAIN p : FromRoot(p, p[i].id).found}
             IsFirst(i) == /\ FromRoot(p, p[i].id).found
                           /\ \A j \in 1 .. (i - 1) : ~FromRoot(p, p[j].id).found
             first == CHOOSE i \in DOMAIN p : IsFirst(i)
  <2>1. Out \in SUBSET Nat /\ Out # {} /\ DOMAIN p = 1 .. Len(p) /\ Len(p) \in Nat
    BY <1>3 DEF IsList, ValidateDependencies, Ids
  <2>2. PICK m \in Out : \A k \in Out : m <= k
    <3> HIDE DEF Out
    <3>1. QED
      BY <2>1, LeastThere
  <2>3. \A j \in 1 .. (m - 1) : j \in DOMAIN p /\ ~(m <= j)
    BY <2>1, <2>2
  <2>4. m \in DOMAIN p /\ IsFirst(m)
    BY <2>2, <2>3
  <2>5. first \in DOMAIN p /\ IsFirst(first)
    BY <2>4
  <2>6. DetectCircularDependencies(p) = FromRoot(p, p[first].id).path
    BY <1>3 DEF DetectCircularDependencies
  <2> HIDE DEF first
  <2>7. p[first].id \in Ids(p)
    BY <2>5 DEF Ids
  <2>8. QED
    BY <1>2, <1>3, <2>5, <2>6, <2>7, RootIs
<1>4. ValidateDependencies(p) \in BOOLEAN /\ Cyclic(p) \in BOOLEAN
  BY DEF ValidateDependencies, Cyclic
<1>5. QED
  BY <1>1, <1>3, <1>4

LEMMA AllPlaces ==
  ASSUME NEW n \in Nat
  PROVE  Places(1 .. n, n) = [i \in 1 .. n |-> i]
<1> DEFINE set == 1 .. n
           Is(f) == f = [k \in Nat |->
                           IF k = 0 THEN <<>>
                           ELSE IF k \in set THEN Append(f[k - 1], k) ELSE f[k - 1]]
           upto == CHOOSE f : Is(f)
           First(k) == [i \in 1 .. k |-> i]
           whole == [k \in Nat |-> IF k <= n THEN First(k) ELSE First(n)]
<1>1. Places(set, n) = upto[n]
  BY DEF Places
<1>2. ASSUME NEW k \in 1 .. n PROVE First(k) = Append(First(k - 1), k)
  <2>1. k - 1 \in Nat /\ (k - 1) + 1 = k
    OBVIOUS
  <2>2. First(k - 1) \in Seq(Nat) /\ Len(First(k - 1)) = k - 1
    BY <2>1
  <2>3. /\ DOMAIN Append(First(k - 1), k) = 1 .. k
        /\ \A i \in 1 .. k - 1 : Append(First(k - 1), k)[i] = i
        /\ Append(First(k - 1), k)[k] = k
        /\ Append(First(k - 1), k) \in Seq(Nat)
    BY <2>1, <2>2
  <2>4. \A i \in 1 .. k : i \in 1 .. k - 1 \/ i = k
    OBVIOUS
  <2> DEFINE q == Append(First(k - 1), k)
  <2>5. q = [i \in 1 .. k |-> q[i]]
    BY <2>3
  <2>6. \A i \in 1 .. k : q[i] = i
    BY <2>3, <2>4
  <2>7. QED
    BY <2>5, <2>6
<1>3. First(0) = <<>>
  OBVIOUS
<1> HIDE DEF First
<1>4. Is(whole)
  <2>1. ASSUME NEW k \in Nat
        PROVE  whole[k] = IF k = 0 THEN <<>> ELSE IF k \in set THEN Append(whole[k - 1], k) ELSE whole[k - 1]
    <3>1. CASE k = 0
      BY <1>3, <3>1
    <3>2. CASE k \in 1 .. n
      <4>1. k - 1 \in Nat /\ k - 1 <= n /\ k <= n /\ k # 0
        BY <3>2
      <4>2. whole[k] = First(k) /\ whole[k - 1] = First(k - 1)
        BY <4>1
      <4>3. QED
        BY <1>2, <3>2, <4>1, <4>2
    <3>3. CASE k # 0 /\ k \notin 1 .. n
      <4>1. k - 1 \in Nat /\ ~(k <= n) /\ (k - 1 <= n => k - 1 = n)
        BY <3>3
      <4>2. whole[k] = First(n) /\ whole[k - 1] = First(n)
        BY <4>1
      <4>3. QED
        BY <3>3, <4>2
    <3>4. QED
      BY <3>1, <3>2, <3>3
  <2>2. whole = [k \in Nat |-> whole[k]]
    OBVIOUS
  <2> HIDE DEF whole
  <2>3. QED
    BY <2>1, <2>2
<1>5. Is(upto)
  BY <1>4
<1> HIDE DEF upto
<1>6. ASSUME NEW k \in Nat
      PROVE  upto[k] = IF k = 0 THEN <<>> ELSE IF k \in set THEN Append(upto[k - 1], k) ELSE upto[k - 1]
  BY <1>5
<1> DEFINE S == {k \in 0 .. n : upto[k] = First(k)}
<1>7. 0 \in S
  BY <1>3, <1>6
<1>8. ASSUME NEW k \in 1 .. n, k - 1 \in S PROVE k \in S
  <2>1. k \in Nat /\ k # 0 /\ k \in set /\ k \in 0 .. n
    OBVIOUS
  <2>2. upto[k - 1] = First(k - 1)
    BY <1>8
  <2>3. upto[k] = Append(upto[k - 1], k)
    <3> HIDE DEF set, S
    <3>1. QED
      BY <1>6, <2>1
  <2>4. upto[k] = First(k)
    BY <1>2, <2>2, <2>3
  <2>5. QED
    BY <2>1, <2>4
<1>9. n \in S
  <2> HIDE DEF S
  <2>1. \A k \in 0 .. n : k \in S
    BY <1>7, <1>8, Upwards
  <2>2. QED
    BY <2>1
<1>10. QED
  BY <1>1, <1>9 DEF First

\* The map by id has every stage, when no two have the same.
LEMMA MappedIs ==
  ASSUME NEW p, IsList(p), Distinct(p)
  PROVE  Mapped(p) = p
<1> DEFINE n == Len(p)
           kept == {i \in DOMAIN p : \A j \in DOMAIN p : p[j].id = p[i].id => j <= i}
           last == Places(kept, n)
<1>1. n \in Nat /\ DOMAIN p = 1 .. n /\ p = [i \in DOMAIN p |-> p[i]]
  BY DEF IsList
<1>2. kept = 1 .. n
  <2>1. ASSUME NEW i \in DOMAIN p PROVE i \in kept
    <3>1. \A j \in DOMAIN p : p[j].id = p[i].id => j = i
      BY DEF Distinct
    <3>2. i <= i
      BY <1>1
    <3>3. QED
      BY <3>1, <3>2
  <2>2. QED
    BY <1>1, <2>1
<1>3. last = [i \in 1 .. n |-> i]
  BY <1>1, <1>2, AllPlaces
<1>4. Mapped(p) = [k \in DOMAIN last |-> p[last[k]]]
  BY DEF Mapped
<1> HIDE DEF last, kept, n
<1>5. DOMAIN last = DOMAIN p /\ \A k \in DOMAIN p : last[k] = k
  BY <1>1, <1>3
<1>6. QED
  BY <1>1, <1>4, <1>5

\* The turn of a root.
Rooted(p, t, r) == IF t.found \/ r \in t.visited THEN t ELSE ColourDFS(p, t, r)

Between(p, t) ==
  \/ Searching(p, Nodes(p), t) /\ t.path = <<>>
  \/ HasFound(p, Nodes(p), t)

LEMMA RootedIs ==
  ASSUME NEW p, IsList(p), NEW t, Between(p, t), NEW r \in Ids(p)
  PROVE  /\ Between(p, Rooted(p, t, r))
         /\ Rooted(p, t, r).found \/ {r} \cup t.visited \subseteq Rooted(p, t, r).visited
         /\ t.found => Rooted(p, t, r).found
<1>1. CASE t.found \/ r \in t.visited
  BY <1>1 DEF Rooted
<1>2. CASE ~(t.found \/ r \in t.visited)
  <2>1. Searching(p, Nodes(p), t) /\ t.path = <<>> /\ r \notin t.visited /\ r \in Nodes(p)
    BY <1>2, NodesFinite DEF Between, HasFound
  <2>2. Rooted(p, t, r) = Search(p, Nodes(p), t, r)
    BY <1>2 DEF Rooted, ColourDFS
  <2> DEFINE c == Nodes(p)
             e == Search(p, c, t, r)
  <2>3. \/ Searching(p, c, e) /\ e.path = <<>> /\ t.visited \cup {r} \subseteq e.visited
        \/ HasFound(p, c, e)
    <3> HIDE DEF e
    <3>1. Searching(p, c, t) /\ r \in Nodes(p)
      BY <2>1
    <3> HIDE DEF c
    <3>2. QED
      BY <2>1, <3>1, SearchIs DEF e
  <2>4. QED
    BY <1>2, <2>2, <2>3 DEF Between, HasFound
<1>3. QED
  BY <1>1, <1>2

RootsSteps(p, roots, rooted) ==
  /\ rooted[0] = NothingVisited(p)
  /\ \A k \in 1 .. Len(roots) : rooted[k] = Rooted(p, rooted[k - 1], roots[k])
  /\ \A k \in 0 .. Len(roots) : Between(p, rooted[k])
  /\ HasCircularDependency(p, roots) = rooted[Len(roots)].found

LEMMA RootsThere ==
  ASSUME NEW p, IsList(p), Distinct(p), NEW roots \in Seq(Ids(p))
  PROVE  \E rooted : RootsSteps(p, roots, rooted)
<1> DEFINE n == Len(roots)
           V == {t \in SearchState(p) : Between(p, t)}
           base == NothingVisited(p)
           Is(f) == f = [k \in 0 .. n |-> IF k = 0 THEN base
                                          ELSE IF f[k - 1].found \/ roots[k] \in f[k - 1].visited
                                               THEN f[k - 1] ELSE ColourDFS(p, f[k - 1], roots[k])]
           whole == CHOOSE f : Is(f)
           more == [q \in (1 .. n) \X V |-> Rooted(p, q[2], roots[q[1]])]
<1>1. n \in Nat /\ \A k \in 1 .. n : roots[k] \in Ids(p)
  OBVIOUS
<1>2. HasCircularDependency(p, roots) = whole[n].found
  <2>1. Mapped(p) = p
    BY MappedIs
  <2>2. QED
    BY <2>1 DEF HasCircularDependency
<1>3. base \in V
  BY NothingSearched DEF Between, Searching, OnStack
<1>4. ASSUME NEW t \in V, NEW r \in Ids(p) PROVE Rooted(p, t, r) \in V
  <2>1. Between(p, Rooted(p, t, r))
    BY RootedIs
  <2>2. QED
    BY <2>1 DEF Between, Searching, OnStack, HasFound
<1> HIDE DEF n, V, base
<1>5. more \in [(1 .. n) \X V -> V]
  BY <1>1, <1>4
<1>6. PICK f : Computed(f, V, n, base, more)
  <2> HIDE DEF more
  <2>1. QED
    BY <1>1, <1>3, <1>5, Loops
<1>7. ASSUME NEW k \in 1 .. n PROVE f[k] = Rooted(p, f[k - 1], roots[k])
  <2>1. k - 1 \in 0 .. n /\ f[k - 1] \in V
    BY <1>1, <1>6 DEF Computed
  <2>2. QED
    BY <1>6, <2>1 DEF Computed
<1>8. Is(f)
  <2>1. ASSUME NEW k \in 0 .. n
        PROVE  f[k] = IF k = 0 THEN base
                      ELSE IF f[k - 1].found \/ roots[k] \in f[k - 1].visited
                           THEN f[k - 1] ELSE ColourDFS(p, f[k - 1], roots[k])
    BY <1>1, <1>6, <1>7 DEF Computed, Rooted
  <2>2. f = [k \in 0 .. n |-> f[k]]
    BY <1>6 DEF Computed
  <2>3. QED
    BY <2>1, <2>2
<1>9. Is(whole)
  BY <1>8
<1> HIDE DEF whole, more
<1>10. whole[0] = base /\ \A k \in 1 .. n : whole[k] = Rooted(p, whole[k - 1], roots[k])
  <2>1. 0 \in 0 .. n /\ \A k \in 1 .. n : k \in 0 .. n /\ k # 0
    BY <1>1
  <2>2. whole[0] = base
    BY <1>9, <2>1
  <2>3. ASSUME NEW k \in 1 .. n PROVE whole[k] = Rooted(p, whole[k - 1], roots[k])
    BY <1>9, <2>1 DEF Rooted
  <2>4. QED
    BY <2>2, <2>3
<1> DEFINE Fine == {k \in 0 .. n : whole[k] \in V}
<1>11. \A k \in 0 .. n : k \in Fine
  <2>1. 0 \in Fine
    BY <1>1, <1>3, <1>10
  <2>2. ASSUME NEW k \in 1 .. n, k - 1 \in Fine PROVE k \in Fine
    BY <1>1, <1>4, <1>10, <2>2
  <2> HIDE DEF Fine
  <2>3. QED
    BY <1>1, <2>1, <2>2, Upwards
<1>12. \A k \in 0 .. n : Between(p, whole[k])
  BY <1>11 DEF V
<1>13. RootsSteps(p, roots, whole)
  BY <1>2, <1>10, <1>12 DEF RootsSteps, n, base
<1>14. QED
  BY <1>13

LEMMA ResolverReports ==
  ASSUME NEW p, IsList(p), Distinct(p), NEW roots \in Seq(Ids(p)), ToSet(roots) = Ids(p)
  PROVE  HasCircularDependency(p, roots) = Cyclic(p)
<1> DEFINE n == Len(roots)
<1>0. PICK rooted : RootsSteps(p, roots, rooted)
  BY RootsThere
<1>1. /\ n \in Nat /\ DOMAIN roots = 1 .. n /\ \A k \in 1 .. n : roots[k] \in Ids(p)
      /\ \A k \in 1 .. n : rooted[k] = Rooted(p, rooted[k - 1], roots[k])
      /\ \A k \in 0 .. n : Between(p, rooted[k])
      /\ HasCircularDependency(p, roots) = rooted[n].found
  BY <1>0 DEF RootsSteps
<1> HIDE DEF n
<1> DEFINE W == {k \in 0 .. n : rooted[k].found \/ \A i \in 1 .. k : roots[i] \in rooted[k].visited}
<1>2. 0 \in W
  BY <1>1
<1>3. ASSUME NEW k \in 1 .. n, k - 1 \in W PROVE k \in W
  <2>1. k - 1 \in 0 .. n /\ k \in 0 .. n /\ \A i \in 1 .. k : i \in 1 .. k - 1 \/ i = k
    BY <1>1
  <2>2. /\ rooted[k].found \/ {roots[k]} \cup rooted[k - 1].visited \subseteq rooted[k].visited
        /\ rooted[k - 1].found => rooted[k].found
    BY <1>1, <2>1, RootedIs
  <2>3. QED
    BY <1>3, <2>1, <2>2
<1>4. n \in W
  <2> HIDE DEF W
  <2>1. \A k \in 0 .. n : k \in W
    BY <1>1, <1>2, <1>3, Upwards
  <2>2. QED
    BY <1>1, <2>1
<1>5. n \in 0 .. n /\ Between(p, rooted[n])
  BY <1>1
<1>6. ASSUME rooted[n].found PROVE Cyclic(p)
  BY <1>5, <1>6 DEF Between, HasFound, Searching, OnStack
<1>7. ASSUME ~rooted[n].found PROVE ~Cyclic(p)
  <2>1. Searching(p, Nodes(p), rooted[n]) /\ rooted[n].path = <<>>
    BY <1>5, <1>7 DEF Between, HasFound
  <2>2. \A v \in Ids(p) : v \in rooted[n].visited
    BY <1>1, <1>4, <1>7 DEF ToSet
  <2>3. QED
    BY <2>1, <2>2, OverIsRight DEF Cyclic
<1>8. rooted[n].found \in BOOLEAN /\ Cyclic(p) \in BOOLEAN
  BY <1>5, Fields DEF Between, HasFound, Searching, OnStack, Cyclic
<1>9. QED
  BY <1>1, <1>6, <1>7, <1>8

LEMMA RootsAre ==
  ASSUME NEW S, IsFiniteSet(S), NEW roots \in SetToSeqs(S)
  PROVE  roots \in Seq(S) /\ ToSet(roots) = S
<1> DEFINE n == Cardinality(S)
<1>1. n \in Nat
  BY FS_CardinalityType
<1>2. roots \in [1 .. n -> S] /\ \A i, j \in 1 .. n : i # j => roots[i] # roots[j]
  BY DEF SetToSeqs
<1>3. IsFiniteSet(1 .. n) /\ Cardinality(1 .. n) = n
  <2> HIDE DEF n
  <2>1. QED
    BY <1>1, FS_Interval
<1>4. roots \in Injection(1 .. n, S)
  BY <1>2 DEF Injection, IsInjective
<1>5. roots \in Surjection(1 .. n, S)
  BY <1>3, <1>4, FS_Injection
<1>6. ToSet(roots) = S
  BY <1>2, <1>5 DEF Surjection, ToSet
<1> HIDE DEF n
<1>7. roots \in Seq(S)
  BY <1>1, <1>2
<1>8. QED
  BY <1>6, <1>7

-----------------------------------------------------------------------------
(* Every pipeline is a list of stages, and the engine is right about them. *)

PipelineOK == application \in DOMAIN Applications /\ pipeline \in Seq(Chosen.stages)

LEMMA PipelineIsList == PipelineOK => IsList(pipeline)
<1> SUFFICES ASSUME PipelineOK PROVE IsList(pipeline)
  OBVIOUS
<1>1. \A i \in DOMAIN pipeline : pipeline[i] \in Chosen.stages /\ pipeline[i] \in ToSet(pipeline)
  BY DEF PipelineOK, ToSet
<1>2. pipeline \in Seq(ToSet(pipeline))
  BY <1>1 DEF PipelineOK
<1>3. \A s \in Chosen.stages : s.dependencies \in Seq(ToSet(s.dependencies))
  BY EngineAssumption DEF PipelineOK, Chosen
<1>4. QED
  BY <1>1, <1>2, <1>3 DEF IsList

LEMMA RightAboutLists == PipelineOK => OrderedOrReported
<1> SUFFICES ASSUME PipelineOK, Distinct(pipeline) PROVE OrderedOrReported
  BY DEF OrderedOrReported, OrderIsExact, CyclesReported
<1>1. IsList(pipeline)
  BY PipelineIsList
<1>2. OrderIsExact
  BY <1>1, OrderExact DEF OrderIsExact
<1>3. \A roots \in SetToSeqs(Ids(pipeline)) : HasCircularDependency(pipeline, roots) = Cyclic(pipeline)
  <2>1. IsFiniteSet(Ids(pipeline))
    BY <1>1, NodesFinite
  <2>2. QED
    BY <1>1, <2>1, RootsAre, ResolverReports
<1>4. Leads(pipeline, DetectCircularDependencies(pipeline)) =>
         LeadsIntoCycle(DetectCircularDependencies(pipeline))
  BY DEF Leads, Chain, LeadsIntoCycle
<1>5. CyclesReported
  BY <1>1, <1>3, <1>4, EngineReports DEF CyclesReported
<1>6. QED
  BY <1>2, <1>5 DEF OrderedOrReported

LEMMA PipelineSteps == PipelineOK /\ [EngineNext]_engineVars => PipelineOK'
<1> SUFFICES ASSUME PipelineOK, [EngineNext]_engineVars PROVE PipelineOK'
  OBVIOUS
<1>1. CASE AddStage
  <2>1. PICK s \in Chosen.stages : pipeline' = Append(pipeline, s)
    BY <1>1 DEF AddStage
  <2>2. application' = application
    BY <1>1 DEF AddStage
  <2>3. QED
    BY <2>1, <2>2 DEF PipelineOK, Chosen
<1>2. CASE RemoveStage
  <2>1. PICK id \in Ids(pipeline) : pipeline' = RemoveAt(pipeline, Named(pipeline, id))
    BY <1>2 DEF RemoveStage
  <2>2. PICK i \in DOMAIN pipeline : i = Named(pipeline, id)
    BY PipelineIsList, NamedThere
  <2>3. RemoveAt(pipeline, i) \in Seq(Chosen.stages)
    <3> DEFINE A == Chosen.stages
    <3>1. pipeline \in Seq(A) /\ DOMAIN pipeline = 1 .. Len(pipeline) /\ Len(pipeline) \in Nat
      BY DEF PipelineOK
    <3> HIDE DEF A
    <3>2. i \in 1 .. Len(pipeline)
      BY <3>1
    <3>3. SubSeq(pipeline, 1, i - 1) \in Seq(A) /\ SubSeq(pipeline, i + 1, Len(pipeline)) \in Seq(A)
      BY <3>1, <3>2
    <3>4. RemoveAt(pipeline, i) \in Seq(A)
      BY <3>3 DEF RemoveAt
    <3>5. QED
      BY <3>4 DEF A
  <2>4. application' = application
    BY <1>2 DEF RemoveStage
  <2>5. QED
    BY <2>1, <2>2, <2>3, <2>4 DEF PipelineOK, Chosen
<1>3. CASE UpdateStage
  <2>1. PICK s \in Chosen.stages : /\ s.id \in Ids(pipeline)
                                   /\ pipeline' = [pipeline EXCEPT ![Named(pipeline, s.id)] = s]
    BY <1>3 DEF UpdateStage
  <2>2. PICK i \in DOMAIN pipeline : i = Named(pipeline, s.id)
    BY <2>1, PipelineIsList, NamedThere
  <2>3. [pipeline EXCEPT ![i] = s] \in Seq(Chosen.stages)
    BY DEF PipelineOK
  <2>4. application' = application
    BY <1>3 DEF UpdateStage
  <2>5. QED
    BY <2>1, <2>2, <2>3, <2>4 DEF PipelineOK, Chosen
<1>4. CASE UNCHANGED engineVars
  BY <1>4 DEF PipelineOK, Chosen, engineVars
<1>5. QED
  BY <1>1, <1>2, <1>3, <1>4 DEF EngineNext

(* Whatever stages an application adds, removes and updates: as long as no two have *)
(* the same name, getExecutionOrder lists what can run and nothing else, in order,  *)
(* every cycle is reported by validateDependencies and by hasCircularDependency,    *)
(* and what detectCircularDependencies returns follows dependencies into a cycle.   *)
THEOREM EngineIsRight == EngineSpec => []OrderedOrReported
<1>1. EngineInit => PipelineOK
  BY DEF EngineInit, PipelineOK
<1>2. QED
  BY <1>1, PipelineSteps, RightAboutLists, PTL DEF EngineSpec

-----------------------------------------------------------------------------
(* KillSwitch.                                                             *)

USE DEF config, flags, callers, run, ghosts, vars

\* None of the two operations is called.
Steady == Api \cap {"cancel", "forceImmediate"} = {}

\* The phases by name.
PhaseNames == {"INACTIVE", "TRIGGERED", "STOPPING_TASKS", "SAVING_STATE", "CLEANUP",
               "FINALIZING", "COMPLETED"}

LEMMA PhasesNamed == {Phases[i] : i \in DOMAIN Phases} = PhaseNames
<1>1. DOMAIN Phases = 1 .. 7
  BY DEF Phases
<1>2. /\ Phases[1] = "INACTIVE" /\ Phases[2] = "TRIGGERED" /\ Phases[3] = "STOPPING_TASKS"
      /\ Phases[4] = "SAVING_STATE" /\ Phases[5] = "CLEANUP" /\ Phases[6] = "FINALIZING"
      /\ Phases[7] = "COMPLETED"
  BY DEF Phases
<1>3. \A i \in 1 .. 7 : i = 1 \/ i = 2 \/ i = 3 \/ i = 4 \/ i = 5 \/ i = 6 \/ i = 7
  OBVIOUS
<1>4. QED
  BY <1>1, <1>2, <1>3 DEF PhaseNames

-----------------------------------------------------------------------------
(* The inductive invariant.                                                *)

\* A caller between two steps of trigger or reset holds mutex_; the others are
\* in no such place, and nobody is where only the two operations lead.
Held ==
  \A c \in Callers :
    /\ pc[c] \in {"spawn", "join", "clear"} => mutex = c
    /\ pc[c] \notin {"cancel", "unlock"} /\ after[c] # "unlock"

\* The thread object has a thread from its spawning to its being joined, and
\* while it has, the switch is triggered, so that nobody spawns another.
OneThread ==
  /\ stage # "none" <=> thread = "joinable"
  /\ thread = "joinable" => triggered
  /\ \A c \in Callers :
       /\ pc[c] = "spawn" => triggered /\ ~completed /\ stage = "none"
       /\ pc[c] = "clear" => stage = "none"

\* The flag of completion comes last, and is cleared with the others.
Completion ==
  /\ completed => triggered /\ stage \in {"ended", "none"} /\ phase = "COMPLETED"
  /\ stage \in {"counting", "flagging"} => phase = "COMPLETED"

\* What the shutdown thread has achieved where it is.
Saved ==
  /\ stage \in {"stopping", "stopped"} => todo = {} /\ snaps = {} /\ file = {}
  /\ stage = "writing" /\ success => todo = {}
  /\ stage \in {"saved", "cleaning", "cleaned", "finalizing"} /\ success =>
       todo = {} /\ snaps = file
  /\ stage \in {"stopping", "stopped", "saving", "writing", "saved", "cleaning", "cleaned",
                "finalizing"} => outcome = "none"
  /\ SuccessMeansSaved

IInv == TypeOK /\ NeverTerminates /\ Held /\ OneThread /\ Completion /\ Saved

-----------------------------------------------------------------------------
(* One lemma for each part.                                                *)

Cancels(c) == CancelEnters(c) \/ CancelWrites(c)
Resets(c) == ResetEnters(c) \/ ResetJoins(c) \/ ResetClears(c)

LEMMA TypeStep ==
  ASSUME TypeOK, [Next]_vars
  PROVE  TypeOK'
<1> USE KillSwitchAssumption, PhasesNamed DEF TypeOK, PhaseNames
<1>1. ASSUME NEW c \in Callers, CallsTrigger(c) \/ TriggerRefused(c) \/ TimeoutReplaced(c)
                                 \/ TimeoutRestored(c) \/ Forces(c) \/ UnlocksTwice(c)
      PROVE  TypeOK'
  <2>1. CASE CallsTrigger(c) \/ TriggerRefused(c)
    BY <2>1 DEF CallsTrigger, TriggerRefused, Goto
  <2>2. CASE TimeoutReplaced(c) \/ TimeoutRestored(c)
    BY <2>2 DEF TimeoutReplaced, TimeoutRestored, Goto
  <2>3. CASE Forces(c)
    BY <2>3 DEF Forces
  <2>4. CASE UnlocksTwice(c)
    BY <2>4 DEF UnlocksTwice, Goto
  <2>5. QED
    BY <1>1, <2>1, <2>2, <2>3, <2>4
<1>2. ASSUME NEW c \in Callers, TriggerEnters(c) PROVE TypeOK'
  <2>1. pc' \in [Callers -> {"out", "trigger", "spawn", "restore", "unlock", "cancel", "join",
                             "clear", "wait"}]
    BY <1>2 DEF TriggerEnters, Goto
  <2>2. {enabled, triggered, shutting, completed, force, preserve, success, cancelled,
         crashed}' \subseteq BOOLEAN
    BY <1>2 DEF TriggerEnters
  <2>3. mutex' \in Callers \cup {Free} /\ triggers' \in 0 .. MaxTriggers
    BY <1>2 DEF TriggerEnters
  <2>4. UNCHANGED <<phase, timeout, registered, after, original, thread, stage, todo, asked, snaps,
                    file, outcome>>
    BY <1>2 DEF TriggerEnters
  <2>5. QED
    BY <2>1, <2>2, <2>3, <2>4
<1>3. ASSUME NEW c \in Callers, TriggerSpawns(c) PROVE TypeOK'
  BY <1>3 DEF TriggerSpawns, Goto
<1>4. ASSUME NEW c \in Callers, Cancels(c) \/ Resets(c) PROVE TypeOK'
  <2>1. CASE CancelEnters(c)
    BY <2>1 DEF CancelEnters, Goto
  <2>2. CASE CancelWrites(c)
    BY <2>2 DEF CancelWrites, Goto
  <2>3. CASE ResetEnters(c)
    BY <2>3 DEF ResetEnters, Goto
  <2>4. CASE ResetJoins(c)
    BY <2>4 DEF ResetJoins, Goto
  <2>5. CASE ResetClears(c)
    BY <2>5 DEF ResetClears, Goto
  <2>6. QED
    BY <1>4, <2>1, <2>2, <2>3, <2>4, <2>5 DEF Cancels, Resets
<1>5. ASSUME NEW c \in Callers, WaitStarts(c) \/ WaitReturns(c) \/ SetsEnabled(c)
      PROVE  TypeOK'
  <2>1. CASE WaitStarts(c) \/ WaitReturns(c)
    BY <2>1 DEF WaitStarts, WaitReturns, Goto
  <2>2. CASE SetsEnabled(c)
    BY <2>2 DEF SetsEnabled
  <2>3. QED
    BY <1>5, <2>1, <2>2
<1>6. ASSUME NEW c \in Callers, Registers(c) PROVE TypeOK'
  BY <1>6 DEF Registers
<1>7. CASE Starts
  BY <1>7 DEF Starts, Advances
<1>8. CASE StopsTasks \/ BeginsSaving
  <2>1. CASE StopsTasks
    BY <2>1 DEF StopsTasks, Advances
  <2>2. CASE BeginsSaving
    BY <2>2 DEF BeginsSaving, Advances
  <2>3. QED
    BY <1>8, <2>1, <2>2
<1>9. ASSUME NEW k \in todo, AsksComponent(k) PROVE TypeOK'
  BY <1>9 DEF AsksComponent, Advances
<1>10. CASE SavingDeadline \/ EveryoneAsked \/ WritesFile
  <2>1. CASE SavingDeadline \/ EveryoneAsked
    BY <2>1 DEF SavingDeadline, EveryoneAsked, Advances
  <2>2. CASE WritesFile
    BY <2>2 DEF WritesFile, Advances
  <2>3. QED
    BY <1>10, <2>1, <2>2
<1>11. CASE BeginsCleanup \/ CleansUp \/ BeginsFinalizing
  <2>1. CASE BeginsCleanup
    BY <2>1 DEF BeginsCleanup, Advances
  <2>2. CASE CleansUp
    BY <2>2 DEF CleansUp, Advances
  <2>3. CASE BeginsFinalizing
    BY <2>3 DEF BeginsFinalizing, Advances
  <2>4. QED
    BY <1>11, <2>1, <2>2, <2>3
<1>12. CASE Finalizes \/ UpdatesStats \/ Ends
  <2>1. CASE Finalizes
    BY <2>1 DEF Finalizes, Advances
  <2>2. CASE UpdatesStats
    BY <2>2 DEF UpdatesStats, Advances
  <2>3. CASE Ends
    BY <2>3 DEF Ends
  <2>4. QED
    BY <1>12, <2>1, <2>2, <2>3
<1>13. CASE UNCHANGED vars
  BY <1>13
<1>14. QED
  BY <1>1, <1>2, <1>3, <1>4, <1>5, <1>6, <1>7, <1>8, <1>9, <1>10, <1>11, <1>12, <1>13
     DEF Next, Caller, ShutdownThread, Cancels, Resets

LEMMA HeldStep ==
  ASSUME Steady, TypeOK, Held, [Next]_vars
  PROVE  Held'
<1> USE KillSwitchAssumption DEF TypeOK, Held, Steady
<1>1. ASSUME NEW c \in Callers, Caller(c) PROVE Held'
  <2>1. CASE CallsTrigger(c) \/ TriggerRefused(c) \/ TimeoutReplaced(c) \/ TimeoutRestored(c)
    BY <2>1 DEF CallsTrigger, TriggerRefused, TimeoutReplaced, TimeoutRestored, Goto
  <2>2. CASE TriggerEnters(c) \/ TriggerSpawns(c)
    BY <2>2 DEF TriggerEnters, TriggerSpawns, Goto
  <2>3. CASE ResetEnters(c) \/ ResetJoins(c) \/ ResetClears(c)
    BY <2>3 DEF ResetEnters, ResetJoins, ResetClears, Goto
  <2>4. CASE WaitStarts(c) \/ WaitReturns(c) \/ SetsEnabled(c) \/ Registers(c)
    BY <2>4 DEF WaitStarts, WaitReturns, SetsEnabled, Registers, Goto
  <2>5. ~Forces(c) /\ ~UnlocksTwice(c) /\ ~CancelEnters(c) /\ ~CancelWrites(c)
    BY DEF Forces, UnlocksTwice, CancelEnters, CancelWrites, Goto
  <2>6. QED
    BY <1>1, <2>1, <2>2, <2>3, <2>4, <2>5 DEF Caller
<1>2. ASSUME UNCHANGED <<callers, mutex>> PROVE Held'
  BY <1>2
<1>3. QED
  BY <1>1, <1>2 DEF Next, ShutdownThread, Starts, StopsTasks, BeginsSaving, SavingDeadline,
     EveryoneAsked, WritesFile, AsksComponent, BeginsCleanup, CleansUp, BeginsFinalizing, Finalizes,
     UpdatesStats, Ends, Advances

\* The steps of the shutdown thread, and how far each of them gets.
LEMMA ThreadStep ==
  ASSUME TypeOK, ShutdownThread
  PROVE  /\ stage \notin {"none", "ended"} /\ stage' \notin {"none", "start"}
         /\ UNCHANGED <<triggered, thread, callers, mutex, crashed>>
         /\ stage = "counting" => stage' = "flagging" /\ phase' = phase
         /\ stage = "flagging" => stage' = "ended" /\ phase' = phase
         /\ stage' = "counting" => phase' = "COMPLETED"
         /\ stage' = "flagging" => stage = "counting"
         /\ completed' = completed \/ stage = "flagging"
BY DEF TypeOK, ShutdownThread, Starts, StopsTasks, BeginsSaving, SavingDeadline, EveryoneAsked,
   WritesFile, AsksComponent, BeginsCleanup, CleansUp, BeginsFinalizing, Finalizes, UpdatesStats,
   Ends, Advances

LEMMA OneThreadStep ==
  ASSUME Steady, TypeOK, NeverTerminates, Held, OneThread, Completion, [Next]_vars
  PROVE  NeverTerminates' /\ OneThread' /\ Completion'
<1> DEFINE Goal == NeverTerminates' /\ OneThread' /\ Completion'
<1> USE KillSwitchAssumption DEF NeverTerminates, OneThread, Completion
<1>1. ASSUME NEW c \in Callers, TriggerEnters(c) PROVE Goal
  BY <1>1 DEF TriggerEnters, Goto, TypeOK
<1>2. ASSUME NEW c \in Callers, TriggerSpawns(c) PROVE Goal
  <2>1. \A d \in Callers : pc[d] \in {"spawn", "clear"} => d = c
    BY <1>2 DEF TriggerSpawns, Goto, Held
  <2>2. QED
    BY <1>2, <2>1 DEF TriggerSpawns, Goto, TypeOK, Held
<1>3. ASSUME NEW c \in Callers, ResetEnters(c) PROVE Goal
  BY <1>3 DEF ResetEnters, Goto, TypeOK
<1>4. ASSUME NEW c \in Callers, ResetJoins(c) PROVE Goal
  <2>1. \A d \in Callers : pc[d] # "spawn"
    BY <1>4 DEF ResetJoins, Goto, Held
  <2>2. QED
    BY <1>4, <2>1 DEF ResetJoins, Goto, TypeOK
<1>5. ASSUME NEW c \in Callers, ResetClears(c) PROVE Goal
  <2>1. \A d \in Callers : pc[d] # "spawn"
    BY <1>5 DEF ResetClears, Goto, Held
  <2>2. QED
    BY <1>5, <2>1 DEF ResetClears, Goto, TypeOK
<1>6. ASSUME NEW c \in Callers,
             \/ CallsTrigger(c) \/ TriggerRefused(c) \/ TimeoutReplaced(c) \/ TimeoutRestored(c)
             \/ WaitStarts(c) \/ WaitReturns(c) \/ SetsEnabled(c) \/ Registers(c)
      PROVE  Goal
  BY <1>6 DEF CallsTrigger, TriggerRefused, TimeoutReplaced, TimeoutRestored, WaitStarts,
     WaitReturns, SetsEnabled, Registers, Goto, TypeOK
<1>7. ASSUME NEW c \in Callers
      PROVE  ~Forces(c) /\ ~UnlocksTwice(c) /\ ~CancelEnters(c) /\ ~CancelWrites(c)
  BY DEF Forces, UnlocksTwice, CancelEnters, CancelWrites, Goto, Held, Steady
<1>8. CASE ShutdownThread
  BY <1>8, ThreadStep
<1>9. CASE UNCHANGED vars
  BY <1>9
<1>10. QED
  BY <1>1, <1>2, <1>3, <1>4, <1>5, <1>6, <1>7, <1>8, <1>9 DEF Next, Caller

LEMMA SavedStep ==
  ASSUME Steady, TypeOK, Held, OneThread, Saved, [Next]_vars
  PROVE  Saved'
<1> USE DEF Saved, SuccessMeansSaved
<1>1. ASSUME NEW c \in Callers, Registers(c) PROVE Saved'
  BY <1>1 DEF Registers
<1>2. ASSUME NEW c \in Callers, TriggerSpawns(c) PROVE Saved'
  BY <1>2 DEF TriggerSpawns
<1>3. ASSUME NEW c \in Callers, ResetJoins(c) PROVE Saved'
  BY <1>3 DEF ResetJoins
<1>4. ASSUME UNCHANGED <<stage, run>> PROVE Saved'
  BY <1>4
<1>5. ASSUME NEW c \in Callers,
             \/ CallsTrigger(c) \/ TriggerRefused(c) \/ TriggerEnters(c) \/ TimeoutReplaced(c)
             \/ TimeoutRestored(c) \/ Forces(c) \/ UnlocksTwice(c) \/ CancelEnters(c)
             \/ CancelWrites(c) \/ ResetEnters(c) \/ ResetClears(c) \/ WaitStarts(c)
             \/ WaitReturns(c) \/ SetsEnabled(c)
      PROVE  Saved'
  BY <1>4, <1>5 DEF CallsTrigger, TriggerRefused, TriggerEnters, TimeoutReplaced, TimeoutRestored,
     Forces, UnlocksTwice, CancelEnters, CancelWrites, ResetEnters, ResetClears, WaitStarts,
     WaitReturns, SetsEnabled
<1>6. CASE Starts
  BY <1>6 DEF Starts, Advances
<1>7. CASE StopsTasks \/ BeginsSaving
  BY <1>7 DEF StopsTasks, BeginsSaving, Advances
<1>8. ASSUME NEW k \in todo, AsksComponent(k) PROVE Saved'
  BY <1>8 DEF AsksComponent, Advances
<1>9. CASE SavingDeadline \/ EveryoneAsked
  BY <1>9 DEF SavingDeadline, EveryoneAsked, Advances, TypeOK
<1>10. CASE WritesFile
  BY <1>10 DEF WritesFile, Advances
<1>11. CASE BeginsCleanup \/ CleansUp \/ BeginsFinalizing
  <2>1. CASE BeginsCleanup
    BY <2>1 DEF BeginsCleanup, Advances
  <2>2. CASE CleansUp
    <3>1. /\ stage = "cleaning" /\ stage' = "cleaned"
          /\ UNCHANGED <<todo, snaps, file, outcome>>
      BY <2>2 DEF CleansUp, Advances
    <3>2. success' => success
      BY <2>2 DEF CleansUp, TypeOK
    <3>3. QED
      BY <3>1, <3>2
  <2>3. CASE BeginsFinalizing
    BY <2>3 DEF BeginsFinalizing, Advances
  <2>4. QED
    BY <1>11, <2>1, <2>2, <2>3
<1>12. CASE Finalizes \/ UpdatesStats \/ Ends
  <2>1. CASE Finalizes
    BY <2>1 DEF Finalizes, Advances
  <2>2. CASE UpdatesStats \/ Ends
    BY <2>2 DEF UpdatesStats, Ends, Advances
  <2>3. QED
    BY <1>12, <2>1, <2>2
<1>13. QED
  BY <1>1, <1>2, <1>3, <1>4, <1>5, <1>6, <1>7, <1>8, <1>9, <1>10, <1>11, <1>12
     DEF Next, Caller, ShutdownThread

-----------------------------------------------------------------------------

LEMMA IInvInit == Init => IInv
<1> SUFFICES ASSUME Init PROVE IInv
  OBVIOUS
<1> USE KillSwitchAssumption DEF Init
<1>1. TypeOK
  <2>1. {enabled, triggered, shutting, completed, force, preserve, success, cancelled,
         crashed} \subseteq BOOLEAN
    OBVIOUS
  <2>2. phase \in {Phases[i] : i \in DOMAIN Phases}
    BY PhasesNamed DEF PhaseNames
  <2>3. mutex \in Callers \cup {Free} /\ triggers \in 0 .. MaxTriggers
    OBVIOUS
  <2>4. /\ pc \in [Callers -> {"out"}] /\ after \in [Callers -> {"out"}]
        /\ original \in [Callers -> {"configured"}]
    OBVIOUS
  <2>5. QED
    BY <2>1, <2>2, <2>3, <2>4 DEF TypeOK
<1>2. NeverTerminates /\ Held /\ OneThread /\ Completion /\ Saved
  BY DEF NeverTerminates, Held, OneThread, Completion, Saved, SuccessMeansSaved
<1>3. QED
  BY <1>1, <1>2 DEF IInv

LEMMA IInvStep == Steady => (IInv /\ [Next]_vars => IInv')
BY TypeStep, HeldStep, OneThreadStep, SavedStep DEF IInv

\* However many threads trigger at once, with or without a timeout of their
\* own, and however often reset comes in between: shutdown_thread_ is never
\* assigned while it can be joined, which would end the process.
THEOREM ThreadNeverReplaced == ASSUME Steady PROVE Spec => []NeverTerminates
<1>1. IInv => NeverTerminates
  BY DEF IInv
<1>2. IInv /\ [Next]_vars => IInv'
  BY IInvStep
<1>3. QED
  BY IInvInit, <1>1, <1>2, PTL DEF Spec

\* shutdown_completed_ is that of the shutdown triggered last, and one that is
\* counted as successful has written every snapshot it was given and asked
\* every component, also those registered while it was saving.
THEOREM ReportsAreTrue == ASSUME Steady PROVE Spec => []ReportsTrue
<1>1. IInv => ReportsTrue
  BY DEF IInv, ReportsTrue, CompletionIsCurrent, Completion, Saved
<1>2. IInv /\ [Next]_vars => IInv'
  BY IInvStep
<1>3. QED
  BY IInvInit, <1>1, <1>2, PTL DEF Spec
-----------------------------------------------------------------------------
(* The switch and the signal handler of one process: what the emergency    *)
(* callback finds when it is called, and what it leaves behind.            *)

USE DEF shVars, all, handlerVars

\* Nobody resets the switch or disables it.
Armed == Api \cap {"reset", "setEnabled"} = {}

\* The switch was set off, and if it no longer is the application cancelled.
SetOff == triggered \/ cancelled

\* What the application may be doing inside the handler's mutex.
Doing == Handler!Requests \cup {Handler!Idle}
           \cup {Handler!Call("registerCleanup", Emergency, ok) : ok \in BOOLEAN}

\* The handler runs one sequence, its mutex excludes, and once it has copied
\* the cleanup callbacks no registration of one is on its way.
HandlerInv ==
  /\ shHandler \subseteq {Main}
  /\ shHandler # {} => shStage = "none" /\ shShutting
  /\ shStage # "none" => shShutting
  /\ shDoes \in [{App, Switch} -> Doing] /\ shDoes[Switch] = Handler!Idle
  /\ shDoes[App] # Handler!Idle => shMutex = App
  /\ shStage \in {"clean", "done"} => ~Handler!Does(App, "registerCleanup")

\* Of the files until the cleanup begins; then every cleanup callback is to be
\* called, called, or left out at the deadline.
CallbacksInv ==
  /\ shCsv \subseteq CsvFiles
  /\ shStage = "flush" => shTodo \subseteq CsvFiles
  /\ shStage = "clean" => shCleanups \subseteq shTodo \cup shCalled \cup shSkipped
  /\ shStage = "done" => shCleanups \subseteq shCalled \cup shSkipped

\* The switch stays enabled, and nobody is in reset.
SwitchInv ==
  /\ enabled
  /\ pc \in [Callers -> {"out", "trigger", "spawn", "restore", "unlock", "cancel", "wait"}]
  /\ after \in [Callers -> {"out", "restore", "unlock"}]

\* The thread of the handler is in trigger only while the callback is; it
\* leaves trigger, and the callback, with the switch set off.
CallbackInv ==
  /\ calling => shStage = "clean" /\ Emergency \in shTodo
  /\ pc[Detached] \in {"out", "trigger", "spawn"} /\ after[Detached] = "out"
  /\ calling \/ pc[Detached] = "out"
  /\ calling /\ pc[Detached] \in {"out", "spawn"} => SetOff
  /\ Emergency \in shCalled => SetOff

EInv == HandlerInv /\ CallbacksInv /\ SwitchInv /\ CallbackInv

-----------------------------------------------------------------------------

\* A caller of the switch disturbs no other, and no step of one undoes a
\* trigger except by cancelling.
LEMMA CallerKeeps ==
  ASSUME Armed, SwitchInv, NEW c \in Callers, Caller(c)
  PROVE  /\ SwitchInv'
         /\ \A d \in Callers \ {c} : pc'[d] = pc[d] /\ after'[d] = after[d]
         /\ SetOff => SetOff'
<1> USE DEF Armed, SwitchInv, SetOff, Goto
<1>1. CASE CallsTrigger(c) \/ TriggerRefused(c)
  <2>1. SwitchInv'
    BY <1>1 DEF CallsTrigger, TriggerRefused
  <2>2. \A d \in Callers \ {c} : pc'[d] = pc[d] /\ after'[d] = after[d]
    BY <1>1 DEF CallsTrigger, TriggerRefused
  <2>3. SetOff => SetOff'
    BY <1>1 DEF CallsTrigger, TriggerRefused
  <2>4. QED
    BY <2>1, <2>2, <2>3
<1>2. CASE TriggerEnters(c) \/ TriggerSpawns(c)
  <2>1. SwitchInv'
    BY <1>2 DEF TriggerEnters, TriggerSpawns
  <2>2. \A d \in Callers \ {c} : pc'[d] = pc[d] /\ after'[d] = after[d]
    BY <1>2 DEF TriggerEnters, TriggerSpawns
  <2>3. SetOff => SetOff'
    BY <1>2 DEF TriggerEnters, TriggerSpawns
  <2>4. QED
    BY <2>1, <2>2, <2>3
<1>3. CASE TimeoutReplaced(c) \/ TimeoutRestored(c)
  <2>1. SwitchInv'
    BY <1>3 DEF TimeoutReplaced, TimeoutRestored
  <2>2. \A d \in Callers \ {c} : pc'[d] = pc[d] /\ after'[d] = after[d]
    BY <1>3 DEF TimeoutReplaced, TimeoutRestored
  <2>3. SetOff => SetOff'
    BY <1>3 DEF TimeoutReplaced, TimeoutRestored
  <2>4. QED
    BY <2>1, <2>2, <2>3
<1>4. CASE Forces(c) \/ UnlocksTwice(c)
  <2>1. SwitchInv'
    BY <1>4 DEF Forces, UnlocksTwice
  <2>2. \A d \in Callers \ {c} : pc'[d] = pc[d] /\ after'[d] = after[d]
    BY <1>4 DEF Forces, UnlocksTwice
  <2>3. SetOff => SetOff'
    BY <1>4 DEF Forces, UnlocksTwice
  <2>4. QED
    BY <2>1, <2>2, <2>3
<1>5. CASE CancelEnters(c) \/ CancelWrites(c)
  <2>1. SwitchInv'
    BY <1>5 DEF CancelEnters, CancelWrites
  <2>2. \A d \in Callers \ {c} : pc'[d] = pc[d] /\ after'[d] = after[d]
    BY <1>5 DEF CancelEnters, CancelWrites
  <2>3. SetOff => SetOff'
    BY <1>5 DEF CancelEnters, CancelWrites
  <2>4. QED
    BY <2>1, <2>2, <2>3
<1>6. CASE WaitStarts(c) \/ WaitReturns(c) \/ Registers(c)
  <2>1. SwitchInv'
    BY <1>6 DEF WaitStarts, WaitReturns, Registers
  <2>2. \A d \in Callers \ {c} : pc'[d] = pc[d] /\ after'[d] = after[d]
    BY <1>6 DEF WaitStarts, WaitReturns, Registers
  <2>3. SetOff => SetOff'
    BY <1>6 DEF WaitStarts, WaitReturns, Registers
  <2>4. QED
    BY <2>1, <2>2, <2>3
<1>7. ~ResetEnters(c) /\ ~ResetJoins(c) /\ ~ResetClears(c) /\ ~SetsEnabled(c)
  BY DEF ResetEnters, ResetJoins, ResetClears, SetsEnabled
<1>8. QED
  BY <1>1, <1>2, <1>3, <1>4, <1>5, <1>6, <1>7 DEF Caller

\* The switch's own thread leaves the callers and the trigger alone.
LEMMA ThreadKeeps ==
  ASSUME SwitchInv, ShutdownThread
  PROVE  SwitchInv' /\ UNCHANGED <<pc, after, triggered, cancelled>>
BY DEF SwitchInv, ShutdownThread, Starts, StopsTasks, BeginsSaving, AsksComponent, SavingDeadline,
   EveryoneAsked, WritesFile, BeginsCleanup, CleansUp, BeginsFinalizing, Finalizes, UpdatesStats,
   Ends, Advances

-----------------------------------------------------------------------------
(* The handler's part of a step.                                           *)

\* A step of the application inside the handler.
LEMMA EntersKeeps ==
  ASSUME HandlerInv, CallbacksInv, NEW r \in Doing, Handler!Enters(App, r)
  PROVE  /\ HandlerInv' /\ CallbacksInv'
         /\ UNCHANGED <<shStage, shTodo, shCalled, shSkipped, shCleanups>>
BY EmergencyAssumption
   DEF HandlerInv, CallbacksInv, Handler!Enters, Handler!Refused, Handler!Does, Handler!atomics,
       Handler!callbacks, Handler!progress

LEMMA LeavesKeeps ==
  ASSUME HandlerInv, CallbacksInv, Handler!Leaves(App)
  PROVE  /\ HandlerInv' /\ CallbacksInv'
         /\ UNCHANGED <<shStage, shTodo, shCalled, shSkipped>>
<1> USE EmergencyAssumption, KillSwitchAssumption DEF Handler!Leaves, Handler!progress
<1>1. HandlerInv'
  BY DEF HandlerInv, Doing, Handler!Does, Handler!Idle, Handler!Call
<1>2. Handler!Does(App, "registerCsv") => shDoes[App].on \in CsvFiles
  BY DEF HandlerInv, Doing, Handler!Does, Handler!Idle, Handler!Call, Handler!Requests
<1>3. shCsv' \subseteq CsvFiles
  BY <1>2 DEF CallbacksInv, Handler!CsvAfter, Handler!Updated
<1>4. shStage \in {"clean", "done"} => shCleanups' \subseteq shCleanups
  BY DEF HandlerInv, Handler!CleanupsAfter, Handler!Updated
<1>5. CallbacksInv'
  BY <1>3, <1>4 DEF CallbacksInv
<1>6. QED
  BY <1>1, <1>5

\* A trigger or a signal.
LEMMA SignalsKeep ==
  ASSUME HandlerInv, CallbacksInv,
         \/ Handler!Triggers(App) \/ Handler!Triggers(Switch)
         \/ Handler!SignalArrives(Main) \/ Handler!HandlerSpawns(Main)
  PROVE  /\ HandlerInv' /\ CallbacksInv'
         /\ UNCHANGED <<shTodo, shCalled, shSkipped, shCleanups>>
         /\ shStage = "clean" => shStage' = "clean"
BY DEF HandlerInv, CallbacksInv, Handler!Triggers, Handler!SignalArrives, Handler!HandlerSpawns,
       Handler!Does, Handler!atomics, Handler!callbacks, Handler!progress

\* A step of the handler's own thread.
LEMMA SequenceKeeps ==
  ASSUME HandlerInv, CallbacksInv,
         \/ Handler!CopiesCsv \/ Handler!FlushesEnd \/ Handler!CopiesCleanups
         \/ Handler!Completes \/ Handler!DeadlinePasses
         \/ \E n \in shTodo : Handler!Flushes(n) \/ Handler!Cleans(n)
  PROVE  HandlerInv' /\ CallbacksInv'
<1> USE EmergencyAssumption, KillSwitchAssumption DEF Handler!atomics, Handler!callbacks
<1>1. HandlerInv'
  <2>1. CASE Handler!CopiesCleanups
    <3>1. shDoes[App] = Handler!Idle
      BY <2>1 DEF HandlerInv, Handler!CopiesCleanups, Handler!Copies
    <3>2. QED
      BY <2>1, <3>1 DEF HandlerInv, Handler!CopiesCleanups, Handler!Copies, Handler!Does,
         Handler!Idle, Handler!Call
  <2>2. CASE Handler!CopiesCsv \/ Handler!FlushesEnd
    BY <2>2 DEF HandlerInv, Handler!CopiesCsv, Handler!FlushesEnd, Handler!Copies
  <2>3. CASE Handler!Completes
    BY <2>3 DEF HandlerInv, Handler!Completes, Handler!Does
  <2>4. CASE Handler!DeadlinePasses \/ \E n \in shTodo : Handler!Flushes(n) \/ Handler!Cleans(n)
    BY <2>4 DEF HandlerInv, Handler!DeadlinePasses, Handler!Flushes, Handler!Cleans,
       Handler!CallsBack, Handler!Does
  <2>5. QED
    BY <2>1, <2>2, <2>3, <2>4
<1>2. CallbacksInv'
  BY DEF CallbacksInv, Handler!CopiesCsv, Handler!FlushesEnd, Handler!CopiesCleanups,
     Handler!Copies, Handler!Completes, Handler!DeadlinePasses, Handler!Flushes, Handler!Cleans,
     Handler!CallsBack
<1>3. QED
  BY <1>1, <1>2

-----------------------------------------------------------------------------

LEMMA EInvStep ==
  ASSUME Armed, EInv, [ENext]_all
  PROVE  EInv'
<1> USE EmergencyAssumption DEF EInv
<1>1. CASE InitializesSwitch
  <2>1. PICK ok \in BOOLEAN : Handler!Enters(App, Handler!Call("registerCleanup", Emergency, ok))
    BY <1>1 DEF InitializesSwitch
  <2>2. /\ HandlerInv' /\ CallbacksInv'
        /\ UNCHANGED <<shStage, shTodo, shCalled, shSkipped, shCleanups>>
    BY <2>1, EntersKeeps DEF Doing
  <2>3. QED
    BY <1>1, <2>2 DEF InitializesSwitch, SwitchInv, CallbackInv, SetOff
<1>2. CASE SwitchInitialized
  <2>1. HandlerInv' /\ CallbacksInv' /\ UNCHANGED <<shStage, shTodo, shCalled, shSkipped>>
    BY <1>2, LeavesKeeps DEF SwitchInitialized
  <2>2. QED
    BY <1>2, <2>1 DEF SwitchInitialized, SwitchInv, CallbackInv, SetOff
<1>3. CASE UsesHandler
  <2>1. /\ HandlerInv' /\ CallbacksInv' /\ UNCHANGED <<shTodo, shCalled, shSkipped>>
        /\ shStage = "clean" => shStage' = "clean"
    <3>1. ASSUME NEW r \in Handler!Requests, Handler!Enters(App, r)
          PROVE  /\ HandlerInv' /\ CallbacksInv'
                 /\ UNCHANGED <<shStage, shTodo, shCalled, shSkipped>>
      BY <3>1, EntersKeeps DEF Doing
    <3>2. QED
      BY <1>3, <3>1, LeavesKeeps, SignalsKeep DEF UsesHandler
  <2>2. QED
    BY <1>3, <2>1 DEF UsesHandler, SwitchInv, CallbackInv, SetOff
<1>4. CASE UsesSwitch
  <2>1. /\ SwitchInv' /\ pc'[Detached] = pc[Detached] /\ after'[Detached] = after[Detached]
        /\ SetOff => SetOff'
    BY <1>4, CallerKeeps DEF UsesSwitch
  <2>2. HandlerInv' /\ CallbacksInv'
    BY <1>4 DEF UsesSwitch, HandlerInv, CallbacksInv, Handler!Does
  <2>3. QED
    BY <1>4, <2>1, <2>2 DEF UsesSwitch, CallbackInv
<1>5. CASE MainExits \/ UNCHANGED all
  <2>1. HandlerInv' /\ CallbacksInv'
    BY <1>5 DEF MainExits, HandlerInv, CallbacksInv, Handler!Does
  <2>2. UNCHANGED <<vars, shVars, calling>>
    BY <1>5 DEF MainExits
  <2>3. SwitchInv'
    BY <2>2 DEF SwitchInv
  <2>4. CallbackInv'
    BY <2>2 DEF CallbackInv, SetOff
  <2>5. QED
    BY <2>1, <2>3, <2>4
<1>6. CASE Signal
  BY <1>6, SignalsKeep DEF Signal, SwitchInv, CallbackInv, SetOff
<1>7. CASE DetachedFlushes
  <2>1. HandlerInv' /\ CallbacksInv'
    BY <1>7, SequenceKeeps DEF DetachedFlushes
  <2>2. Emergency \in shCalled' => Emergency \in shCalled
    BY <1>7 DEF DetachedFlushes, CallbacksInv, Handler!CopiesCsv, Handler!FlushesEnd,
       Handler!CopiesCleanups, Handler!Copies, Handler!Completes, Handler!Flushes,
       Handler!CallsBack
  <2>3. QED
    BY <1>7, <2>1, <2>2 DEF DetachedFlushes, SwitchInv, CallbackInv, SetOff
<1>8. CASE DetachedIsLate
  <2>1. HandlerInv' /\ CallbacksInv'
    BY <1>8, SequenceKeeps DEF DetachedIsLate
  <2>2. QED
    BY <1>8, <2>1 DEF DetachedIsLate, SwitchInv, CallbackInv, SetOff, Handler!DeadlinePasses
<1>9. CASE EmergencyNeedless \/ EmergencyReturns
  <2>1. HandlerInv' /\ CallbacksInv'
    BY <1>9, SequenceKeeps DEF EmergencyNeedless, EmergencyReturns, Handler!Cleans,
       Handler!CallsBack
  <2>2. UNCHANGED vars /\ SetOff /\ ~calling' /\ pc[Detached] = "out"
    BY <1>9 DEF EmergencyNeedless, EmergencyReturns, CallbackInv, SetOff
  <2>3. SwitchInv' /\ CallbackInv'
    BY <2>2 DEF SwitchInv, CallbackInv, SetOff
  <2>4. QED
    BY <2>1, <2>3
<1>10. CASE EmergencyCalls
  <2>1. SwitchInv' /\ (SetOff => SetOff')
    BY <1>10, CallerKeeps DEF EmergencyCalls, Caller
  <2>2. HandlerInv' /\ CallbacksInv'
    BY <1>10 DEF EmergencyCalls, HandlerInv, CallbacksInv, Handler!Does
  <2>3. QED
    BY <1>10, <2>1, <2>2 DEF EmergencyCalls, CallsTrigger, Goto, SwitchInv, CallbackInv
<1>11. CASE EmergencyTriggers
  <2>1. SwitchInv' /\ (SetOff => SetOff')
    BY <1>11, CallerKeeps DEF EmergencyTriggers, Caller
  <2>2. HandlerInv' /\ CallbacksInv'
    BY <1>11 DEF EmergencyTriggers, HandlerInv, CallbacksInv, Handler!Does
  <2>3. CallbackInv'
    BY <1>11, <2>1 DEF EmergencyTriggers, TriggerRefused, TriggerEnters, TriggerSpawns, Goto,
       SwitchInv, CallbackInv, SetOff
  <2>4. QED
    BY <2>1, <2>2, <2>3
<1>12. CASE SwitchPhases
  <2>1. SwitchInv' /\ UNCHANGED <<pc, after, triggered, cancelled>>
    BY <1>12, ThreadKeeps DEF SwitchPhases
  <2>2. QED
    BY <1>12, <2>1 DEF SwitchPhases, HandlerInv, CallbacksInv, CallbackInv, SetOff, Handler!Does
<1>13. CASE SwitchFinalizes
  <2>1. SwitchInv' /\ UNCHANGED <<pc, after, triggered, cancelled>>
    BY <1>13, ThreadKeeps DEF SwitchFinalizes, ShutdownThread
  <2>2. CASE Handler!Triggers(Switch)
    BY <1>13, <2>1, <2>2, SignalsKeep DEF SwitchFinalizes, CallbackInv, SetOff
  <2>3. CASE UNCHANGED shVars
    BY <1>13, <2>1, <2>3 DEF SwitchFinalizes, HandlerInv, CallbacksInv, CallbackInv, SetOff,
       Handler!Does
  <2>4. QED
    BY <1>13, <2>2, <2>3 DEF SwitchFinalizes
<1>14. QED
  BY <1>1, <1>2, <1>3, <1>4, <1>5, <1>6, <1>7, <1>8, <1>9, <1>10, <1>11, <1>12, <1>13
     DEF ENext, HandlerThread

\* A signalled shutdown that ends has called the emergency callback, unless its
\* deadline passed; and whatever the application did meanwhile, the callback
\* has come back with the kill switch triggered, or cancelled since.
THEOREM SignalsReachTheSwitch == ASSUME Armed PROVE ESpec => []SignalReachesSwitch
<1>1. EInit => EInv
  <2> SUFFICES ASSUME EInit PROVE EInv
    OBVIOUS
  <2> USE EmergencyAssumption DEF EInit, Init, Handler!SignalInit
  <2>1. HandlerInv /\ CallbacksInv
    BY DEF HandlerInv, CallbacksInv, Doing
  <2>2. SwitchInv /\ CallbackInv
    BY DEF SwitchInv, CallbackInv
  <2>3. QED
    BY <2>1, <2>2 DEF EInv
<1>2. EInv /\ [ENext]_all => EInv'
  BY EInvStep
<1>3. EInv => SignalReachesSwitch
  BY DEF EInv, CallbacksInv, CallbackInv, SetOff, SignalReachesSwitch
<1>4. QED
  BY <1>1, <1>2, <1>3, PTL DEF ESpec
=============================================================================
