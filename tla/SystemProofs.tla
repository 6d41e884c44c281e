----------------------------- MODULE SystemProofs -----------------------------
(***************************************************************************)
(* NothingOverlaps and FreeListExact of MemoryManager, for any sizes,      *)
(* alignments, limits and configurations.                                  *)
(*                                                                         *)
(* WindowBound of RateLimiter, the promise of a token bucket, for any      *)
(* clients and domains, any rates, bursts and requests, and windows of any *)
(* length; and WaitsLongEnough, for a lone client.  Rates multiply times   *)
(* here, so each product that matters is a lemma; the rest is linear.      *)
(*                                                                         *)
(* OneShutdownSequence and OneFullShutdown of SignalHandler, for every set *)
(* of threads, files and cleanup callbacks, and SerialCallsSafe of         *)
(* CacheCleaner, for any callers and any supply of threads.                *)
(***************************************************************************)
EXTENDS MemoryManager, RateLimiter, SignalHandler, CacheCleaner,
        FiniteSetTheorems, SequenceTheorems, WellFoundedInduction, TLAPS

-----------------------------------------------------------------------------
(* Numbers and lists.                                                      *)

LEMMA LeastNatural ==
  ASSUME NEW S \in SUBSET Nat, S # {}
  PROVE  Min(S) \in S /\ \A x \in S : Min(S) <= x
<1> DEFINE R == {q \in Nat \X Nat : q[1] < q[2]}
<1>1. IsWellFoundedOn(R, Nat)
  BY NatLessThanWellFounded DEF OpToRel
<1> HIDE DEF R
<1>2. PICK m \in S : \A y \in S : ~ (<<y, m>> \in R)
  BY <1>1, WFMin
<1>3. ASSUME NEW y \in S PROVE m <= y
  <2>1. m \in Nat /\ y \in Nat
    OBVIOUS
  <2>2. ~ (y < m)
    BY <1>2, <2>1 DEF R
  <2>3. QED
    BY <2>1, <2>2
<1>4. QED
  BY <1>3 DEF Min

LEMMA DescendingList ==
  ASSUME NEW S \in SUBSET Nat, IsFiniteSet(S)
  PROVE  /\ Descending(S) \in Seq(S)
         /\ IsInjective(Descending(S))
         /\ ToSet(Descending(S)) = S
<1> DEFINE n == Cardinality(S)
           above(b) == {c \in S : c >= b}
           rank == [b \in S |-> Cardinality(above(b))]
           list == Descending(S)
<1>1. n \in Nat /\ IsFiniteSet(1 .. n) /\ Cardinality(1 .. n) = n
  BY FS_CardinalityType, FS_Interval
<1>2. ASSUME NEW b \in S
      PROVE  IsFiniteSet(above(b)) /\ rank[b] \in 1 .. n
  <2>1. IsFiniteSet(above(b)) /\ Cardinality(above(b)) <= n
    BY FS_Subset
  <2>2. Cardinality(above(b)) \in Nat
    BY <2>1, FS_CardinalityType
  <2>3. b \in above(b)
    OBVIOUS
  <2>4. Cardinality(above(b)) # 0
    BY <2>1, <2>3, FS_EmptySet
  <2>5. QED
    BY <1>1, <2>1, <2>2, <2>4
<1>3. ASSUME NEW b \in S, NEW c \in S, b < c
      PROVE  rank[b] # rank[c]
  <2>1. b \in Nat /\ c \in Nat /\ \A d \in S : d \in Nat
    OBVIOUS
  <2>2. above(c) \subseteq above(b) /\ b \in above(b) /\ b \notin above(c)
    <3>1. \A d \in Nat : d >= c => d >= b
      BY <1>3, <2>1
    <3>2. b >= b /\ ~ (b >= c)
      BY <1>3, <2>1
    <3>3. QED
      BY <2>1, <3>1, <3>2
  <2>3. IsFiniteSet(above(b))
    BY <1>2
  <2> HIDE DEF above
  <2>4. Cardinality(above(b)) # Cardinality(above(c))
    BY <2>2, <2>3, FS_Subset
  <2>5. QED
    BY <2>4
<1>4. ASSUME NEW b \in S, NEW c \in S, rank[b] = rank[c] PROVE b = c
  <2>1. b \in Nat /\ c \in Nat
    OBVIOUS
  <2>2. ~ (b < c) /\ ~ (c < b)
    BY <1>3, <1>4
  <2>3. QED
    BY <2>1, <2>2
<1>5. rank \in Injection(S, 1 .. n)
  BY <1>2, <1>4 DEF Injection, IsInjective
<1>6. rank \in Surjection(S, 1 .. n)
  BY <1>1, <1>5, FS_Injection
<1>7. \A i \in 1 .. n : \E b \in S : rank[b] = i
  BY <1>6 DEF Surjection
<1>8. \A i \in 1 .. n : list[i] \in S /\ Cardinality({c \in S : c >= list[i]}) = i
  <2>1. ASSUME NEW i \in 1 .. n
        PROVE  list[i] \in S /\ Cardinality({c \in S : c >= list[i]}) = i
    <3>1. \E b \in S : Cardinality({c \in S : c >= b}) = i
      BY <1>7
    <3>2. list[i] = CHOOSE b \in S : Cardinality({c \in S : c >= b}) = i
      BY DEF Descending
    <3>3. QED
      BY <3>1, <3>2
  <2>2. QED
    BY <2>1
<1>9. \A i \in 1 .. n : list[i] \in S /\ rank[list[i]] = i
  BY <1>8
<1>10. DOMAIN list = 1 .. n /\ list = [i \in 1 .. n |-> list[i]]
  BY DEF Descending
<1> HIDE DEF n, rank, list, above
<1>11. \A b \in S : list[rank[b]] = b /\ rank[b] \in 1 .. n
  BY <1>2, <1>4, <1>9
<1>12. list \in [1 .. n -> S]
  BY <1>9, <1>10
<1>13. list \in Seq(S)
  BY <1>1, <1>12
<1>14. IsInjective(list)
  BY <1>9, <1>12 DEF IsInjective
<1>15. ToSet(list) = S
  <2>1. ToSet(list) = {list[i] : i \in 1 .. n}
    BY <1>10 DEF ToSet
  <2>2. \A b \in S : \E i \in 1 .. n : list[i] = b
    BY <1>11
  <2>3. ToSet(list) \subseteq S
    BY <1>12, <2>1
  <2>4. S \subseteq ToSet(list)
    BY <2>1, <2>2
  <2>5. QED
    BY <2>3, <2>4
<1>16. QED
  BY <1>13, <1>14, <1>15 DEF list

-----------------------------------------------------------------------------
(* Blocks that fill pools.                                                 *)

\* The headers of a heap: finitely many, at natural addresses.
IsHeap(h) ==
  /\ h = [block |-> h.block, free |-> h.free]
  /\ h.block \in [Blocks(h) -> [size : Nat, is_free : BOOLEAN]]
  /\ Blocks(h) \subseteq Nat /\ IsFiniteSet(Blocks(h))
  /\ h.free \in Seq(Blocks(h))

\* Pools as pairs of a first address and the address after the last; there is
\* something between two of them.
Apart(P) ==
  /\ P \subseteq Nat \X Nat
  /\ \A p \in P : p[1] < p[2]
  /\ \A p, q \in P : p = q \/ p[2] < q[1] \/ q[2] < p[1]

\* The blocks of h fill the pools P from end to end.
Tiles(h, P) ==
  /\ \A b, c \in Blocks(h) : b < c => End(h, b) <= c
  /\ \A b \in Blocks(h) : \E p \in P : p[1] <= b /\ End(h, b) <= p[2]
  /\ \A b \in Blocks(h) : (\E p \in P : b = p[1]) \/ (\E c \in Blocks(h) : End(h, c) = b)
  /\ \A b \in Blocks(h) : End(h, b) \in Blocks(h) \/ \E p \in P : End(h, b) = p[2]
  /\ \A p \in P : p[1] \in Blocks(h) /\ \E b \in Blocks(h) : End(h, b) = p[2]

ListExact(h) == IsInjective(h.free) /\ ToSet(h.free) = FreeBlocks(h)

NoTwoFree(h) == \A b \in FreeBlocks(h) : End(h, b) \notin FreeBlocks(h)

\* The blocks in use are the same in g as in h.
SameInUse(h, g) ==
  /\ Blocks(g) \ FreeBlocks(g) = Blocks(h) \ FreeBlocks(h)
  /\ \A b \in Blocks(h) \ FreeBlocks(h) : g.block[b] = h.block[b]

LEMMA BlockEnds ==
  ASSUME NEW h, IsHeap(h), NEW b \in Blocks(h)
  PROVE  /\ b \in Nat /\ End(h, b) \in Nat
         /\ b + Header <= End(h, b) /\ b < End(h, b)
BY MemoryManagerAssumption DEF IsHeap, End

\* No block begins where a pool ends, none ends where a pool begins, and no
\* two end together.
LEMMA Borders ==
  ASSUME NEW h, NEW P, IsHeap(h), Apart(P), Tiles(h, P)
  PROVE  /\ \A b \in Blocks(h), p \in P : b # p[2] /\ End(h, b) # p[1]
         /\ \A b, c \in Blocks(h) : End(h, b) = End(h, c) => b = c
<1>1. ASSUME NEW b \in Blocks(h), NEW p \in P
      PROVE  b # p[2] /\ End(h, b) # p[1]
  <2>1. PICK q \in P : q[1] <= b /\ End(h, b) <= q[2]
    BY DEF Tiles
  <2>2. b \in Nat /\ End(h, b) \in Nat /\ b < End(h, b)
    BY BlockEnds
  <2>3. p[1] \in Nat /\ p[2] \in Nat /\ q[1] \in Nat /\ q[2] \in Nat /\ p[1] < p[2]
    BY DEF Apart
  <2>4. p = q \/ p[2] < q[1] \/ q[2] < p[1]
    BY DEF Apart
  <2>5. QED
    BY <2>1, <2>2, <2>3, <2>4
<1>2. ASSUME NEW b \in Blocks(h), NEW c \in Blocks(h), End(h, b) = End(h, c)
      PROVE  b = c
  <2>1. b \in Nat /\ c \in Nat /\ b < End(h, b) /\ c < End(h, c) /\ End(h, b) \in Nat
    BY BlockEnds
  <2>2. (b < c => End(h, b) <= c) /\ (c < b => End(h, c) <= b)
    BY DEF Tiles
  <2>3. QED
    BY <1>2, <2>1, <2>2
<1>3. QED
  BY <1>1, <1>2

\* Between a block and the beginning of a later pool a pool has ended.
LEMMA PoolEndsBetween ==
  ASSUME NEW h, NEW P, IsHeap(h), Apart(P), Tiles(h, P),
         NEW b \in Blocks(h), NEW q \in P, b < q[1]
  PROVE  \E c \in Blocks(h) : b <= c /\ End(h, c) < q[1] /\ End(h, c) \notin Blocks(h)
<1>1. PICK p \in P : p[1] <= b /\ End(h, b) <= p[2]
  BY DEF Tiles
<1>2. PICK c \in Blocks(h) : End(h, c) = p[2]
  BY DEF Tiles
<1>3. /\ b \in Nat /\ c \in Nat /\ End(h, b) \in Nat
      /\ b < End(h, b) /\ c < End(h, c)
      /\ p[1] \in Nat /\ p[2] \in Nat /\ q[1] \in Nat /\ q[2] \in Nat /\ q[1] < q[2]
  BY BlockEnds DEF Apart
<1>4. p[2] < q[1]
  <2>1. p = q \/ p[2] < q[1] \/ q[2] < p[1]
    BY DEF Apart
  <2>2. QED
    BY <1>1, <1>3, <2>1
<1>5. b <= c
  <2>1. c < b => End(h, c) <= b
    BY DEF Tiles
  <2>2. QED
    BY <1>1, <1>2, <1>3, <2>1
<1>6. End(h, c) \notin Blocks(h)
  BY <1>2, Borders
<1>7. QED
  BY <1>2, <1>4, <1>5, <1>6

\* What a run of free blocks ends at is the end of one of them.
LEMMA RunEnds ==
  ASSUME NEW h, NEW P, IsHeap(h), Apart(P), Tiles(h, P), NEW b \in FreeBlocks(h)
  PROVE  \E d \in FreeBlocks(h) : d >= b /\ End(h, d) \notin FreeBlocks(h)
<1>1. PICK p \in P : p[1] <= b /\ End(h, b) <= p[2]
  BY DEF Tiles, FreeBlocks
<1> DEFINE X == {x \in Blocks(h) : x >= b /\ x \notin FreeBlocks(h)} \cup {p[2]}
           m == Min(X)
<1>2. /\ b \in Blocks(h) /\ b \in Nat /\ End(h, b) \in Nat /\ b < End(h, b)
      /\ p[1] \in Nat /\ p[2] \in Nat
  BY BlockEnds DEF Apart, FreeBlocks
<1>3. X \subseteq Nat /\ X # {}
  BY <1>2 DEF IsHeap
<1>4. m \in X /\ (\A x \in X : m <= x) /\ m \in Nat
  BY <1>3, LeastNatural
<1>5. b < m
  BY <1>1, <1>2, <1>4
<1> HIDE DEF m
<1>6. \E y \in Blocks(h) : End(h, y) = m
  <2>1. CASE m = p[2]
    BY <2>1 DEF Tiles
  <2>2. CASE m \in Blocks(h) /\ m # p[2]
    <3>1. ASSUME NEW q \in P, m = q[1] PROVE FALSE
      <4>1. q[1] \in Nat /\ q[2] \in Nat /\ q[1] < q[2]
        BY DEF Apart
      <4>2. p = q \/ p[2] < q[1] \/ q[2] < p[1]
        BY DEF Apart
      <4>3. m <= p[2]
        BY <1>4
      <4>4. QED
        BY <1>1, <1>2, <1>5, <3>1, <4>1, <4>2, <4>3
    <3>2. QED
      BY <2>2, <3>1 DEF Tiles
  <2>3. QED
    BY <1>4, <2>1, <2>2
<1>7. PICK y \in Blocks(h) : End(h, y) = m
  BY <1>6
<1>8. y \in Nat /\ y < m
  BY <1>7, BlockEnds
<1>9. y >= b
  <2>1. y < b => End(h, y) <= b
    BY <1>2 DEF Tiles
  <2>2. QED
    BY <1>2, <1>4, <1>5, <1>7, <1>8, <2>1
<1>10. y \in FreeBlocks(h)
  <2>1. y \notin X
    BY <1>4, <1>8
  <2>2. QED
    BY <1>9, <2>1
<1>11. m \notin FreeBlocks(h)
  <2>1. p[2] \notin FreeBlocks(h)
    BY Borders DEF FreeBlocks
  <2>2. QED
    BY <1>4, <2>1
<1>12. QED
  BY <1>7, <1>9, <1>10, <1>11

\* All that lies between a free block and the end of its run is free and is
\* where another free block ends.
LEMMA RunOf ==
  ASSUME NEW h, NEW P, IsHeap(h), Apart(P), Tiles(h, P), NEW b \in FreeBlocks(h)
  PROVE  /\ RunEnd(h, b) \in Nat /\ RunEnd(h, b) \notin FreeBlocks(h)
         /\ \E d \in FreeBlocks(h) : d >= b /\ End(h, d) = RunEnd(h, b)
         /\ \A d \in FreeBlocks(h) : d >= b /\ End(h, d) \notin FreeBlocks(h) => RunEnd(h, b) <= End(h, d)
         /\ \A x \in Blocks(h) : b < x /\ x < RunEnd(h, b) =>
              x \in FreeBlocks(h) /\ \E c \in FreeBlocks(h) : End(h, c) = x
<1> DEFINE D == {d \in FreeBlocks(h) : d >= b /\ End(h, d) \notin FreeBlocks(h)}
           E == {End(h, c) : c \in D}
           e == RunEnd(h, b)
           S == {x \in Blocks(h) : b < x /\ x < e /\ x \notin FreeBlocks(h)}
<1>1. E \subseteq Nat /\ E # {}
  BY RunEnds, BlockEnds DEF FreeBlocks
<1>2. e = Min(E)
  BY DEF RunEnd
<1>3. e \in E /\ \A x \in E : e <= x
  BY <1>1, <1>2, LeastNatural
<1> HIDE DEF e
<1>4. PICK d \in D : End(h, d) = e
  BY <1>3
<1>5. e \in Nat /\ e \notin FreeBlocks(h)
  BY <1>1, <1>3, <1>4
<1>6. \A c \in D : e <= End(h, c)
  BY <1>3
<1>7. b \in Blocks(h) /\ b \in Nat /\ Blocks(h) \subseteq Nat
  BY DEF IsHeap, FreeBlocks
\* The block before x, if all from b to x are free.
<1>8. ASSUME NEW x \in Blocks(h), b < x, x < e,
             \A z \in Blocks(h) : b <= z /\ z < x => z \in FreeBlocks(h)
      PROVE  \E c \in FreeBlocks(h) : c >= b /\ End(h, c) = x
  <2>1. ASSUME NEW q \in P, x = q[1] PROVE FALSE
    <3>1. PICK c \in Blocks(h) : b <= c /\ End(h, c) < q[1] /\ End(h, c) \notin Blocks(h)
      BY <1>7, <1>8, <2>1, PoolEndsBetween
    <3>2. c \in Nat /\ End(h, c) \in Nat /\ c < End(h, c) /\ x \in Nat
      BY <1>7, BlockEnds
    <3>3. c < x /\ End(h, c) < x
      BY <2>1, <3>1, <3>2
    <3>4. c \in FreeBlocks(h)
      BY <1>8, <3>1, <3>3
    <3>5. c \in D
      BY <1>7, <3>1, <3>2, <3>4 DEF FreeBlocks
    <3>6. QED
      BY <1>5, <1>6, <1>8, <3>2, <3>3, <3>5
  <2>2. PICK c \in Blocks(h) : End(h, c) = x
    BY <2>1 DEF Tiles
  <2>3. c \in Nat /\ c < x /\ x \in Nat
    BY <1>7, <2>2, BlockEnds
  <2>4. c >= b
    <3>1. c < b => End(h, c) <= b
      BY <1>7 DEF Tiles
    <3>2. QED
      BY <1>7, <1>8, <2>2, <2>3, <3>1
  <2>5. c \in FreeBlocks(h)
    BY <1>7, <1>8, <2>3, <2>4
  <2>6. QED
    BY <2>2, <2>4, <2>5
<1>9. S = {}
  <2>1. SUFFICES ASSUME S # {} PROVE FALSE
    OBVIOUS
  <2> DEFINE m == Min(S)
  <2>2. m \in S /\ \A x \in S : m <= x
    BY <1>7, <2>1, LeastNatural
  <2> HIDE DEF m
  <2>3. ASSUME NEW z \in Blocks(h), b <= z, z < m PROVE z \in FreeBlocks(h)
    <3>1. z \in Nat /\ m \in Nat /\ m < e /\ z \notin S
      BY <1>7, <2>2, <2>3
    <3>2. z # b => b < z /\ z < e
      BY <1>5, <1>7, <2>3, <3>1
    <3>3. QED
      BY <3>1, <3>2
  <2>4. PICK c \in FreeBlocks(h) : c >= b /\ End(h, c) = m
    BY <1>8, <2>2, <2>3
  <2>5. c \in D
    BY <2>2, <2>4
  <2>6. QED
    BY <1>5, <1>6, <1>7, <2>2, <2>4, <2>5
<1>10. ASSUME NEW x \in Blocks(h), b < x, x < e
       PROVE  x \in FreeBlocks(h) /\ \E c \in FreeBlocks(h) : End(h, c) = x
  <2>1. x \in FreeBlocks(h)
    BY <1>9, <1>10
  <2>2. ASSUME NEW z \in Blocks(h), b <= z, z < x PROVE z \in FreeBlocks(h)
    <3>1. z \in Nat /\ x \in Nat
      BY <1>7
    <3>2. z # b => b < z /\ z < e
      BY <1>5, <1>7, <1>10, <2>2, <3>1
    <3>3. QED
      BY <1>9, <3>2
  <2>3. QED
    BY <1>8, <1>10, <2>1, <2>2
<1>11. QED
  BY <1>4, <1>5, <1>6, <1>10 DEF e

\* A run of free blocks begins with a block that is kept.
LEMMA RunBegins ==
  ASSUME NEW h, NEW P, IsHeap(h), Apart(P), Tiles(h, P),
         NEW y \in FreeBlocks(h), End(h, y) \notin FreeBlocks(h)
  PROVE  \E b \in Kept(h) : RunEnd(h, b) = End(h, y)
<1>1. PICK p \in P : p[1] <= y /\ End(h, y) <= p[2]
  BY DEF Tiles, FreeBlocks
<1>2. /\ y \in Blocks(h) /\ y \in Nat /\ End(h, y) \in Nat /\ y < End(h, y)
      /\ p[1] \in Nat /\ p[2] \in Nat /\ Blocks(h) \subseteq Nat /\ FreeBlocks(h) \subseteq Blocks(h)
  BY BlockEnds DEF Apart, FreeBlocks, IsHeap
<1> DEFINE S == {z \in FreeBlocks(h) : /\ p[1] <= z /\ z <= y
                                 /\ \A x \in Blocks(h) : z <= x /\ x <= y => x \in FreeBlocks(h)}
           z == Min(S)
<1>3. y \in S
  <2>1. ASSUME NEW x \in Blocks(h), y <= x, x <= y PROVE x \in FreeBlocks(h)
    <3>1. x \in Nat
      BY <1>2
    <3>2. x = y
      BY <1>2, <2>1, <3>1
    <3>3. QED
      BY <3>2
  <2>2. QED
    BY <1>1, <1>2, <2>1
<1>4. z \in S /\ \A x \in S : z <= x
  <2>1. S \subseteq Nat
    BY <1>2
  <2>2. QED
    BY <1>3, <2>1, LeastNatural
<1> HIDE DEF z
<1>5. /\ z \in FreeBlocks(h) /\ z \in Nat /\ p[1] <= z /\ z <= y
      /\ \A x \in Blocks(h) : z <= x /\ x <= y => x \in FreeBlocks(h)
  BY <1>2, <1>4
<1>6. z \in Kept(h)
  <2>1. SUFFICES ASSUME NEW c \in FreeBlocks(h), End(h, c) = z PROVE FALSE
    BY <1>5 DEF Kept
  <2>2. c \in Blocks(h) /\ c \in Nat /\ c < z
    BY <1>2, <2>1, BlockEnds
  <2>3. PICK q \in P : q[1] <= c /\ z <= q[2]
    BY <2>1, <2>2 DEF Tiles
  <2>4. q[1] \in Nat /\ q[2] \in Nat /\ (p = q \/ p[2] < q[1] \/ q[2] < p[1])
    BY DEF Apart
  <2>5. p[1] <= c
    BY <1>1, <1>2, <1>5, <2>2, <2>3, <2>4
  <2>6. ASSUME NEW x \in Blocks(h), c <= x, x <= y PROVE x \in FreeBlocks(h)
    <3>1. x \in Nat /\ (c < x => z <= x)
      BY <1>2, <2>1, <2>2 DEF Tiles
    <3>2. CASE x = c
      BY <3>2
    <3>3. CASE c < x
      BY <1>5, <2>6, <3>1, <3>3
    <3>4. QED
      BY <2>2, <2>6, <3>1, <3>2, <3>3
  <2>7. c <= y
    BY <1>2, <1>5, <2>2
  <2>8. c \in S
    BY <2>5, <2>6, <2>7
  <2>9. QED
    BY <1>4, <1>5, <2>2, <2>8
<1> HIDE DEF S
<1>7. PICK d \in FreeBlocks(h) : d >= z /\ End(h, d) = RunEnd(h, z)
  BY <1>5, RunOf
<1>8. RunEnd(h, z) \in Nat /\ RunEnd(h, z) \notin FreeBlocks(h) /\ RunEnd(h, z) <= End(h, y)
  BY <1>2, <1>5, RunOf
<1>9. d \in Blocks(h) /\ d \in Nat /\ d < End(h, d) /\ End(h, d) \in Nat
  BY <1>2, BlockEnds
<1>10. ~ (y < d)
  <2>1. y < d => End(h, y) <= d
    BY <1>2, <1>9 DEF Tiles
  <2>2. QED
    BY <1>2, <1>7, <1>8, <1>9, <2>1
<1>11. ASSUME d < y PROVE FALSE
  <2>1. End(h, d) <= y
    BY <1>2, <1>9, <1>11 DEF Tiles
  <2>2. CASE End(h, d) \in Blocks(h)
    <3>1. z <= End(h, d)
      BY <1>5, <1>7, <1>9
    <3>2. QED
      BY <1>5, <1>7, <1>8, <2>1, <2>2, <3>1
  <2>3. CASE End(h, d) \notin Blocks(h)
    <3>1. PICK q \in P : End(h, d) = q[2]
      BY <1>9, <2>3 DEF Tiles
    <3>2. q[1] \in Nat /\ q[2] \in Nat /\ q[1] < q[2]
          /\ (p = q \/ p[2] < q[1] \/ q[2] < p[1])
      BY DEF Apart
    <3>3. QED
      BY <1>1, <1>2, <1>5, <1>7, <1>9, <2>1, <3>1, <3>2
  <2>4. QED
    BY <2>2, <2>3
<1>12. d = y
  BY <1>2, <1>9, <1>10, <1>11
<1>13. QED
  BY <1>6, <1>7, <1>12

\* A run ends within the pool it begins in.
LEMMA RunInPool ==
  ASSUME NEW h, NEW P, IsHeap(h), Apart(P), Tiles(h, P), NEW b \in FreeBlocks(h),
         NEW p \in P, p[1] <= b, End(h, b) <= p[2]
  PROVE  RunEnd(h, b) <= p[2]
<1>1. PICK d \in FreeBlocks(h) : d >= b /\ End(h, d) = RunEnd(h, b)
  BY RunOf
<1>2. PICK q \in P : q[1] <= d /\ End(h, d) <= q[2]
  BY DEF Tiles, FreeBlocks
<1>3. /\ b \in Blocks(h) /\ b \in Nat /\ b < End(h, b) /\ End(h, b) \in Nat
      /\ d \in Nat /\ End(h, d) \in Nat /\ d < End(h, d)
      /\ p[1] \in Nat /\ p[2] \in Nat /\ q[1] \in Nat /\ q[2] \in Nat /\ q[1] < q[2]
      /\ (p = q \/ p[2] < q[1] \/ q[2] < p[1])
  BY BlockEnds DEF Apart, FreeBlocks
<1>4. CASE p = q
  BY <1>1, <1>2, <1>4
<1>5. CASE q[2] < p[1]
  BY <1>1, <1>2, <1>3, <1>5
<1>6. ASSUME p[2] < q[1] PROVE FALSE
  <2>1. b < q[1]
    BY <1>3, <1>6
  <2>2. PICK c \in Blocks(h) : b <= c /\ End(h, c) < q[1] /\ End(h, c) \notin Blocks(h)
    BY <1>3, <2>1, PoolEndsBetween
  <2>3. c \in Nat /\ End(h, c) \in Nat /\ c < End(h, c)
    BY BlockEnds
  <2>4. c < RunEnd(h, b)
    BY <1>1, <1>2, <1>3, <2>2, <2>3
  <2>5. c \in FreeBlocks(h)
    <3>1. CASE c = b
      BY <3>1
    <3>2. CASE b < c
      BY <2>4, <3>2, RunOf
    <3>3. QED
      BY <1>3, <2>2, <2>3, <3>1, <3>2
  <2>6. End(h, c) \notin FreeBlocks(h)
    BY <2>2 DEF FreeBlocks
  <2>7. RunEnd(h, b) <= End(h, c)
    BY <2>2, <2>5, <2>6, RunOf
  <2>8. QED
    BY <1>1, <1>2, <1>3, <2>2, <2>3, <2>7
<1>7. QED
  BY <1>3, <1>4, <1>5, <1>6

\* What merge_free_blocks leaves, when there is something to merge.
LEMMA MergedBlocks ==
  ASSUME NEW h, NEW P, IsHeap(h), Apart(P), Tiles(h, P),
         NEW g,
         g = [block |-> [b \in (Blocks(h) \ FreeBlocks(h)) \cup Kept(h) |-> Grown(h, b)],
              free |-> Descending(Kept(h))]
  PROVE  /\ IsHeap(g) /\ ListExact(g) /\ SameInUse(h, g)
         /\ FreeBlocks(g) = Kept(h) /\ Blocks(g) = (Blocks(h) \ FreeBlocks(h)) \cup Kept(h)
         /\ \A b \in Kept(h) : End(g, b) = RunEnd(h, b)
         /\ \A b \in Blocks(h) \ FreeBlocks(h) : End(g, b) = End(h, b)
<1>1. Kept(h) \subseteq FreeBlocks(h) /\ FreeBlocks(h) \subseteq Blocks(h) /\ Blocks(h) \subseteq Nat
  BY DEF Kept, FreeBlocks, IsHeap
<1>2. Blocks(g) = (Blocks(h) \ FreeBlocks(h)) \cup Kept(h)
  BY DEF Blocks
<1>3. ASSUME NEW b \in Blocks(h) \ FreeBlocks(h)
      PROVE  /\ b \in Blocks(g) /\ g.block[b] = h.block[b] /\ ~ g.block[b].is_free
             /\ g.block[b] \in [size : Nat, is_free : BOOLEAN]
             /\ End(g, b) = End(h, b)
  <2>1. b \notin Kept(h)
    BY <1>1
  <2>2. g.block[b] = h.block[b]
    BY <2>1 DEF Grown
  <2>3. QED
    BY <1>2, <2>2 DEF IsHeap, FreeBlocks, End
<1>4. ASSUME NEW b \in Kept(h)
      PROVE  /\ b \in Blocks(g) /\ g.block[b].is_free
             /\ g.block[b] \in [size : Nat, is_free : BOOLEAN]
             /\ End(g, b) = RunEnd(h, b)
  <2>1. b \in Blocks(g) /\ b \in Blocks(h) /\ b \in FreeBlocks(h)
    BY <1>1, <1>2
  <2>2. g.block[b] = [h.block[b] EXCEPT !.size = RunEnd(h, b) - b - Header]
    BY <1>2 DEF Grown
  <2>3. h.block[b] \in [size : Nat, is_free : BOOLEAN] /\ h.block[b].is_free
    BY <2>1 DEF IsHeap, FreeBlocks
  <2>4. PICK d \in FreeBlocks(h) : d >= b /\ End(h, d) = RunEnd(h, b)
    BY <2>1, RunOf
  <2>5. b \in Nat /\ d \in Nat /\ d + Header <= End(h, d) /\ End(h, d) \in Nat
    BY <1>1, BlockEnds
  <2>6. RunEnd(h, b) - b - Header \in Nat /\ b + Header + (RunEnd(h, b) - b - Header) = RunEnd(h, b)
    BY <2>4, <2>5, MemoryManagerAssumption
  <2>7. /\ g.block[b].is_free = h.block[b].is_free
        /\ g.block[b].size = RunEnd(h, b) - b - Header
        /\ g.block[b] \in [size : Nat, is_free : BOOLEAN]
    BY <2>2, <2>3, <2>6
  <2>8. End(g, b) = RunEnd(h, b)
    BY <2>6, <2>7 DEF End
  <2>9. QED
    BY <2>1, <2>3, <2>7, <2>8
<1>5. FreeBlocks(g) = Kept(h)
  <2>1. \A b \in FreeBlocks(g) : b \in Kept(h)
    BY <1>2, <1>3 DEF FreeBlocks
  <2>2. \A b \in Kept(h) : b \in FreeBlocks(g)
    BY <1>4 DEF FreeBlocks
  <2>3. QED
    BY <2>1, <2>2
<1>6. IsFiniteSet(Blocks(g)) /\ IsFiniteSet(Kept(h))
  <2>1. IsFiniteSet(Blocks(h))
    BY DEF IsHeap
  <2>2. Blocks(g) \subseteq Blocks(h) /\ Kept(h) \subseteq Blocks(h)
    BY <1>1, <1>2
  <2>3. QED
    BY <2>1, <2>2, FS_Subset
<1>7. /\ g.free \in Seq(Kept(h)) /\ IsInjective(g.free) /\ ToSet(g.free) = Kept(h)
  <2>1. Kept(h) \in SUBSET Nat
    BY <1>1
  <2>2. g.free = Descending(Kept(h))
    OBVIOUS
  <2>3. QED
    BY <1>6, <2>1, <2>2, DescendingList
<1>8. g.free \in Seq(Blocks(g))
  <2>1. Kept(h) \subseteq Blocks(g)
    BY <1>2
  <2>2. QED
    BY <1>7, <2>1, SeqMonotonic
<1>9. IsHeap(g)
  <2>1. g = [block |-> g.block, free |-> g.free]
    OBVIOUS
  <2>2. \A b \in Blocks(g) : g.block[b] \in [size : Nat, is_free : BOOLEAN]
    BY <1>2, <1>3, <1>4
  <2>3. g.block \in [Blocks(g) -> [size : Nat, is_free : BOOLEAN]]
    <3>1. g.block = [b \in Blocks(g) |-> g.block[b]]
      BY <1>2
    <3>2. QED
      BY <2>2, <3>1
  <2>4. QED
    BY <1>1, <1>2, <1>6, <1>8, <2>1, <2>3 DEF IsHeap
<1>10. SameInUse(h, g)
  <2>1. Blocks(g) \ FreeBlocks(g) = Blocks(h) \ FreeBlocks(h)
    BY <1>1, <1>2, <1>5
  <2>2. QED
    BY <1>3, <2>1 DEF SameInUse
<1>11. QED
  BY <1>2, <1>3, <1>4, <1>5, <1>7, <1>9, <1>10 DEF ListExact

\* Merging keeps the pools filled and the list exact, does not touch the blocks
\* in use, and leaves no two free blocks next to one another.
LEMMA MergedHeap ==
  ASSUME NEW h, NEW P, IsHeap(h), Apart(P), Tiles(h, P), ListExact(h)
  PROVE  /\ IsHeap(Merged(h)) /\ Tiles(Merged(h), P) /\ ListExact(Merged(h))
         /\ NoTwoFree(Merged(h)) /\ SameInUse(h, Merged(h))
<1> DEFINE U == Blocks(h) \ FreeBlocks(h)
           K == Kept(h)
<1>1. /\ K \subseteq FreeBlocks(h) /\ FreeBlocks(h) \subseteq Blocks(h) /\ Blocks(h) \subseteq Nat
      /\ IsFiniteSet(FreeBlocks(h))
  BY FS_Subset DEF Kept, FreeBlocks, IsHeap
<1>2. CASE Cardinality(FreeBlocks(h)) < 2
  <2>1. Merged(h) = h
    BY <1>2 DEF Merged
  <2>2. FreeBlocks(h) = {} \/ \E x : FreeBlocks(h) = {x}
    <3>1. Cardinality(FreeBlocks(h)) \in Nat
      BY <1>1, FS_CardinalityType
    <3>2. CASE Cardinality(FreeBlocks(h)) = 0
      BY <1>1, <3>2, FS_EmptySet
    <3>3. CASE Cardinality(FreeBlocks(h)) = 1
      BY <1>1, <3>3, FS_Singleton
    <3>4. QED
      BY <1>2, <3>1, <3>2, <3>3
  <2>3. NoTwoFree(h)
    <3>1. \A b \in FreeBlocks(h) : b \in Nat /\ b < End(h, b) /\ End(h, b) \in Nat
      BY <1>1, BlockEnds
    <3>2. \A b \in FreeBlocks(h) : b # End(h, b)
      BY <3>1
    <3>3. QED
      BY <2>2, <3>2 DEF NoTwoFree
  <2>4. QED
    BY <2>1, <2>3 DEF SameInUse
<1>3. CASE ~ (Cardinality(FreeBlocks(h)) < 2)
  <2> DEFINE g == Merged(h)
  <2>1. g = [block |-> [b \in (Blocks(h) \ FreeBlocks(h)) \cup Kept(h) |-> Grown(h, b)],
             free |-> Descending(Kept(h))]
    BY <1>3 DEF Merged
  <2> HIDE DEF g
  <2>2. /\ IsHeap(g) /\ ListExact(g) /\ SameInUse(h, g)
        /\ FreeBlocks(g) = K /\ Blocks(g) = U \cup K
        /\ \A b \in K : End(g, b) = RunEnd(h, b)
        /\ \A b \in U : End(g, b) = End(h, b)
    BY <2>1, MergedBlocks
  <2>3. NoTwoFree(g)
    BY <1>1, <2>2, RunOf DEF NoTwoFree
  <2>4. ASSUME NEW b \in Blocks(g), NEW c \in Blocks(g), b < c
        PROVE  End(g, b) <= c
    <3>1. CASE b \in U
      BY <1>1, <2>2, <2>4, <3>1 DEF Tiles
    <3>2. CASE b \in K
      <4>1. b \in FreeBlocks(h) /\ c \in Blocks(h)
        BY <1>1, <2>2, <3>2
      <4>2. c < RunEnd(h, b) => c \in FreeBlocks(h) /\ \E d \in FreeBlocks(h) : End(h, d) = c
        BY <2>4, <4>1, RunOf
      <4>3. ~ (c < RunEnd(h, b))
        BY <2>2, <4>2 DEF Kept
      <4>4. RunEnd(h, b) \in Nat /\ c \in Nat
        BY <1>1, <4>1, RunOf
      <4>5. QED
        BY <2>2, <3>2, <4>3, <4>4
    <3>3. QED
      BY <2>2, <3>1, <3>2
  <2>5. ASSUME NEW b \in Blocks(g)
        PROVE  \E p \in P : p[1] <= b /\ End(g, b) <= p[2]
    <3>1. CASE b \in U
      BY <2>2, <3>1 DEF Tiles
    <3>2. CASE b \in K
      <4>1. PICK p \in P : p[1] <= b /\ End(h, b) <= p[2]
        BY <1>1, <3>2 DEF Tiles
      <4>2. RunEnd(h, b) <= p[2]
        BY <1>1, <3>2, <4>1, RunInPool
      <4>3. QED
        BY <2>2, <3>2, <4>1, <4>2
    <3>3. QED
      BY <2>2, <3>1, <3>2
  <2>6. ASSUME NEW b \in Blocks(g)
        PROVE  (\E p \in P : b = p[1]) \/ \E c \in Blocks(g) : End(g, c) = b
    <3>1. SUFFICES ASSUME NEW c \in Blocks(h), End(h, c) = b
                   PROVE  \E d \in Blocks(g) : End(g, d) = b
      BY <1>1, <2>2 DEF Tiles
    <3>2. CASE c \in U
      BY <2>2, <3>1, <3>2
    <3>3. CASE c \in FreeBlocks(h)
      <4>1. b \notin FreeBlocks(h)
        BY <1>1, <2>2, <3>1, <3>3 DEF Kept
      <4>2. PICK d \in K : RunEnd(h, d) = b
        BY <3>1, <3>3, <4>1, RunBegins
      <4>3. QED
        BY <2>2, <4>2
    <3>4. QED
      BY <3>2, <3>3
  <2>7. ASSUME NEW b \in Blocks(g)
        PROVE  End(g, b) \in Blocks(g) \/ \E p \in P : End(g, b) = p[2]
    <3>1. CASE b \in U
      <4>1. CASE \E p \in P : End(h, b) = p[2]
        BY <2>2, <3>1, <4>1
      <4>2. CASE End(h, b) \in U
        BY <2>2, <3>1, <4>2
      <4>3. CASE End(h, b) \in FreeBlocks(h)
        <5>1. ASSUME NEW c \in FreeBlocks(h), End(h, c) = End(h, b) PROVE FALSE
          BY <1>1, <3>1, <5>1, Borders
        <5>2. End(h, b) \in K
          BY <4>3, <5>1 DEF Kept
        <5>3. QED
          BY <2>2, <3>1, <5>2
      <4>4. QED
        BY <3>1, <4>1, <4>2, <4>3 DEF Tiles
    <3>2. CASE b \in K
      <4>1. PICK d \in FreeBlocks(h) : End(h, d) = RunEnd(h, b)
        BY <1>1, <3>2, RunOf
      <4>2. RunEnd(h, b) \notin FreeBlocks(h)
        BY <1>1, <3>2, RunOf
      <4>3. End(h, d) \in Blocks(h) \/ \E p \in P : End(h, d) = p[2]
        BY <1>1 DEF Tiles
      <4>4. QED
        BY <2>2, <3>2, <4>1, <4>2, <4>3
    <3>3. QED
      BY <2>2, <3>1, <3>2
  <2>8. ASSUME NEW p \in P
        PROVE  p[1] \in Blocks(g) /\ \E b \in Blocks(g) : End(g, b) = p[2]
    <3>1. p[1] \in Blocks(g)
      <4>1. p[1] \in Blocks(h)
        BY DEF Tiles
      <4>2. \A c \in FreeBlocks(h) : End(h, c) # p[1]
        BY <1>1, Borders
      <4>3. QED
        BY <2>2, <4>1, <4>2 DEF Kept
    <3>2. PICK b \in Blocks(h) : End(h, b) = p[2]
      BY DEF Tiles
    <3>3. CASE b \in U
      BY <2>2, <3>1, <3>2, <3>3
    <3>4. CASE b \in FreeBlocks(h)
      <4>1. End(h, b) \notin FreeBlocks(h)
        BY <1>1, <3>2, Borders
      <4>2. PICK d \in K : RunEnd(h, d) = End(h, b)
        BY <3>4, <4>1, RunBegins
      <4>3. QED
        BY <2>2, <3>1, <3>2, <4>2
    <3>5. QED
      BY <3>3, <3>4
  <2>9. Tiles(g, P)
    BY <2>4, <2>5, <2>6, <2>7, <2>8 DEF Tiles
  <2>10. QED
    BY <2>2, <2>3, <2>9 DEF g
<1>4. QED
  BY <1>2, <1>3

-----------------------------------------------------------------------------
(* Unlinking, splitting, freeing, adding a pool.                           *)

\* What is left of a list without repetitions when its i-th element is erased.
LEMMA RemovedList ==
  ASSUME NEW S, NEW list \in Seq(S), IsInjective(list), NEW i \in DOMAIN list
  PROVE  /\ RemoveAt(list, i) \in Seq(S)
         /\ IsInjective(RemoveAt(list, i))
         /\ ToSet(RemoveAt(list, i)) = ToSet(list) \ {list[i]}
<1> DEFINE n == Len(list)
           left == SubSeq(list, 1, i - 1)
           right == SubSeq(list, i + 1, n)
           rest == RemoveAt(list, i)
<1>1. n \in Nat /\ DOMAIN list = 1 .. n /\ i \in 1 .. n /\ \A j \in 1 .. n : list[j] \in S
  OBVIOUS
<1>2. left \in Seq(S) /\ Len(left) = i - 1 /\ \A j \in 1 .. i - 1 : left[j] = list[j]
  BY <1>1
<1>3. /\ right \in Seq(S) /\ Len(right) = n - i
      /\ \A j \in 1 .. n - i : right[j] = list[j + i]
  <2>1. i + 1 \in Int /\ n \in Int /\ \A j \in i + 1 .. n : list[j] \in S
    BY <1>1
  <2> HIDE DEF n
  <2>2. /\ right \in Seq(S) /\ Len(right) = IF i + 1 <= n THEN n - (i + 1) + 1 ELSE 0
        /\ \A j \in 1 .. n - (i + 1) + 1 : right[j] = list[(i + 1) + j - 1]
    BY <2>1, SubSeqProperties
  <2>3. ~ (i + 1 <= n) => n - i = 0
    BY <1>1
  <2>4. \A j \in 1 .. n - i : (i + 1) + j - 1 = j + i
    BY <1>1
  <2>5. n - (i + 1) + 1 = n - i
    BY <1>1
  <2> HIDE DEF right
  <2>6. QED
    BY <2>2, <2>3, <2>4, <2>5
<1>4. rest = left \o right
  BY DEF RemoveAt
<1> HIDE DEF rest, left, right, n
<1>5. rest \in Seq(S) /\ Len(rest) = n - 1 /\ DOMAIN rest = 1 .. n - 1
  <2>1. rest \in Seq(S) /\ Len(rest) = (i - 1) + (n - i)
    BY <1>2, <1>3, <1>4, ConcatProperties
  <2>2. (i - 1) + (n - i) = n - 1
    BY <1>1
  <2>3. QED
    BY <2>1, <2>2
<1>6. \A j \in 1 .. n - 1 : rest[j] = IF j < i THEN list[j] ELSE list[j + 1]
  <2>1. ASSUME NEW j \in 1 .. n - 1
        PROVE  rest[j] = IF j < i THEN list[j] ELSE list[j + 1]
    <3>1. rest[j] = IF j <= i - 1 THEN left[j] ELSE right[j - (i - 1)]
      <4>1. j \in 1 .. (i - 1) + (n - i)
        BY <1>1
      <4>2. \A k \in 1 .. Len(left) + Len(right) :
              rest[k] = IF k <= Len(left) THEN left[k] ELSE right[k - Len(left)]
        BY <1>2, <1>3, <1>4, ConcatProperties
      <4>3. QED
        BY <1>2, <1>3, <4>1, <4>2
    <3>2. CASE j < i
      BY <1>1, <1>2, <3>1, <3>2
    <3>3. CASE ~ (j < i)
      <4>1. j - (i - 1) \in 1 .. n - i /\ j - (i - 1) + i = j + 1 /\ ~ (j <= i - 1)
        BY <1>1, <3>3
      <4>2. QED
        BY <1>3, <3>1, <3>3, <4>1
    <3>4. QED
      BY <3>2, <3>3
  <2>2. QED
    BY <2>1
<1>7. IsInjective(rest)
  <2>1. ASSUME NEW j \in 1 .. n - 1, NEW k \in 1 .. n - 1, rest[j] = rest[k]
        PROVE  j = k
    <3> DEFINE at(m) == IF m < i THEN m ELSE m + 1
    <3>1. at(j) \in 1 .. n /\ at(k) \in 1 .. n
      BY <1>1
    <3>2. list[at(j)] = list[at(k)]
      BY <1>6, <2>1
    <3>3. at(j) = at(k)
      BY <1>1, <3>1, <3>2 DEF IsInjective
    <3>4. QED
      BY <1>1, <3>3
  <2>2. QED
    BY <1>5, <2>1 DEF IsInjective
<1>8. ToSet(rest) = ToSet(list) \ {list[i]}
  <2>1. ToSet(rest) = {rest[j] : j \in 1 .. n - 1} /\ ToSet(list) = {list[j] : j \in 1 .. n}
    BY <1>1, <1>5 DEF ToSet
  <2>2. ASSUME NEW j \in 1 .. n - 1
        PROVE  rest[j] \in ToSet(list) /\ rest[j] # list[i]
    <3> DEFINE at == IF j < i THEN j ELSE j + 1
    <3>1. at \in 1 .. n /\ at # i
      BY <1>1
    <3>2. rest[j] = list[at]
      BY <1>6
    <3>3. QED
      BY <1>1, <2>1, <3>1, <3>2 DEF IsInjective
  <2>3. ASSUME NEW j \in 1 .. n, list[j] # list[i]
        PROVE  list[j] \in ToSet(rest)
    <3> DEFINE at == IF j < i THEN j ELSE j - 1
    <3>1. at \in 1 .. n - 1 /\ (IF at < i THEN at ELSE at + 1) = j
      BY <1>1, <2>3
    <3>2. rest[at] = list[j]
      BY <1>6, <3>1
    <3>3. QED
      BY <2>1, <3>1, <3>2
  <2>4. ToSet(rest) \subseteq ToSet(list) \ {list[i]}
    BY <2>1, <2>2
  <2>5. ToSet(list) \ {list[i]} \subseteq ToSet(rest)
    BY <2>1, <2>3
  <2>6. QED
    BY <2>4, <2>5
<1>9. QED
  BY <1>5, <1>7, <1>8 DEF rest

\* A list to whose head something new is added.
LEMMA PrefixedList ==
  ASSUME NEW S, NEW list \in Seq(S), IsInjective(list), NEW b \in S, b \notin ToSet(list)
  PROVE  /\ <<b>> \o list \in Seq(S)
         /\ IsInjective(<<b>> \o list)
         /\ ToSet(<<b>> \o list) = ToSet(list) \cup {b}
<1> DEFINE n == Len(list)
           all == <<b>> \o list
<1>1. n \in Nat /\ DOMAIN list = 1 .. n
  OBVIOUS
<1>2. all \in Seq(S) /\ DOMAIN all = 1 .. n + 1
  BY <1>1
<1>3. all[1] = b /\ \A j \in 1 .. n : all[j + 1] = list[j]
  BY <1>1
<1> HIDE DEF all, n
<1>4. \A j \in 1 .. n + 1 : j = 1 \/ (j - 1 \in 1 .. n /\ (j - 1) + 1 = j)
  BY <1>1
<1>5. \A j \in 1 .. n + 1 : all[j] = IF j = 1 THEN b ELSE list[j - 1]
  BY <1>3, <1>4
<1>6. ToSet(list) = {list[j] : j \in 1 .. n} /\ ToSet(all) = {all[j] : j \in 1 .. n + 1}
  BY <1>1, <1>2 DEF ToSet
<1>7. \A j \in 1 .. n : list[j] # b
  BY <1>6
<1>8. IsInjective(all)
  <2>1. ASSUME NEW j \in 1 .. n + 1, NEW k \in 1 .. n + 1, all[j] = all[k]
        PROVE  j = k
    <3>1. CASE j = 1 \/ k = 1
      BY <1>4, <1>5, <1>7, <2>1, <3>1
    <3>2. CASE j # 1 /\ k # 1
      <4>1. list[j - 1] = list[k - 1] /\ j - 1 \in 1 .. n /\ k - 1 \in 1 .. n
        BY <1>4, <1>5, <2>1, <3>2
      <4>2. j - 1 = k - 1
        BY <1>1, <4>1 DEF IsInjective
      <4>3. QED
        BY <4>2
    <3>3. QED
      BY <3>1, <3>2
  <2>2. QED
    BY <1>2, <2>1 DEF IsInjective
<1>9. ToSet(all) = ToSet(list) \cup {b}
  <2>1. ToSet(all) \subseteq ToSet(list) \cup {b}
    BY <1>4, <1>5, <1>6
  <2>2. 1 \in 1 .. n + 1 /\ \A j \in 1 .. n : j + 1 \in 1 .. n + 1
    BY <1>1
  <2>3. ToSet(list) \cup {b} \subseteq ToSet(all)
    BY <1>3, <1>6, <2>2
  <2>4. QED
    BY <2>1, <2>3
<1>10. QED
  BY <1>2, <1>8, <1>9 DEF all

\* Blocks and ends are all that matters to Tiles.
LEMMA SameTiles ==
  ASSUME NEW h, NEW g, NEW P, Tiles(h, P), Blocks(g) = Blocks(h),
         \A b \in Blocks(h) : End(g, b) = End(h, b)
  PROVE  Tiles(g, P)
BY DEF Tiles

\* A block that is split in two fills what it filled.
LEMMA SplitTiles ==
  ASSUME NEW h, NEW g, NEW P, IsHeap(h), Apart(P), Tiles(h, P),
         NEW b \in Blocks(h), NEW r \in Nat, b < r, r < End(h, b),
         Blocks(g) = Blocks(h) \cup {r},
         End(g, b) = r, End(g, r) = End(h, b),
         \A c \in Blocks(h) \ {b} : End(g, c) = End(h, c)
  PROVE  Tiles(g, P) /\ r \notin Blocks(h)
<1>1. b \in Nat /\ End(h, b) \in Nat /\ Blocks(h) \subseteq Nat
  BY BlockEnds DEF IsHeap
<1>2. \A c \in Blocks(h) : c \in Nat /\ End(h, c) \in Nat /\ c < End(h, c)
  BY BlockEnds
<1>3. r \notin Blocks(h)
  <2>1. SUFFICES ASSUME r \in Blocks(h) PROVE FALSE
    OBVIOUS
  <2>2. End(h, b) <= r
    BY <2>1 DEF Tiles
  <2>3. QED
    BY <1>1, <2>2
<1>4. ASSUME NEW c \in Blocks(g), NEW d \in Blocks(g), c < d
      PROVE  End(g, c) <= d
  <2>1. CASE c = b /\ d = r
    BY <1>1, <2>1
  <2>2. CASE c = b /\ d # r
    <3>1. End(h, b) <= d
      BY <1>4, <2>2 DEF Tiles
    <3>2. d \in Nat
      BY <1>1, <2>2
    <3>3. QED
      BY <1>1, <2>2, <3>1, <3>2
  <2>3. CASE c = r /\ d # r
    <3>1. d \in Nat /\ b < d
      BY <1>1, <1>4, <2>3
    <3>2. End(h, b) <= d
      BY <2>3, <3>1 DEF Tiles
    <3>3. QED
      BY <2>3, <3>2
  <2>4. CASE c \in Blocks(h) \ {b} /\ d = r
    <3>1. c \in Nat /\ End(h, c) \in Nat /\ c < End(h, c)
      BY <1>2, <2>4
    <3>2. ~ (b < c)
      <4>1. b < c => End(h, b) <= c
        BY <2>4 DEF Tiles
      <4>2. QED
        BY <1>1, <1>4, <2>4, <3>1, <4>1
    <3>3. c < b
      BY <1>1, <2>4, <3>1, <3>2
    <3>4. End(h, c) <= b
      BY <2>4, <3>3 DEF Tiles
    <3>5. QED
      BY <1>1, <2>4, <3>1, <3>4
  <2>5. CASE c \in Blocks(h) \ {b} /\ d # r
    BY <1>4, <2>5 DEF Tiles
  <2>6. QED
    <3>1. c # r \/ d # r
      BY <1>4
    <3>2. QED
      BY <2>1, <2>2, <2>3, <2>4, <2>5, <3>1
<1>5. ASSUME NEW c \in Blocks(g)
      PROVE  \E p \in P : p[1] <= c /\ End(g, c) <= p[2]
  <2>1. CASE c \in Blocks(h) \ {b}
    BY <2>1 DEF Tiles
  <2>2. CASE c = b \/ c = r
    <3>1. PICK p \in P : p[1] <= b /\ End(h, b) <= p[2]
      BY DEF Tiles
    <3>2. p[1] \in Nat /\ p[2] \in Nat
      BY DEF Apart
    <3>3. QED
      BY <1>1, <2>2, <3>1, <3>2
  <2>3. QED
    BY <2>1, <2>2
<1>6. ASSUME NEW c \in Blocks(g)
      PROVE  (\E p \in P : c = p[1]) \/ \E d \in Blocks(g) : End(g, d) = c
  <2>1. CASE c = r
    BY <2>1
  <2>2. CASE c \in Blocks(h)
    <3>1. CASE \E p \in P : c = p[1]
      BY <3>1
    <3>2. CASE \E d \in Blocks(h) : End(h, d) = c
      BY <3>2
    <3>3. QED
      BY <2>2, <3>1, <3>2 DEF Tiles
  <2>3. QED
    BY <2>1, <2>2
<1>7. ASSUME NEW c \in Blocks(g)
      PROVE  End(g, c) \in Blocks(g) \/ \E p \in P : End(g, c) = p[2]
  BY DEF Tiles
<1>8. ASSUME NEW p \in P
      PROVE  p[1] \in Blocks(g) /\ \E c \in Blocks(g) : End(g, c) = p[2]
  <2>1. p[1] \in Blocks(h)
    BY DEF Tiles
  <2>2. PICK c \in Blocks(h) : End(h, c) = p[2]
    BY DEF Tiles
  <2>3. CASE c = b
    BY <2>1, <2>2, <2>3
  <2>4. CASE c # b
    BY <2>1, <2>2, <2>4
  <2>5. QED
    BY <2>3, <2>4
<1>9. QED
  BY <1>3, <1>4, <1>5, <1>6, <1>7, <1>8 DEF Tiles

\* A new pool is clear of the blocks there are.
LEMMA PoolIsNew ==
  ASSUME NEW h, NEW P, NEW p, IsHeap(h), Tiles(h, P), Apart(P \cup {p}), p \notin P
  PROVE  p[1] \notin Blocks(h)
<1>1. SUFFICES ASSUME p[1] \in Blocks(h) PROVE FALSE
  OBVIOUS
<1>2. PICK q \in P : q[1] <= p[1] /\ End(h, p[1]) <= q[2]
  BY <1>1 DEF Tiles
<1>3. p[1] < End(h, p[1]) /\ End(h, p[1]) \in Nat
  BY <1>1, BlockEnds
<1>4. /\ p[1] \in Nat /\ p[2] \in Nat /\ q[1] \in Nat /\ q[2] \in Nat /\ p[1] < p[2]
      /\ (p[2] < q[1] \/ q[2] < p[1])
  BY DEF Apart
<1>5. QED
  BY <1>2, <1>3, <1>4

\* A new pool, of one block.
LEMMA AddedTiles ==
  ASSUME NEW h, NEW g, NEW P, NEW p, IsHeap(h), Tiles(h, P), Apart(P \cup {p}), p \notin P,
         Blocks(g) = Blocks(h) \cup {p[1]}, End(g, p[1]) = p[2],
         \A c \in Blocks(h) : End(g, c) = End(h, c)
  PROVE  Tiles(g, P \cup {p})
<1>1. p[1] \in Nat /\ p[2] \in Nat /\ p[1] < p[2]
  BY DEF Apart
<1>2. ASSUME NEW c \in Blocks(h)
      PROVE  /\ c \in Nat /\ End(h, c) \in Nat /\ c < End(h, c)
             /\ p[2] < c \/ End(h, c) < p[1]
  <2>1. c \in Nat /\ End(h, c) \in Nat /\ c < End(h, c)
    BY BlockEnds
  <2>2. PICK q \in P : q[1] <= c /\ End(h, c) <= q[2]
    BY DEF Tiles
  <2>3. q[1] \in Nat /\ q[2] \in Nat /\ (p[2] < q[1] \/ q[2] < p[1])
    BY DEF Apart
  <2>4. QED
    BY <1>1, <2>1, <2>2, <2>3
<1>3. ASSUME NEW c \in Blocks(g), NEW d \in Blocks(g), c < d
      PROVE  End(g, c) <= d
  <2>1. CASE c \in Blocks(h) /\ d \in Blocks(h)
    BY <1>3, <2>1 DEF Tiles
  <2>2. CASE c \in Blocks(h) /\ d = p[1]
    BY <1>1, <1>2, <1>3, <2>2
  <2>3. CASE c = p[1] /\ d \in Blocks(h)
    BY <1>1, <1>2, <1>3, <2>3
  <2>4. CASE c = p[1] /\ d = p[1]
    BY <1>1, <1>3, <2>4
  <2>5. QED
    BY <2>1, <2>2, <2>3, <2>4
<1>4. ASSUME NEW c \in Blocks(g)
      PROVE  \E q \in P \cup {p} : q[1] <= c /\ End(g, c) <= q[2]
  <2>1. CASE c \in Blocks(h)
    BY <2>1 DEF Tiles
  <2>2. CASE c = p[1]
    BY <1>1, <2>2
  <2>3. QED
    BY <2>1, <2>2
<1>5. ASSUME NEW c \in Blocks(g)
      PROVE  (\E q \in P \cup {p} : c = q[1]) \/ \E d \in Blocks(g) : End(g, d) = c
  BY DEF Tiles
<1>6. ASSUME NEW c \in Blocks(g)
      PROVE  End(g, c) \in Blocks(g) \/ \E q \in P \cup {p} : End(g, c) = q[2]
  <2>1. CASE c \in Blocks(h)
    BY <2>1 DEF Tiles
  <2>2. CASE c = p[1]
    BY <2>2
  <2>3. QED
    BY <2>1, <2>2
<1>7. ASSUME NEW q \in P \cup {p}
      PROVE  q[1] \in Blocks(g) /\ \E c \in Blocks(g) : End(g, c) = q[2]
  <2>1. CASE q \in P
    BY <2>1 DEF Tiles
  <2>2. CASE q = p
    BY <2>2
  <2>3. QED
    BY <2>1, <2>2
<1>8. QED
  BY <1>3, <1>4, <1>5, <1>6, <1>7 DEF Tiles

\* A block is taken from the list, split if it is much too large, and used.
Carved(h, i, size) ==
  [Split([h EXCEPT !.free = RemoveAt(@, i)], h.free[i], size)
     EXCEPT !.block[h.free[i]].is_free = FALSE]

LEMMA CarvedBlocks ==
  ASSUME NEW h, IsHeap(h), ListExact(h), NEW i \in DOMAIN h.free, NEW size \in Nat \ {0},
         ~ Splits(h, h.free[i], size)
  PROVE  LET b == h.free[i]
             g == Carved(h, i, size)
         IN  /\ IsHeap(g) /\ ListExact(g) /\ b \in FreeBlocks(h)
             /\ Blocks(g) = Blocks(h) /\ FreeBlocks(g) = FreeBlocks(h) \ {b}
             /\ \A c \in Blocks(h) : End(g, c) = End(h, c)
<1> DEFINE b == h.free[i]
           g == Carved(h, i, size)
<1>1. b \in FreeBlocks(h) /\ FreeBlocks(h) \subseteq Blocks(h) /\ b \in Blocks(h)
  BY DEF ListExact, ToSet, FreeBlocks
<1>2. /\ g = [block |-> [h.block EXCEPT ![b].is_free = FALSE], free |-> RemoveAt(h.free, i)]
      /\ DOMAIN g.block = Blocks(h)
  <2> DEFINE u == [h EXCEPT !.free = RemoveAt(@, i)]
  <2>1. h = [block |-> h.block, free |-> h.free]
    BY DEF IsHeap
  <2>2. u = [block |-> h.block, free |-> RemoveAt(h.free, i)]
    BY <2>1
  <2> HIDE DEF u
  <2>3. Split(u, b, size) = u
    BY <2>2 DEF Split, Splits
  <2>4. g = [u EXCEPT !.block[b].is_free = FALSE]
    BY <2>3 DEF Carved, u
  <2>5. QED
    BY <2>2, <2>4 DEF Blocks
<1> HIDE DEF g
<1>3. Blocks(g) = Blocks(h)
  BY <1>2 DEF Blocks
<1>4. ASSUME NEW c \in Blocks(h)
      PROVE  /\ g.block[c] \in [size : Nat, is_free : BOOLEAN]
             /\ g.block[c].size = h.block[c].size
             /\ g.block[c].is_free = (c # b /\ h.block[c].is_free)
  <2>1. h.block[c] \in [size : Nat, is_free : BOOLEAN]
    BY DEF IsHeap
  <2>2. g.block[c] = IF c = b THEN [h.block[b] EXCEPT !.is_free = FALSE] ELSE h.block[c]
    BY <1>2 DEF Blocks
  <2>3. QED
    BY <2>1, <2>2
<1>5. FreeBlocks(g) = FreeBlocks(h) \ {b}
  BY <1>3, <1>4 DEF FreeBlocks
<1>6. \A c \in Blocks(h) : End(g, c) = End(h, c)
  BY <1>4 DEF End
<1>7. /\ g.free \in Seq(Blocks(h)) /\ IsInjective(g.free) /\ ToSet(g.free) = FreeBlocks(h) \ {b}
  <2>1. h.free \in Seq(Blocks(h)) /\ IsInjective(h.free) /\ ToSet(h.free) = FreeBlocks(h)
    BY DEF IsHeap, ListExact
  <2>2. g.free = RemoveAt(h.free, i)
    BY <1>2
  <2>3. QED
    BY <2>1, <2>2, RemovedList
<1>8. g.block \in [Blocks(h) -> [size : Nat, is_free : BOOLEAN]]
  <2>1. g.block = [c \in Blocks(h) |-> g.block[c]]
    BY <1>2
  <2>2. QED
    BY <1>4, <2>1
<1>9. IsHeap(g) /\ ListExact(g)
  <2>1. g = [block |-> g.block, free |-> g.free]
    BY <1>2
  <2>2. Blocks(h) \subseteq Nat /\ IsFiniteSet(Blocks(h))
    BY DEF IsHeap
  <2>3. IsHeap(g)
    BY <1>3, <1>7, <1>8, <2>1, <2>2 DEF IsHeap
  <2>4. QED
    BY <1>5, <1>7, <2>3 DEF ListExact
<1>10. QED
  BY <1>1, <1>3, <1>5, <1>6, <1>9 DEF g

LEMMA CarvedSplit ==
  ASSUME NEW h, NEW P, IsHeap(h), Apart(P), Tiles(h, P), ListExact(h),
         NEW i \in DOMAIN h.free, NEW size \in Nat \ {0}, Splits(h, h.free[i], size)
  PROVE  LET b == h.free[i]
             r == b + Header + size
             g == Carved(h, i, size)
         IN  /\ IsHeap(g) /\ ListExact(g) /\ Tiles(g, P)
             /\ b \in FreeBlocks(h) /\ b < r /\ r < End(h, b) /\ r \in Nat /\ r \notin Blocks(h)
             /\ Blocks(g) = Blocks(h) \cup {r} /\ FreeBlocks(g) = (FreeBlocks(h) \ {b}) \cup {r}
             /\ End(g, b) = r /\ End(g, r) = End(h, b)
             /\ \A c \in Blocks(h) \ {b} : End(g, c) = End(h, c)
<1> DEFINE b == h.free[i]
           r == b + Header + size
           rest == h.block[b].size - size - Header
           g == Carved(h, i, size)
<1>1. b \in FreeBlocks(h) /\ FreeBlocks(h) \subseteq Blocks(h) /\ b \in Blocks(h)
  BY DEF ListExact, ToSet, FreeBlocks
<1>2. /\ b \in Nat /\ r \in Nat /\ b < r /\ rest \in Nat
      /\ r + Header + rest = End(h, b) /\ r < End(h, b) /\ r # b
  <2>1. b \in Nat /\ h.block[b].size \in Nat
    BY <1>1 DEF IsHeap
  <2>2. QED
    BY <2>1, MemoryManagerAssumption DEF Splits, End
<1>3. r \notin Blocks(h)
  <2>1. SUFFICES ASSUME r \in Blocks(h) PROVE FALSE
    OBVIOUS
  <2>2. End(h, b) <= r /\ End(h, b) \in Nat
    BY <1>1, <1>2, <2>1, BlockEnds DEF Tiles
  <2>3. QED
    BY <1>2, <2>2
<1>4. /\ g = [block |-> g.block, free |-> <<r>> \o RemoveAt(h.free, i)]
      /\ g.block = [a \in Blocks(h) \cup {r} |-> g.block[a]]
      /\ g.block[r] = [size |-> rest, is_free |-> TRUE]
      /\ g.block[b] = [h.block[b] EXCEPT !.size = size, !.is_free = FALSE]
      /\ \A a \in Blocks(h) \ {b, r} : g.block[a] = h.block[a]
  <2> DEFINE u == [h EXCEPT !.free = RemoveAt(@, i)]
             list == <<r>> \o RemoveAt(h.free, i)
             cut == Listed(u, r, rest)
             short == Split(u, b, size)
  <2>1. h = [block |-> h.block, free |-> h.free]
    BY DEF IsHeap
  <2>2. u = [block |-> h.block, free |-> RemoveAt(h.free, i)]
    BY <2>1
  <2> HIDE DEF u
  <2>3. cut.block = [a \in Blocks(h) \cup {r} |->
                       IF a = r THEN [size |-> rest, is_free |-> TRUE] ELSE h.block[a]]
    BY <2>2 DEF Listed, Blocks
  <2>4. cut = [block |-> cut.block, free |-> list]
    BY <2>2 DEF Listed
  <2>5. short = Sized(cut, b, size)
    BY <2>2 DEF Split, Splits
  <2> HIDE DEF r, rest, cut, list, short
  <2>6. short = [block |-> [cut.block EXCEPT ![b].size = size], free |-> list]
    BY <2>5, <2>4 DEF Sized
  <2>7. short.block = [cut.block EXCEPT ![b].size = size] /\ short.free = list
    BY <2>6
  <2>8. short = [block |-> short.block, free |-> list]
    BY <2>6, <2>7
  <2>9. g = [short EXCEPT !.block[b].is_free = FALSE]
    BY DEF Carved, short, u
  <2> HIDE DEF g
  <2>10. g = [block |-> [short.block EXCEPT ![b].is_free = FALSE], free |-> list]
    BY <2>8, <2>9
  <2>11. g.block = [short.block EXCEPT ![b].is_free = FALSE] /\ g.free = list
    BY <2>10
  <2>12. g = [block |-> g.block, free |-> list]
    BY <2>10, <2>11
  <2> HIDE DEF b
  <2>13. b \in Blocks(h) \cup {r} /\ b # r
    BY <1>1, <1>2
  <2>14. /\ g.block = [a \in Blocks(h) \cup {r} |-> g.block[a]]
         /\ g.block[r] = [size |-> rest, is_free |-> TRUE]
         /\ g.block[b] = [h.block[b] EXCEPT !.size = size, !.is_free = FALSE]
         /\ \A a \in Blocks(h) \ {b, r} : g.block[a] = h.block[a]
    <3> DEFINE D == Blocks(h) \cup {r}
    <3>1. /\ DOMAIN cut.block = D
          /\ cut.block[r] = [size |-> rest, is_free |-> TRUE]
          /\ cut.block[b] = h.block[b]
          /\ \A a \in Blocks(h) \ {b, r} : cut.block[a] = h.block[a]
      BY <2>3, <2>13
    <3>2. /\ DOMAIN short.block = D
          /\ short.block[r] = [size |-> rest, is_free |-> TRUE]
          /\ short.block[b] = [h.block[b] EXCEPT !.size = size]
          /\ \A a \in Blocks(h) \ {b, r} : short.block[a] = h.block[a]
      BY <2>7, <2>13, <3>1
    <3>3. /\ DOMAIN g.block = D
          /\ g.block[r] = [size |-> rest, is_free |-> TRUE]
          /\ g.block[b] = [[h.block[b] EXCEPT !.size = size] EXCEPT !.is_free = FALSE]
          /\ \A a \in Blocks(h) \ {b, r} : g.block[a] = h.block[a]
      BY <2>11, <2>13, <3>2
    <3>4. g.block = [a \in DOMAIN g.block |-> g.block[a]]
      BY <2>11
    <3>5. QED
      BY <3>3, <3>4
  <2>15. QED
    BY <2>12, <2>14 DEF list
<1> HIDE DEF g
<1>5. Blocks(g) = Blocks(h) \cup {r}
  BY <1>4 DEF Blocks
<1>6. \A c \in Blocks(h) : h.block[c] \in [size : Nat, is_free : BOOLEAN]
  BY DEF IsHeap
<1>7. g.block[r] = [size |-> rest, is_free |-> TRUE]
  BY <1>4
<1>8. /\ g.block[b] = [h.block[b] EXCEPT !.size = size, !.is_free = FALSE]
      /\ g.block[b] \in [size : Nat, is_free : BOOLEAN]
      /\ g.block[b].size = size /\ ~ g.block[b].is_free
  <2>1. g.block[b] = [h.block[b] EXCEPT !.size = size, !.is_free = FALSE]
    BY <1>1, <1>2, <1>4
  <2>2. QED
    BY <1>1, <1>6, <2>1
<1>9. \A c \in Blocks(h) \ {b} : g.block[c] = h.block[c]
  BY <1>3, <1>4
<1> HIDE DEF rest, b
<1>10. FreeBlocks(g) = (FreeBlocks(h) \ {b}) \cup {r}
  <2>1. \A c \in FreeBlocks(g) : c \in (FreeBlocks(h) \ {b}) \cup {r}
    BY <1>5, <1>8, <1>9 DEF FreeBlocks
  <2>2. \A c \in (FreeBlocks(h) \ {b}) \cup {r} : c \in FreeBlocks(g)
    BY <1>5, <1>7, <1>9 DEF FreeBlocks
  <2>3. QED
    BY <2>1, <2>2
<1>11. /\ End(g, b) = r /\ End(g, r) = End(h, b)
       /\ \A c \in Blocks(h) \ {b} : End(g, c) = End(h, c)
  <2>1. End(g, b) = r
    BY <1>8 DEF End
  <2>2. End(g, r) = r + Header + rest
    BY <1>7 DEF End
  <2>3. \A c \in Blocks(h) \ {b} : End(g, c) = End(h, c)
    BY <1>9 DEF End
  <2>4. QED
    BY <1>2, <2>1, <2>2, <2>3
<1> HIDE DEF r
<1>12. Tiles(g, P)
  BY <1>1, <1>2, <1>5, <1>11, SplitTiles
<1>13. /\ g.free \in Seq(Blocks(g)) /\ IsInjective(g.free)
       /\ ToSet(g.free) = (FreeBlocks(h) \ {b}) \cup {r}
  <2> DEFINE left == RemoveAt(h.free, i)
  <2>1. h.free \in Seq(Blocks(h)) /\ IsInjective(h.free) /\ ToSet(h.free) = FreeBlocks(h)
    BY DEF IsHeap, ListExact
  <2>2. left \in Seq(Blocks(h)) /\ IsInjective(left) /\ ToSet(left) = FreeBlocks(h) \ {b}
    BY <2>1, RemovedList DEF b
  <2>3. left \in Seq(Blocks(g))
    BY <1>5, <2>2, SeqMonotonic
  <2>4. r \in Blocks(g) /\ r \notin ToSet(left)
    BY <1>1, <1>3, <1>5, <2>2
  <2>5. g.free = <<r>> \o left
    BY <1>4
  <2> HIDE DEF left
  <2>6. QED
    BY <2>2, <2>3, <2>4, <2>5, PrefixedList
<1>14. IsHeap(g)
  <2>1. g = [block |-> g.block, free |-> g.free]
    BY <1>4
  <2>2. Blocks(g) \subseteq Nat
    BY <1>2, <1>5 DEF IsHeap
  <2>3. IsFiniteSet(Blocks(g))
    BY <1>5, FS_AddElement DEF IsHeap
  <2>4. \A c \in Blocks(g) : g.block[c] \in [size : Nat, is_free : BOOLEAN]
    <3>1. g.block[r] \in [size : Nat, is_free : BOOLEAN]
      BY <1>2, <1>7
    <3>2. ASSUME NEW c \in Blocks(h) PROVE g.block[c] \in [size : Nat, is_free : BOOLEAN]
      BY <1>6, <1>8, <1>9
    <3>3. QED
      BY <1>5, <3>1, <3>2
  <2>5. g.block \in [Blocks(g) -> [size : Nat, is_free : BOOLEAN]]
    <3>1. g.block = [c \in Blocks(g) |-> g.block[c]]
      BY <1>4, <1>5
    <3>2. QED
      BY <2>4, <3>1
  <2>6. QED
    BY <1>13, <2>1, <2>2, <2>3, <2>5 DEF IsHeap
<1>15. ListExact(g)
  BY <1>10, <1>13 DEF ListExact
<1>16. QED
  BY <1>1, <1>2, <1>3, <1>5, <1>10, <1>11, <1>12, <1>14, <1>15 DEF g, r, b

LEMMA CarvedHeap ==
  ASSUME NEW h, NEW P, IsHeap(h), Apart(P), Tiles(h, P), ListExact(h),
         NEW i \in DOMAIN h.free, NEW size \in Nat \ {0}, h.block[h.free[i]].size >= size
  PROVE  LET b == h.free[i]
             g == Carved(h, i, size)
         IN  /\ IsHeap(g) /\ ListExact(g) /\ Tiles(g, P)
             /\ NoTwoFree(h) => NoTwoFree(g)
             /\ b \in FreeBlocks(h) /\ b \in Nat
             /\ Blocks(g) \ FreeBlocks(g) = (Blocks(h) \ FreeBlocks(h)) \cup {b}
             /\ \A c \in Blocks(h) \ FreeBlocks(h) : End(g, c) = End(h, c)
             /\ b + Header + size <= End(g, b)
             /\ ~ Splits(h, b, size) => End(g, b) = End(h, b)
<1> DEFINE b == h.free[i]
           g == Carved(h, i, size)
           r == b + Header + size
<1>1. CASE ~ Splits(h, b, size)
  <2>1. /\ IsHeap(g) /\ ListExact(g) /\ b \in FreeBlocks(h)
        /\ Blocks(g) = Blocks(h) /\ FreeBlocks(g) = FreeBlocks(h) \ {b}
        /\ \A c \in Blocks(h) : End(g, c) = End(h, c)
    BY <1>1, CarvedBlocks
  <2>2. b \in Blocks(h) /\ FreeBlocks(h) \subseteq Blocks(h) /\ b \in Nat
    BY <2>1 DEF FreeBlocks, IsHeap
  <2>3. h.block[b].size \in Nat /\ r <= End(h, b)
    BY <2>2, MemoryManagerAssumption DEF End, IsHeap
  <2> HIDE DEF g, b, r
  <2>4. Tiles(g, P)
    BY <2>1, SameTiles
  <2>5. NoTwoFree(h) => NoTwoFree(g)
    BY <2>1, <2>2 DEF NoTwoFree
  <2>6. Blocks(g) \ FreeBlocks(g) = (Blocks(h) \ FreeBlocks(h)) \cup {b}
    BY <2>1, <2>2
  <2>7. r <= End(g, b)
    BY <2>1, <2>2, <2>3
  <2>8. QED
    BY <2>1, <2>2, <2>4, <2>5, <2>6, <2>7 DEF g, b, r
<1>2. CASE Splits(h, b, size)
  <2>1. /\ IsHeap(g) /\ ListExact(g) /\ Tiles(g, P)
        /\ b \in FreeBlocks(h) /\ b < r /\ r < End(h, b) /\ r \in Nat /\ r \notin Blocks(h)
        /\ Blocks(g) = Blocks(h) \cup {r} /\ FreeBlocks(g) = (FreeBlocks(h) \ {b}) \cup {r}
        /\ End(g, b) = r /\ End(g, r) = End(h, b)
        /\ \A c \in Blocks(h) \ {b} : End(g, c) = End(h, c)
    BY <1>2, CarvedSplit
  <2>2. b \in Blocks(h) /\ FreeBlocks(h) \subseteq Blocks(h) /\ b \in Nat
    BY <2>1 DEF FreeBlocks, IsHeap
  <2>3. b # r /\ r # End(h, b) /\ r <= End(g, b)
    BY <2>1, <2>2
  <2> HIDE DEF g, b, r
  <2>4. ASSUME NoTwoFree(h) PROVE NoTwoFree(g)
    <3>1. ASSUME NEW c \in FreeBlocks(h) \ {b} PROVE End(g, c) \notin FreeBlocks(g)
      <4>1. End(g, c) = End(h, c) /\ End(h, c) \notin FreeBlocks(h)
        BY <2>1, <2>2, <2>4 DEF NoTwoFree
      <4>2. c \in Blocks(g) /\ b \in Blocks(g)
        BY <2>1, <2>2
      <4>3. End(g, c) # r
        BY <2>1, <4>2, Borders
      <4>4. QED
        BY <2>1, <4>1, <4>3
    <3>2. End(g, r) \notin FreeBlocks(g)
      BY <2>1, <2>3, <2>4 DEF NoTwoFree
    <3>3. QED
      BY <2>1, <3>1, <3>2 DEF NoTwoFree
  <2>5. Blocks(g) \ FreeBlocks(g) = (Blocks(h) \ FreeBlocks(h)) \cup {b}
    BY <2>1, <2>2, <2>3
  <2>6. QED
    BY <1>2, <2>1, <2>2, <2>3, <2>4, <2>5 DEF g, b, r
<1>3. QED
  BY <1>1, <1>2

\* deallocate, after it found the header of a block in use.
LEMMA ReleasedHeap ==
  ASSUME NEW h, NEW P, IsHeap(h), Apart(P), Tiles(h, P), ListExact(h),
         NEW b \in Blocks(h) \ FreeBlocks(h)
  PROVE  LET g == Released(h, b)
         IN  /\ IsHeap(g) /\ ListExact(g) /\ Tiles(g, P)
             /\ settings.enable_defragmentation => NoTwoFree(g)
             /\ Blocks(g) \ FreeBlocks(g) = (Blocks(h) \ FreeBlocks(h)) \ {b}
             /\ \A c \in (Blocks(h) \ FreeBlocks(h)) \ {b} : End(g, c) = End(h, c)
<1> DEFINE f == [block |-> [h.block EXCEPT ![b].is_free = TRUE], free |-> <<b>> \o h.free]
           g == Released(h, b)
<1>1. /\ f = [block |-> f.block, free |-> f.free] /\ f.free = <<b>> \o h.free
      /\ f.block = [h.block EXCEPT ![b].is_free = TRUE]
  OBVIOUS
<1>2. g = IF settings.enable_defragmentation THEN Merged(f) ELSE f
  BY DEF Released
<1> HIDE DEF f, g
<1>3. b \in Blocks(h) /\ FreeBlocks(h) \subseteq Blocks(h)
  BY DEF FreeBlocks
<1>4. Blocks(f) = Blocks(h)
  BY <1>1 DEF Blocks
<1>5. ASSUME NEW c \in Blocks(h)
      PROVE  /\ f.block[c] \in [size : Nat, is_free : BOOLEAN]
             /\ f.block[c].size = h.block[c].size
             /\ c = b => f.block[c].is_free
             /\ c # b => f.block[c] = h.block[c]
  <2>1. h.block[c] \in [size : Nat, is_free : BOOLEAN]
    BY DEF IsHeap
  <2>2. f.block[c] = IF c = b THEN [h.block[b] EXCEPT !.is_free = TRUE] ELSE h.block[c]
    BY <1>1 DEF Blocks
  <2>3. QED
    BY <2>1, <2>2
<1>6. FreeBlocks(f) = FreeBlocks(h) \cup {b}
  BY <1>3, <1>4, <1>5 DEF FreeBlocks
<1>7. \A c \in Blocks(h) : End(f, c) = End(h, c)
  BY <1>5 DEF End
<1>8. /\ f.free \in Seq(Blocks(h)) /\ IsInjective(f.free) /\ ToSet(f.free) = FreeBlocks(h) \cup {b}
  <2>1. h.free \in Seq(Blocks(h)) /\ IsInjective(h.free) /\ ToSet(h.free) = FreeBlocks(h)
    BY DEF IsHeap, ListExact
  <2>2. QED
    BY <1>1, <1>3, <2>1, PrefixedList
<1>9. f.block \in [Blocks(h) -> [size : Nat, is_free : BOOLEAN]]
  <2>1. f.block = [c \in Blocks(h) |-> f.block[c]]
    BY <1>1 DEF Blocks
  <2>2. QED
    BY <1>5, <2>1
<1>10. IsHeap(f) /\ ListExact(f) /\ Tiles(f, P)
  <2>1. Blocks(h) \subseteq Nat /\ IsFiniteSet(Blocks(h))
    BY DEF IsHeap
  <2>2. IsHeap(f)
    BY <1>1, <1>4, <1>8, <1>9, <2>1 DEF IsHeap
  <2>3. ListExact(f)
    BY <1>6, <1>8 DEF ListExact
  <2>4. QED
    BY <1>4, <1>7, <2>2, <2>3, SameTiles
<1>11. Blocks(f) \ FreeBlocks(f) = (Blocks(h) \ FreeBlocks(h)) \ {b}
  BY <1>4, <1>6
<1>12. CASE ~ settings.enable_defragmentation
  BY <1>2, <1>7, <1>10, <1>11, <1>12 DEF g
<1>13. CASE settings.enable_defragmentation
  <2>1. /\ IsHeap(g) /\ Tiles(g, P) /\ ListExact(g) /\ NoTwoFree(g) /\ SameInUse(f, g)
    BY <1>2, <1>10, <1>13, MergedHeap
  <2>2. \A c \in (Blocks(h) \ FreeBlocks(h)) \ {b} : End(g, c) = End(h, c)
    BY <1>7, <1>11, <2>1 DEF SameInUse, End
  <2>3. QED
    BY <1>11, <2>1, <2>2 DEF SameInUse, g
<1>14. QED
  BY <1>12, <1>13

\* The pools of a list of sizes.
PoolSet(ps) == {<<Base(i), Base(i) + ps[i]>> : i \in DOMAIN ps}

LEMMA Bases ==
  ASSUME NEW i \in Nat \ {0}
  PROVE  /\ Base(i) \in Nat /\ Base(i + 1) = Base(i) + Stride
         /\ \A j \in Nat : i < j => Base(i) + Stride <= Base(j)
<1>1. Stride \in Nat
  BY MemoryManagerAssumption
<1> DEFINE s == Stride
<1> HIDE DEF s
<1>2. \A a \in Nat : a * s \in Nat /\ (a + 1) * s = a * s + s
  BY <1>1 DEF s
<1>3. \A a \in Nat, b \in Nat : a * s \in Nat /\ b * s \in Nat /\ (a + b) * s = a * s + b * s
  BY <1>1 DEF s
<1>4. i - 1 \in Nat /\ (i + 1) - 1 = (i - 1) + 1
  OBVIOUS
<1>5. Base(i) = (i - 1) * s /\ Base(i + 1) = ((i - 1) + 1) * s
  BY <1>4 DEF Base, s
<1>6. Base(i) \in Nat /\ Base(i + 1) = Base(i) + s
  BY <1>2, <1>4, <1>5
<1>7. ASSUME NEW j \in Nat, i < j PROVE Base(i) + s <= Base(j)
  <2>1. j - (i + 1) \in Nat /\ j - 1 = ((i - 1) + 1) + (j - (i + 1)) /\ (i - 1) + 1 \in Nat
    BY <1>7
  <2> DEFINE d == j - (i + 1)
             k == (i - 1) + 1
  <2>2. d \in Nat /\ k \in Nat /\ Base(j) = (k + d) * s /\ Base(i + 1) = k * s
    BY <1>5, <2>1 DEF Base, s
  <2> HIDE DEF d, k
  <2>3. (k + d) * s = k * s + d * s /\ d * s \in Nat /\ k * s \in Nat
    BY <1>3, <2>2
  <2> DEFINE x == k * s
             y == d * s
  <2>4. Base(j) = x + y /\ Base(i) + s = x /\ x \in Nat /\ y \in Nat
    BY <1>6, <2>2, <2>3
  <2> HIDE DEF x, y
  <2>5. QED
    BY <2>4
<1>8. QED
  BY <1>6, <1>7 DEF s

LEMMA PoolsApart ==
  ASSUME NEW ps \in Seq(1 .. Stride - 1)
  PROVE  Apart(PoolSet(ps))
<1>1. Stride \in Nat
  BY MemoryManagerAssumption
<1>2. ASSUME NEW i \in DOMAIN ps
      PROVE  /\ i \in Nat \ {0} /\ Base(i) \in Nat /\ ps[i] \in Nat \ {0}
             /\ ps[i] < Stride
  <2>1. /\ DOMAIN ps = 1 .. Len(ps) /\ Len(ps) \in Nat
        /\ \A j \in 1 .. Len(ps) : ps[j] \in 1 .. Stride - 1
    BY <1>1
  <2>2. i \in Nat \ {0} /\ ps[i] \in 1 .. Stride - 1
    BY <2>1
  <2>3. Base(i) \in Nat
    BY <2>2, Bases
  <2>4. ps[i] \in Nat \ {0} /\ ps[i] < Stride
    BY <1>1, <2>2
  <2>5. QED
    BY <2>2, <2>3, <2>4
<1>3. ASSUME NEW i \in DOMAIN ps, NEW j \in DOMAIN ps, i < j
      PROVE  Base(i) + ps[i] < Base(j)
  <2>1. Base(i) + Stride <= Base(j) /\ Base(j) \in Nat
    BY <1>2, <1>3, Bases
  <2>2. QED
    BY <1>1, <1>2, <2>1
<1>4. PoolSet(ps) \subseteq Nat \X Nat
  BY <1>2 DEF PoolSet
<1>5. \A p \in PoolSet(ps) : p[1] < p[2]
  BY <1>2 DEF PoolSet
<1>6. ASSUME NEW p \in PoolSet(ps), NEW q \in PoolSet(ps)
      PROVE  p = q \/ p[2] < q[1] \/ q[2] < p[1]
  <2>1. PICK i \in DOMAIN ps : p = <<Base(i), Base(i) + ps[i]>>
    BY DEF PoolSet
  <2>2. PICK j \in DOMAIN ps : q = <<Base(j), Base(j) + ps[j]>>
    BY DEF PoolSet
  <2>3. i \in Nat /\ j \in Nat
    BY <1>2
  <2>4. CASE i = j
    BY <2>1, <2>2, <2>4
  <2>5. CASE i < j
    BY <1>3, <2>1, <2>2, <2>5
  <2>6. CASE j < i
    BY <1>3, <2>1, <2>2, <2>6
  <2>7. QED
    BY <2>3, <2>4, <2>5, <2>6
<1>7. QED
  BY <1>4, <1>5, <1>6 DEF Apart

\* expand_pool.
LEMMA ExpandedHeap ==
  ASSUME NEW h, IsHeap(h), pools \in Seq(1 .. Stride - 1), Tiles(h, PoolSet(pools)),
         ListExact(h), NEW pool \in Header .. Stride - 1
  PROVE  LET g == Expanded(h, pool)
             more == Append(pools, pool)
         IN  /\ more \in Seq(1 .. Stride - 1)
             /\ IsHeap(g) /\ ListExact(g) /\ Tiles(g, PoolSet(more))
             /\ NoTwoFree(h) => NoTwoFree(g)
             /\ Blocks(g) \ FreeBlocks(g) = Blocks(h) \ FreeBlocks(h)
             /\ \A c \in Blocks(h) \ FreeBlocks(h) : End(g, c) = End(h, c)
             /\ 1 \in DOMAIN g.free /\ g.block[g.free[1]].size = pool - Header
<1> DEFINE n == Len(pools)
           b == n * Stride
           p == <<b, b + pool>>
           more == Append(pools, pool)
           g == Expanded(h, pool)
<1>1. /\ Stride \in Nat /\ Header \in Nat \ {0} /\ pool \in 1 .. Stride - 1
      /\ pool - Header \in Nat /\ n \in Nat
  BY MemoryManagerAssumption
<1>2. more \in Seq(1 .. Stride - 1) /\ DOMAIN more = 1 .. n + 1 /\ DOMAIN pools = 1 .. n
      /\ more[n + 1] = pool /\ \A i \in 1 .. n : more[i] = pools[i]
  BY <1>1
<1> HIDE DEF n, more
<1>3. b \in Nat /\ b = Base(n + 1)
  <2>1. (n + 1) - 1 = n /\ n + 1 \in Nat \ {0}
    BY <1>1
  <2>2. b = Base(n + 1)
    BY <2>1 DEF Base
  <2> HIDE DEF b
  <2>3. QED
    BY <2>1, <2>2, Bases
<1>4. PoolSet(more) = PoolSet(pools) \cup {p}
  <2>1. n + 1 \in 1 .. n + 1 /\ 1 .. n \subseteq 1 .. n + 1
        /\ \A i \in 1 .. n + 1 : i = n + 1 \/ i \in 1 .. n
    BY <1>1
  <2>2. p = <<Base(n + 1), Base(n + 1) + more[n + 1]>>
    BY <1>2, <1>3
  <2> HIDE DEF p
  <2>3. PoolSet(more) \subseteq PoolSet(pools) \cup {p}
    BY <1>2, <2>1, <2>2 DEF PoolSet
  <2>4. PoolSet(pools) \cup {p} \subseteq PoolSet(more)
    BY <1>2, <2>1, <2>2 DEF PoolSet
  <2>5. QED
    BY <2>3, <2>4
<1>5. Apart(PoolSet(pools) \cup {p}) /\ Apart(PoolSet(pools))
  BY <1>2, <1>4, PoolsApart
<1>6. p \notin PoolSet(pools)
  <2>1. SUFFICES ASSUME NEW i \in 1 .. n, p = <<Base(i), Base(i) + pools[i]>> PROVE FALSE
    BY <1>2 DEF PoolSet
  <2>2. i \in Nat \ {0} /\ i < n + 1 /\ n + 1 \in Nat
    BY <1>1
  <2>3. Base(i) + Stride <= Base(n + 1) /\ Base(i) \in Nat
    BY <2>2, Bases
  <2> HIDE DEF b
  <2>4. b = Base(i)
    BY <2>1
  <2>5. QED
    BY <1>1, <1>3, <2>3, <2>4
<1>7. p[1] = b /\ p[2] = b + pool
  OBVIOUS
<1> HIDE DEF b, p
<1>8. b \notin Blocks(h)
  BY <1>5, <1>6, <1>7, PoolIsNew
<1>9. /\ g = [block |-> g.block, free |-> g.free] /\ g.free = <<b>> \o h.free
      /\ g.block = [a \in Blocks(h) \cup {b} |->
                      IF a = b THEN [size |-> pool - Header, is_free |-> TRUE] ELSE h.block[a]]
  BY DEF Expanded, Listed, b, n
<1> HIDE DEF g
<1>10. /\ Blocks(g) = Blocks(h) \cup {b}
       /\ g.block[b] = [size |-> pool - Header, is_free |-> TRUE]
       /\ \A c \in Blocks(h) : g.block[c] = h.block[c]
  BY <1>8, <1>9 DEF Blocks
<1>11. FreeBlocks(g) = FreeBlocks(h) \cup {b}
  BY <1>10 DEF FreeBlocks
<1>12. End(g, b) = p[2] /\ \A c \in Blocks(h) : End(g, c) = End(h, c)
  BY <1>1, <1>3, <1>7, <1>10 DEF End
<1>13. Tiles(g, PoolSet(more))
  BY <1>4, <1>5, <1>6, <1>7, <1>10, <1>12, AddedTiles
<1>14. /\ g.free \in Seq(Blocks(g)) /\ IsInjective(g.free) /\ ToSet(g.free) = FreeBlocks(h) \cup {b}
  <2>1. h.free \in Seq(Blocks(h)) /\ IsInjective(h.free) /\ ToSet(h.free) = FreeBlocks(h)
    BY DEF IsHeap, ListExact
  <2>2. h.free \in Seq(Blocks(g)) /\ b \in Blocks(g) /\ b \notin ToSet(h.free)
    BY <1>8, <1>10, <2>1, SeqMonotonic DEF FreeBlocks
  <2>3. QED
    BY <1>9, <2>1, <2>2, PrefixedList
<1>15. IsHeap(g)
  <2>1. Blocks(g) \subseteq Nat /\ IsFiniteSet(Blocks(g))
    <3>1. Blocks(h) \subseteq Nat /\ IsFiniteSet(Blocks(h))
      BY DEF IsHeap
    <3>2. IsFiniteSet(Blocks(h) \cup {b})
      BY <3>1, FS_AddElement
    <3>3. QED
      BY <1>3, <1>10, <3>1, <3>2
  <2>2. \A c \in Blocks(g) : g.block[c] \in [size : Nat, is_free : BOOLEAN]
    <3>1. g.block[b] \in [size : Nat, is_free : BOOLEAN]
      BY <1>1, <1>10
    <3>2. \A c \in Blocks(h) : g.block[c] \in [size : Nat, is_free : BOOLEAN]
      BY <1>10 DEF IsHeap
    <3>3. QED
      BY <1>10, <3>1, <3>2
  <2>3. g.block \in [Blocks(g) -> [size : Nat, is_free : BOOLEAN]]
    <3>1. g.block = [c \in Blocks(g) |-> g.block[c]]
      BY <1>9, <1>10
    <3>2. QED
      BY <2>2, <3>1
  <2>4. QED
    BY <1>9, <1>14, <2>1, <2>3 DEF IsHeap
<1>16. ListExact(g)
  BY <1>11, <1>14 DEF ListExact
<1>17. ASSUME NoTwoFree(h) PROVE NoTwoFree(g)
  <2>1. p \in PoolSet(more) /\ Apart(PoolSet(more))
    BY <1>2, <1>4, PoolsApart
  <2>2. FreeBlocks(g) \subseteq Blocks(g) /\ FreeBlocks(h) \subseteq Blocks(h)
    BY DEF FreeBlocks
  <2>3. End(g, b) \notin FreeBlocks(g)
    BY <1>12, <1>13, <1>15, <2>1, <2>2, Borders
  <2>4. ASSUME NEW c \in FreeBlocks(h) PROVE End(g, c) \notin FreeBlocks(g)
    <3>1. End(g, c) # b
      BY <1>7, <1>11, <1>13, <1>15, <2>1, <2>2, Borders
    <3>2. End(g, c) \notin FreeBlocks(h)
      BY <1>12, <1>17, <2>2 DEF NoTwoFree
    <3>3. QED
      BY <1>11, <3>1, <3>2
  <2>5. QED
    BY <1>11, <2>3, <2>4 DEF NoTwoFree
<1>18. 1 \in DOMAIN g.free /\ g.free[1] = b
  <2>1. h.free \in Seq(Blocks(h))
    BY DEF IsHeap
  <2>2. QED
    BY <1>9, <2>1
<1>19. /\ Blocks(g) \ FreeBlocks(g) = Blocks(h) \ FreeBlocks(h)
       /\ \A c \in Blocks(h) \ FreeBlocks(h) : End(g, c) = End(h, c)
  BY <1>8, <1>10, <1>11, <1>12
<1>20. QED
  BY <1>2, <1>10, <1>13, <1>15, <1>16, <1>17, <1>18, <1>19 DEF g, more

-----------------------------------------------------------------------------
(* The inductive invariant.                                                *)

InUse(h) == Blocks(h) \ FreeBlocks(h)

HeapInv ==
  /\ IsHeap(heap) /\ Tiles(heap, PoolSet(pools)) /\ ListExact(heap)
  /\ settings.enable_defragmentation => NoTwoFree(heap)
  /\ ~initialized => pools = <<>>

\* An entry of allocated_blocks_ that is not right behind its header, that of an
\* aligned area, can only be of a block in use, which nothing else is held of:
\* without tracking such a block is never found, and so never freed.  The entries
\* of blocks freed without tracking are right behind their headers.
TrackedInv ==
  /\ users \subseteq [ptr : Nat, block : Nat, size : Sizes]
  /\ tracked \subseteq [ptr : Nat, block : Nat]
  /\ \A s, t \in tracked : s.ptr = t.ptr => s = t
  /\ ~overrun =>
       \A t \in tracked :
         \/ t.ptr = t.block + Header
         \/ /\ t.block \in InUse(heap)
            /\ t.block + Header <= t.ptr /\ t.ptr < End(heap, t.block)
            /\ \A u \in users : u.block = t.block => u.ptr = t.ptr

MemoryIInv == MemoryTypeOK /\ HeapInv /\ AreasInBlocks /\ TrackedInv

\* find_best_fit_block returns a block that fits, when there is one.
LEMMA BestFits ==
  ASSUME NEW h, IsHeap(h), NEW size, NEW alignment, Fits(h, size, alignment) # {}
  PROVE  BestFit(h, size, alignment) \in Fits(h, size, alignment)
<1> DEFINE F == Fits(h, size, alignment)
           sizes == {h.block[h.free[i]].size : i \in F}
           first == {i \in F : h.block[h.free[i]].size = Min(sizes)}
           k == Min(first)
<1>1. \A i \in F : i \in Nat /\ h.block[h.free[i]].size \in Nat
  <2>1. h.free \in Seq(Blocks(h)) /\ \A b \in Blocks(h) : h.block[b].size \in Nat
    BY DEF IsHeap
  <2>2. F \subseteq DOMAIN h.free
    BY DEF Fits
  <2> HIDE DEF F
  <2>3. \A i \in DOMAIN h.free : i \in Nat /\ h.free[i] \in Blocks(h)
    BY <2>1
  <2>4. QED
    BY <2>1, <2>2, <2>3
<1> HIDE DEF F
<1>2. sizes \in SUBSET Nat /\ sizes # {}
  BY <1>1 DEF F
<1>3. Min(sizes) \in sizes /\ \A x \in sizes : Min(sizes) <= x
  BY <1>2, LeastNatural
<1>4. first \in SUBSET Nat /\ first # {}
  <2>1. PICK i \in F : h.block[h.free[i]].size = Min(sizes)
    BY <1>3
  <2>2. i \in first
    BY <2>1
  <2> HIDE DEF sizes
  <2>3. first \in SUBSET Nat
    BY <1>1
  <2>4. QED
    BY <2>2, <2>3
<1>5. k \in first /\ \A x \in first : k <= x
  BY <1>4, LeastNatural
<1> DEFINE m == Min(sizes)
<1> HIDE DEF m, k
<1>6. k \in F /\ h.block[h.free[k]].size = m
  BY <1>5 DEF m
<1>7. ASSUME NEW j \in F
      PROVE  LET mine == h.block[h.free[k]].size
                 its == h.block[h.free[j]].size
             IN  mine < its \/ (mine = its /\ k <= j)
  <2>1. m <= h.block[h.free[j]].size /\ m \in Nat /\ h.block[h.free[j]].size \in Nat
    BY <1>1, <1>3, <1>2 DEF m
  <2>2. CASE h.block[h.free[j]].size = m
    <3>1. j \in first
      BY <2>2 DEF m
    <3>2. QED
      BY <1>5, <1>6, <2>2, <3>1
  <2>3. CASE h.block[h.free[j]].size # m
    BY <1>6, <2>1, <2>3
  <2>4. QED
    BY <2>2, <2>3
<1> HIDE DEF sizes, first
<1>8. \E i \in F : \A j \in F :
        LET mine == h.block[h.free[i]].size
            its == h.block[h.free[j]].size
        IN  mine < its \/ (mine = its /\ i <= j)
  BY <1>6, <1>7
<1>9. QED
  BY <1>8 DEF BestFit, F

LEMMA PaddingBounds ==
  ASSUME NEW b \in Nat, NEW alignment \in Alignments
  PROVE  Padding(b, alignment) \in 0 .. alignment /\ alignment \in Nat
<1>1. alignment \in Nat \ {0} /\ b + Header \in Nat
  BY MemoryManagerAssumption
<1>2. (b + Header) % alignment \in 0 .. alignment - 1
  BY <1>1
<1> DEFINE m == (b + Header) % alignment
<1> HIDE DEF m
<1>3. Padding(b, alignment) = IF m = 0 THEN 0 ELSE alignment - m
  BY DEF Padding, m
<1>4. QED
  BY <1>1, <1>2, <1>3 DEF m

\* allocate, once there is a block that fits in the heap h.
LEMMA Placed ==
  ASSUME NEW h, NEW P, IsHeap(h), Apart(P), Tiles(h, P), ListExact(h),
         settings.enable_defragmentation => NoTwoFree(h),
         InUse(h) = InUse(heap), \A c \in InUse(heap) : End(h, c) = End(heap, c),
         AreasInBlocks, TrackedInv, overrun \in BOOLEAN,
         NEW size \in Sizes, NEW alignment \in Alignments,
         Fits(h, size, alignment) # {}, Places(h, size, alignment)
  PROVE  /\ IsHeap(heap') /\ Tiles(heap', P) /\ ListExact(heap')
         /\ settings.enable_defragmentation => NoTwoFree(heap')
         /\ AreasInBlocks' /\ TrackedInv' /\ overrun' \in BOOLEAN
<1> DEFINE i == BestFit(h, size, alignment)
           b == h.free[i]
           pad == Padding(b, alignment)
           ptr == b + Header + pad
           new == [ptr |-> ptr, block |-> b, size |-> size]
           entry == [ptr |-> ptr, block |-> b]
<1>1. /\ heap' = Carved(h, i, size)
      /\ tracked' = IF tracking THEN {t \in tracked : t.ptr # ptr} \cup {entry} ELSE tracked
      /\ users' = users \cup {new}
      /\ overrun' = (overrun \/ (pad > 0 /\ Splits(h, b, size)))
  BY DEF Places, Carved
<1>2. i \in DOMAIN h.free /\ h.block[b].size >= size + pad
  <2>1. i \in Fits(h, size, alignment)
    BY BestFits
  <2> HIDE DEF i
  <2>2. QED
    BY <2>1 DEF Fits
<1>3. size \in Nat \ {0}
  BY MemoryManagerAssumption
<1>4. b \in Blocks(h) /\ b \in Nat /\ h.block[b].size \in Nat
  <2>1. h.free \in Seq(Blocks(h)) /\ Blocks(h) \subseteq Nat
        /\ \A c \in Blocks(h) : h.block[c].size \in Nat
    BY DEF IsHeap
  <2> HIDE DEF i
  <2>2. b \in Blocks(h)
    BY <1>2, <2>1
  <2>3. QED
    BY <2>1, <2>2
<1> HIDE DEF i
<1>5. pad \in Nat /\ Header \in Nat \ {0}
  BY <1>4, PaddingBounds, MemoryManagerAssumption
<1> HIDE DEF pad
<1>6. h.block[b].size >= size
  BY <1>2, <1>3, <1>4, <1>5
<1> DEFINE g == Carved(h, i, size)
<1>7. /\ IsHeap(g) /\ ListExact(g) /\ Tiles(g, P)
      /\ NoTwoFree(h) => NoTwoFree(g)
      /\ b \in FreeBlocks(h)
      /\ InUse(g) = InUse(h) \cup {b}
      /\ \A c \in InUse(h) : End(g, c) = End(h, c)
      /\ b + Header + size <= End(g, b)
      /\ ~ Splits(h, b, size) => End(g, b) = End(h, b)
  BY <1>2, <1>3, <1>6, CarvedHeap DEF InUse
<1> HIDE DEF g
<1>8. heap' = g
  BY <1>1 DEF g
<1> HIDE DEF b
<1>9. /\ b \notin InUse(heap)
      /\ InUse(heap') = InUse(heap) \cup {b}
      /\ \A c \in InUse(heap) : End(heap', c) = End(heap, c)
  BY <1>7, <1>8 DEF InUse
<1>10. ptr \in Nat /\ b + Header <= ptr
  BY <1>4, <1>5
<1>11. ASSUME ~overrun' PROVE ~overrun /\ ptr + size <= End(heap', b) /\ ptr < End(heap', b)
  <2>1. ~overrun /\ ~ (pad > 0 /\ Splits(h, b, size))
    BY <1>1, <1>11
  <2>2. End(g, b) \in Nat /\ End(h, b) \in Nat
    <3>1. b \in Blocks(g)
      BY <1>7 DEF InUse
    <3>2. QED
      BY <1>4, <1>7, <3>1, BlockEnds
  <2>3. CASE Splits(h, b, size)
    <3>1. pad = 0
      BY <1>5, <2>1, <2>3
    <3>2. QED
      BY <1>3, <1>4, <1>5, <1>7, <1>8, <2>1, <2>2, <3>1
  <2>4. CASE ~ Splits(h, b, size)
    <3>1. End(g, b) = b + Header + h.block[b].size
      BY <1>7, <2>4 DEF End
    <3>2. QED
      BY <1>2, <1>3, <1>4, <1>5, <1>8, <2>1, <2>2, <3>1
  <2>5. QED
    BY <2>3, <2>4
<1> HIDE DEF ptr
<1>12. AreasInBlocks'
  <2>1. SUFFICES ASSUME ~overrun', NEW u \in users'
                 PROVE  /\ u.block \in InUse(heap')
                        /\ u.block + Header <= u.ptr /\ u.ptr + u.size <= End(heap', u.block)
                        /\ \A v \in users' : v.block = u.block => v = u
    BY DEF AreasInBlocks, InUse
  <2>2. \A v \in users : /\ v.block \in InUse(heap) /\ v.block # b
                         /\ v.block + Header <= v.ptr /\ v.ptr + v.size <= End(heap, v.block)
                         /\ \A w \in users : w.block = v.block => w = v
    BY <1>9, <1>11, <2>1 DEF AreasInBlocks, InUse
  <2>3. new.block = b /\ new.ptr = ptr /\ new.size = size
    OBVIOUS
  <2> HIDE DEF new
  <2>4. CASE u = new
    BY <1>1, <1>9, <1>10, <1>11, <2>1, <2>2, <2>3, <2>4
  <2>5. CASE u \in users
    BY <1>1, <1>9, <2>2, <2>3, <2>5
  <2>6. QED
    BY <1>1, <2>1, <2>4, <2>5
<1>13. TrackedInv'
  <2>1. new \in [ptr : Nat, block : Nat, size : Sizes] /\ entry \in [ptr : Nat, block : Nat]
    BY <1>4, <1>10
  <2>2. /\ new.block = b /\ new.ptr = ptr /\ entry.block = b /\ entry.ptr = ptr
    OBVIOUS
  <2> HIDE DEF new, entry
  <2>3. users' \subseteq [ptr : Nat, block : Nat, size : Sizes]
        /\ tracked' \subseteq [ptr : Nat, block : Nat]
    BY <1>1, <2>1 DEF TrackedInv
  <2>4. \A t \in tracked' : t = entry \/ t \in tracked
    BY <1>1
  <2>5. \A s, t \in tracked' : s.ptr = t.ptr => s = t
    <3>1. \A s, t \in tracked : s.ptr = t.ptr => s = t
      BY DEF TrackedInv
    <3>2. CASE ~tracking
      BY <1>1, <3>1, <3>2
    <3>3. CASE tracking
      BY <1>1, <2>2, <3>1, <3>3
    <3>4. QED
      BY <3>2, <3>3
  <2>6. ASSUME ~overrun', NEW t \in tracked', t.ptr # t.block + Header
        PROVE  /\ t.block \in InUse(heap')
               /\ t.block + Header <= t.ptr /\ t.ptr < End(heap', t.block)
               /\ \A u \in users' : u.block = t.block => u.ptr = t.ptr
    <3>1. \A u \in users : u.block # b
      BY <1>9, <1>11, <2>6 DEF AreasInBlocks, InUse
    <3>2. CASE t = entry
      BY <1>1, <1>9, <1>10, <1>11, <2>2, <2>6, <3>1, <3>2
    <3>3. CASE t \in tracked
      <4>1. /\ t.block \in InUse(heap)
            /\ t.block + Header <= t.ptr /\ t.ptr < End(heap, t.block)
            /\ \A u \in users : u.block = t.block => u.ptr = t.ptr
        BY <1>11, <2>6, <3>3 DEF TrackedInv
      <4>2. QED
        BY <1>1, <1>9, <2>2, <4>1
    <3>4. QED
      BY <2>4, <2>6, <3>2, <3>3
  <2>7. QED
    BY <2>3, <2>5, <2>6 DEF TrackedInv
<1>14. overrun' \in BOOLEAN
  BY <1>1
<1>15. QED
  BY <1>7, <1>8, <1>12, <1>13, <1>14

-----------------------------------------------------------------------------
(* The steps.                                                              *)

LEMMA Initially == MemoryInit => MemoryIInv
<1> SUFFICES ASSUME MemoryInit PROVE MemoryIInv
  OBVIOUS
<1> USE DEF MemoryInit
<1>1. Blocks(heap) = {} /\ FreeBlocks(heap) = {} /\ heap.free = <<>> /\ heap.block = <<>>
  BY DEF EmptyHeap, Blocks, FreeBlocks
<1>2. IsHeap(heap)
  <2>1. heap = [block |-> heap.block, free |-> heap.free]
    BY DEF EmptyHeap
  <2>2. heap.block \in [Blocks(heap) -> [size : Nat, is_free : BOOLEAN]]
    BY <1>1
  <2>3. heap.free \in Seq(Blocks(heap)) /\ Blocks(heap) \subseteq Nat
    BY <1>1
  <2>4. IsFiniteSet(Blocks(heap))
    BY <1>1, FS_EmptySet
  <2>5. QED
    BY <2>1, <2>2, <2>3, <2>4 DEF IsHeap
<1>3. Tiles(heap, PoolSet(pools))
  <2>1. PoolSet(pools) = {}
    BY DEF PoolSet
  <2>2. QED
    BY <1>1, <2>1 DEF Tiles
<1>4. ListExact(heap) /\ NoTwoFree(heap)
  BY <1>1 DEF ListExact, NoTwoFree, IsInjective, ToSet
<1>5. MemoryTypeOK
  <2>1. heap.free \in Seq(Blocks(heap)) /\ pools \in Seq(1 .. Stride - 1)
    BY <1>1, MemoryManagerAssumption
  <2>2. used \in 0 .. MaxUsed
    BY MemoryManagerAssumption
  <2>3. QED
    BY <1>1, <2>1, <2>2 DEF MemoryTypeOK
<1>6. AreasInBlocks /\ TrackedInv
  BY DEF AreasInBlocks, TrackedInv
<1>7. QED
  BY <1>2, <1>3, <1>4, <1>5, <1>6 DEF MemoryIInv, HeapInv

\* What the type invariant says of heap and users follows from the rest.
Rest ==
  /\ settings \in MemoryConfigs /\ limit \in Limits /\ used \in 0 .. MaxUsed
  /\ initialized \in BOOLEAN /\ tracking \in BOOLEAN /\ stuck \in BOOLEAN /\ overrun \in BOOLEAN
  /\ pools \in Seq(1 .. Stride - 1)

LEMMA TypeOf ==
  ASSUME Rest, IsHeap(heap), TrackedInv
  PROVE  MemoryTypeOK
<1>1. \A b \in Blocks(heap) : b \in Nat /\ heap.block[b].size \in Nat
  BY DEF IsHeap
<1>2. heap.free \in Seq(Blocks(heap))
  BY DEF IsHeap
<1>3. \A u \in users : u.ptr \in Nat /\ u.size \in Sizes
  BY DEF TrackedInv
<1>4. QED
  BY <1>1, <1>2, <1>3 DEF MemoryTypeOK, Rest

LEMMA RestOf == MemoryTypeOK => Rest
BY DEF MemoryTypeOK, Rest

\* Steps that change neither the heap nor what is held of it.
LEMMA NothingMoved ==
  ASSUME MemoryIInv, UNCHANGED <<pools, heap, users, tracked, overrun>>, Rest',
         settings'.enable_defragmentation => NoTwoFree(heap),
         ~initialized' => pools = <<>>
  PROVE  MemoryIInv'
<1>1. HeapInv'
  BY DEF MemoryIInv, HeapInv
<1>2. AreasInBlocks'
  BY DEF MemoryIInv, AreasInBlocks
<1>3. TrackedInv'
  BY DEF MemoryIInv, TrackedInv
<1>4. MemoryTypeOK'
  BY <1>1, <1>3, TypeOf, PTL DEF HeapInv
<1>5. QED
  BY <1>1, <1>2, <1>3, <1>4 DEF MemoryIInv

\* Steps that change the heap only where nothing is held.
LEMMA SameAreas ==
  ASSUME MemoryIInv, InUse(heap') = InUse(heap),
         \A c \in InUse(heap) : End(heap', c) = End(heap, c),
         UNCHANGED <<users, tracked, overrun>>
  PROVE  AreasInBlocks' /\ TrackedInv'
<1>1. AreasInBlocks'
  BY DEF MemoryIInv, AreasInBlocks, InUse
<1>2. TrackedInv'
  <2>1. ASSUME ~overrun, NEW t \in tracked, t.ptr # t.block + Header
        PROVE  /\ t.block \in InUse(heap')
               /\ t.block + Header <= t.ptr /\ t.ptr < End(heap', t.block)
               /\ \A u \in users : u.block = t.block => u.ptr = t.ptr
    BY <2>1 DEF MemoryIInv, TrackedInv
  <2>2. QED
    BY <2>1 DEF MemoryIInv, TrackedInv
<1>3. QED
  BY <1>1, <1>2

LEMMA HeapMoved ==
  ASSUME Rest', IsHeap(heap'), Tiles(heap', PoolSet(pools')), ListExact(heap'),
         settings'.enable_defragmentation => NoTwoFree(heap'),
         ~initialized' => pools' = <<>>, AreasInBlocks', TrackedInv'
  PROVE  MemoryIInv'
<1>1. HeapInv'
  BY DEF HeapInv
<1>2. \A b \in Blocks(heap') : b \in Nat /\ heap'.block[b].size \in Nat
  BY DEF IsHeap
<1>3. heap'.free \in Seq(Blocks(heap'))
  BY DEF IsHeap
<1>4. \A u \in users' : u.ptr \in Nat /\ u.size \in Sizes
  BY DEF TrackedInv
<1>5. MemoryTypeOK'
  BY <1>2, <1>3, <1>4 DEF MemoryTypeOK, Rest
<1>6. QED
  BY <1>1, <1>5 DEF MemoryIInv

LEMMA ConfigureStep ==
  ASSUME MemoryIInv, NEW f \in MemoryConfigs, Configure(f)
  PROVE  MemoryIInv'
<1>1. Rest'
  BY RestOf DEF MemoryIInv, Rest, Configure
<1>2. pools = <<>>
  BY DEF MemoryIInv, HeapInv, Configure
<1>3. PoolSet(pools) = {}
  BY <1>2 DEF PoolSet
<1>4. Blocks(heap) = {}
  BY <1>3 DEF MemoryIInv, HeapInv, Tiles
<1>5. NoTwoFree(heap)
  BY <1>4 DEF NoTwoFree, FreeBlocks
<1>6. QED
  BY <1>1, <1>2, <1>5, NothingMoved DEF Configure

LEMMA InitializeStep ==
  ASSUME MemoryIInv, Initialize
  PROVE  MemoryIInv'
<1> DEFINE pool == NewPool(settings.initial_pool_size)
<1> HIDE DEF pool
<1>1. /\ heap' = Expanded(heap, pool) /\ pool \in Header .. Stride - 1
      /\ pools' = Append(pools, pool) /\ initialized' = TRUE
      /\ UNCHANGED <<settings, tracked, tracking, limit, used, stuck, users, overrun>>
  BY DEF Initialize, AddsPool, pool
<1>2. /\ Rest /\ IsHeap(heap) /\ Tiles(heap, PoolSet(pools)) /\ ListExact(heap)
      /\ settings.enable_defragmentation => NoTwoFree(heap)
  BY RestOf DEF MemoryIInv, HeapInv
<1>3. /\ pools' \in Seq(1 .. Stride - 1)
      /\ IsHeap(heap') /\ ListExact(heap') /\ Tiles(heap', PoolSet(pools'))
      /\ NoTwoFree(heap) => NoTwoFree(heap')
      /\ InUse(heap') = InUse(heap)
      /\ \A c \in InUse(heap) : End(heap', c) = End(heap, c)
  BY <1>1, <1>2, ExpandedHeap DEF Rest, InUse
<1>4. Rest'
  BY <1>1, <1>2, <1>3 DEF Rest
<1>5. AreasInBlocks' /\ TrackedInv'
  BY <1>1, <1>3, SameAreas
<1>6. QED
  BY <1>1, <1>2, <1>3, <1>4, <1>5, HeapMoved

LEMMA AllocateFitsStep ==
  ASSUME MemoryIInv, NEW size \in Sizes, NEW alignment \in Alignments, AllocateFits(size, alignment)
  PROVE  MemoryIInv'
<1>1. /\ Rest /\ IsHeap(heap) /\ Tiles(heap, PoolSet(pools)) /\ ListExact(heap)
      /\ settings.enable_defragmentation => NoTwoFree(heap)
      /\ AreasInBlocks /\ TrackedInv
      /\ ~initialized => pools = <<>>
  BY RestOf DEF MemoryIInv, HeapInv
<1>2. /\ Fits(heap, size, alignment) # {} /\ Places(heap, size, alignment)
      /\ used' = used + size /\ used + size <= MaxUsed
      /\ UNCHANGED <<pools, settings, initialized, tracking, limit, stuck>>
  BY DEF AllocateFits, Counts
<1>3. Apart(PoolSet(pools)) /\ overrun \in BOOLEAN
  BY <1>1, PoolsApart DEF Rest
<1>4. /\ IsHeap(heap') /\ Tiles(heap', PoolSet(pools)) /\ ListExact(heap')
      /\ settings.enable_defragmentation => NoTwoFree(heap')
      /\ AreasInBlocks' /\ TrackedInv' /\ overrun' \in BOOLEAN
  BY <1>1, <1>2, <1>3, Placed
<1>5. used' \in 0 .. MaxUsed
  BY <1>1, <1>2, MemoryManagerAssumption DEF Rest
<1>6. Rest'
  BY <1>1, <1>2, <1>4, <1>5 DEF Rest
<1>7. QED
  BY <1>1, <1>2, <1>4, <1>6, HeapMoved

LEMMA AllocateExpandsStep ==
  ASSUME MemoryIInv, NEW size \in Sizes, NEW alignment \in Alignments,
         AllocateExpands(size, alignment)
  PROVE  MemoryIInv'
<1> DEFINE pool == NewPool(size + Header + alignment)
           h == Expanded(heap, pool)
<1>1. /\ Rest /\ IsHeap(heap) /\ Tiles(heap, PoolSet(pools)) /\ ListExact(heap)
      /\ settings.enable_defragmentation => NoTwoFree(heap)
      /\ AreasInBlocks /\ TrackedInv /\ initialized
  BY RestOf DEF MemoryIInv, HeapInv, AllocateExpands, Counts
<1>2. /\ Places(h, size, alignment) /\ used' = used + size /\ used + size <= MaxUsed
      /\ pool \in Header .. Stride - 1 /\ pools' = Append(pools, pool)
      /\ UNCHANGED <<settings, initialized, tracking, limit, stuck>>
  BY DEF AllocateExpands, Counts, AddsPool
<1>3. /\ size \in Nat /\ alignment \in Nat /\ Header \in Nat /\ pool \in Int
      /\ pool >= size + Header + alignment
  <2>1. size \in Nat /\ alignment \in Nat /\ Header \in Nat /\ Stride \in Nat
    BY MemoryManagerAssumption
  <2> DEFINE next == Geometric(Len(pools))
  <2>2. pool = IF next > size + Header + alignment THEN next ELSE size + Header + alignment
    BY DEF NewPool
  <2> HIDE DEF pool, next
  <2>3. pool \in Int
    BY <1>2, <2>1
  <2>4. QED
    BY <2>1, <2>2, <2>3
<1> HIDE DEF pool
<1>4. /\ pools' \in Seq(1 .. Stride - 1)
      /\ IsHeap(h) /\ ListExact(h) /\ Tiles(h, PoolSet(pools'))
      /\ NoTwoFree(heap) => NoTwoFree(h)
      /\ InUse(h) = InUse(heap)
      /\ \A c \in InUse(heap) : End(h, c) = End(heap, c)
      /\ 1 \in DOMAIN h.free /\ h.block[h.free[1]].size = pool - Header
  BY <1>1, <1>2, ExpandedHeap DEF Rest, InUse
<1> HIDE DEF h
<1>5. Fits(h, size, alignment) # {}
  <2>1. h.free[1] \in Nat
    BY <1>4 DEF IsHeap
  <2>2. Padding(h.free[1], alignment) \in 0 .. alignment
    BY <2>1, PaddingBounds
  <2>3. h.block[h.free[1]].size >= size + Padding(h.free[1], alignment)
    BY <1>3, <1>4, <2>2
  <2>4. 1 \in Fits(h, size, alignment)
    BY <1>4, <2>3 DEF Fits
  <2>5. QED
    BY <2>4
<1>6. Apart(PoolSet(pools')) /\ overrun \in BOOLEAN
  BY <1>1, <1>4, PoolsApart DEF Rest
<1>7. /\ IsHeap(heap') /\ Tiles(heap', PoolSet(pools')) /\ ListExact(heap')
      /\ settings.enable_defragmentation => NoTwoFree(heap')
      /\ AreasInBlocks' /\ TrackedInv' /\ overrun' \in BOOLEAN
  BY <1>1, <1>2, <1>4, <1>5, <1>6, Placed
<1>8. used' \in 0 .. MaxUsed
  BY <1>1, <1>2, <1>3, MemoryManagerAssumption DEF Rest
<1>9. Rest'
  BY <1>1, <1>2, <1>4, <1>7, <1>8 DEF Rest
<1>10. QED
  BY <1>1, <1>2, <1>7, <1>9, HeapMoved

LEMMA AllocateFailsStep ==
  ASSUME MemoryIInv, NEW size \in Sizes, NEW alignment \in Alignments,
         AllocateFails(size, alignment)
  PROVE  MemoryIInv'
<1>1. Rest /\ (settings.enable_defragmentation => NoTwoFree(heap)) /\ initialized
  BY RestOf DEF MemoryIInv, HeapInv, AllocateFails, Counts
<1>2. /\ used' = used + size /\ used + size <= MaxUsed
      /\ UNCHANGED <<settings, initialized, tracking, limit, stuck>>
      /\ UNCHANGED <<pools, heap, tracked, users, overrun>>
  BY DEF AllocateFails, Counts
<1>3. used' \in 0 .. MaxUsed
  BY <1>1, <1>2, MemoryManagerAssumption DEF Rest
<1>4. Rest'
  BY <1>1, <1>2, <1>3 DEF Rest
<1>5. QED
  BY <1>1, <1>2, <1>4, NothingMoved

\* Two blocks in which the same area can be are one.
LEMMA SameBlock ==
  ASSUME NEW h, NEW P, IsHeap(h), Tiles(h, P), NEW b \in Blocks(h), NEW c \in Blocks(h),
         NEW x \in Nat, b + Header <= x, c + Header <= x, x < End(h, c),
         x < End(h, b) \/ x = b + Header
  PROVE  b = c
<1>1. /\ b \in Nat /\ c \in Nat /\ End(h, b) \in Nat /\ End(h, c) \in Nat
      /\ b + Header <= End(h, b) /\ Header \in Nat \ {0}
  BY BlockEnds, MemoryManagerAssumption
<1>2. (b < c => End(h, b) <= c) /\ (c < b => End(h, c) <= b)
  BY DEF Tiles
<1>3. ~ (c < b)
  BY <1>1, <1>2
<1>4. ~ (b < c)
  BY <1>1, <1>2
<1>5. QED
  BY <1>1, <1>3, <1>4

\* The header that is found for an area is that of its block.
LEMMA HeaderFound ==
  ASSUME MemoryIInv, ~overrun, NEW u \in users, NEW b \in HeaderOf(u.ptr), b \in InUse(heap)
  PROVE  b = u.block /\ (tracking \/ u.ptr = b + Header)
<1>1. /\ IsHeap(heap) /\ Tiles(heap, PoolSet(pools))
      /\ \A v \in users : /\ v.block \in InUse(heap) /\ v.block \in Nat /\ v.ptr \in Nat
                          /\ v.size \in Nat \ {0}
                          /\ v.block + Header <= v.ptr
                          /\ v.ptr + v.size <= End(heap, v.block)
      /\ Header \in Nat \ {0}
  BY MemoryManagerAssumption DEF MemoryIInv, HeapInv, AreasInBlocks, TrackedInv, InUse
<1>2. b \in Blocks(heap) /\ b \in Nat
  BY <1>1 DEF InUse, IsHeap
<1>3. ASSUME NEW v \in users
      PROVE  v.block \in Blocks(heap) /\ v.ptr < End(heap, v.block)
  <2>1. v.block \in Blocks(heap)
    BY <1>1 DEF InUse
  <2>2. End(heap, v.block) \in Nat
    BY <1>1, <2>1, BlockEnds
  <2>3. QED
    BY <1>1, <2>1, <2>2
<1>4. CASE tracking
  <2>1. PICK t \in tracked : t.ptr = u.ptr /\ b = t.block
    BY <1>4 DEF HeaderOf
  <2>2. CASE t.ptr = t.block + Header
    <3>1. u.ptr = b + Header /\ b + Header <= u.ptr
      BY <1>1, <1>2, <2>1, <2>2
    <3>2. b = u.block
      BY <1>1, <1>2, <1>3, <3>1, SameBlock
    <3>3. QED
      BY <1>4, <3>2
  <2>3. CASE t.ptr # t.block + Header
    <3>1. b + Header <= u.ptr /\ u.ptr < End(heap, b)
      BY <2>1, <2>3 DEF MemoryIInv, TrackedInv
    <3>2. b = u.block
      BY <1>1, <1>2, <1>3, <3>1, SameBlock
    <3>3. QED
      BY <1>4, <3>2
  <2>4. QED
    BY <2>2, <2>3
<1>5. CASE ~tracking
  <2>1. b = u.ptr - Header
    BY <1>5 DEF HeaderOf
  <2>2. u.ptr = b + Header /\ b + Header <= u.ptr
    BY <1>1, <1>2, <2>1
  <2>3. b = u.block
    BY <1>1, <1>2, <1>3, <2>2, SameBlock
  <2>4. QED
    BY <2>2, <2>3
<1>6. QED
  BY <1>4, <1>5

LEMMA DeallocateStep ==
  ASSUME MemoryIInv, NEW u \in users, Deallocate(u)
  PROVE  MemoryIInv'
<1>1. /\ Rest /\ IsHeap(heap) /\ Tiles(heap, PoolSet(pools)) /\ ListExact(heap)
      /\ settings.enable_defragmentation => NoTwoFree(heap)
      /\ ~initialized => pools = <<>>
  BY RestOf DEF MemoryIInv, HeapInv
<1>2. /\ users' = users \ {u}
      /\ UNCHANGED <<settings, initialized, pools, tracking, limit, used, stuck, overrun>>
  BY DEF Deallocate
<1>3. Rest'
  BY <1>1, <1>2 DEF Rest
<1>4. CASE ~ \E b \in HeaderOf(u.ptr) : b \in Blocks(heap) \ FreeBlocks(heap)
  <2>1. UNCHANGED <<heap, tracked>>
    BY <1>4 DEF Deallocate
  <2>2. AreasInBlocks'
    BY <1>2, <2>1 DEF MemoryIInv, AreasInBlocks
  <2>3. TrackedInv'
    BY <1>2, <2>1 DEF MemoryIInv, TrackedInv
  <2>4. QED
    BY <1>1, <1>2, <1>3, <2>1, <2>2, <2>3, HeapMoved
<1>5. CASE \E b \in HeaderOf(u.ptr) : b \in Blocks(heap) \ FreeBlocks(heap)
  <2> DEFINE b == CHOOSE x \in HeaderOf(u.ptr) : TRUE
  <2>1. /\ heap' = Released(heap, b)
        /\ tracked' = IF tracking THEN {t \in tracked : t.ptr # u.ptr} ELSE tracked
    BY <1>5 DEF Deallocate
  <2>2. \A x, y \in HeaderOf(u.ptr) : x = y
    <3>1. \A s, t \in tracked : s.ptr = t.ptr => s = t
      BY DEF MemoryIInv, TrackedInv
    <3>2. QED
      BY <3>1 DEF HeaderOf
  <2>3. b \in HeaderOf(u.ptr)
    BY <1>5
  <2> HIDE DEF b
  <2>4. b \in InUse(heap)
    BY <1>5, <2>2, <2>3 DEF InUse
  <2>5. /\ IsHeap(heap') /\ ListExact(heap') /\ Tiles(heap', PoolSet(pools))
        /\ settings.enable_defragmentation => NoTwoFree(heap')
        /\ InUse(heap') = InUse(heap) \ {b}
        /\ \A c \in InUse(heap) \ {b} : End(heap', c) = End(heap, c)
    <3>1. Apart(PoolSet(pools))
      BY <1>1, PoolsApart DEF Rest
    <3>2. QED
      BY <1>1, <2>1, <2>4, <3>1, ReleasedHeap DEF InUse
  <2>6. ASSUME ~overrun
        PROVE  /\ b = u.block /\ (tracking \/ u.ptr = b + Header)
               /\ \A v \in users' : v.block \in InUse(heap) \ {b}
    <3>1. b = u.block /\ (tracking \/ u.ptr = b + Header)
      BY <2>3, <2>4, <2>6, HeaderFound
    <3>2. \A v \in users : v.block \in InUse(heap) /\ (v.block = u.block => v = u)
      BY <2>6 DEF MemoryIInv, AreasInBlocks, InUse
    <3>3. QED
      BY <1>2, <3>1, <3>2
  <2>7. AreasInBlocks'
    <3>1. SUFFICES ASSUME ~overrun, NEW v \in users'
                   PROVE  /\ v.block \in InUse(heap')
                          /\ v.block + Header <= v.ptr /\ v.ptr + v.size <= End(heap', v.block)
                          /\ \A w \in users' : w.block = v.block => w = v
      BY <1>2 DEF AreasInBlocks, InUse
    <3>2. /\ v.block + Header <= v.ptr /\ v.ptr + v.size <= End(heap, v.block)
          /\ \A w \in users : w.block = v.block => w = v
      BY <1>2, <3>1 DEF MemoryIInv, AreasInBlocks
    <3>3. QED
      BY <1>2, <2>5, <2>6, <3>1, <3>2
  <2>8. TrackedInv'
    <3>1. /\ users' \subseteq [ptr : Nat, block : Nat, size : Sizes]
          /\ tracked' \subseteq [ptr : Nat, block : Nat]
          /\ \A s, t \in tracked' : s.ptr = t.ptr => s = t
      BY <1>2, <2>1 DEF MemoryIInv, TrackedInv
    <3>2. ASSUME ~overrun, NEW t \in tracked', t.ptr # t.block + Header
          PROVE  /\ t.block \in InUse(heap')
                 /\ t.block + Header <= t.ptr /\ t.ptr < End(heap', t.block)
                 /\ \A v \in users' : v.block = t.block => v.ptr = t.ptr
      <4>1. t \in tracked /\ (tracking => t.ptr # u.ptr)
        BY <2>1
      <4>2. /\ t.block \in InUse(heap)
            /\ t.block + Header <= t.ptr /\ t.ptr < End(heap, t.block)
            /\ \A v \in users : v.block = t.block => v.ptr = t.ptr
        BY <3>2, <4>1 DEF MemoryIInv, TrackedInv
      <4>3. t.block # b
        BY <2>6, <3>2, <4>1, <4>2
      <4>4. QED
        BY <1>2, <2>5, <4>2, <4>3
    <3>3. QED
      BY <1>2, <3>1, <3>2 DEF TrackedInv
  <2>9. QED
    BY <1>1, <1>2, <1>3, <2>5, <2>7, <2>8, HeapMoved
<1>6. QED
  BY <1>4, <1>5

LEMMA DefragmentStep ==
  ASSUME MemoryIInv, Defragment
  PROVE  MemoryIInv'
<1>1. /\ Rest /\ IsHeap(heap) /\ Tiles(heap, PoolSet(pools)) /\ ListExact(heap)
      /\ ~initialized => pools = <<>>
  BY RestOf DEF MemoryIInv, HeapInv
<1>2. /\ heap' = Merged(heap)
      /\ UNCHANGED <<settings, initialized, pools, tracked, tracking, limit, used, stuck, users,
                     overrun>>
  BY DEF Defragment
<1>3. Apart(PoolSet(pools))
  BY <1>1, PoolsApart DEF Rest
<1>4. /\ IsHeap(heap') /\ Tiles(heap', PoolSet(pools)) /\ ListExact(heap')
      /\ NoTwoFree(heap') /\ SameInUse(heap, heap')
  BY <1>1, <1>2, <1>3, MergedHeap
<1>5. InUse(heap') = InUse(heap) /\ \A c \in InUse(heap) : End(heap', c) = End(heap, c)
  BY <1>4 DEF SameInUse, InUse, End
<1>6. AreasInBlocks' /\ TrackedInv'
  BY <1>2, <1>5, SameAreas
<1>7. Rest'
  BY <1>1, <1>2 DEF Rest
<1>8. QED
  BY <1>1, <1>2, <1>4, <1>6, <1>7, HeapMoved

LEMMA ResetStep ==
  ASSUME MemoryIInv, ResetManager
  PROVE  MemoryIInv'
<1>1. /\ pools' = <<>> /\ heap' = EmptyHeap /\ tracked' = {} /\ users' = {}
      /\ initialized' = FALSE /\ used' = 0 /\ overrun' = FALSE
      /\ UNCHANGED <<settings, tracking, limit, stuck>>
  BY DEF ResetManager
<1>2. /\ Blocks(heap') = {} /\ FreeBlocks(heap') = {} /\ heap'.free = <<>> /\ heap'.block = <<>>
      /\ heap' = [block |-> heap'.block, free |-> heap'.free]
  BY <1>1 DEF EmptyHeap, Blocks, FreeBlocks
<1>3. IsHeap(heap')
  <2>1. heap'.block \in [Blocks(heap') -> [size : Nat, is_free : BOOLEAN]]
    BY <1>2
  <2>2. heap'.free \in Seq(Blocks(heap')) /\ Blocks(heap') \subseteq Nat
    BY <1>2
  <2>3. IsFiniteSet(Blocks(heap'))
    BY <1>2, FS_EmptySet
  <2>4. QED
    BY <1>2, <2>1, <2>2, <2>3 DEF IsHeap
<1>4. Tiles(heap', PoolSet(pools'))
  <2>1. PoolSet(pools') = {}
    BY <1>1 DEF PoolSet
  <2>2. QED
    BY <1>2, <2>1 DEF Tiles
<1>5. ListExact(heap') /\ NoTwoFree(heap')
  BY <1>2 DEF ListExact, NoTwoFree, IsInjective, ToSet
<1>6. AreasInBlocks' /\ TrackedInv'
  BY <1>1 DEF AreasInBlocks, TrackedInv
<1>7. Rest'
  <2>1. Rest /\ pools' \in Seq(1 .. Stride - 1) /\ used' \in 0 .. MaxUsed
    BY <1>1, RestOf, MemoryManagerAssumption DEF MemoryIInv
  <2>2. QED
    BY <1>1, <2>1 DEF Rest
<1>8. QED
  BY <1>1, <1>3, <1>4, <1>5, <1>6, <1>7, HeapMoved

LEMMA Step == MemoryIInv /\ [MemoryNext]_memoryVars => MemoryIInv'
<1> SUFFICES ASSUME MemoryIInv, [MemoryNext]_memoryVars PROVE MemoryIInv'
  OBVIOUS
<1>1. Rest /\ (settings.enable_defragmentation => NoTwoFree(heap))
      /\ (~initialized => pools = <<>>)
  BY RestOf DEF MemoryIInv, HeapInv
<1>2. ASSUME NEW f \in MemoryConfigs, Configure(f) PROVE MemoryIInv'
  BY <1>2, ConfigureStep
<1>3. CASE Initialize
  BY <1>3, InitializeStep
<1>4. CASE AllocateFirst
  <2>1. Rest'
    BY <1>1, <1>4 DEF AllocateFirst, Rest
  <2>2. QED
    BY <1>1, <1>4, <2>1, NothingMoved DEF AllocateFirst
<1>5. ASSUME NEW size \in Sizes, NEW alignment \in Alignments, AllocateFits(size, alignment)
      PROVE  MemoryIInv'
  BY <1>5, AllocateFitsStep
<1>6. ASSUME NEW size \in Sizes, NEW alignment \in Alignments, AllocateExpands(size, alignment)
      PROVE  MemoryIInv'
  BY <1>6, AllocateExpandsStep
<1>7. ASSUME NEW size \in Sizes, NEW alignment \in Alignments, AllocateFails(size, alignment)
      PROVE  MemoryIInv'
  BY <1>7, AllocateFailsStep
<1>8. ASSUME NEW u \in users, Deallocate(u) PROVE MemoryIInv'
  BY <1>8, DeallocateStep
<1>9. CASE Defragment
  BY <1>9, DefragmentStep
<1>10. CASE ResetManager
  BY <1>10, ResetStep
<1>11. ASSUME NEW n \in Limits, SetMemoryLimit(n) PROVE MemoryIInv'
  <2>1. Rest'
    BY <1>1, <1>11 DEF SetMemoryLimit, Rest
  <2>2. QED
    BY <1>1, <1>11, <2>1, NothingMoved DEF SetMemoryLimit
<1>12. ASSUME NEW on \in BOOLEAN, SetDetailedTracking(on) PROVE MemoryIInv'
  <2>1. Rest'
    BY <1>1, <1>12 DEF SetDetailedTracking, Rest
  <2>2. QED
    BY <1>1, <1>12, <2>1, NothingMoved DEF SetDetailedTracking
<1>13. CASE UNCHANGED memoryVars
  <2>1. Rest'
    BY <1>1, <1>13 DEF memoryVars, Rest
  <2>2. QED
    BY <1>1, <1>13, <2>1, NothingMoved DEF memoryVars
<1>14. QED
  BY <1>2, <1>3, <1>4, <1>5, <1>6, <1>7, <1>8, <1>9, <1>10, <1>11, <1>12, <1>13
     DEF MemoryNext

-----------------------------------------------------------------------------

LEMMA Always == MemorySpec => []MemoryIInv
BY Initially, Step, PTL DEF MemorySpec

LEMMA InvNothingOverlaps == MemoryIInv => NothingOverlaps
<1> SUFFICES ASSUME MemoryIInv PROVE NothingOverlaps
  OBVIOUS
<1>1. Tiles(heap, PoolSet(pools)) /\ AreasInBlocks
  BY DEF MemoryIInv, HeapInv
<1>2. \A b, c \in Blocks(heap) : b < c => End(heap, b) <= c
  BY <1>1 DEF Tiles
<1>3. PoolSet(pools) = {<<Base(i), PoolEnd(i)>> : i \in DOMAIN pools}
  BY DEF PoolSet, PoolEnd
<1> DEFINE P == PoolSet(pools)
           ends == {End(heap, b) : b \in Blocks(heap)}
           bases == {Base(i) : i \in DOMAIN pools}
           tops == {PoolEnd(i) : i \in DOMAIN pools}
<1>4. /\ \A i \in DOMAIN pools : \E p \in P : p[1] = Base(i) /\ p[2] = PoolEnd(i)
      /\ \A p \in P : p[1] \in bases /\ p[2] \in tops
  <2>1. ASSUME NEW i \in DOMAIN pools
        PROVE  \E p \in P : p[1] = Base(i) /\ p[2] = PoolEnd(i)
    <3> DEFINE p == <<Base(i), PoolEnd(i)>>
    <3>1. p \in P
      BY <1>3
    <3>2. p[1] = Base(i) /\ p[2] = PoolEnd(i)
      OBVIOUS
    <3> HIDE DEF p, P
    <3>3. QED
      BY <3>1, <3>2
  <2>2. ASSUME NEW p \in P PROVE p[1] \in bases /\ p[2] \in tops
    <3>1. PICK i \in DOMAIN pools : p = <<Base(i), PoolEnd(i)>>
      BY <1>3
    <3>2. p[1] = Base(i) /\ p[2] = PoolEnd(i)
      BY <3>1
    <3>3. QED
      BY <3>2
  <2>3. QED
    BY <2>1, <2>2
<1>5. ends \cup bases \subseteq Blocks(heap) \cup tops
  <2>1. \A b \in Blocks(heap) : End(heap, b) \in Blocks(heap) \cup tops
    BY <1>1, <1>4 DEF Tiles
  <2>2. \A i \in DOMAIN pools : Base(i) \in Blocks(heap)
    BY <1>1, <1>4 DEF Tiles
  <2>3. QED
    BY <2>1, <2>2
<1>6. Blocks(heap) \cup tops \subseteq ends \cup bases
  <2>1. \A b \in Blocks(heap) : b \in ends \cup bases
    BY <1>1, <1>4 DEF Tiles
  <2>2. \A i \in DOMAIN pools : PoolEnd(i) \in ends
    BY <1>1, <1>4 DEF Tiles
  <2>3. QED
    BY <2>1, <2>2
<1>7. ends \cup bases = Blocks(heap) \cup tops
  BY <1>5, <1>6
<1>8. BlocksTile
  BY <1>2, <1>7 DEF BlocksTile, bases, tops
<1>9. QED
  BY <1>1, <1>8 DEF NothingOverlaps

\* The areas that allocate hands out never overlap one another nor a header, and
\* the blocks always fill the pools, whatever is asked for, aligned, freed,
\* merged or tracked.
THEOREM NothingEverOverlaps == MemorySpec => []NothingOverlaps
BY Always, InvNothingOverlaps, PTL

LEMMA InvFreeListExact == MemoryIInv => FreeListExact
BY DEF MemoryIInv, HeapInv, ListExact, NoTwoFree, FreeListExact

\* The free list has every free block once and no other, and two free blocks are
\* never next to one another where blocks are merged.
THEOREM FreeListAlwaysExact == MemorySpec => []FreeListExact
BY Always, InvFreeListExact, PTL

-----------------------------------------------------------------------------
(* The rate limiter.                                                       *)

USE DEF observer, vars

\* RateAssumption, and None is not a bucket.
Assumed == RateAssumption /\ None \notin [tokens : Nat, last : Nat]

-----------------------------------------------------------------------------
(* Arithmetic.                                                             *)

LEMMA ProductNat == \A r, t \in Nat : r * t \in Nat
OBVIOUS

LEMMA ProductSum == \A r, s, t \in Int : r * s + r * t = r * (s + t)
OBVIOUS

LEMMA ProductCommutes == \A s, t \in Int : s * t = t * s
OBVIOUS

LEMMA QuotientNat == \A s, t \in Nat : t # 0 => s \div t \in Nat
OBVIOUS

-----------------------------------------------------------------------------
(* What a refill makes of a bucket.                                        *)

LEMMA CapacityNat ==
  ASSUME Assumed, NEW k \in Buckets
  PROVE  Capacity(k) \in Nat /\ Rate[k] \in Nat
BY DEF Assumed, RateAssumption, Buckets, Capacity, Greatest

LEMMA RefilledType ==
  ASSUME Assumed, TypeOK, NEW k \in Buckets, bucket[k] # None
  PROVE  /\ Refilled(k) \in Bucket(k) /\ Refilled(k).last = now
         /\ Refilled(k).tokens <= bucket[k].tokens + Rate[k] * (now - bucket[k].last)
<1> DEFINE elapsed == now - bucket[k].last
<1>1. bucket[k] \in Bucket(k) /\ now \in Nat
  BY DEF TypeOK
<1>2. /\ bucket[k].tokens \in 0 .. Capacity(k) /\ bucket[k].last \in 0 .. now
      /\ elapsed \in Nat
  BY <1>1, CapacityNat DEF Bucket
<1> HIDE DEF elapsed
<1>3. elapsed * Rate[k] \in Nat /\ elapsed * Rate[k] = Rate[k] * elapsed
  <2>1. Rate[k] \in Nat
    BY CapacityNat
  <2>2. elapsed \in Int /\ Rate[k] \in Int
    BY <1>2, <2>1
  <2>3. QED
    BY <1>2, <2>1, <2>2, ProductNat, ProductCommutes, Zenon
<1>4. Refilled(k) = [tokens |-> Least(Capacity(k), bucket[k].tokens + elapsed * Rate[k]),
                     last |-> now]
  BY DEF Refilled, elapsed
<1>5. /\ Least(Capacity(k), bucket[k].tokens + elapsed * Rate[k]) \in 0 .. Capacity(k)
      /\ Least(Capacity(k), bucket[k].tokens + elapsed * Rate[k])
           <= bucket[k].tokens + elapsed * Rate[k]
  BY <1>2, <1>3, CapacityNat DEF Least
<1>6. QED
  BY <1>1, <1>3, <1>4, <1>5 DEF Bucket, elapsed

-----------------------------------------------------------------------------
(* The inductive invariant.                                                *)

Bound == granted <= Capacity(watched) + Rate[watched] * (now - since)

\* What the bucket has given since the window was opened and what it has left
\* came from its burst and from the refills so far; a bucket that has not been
\* refilled since then has given nothing.
Balance ==
  bucket[watched] # None =>
    LET b == bucket[watched] IN
    /\ b.last < since => granted = 0
    /\ since <= b.last => granted + b.tokens <= Capacity(watched) + Rate[watched] * (b.last - since)

RateIInv == TypeOK /\ DOMAIN bucket = Buckets /\ Bound /\ Balance

\* A refill, and a request taken from it.
LEMMA TakenStep ==
  ASSUME Assumed, RateIInv, bucket[watched] # None,
         NEW parts \in 0 .. Refilled(watched).tokens,
         granted' = granted + parts, bucket'[watched] = Less(Refilled(watched), parts),
         UNCHANGED <<now, watched, since>>
  PROVE  Bound' /\ Balance'
<1> DEFINE b == bucket[watched]
           r == Rate[watched]
           full == Refilled(watched)
           allowed == Capacity(watched) + r * (now - since)
<1>1. /\ watched \in Buckets /\ now \in Nat /\ since \in 0 .. now /\ granted \in Nat
      /\ b.last \in 0 .. now /\ b.tokens \in Nat
  <2>1. b \in Bucket(watched) /\ watched \in Buckets
    BY DEF RateIInv, TypeOK
  <2>2. QED
    BY <2>1, CapacityNat DEF RateIInv, TypeOK, Bucket
<1>2. /\ r \in Nat /\ Capacity(watched) \in Nat
      /\ full.tokens \in 0 .. Capacity(watched) /\ full.last = now
      /\ full.tokens <= b.tokens + r * (now - b.last)
      /\ full \in [tokens : Nat, last : Nat]
  BY <1>1, CapacityNat, RefilledType DEF RateIInv, Bucket
<1>3. r * (now - since) \in Nat /\ r * (now - b.last) \in Nat
  BY <1>1, <1>2, ProductNat
<1>4. granted + full.tokens <= allowed
  <2>1. CASE b.last < since
    BY <1>1, <1>2, <1>3, <2>1 DEF RateIInv, Balance
  <2>2. CASE since <= b.last
    <3>1. granted + b.tokens <= Capacity(watched) + r * (b.last - since)
      BY <2>2 DEF RateIInv, Balance
    <3>2. r * (b.last - since) + r * (now - b.last) = r * (now - since)
      BY <1>1, <1>2, ProductSum
    <3>3. r * (b.last - since) \in Int
      BY <1>1, <1>2, ProductSum
    <3> HIDE DEF b, r, full
    <3>4. QED
      BY <1>1, <1>2, <1>3, <3>1, <3>2, <3>3
  <2>3. QED
    BY <1>1, <2>1, <2>2
<1>5. /\ bucket'[watched].tokens = full.tokens - parts /\ bucket'[watched].last = now
      /\ parts \in 0 .. full.tokens
  BY <1>2 DEF Less
<1>6. /\ UNCHANGED <<Capacity(watched), allowed>>
      /\ watched' = watched /\ since' = since /\ now' = now
  BY DEF Capacity
<1>7. Bound'
  <2>1. granted' <= allowed
    BY <1>1, <1>2, <1>3, <1>4, <1>5
  <2>2. QED
    BY <1>6, <2>1 DEF Bound
<1>8. Balance'
  <2>1. granted' + bucket'[watched].tokens <= allowed
    BY <1>1, <1>2, <1>3, <1>4, <1>5
  <2>2. ~(bucket'[watched].last < since)
    BY <1>1, <1>5
  <2>3. QED
    BY <1>5, <1>6, <2>1, <2>2 DEF Balance
<1>9. QED
  BY <1>7, <1>8

-----------------------------------------------------------------------------
(* Types.                                                                  *)

Backoffs == [delay : Nat, failed : 0 .. now, streak : 0 .. MaxStreak]

LEMMA WaitNat ==
  ASSUME Assumed, TypeOK, NEW d \in Domains, NEW n \in Asks, bucket[d] # None
  PROVE  WaitTime(d, n) \in Nat /\ n * Token \in Nat
<1>1. d \in Buckets /\ n \in Nat /\ Token \in Nat /\ Rate[d] \in Nat \ {0}
  BY DEF Assumed, RateAssumption, Buckets
<1>2. n * Token \in Nat /\ Refilled(d).tokens \in Nat
  BY <1>1, ProductNat, RefilledType, CapacityNat DEF Bucket
<1>3. backoff[d].delay \in Nat
  BY DEF TypeOK
<1> DEFINE needed == n * Token - Refilled(d).tokens
<1>4. CASE needed <= 0
  BY <1>2, <1>4 DEF WaitTime
<1>5. CASE ~(needed <= 0)
  <2>1. needed \div Rate[d] \in Nat
    BY <1>1, <1>2, <1>5, QuotientNat
  <2>2. QED
    BY <1>2, <1>3, <1>5, <2>1 DEF WaitTime, Greatest
<1>6. QED
  BY <1>4, <1>5

\* One bucket gives so many of its parts.
LEMMA LessType ==
  ASSUME Assumed, TypeOK, NEW k \in Buckets, bucket[k] # None,
         NEW parts \in 0 .. Refilled(k).tokens
  PROVE  Less(Refilled(k), parts) \in Bucket(k)
<1>1. Refilled(k) \in Bucket(k)
  BY RefilledType
<1>2. QED
  BY <1>1, CapacityNat DEF Less, Bucket

\* What a request takes from the buckets it concerns.
Taken(d, n) == IF Grants(d, n) THEN n * Token ELSE 0

LEMMA TakenType ==
  ASSUME Assumed, TypeOK, NEW d \in Domains, NEW n \in Asks, bucket[d] # None,
         NEW k \in Concerned(d)
  PROVE  k \in Buckets /\ bucket[k] # None /\ Taken(d, n) \in 0 .. Refilled(k).tokens
<1>1. k \in Buckets /\ bucket[k] # None
  BY DEF Concerned, Buckets
<1>2. n * Token \in Nat /\ Refilled(k).tokens \in Nat
  BY <1>1, WaitNat, RefilledType, CapacityNat DEF Bucket
<1>3. Grants(d, n) => Refilled(k).tokens >= n * Token
  BY <1>1, <1>2 DEF Grants, GlobalDenies, Concerned
<1>4. QED
  BY <1>1, <1>2, <1>3 DEF Taken

LEMMA TypeStep ==
  ASSUME Assumed, TypeOK, [Next]_vars
  PROVE  TypeOK'
<1> USE DEF TypeOK
<1>1. ASSUME NEW c \in Clients, NEW k \in Buckets, Configures(c, k) PROVE TypeOK'
  <2>1. [tokens |-> Capacity(k), last |-> now] \in Bucket(k)
    BY CapacityNat DEF Bucket
  <2>2. granted' \in Nat /\ since' \in 0 .. now
    BY <1>1 DEF Configures
  <2>3. \A j \in Buckets : bucket'[j] \in Bucket(j) \cup {None}
    BY <1>1, <2>1 DEF Configures
  <2>4. QED
    BY <1>1, <2>2, <2>3 DEF Configures, Bucket, Capacity
<1>2. ASSUME NEW c \in Clients, NEW d \in Domains, NEW n \in Asks, TryAcquire(c, d, n)
      PROVE  TypeOK'
  <2>1. \A k \in Buckets : bucket'[k] \in Bucket(k) \cup {None}
    <3> SUFFICES ASSUME NEW k \in Buckets, k \in Concerned(d)
                 PROVE  bucket'[k] \in Bucket(k)
      BY <1>2 DEF TryAcquire
    <3>1. bucket'[k] = Less(Refilled(k), Taken(d, n))
      BY <1>2 DEF TryAcquire, Taken
    <3>2. QED
      BY <1>2, <3>1, TakenType, LessType DEF TryAcquire
  <2>2. backoff' \in [Domains -> Backoffs]
    BY <1>2 DEF TryAcquire, Decayed, Backoffs
  <2>3. granted' \in Nat
    BY <1>2, WaitNat DEF TryAcquire
  <2>4. QED
    BY <1>2, <2>1, <2>2, <2>3 DEF TryAcquire, Bucket, Capacity, Backoffs
<1>3. ASSUME NEW c \in Clients, NEW d \in Domains, NEW n \in Asks, WaitForToken(c, d, n)
      PROVE  TypeOK'
  <2>1. Refilled(d) \in Bucket(d) /\ WaitTime(d, n) \in Nat
    BY <1>3, RefilledType, WaitNat DEF WaitForToken, Buckets
  <2>2. \A k \in Buckets : bucket'[k] \in Bucket(k) \cup {None}
    BY <1>3, <2>1 DEF WaitForToken
  <2>3. asleep' \in [Clients -> Sleep \cup {None}]
    BY <1>3, <2>1 DEF WaitForToken, Sleep
  <2>4. QED
    BY <1>3, <2>2, <2>3 DEF WaitForToken, Bucket, Capacity
<1>4. ASSUME NEW c \in Clients, Wakes(c) \/ \E d \in Domains : TryAcquireHangs(c, d) PROVE TypeOK'
  BY <1>4 DEF Wakes, TryAcquireHangs, Bucket, Capacity
<1>5. ASSUME NEW c \in Clients, NEW d \in Domains, NEW f \in Configs, SetBackoffConfig(c, d, f)
      PROVE  TypeOK'
  BY <1>5 DEF SetBackoffConfig, Bucket, Capacity
<1>6. ASSUME NEW c \in Clients, NEW d \in Domains, NEW b \in Backoffs, Backs(c, d, b) PROVE TypeOK'
  BY <1>6 DEF Backs, Backoffs, Bucket, Capacity
<1>7. ASSUME NEW c \in Clients, NEW d \in Domains,
             ReportFailure(c, d) \/ ReportSuccess(c, d) \/ ResetBackoff(c, d)
      PROVE  TypeOK'
  <2>1. backoff[d] \in Backoffs /\ d \in Domains /\ config[d] \in Configs
    BY DEF Backoffs
  <2>2. CASE ReportFailure(c, d)
    <3>1. NextDelay(d) \in Nat
      <4>1. config[d] \in [initial : Nat, max : Nat, multiplier : Nat \ {0}]
        BY <2>1 DEF Assumed, RateAssumption
      <4>2. backoff[d].delay * config[d].multiplier \in Nat
        BY <2>1, <4>1, ProductNat DEF Backoffs
      <4>3. QED
        BY <4>1, <4>2 DEF NextDelay, Least
    <3>2. backoff[d].streak + 1 \in 0 .. MaxStreak /\ now \in 0 .. now
      BY <2>1, <2>2 DEF ReportFailure, Backoffs, Assumed, RateAssumption
    <3>3. [delay |-> NextDelay(d), failed |-> now, streak |-> backoff[d].streak + 1] \in Backoffs
      BY <3>1, <3>2 DEF Backoffs
    <3>4. QED
      BY <1>6, <2>2, <3>3 DEF ReportFailure
  <2>3. CASE ReportSuccess(c, d) \/ ResetBackoff(c, d)
    <3>1. Halved(d) \in Nat
      <4>1. backoff[d].delay \div 2 \in Nat
        BY <2>1, QuotientNat DEF Backoffs
      <4>2. QED
        BY <4>1 DEF Halved
    <3>2. 0 \in 0 .. MaxStreak
      BY DEF Assumed, RateAssumption
    <3>3. [backoff[d] EXCEPT !.delay = Halved(d), !.streak = 0] \in Backoffs
      BY <2>1, <3>1, <3>2 DEF Backoffs
    <3>4. [backoff[d] EXCEPT !.delay = 0, !.streak = 0] \in Backoffs
      BY <2>1, <3>2 DEF Backoffs
    <3>5. QED
      BY <1>6, <2>3, <3>3, <3>4 DEF ReportSuccess, ResetBackoff
  <2>4. QED
    BY <1>7, <2>2, <2>3
<1>8. ASSUME NEW c \in Clients, Reset(c) PROVE TypeOK'
  <2>1. NoBackoff \in Backoffs /\ DefaultConfig \in Configs
    BY DEF NoBackoff, Backoffs, Assumed, RateAssumption
  <2>2. QED
    BY <1>8, <2>1 DEF Reset, Backoffs
<1>9. CASE ObserverLooks
  BY <1>9 DEF ObserverLooks, Bucket, Capacity
<1>10. CASE TimePasses
  BY <1>10 DEF TimePasses, Bucket, Capacity, Assumed, RateAssumption
<1>11. CASE UNCHANGED vars
  BY <1>11 DEF Bucket, Capacity
<1>12. Failing \subseteq Domains
  BY DEF Assumed, RateAssumption
<1>13. ASSUME NEW c \in Clients, NEW d \in Domains, DomainStep(c, d) PROVE TypeOK'
  BY <1>1, <1>2, <1>3, <1>4, <1>13 DEF DomainStep, SetBucketConfig, Buckets
<1>14. ASSUME NEW c \in Clients, NEW d \in Failing, AnswerStep(c, d) PROVE TypeOK'
  BY <1>5, <1>7, <1>12, <1>14 DEF AnswerStep
<1>15. QED
  BY <1>1, <1>4, <1>8, <1>9, <1>10, <1>11, <1>13, <1>14 DEF Next, SetGlobalRateLimit, Buckets

-----------------------------------------------------------------------------
(* The account.                                                            *)

\* A step that leaves the watched bucket and its window alone.
LEMMA ElsewhereStep ==
  ASSUME RateIInv, UNCHANGED <<now, watched, since, granted>>,
         bucket'[watched] \in {bucket[watched], None}
  PROVE  Bound' /\ Balance'
BY DEF RateIInv, Bound, Balance, Capacity

LEMMA AccountStep ==
  ASSUME Assumed, RateIInv, [Next]_vars
  PROVE  DOMAIN bucket' = Buckets /\ Bound' /\ Balance'
<1> DEFINE r == Rate[watched]
           b == bucket[watched]
<1>1. /\ watched \in Buckets /\ now \in Nat /\ since \in 0 .. now /\ granted \in Nat
      /\ Capacity(watched) \in Nat /\ r \in Nat
  BY CapacityNat DEF RateIInv, TypeOK
<1>2. b # None => /\ b.last \in 0 .. now /\ b.tokens \in 0 .. Capacity(watched)
                  /\ Refilled(watched).tokens \in 0 .. Capacity(watched)
                  /\ Refilled(watched) = Less(Refilled(watched), 0)
  <2>1. b # None => b \in Bucket(watched) /\ Refilled(watched) \in Bucket(watched)
    BY <1>1, RefilledType DEF RateIInv, TypeOK
  <2>2. QED
    BY <1>1, <2>1 DEF Bucket, Less
<1>3. r * 0 = 0 /\ r * (now - since) \in Nat /\ r * (now - since) + r * 1 = r * (now + 1 - since)
  <2>1. (now - since) + 1 = now + 1 - since
    BY <1>1
  <2>2. QED
    BY <1>1, <2>1, ProductNat, ProductSum
<1>4. ASSUME NEW c \in Clients, NEW k \in Buckets, Configures(c, k)
      PROVE  DOMAIN bucket' = Buckets /\ Bound' /\ Balance'
  <2>1. DOMAIN bucket' = Buckets /\ UNCHANGED <<now, watched, Capacity(watched)>>
    BY <1>4 DEF Configures, RateIInv, Capacity
  <2>2. CASE k = watched
    <3>1. /\ bucket'[watched].tokens = Capacity(watched) /\ bucket'[watched].last = now
          /\ granted' = 0 /\ since' = now /\ now - now = 0
      BY <1>1, <1>4, <2>2 DEF Configures, RateIInv
    <3>2. QED
      BY <1>1, <1>3, <2>1, <3>1 DEF Bound, Balance
  <2>3. CASE k # watched
    BY <1>4, <2>1, <2>3, ElsewhereStep DEF Configures
  <2>4. QED
    BY <2>1, <2>2, <2>3
<1>5. ASSUME NEW c \in Clients, NEW d \in Domains, NEW n \in Asks, TryAcquire(c, d, n)
      PROVE  DOMAIN bucket' = Buckets /\ Bound' /\ Balance'
  <2>1. DOMAIN bucket' = Buckets /\ UNCHANGED <<now, watched, since>> /\ bucket[d] # None
    BY <1>5 DEF TryAcquire
  <2>2. CASE watched \in Concerned(d)
    <3>1. Taken(d, n) \in 0 .. Refilled(watched).tokens /\ b # None
      BY <2>1, <2>2, TakenType DEF RateIInv
    <3>2. bucket'[watched] = Less(Refilled(watched), Taken(d, n))
      BY <1>1, <1>5, <2>2 DEF TryAcquire, Taken
    <3>3. granted' = granted + Taken(d, n)
      BY <1>1, <1>5, <2>2 DEF TryAcquire, Taken
    <3>4. QED
      BY <2>1, <3>1, <3>2, <3>3, TakenStep
  <2>3. CASE watched \notin Concerned(d)
    <3>1. bucket'[watched] = b /\ granted' = granted
      BY <1>1, <1>5, <2>3 DEF TryAcquire
    <3>2. QED
      BY <2>1, <3>1, ElsewhereStep
  <2>4. QED
    BY <2>1, <2>2, <2>3
<1>6. ASSUME NEW c \in Clients, NEW d \in Domains, NEW n \in Asks, WaitForToken(c, d, n)
      PROVE  DOMAIN bucket' = Buckets /\ Bound' /\ Balance'
  <2>1. /\ DOMAIN bucket' = Buckets /\ UNCHANGED <<now, watched, since, granted>>
        /\ bucket' = [bucket EXCEPT ![d] = Refilled(d)] /\ bucket[d] # None
    BY <1>6 DEF WaitForToken, RateIInv
  <2>2. CASE d = watched
    <3>1. bucket'[watched] = Less(Refilled(watched), 0) /\ granted' = granted + 0
      BY <1>1, <1>2, <2>1, <2>2 DEF RateIInv
    <3>2. QED
      BY <1>2, <2>1, <2>2, <3>1, TakenStep
  <2>3. CASE d # watched
    BY <2>1, <2>3, ElsewhereStep
  <2>4. QED
    BY <2>1, <2>2, <2>3
<1>7. ASSUME NEW c \in Clients, Reset(c)
      PROVE  DOMAIN bucket' = Buckets /\ Bound' /\ Balance'
  BY <1>1, <1>7, ElsewhereStep DEF Reset
<1>8. CASE ObserverLooks
  <2>1. /\ UNCHANGED <<now, watched, bucket, Capacity(watched)>>
        /\ granted' = 0 /\ since' = now /\ now - now = 0
    BY <1>1, <1>8 DEF ObserverLooks, Capacity
  <2>2. Bound'
    BY <1>1, <1>3, <2>1 DEF Bound
  <2>3. Balance'
    BY <1>1, <1>2, <1>3, <2>1 DEF Balance
  <2>4. QED
    BY <2>1, <2>2, <2>3 DEF RateIInv
<1>9. CASE TimePasses
  <2>1. /\ UNCHANGED <<watched, since, granted, bucket, Capacity(watched)>> /\ now' = now + 1
    BY <1>9 DEF TimePasses, Capacity
  <2>2. Bound'
    BY <1>1, <1>3, <2>1 DEF RateIInv, Bound
  <2>3. Balance'
    BY <2>1 DEF RateIInv, Balance
  <2>4. QED
    BY <2>1, <2>2, <2>3 DEF RateIInv
<1>10. ASSUME UNCHANGED <<now, bucket, watched, granted, since>>
       PROVE  DOMAIN bucket' = Buckets /\ Bound' /\ Balance'
  BY <1>10, ElsewhereStep DEF RateIInv
<1>11. ASSUME NEW c \in Clients, NEW d \in Domains,
              TryAcquireHangs(c, d) \/ AnswerStep(c, d)
       PROVE  UNCHANGED <<now, bucket, watched, granted, since>>
  BY <1>11 DEF TryAcquireHangs, AnswerStep, SetBackoffConfig, ReportFailure, ReportSuccess,
     ResetBackoff, Backs
<1>12. Failing \subseteq Domains
  BY DEF Assumed, RateAssumption
<1>13. ASSUME NEW c \in Clients, Wakes(c)
       PROVE  UNCHANGED <<now, bucket, watched, granted, since>>
  BY <1>13 DEF Wakes
<1>14. QED
  BY <1>4, <1>5, <1>6, <1>7, <1>8, <1>9, <1>10, <1>11, <1>12, <1>13
     DEF Next, DomainStep, SetBucketConfig, SetGlobalRateLimit, Buckets

-----------------------------------------------------------------------------

LEMMA IInvInit ==
  ASSUME Assumed
  PROVE  Init => RateIInv
<1> SUFFICES ASSUME Init PROVE RateIInv
  OBVIOUS
<1>1. TypeOK
  <2>1. DefaultConfig \in Configs /\ MaxTime \in Nat /\ MaxStreak \in Nat
    BY DEF Assumed, RateAssumption
  <2>2. backoff \in [Domains -> Backoffs]
    BY <2>1 DEF Init, NoBackoff, Backoffs
  <2>3. QED
    BY <2>1, <2>2 DEF Init, TypeOK, Backoffs
<1>2. watched \in Buckets /\ Rate[watched] * 0 = 0 /\ Capacity(watched) \in Nat
  BY CapacityNat DEF Init
<1>3. DOMAIN bucket = Buckets /\ Bound /\ Balance
  BY <1>2 DEF Init, Bound, Balance
<1>4. QED
  BY <1>1, <1>3 DEF RateIInv

\* Whatever the clients ask for, report and configure: in every window of time
\* in which it is not configured again a bucket gives at most its burst and
\* what its rate brings in that time, also the bucket all domains share.
THEOREM BucketsKeepTheirRate ==
  ASSUME Assumed
  PROVE  Spec => []WindowBound
<1>1. Init => RateIInv
  BY IInvInit
<1>2. RateIInv /\ [Next]_vars => RateIInv'
  BY TypeStep, AccountStep DEF RateIInv
<1>3. RateIInv => WindowBound
  BY DEF RateIInv, Bound, WindowBound
<1>4. QED
  BY <1>1, <1>2, <1>3, PTL DEF Spec
-----------------------------------------------------------------------------
(* Waits.                                                                  *)

LEMMA QuotientLargest == \A s \in Nat, t \in Nat \ {0} : s < t * (s \div t) + t
OBVIOUS

LEMMA ProductGrows == \A r, s, t \in Nat : s <= t => r * s <= r * t
OBVIOUS

\* No two clients: nobody takes what another one waits for.
Lone == \A c, d \in Clients : c = d

\* A client that sleeps for want of tokens does not sleep less than the time,
\* in whole milliseconds, that the missing ones take to come; counted from the
\* last refill of the bucket, which it made itself.
SleepsEnough ==
  \A c \in Clients : asleep[c] # None =>
    LET s == asleep[c]
        b == bucket[s.domain]
    IN  b # None =>
          \/ s.tokens * Token <= b.tokens
          \/ b.last + (s.tokens * Token - b.tokens) \div Rate[s.domain] <= s.until

\* What has come by the time the client wakes.
LEMMA EnoughHasCome ==
  ASSUME Assumed, TypeOK, SleepsEnough
  PROVE  WaitAlmostSuffices
<1> SUFFICES ASSUME NEW c \in Clients, asleep[c] # None, asleep[c].until <= now,
                    bucket[asleep[c].domain] # None,
                    asleep[c].tokens * Token <= Capacity(asleep[c].domain)
             PROVE  Refilled(asleep[c].domain).tokens
                      > asleep[c].tokens * Token - Rate[asleep[c].domain]
  BY DEF WaitAlmostSuffices
<1> DEFINE d == asleep[c].domain
           b == bucket[d]
           wanted == asleep[c].tokens * Token
           elapsed == now - b.last
           wait == (wanted - b.tokens) \div Rate[d]
<1>1. asleep[c] \in Sleep
  BY DEF TypeOK
<1>2. d \in Buckets /\ Rate[d] \in Nat \ {0} /\ asleep[c].tokens \in Nat /\ Token \in Nat
  BY <1>1 DEF Sleep, Assumed, RateAssumption, Buckets
<1>3. b \in Bucket(d) /\ now \in Nat /\ Capacity(d) \in Nat
  BY <1>2, CapacityNat DEF TypeOK
<1>4. /\ wanted \in Nat /\ wanted <= Capacity(d)
      /\ b.tokens \in 0 .. Capacity(d) /\ b.last \in 0 .. now /\ elapsed \in Nat
      /\ asleep[c].until \in Nat /\ asleep[c].until <= now
  BY <1>1, <1>2, <1>3, ProductNat DEF Bucket, Sleep
<1>5. Refilled(d).tokens = Least(Capacity(d), b.tokens + elapsed * Rate[d])
  BY DEF Refilled
<1>6. elapsed * Rate[d] \in Nat /\ elapsed * Rate[d] = Rate[d] * elapsed
  BY <1>2, <1>4, ProductNat, ProductCommutes
<1>7. wanted <= b.tokens \/ b.last + wait <= asleep[c].until
  BY DEF SleepsEnough
<1> HIDE DEF d, b, wanted, elapsed
<1>8. CASE wanted <= b.tokens
  BY <1>2, <1>3, <1>4, <1>5, <1>6, <1>8 DEF Least, d, wanted
<1>9. CASE ~(wanted <= b.tokens)
  <2>1. wanted - b.tokens \in Nat /\ wait \in Nat
    BY <1>2, <1>3, <1>4, <1>9, QuotientNat
  <2>2. wait <= elapsed
    BY <1>3, <1>4, <1>7, <1>9, <2>1 DEF elapsed
  <2>3. wanted - b.tokens < Rate[d] * wait + Rate[d]
    BY <1>2, <2>1, QuotientLargest
  <2>4. Rate[d] * wait <= Rate[d] * elapsed /\ Rate[d] * wait \in Nat
    BY <1>2, <1>4, <2>1, <2>2, ProductGrows, ProductNat
  <2> HIDE DEF wait
  <2>5. QED
    BY <1>2, <1>3, <1>4, <1>5, <1>6, <2>1, <2>3, <2>4 DEF Least, d, wanted
<1>10. QED
  BY <1>8, <1>9

\* waitForToken sleeps for what getWaitTime returns.
LEMMA SleepStep ==
  ASSUME Assumed, Lone, RateIInv, NEW c \in Clients, NEW d \in Domains, NEW n \in Asks,
         WaitForToken(c, d, n)
  PROVE  SleepsEnough'
<1>1. /\ asleep'[c] = [domain |-> d, tokens |-> n, until |-> now + WaitTime(d, n)]
      /\ bucket'[d] = Refilled(d) /\ Refilled(d).last = now
      /\ \A e \in Clients : e = c
  BY RefilledType DEF Lone, RateIInv, TypeOK, WaitForToken, Buckets
<1> DEFINE needed == n * Token - Refilled(d).tokens
<1>2. /\ n * Token \in Nat /\ Refilled(d).tokens \in Nat /\ Rate[d] \in Nat \ {0}
      /\ backoff[d].delay \in Nat /\ now \in Nat
  <2>1. d \in Buckets /\ bucket[d] # None
    BY DEF Buckets, WaitForToken
  <2>2. QED
    BY <2>1, WaitNat, RefilledType, CapacityNat
       DEF RateIInv, TypeOK, Bucket, Assumed, RateAssumption
<1>3. needed <= 0 \/ now + needed \div Rate[d] <= now + WaitTime(d, n)
  <2> SUFFICES ASSUME ~(needed <= 0) PROVE now + needed \div Rate[d] <= now + WaitTime(d, n)
    OBVIOUS
  <2>1. needed \in Nat
    BY <1>2
  <2>2. needed \div Rate[d] \in Nat
    BY <1>2, <2>1, QuotientNat
  <2>3. WaitTime(d, n) = Greatest(needed \div Rate[d], backoff[d].delay)
    BY DEF WaitTime
  <2>4. QED
    BY <1>2, <2>2, <2>3 DEF Greatest
<1>4. n * Token <= Refilled(d).tokens
        \/ Refilled(d).last + (n * Token - Refilled(d).tokens) \div Rate[d] <= now + WaitTime(d, n)
  BY <1>1, <1>2, <1>3
<1>5. QED
  BY <1>1, <1>4 DEF SleepsEnough

LEMMA SleepsEnoughStep ==
  ASSUME Assumed, Lone, RateIInv, SleepsEnough, [Next]_vars
  PROVE  SleepsEnough'
<1>1. ASSUME NEW c \in Clients, Awake(c), UNCHANGED asleep PROVE SleepsEnough'
  BY <1>1 DEF Awake, Lone, SleepsEnough
<1>2. ASSUME NEW c \in Clients, Wakes(c) PROVE SleepsEnough'
  BY <1>2 DEF Wakes, SleepsEnough, RateIInv, TypeOK
<1>3. ASSUME UNCHANGED <<asleep, bucket>> PROVE SleepsEnough'
  BY <1>3 DEF SleepsEnough
<1>4. ASSUME NEW c \in Clients, NEW d \in Domains, DomainStep(c, d) PROVE SleepsEnough'
  BY <1>1, <1>4, SleepStep DEF DomainStep, SetBucketConfig, Configures, TryAcquireHangs, TryAcquire
<1>5. ASSUME NEW c \in Clients, NEW d \in Failing, AnswerStep(c, d) PROVE SleepsEnough'
  BY <1>3, <1>5 DEF AnswerStep, SetBackoffConfig, ReportFailure, ReportSuccess, ResetBackoff, Backs
<1>6. ASSUME NEW c \in Clients, SetGlobalRateLimit(c) \/ Reset(c) PROVE SleepsEnough'
  BY <1>1, <1>6 DEF SetGlobalRateLimit, Configures, Reset
<1>7. CASE ObserverLooks \/ TimePasses \/ UNCHANGED vars
  BY <1>3, <1>7 DEF ObserverLooks, TimePasses
<1>8. QED
  BY <1>2, <1>4, <1>5, <1>6, <1>7 DEF Next

\* A failure is counted only where it is reported, which is now, and what it
\* makes of the delay is no less than it was, below the ceiling.
Postpones ==
  \A d \in Domains :
    backoff'[d].streak > backoff[d].streak /\ backoff[d].delay <= config[d].max
      => backoff'[d].failed + backoff'[d].delay >= backoff[d].failed + backoff[d].delay

LEMMA DelayGrows ==
  ASSUME Assumed, TypeOK, NEW d \in Domains, backoff[d].delay <= config[d].max
  PROVE  NextDelay(d) \in Nat /\ NextDelay(d) >= backoff[d].delay
<1>1. /\ config[d] \in [initial : Nat, max : Nat, multiplier : Nat \ {0}]
      /\ backoff[d].delay \in Nat
  BY DEF TypeOK, Assumed, RateAssumption
<1>2. /\ backoff[d].delay * 1 <= backoff[d].delay * config[d].multiplier
      /\ backoff[d].delay * config[d].multiplier \in Nat
  BY <1>1, ProductGrows, ProductNat
<1>3. QED
  BY <1>1, <1>2 DEF NextDelay, Least

LEMMA PostponesStep ==
  ASSUME Assumed, TypeOK, [Next]_vars
  PROVE  Postpones
<1>1. backoff \in [Domains -> Backoffs] /\ now \in Nat
  BY DEF TypeOK, Backoffs
<1>2. ASSUME NEW c \in Clients, NEW d \in Domains, ReportFailure(c, d) PROVE Postpones
  <2>1. backoff' = [backoff EXCEPT ![d] = [delay |-> NextDelay(d), failed |-> now,
                                           streak |-> backoff[d].streak + 1]]
    BY <1>2 DEF ReportFailure, Backs
  <2>2. backoff[d].failed \in 0 .. now /\ backoff[d].delay \in Nat
    BY <1>1 DEF Backoffs
  <2>3. \A e \in Domains \ {d} : backoff'[e] = backoff[e]
    BY <1>1, <2>1
  <2>4. \A e \in Domains : backoff[e].streak \in Nat
    BY <1>1 DEF Backoffs
  <2>5. backoff'[d].failed = now /\ backoff'[d].delay = NextDelay(d)
    BY <1>1, <2>1
  <2>6. QED
    BY <1>1, <2>2, <2>3, <2>4, <2>5, DelayGrows DEF Postpones
<1>3. ASSUME \A d \in Domains : ~(backoff'[d].streak > backoff[d].streak) PROVE Postpones
  BY <1>3 DEF Postpones
<1>4. \A d \in Domains : backoff[d].streak \in Nat
  BY <1>1 DEF Backoffs
<1>5. ASSUME NEW c \in Clients, NEW d \in Domains, NEW n \in Asks, TryAcquire(c, d, n)
      PROVE  Postpones
  BY <1>1, <1>3, <1>4, <1>5 DEF TryAcquire, Backoffs
<1>6. ASSUME NEW c \in Clients, NEW d \in Domains, ReportSuccess(c, d) \/ ResetBackoff(c, d)
      PROVE  Postpones
  <2>1. PICK delay : backoff' = [backoff EXCEPT ![d] = [backoff[d] EXCEPT !.delay = delay,
                                                                        !.streak = 0]]
    BY <1>6 DEF ReportSuccess, ResetBackoff, Backs
  <2>2. backoff'[d].streak = 0
    BY <1>1, <2>1 DEF Backoffs
  <2>3. \A e \in Domains \ {d} : backoff'[e] = backoff[e]
    BY <1>1, <2>1
  <2>4. QED
    BY <1>3, <1>4, <2>2, <2>3
<1>7. ASSUME NEW c \in Clients, Reset(c) PROVE Postpones
  BY <1>3, <1>4, <1>7 DEF Reset, NoBackoff
<1>8. ASSUME UNCHANGED backoff PROVE Postpones
  BY <1>3, <1>4, <1>8
<1>9. Failing \subseteq Domains
  BY DEF Assumed, RateAssumption
<1>10. ASSUME NEW c \in Clients, NEW d \in Domains, DomainStep(c, d) PROVE Postpones
  BY <1>5, <1>8, <1>10 DEF DomainStep, SetBucketConfig, Configures, TryAcquireHangs, WaitForToken
<1>11. ASSUME NEW c \in Clients, NEW d \in Failing, AnswerStep(c, d) PROVE Postpones
  BY <1>2, <1>6, <1>8, <1>9, <1>11 DEF AnswerStep, SetBackoffConfig
<1>12. ASSUME NEW c \in Clients, SetGlobalRateLimit(c) \/ Reset(c) \/ Wakes(c) PROVE Postpones
  BY <1>7, <1>8, <1>12 DEF SetGlobalRateLimit, Configures, Wakes
<1>13. CASE ObserverLooks \/ TimePasses \/ UNCHANGED vars
  BY <1>8, <1>13 DEF ObserverLooks, TimePasses
<1>14. QED
  BY <1>10, <1>11, <1>12, <1>13 DEF Next

\* A lone client that waitForToken made sleep wakes with all it wanted but the
\* fraction that was dropped from its wait, whatever the rates; and a failure
\* that is reported never brings the end of a backoff forward.
THEOREM WaitsAreLongEnough ==
  ASSUME Assumed, Lone
  PROVE  Spec => WaitsLongEnough
<1>1. Init => RateIInv /\ SleepsEnough
  BY IInvInit DEF Init, SleepsEnough
<1>2. RateIInv /\ SleepsEnough /\ [Next]_vars => RateIInv' /\ SleepsEnough'
  BY TypeStep, AccountStep, SleepsEnoughStep DEF RateIInv
<1>3. RateIInv /\ SleepsEnough => WaitAlmostSuffices
  BY EnoughHasCome DEF RateIInv
<1>4. RateIInv /\ [Next]_vars => Postpones
  BY PostponesStep DEF RateIInv
<1>5. QED
  BY <1>1, <1>2, <1>3, <1>4, PTL DEF Spec, WaitsLongEnough, Postpones

-----------------------------------------------------------------------------
(* The signal handler.  By itself OneFullShutdown is not inductive: that a *)
(* registration cannot slip in behind the copy of the callbacks needs that *)
(* mutex_ excludes, and that what was not refused had entered before.      *)

USE DEF atomics, callbacks, progress, signalVars

\* The thread in the middle of an operation is the one that holds mutex_.
Excludes == \A t \in Threads : does[t] # Idle <=> mutex = t

\* Once the callbacks have been copied no registration is on its way.
Settled ==
  stage \in {"flush", "cleanups", "clean", "done"} =>
    \A t \in Threads : ~Does(t, "registerCsv") /\ ~Does(t, "registerCleanup")

\* A callback is still to be called, called, or left out at the deadline.
NoneLost ==
  /\ stage = "flush" => csv \subseteq todo \cup called \cup skipped
  /\ stage \in {"cleanups", "clean", "done"} => csv \subseteq called \cup skipped
  /\ stage = "clean" => cleanups \subseteq todo \cup called \cup skipped
  /\ stage = "done" => cleanups \subseteq called \cup skipped

SignalIInv == OneShutdownSequence /\ Excludes /\ Settled /\ NoneLost

-----------------------------------------------------------------------------

LEMMA OneSequenceStep ==
  ASSUME OneShutdownSequence, [SignalNext]_signalVars
  PROVE  OneShutdownSequence'
<1> USE SignalsAssumption DEF OneShutdownSequence, SignalTypeOK, Stages, Names
<1>1. ASSUME NEW t \in Threads, NEW r \in Requests, Enters(t, r)
      PROVE  OneShutdownSequence'
  BY <1>1 DEF Enters
<1>2. ASSUME NEW t \in Threads, Leaves(t) PROVE OneShutdownSequence'
  <2>1. does' \in [Threads -> Requests \cup {Idle}] /\ mutex' \in Threads \cup {Free}
    BY <1>2 DEF Leaves
  <2>2. CsvAfter(t) \subseteq CsvFiles
    BY DEF CsvAfter, Updated, Does, Requests, Idle, Call
  <2>3. CleanupsAfter(t) \subseteq Cleanups
    BY DEF CleanupsAfter, Updated, Does, Requests, Idle, Call
  <2>4. enabled' \in BOOLEAN /\ catching' \in BOOLEAN /\ requested' \in BOOLEAN /\ complete' \in BOOLEAN
    BY <1>2 DEF Leaves
  <2>5. QED
    BY <1>2, <2>1, <2>2, <2>3, <2>4 DEF Leaves
<1>3. ASSUME NEW t \in Threads, Triggers(t) PROVE OneShutdownSequence'
  BY <1>3 DEF Triggers
<1>4. ASSUME NEW t \in Interruptible, SignalArrives(t) PROVE OneShutdownSequence'
  BY <1>4 DEF SignalArrives
<1>5. ASSUME NEW t \in Interruptible, HandlerSpawns(t) PROVE OneShutdownSequence'
  BY <1>5 DEF HandlerSpawns
<1>6. CASE CopiesCsv \/ CopiesCleanups
  BY <1>6 DEF CopiesCsv, CopiesCleanups, Copies
<1>7. ASSUME NEW f \in todo, Flushes(f) \/ Cleans(f) PROVE OneShutdownSequence'
  BY <1>7 DEF Flushes, Cleans, CallsBack
<1>8. CASE FlushesEnd \/ Completes
  BY <1>8 DEF FlushesEnd, Completes
<1>9. CASE DeadlinePasses
  BY <1>9 DEF DeadlinePasses
<1>10. CASE UNCHANGED signalVars
  BY <1>10
<1>11. QED
  BY <1>1, <1>2, <1>3, <1>4, <1>5, <1>6, <1>7, <1>8, <1>9, <1>10 DEF SignalNext, ShutdownThread

LEMMA ExcludesStep ==
  ASSUME SignalTypeOK, Excludes, [SignalNext]_signalVars
  PROVE  Excludes'
<1> USE SignalsAssumption DEF SignalTypeOK, Excludes
<1>1. ASSUME NEW t \in Threads, NEW r \in Requests, Enters(t, r)
      PROVE  Excludes'
  <2>1. r # Idle
    BY DEF Requests, Idle, Call, Operations
  <2>2. QED
    BY <1>1, <2>1 DEF Enters
<1>2. ASSUME NEW t \in Threads, Leaves(t) PROVE Excludes'
  BY <1>2 DEF Leaves
<1>3. ASSUME UNCHANGED <<mutex, does>> PROVE Excludes'
  BY <1>3
<1>4. QED
  BY <1>1, <1>2, <1>3 DEF SignalNext, Triggers, SignalArrives, HandlerSpawns, ShutdownThread, CopiesCsv,
     CopiesCleanups, Copies, Flushes, Cleans, CallsBack, FlushesEnd, Completes, DeadlinePasses

\* The copy is made while nobody holds the lock, and who enters later is
\* refused.
LEMMA SettledStep ==
  ASSUME OneShutdownSequence, Excludes, Settled, [SignalNext]_signalVars
  PROVE  Settled'
<1> USE SignalsAssumption DEF OneShutdownSequence, SignalTypeOK, Settled, Does
<1>1. ASSUME NEW t \in Threads, NEW r \in Requests, Enters(t, r)
      PROVE  Settled'
  BY <1>1 DEF Enters, Refused
<1>2. ASSUME NEW t \in Threads, Leaves(t) PROVE Settled'
  BY <1>2 DEF Leaves, Idle, Call
<1>3. CASE CopiesCsv \/ CopiesCleanups
  BY <1>3 DEF CopiesCsv, CopiesCleanups, Copies, Excludes, Idle, Call
<1>4. ASSUME NEW t \in Interruptible, HandlerSpawns(t) PROVE Settled'
  BY <1>4 DEF HandlerSpawns
<1>5. CASE FlushesEnd \/ Completes
  BY <1>5 DEF FlushesEnd, Completes
<1>6. ASSUME UNCHANGED <<does, stage>> PROVE Settled'
  BY <1>6
<1>7. QED
  BY <1>1, <1>2, <1>3, <1>4, <1>5, <1>6 DEF SignalNext, Triggers, SignalArrives, ShutdownThread, Flushes,
     Cleans, CallsBack, DeadlinePasses

LEMMA NoneLostStep ==
  ASSUME OneShutdownSequence, Settled, NoneLost, [SignalNext]_signalVars
  PROVE  NoneLost'
<1> USE SignalsAssumption DEF NoneLost
<1>1. ASSUME NEW t \in Threads, Leaves(t) PROVE NoneLost'
  <2>1. CASE stage \in {"none", "csv"}
    BY <1>1, <2>1 DEF Leaves
  <2>2. CASE stage \notin {"none", "csv"}
    <3>1. ~Does(t, "registerCsv") /\ ~Does(t, "registerCleanup")
      BY <2>2 DEF OneShutdownSequence, SignalTypeOK, Stages, Settled
    <3>2. CsvAfter(t) \subseteq csv /\ CleanupsAfter(t) \subseteq cleanups
      BY <3>1 DEF CsvAfter, CleanupsAfter, Updated
    <3>3. QED
      BY <1>1, <3>2 DEF Leaves
  <2>3. QED
    BY <2>1, <2>2
<1>2. CASE CopiesCsv \/ CopiesCleanups
  BY <1>2 DEF CopiesCsv, CopiesCleanups, Copies
<1>3. ASSUME NEW f \in todo, Flushes(f) \/ Cleans(f) PROVE NoneLost'
  BY <1>3 DEF Flushes, Cleans, CallsBack
<1>4. CASE FlushesEnd \/ Completes
  BY <1>4 DEF FlushesEnd, Completes
<1>5. CASE DeadlinePasses
  BY <1>5 DEF DeadlinePasses
<1>6. ASSUME NEW t \in Interruptible, HandlerSpawns(t) PROVE NoneLost'
  BY <1>6 DEF HandlerSpawns
<1>7. ASSUME UNCHANGED <<callbacks, progress>> PROVE NoneLost'
  BY <1>7
<1>8. QED
  BY <1>1, <1>2, <1>3, <1>4, <1>5, <1>6, <1>7 DEF SignalNext, Enters, Triggers, SignalArrives,
     ShutdownThread

-----------------------------------------------------------------------------

LEMMA SignalIInvInit == SignalInit => SignalIInv
BY SignalsAssumption DEF SignalInit, SignalIInv, OneShutdownSequence, SignalTypeOK, Stages, Excludes, Settled, NoneLost,
   Does, Idle, Call

LEMMA SignalIInvStep == SignalIInv /\ [SignalNext]_signalVars => SignalIInv'
BY OneSequenceStep, ExcludesStep, SettledStep, NoneLostStep DEF SignalIInv, OneShutdownSequence

\* Whatever signals and manual triggers arrive, and whenever they do: at most
\* one handler gets to start the shutdown thread.
THEOREM AtMostOneSequence == SignalSpec => []OneShutdownSequence
<1>1. SignalIInv => OneShutdownSequence
  BY DEF SignalIInv
<1>2. QED
  BY SignalIInvInit, SignalIInvStep, <1>1, PTL DEF SignalSpec

\* A registration that handleSignal did not cause to be refused is in the copy
\* executeShutdown makes of the callbacks: what it accepted is called, before
\* the shutdown goes on, unless the deadline of its group passes.
THEOREM ShutdownIsFull == SignalSpec => []OneFullShutdown
<1>1. SignalIInv => OneFullShutdown
  BY DEF SignalIInv, NoneLost, OneFullShutdown, AcceptedCallbacksCalled
<1>2. QED
  BY SignalIInvInit, SignalIInvStep, <1>1, PTL DEF SignalSpec

-----------------------------------------------------------------------------
(* The cleaner: what an unguarded handle and two flags are worth as long   *)
(* as calls of enableAutoCleanup do not overlap.                           *)

USE DEF cleanerVars

-----------------------------------------------------------------------------
(* The inductive invariant.  Until two calls overlap one caller at most is *)
(* in a call, and where it is says what the flags and the thread are.      *)

OneCall == \A c, d \in Callers : pc[c] # "idle" /\ pc[d] # "idle" => c = d

\* A thread that is not the handle's has been joined.
OthersJoined == \A w \in Cleaners : w # handle => cleaner[w] = "none"

\* What holds between two calls.
BetweenCalls == IF cleaning THEN handle # NoThread /\ Alive = {handle} /\ ~stop
                      ELSE handle = NoThread

\* What holds where the caller is.
Place(c) ==
  /\ pc[c] \in {"enabling", "starting", "spawning"} => handle = NoThread
  /\ pc[c] \in {"starting", "spawning"} => cleaning
  /\ pc[c] = "spawning" => ~stop
  /\ pc[c] \in {"disabling", "stopping"} => handle # NoThread /\ Alive = {handle} /\ ~stop
  /\ pc[c] \in {"stopping", "joining"} => ~cleaning
  /\ pc[c] = "joining" => handle # NoThread /\ joins[c] = handle /\ stop

CleanerIInv ==
  /\ CleanerTypeOK
  /\ aborted => overlapped
  /\ ~overlapped =>
       /\ OneCall /\ OthersJoined
       /\ (\A c \in Callers : pc[c] = "idle") => BetweenCalls
       /\ \A c \in Callers : Place(c)

-----------------------------------------------------------------------------

LEMMA CleanerTypeStep ==
  ASSUME NoThread \notin Cleaners, CleanerTypeOK, [CleanerNext]_cleanerVars
  PROVE  CleanerTypeOK'
<1> USE DEF CleanerTypeOK
<1>1. ASSUME NEW c \in Callers, EnableTests(c) \/ DisableTests(c) PROVE CleanerTypeOK'
  BY <1>1 DEF EnableTests, DisableTests, Begins, At, Goes
<1>2. ASSUME NEW c \in Callers, EnableSets(c) \/ ClearsStop(c) \/ DisableSets(c) PROVE CleanerTypeOK'
  BY <1>2 DEF EnableSets, ClearsStop, DisableSets, At, Goes
<1>3. ASSUME NEW c \in Callers, Spawns(c) PROVE CleanerTypeOK'
  BY <1>3 DEF Spawns, At, Goes
<1>4. ASSUME NEW c \in Callers, SetsStop(c) PROVE CleanerTypeOK'
  BY <1>4 DEF SetsStop, At, Goes
<1>5. ASSUME NEW c \in Callers, Joins(c) PROVE CleanerTypeOK'
  BY <1>5 DEF Joins, At, Goes
<1>6. ASSUME NEW w \in Cleaners, CleanerWorks(w) PROVE CleanerTypeOK'
  BY <1>6 DEF CleanerWorks, LoopTests, SleepEnds, CleansUp, Moves
<1>7. CASE UNCHANGED cleanerVars
  BY <1>7
<1>8. QED
  BY <1>1, <1>2, <1>3, <1>4, <1>5, <1>6, <1>7 DEF CleanerNext, Continues

LEMMA CleanerStep ==
  ASSUME NoThread \notin Cleaners, CleanerIInv, [CleanerNext]_cleanerVars
  PROVE  CleanerIInv'
<1> USE DEF CleanerIInv, OneCall, OthersJoined, BetweenCalls, Place, Alive, CleanerTypeOK, At, Goes
<1>1. CleanerTypeOK'
  BY CleanerTypeStep
<1>2. ASSUME NEW c \in Callers, NEW label, Begins(c, label)
      PROVE  /\ aborted' => overlapped'
             /\ ~overlapped' => ~overlapped /\ (\A d \in Callers : pc[d] = "idle") /\ BetweenCalls
  <2>1. overlapped' <=> overlapped \/ \E d \in Callers : pc[d] # "idle"
    BY <1>2 DEF Begins
  <2>2. aborted' => overlapped
    BY <1>2 DEF Begins
  <2>3. QED
    BY <2>1, <2>2
<1>3. ASSUME NEW c \in Callers, EnableTests(c) \/ DisableTests(c) PROVE CleanerIInv'
  <2>1. CASE EnableTests(c)
    <3>1. ~cleaning /\ UNCHANGED <<cleaning, stop, handle, cleaner, joins>>
          /\ pc' = [pc EXCEPT ![c] = "enabling"]
      BY <2>1 DEF EnableTests, Begins
    <3>2. QED
      BY <1>1, <1>2, <2>1, <3>1 DEF EnableTests
  <2>2. CASE DisableTests(c)
    <3>1. cleaning /\ UNCHANGED <<cleaning, stop, handle, cleaner, joins>>
          /\ pc' = [pc EXCEPT ![c] = "disabling"]
      BY <2>2 DEF DisableTests, Begins
    <3>2. QED
      BY <1>1, <1>2, <2>2, <3>1 DEF DisableTests
  <2>3. QED
    BY <1>3, <2>1, <2>2
<1>4. ASSUME NEW c \in Callers, EnableSets(c) PROVE CleanerIInv'
  BY <1>1, <1>4 DEF EnableSets
<1>5. ASSUME NEW c \in Callers, ClearsStop(c) PROVE CleanerIInv'
  BY <1>1, <1>5 DEF ClearsStop
<1>6. ASSUME NEW c \in Callers, Spawns(c) PROVE CleanerIInv'
  BY <1>1, <1>6 DEF Spawns
<1>7. ASSUME NEW c \in Callers, DisableSets(c) PROVE CleanerIInv'
  BY <1>1, <1>7 DEF DisableSets
<1>8. ASSUME NEW c \in Callers, SetsStop(c) PROVE CleanerIInv'
  <2>1. CASE overlapped
    BY <1>1, <1>8, <2>1 DEF SetsStop
  <2>2. CASE ~overlapped
    <3>1. handle # NoThread /\ ~cleaning
      BY <1>8, <2>2 DEF SetsStop
    <3>2. stop' = TRUE /\ joins' = [joins EXCEPT ![c] = handle]
          /\ pc' = [pc EXCEPT ![c] = "joining"]
      BY <1>8, <3>1 DEF SetsStop
    <3>3. UNCHANGED <<cleaning, handle, cleaner, aborted, overlapped>>
      BY <1>8 DEF SetsStop
    <3>4. pc[c] = "stopping" /\ \A d \in Callers : d # c => pc[d] = "idle"
      BY <1>8, <2>2 DEF SetsStop
    <3>5. QED
      BY <1>1, <2>2, <3>1, <3>2, <3>3, <3>4
  <2>3. QED
    BY <2>1, <2>2
<1>9. ASSUME NEW c \in Callers, Joins(c) PROVE CleanerIInv'
  BY <1>1, <1>9 DEF Joins
<1>10. ASSUME NEW w \in Cleaners, CleanerWorks(w) PROVE CleanerIInv'
  BY <1>1, <1>10 DEF CleanerWorks, LoopTests, SleepEnds, CleansUp, Moves
<1>11. CASE UNCHANGED cleanerVars
  BY <1>1, <1>11
<1>12. QED
  BY <1>3, <1>4, <1>5, <1>6, <1>7, <1>8, <1>9, <1>10, <1>11 DEF CleanerNext, Continues

-----------------------------------------------------------------------------

\* Whoever calls enableAutoCleanup, and however often: as long as no call
\* begins while another is under way, no running thread is destroyed, none is
\* joined twice, and between calls a thread that has not been told to stop
\* runs exactly when cleanup is enabled.
THEOREM SerialCallsAreSafe ==
  ASSUME NoThread \notin Cleaners
  PROVE  CleanerSpec => []SerialCallsSafe
<1>1. CleanerInit => CleanerIInv
  BY DEF CleanerInit, CleanerIInv, CleanerTypeOK, OneCall, OthersJoined, BetweenCalls, Place, Alive
<1>2. CleanerIInv /\ [CleanerNext]_cleanerVars => CleanerIInv'
  BY CleanerStep
<1>3. CleanerIInv => SerialCallsSafe
  BY DEF CleanerIInv, SerialCallsSafe, CleanerTypeOK, OthersJoined, BetweenCalls, Alive
<1>4. QED
  BY <1>1, <1>2, <1>3, PTL DEF CleanerSpec
=============================================================================
