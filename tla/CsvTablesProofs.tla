--------------------------- MODULE CsvTablesProofs ---------------------------
(***************************************************************************)
(* VerdictExact of SchemaValidator, for any schemas and files, and         *)
(* DeltaExact of DeltaCompression, for any tables and payloads.            *)
(***************************************************************************)
EXTENDS SchemaValidator, DeltaCompression, FiniteSetTheorems, WellFoundedInduction, TLAPS

-----------------------------------------------------------------------------
(* Induction, and functions defined by it.                                 *)

LEMMA Induction ==
  ASSUME NEW S, 0 \in S, \A k \in Nat : k \in S => k + 1 \in S
  PROVE  \A k \in Nat : k \in S
<1> DEFINE Out == {k \in Nat : k \notin S}
           R == {q \in Nat \X Nat : q[1] < q[2]}
<1> SUFFICES ASSUME Out # {} PROVE FALSE
  OBVIOUS
<1>1. IsWellFoundedOn(R, Nat)
  BY NatLessThanWellFounded DEF OpToRel
<1> HIDE DEF R
<1>2. PICK m \in Out : \A y \in Out : ~ (<<y, m>> \in R)
  BY <1>1, WFMin
<1>3. m \in Nat /\ m # 0 /\ m \notin S
  OBVIOUS
<1>4. PICK k \in Nat : k + 1 = m
  BY <1>3
<1>5. <<k, m>> \in R
  BY <1>3, <1>4 DEF R
<1>6. k \in S
  BY <1>2, <1>5
<1>7. QED
  BY <1>3, <1>4, <1>6

\* What is computed from a base in steps is there.
Computes(f, V, base, step) ==
  f \in [Nat -> V] /\ f[0] = base /\ \A k \in Nat : f[k + 1] = step[<<k, f[k]>>]

LEMMA Recursion ==
  ASSUME NEW V, NEW base \in V, NEW step \in [Nat \X V -> V]
  PROVE  \E f : Computes(f, V, base, step)
<1> DEFINE Upto(f, n) == /\ f \in [0 .. n -> V] /\ f[0] = base
                         /\ \A k \in 0 .. n - 1 : f[k + 1] = step[<<k, f[k]>>]
           There == {n \in Nat : \E f : Upto(f, n)}
<1>1. 0 \in There
  <2>1. Upto([i \in 0 .. 0 |-> base], 0)
    OBVIOUS
  <2>2. QED
    BY <2>1
<1>2. ASSUME NEW n \in Nat, n \in There PROVE n + 1 \in There
  <2>1. PICK f : Upto(f, n)
    BY <1>2
  <2> DEFINE g == [i \in 0 .. n + 1 |-> IF i = n + 1 THEN step[<<n, f[n]>>] ELSE f[i]]
  <2>2. f[n] \in V /\ step[<<n, f[n]>>] \in V
    BY <2>1
  <2>3. g \in [0 .. n + 1 -> V] /\ g[0] = base
    BY <2>1, <2>2
  <2>4. ASSUME NEW k \in 0 .. n PROVE g[k + 1] = step[<<k, g[k]>>]
    <3>1. g[k] = f[k]
      OBVIOUS
    <3>2. CASE k = n
      <4>1. g[n + 1] = step[<<n, f[n]>>]
        OBVIOUS
      <4>2. QED
        BY <3>1, <3>2, <4>1
    <3>3. CASE k # n
      <4>1. k \in 0 .. n - 1 /\ k + 1 \in 0 .. n
        BY <3>3
      <4>2. g[k + 1] = f[k + 1]
        BY <4>1
      <4>3. QED
        BY <2>1, <3>1, <4>1, <4>2
    <3>4. QED
      BY <3>2, <3>3
  <2>5. (n + 1) - 1 = n
    OBVIOUS
  <2> HIDE DEF g
  <2>6. Upto(g, n + 1)
    BY <2>3, <2>4, <2>5
  <2> HIDE DEF Upto
  <2>7. QED
    BY <2>6
<1>3. \A n \in Nat : \E f : Upto(f, n)
  <2> HIDE DEF There
  <2>1. \A n \in Nat : n \in There
    BY <1>1, <1>2, Induction
  <2> HIDE DEF Upto
  <2>2. QED
    BY <2>1 DEF There
<1> DEFINE part == [n \in Nat |-> CHOOSE f : Upto(f, n)]
           whole == [n \in Nat |-> part[n][n]]
<1>4. \A n \in Nat : Upto(part[n], n)
  BY <1>3
<1> HIDE DEF part, There
<1>5. ASSUME NEW n \in Nat PROVE \A k \in 0 .. n : part[n + 1][k] = part[n][k]
  <2> DEFINE Same == {k \in Nat : k <= n => part[n + 1][k] = part[n][k]}
  <2>1. Upto(part[n], n) /\ Upto(part[n + 1], n + 1)
    BY <1>4
  <2>2. 0 \in Same
    BY <2>1
  <2>3. ASSUME NEW k \in Nat, k \in Same PROVE k + 1 \in Same
    <3> SUFFICES ASSUME k + 1 <= n PROVE part[n + 1][k + 1] = part[n][k + 1]
      OBVIOUS
    <3>1. k \in 0 .. n - 1 /\ k \in 0 .. (n + 1) - 1 /\ part[n + 1][k] = part[n][k]
      BY <2>3
    <3>2. QED
      BY <2>1, <3>1
  <2>4. \A k \in Nat : k \in Same
    BY <2>2, <2>3, Induction
  <2>5. QED
    BY <2>4
<1>6. whole \in [Nat -> V]
  BY <1>4
<1>7. whole[0] = base
  BY <1>4
<1>8. ASSUME NEW k \in Nat PROVE whole[k + 1] = step[<<k, whole[k]>>]
  <2>1. Upto(part[k + 1], k + 1)
    BY <1>4
  <2>2. part[k + 1][k + 1] = step[<<k, part[k + 1][k]>>]
    <3>1. k \in 0 .. (k + 1) - 1
      OBVIOUS
    <3>2. QED
      BY <2>1, <3>1
  <2>3. part[k + 1][k] = part[k][k]
    BY <1>5
  <2>4. QED
    BY <2>2, <2>3
<1> HIDE DEF whole
<1>9. QED
  BY <1>6, <1>7, <1>8 DEF Computes

-----------------------------------------------------------------------------
(* The members of a set in their order, and the lines that are not empty.  *)

LEMMA Appending ==
  ASSUME NEW A, NEW s \in Seq(A), NEW a \in A
  PROVE  /\ Append(s, a) \in Seq(A) /\ Append(s, a) # <<>>
         /\ Len(s) \in Nat /\ Len(Append(s, a)) = Len(s) + 1
         /\ DOMAIN s = 1 .. Len(s) /\ DOMAIN Append(s, a) = 1 .. Len(s) + 1
         /\ \A k \in 1 .. Len(s) : Append(s, a)[k] = s[k]
         /\ Append(s, a)[Len(s) + 1] = a
OBVIOUS

LEMMA PlacesStep ==
  ASSUME NEW set
  PROVE  /\ Places(set, 0) = <<>>
         /\ \A n \in Nat : /\ Places(set, n) \in Seq(Nat)
                           /\ Places(set, n + 1) = IF n + 1 \in set THEN Append(Places(set, n), n + 1)
                                                   ELSE Places(set, n)
<1> DEFINE Is(f) == f = [k \in Nat |->
                           IF k = 0 THEN <<>>
                           ELSE IF k \in set THEN Append(f[k - 1], k) ELSE f[k - 1]]
           upto == CHOOSE f : Is(f)
           step == [q \in Nat \X Seq(Nat) |-> IF q[1] + 1 \in set THEN Append(q[2], q[1] + 1) ELSE q[2]]
<1>1. PICK f : Computes(f, Seq(Nat), <<>>, step)
  <2>1. <<>> \in Seq(Nat)
    OBVIOUS
  <2>2. step \in [Nat \X Seq(Nat) -> Seq(Nat)]
    OBVIOUS
  <2> HIDE DEF step
  <2>3. QED
    BY <2>1, <2>2, Recursion
<1>2. \A k \in Nat : f[k + 1] = IF k + 1 \in set THEN Append(f[k], k + 1) ELSE f[k]
  BY <1>1 DEF Computes
<1>3. Is(f)
  <2>1. ASSUME NEW k \in Nat
        PROVE  f[k] = IF k = 0 THEN <<>> ELSE IF k \in set THEN Append(f[k - 1], k) ELSE f[k - 1]
    <3>1. CASE k = 0
      BY <1>1, <3>1 DEF Computes
    <3>2. CASE k # 0
      <4>1. k - 1 \in Nat /\ (k - 1) + 1 = k
        BY <3>2
      <4>2. QED
        BY <1>2, <3>2, <4>1
    <3>3. QED
      BY <3>1, <3>2
  <2>2. f = [k \in Nat |-> f[k]]
    BY <1>1 DEF Computes
  <2>3. QED
    BY <2>1, <2>2
<1>4. Is(upto)
  BY <1>3
<1>5. \A n : Places(set, n) = upto[n]
  BY DEF Places
<1> HIDE DEF upto
<1>6. upto[0] = <<>> /\ \A n \in Nat : upto[n + 1] = IF n + 1 \in set THEN Append(upto[n], n + 1) ELSE upto[n]
  <2>1. upto = [k \in Nat |-> IF k = 0 THEN <<>>
                             ELSE IF k \in set THEN Append(upto[k - 1], k) ELSE upto[k - 1]]
    BY <1>4
  <2>2. upto[0] = <<>>
    BY <2>1
  <2>3. ASSUME NEW n \in Nat
        PROVE  upto[n + 1] = IF n + 1 \in set THEN Append(upto[n], n + 1) ELSE upto[n]
    <3>1. n + 1 \in Nat /\ n + 1 # 0 /\ (n + 1) - 1 = n
      OBVIOUS
    <3>2. QED
      BY <2>1, <3>1
  <2>4. QED
    BY <2>2, <2>3
<1> DEFINE Fine == {n \in Nat : upto[n] \in Seq(Nat)}
<1>7. \A n \in Nat : n \in Fine
  <2>1. 0 \in Fine
    <3>1. <<>> \in Seq(Nat)
      OBVIOUS
    <3>2. QED
      BY <1>6, <3>1
  <2>2. ASSUME NEW n \in Nat, n \in Fine PROVE n + 1 \in Fine
    <3>1. n + 1 \in Nat /\ upto[n] \in Seq(Nat)
      BY <2>2
    <3>2. Append(upto[n], n + 1) \in Seq(Nat)
      BY <3>1, Appending
    <3>3. QED
      BY <1>6, <3>1, <3>2
  <2> HIDE DEF Fine
  <2>3. QED
    BY <2>1, <2>2, Induction
<1>8. QED
  BY <1>5, <1>6, <1>7

LEMMA PlacesIn ==
  ASSUME NEW set, NEW n \in Nat
  PROVE  \A k \in DOMAIN Places(set, n) : Places(set, n)[k] \in set \cap (1 .. n)
<1> DEFINE In == {m \in Nat : \A k \in DOMAIN Places(set, m) : Places(set, m)[k] \in set \cap (1 .. m)}
<1>1. 0 \in In
  BY PlacesStep
<1>2. ASSUME NEW m \in Nat, m \in In PROVE m + 1 \in In
  <2>1. /\ Places(set, m) \in Seq(Nat)
        /\ Places(set, m + 1) = IF m + 1 \in set THEN Append(Places(set, m), m + 1) ELSE Places(set, m)
    BY PlacesStep
  <2>2. \A k \in DOMAIN Places(set, m) : Places(set, m)[k] \in set \cap (1 .. m + 1)
    BY <1>2
  <2>3. ASSUME NEW k \in DOMAIN Places(set, m + 1) PROVE Places(set, m + 1)[k] \in set \cap (1 .. m + 1)
    <3>1. CASE m + 1 \in set
      <4>1. m + 1 \in Nat
        OBVIOUS
      <4>2. /\ DOMAIN Places(set, m) = 1 .. Len(Places(set, m)) /\ Len(Places(set, m)) \in Nat
            /\ DOMAIN Places(set, m + 1) = 1 .. Len(Places(set, m)) + 1
            /\ \A j \in 1 .. Len(Places(set, m)) : Places(set, m + 1)[j] = Places(set, m)[j]
            /\ Places(set, m + 1)[Len(Places(set, m)) + 1] = m + 1
        <5> DEFINE p == Places(set, m)
        <5>1. p \in Seq(Nat)
          BY <2>1
        <5> HIDE DEF p
        <5>2. /\ DOMAIN p = 1 .. Len(p) /\ Len(p) \in Nat
              /\ DOMAIN Append(p, m + 1) = 1 .. Len(p) + 1
              /\ \A j \in 1 .. Len(p) : Append(p, m + 1)[j] = p[j]
              /\ Append(p, m + 1)[Len(p) + 1] = m + 1
          BY <4>1, <5>1, Appending
        <5>3. QED
          BY <2>1, <3>1, <5>2 DEF p
      <4>3. k \in 1 .. Len(Places(set, m)) \/ k = Len(Places(set, m)) + 1
        BY <4>2
      <4>4. CASE k \in 1 .. Len(Places(set, m))
        BY <2>2, <4>2, <4>4
      <4>5. CASE k = Len(Places(set, m)) + 1
        <5>1. m + 1 \in set \cap (1 .. m + 1)
          BY <3>1
        <5>2. QED
          BY <4>2, <4>5, <5>1
      <4>6. QED
        BY <4>3, <4>4, <4>5
    <3>2. CASE m + 1 \notin set
      BY <2>1, <2>2, <3>2
    <3>3. QED
      BY <3>1, <3>2
  <2>4. QED
    BY <2>3
<1> HIDE DEF In
<1>3. \A m \in Nat : m \in In
  BY <1>1, <1>2, Induction
<1>4. QED
  BY <1>3 DEF In

LEMMA PlacesThere ==
  ASSUME NEW set, NEW n \in Nat, NEW i \in 1 .. n, i \in set
  PROVE  Places(set, n) # <<>>
<1> DEFINE There == {m \in Nat : i <= m => Places(set, m) # <<>>}
<1>1. 0 \in There
  OBVIOUS
<1>2. ASSUME NEW m \in Nat, m \in There PROVE m + 1 \in There
  <2>1. /\ Places(set, m) \in Seq(Nat)
        /\ Places(set, m + 1) = IF m + 1 \in set THEN Append(Places(set, m), m + 1) ELSE Places(set, m)
    BY PlacesStep
  <2>2. m + 1 \in Nat /\ Append(Places(set, m), m + 1) # <<>>
    <3>1. m + 1 \in Nat
      OBVIOUS
    <3>2. QED
      BY <2>1, <3>1, Appending
  <2>3. CASE i <= m
    <3>1. Places(set, m) # <<>>
      BY <1>2, <2>3
    <3>2. Places(set, m + 1) # <<>>
      BY <2>1, <2>2, <3>1
    <3>3. QED
      BY <2>2, <3>2
  <2>4. CASE i = m + 1
    BY <2>1, <2>2, <2>4
  <2>5. QED
    BY <2>2, <2>3, <2>4
<1> HIDE DEF There
<1>3. \A m \in Nat : m \in There
  BY <1>1, <1>2, Induction
<1>4. QED
  BY <1>3 DEF There

\* A sequence begins with another.
Begins(s, t) == Len(s) <= Len(t) /\ \A k \in 1 .. Len(s) : t[k] = s[k]

LEMMA PlacesGrow ==
  ASSUME NEW set, NEW m \in Nat, NEW n \in Nat, m <= n
  PROVE  Begins(Places(set, m), Places(set, n))
<1> DEFINE Fine == {k \in Nat : m <= k => Begins(Places(set, m), Places(set, k))}
<1>1. \A k \in Nat : Places(set, k) \in Seq(Nat)
  BY PlacesStep
<1>2. 0 \in Fine
  <2>1. Begins(Places(set, 0), Places(set, 0))
    BY PlacesStep DEF Begins
  <2>2. QED
    BY <2>1
<1>3. ASSUME NEW k \in Nat, k \in Fine PROVE k + 1 \in Fine
  <2> SUFFICES ASSUME m <= k + 1 PROVE Begins(Places(set, m), Places(set, k + 1))
    OBVIOUS
  <2>1. CASE m = k + 1
    <3>1. \A t \in Seq(Nat) : Begins(t, t)
      BY DEF Begins
    <3>2. QED
      BY <1>1, <2>1, <3>1
  <2>2. CASE m # k + 1
    <3>1. Begins(Places(set, m), Places(set, k))
      BY <1>3, <2>2
    <3>2. Begins(Places(set, k), Places(set, k + 1))
      <4>1. k + 1 \in Nat /\ Places(set, k) \in Seq(Nat)
        BY <1>1
      <4>2. Begins(Places(set, k), Append(Places(set, k), k + 1))
        BY <4>1 DEF Begins
      <4>3. Begins(Places(set, k), Places(set, k))
        BY <4>1 DEF Begins
      <4>4. QED
        BY <4>2, <4>3, PlacesStep
    <3>3. \A r, s, t \in Seq(Nat) : Begins(r, s) /\ Begins(s, t) => Begins(r, t)
      BY DEF Begins
    <3>4. QED
      BY <1>1, <3>1, <3>2, <3>3
  <2>3. QED
    BY <2>1, <2>2
<1> HIDE DEF Fine
<1>4. \A k \in Nat : k \in Fine
  BY <1>2, <1>3, Induction
<1>5. QED
  BY <1>4 DEF Fine

\* The lines that are not empty among the first n of a file.
FilledTo(f, n) ==
  LET places == Places({i \in DOMAIN f : f[i] # <<>>}, n)
  IN  [k \in DOMAIN places |-> f[places[k]]]

LEMMA FilledStep ==
  ASSUME NEW A, NEW f \in Seq(A)
  PROVE  /\ FilledTo(f, 0) = <<>>
         /\ \A n \in 0 .. Len(f) : /\ FilledTo(f, n) \in Seq(A)
                                   /\ \A k \in DOMAIN FilledTo(f, n) : FilledTo(f, n)[k] # <<>>
         /\ \A n \in 0 .. Len(f) - 1 : f[n + 1] = <<>> => FilledTo(f, n + 1) = FilledTo(f, n)
         /\ \A n \in 0 .. Len(f) - 1 :
              f[n + 1] # <<>> => FilledTo(f, n + 1) = Append(FilledTo(f, n), f[n + 1])
<1> DEFINE set == {i \in DOMAIN f : f[i] # <<>>}
           P(n) == Places(set, n)
<1>1. \A n : FilledTo(f, n) = [k \in DOMAIN P(n) |-> f[P(n)[k]]]
  BY DEF FilledTo
<1>2. Len(f) \in Nat /\ DOMAIN f = 1 .. Len(f) /\ \A i \in 1 .. Len(f) : f[i] \in A
  OBVIOUS
<1>3. \A i \in 1 .. Len(f) : i \in set <=> f[i] # <<>>
  BY <1>2
<1> HIDE DEF set
<1>4. P(0) = <<>>
  BY PlacesStep
<1>5. ASSUME NEW n \in 0 .. Len(f)
      PROVE  /\ P(n) \in Seq(Nat) /\ \A k \in DOMAIN P(n) : P(n)[k] \in set \cap (1 .. n)
  <2>1. n \in Nat
    BY <1>2
  <2>2. QED
    BY <2>1, PlacesStep, PlacesIn
<1>6. ASSUME NEW n \in 0 .. Len(f) - 1
      PROVE  P(n + 1) = IF n + 1 \in set THEN Append(P(n), n + 1) ELSE P(n)
  <2>1. n \in Nat
    BY <1>2
  <2>2. QED
    BY <2>1, PlacesStep
<1>7. ASSUME NEW n \in 0 .. Len(f)
      PROVE  /\ FilledTo(f, n) \in Seq(A) /\ DOMAIN FilledTo(f, n) = DOMAIN P(n)
             /\ \A k \in DOMAIN P(n) : FilledTo(f, n)[k] = f[P(n)[k]] /\ f[P(n)[k]] # <<>>
  <2>1. /\ P(n) \in Seq(Nat) /\ \A k \in DOMAIN P(n) : P(n)[k] \in 1 .. Len(f) /\ P(n)[k] \in set
    BY <1>2, <1>5
  <2> HIDE DEF P
  <2>2. DOMAIN P(n) = 1 .. Len(P(n)) /\ Len(P(n)) \in Nat
    BY <2>1
  <2>3. [k \in 1 .. Len(P(n)) |-> f[P(n)[k]]] \in Seq(A)
    BY <1>2, <2>1, <2>2
  <2>4. QED
    BY <1>1, <1>3, <2>1, <2>2, <2>3
<1>8. FilledTo(f, 0) = <<>>
  BY <1>1, <1>4
<1>9. ASSUME NEW n \in 0 .. Len(f) - 1, f[n + 1] = <<>> PROVE FilledTo(f, n + 1) = FilledTo(f, n)
  <2>1. n + 1 \in 1 .. Len(f)
    BY <1>2
  <2>2. P(n + 1) = P(n)
    BY <1>3, <1>6, <1>9, <2>1
  <2>3. QED
    BY <1>1, <2>2
<1>10. ASSUME NEW n \in 0 .. Len(f) - 1, f[n + 1] # <<>>
       PROVE  FilledTo(f, n + 1) = Append(FilledTo(f, n), f[n + 1])
  <2>1. n + 1 \in 1 .. Len(f) /\ n \in 0 .. Len(f) /\ n + 1 \in 0 .. Len(f) /\ n + 1 \in Nat
    BY <1>2
  <2>2. P(n + 1) = Append(P(n), n + 1) /\ P(n) \in Seq(Nat)
    BY <1>3, <1>5, <1>6, <1>10, <2>1
  <2> HIDE DEF P
  <2>3. /\ DOMAIN P(n) = 1 .. Len(P(n)) /\ Len(P(n)) \in Nat
        /\ DOMAIN P(n + 1) = 1 .. Len(P(n)) + 1
        /\ \A k \in 1 .. Len(P(n)) : P(n + 1)[k] = P(n)[k]
        /\ P(n + 1)[Len(P(n)) + 1] = n + 1
    <3>1. ASSUME NEW p \in Seq(Nat)
          PROVE  /\ DOMAIN p = 1 .. Len(p) /\ Len(p) \in Nat
                 /\ DOMAIN Append(p, n + 1) = 1 .. Len(p) + 1
                 /\ \A k \in 1 .. Len(p) : Append(p, n + 1)[k] = p[k]
                 /\ Append(p, n + 1)[Len(p) + 1] = n + 1
      BY <2>1, Appending
    <3>2. QED
      BY <2>2, <3>1
  <2>4. FilledTo(f, n) \in Seq(A) /\ DOMAIN FilledTo(f, n) = 1 .. Len(P(n))
    BY <1>7, <2>1, <2>3
  <2>5. Len(FilledTo(f, n)) = Len(P(n))
    BY <2>3, <2>4
  <2>6. f[n + 1] \in A
    BY <1>2, <2>1
  <2>7. /\ Append(FilledTo(f, n), f[n + 1]) \in Seq(A)
        /\ DOMAIN Append(FilledTo(f, n), f[n + 1]) = 1 .. Len(P(n)) + 1
        /\ \A k \in 1 .. Len(P(n)) : Append(FilledTo(f, n), f[n + 1])[k] = FilledTo(f, n)[k]
        /\ Append(FilledTo(f, n), f[n + 1])[Len(P(n)) + 1] = f[n + 1]
    BY <2>4, <2>5, <2>6, Appending
  <2>8. FilledTo(f, n + 1) \in Seq(A) /\ DOMAIN FilledTo(f, n + 1) = 1 .. Len(P(n)) + 1
    BY <1>7, <2>1, <2>3
  <2>9. ASSUME NEW k \in 1 .. Len(P(n)) + 1
        PROVE  FilledTo(f, n + 1)[k] = Append(FilledTo(f, n), f[n + 1])[k]
    <3>1. FilledTo(f, n + 1)[k] = f[P(n + 1)[k]]
      BY <1>7, <2>1, <2>3
    <3>2. CASE k = Len(P(n)) + 1
      BY <2>3, <2>7, <3>1, <3>2
    <3>3. CASE k # Len(P(n)) + 1
      <4>1. k \in 1 .. Len(P(n))
        BY <2>3, <3>3
      <4>2. FilledTo(f, n)[k] = f[P(n)[k]]
        BY <1>7, <2>1, <2>3, <4>1
      <4>3. QED
        BY <2>3, <2>7, <3>1, <4>1, <4>2
    <3>4. QED
      BY <3>2, <3>3
  <2>10. QED
    BY <2>7, <2>8, <2>9
<1>11. QED
  BY <1>7, <1>8, <1>9, <1>10

LEMMA FilledGrows ==
  ASSUME NEW A, NEW f \in Seq(A), NEW n \in 0 .. Len(f)
  PROVE  Begins(FilledTo(f, n), FilledTo(f, Len(f)))
<1> DEFINE set == {i \in DOMAIN f : f[i] # <<>>}
           P(m) == Places(set, m)
<1>1. \A m : FilledTo(f, m) = [k \in DOMAIN P(m) |-> f[P(m)[k]]]
  BY DEF FilledTo
<1>2. n \in Nat /\ Len(f) \in Nat /\ n <= Len(f)
  OBVIOUS
<1> HIDE DEF set
<1>3. P(n) \in Seq(Nat) /\ P(Len(f)) \in Seq(Nat) /\ Begins(P(n), P(Len(f)))
  BY <1>2, PlacesStep, PlacesGrow
<1>4. ASSUME NEW p \in Seq(Nat), NEW q \in Seq(Nat), Begins(p, q)
      PROVE  Begins([k \in DOMAIN p |-> f[p[k]]], [k \in DOMAIN q |-> f[q[k]]])
  <2>1. /\ DOMAIN p = 1 .. Len(p) /\ Len(p) \in Nat /\ DOMAIN q = 1 .. Len(q) /\ Len(q) \in Nat
    OBVIOUS
  <2>2. Len([k \in DOMAIN p |-> f[p[k]]]) = Len(p) /\ Len([k \in DOMAIN q |-> f[q[k]]]) = Len(q)
    BY <2>1
  <2>3. QED
    BY <1>4, <2>1, <2>2 DEF Begins
<1> HIDE DEF P
<1>5. QED
  BY <1>1, <1>3, <1>4

-----------------------------------------------------------------------------
(* What is reported.                                                       *)

Report == [names : SUBSET Cells, severity : {"ERROR", "WARNING", "NOTICE", "FATAL"}]

LEMMA NotedGrows ==
  ASSUME NEW errors \in Seq(Report), NEW r \in Report
  PROVE  Noted(errors, r) \in Seq(Report) /\ Len(errors) + 1 <= Len(Noted(errors, r))
<1> DEFINE with == Append(errors, r)
           notice == [names |-> r.names, severity |-> "NOTICE"]
<1>1. with \in Seq(Report) /\ Len(with) = Len(errors) + 1 /\ Len(errors) \in Nat
  BY Appending
<1>2. notice \in Report
  BY DEF Report
<1> HIDE DEF with, notice
<1>3. Append(with, notice) \in Seq(Report) /\ Len(Append(with, notice)) = Len(with) + 1
  BY <1>1, <1>2, Appending
<1>4. Noted(errors, r) \in {with, Append(with, notice)}
  BY DEF Noted, with, notice
<1>5. QED
  BY <1>1, <1>3, <1>4

LEMMA ReportedGrows ==
  ASSUME NEW errors \in Seq(Report), NEW reports \in Seq(Report)
  PROVE  /\ Reported(errors, reports) \in Seq(Report)
         /\ Len(errors) + Len(reports) <= Len(Reported(errors, reports))
<1> DEFINE n == Len(reports)
           Is(f) == f = [k \in 0 .. n |-> IF k = 0 THEN errors ELSE Noted(f[k - 1], reports[k])]
           all == CHOOSE f : Is(f)
           step == [q \in Nat \X Seq(Report) |->
                      IF q[1] + 1 \in 1 .. n THEN Noted(q[2], reports[q[1] + 1]) ELSE q[2]]
<1>1. n \in Nat /\ \A k \in 1 .. n : reports[k] \in Report
  OBVIOUS
<1> HIDE DEF n
<1>2. PICK f : Computes(f, Seq(Report), errors, step)
  <2>1. ASSUME NEW q \in Nat \X Seq(Report)
        PROVE  (IF q[1] + 1 \in 1 .. n THEN Noted(q[2], reports[q[1] + 1]) ELSE q[2]) \in Seq(Report)
    <3>1. q[2] \in Seq(Report)
      OBVIOUS
    <3>2. CASE q[1] + 1 \in 1 .. n
      BY <1>1, <3>1, <3>2, NotedGrows
    <3>3. QED
      BY <3>1, <3>2
  <2>2. step \in [Nat \X Seq(Report) -> Seq(Report)]
    BY <2>1
  <2> HIDE DEF step
  <2>3. QED
    BY <2>2, Recursion
<1>3. f[0] = errors /\ \A k \in Nat : f[k] \in Seq(Report)
  BY <1>2 DEF Computes
<1>4. ASSUME NEW k \in 1 .. n PROVE f[k] = Noted(f[k - 1], reports[k])
  <2>1. k - 1 \in Nat /\ (k - 1) + 1 = k
    BY <1>1
  <2>2. f[k] = step[<<k - 1, f[k - 1]>>]
    BY <1>2, <2>1 DEF Computes
  <2>3. <<k - 1, f[k - 1]>> \in Nat \X Seq(Report)
    BY <1>3, <2>1
  <2>4. step[<<k - 1, f[k - 1]>>] = Noted(f[k - 1], reports[(k - 1) + 1])
    BY <2>1, <2>3
  <2> HIDE DEF step
  <2>5. QED
    BY <2>1, <2>2, <2>4
<1>5. Is([k \in 0 .. n |-> f[k]])
  <2>1. ASSUME NEW k \in 1 .. n PROVE k - 1 \in 0 .. n /\ k \in 0 .. n /\ k # 0
    BY <1>1
  <2>2. QED
    BY <1>3, <1>4, <2>1
<1>6. Is(all)
  BY <1>5
<1>7. Reported(errors, reports) = all[n]
  BY DEF Reported, n
<1> HIDE DEF all, step
<1> DEFINE Fine == {k \in Nat : k <= n => all[k] \in Seq(Report) /\ Len(errors) + k <= Len(all[k])}
<1>8. \A k \in Nat : k \in Fine
  <2>1. all[0] = errors
    BY <1>1, <1>6
  <2>2. Len(errors) \in Nat
    OBVIOUS
  <2>3. 0 \in Fine
    BY <2>1, <2>2
  <2>4. ASSUME NEW k \in Nat, k \in Fine PROVE k + 1 \in Fine
    <3> SUFFICES ASSUME k + 1 <= n
                 PROVE  all[k + 1] \in Seq(Report) /\ Len(errors) + (k + 1) <= Len(all[k + 1])
      OBVIOUS
    <3>1. k + 1 \in 0 .. n /\ k + 1 # 0 /\ (k + 1) - 1 = k /\ k + 1 \in 1 .. n /\ k <= n
      BY <1>1
    <3>2. all[k + 1] = Noted(all[k], reports[k + 1])
      BY <1>6, <3>1
    <3>3. all[k] \in Seq(Report) /\ Len(errors) + k <= Len(all[k])
      BY <2>4, <3>1
    <3>4. Noted(all[k], reports[k + 1]) \in Seq(Report) /\ Len(all[k]) + 1 <= Len(Noted(all[k], reports[k + 1]))
      BY <1>1, <3>1, <3>3, NotedGrows
    <3>5. Len(all[k]) \in Nat /\ Len(all[k + 1]) \in Nat
      BY <3>2, <3>3, <3>4
    <3>6. QED
      BY <2>2, <3>2, <3>3, <3>4, <3>5
  <2> HIDE DEF Fine
  <2>5. QED
    BY <2>3, <2>4, Induction
<1>9. QED
  BY <1>1, <1>7, <1>8 DEF n

LEMMA FlattenedEmpty ==
  ASSUME NEW A, NEW parts \in Seq(Seq(A))
  PROVE  /\ FlattenSeq(parts) \in Seq(A)
         /\ FlattenSeq(parts) = <<>> <=> \A i \in DOMAIN parts : parts[i] = <<>>
<1> DEFINE n == Len(parts)
           Is(f) == f = [i \in 1 .. n |-> IF i = 1 THEN parts[i] ELSE f[i - 1] \o parts[i]]
           all == CHOOSE f : Is(f)
           step == [q \in Nat \X Seq(A) |-> IF q[1] + 2 \in 1 .. n THEN q[2] \o parts[q[1] + 2] ELSE q[2]]
<1>1. n \in Nat /\ DOMAIN parts = 1 .. n /\ \A k \in 1 .. n : parts[k] \in Seq(A)
  OBVIOUS
<1>2. CASE n = 0
  <2>1. parts = <<>> /\ FlattenSeq(parts) = <<>>
    BY <1>2 DEF FlattenSeq
  <2>2. <<>> \in Seq(A)
    OBVIOUS
  <2>3. DOMAIN parts = {}
    BY <1>2
  <2> HIDE DEF n
  <2>4. QED
    BY <2>1, <2>2, <2>3
<1>3. CASE n # 0
  <2>1. FlattenSeq(parts) = all[n]
    BY <1>3 DEF FlattenSeq
  <2> HIDE DEF n
  <2>2. PICK f : Computes(f, Seq(A), parts[1], step)
    <3>1. \A s, t \in Seq(A) : s \o t \in Seq(A)
      OBVIOUS
    <3>2. step \in [Nat \X Seq(A) -> Seq(A)]
      BY <1>1, <3>1
    <3>3. parts[1] \in Seq(A)
      BY <1>1, <1>3
    <3> HIDE DEF step
    <3>4. QED
      BY <3>2, <3>3, Recursion
  <2>3. f[0] = parts[1] /\ \A k \in Nat : f[k] \in Seq(A)
    BY <2>2 DEF Computes
  <2>4. ASSUME NEW i \in 2 .. n PROVE f[i - 1] = f[(i - 1) - 1] \o parts[i]
    <3>1. i - 2 \in Nat /\ (i - 2) + 1 = i - 1 /\ (i - 2) + 2 = i /\ (i - 1) - 1 = i - 2 /\ i \in 1 .. n
      BY <1>1
    <3> HIDE DEF step
    <3>2. f[i - 1] = step[<<i - 2, f[i - 2]>>]
      BY <2>2, <3>1 DEF Computes
    <3>3. <<i - 2, f[i - 2]>> \in Nat \X Seq(A)
      BY <2>3, <3>1
    <3>4. step[<<i - 2, f[i - 2]>>] = f[i - 2] \o parts[(i - 2) + 2]
      BY <3>1, <3>3 DEF step
    <3>5. QED
      BY <3>1, <3>2, <3>4
  <2> HIDE DEF step
  <2>5. Is([i \in 1 .. n |-> f[i - 1]])
    <3>1. ASSUME NEW i \in 1 .. n, i # 1 PROVE i - 1 \in 1 .. n /\ i \in 2 .. n
      BY <1>1, <3>1
    <3> DEFINE g == [i \in 1 .. n |-> f[i - 1]]
    <3>2. 1 - 1 = 0
      OBVIOUS
    <3>3. ASSUME NEW i \in 1 .. n PROVE g[i] = IF i = 1 THEN parts[i] ELSE g[i - 1] \o parts[i]
      <4>1. CASE i = 1
        BY <2>3, <3>2, <4>1
      <4>2. CASE i # 1
        BY <2>4, <3>1, <4>2, Zenon
      <4>3. QED
        BY <4>1, <4>2
    <3>4. g = [i \in 1 .. n |-> g[i]]
      OBVIOUS
    <3> HIDE DEF g
    <3>5. Is(g)
      BY <3>3, <3>4, Zenon
    <3>6. QED
      BY <3>5 DEF g
  <2>6. Is(all)
    BY <2>5, Zenon
  <2> HIDE DEF all, step
  <2> DEFINE Fine == {k \in Nat : k + 1 <= n =>
                        /\ all[k + 1] \in Seq(A)
                        /\ all[k + 1] = <<>> <=> \A i \in 1 .. k + 1 : parts[i] = <<>>}
  <2>7. \A k \in Nat : k \in Fine
    <3>1. 0 \in Fine
      <4>1. all[1] = parts[1] /\ 1 \in 1 .. n
        BY <1>1, <1>3, <2>6
      <4>2. 0 + 1 = 1 /\ 1 .. 1 = {1}
        OBVIOUS
      <4>3. QED
        BY <1>1, <4>1, <4>2
    <3>2. ASSUME NEW k \in Nat, k \in Fine PROVE k + 1 \in Fine
      <4> DEFINE i == (k + 1) + 1
      <4> SUFFICES ASSUME i <= n
                   PROVE  /\ all[i] \in Seq(A)
                          /\ all[i] = <<>> <=> \A j \in 1 .. i : parts[j] = <<>>
        OBVIOUS
      <4>1. i \in 1 .. n /\ i # 1 /\ i - 1 = k + 1 /\ k + 1 <= n /\ 1 .. i = (1 .. k + 1) \cup {i}
        BY <1>1
      <4>2. all[i] = all[k + 1] \o parts[i]
        BY <2>6, <4>1
      <4>3. all[k + 1] \in Seq(A) /\ (all[k + 1] = <<>> <=> \A j \in 1 .. k + 1 : parts[j] = <<>>)
        BY <3>2, <4>1
      <4>4. parts[i] \in Seq(A)
        BY <1>1, <4>1
      <4>5. \A s, t \in Seq(A) : s \o t \in Seq(A) /\ (s \o t = <<>> <=> s = <<>> /\ t = <<>>)
        OBVIOUS
      <4> HIDE DEF i
      <4>6. QED
        BY <4>1, <4>2, <4>3, <4>4, <4>5
    <3> HIDE DEF Fine
    <3>3. QED
      BY <3>1, <3>2, Induction
  <2>8. n - 1 \in Nat /\ (n - 1) + 1 = n
    BY <1>1, <1>3
  <2>9. n - 1 \in Fine
    BY <2>7, <2>8
  <2>10. all[n] \in Seq(A) /\ (all[n] = <<>> <=> \A i \in 1 .. n : parts[i] = <<>>)
    BY <1>1, <2>8, <2>9
  <2>11. QED
    BY <1>1, <2>1, <2>10
<1>4. QED
  BY <1>2, <1>3

\* What a row is reported for is what it does not conform in.
SchemaOk(s) ==
  s.fields \in Seq(Field) /\ s.strict \in BOOLEAN /\ s.extra \in BOOLEAN /\ s.header \in BOOLEAN

Shown(line, i) == IF i <= Len(line) THEN Trim[line[i]] ELSE ""
Fits(line, s) ==
  \A i \in DOMAIN s.fields :
    IF Shown(line, i) \in Empty THEN ~s.fields[i].required ELSE Faults(Shown(line, i), s.fields[i]) = 0

LEMMA OneNat == \A b \in BOOLEAN : One(b) \in Nat /\ (One(b) = 0 <=> ~b)
BY DEF One

LEMMA FaultsNat ==
  ASSUME NEW v, NEW f
  PROVE  Faults(v, f) \in Nat
BY DEF Faults, One

LEMMA ReportsEmpty ==
  ASSUME NEW v, NEW f \in Field
  PROVE  /\ Reports(v, f) \in Seq(Report)
         /\ Reports(v, f) = <<>> <=> IF v \in Empty THEN ~f.required ELSE Faults(v, f) = 0
<1> DEFINE many == IF v \in Empty THEN One(f.required) ELSE Faults(v, f)
           report == [names |-> f.names, severity |-> "ERROR"]
<1>1. many \in Nat /\ (many = 0 <=> IF v \in Empty THEN ~f.required ELSE Faults(v, f) = 0)
  <2>1. f.required \in BOOLEAN
    BY DEF Field
  <2>2. QED
    BY <2>1, OneNat, FaultsNat
<1>2. Reports(v, f) = [k \in 1 .. many |-> report]
  BY DEF Reports
<1>3. report \in Report
  BY DEF Report, Field
<1>4. ASSUME NEW m \in Nat, NEW A, NEW a \in A
      PROVE  [k \in 1 .. m |-> a] \in Seq(A) /\ ([k \in 1 .. m |-> a] = <<>> <=> m = 0)
  OBVIOUS
<1> HIDE DEF many, report
<1>5. [k \in 1 .. many |-> report] \in Seq(Report) /\ ([k \in 1 .. many |-> report] = <<>> <=> many = 0)
  BY <1>1, <1>3, <1>4
<1>6. QED
  BY <1>1, <1>2, <1>5

LEMMA RowReportsEmpty ==
  ASSUME NEW line, NEW s, SchemaOk(s)
  PROVE  /\ RowReports(line, s) \in Seq(Report)
         /\ RowReports(line, s) = <<>> <=> Fits(line, s)
<1> DEFINE parts == [i \in DOMAIN s.fields |-> Reports(Shown(line, i), s.fields[i])]
<1>1. /\ DOMAIN s.fields = 1 .. Len(s.fields) /\ Len(s.fields) \in Nat
      /\ \A i \in DOMAIN s.fields : s.fields[i] \in Field
  BY DEF SchemaOk
<1>2. \A i \in DOMAIN s.fields :
        /\ parts[i] \in Seq(Report)
        /\ parts[i] = <<>> <=> IF Shown(line, i) \in Empty THEN ~s.fields[i].required
                              ELSE Faults(Shown(line, i), s.fields[i]) = 0
  BY <1>1, ReportsEmpty
<1>3. RowReports(line, s) = FlattenSeq(parts)
  BY DEF RowReports, Shown
<1>4. parts \in Seq(Seq(Report)) /\ DOMAIN parts = DOMAIN s.fields
  <2>1. \A i \in 1 .. Len(s.fields) : parts[i] \in Seq(Report)
    BY <1>1, <1>2
  <2>2. DOMAIN parts = 1 .. Len(s.fields) /\ parts = [i \in 1 .. Len(s.fields) |-> parts[i]]
    BY <1>1
  <2> HIDE DEF parts
  <2>3. parts \in Seq(Seq(Report))
    BY <1>1, <2>1, <2>2
  <2>4. QED
    BY <1>1, <2>2, <2>3
<1> HIDE DEF parts
<1>5. FlattenSeq(parts) \in Seq(Report) /\ (FlattenSeq(parts) = <<>> <=> \A i \in DOMAIN parts : parts[i] = <<>>)
  BY <1>4, FlattenedEmpty
<1>6. QED
  BY <1>2, <1>3, <1>4, <1>5 DEF Fits

\* Whoever misses a header says so.
LEMMA HeaderReported ==
  ASSUME NEW line \in Seq(Cells), NEW s, SchemaOk(s)
  PROVE  /\ HeaderReports(line, s) \in Seq(Report)
         /\ ~HeaderFits(line, s) => HeaderReports(line, s) # <<>>
<1> DEFINE missing == Places(Missing(line, s), Len(s.fields))
           extra == Places(Extra(line, s), Len(line))
           left == [k \in DOMAIN missing |-> [names |-> s.fields[missing[k]].names, severity |-> "ERROR"]]
           right == [k \in DOMAIN extra |-> [names |-> {line[extra[k]]}, severity |-> "WARNING"]]
<1>1. /\ DOMAIN s.fields = 1 .. Len(s.fields) /\ Len(s.fields) \in Nat
      /\ \A i \in DOMAIN s.fields : s.fields[i] \in Field
      /\ DOMAIN line = 1 .. Len(line) /\ Len(line) \in Nat /\ \A i \in DOMAIN line : line[i] \in Cells
  BY DEF SchemaOk
<1>2. /\ missing \in Seq(Nat) /\ \A k \in DOMAIN missing : missing[k] \in 1 .. Len(s.fields)
      /\ extra \in Seq(Nat) /\ \A k \in DOMAIN extra : extra[k] \in 1 .. Len(line)
  BY <1>1, PlacesStep, PlacesIn
<1>3. Missing(line, s) \subseteq 1 .. Len(s.fields) /\ Extra(line, s) \subseteq 1 .. Len(line)
  BY <1>1 DEF Missing, Extra
<1>4. (Missing(line, s) # {} => missing # <<>>) /\ (Extra(line, s) # {} => extra # <<>>)
  BY <1>1, <1>3, PlacesThere
<1>5. HeaderReports(line, s) = left \o right
  BY DEF HeaderReports
<1> HIDE DEF missing, extra
<1>6. ASSUME NEW p \in Seq(Nat), NEW g, \A k \in DOMAIN p : g[k] \in Report
      PROVE  [k \in DOMAIN p |-> g[k]] \in Seq(Report) /\ ([k \in DOMAIN p |-> g[k]] = <<>> => p = <<>>)
  <2>1. DOMAIN p = 1 .. Len(p) /\ Len(p) \in Nat
    OBVIOUS
  <2>2. [k \in 1 .. Len(p) |-> g[k]] \in Seq(Report)
    BY <1>6, <2>1
  <2>3. [k \in 1 .. Len(p) |-> g[k]] = <<>> => Len(p) = 0
    BY <2>1
  <2>4. Len(p) = 0 => p = <<>>
    OBVIOUS
  <2>5. QED
    BY <2>1, <2>2, <2>3, <2>4
<1>7. left \in Seq(Report) /\ (missing # <<>> => left # <<>>)
  <2>1. \A k \in DOMAIN missing : left[k] \in Report
    BY <1>1, <1>2 DEF Report, Field
  <2>2. left = [k \in DOMAIN missing |-> left[k]]
    OBVIOUS
  <2> HIDE DEF left
  <2>3. QED
    BY <1>2, <1>6, <2>1, <2>2
<1>8. right \in Seq(Report) /\ (extra # <<>> => right # <<>>)
  <2>1. \A k \in DOMAIN extra : right[k] \in Report
    BY <1>1, <1>2 DEF Report
  <2>2. right = [k \in DOMAIN extra |-> right[k]]
    OBVIOUS
  <2> HIDE DEF right
  <2>3. QED
    BY <1>2, <1>6, <2>1, <2>2
<1> HIDE DEF left, right
<1>9. left \o right \in Seq(Report) /\ (left \o right = <<>> => left = <<>> /\ right = <<>>)
  BY <1>7, <1>8
<1>10. QED
  BY <1>4, <1>5, <1>7, <1>8, <1>9 DEF HeaderFits

-----------------------------------------------------------------------------
(* The inductive invariant.                                                *)

\* The rows among the first n lines of a file: those that are not empty, without the
\* header; and which of them do not conform.
Rows(s, f, n) ==
  IF s.header THEN [i \in 1 .. Len(FilledTo(f, n)) - 1 |-> FilledTo(f, n)[i + 1]] ELSE FilledTo(f, n)
Breaches(s, f, n) == {i \in DOMAIN Rows(s, f, n) : ~Fits(Rows(s, f, n)[i], s)}

\* The first line should have been the header and is not.
Misfit(s, f, n) ==
  s.header /\ FilledTo(f, n) # <<>> /\ ~HeaderFits(FilledTo(f, n)[1], s)

\* The first n lines have been read: each row of them is counted as what it is; the line
\* read next is the one behind them unless one of them was the first breach and ends it.
Counted(stop, s, f, n, x, h, r) ==
  /\ h <=> s.header /\ FilledTo(f, n) # <<>>
  /\ r.valid <=> Breaches(s, f, n) = {}
  /\ r.total = Len(Rows(s, f, n))
  /\ r.bad = Cardinality(Breaches(s, f, n))
  /\ r.good + r.bad = r.total
  /\ IF stop /\ Breaches(s, f, n) # {}
     THEN Breaches(s, f, n) = {Len(Rows(s, f, n))} /\ x = Len(f) + 1
     ELSE x = n + 1

Progress(stop, s, f, n, x, h, r) ==
  /\ ~r.valid => r.errors # <<>>
  /\ IF Misfit(s, f, n) THEN ~r.valid /\ x \in {n + 1, Len(f) + 1}
     ELSE Counted(stop, s, f, n, x, h, r)

Result ==
  [valid : BOOLEAN, total : Nat, good : Nat, bad : Nat, warned : Nat, errors : Seq(Report)]

TypeInv ==
  /\ DOMAIN schemas = Names
  /\ \A n \in Names : \A v \in DOMAIN schemas[n] : schemas[n][v] \in Schemas
  /\ header \in BOOLEAN /\ result \in Result /\ stop_on_first_error \in BOOLEAN

ReadingInv ==
  phase = "reading" =>
    /\ schema \in Schemas /\ file \in Files
    /\ \E n \in 0 .. Len(file) : Progress(stop_on_first_error, schema, file, n, next, header, result)

IInv == TypeInv /\ ReadingInv /\ VerdictExact

\* What VerdictExact says of a schema, a file and the result.
Verdict(stop, s, f, r) ==
  LET all == FilledTo(f, Len(f))
      data == IF s.header THEN Tail(all) ELSE all
      breaches == {i \in DOMAIN data : ~Fits(data[i], s)}
      read == IF stop /\ breaches # {} THEN Min(breaches) ELSE Len(data)
      Named(d) == \E k \in DOMAIN all[1] : all[1][k] \in d.names
      named == \A d \in Range(s.fields) : d.required => Named(d)
      known == \A k \in DOMAIN all[1] : \E d \in Range(s.fields) : all[1][k] \in d.names
  IN  IF s.header /\ ~named THEN ~r.valid
      ELSE (s.header => s.extra \/ ~s.strict \/ known) =>
             /\ r.valid <=> breaches = {}
             /\ r.total = read
             /\ r.bad = Cardinality({i \in breaches : i <= read})
             /\ r.good = read - r.bad

LEMMA VerdictIs ==
  VerdictExact <=>
    (phase = "idle" /\ next = Len(file) + 1 /\ FilledTo(file, Len(file)) # <<>>
       => Verdict(stop_on_first_error, schema, file, result))
<1>1. Filled = FilledTo(file, Len(file))
  BY DEF Filled, FilledTo
<1>2. \A line : Conforms(line) <=> Fits(line, schema)
  BY DEF Conforms, Fits, Shown
<1>3. QED
  BY <1>1, <1>2 DEF VerdictExact, Verdict

LEMMA VerdictIsThen ==
  VerdictExact' <=>
    (phase' = "idle" /\ next' = Len(file') + 1 /\ FilledTo(file', Len(file')) # <<>>
       => Verdict(stop_on_first_error', schema', file', result'))
<1>1. Filled' = FilledTo(file', Len(file'))
  BY DEF Filled, FilledTo
<1>2. \A line : Conforms(line)' <=> Fits(line, schema')
  BY DEF Conforms, Fits, Shown
<1>3. QED
  BY <1>1, <1>2 DEF VerdictExact, Verdict

-----------------------------------------------------------------------------
(* A file that has been read.                                              *)

LEMMA HeaderIs ==
  ASSUME NEW s, SchemaOk(s), NEW line \in Seq(Cells)
  PROVE  /\ Missing(line, s) = {} <=>
              \A d \in Range(s.fields) : d.required => \E k \in DOMAIN line : line[k] \in d.names
         /\ Extra(line, s) = {} <=>
              s.extra \/ \A k \in DOMAIN line : \E d \in Range(s.fields) : line[k] \in d.names
<1>1. Range(s.fields) = {s.fields[i] : i \in DOMAIN s.fields}
  BY DEF Range
<1>2. QED
  BY <1>1 DEF Missing, Extra

LEMMA RowsGrow ==
  ASSUME NEW s, NEW f \in Seq(Seq(Cells)), NEW n \in 0 .. Len(f)
  PROVE  /\ Rows(s, f, n) \in Seq(Seq(Cells)) /\ Rows(s, f, Len(f)) \in Seq(Seq(Cells))
         /\ Begins(Rows(s, f, n), Rows(s, f, Len(f)))
<1>1. Len(f) \in 0 .. Len(f)
  OBVIOUS
<1>2. /\ FilledTo(f, n) \in Seq(Seq(Cells)) /\ FilledTo(f, Len(f)) \in Seq(Seq(Cells))
      /\ Begins(FilledTo(f, n), FilledTo(f, Len(f)))
  BY <1>1, FilledStep, FilledGrows
<1>3. ASSUME NEW A, NEW p \in Seq(A)
      PROVE  /\ [i \in 1 .. Len(p) - 1 |-> p[i + 1]] \in Seq(A)
             /\ Len([i \in 1 .. Len(p) - 1 |-> p[i + 1]]) = IF p = <<>> THEN 0 ELSE Len(p) - 1
  <2>1. Len(p) \in Nat /\ (p = <<>> <=> Len(p) = 0) /\ \A i \in 1 .. Len(p) : p[i] \in A
    OBVIOUS
  <2>2. CASE p = <<>>
    <3>1. 1 .. Len(p) - 1 = 1 .. 0
      BY <2>1, <2>2
    <3>2. [i \in 1 .. 0 |-> p[i + 1]] \in Seq(A) /\ Len([i \in 1 .. 0 |-> p[i + 1]]) = 0
      OBVIOUS
    <3>3. QED
      BY <2>2, <3>1, <3>2
  <2>3. CASE p # <<>>
    <3>1. PICK m \in Nat : m = Len(p) - 1
      BY <2>1, <2>3
    <3>2. \A i \in 1 .. m : p[i + 1] \in A
      BY <2>1, <3>1
    <3>3. [i \in 1 .. m |-> p[i + 1]] \in Seq(A) /\ Len([i \in 1 .. m |-> p[i + 1]]) = m
      BY <3>2
    <3>4. QED
      BY <2>3, <3>1, <3>3
  <2>4. QED
    BY <2>2, <2>3
<1>4. ASSUME NEW A, NEW p \in Seq(A), NEW q \in Seq(A), Begins(p, q)
      PROVE  Begins([i \in 1 .. Len(p) - 1 |-> p[i + 1]], [i \in 1 .. Len(q) - 1 |-> q[i + 1]])
  <2>1. Len(p) \in Nat /\ Len(q) \in Nat /\ Len(p) <= Len(q) /\ (p = <<>> <=> Len(p) = 0) /\ (q = <<>> <=> Len(q) = 0)
    BY <1>4 DEF Begins
  <2>2. \A i \in 1 .. Len(p) - 1 : i + 1 \in 1 .. Len(p) /\ i \in 1 .. Len(q) - 1
    BY <2>1
  <2>3. Len([i \in 1 .. Len(p) - 1 |-> p[i + 1]]) = IF p = <<>> THEN 0 ELSE Len(p) - 1
    BY <1>3
  <2>4. Len([i \in 1 .. Len(q) - 1 |-> q[i + 1]]) = IF q = <<>> THEN 0 ELSE Len(q) - 1
    BY <1>3
  <2>5. \A i \in 1 .. Len(p) - 1 : q[i + 1] = p[i + 1]
    BY <1>4, <2>2 DEF Begins
  <2> DEFINE p2 == [i \in 1 .. Len(p) - 1 |-> p[i + 1]]
             q2 == [i \in 1 .. Len(q) - 1 |-> q[i + 1]]
  <2>6. \A i \in 1 .. Len(p) - 1 : q2[i] = p2[i]
    BY <2>2, <2>5
  <2>7. Len(p2) = (IF p = <<>> THEN 0 ELSE Len(p) - 1) /\ Len(q2) = (IF q = <<>> THEN 0 ELSE Len(q) - 1)
    BY <2>3, <2>4
  <2> HIDE DEF p2, q2
  <2>8. Len(p2) <= Len(q2)
    BY <2>1, <2>7
  <2>9. 1 .. Len(p2) \subseteq 1 .. Len(p) - 1
    BY <2>1, <2>7
  <2>10. Begins(p2, q2)
    BY <2>6, <2>8, <2>9 DEF Begins
  <2>11. QED
    BY <2>10 DEF p2, q2
<1>5. QED
  BY <1>2, <1>3, <1>4 DEF Rows

LEMMA ReadToTheEnd ==
  ASSUME NEW stop \in BOOLEAN, NEW s, SchemaOk(s), NEW f \in Seq(Seq(Cells)), NEW n \in 0 .. Len(f),
         NEW h \in BOOLEAN, NEW r \in Result, FilledTo(f, Len(f)) # <<>>,
         Progress(stop, s, f, n, Len(f) + 1, h, r)
  PROVE  Verdict(stop, s, f, r)
<1> DEFINE all == FilledTo(f, Len(f))
           data == IF s.header THEN Tail(all) ELSE all
           done == FilledTo(f, n)
           part == Rows(s, f, n)
           breaches == {i \in DOMAIN data : ~Fits(data[i], s)}
           named == \A d \in Range(s.fields) : d.required => \E k \in DOMAIN all[1] : all[1][k] \in d.names
           known == \A k \in DOMAIN all[1] : \E d \in Range(s.fields) : all[1][k] \in d.names
           read == IF stop /\ breaches # {} THEN Min(breaches) ELSE Len(data)
<1>1. Len(f) \in Nat /\ Len(f) \in 0 .. Len(f) /\ n \in Nat
  OBVIOUS
<1>2. /\ all \in Seq(Seq(Cells)) /\ all # <<>> /\ all[1] \in Seq(Cells)
      /\ done \in Seq(Seq(Cells)) /\ Begins(done, all)
      /\ part \in Seq(Seq(Cells)) /\ Rows(s, f, Len(f)) \in Seq(Seq(Cells)) /\ Begins(part, Rows(s, f, Len(f)))
  <2>1. all \in Seq(Seq(Cells)) /\ all # <<>> /\ done \in Seq(Seq(Cells)) /\ Begins(done, all)
    BY <1>1, FilledStep, FilledGrows
  <2>2. \A A : \A q \in Seq(A) : q # <<>> => q[1] \in A
    OBVIOUS
  <2> HIDE DEF all, done, part
  <2>3. all[1] \in Seq(Cells)
    BY <2>1, <2>2
  <2>4. QED
    BY <2>1, <2>3, RowsGrow DEF part
<1>3. data = Rows(s, f, Len(f))
  <2>1. ASSUME NEW A, NEW q \in Seq(A), q # <<>> PROVE Tail(q) = [i \in 1 .. Len(q) - 1 |-> q[i + 1]]
    <3>1. Len(q) \in Nat \ {0}
      BY <2>1
    <3>2. Tail(q) \in Seq(A) /\ Len(Tail(q)) = Len(q) - 1 /\ \A i \in 1 .. Len(q) - 1 : Tail(q)[i] = q[i + 1]
      BY <2>1, <3>1
    <3>3. Tail(q) = [i \in 1 .. Len(Tail(q)) |-> Tail(q)[i]]
      <4>1. \A t \in Seq(A) : t = [i \in 1 .. Len(t) |-> t[i]]
        OBVIOUS
      <4>2. QED
        BY <3>2, <4>1
    <3>4. QED
      BY <3>2, <3>3
  <2> HIDE DEF all
  <2>2. Tail(all) = [i \in 1 .. Len(all) - 1 |-> all[i + 1]]
    BY <1>2, <2>1
  <2>3. QED
    BY <2>2 DEF Rows, all
<1>4. done # <<>> => done[1] = all[1]
  <2>1. ASSUME NEW A, NEW p \in Seq(A), p # <<>>, NEW q \in Seq(A), Begins(p, q) PROVE p[1] = q[1]
    BY <2>1 DEF Begins
  <2> HIDE DEF all, done
  <2>2. QED
    BY <1>2, <2>1
<1>5. HeaderFits(all[1], s) <=> named /\ (s.extra \/ known \/ ~s.strict)
  <2> HIDE DEF all
  <2>1. QED
    BY <1>2, HeaderIs DEF HeaderFits
<1>6. Verdict(stop, s, f, r) <=>
        IF s.header /\ ~named THEN ~r.valid
        ELSE (s.header => s.extra \/ ~s.strict \/ known) =>
               /\ r.valid <=> breaches = {}
               /\ r.total = read
               /\ r.bad = Cardinality({i \in breaches : i <= read})
               /\ r.good = read - r.bad
  BY DEF Verdict
<1> HIDE DEF all, data, done, part, breaches, named, known, read
<1>7. CASE Misfit(s, f, n)
  <2>1. s.header /\ ~HeaderFits(all[1], s)
    BY <1>4, <1>7 DEF Misfit, done
  <2>2. ~r.valid
    BY <1>7 DEF Progress
  <2>3. QED
    BY <1>5, <1>6, <2>1, <2>2
<1>8. CASE ~Misfit(s, f, n)
  <2>1. Counted(stop, s, f, n, Len(f) + 1, h, r)
    BY <1>8 DEF Progress
  <2> DEFINE bad == Breaches(s, f, n)
  <2>2. bad = {i \in DOMAIN part : ~Fits(part[i], s)}
    BY DEF Breaches, part
  <2>3. ~(stop /\ bad # {}) => n = Len(f)
    BY <1>1, <2>1 DEF Counted
  <2> HIDE DEF bad
  <2>4. /\ r.valid <=> bad = {}
        /\ r.total = Len(part) /\ r.bad = Cardinality(bad) /\ r.good + r.bad = r.total
        /\ stop /\ bad # {} => bad = {Len(part)}
    BY <2>1 DEF Counted, bad, part
  <2>5. s.header => HeaderFits(all[1], s)
    <3>1. done # <<>>
      <4>1. CASE stop /\ bad # {}
        <5>1. PICK k \in DOMAIN part : TRUE
          BY <2>2, <4>1
        <5>2. done = <<>> => part = <<>>
          <6>1. [i \in 1 .. Len(<<>>) - 1 |-> (<<>>)[i + 1]] = <<>>
            OBVIOUS
          <6>2. QED
            BY <6>1 DEF done, part, Rows
        <5>3. QED
          BY <5>1, <5>2
      <4>2. CASE ~(stop /\ bad # {})
        BY <1>2, <2>3, <4>2 DEF done, all
      <4>3. QED
        BY <4>1, <4>2
    <3>2. QED
      BY <1>4, <1>8, <3>1 DEF Misfit, done
  <2>6. /\ (breaches = {} <=> bad = {})
        /\ read = Len(part) /\ {i \in breaches : i <= read} = bad
    <3>1. CASE stop /\ bad # {}
      <4>1. Len(part) \in Nat /\ Len(part) \in DOMAIN part /\ DOMAIN part = 1 .. Len(part)
        BY <1>2, <2>2, <2>4, <3>1
      <4>2. /\ DOMAIN data = 1 .. Len(data) /\ Len(data) \in Nat /\ Len(part) <= Len(data)
            /\ \A i \in 1 .. Len(part) : data[i] = part[i]
        BY <1>2, <1>3 DEF Begins
      <4>3. Len(part) \in breaches
        <5>1. Len(part) \in bad
          BY <2>4, <3>1
        <5>2. ~Fits(part[Len(part)], s) /\ Len(part) \in 1 .. Len(part)
          BY <2>2, <4>1, <5>1
        <5>3. data[Len(part)] = part[Len(part)] /\ Len(part) \in DOMAIN data
          BY <4>1, <4>2, <5>2
        <5>4. QED
          BY <5>2, <5>3 DEF breaches
      <4>4. \A i \in breaches : i \in Nat /\ Len(part) <= i
        <5>1. ASSUME NEW i \in 1 .. Len(data), i < Len(part) PROVE Fits(data[i], s)
          <6>1. i \in DOMAIN part /\ i \notin bad /\ data[i] = part[i]
            BY <2>4, <3>1, <4>1, <4>2, <5>1
          <6>2. QED
            BY <2>2, <6>1
        <5>2. QED
          BY <4>1, <4>2, <5>1 DEF breaches
      <4>5. read = Len(part)
        <5>1. read = CHOOSE i \in breaches : \A j \in breaches : i <= j
          BY <3>1, <4>3 DEF read, Min
        <5>2. \A i \in breaches : (\A j \in breaches : i <= j) => i = Len(part)
          BY <4>1, <4>3, <4>4
        <5>3. QED
          BY <4>3, <4>4, <5>1, <5>2
      <4>6. {i \in breaches : i <= read} = {Len(part)}
        BY <4>1, <4>3, <4>4, <4>5
      <4>7. QED
        BY <2>4, <3>1, <4>3, <4>5, <4>6
    <3>2. CASE ~(stop /\ bad # {})
      <4>1. data = part
        BY <1>3, <2>3, <3>2 DEF part
      <4>2. breaches = bad
        BY <2>2, <4>1 DEF breaches
      <4>3. read = Len(part)
        BY <3>2, <4>1, <4>2 DEF read
      <4>4. \A i \in bad : i <= Len(part)
        <5>1. DOMAIN part = 1 .. Len(part)
          BY <1>2
        <5>2. QED
          BY <2>2, <5>1
      <4>5. QED
        BY <4>2, <4>3, <4>4
    <3>3. QED
      BY <3>1, <3>2
  <2>7. r.good \in Int /\ r.bad \in Int /\ r.total \in Int
    BY DEF Result
  <2>8. r.good = read - r.bad
    BY <2>4, <2>6, <2>7
  <2>9. QED
    BY <1>5, <1>6, <2>4, <2>5, <2>6, <2>8
<1>9. QED
  BY <1>7, <1>8

-----------------------------------------------------------------------------
(* A line more.                                                            *)

LEMMA EmptyStep ==
  ASSUME NEW R, NEW s, NEW f \in Seq(R), NEW n \in 0 .. Len(f) - 1, f[n + 1] = <<>>
  PROVE  FilledTo(f, n + 1) = FilledTo(f, n) /\ Rows(s, f, n + 1) = Rows(s, f, n)
<1>1. Len(f) \in Nat /\ n \in 0 .. Len(f) /\ f[n + 1] \in R
  OBVIOUS
<1>2. FilledTo(f, n + 1) = FilledTo(f, n)
  BY <1>1, FilledStep
<1>3. QED
  BY <1>2 DEF Rows

LEMMA RowsStep ==
  ASSUME NEW R, NEW s, NEW f \in Seq(R), NEW n \in 0 .. Len(f) - 1
  PROVE  /\ f[n + 1] = <<>> => FilledTo(f, n + 1) = FilledTo(f, n) /\ Rows(s, f, n + 1) = Rows(s, f, n)
         /\ f[n + 1] # <<>> =>
              /\ FilledTo(f, n + 1) # <<>>
              /\ FilledTo(f, n + 1)[1] = IF FilledTo(f, n) = <<>> THEN f[n + 1] ELSE FilledTo(f, n)[1]
              /\ Rows(s, f, n + 1) = IF s.header /\ FilledTo(f, n) = <<>> THEN <<>>
                                     ELSE Append(Rows(s, f, n), f[n + 1])
              /\ s.header /\ FilledTo(f, n) = <<>> => Rows(s, f, n) = <<>>
<1>1. Len(f) \in Nat /\ n \in 0 .. Len(f) /\ f[n + 1] \in R
  OBVIOUS
<1>2. FilledTo(f, n) \in Seq(R)
  BY <1>1, FilledStep
<1>3. CASE f[n + 1] = <<>>
  BY <1>3, EmptyStep
<1>4. CASE f[n + 1] # <<>>
  <2>1. FilledTo(f, n + 1) = Append(FilledTo(f, n), f[n + 1])
    BY <1>4, FilledStep
  <2>2. ASSUME NEW A, NEW p \in Seq(A), NEW a \in A
        PROVE  /\ Append(p, a) # <<>> /\ Append(p, a)[1] = IF p = <<>> THEN a ELSE p[1]
    <3>1. (p = <<>> <=> Len(p) = 0) /\ (p # <<>> => 1 \in 1 .. Len(p)) /\ Len(p) \in Nat
      OBVIOUS
    <3>2. CASE p = <<>>
      <4>1. Len(p) + 1 = 1
        BY <3>1, <3>2
      <4>2. QED
        BY <3>2, <4>1, Appending
    <3>3. CASE p # <<>>
      BY <3>1, <3>3, Appending
    <3>4. QED
      BY <3>2, <3>3
  <2>3. ASSUME NEW A, NEW p \in Seq(A), p # <<>>, NEW a \in A
        PROVE  [i \in 1 .. Len(Append(p, a)) - 1 |-> Append(p, a)[i + 1]]
                 = Append([i \in 1 .. Len(p) - 1 |-> p[i + 1]], a)
    <3>1. PICK m \in Nat : m + 1 = Len(p)
      <4>1. Len(p) \in Nat /\ Len(p) # 0
        BY <2>3
      <4>2. Len(p) - 1 \in Nat /\ (Len(p) - 1) + 1 = Len(p)
        BY <4>1
      <4>3. QED
        BY <4>2, Zenon
    <3>2. Len(Append(p, a)) - 1 = m + 1 /\ Len(p) - 1 = m
      BY <3>1
    <3>3. \A i \in 1 .. m : p[i + 1] \in A
      BY <3>1
    <3> DEFINE q == [i \in 1 .. m |-> p[i + 1]]
               l == [i \in 1 .. m + 1 |-> Append(p, a)[i + 1]]
    <3>4. q \in Seq(A) /\ Len(q) = m
      BY <3>3
    <3>5. \A i \in 1 .. m : Append(p, a)[i + 1] = p[i + 1]
      BY <3>1
    <3>6. Append(p, a)[(m + 1) + 1] = a
      BY <3>1
    <3>7. \A i \in 1 .. m + 1 : Append(p, a)[i + 1] = IF i = m + 1 THEN a ELSE q[i]
      <4>1. \A i \in 1 .. m + 1 : i # m + 1 => i \in 1 .. m
        OBVIOUS
      <4>2. QED
        BY <3>5, <3>6, <4>1
    <3> HIDE DEF q
    <3>8. l = [i \in 1 .. m + 1 |-> IF i = m + 1 THEN a ELSE q[i]]
      BY <3>7
    <3> HIDE DEF l
    <3>9. Append(q, a) = [i \in 1 .. m + 1 |-> IF i = m + 1 THEN a ELSE q[i]]
      <4>1. \A t \in Seq(A) : Append(t, a) = [i \in 1 .. Len(t) + 1 |-> IF i = Len(t) + 1 THEN a ELSE t[i]]
        <5> SUFFICES ASSUME NEW t \in Seq(A)
                     PROVE  Append(t, a) = [i \in 1 .. Len(t) + 1 |-> IF i = Len(t) + 1 THEN a ELSE t[i]]
          OBVIOUS
        <5>1. /\ DOMAIN Append(t, a) = 1 .. Len(t) + 1 /\ Len(t) \in Nat
              /\ \A k \in 1 .. Len(t) : Append(t, a)[k] = t[k]
              /\ Append(t, a)[Len(t) + 1] = a
          BY Appending
        <5>2. Append(t, a) = [i \in 1 .. Len(t) + 1 |-> Append(t, a)[i]]
          <6>1. \A u \in Seq(A) : u = [i \in 1 .. Len(u) |-> u[i]]
            OBVIOUS
          <6>2. Append(t, a) \in Seq(A) /\ Len(Append(t, a)) = Len(t) + 1
            BY Appending
          <6>3. QED
            BY <6>1, <6>2
        <5>3. \A i \in 1 .. Len(t) + 1 : i # Len(t) + 1 => i \in 1 .. Len(t)
          BY <5>1
        <5>4. QED
          BY <5>1, <5>2, <5>3
      <4>2. QED
        BY <3>4, <4>1
    <3>10. QED
      BY <3>2, <3>8, <3>9 DEF q, l
  <2>4. ASSUME NEW A, NEW p \in Seq(A), p = <<>>, NEW a \in A
        PROVE  /\ [i \in 1 .. Len(Append(p, a)) - 1 |-> Append(p, a)[i + 1]] = <<>>
               /\ [i \in 1 .. Len(p) - 1 |-> p[i + 1]] = <<>>
    <3>1. Len(p) = 0 /\ Len(Append(p, a)) = 1
      BY <2>4
    <3>2. 1 .. Len(p) - 1 = 1 .. 0 /\ 1 .. Len(Append(p, a)) - 1 = 1 .. 0
      BY <3>1
    <3>3. \A g : [i \in 1 .. 0 |-> g[i + 1]] \in Seq(A) /\ Len([i \in 1 .. 0 |-> g[i + 1]]) = 0
      OBVIOUS
    <3>4. \A g : [i \in 1 .. 0 |-> g[i + 1]] = <<>>
      BY <3>3
    <3>5. QED
      BY <3>2, <3>4
  <2>10. FilledTo(f, n) \in Seq(R) /\ f[n + 1] \in R
    BY <1>1, <1>2
  <2>5. /\ FilledTo(f, n + 1) # <<>>
        /\ FilledTo(f, n + 1)[1] = IF FilledTo(f, n) = <<>> THEN f[n + 1] ELSE FilledTo(f, n)[1]
    <3>1. \A p \in Seq(R), a \in R : Append(p, a) # <<>> /\ Append(p, a)[1] = IF p = <<>> THEN a ELSE p[1]
      BY <2>2
    <3>2. /\ Append(FilledTo(f, n), f[n + 1]) # <<>>
          /\ Append(FilledTo(f, n), f[n + 1])[1] = IF FilledTo(f, n) = <<>> THEN f[n + 1] ELSE FilledTo(f, n)[1]
      BY <2>10, <3>1
    <3>3. QED
      BY <2>1, <3>2
  <2>6. CASE s.header /\ FilledTo(f, n) = <<>>
    <3>1. /\ [i \in 1 .. Len(FilledTo(f, n + 1)) - 1 |-> FilledTo(f, n + 1)[i + 1]] = <<>>
          /\ [i \in 1 .. Len(FilledTo(f, n)) - 1 |-> FilledTo(f, n)[i + 1]] = <<>>
      <4>1. ASSUME NEW p \in Seq(R), p = <<>>, NEW a \in R
            PROVE  /\ [i \in 1 .. Len(Append(p, a)) - 1 |-> Append(p, a)[i + 1]] = <<>>
                   /\ [i \in 1 .. Len(p) - 1 |-> p[i + 1]] = <<>>
        BY <2>4, <4>1
      <4>2. QED
        BY <2>1, <2>6, <2>10, <4>1
    <3>2. QED
      BY <1>4, <2>5, <2>6, <3>1 DEF Rows
  <2>7. CASE s.header /\ FilledTo(f, n) # <<>>
    <3>1. [i \in 1 .. Len(FilledTo(f, n + 1)) - 1 |-> FilledTo(f, n + 1)[i + 1]]
            = Append([i \in 1 .. Len(FilledTo(f, n)) - 1 |-> FilledTo(f, n)[i + 1]], f[n + 1])
      <4>1. ASSUME NEW p \in Seq(R), p # <<>>, NEW a \in R
            PROVE  [i \in 1 .. Len(Append(p, a)) - 1 |-> Append(p, a)[i + 1]]
                     = Append([i \in 1 .. Len(p) - 1 |-> p[i + 1]], a)
        BY <2>3, <4>1
      <4>2. QED
        BY <2>1, <2>7, <2>10, <4>1
    <3>2. QED
      BY <1>4, <2>5, <2>7, <3>1 DEF Rows
  <2>8. CASE ~s.header
    BY <1>4, <2>1, <2>5, <2>8 DEF Rows
  <2>9. QED
    BY <2>6, <2>7, <2>8
<1>5. QED
  BY <1>3, <1>4

LEMMA BreachesFinite ==
  ASSUME NEW s, NEW f \in Seq(Seq(Cells)), NEW n \in 0 .. Len(f)
  PROVE  /\ IsFiniteSet(Breaches(s, f, n)) /\ Cardinality(Breaches(s, f, n)) \in Nat
         /\ Breaches(s, f, n) \subseteq 1 .. Len(Rows(s, f, n))
<1>1. Rows(s, f, n) \in Seq(Seq(Cells))
  BY RowsGrow
<1>2. DOMAIN Rows(s, f, n) = 1 .. Len(Rows(s, f, n)) /\ Len(Rows(s, f, n)) \in Nat
  BY <1>1
<1>3. Breaches(s, f, n) \subseteq 1 .. Len(Rows(s, f, n))
  BY <1>2 DEF Breaches
<1>4. IsFiniteSet(1 .. Len(Rows(s, f, n)))
  BY <1>2, FS_Interval
<1>5. IsFiniteSet(Breaches(s, f, n))
  BY <1>3, <1>4, FS_Subset
<1>6. QED
  BY <1>3, <1>5, FS_CardinalityType

LEMMA BreachesStep ==
  ASSUME NEW s, NEW f \in Seq(Seq(Cells)), NEW n \in 0 .. Len(f) - 1, f[n + 1] # <<>>,
         ~(s.header /\ FilledTo(f, n) = <<>>)
  PROVE  /\ Len(Rows(s, f, n + 1)) = Len(Rows(s, f, n)) + 1 /\ Len(Rows(s, f, n)) \in Nat
         /\ Breaches(s, f, n + 1) = Breaches(s, f, n)
               \cup (IF Fits(f[n + 1], s) THEN {} ELSE {Len(Rows(s, f, n)) + 1})
         /\ Cardinality(Breaches(s, f, n + 1)) = Cardinality(Breaches(s, f, n)) + One(~Fits(f[n + 1], s))
<1> DEFINE part == Rows(s, f, n)
           line == f[n + 1]
<1>1. Len(f) \in Nat /\ n \in 0 .. Len(f) /\ line \in Seq(Cells)
  OBVIOUS
<1>2. part \in Seq(Seq(Cells)) /\ Rows(s, f, n + 1) = Append(part, line)
  <2>1. part \in Seq(Seq(Cells))
    BY <1>1, RowsGrow
  <2>2. Rows(s, f, n + 1) = IF s.header /\ FilledTo(f, n) = <<>> THEN <<>> ELSE Append(part, line)
    BY RowsStep
  <2>3. QED
    BY <2>1, <2>2
<1>3. /\ IsFiniteSet(Breaches(s, f, n)) /\ Cardinality(Breaches(s, f, n)) \in Nat
      /\ Breaches(s, f, n) \subseteq 1 .. Len(part)
  BY <1>1, BreachesFinite
<1> HIDE DEF part, line
<1>4. /\ Len(part) \in Nat /\ Len(Append(part, line)) = Len(part) + 1
      /\ DOMAIN part = 1 .. Len(part) /\ DOMAIN Append(part, line) = 1 .. Len(part) + 1
      /\ \A k \in 1 .. Len(part) : Append(part, line)[k] = part[k]
      /\ Append(part, line)[Len(part) + 1] = line
  BY <1>1, <1>2, Appending
<1>5. Breaches(s, f, n) = {i \in 1 .. Len(part) : ~Fits(part[i], s)}
  BY <1>4 DEF Breaches, part
<1>6. Breaches(s, f, n + 1) = {i \in 1 .. Len(part) + 1 : ~Fits(Append(part, line)[i], s)}
  BY <1>2, <1>4 DEF Breaches
<1>7. Breaches(s, f, n + 1) = Breaches(s, f, n) \cup (IF Fits(line, s) THEN {} ELSE {Len(part) + 1})
  <2>1. \A i \in 1 .. Len(part) + 1 : i \in 1 .. Len(part) \/ i = Len(part) + 1
    BY <1>4
  <2>2. \A i \in 1 .. Len(part) : i \in 1 .. Len(part) + 1
    BY <1>4
  <2>3. Len(part) + 1 \in 1 .. Len(part) + 1
    BY <1>4
  <2>4. QED
    BY <1>4, <1>5, <1>6, <2>1, <2>2, <2>3
<1>8. Len(part) + 1 \notin Breaches(s, f, n)
  BY <1>3, <1>4
<1>9. Cardinality(Breaches(s, f, n + 1)) = Cardinality(Breaches(s, f, n)) + One(~Fits(line, s))
  <2>1. CASE Fits(line, s)
    <3>1. Breaches(s, f, n + 1) = Breaches(s, f, n) /\ One(~Fits(line, s)) = 0
      BY <1>7, <2>1 DEF One
    <3>2. QED
      BY <1>3, <3>1
  <2>2. CASE ~Fits(line, s)
    BY <1>3, <1>7, <1>8, <2>2, FS_AddElement DEF One
  <2>3. QED
    BY <2>1, <2>2
<1>10. QED
  BY <1>2, <1>4, <1>7, <1>9 DEF part, line

\* Lines that are skipped, and headers.
LEMMA SkipsStep ==
  ASSUME NEW stop, NEW s, NEW f \in Seq(Seq(Cells)), NEW n \in 0 .. Len(f) - 1, NEW h \in BOOLEAN,
         NEW r \in Result, f[n + 1] = <<>>, Progress(stop, s, f, n, n + 1, h, r)
  PROVE  Progress(stop, s, f, n + 1, n + 2, h, r)
<1>1. /\ FilledTo(f, n + 1) = FilledTo(f, n) /\ Rows(s, f, n + 1) = Rows(s, f, n)
  <2> DEFINE R == Seq(Cells)
  <2>1. f \in Seq(R)
    OBVIOUS
  <2> HIDE DEF R
  <2>2. QED
    BY <2>1, EmptyStep
<1>2. Breaches(s, f, n + 1) = Breaches(s, f, n) /\ (Misfit(s, f, n + 1) <=> Misfit(s, f, n))
  <2>1. Misfit(s, f, n + 1) <=> Misfit(s, f, n)
    BY <1>1 DEF Misfit
  <2>2. \A u, v : u = v => {i \in DOMAIN u : ~Fits(u[i], s)} = {i \in DOMAIN v : ~Fits(v[i], s)}
    OBVIOUS
  <2>3. Breaches(s, f, n + 1) = Breaches(s, f, n)
    BY <1>1, <2>2 DEF Breaches
  <2>4. QED
    BY <2>1, <2>3
<1>3. Len(f) \in Nat /\ n + 1 # Len(f) + 1 /\ (n + 1) + 1 = n + 2
  OBVIOUS
<1>4. QED
  BY <1>1, <1>2, <1>3 DEF Progress, Counted

LEMMA HeaderStep ==
  ASSUME NEW stop, NEW s, NEW f \in Seq(Seq(Cells)), NEW n \in 0 .. Len(f) - 1, NEW h \in BOOLEAN,
         NEW r \in Result, NEW r2 \in Result, f[n + 1] # <<>>, Progress(stop, s, f, n, n + 1, h, r),
         ~h, s.header, HeaderFits(f[n + 1], s),
         r2.valid = r.valid, r2.total = r.total, r2.good = r.good, r2.bad = r.bad,
         r.errors # <<>> => r2.errors # <<>>
  PROVE  Progress(stop, s, f, n + 1, n + 2, TRUE, r2)
<1>1. Len(f) \in Nat /\ n \in 0 .. Len(f) /\ n + 1 # Len(f) + 1 /\ (n + 1) + 1 = n + 2
  OBVIOUS
<1>2. /\ FilledTo(f, n + 1) # <<>>
      /\ FilledTo(f, n + 1)[1] = IF FilledTo(f, n) = <<>> THEN f[n + 1] ELSE FilledTo(f, n)[1]
      /\ FilledTo(f, n) = <<>> => Rows(s, f, n + 1) = <<>> /\ Rows(s, f, n) = <<>>
  BY RowsStep
<1>3. CASE Misfit(s, f, n)
  <2>1. Misfit(s, f, n + 1)
    BY <1>2, <1>3 DEF Misfit
  <2>2. QED
    BY <1>1, <1>3, <2>1 DEF Progress
<1>4. CASE ~Misfit(s, f, n)
  <2>1. Counted(stop, s, f, n, n + 1, h, r)
    BY <1>4 DEF Progress
  <2>2. FilledTo(f, n) = <<>>
    BY <2>1 DEF Counted
  <2>3. ~Misfit(s, f, n + 1)
    BY <1>2, <2>2 DEF Misfit
  <2>4. Rows(s, f, n + 1) = <<>> /\ Rows(s, f, n) = <<>>
    BY <1>2, <2>2
  <2>5. Breaches(s, f, n + 1) = {} /\ Breaches(s, f, n) = {}
    BY <2>4 DEF Breaches
  <2>6. Counted(stop, s, f, n + 1, n + 2, TRUE, r2)
    BY <1>1, <1>2, <2>1, <2>4, <2>5 DEF Counted
  <2>7. QED
    BY <1>4, <2>3, <2>6 DEF Progress
<1>5. QED
  BY <1>3, <1>4

\* A row, when no header is asked for any more.
ARow(s, f, n, h, r, r2, fits) ==
  /\ f \in Seq(Seq(Cells)) /\ n \in 0 .. Len(f) - 1 /\ h \in BOOLEAN
  /\ r \in Result /\ r2 \in Result /\ fits \in BOOLEAN
  /\ f[n + 1] # <<>> /\ (h \/ ~s.header) /\ (fits <=> Fits(f[n + 1], s))
  /\ r2.valid = (r.valid /\ fits) /\ r2.total = r.total + 1
  /\ r2.good = r.good + One(fits) /\ r2.bad = r.bad + One(~fits)
  /\ r.errors # <<>> \/ ~fits => r2.errors # <<>>

LEMMA RowStep ==
  ASSUME NEW s, NEW f, NEW n, NEW h, NEW r, NEW r2, NEW fits, NEW stop \in BOOLEAN,
         ARow(s, f, n, h, r, r2, fits), Progress(stop, s, f, n, n + 1, h, r)
  PROVE  Progress(stop, s, f, n + 1, IF fits \/ ~stop THEN n + 2 ELSE Len(f) + 1, h, r2)
<1> USE DEF ARow
<1> DEFINE x == IF fits \/ ~stop THEN n + 2 ELSE Len(f) + 1
<1>1. Len(f) \in Nat /\ n \in 0 .. Len(f) /\ n + 1 # Len(f) + 1 /\ (n + 1) + 1 = n + 2
  OBVIOUS
<1>2. /\ FilledTo(f, n + 1) # <<>>
      /\ FilledTo(f, n + 1)[1] = IF FilledTo(f, n) = <<>> THEN f[n + 1] ELSE FilledTo(f, n)[1]
  BY RowsStep
<1>3. ~r2.valid => r2.errors # <<>>
  BY DEF Progress
<1>4. CASE Misfit(s, f, n)
  <2>1. Misfit(s, f, n + 1)
    BY <1>2, <1>4 DEF Misfit
  <2>2. QED
    BY <1>1, <1>3, <1>4, <2>1 DEF Progress
<1>5. CASE ~Misfit(s, f, n)
  <2>1. Counted(stop, s, f, n, n + 1, h, r)
    BY <1>5 DEF Progress
  <2>2. ~(s.header /\ FilledTo(f, n) = <<>>)
    BY <2>1 DEF Counted
  <2>3. ~Misfit(s, f, n + 1)
    BY <1>2, <1>5, <2>2 DEF Misfit
  <2>0. /\ Len(Rows(s, f, n + 1)) = Len(Rows(s, f, n)) + 1 /\ Len(Rows(s, f, n)) \in Nat
        /\ Breaches(s, f, n + 1) = Breaches(s, f, n)
              \cup (IF Fits(f[n + 1], s) THEN {} ELSE {Len(Rows(s, f, n)) + 1})
        /\ Cardinality(Breaches(s, f, n + 1)) = Cardinality(Breaches(s, f, n)) + One(~Fits(f[n + 1], s))
    BY ONLY <2>2, f[n + 1] # <<>>, f \in Seq(Seq(Cells)), n \in 0 .. Len(f) - 1, BreachesStep
  <2> DEFINE bad == Breaches(s, f, n)
             bad2 == Breaches(s, f, n + 1)
             m == Len(Rows(s, f, n))
  <2>4. /\ Len(Rows(s, f, n + 1)) = m + 1 /\ m \in Nat
        /\ bad2 = bad \cup (IF fits THEN {} ELSE {m + 1})
        /\ Cardinality(bad2) = Cardinality(bad) + One(~fits)
    <3>1. /\ Len(Rows(s, f, n + 1)) = m + 1 /\ m \in Nat
          /\ bad2 = bad \cup (IF Fits(f[n + 1], s) THEN {} ELSE {m + 1})
          /\ Cardinality(bad2) = Cardinality(bad) + One(~Fits(f[n + 1], s))
      BY <2>0
    <3> HIDE DEF bad, bad2, m
    <3>2. fits = Fits(f[n + 1], s)
      <4>1. Fits(f[n + 1], s) \in BOOLEAN
        BY DEF Fits
      <4>2. QED
        BY <4>1
    <3>3. QED
      BY <3>1, <3>2
  <2>5. ~stop \/ bad = {}
    BY <1>1, <2>1 DEF Counted
  <2>6. /\ h <=> s.header /\ FilledTo(f, n) # <<>>
        /\ r.valid <=> bad = {}
        /\ r.total = m /\ r.bad = Cardinality(bad) /\ r.good + r.bad = r.total
    BY <2>1 DEF Counted
  <2> HIDE DEF bad, bad2, m
  <2>7. r2.valid <=> bad2 = {}
    BY <2>4, <2>6
  <2>8. r2.total = Len(Rows(s, f, n + 1)) /\ r2.bad = Cardinality(bad2)
    BY <2>4, <2>6
  <2>9. r2.good + r2.bad = r2.total
    <3>1. r.good \in Nat /\ r.bad \in Nat /\ r.total \in Nat
      BY DEF Result
    <3>2. r2.good + r2.bad = (r.good + r.bad) + 1
      <4>1. CASE fits
        <5>1. One(fits) = 1 /\ One(~fits) = 0
          BY <4>1 DEF One
        <5>2. r2.good = r.good + 1 /\ r2.bad = r.bad
          BY <3>1, <5>1
        <5>3. QED
          BY <3>1, <5>2
      <4>2. CASE ~fits
        <5>1. One(fits) = 0 /\ One(~fits) = 1
          BY <4>2 DEF One
        <5>2. PICK a \in Nat, b \in Nat : a = r.good /\ b = r.bad
          BY <3>1
        <5>3. r2.good = a /\ r2.bad = b + 1
          BY <5>1, <5>2
        <5>4. \A p, q \in Nat : p + (q + 1) = (p + q) + 1
          OBVIOUS
        <5>5. a + (b + 1) = (a + b) + 1
          BY <5>4
        <5>6. QED
          BY <5>2, <5>3, <5>5
      <4>3. QED
        BY <4>1, <4>2
    <3>3. QED
      BY <2>6, <3>1, <3>2
  <2>10. IF stop /\ bad2 # {} THEN bad2 = {m + 1} /\ x = Len(f) + 1 ELSE x = n + 2
    <3>1. CASE fits
      <4>1. bad2 = bad
        BY <2>4, <3>1
      <4>2. QED
        BY <2>5, <3>1, <4>1
    <3>2. CASE ~fits
      <4>1. bad2 = bad \cup {m + 1}
        BY <2>4, <3>2
      <4>2. QED
        BY <2>5, <3>2, <4>1
    <3>3. QED
      BY <3>1, <3>2
  <2> HIDE DEF x
  <2>11. Counted(stop, s, f, n + 1, x, h, r2)
    <3>1. (n + 1) + 1 = n + 2
      BY <1>1
    <3>2. h <=> s.header /\ FilledTo(f, n + 1) # <<>>
      BY <1>2, <2>2, <2>6
    <3>3. QED
      BY <2>4, <2>7, <2>8, <2>9, <2>10, <3>1, <3>2 DEF Counted, bad2
  <2>12. QED
    BY <1>3, <2>3, <2>11 DEF Progress, x
<1>6. QED
  BY <1>4, <1>5

\* A line that should have been the header and is not.
LEMMA NoHeaderStep ==
  ASSUME NEW stop, NEW s, NEW f \in Seq(Seq(Cells)), NEW n \in 0 .. Len(f) - 1,
         NEW r \in Result, NEW r2 \in Result, NEW x \in {n + 2, Len(f) + 1},
         f[n + 1] # <<>>, Progress(stop, s, f, n, n + 1, FALSE, r),
         s.header, ~HeaderFits(f[n + 1], s), ~r2.valid, r2.errors # <<>>
  PROVE  Progress(stop, s, f, n + 1, x, FALSE, r2)
<1>1. /\ FilledTo(f, n + 1) # <<>>
      /\ FilledTo(f, n + 1)[1] = IF FilledTo(f, n) = <<>> THEN f[n + 1] ELSE FilledTo(f, n)[1]
  BY RowsStep
<1>2. Misfit(s, f, n + 1)
  BY <1>1 DEF Misfit, Progress, Counted
<1>3. (n + 1) + 1 = n + 2
  OBVIOUS
<1>4. QED
  BY <1>2, <1>3 DEF Progress

-----------------------------------------------------------------------------
(* The steps.                                                              *)

LEMMA ConstantsOk ==
  /\ \A s \in Schemas : SchemaOk(s)
  /\ \A f \in Files : f \in Seq(Seq(Cells))
BY SchemaAssumption, Zenon DEF SchemaOk

LEMMA NoResultOk ==
  /\ NoResult \in Result
  /\ Reported(<<>>, <<[names |-> {""}, severity |-> "FATAL"]>>) \in Seq(Report)
<1>1. <<>> \in Seq(Report)
  OBVIOUS
<1>2. [names |-> {""}, severity |-> "FATAL"] \in Report
  BY SchemaAssumption, Zenon DEF Report
<1>3. <<[names |-> {""}, severity |-> "FATAL"]>> \in Seq(Report)
  <2>1. \A A : \A a \in A : <<a>> \in Seq(A)
    OBVIOUS
  <2>2. QED
    BY <1>2, <2>1, Zenon
<1>4. Reported(<<>>, <<[names |-> {""}, severity |-> "FATAL"]>>) \in Seq(Report)
  BY <1>1, <1>3, ReportedGrows, Zenon
<1>5. QED
  BY <1>1, <1>4, Zenon DEF NoResult, Result

LEMMA ReportedMore ==
  ASSUME NEW errors \in Seq(Report), NEW reports \in Seq(Report)
  PROVE  /\ Reported(errors, reports) \in Seq(Report)
         /\ errors # <<>> \/ reports # <<>> => Reported(errors, reports) # <<>>
<1>1. Reported(errors, reports) \in Seq(Report) /\ Len(errors) + Len(reports) <= Len(Reported(errors, reports))
  BY ReportedGrows
<1>2. \A s \in Seq(Report) : Len(s) \in Nat /\ (s = <<>> <=> Len(s) = 0)
  OBVIOUS
<1>3. QED
  BY <1>1, <1>2

LEMMA RegisterStep ==
  ASSUME IInv, NEW m \in Names, NEW s \in Schemas, RegisterSchema(m, s)
  PROVE  IInv'
<1>1. phase = "idle" /\ UNCHANGED <<phase, schema, file, next, header, result, stop_on_first_error>>
  BY DEF RegisterSchema, run
<1>2. TypeInv'
  <2>1. DOMAIN schemas' = Names
    BY DEF IInv, TypeInv, RegisterSchema
  <2>2. ASSUME NEW n \in Names, NEW v \in DOMAIN schemas'[n] PROVE schemas'[n][v] \in Schemas
    <3>1. CASE n = m
      <4>1. schemas'[m] = [w \in DOMAIN schemas[m] \cup {s.version} |-> IF w = s.version THEN s ELSE schemas[m][w]]
        BY DEF IInv, TypeInv, RegisterSchema
      <4>2. QED
        BY <2>2, <3>1, <4>1 DEF IInv, TypeInv
    <3>2. CASE n # m
      <4>1. schemas'[n] = schemas[n]
        BY <3>2 DEF IInv, TypeInv, RegisterSchema
      <4>2. QED
        BY <2>2, <4>1 DEF IInv, TypeInv
    <3>3. QED
      BY <3>1, <3>2
  <2>3. QED
    BY <1>1, <2>1, <2>2 DEF IInv, TypeInv
<1>3. ReadingInv'
  BY <1>1 DEF ReadingInv
<1>4. VerdictExact'
  <2>1. VerdictExact
    BY DEF IInv
  <2>2. QED
    BY <1>1, <2>1, VerdictIs, VerdictIsThen
<1>5. QED
  BY <1>2, <1>3, <1>4 DEF IInv

LEMMA ValidateStep ==
  ASSUME IInv, NEW f \in Files, NEW m \in Names, NEW version, Validate(f, m, version)
  PROVE  IInv'
<1>1. schemas' = schemas /\ stop_on_first_error' = stop_on_first_error /\ phase = "idle"
  BY DEF Validate
<1>2. CASE /\ phase' = phase /\ next' = 0 /\ header' = FALSE /\ file' = <<>>
           /\ result' = [NoResult EXCEPT !.valid = FALSE,
                            !.errors = Reported(<<>>, <<[names |-> {""}, severity |-> "FATAL"]>>)]
  <2>1. result' \in Result
    <3>1. PICK errors \in Seq(Report) : errors = Reported(<<>>, <<[names |-> {""}, severity |-> "FATAL"]>>)
      BY NoResultOk, Zenon
    <3>2. result' = [NoResult EXCEPT !.valid = FALSE, !.errors = errors]
      BY <1>2, <3>1, Zenon
    <3>3. QED
      BY <3>2, NoResultOk, Zenon DEF Result
  <2>2. TypeInv'
    BY <1>1, <1>2, <2>1 DEF IInv, TypeInv
  <2>3. ReadingInv'
    BY <1>1, <1>2 DEF ReadingInv
  <2>4. next' # Len(file') + 1
    BY <1>2
  <2>5. VerdictExact'
    BY <2>4 DEF VerdictExact
  <2>6. QED
    BY <2>2, <2>3, <2>5 DEF IInv
<1>3. ASSUME NEW v \in Found(m, version), phase' = "reading", schema' = schemas[m][v], file' = f,
             next' = 1, header' = FALSE, result' = NoResult
      PROVE  IInv'
  <2>1. TypeInv'
    BY <1>1, <1>3, NoResultOk, Zenon DEF IInv, TypeInv
  <2>2. schema' \in Schemas
    <3>1. v \in DOMAIN schemas[m]
      BY DEF Found
    <3>2. QED
      BY <1>3, <3>1 DEF IInv, TypeInv
  <2>3. f \in Seq(Seq(Cells)) /\ Len(f) \in Nat
    BY ConstantsOk
  <2>4. Progress(stop_on_first_error, schema', f, 0, 1, FALSE, NoResult)
    <3> DEFINE s == schema'
    <3>1. FilledTo(f, 0) = <<>>
      BY <2>3, FilledStep
    <3>2. Rows(s, f, 0) = <<>>
      <4>1. [i \in 1 .. Len(<<>>) - 1 |-> (<<>>)[i + 1]] = <<>>
        OBVIOUS
      <4>2. QED
        BY <3>1, <4>1 DEF Rows
    <3>3. Breaches(s, f, 0) = {} /\ ~Misfit(s, f, 0)
      BY <3>1, <3>2 DEF Breaches, Misfit
    <3>4. Cardinality({}) = 0 /\ Len(<<>>) = 0
      BY FS_EmptySet
    <3> HIDE DEF s
    <3>5. /\ NoResult.valid /\ NoResult.total = 0 /\ NoResult.good = 0 /\ NoResult.bad = 0
          /\ NoResult.good + NoResult.bad = NoResult.total /\ 0 + 1 = 1
      BY DEF NoResult
    <3>6. Counted(stop_on_first_error, s, f, 0, 1, FALSE, NoResult)
      BY <3>1, <3>2, <3>3, <3>4, <3>5 DEF Counted
    <3>7. Progress(stop_on_first_error, s, f, 0, 1, FALSE, NoResult)
      BY <3>3, <3>5, <3>6 DEF Progress
    <3>8. QED
      BY <3>7 DEF s
  <2>5. 0 \in 0 .. Len(f)
    BY <2>3
  <2>6. ReadingInv'
    BY <1>1, <1>3, <2>2, <2>4, <2>5 DEF ReadingInv
  <2>7. VerdictExact'
    BY <1>3 DEF VerdictExact
  <2>8. QED
    BY <2>1, <2>6, <2>7 DEF IInv
<1>4. QED
  <2>1. \/ /\ phase' = phase /\ next' = 0 /\ header' = FALSE /\ file' = <<>>
           /\ result' = [NoResult EXCEPT !.valid = FALSE,
                            !.errors = Reported(<<>>, <<[names |-> {""}, severity |-> "FATAL"]>>)]
        \/ \E v \in Found(m, version) :
             /\ phase' = "reading" /\ schema' = schemas[m][v] /\ file' = f
             /\ next' = 1 /\ header' = FALSE /\ result' = NoResult
    BY DEF Validate
  <2>2. QED
    BY <1>2, <1>3, <2>1

\* A step within a file comes to a place in it.
LEMMA WithinStep ==
  ASSUME IInv, phase = "reading", UNCHANGED <<schemas, phase, schema, file, stop_on_first_error>>,
         header' \in BOOLEAN, result' \in Result,
         NEW n \in 0 .. Len(file), Progress(stop_on_first_error, schema, file, n, next', header', result')
  PROVE  IInv'
<1>1. TypeInv'
  BY DEF IInv, TypeInv
<1>2. ReadingInv'
  BY DEF IInv, ReadingInv
<1>3. VerdictExact'
  BY DEF VerdictExact
<1>4. QED
  BY <1>1, <1>2, <1>3 DEF IInv

\* The line that is read is the one behind those that have been.
LEMMA Reading ==
  ASSUME IInv, Reads
  PROVE  /\ phase = "reading" /\ SchemaOk(schema) /\ file \in Seq(Seq(Cells)) /\ Len(file) \in Nat
         /\ header \in BOOLEAN /\ result \in Result /\ stop_on_first_error \in BOOLEAN
         /\ \E n \in 0 .. Len(file) - 1 :
              /\ next = n + 1 /\ Line = file[n + 1] /\ Line \in Seq(Cells)
              /\ Progress(stop_on_first_error, schema, file, n, n + 1, header, result)
<1>1. /\ phase = "reading" /\ SchemaOk(schema) /\ file \in Seq(Seq(Cells)) /\ Len(file) \in Nat
      /\ header \in BOOLEAN /\ result \in Result /\ stop_on_first_error \in BOOLEAN /\ next <= Len(file)
  BY ConstantsOk DEF Reads, IInv, TypeInv, ReadingInv
<1>2. PICK n \in 0 .. Len(file) : Progress(stop_on_first_error, schema, file, n, next, header, result)
  BY <1>1 DEF IInv, ReadingInv
<1>3. next \in {n + 1, Len(file) + 1}
  BY <1>2 DEF Progress, Counted
<1>4. next = n + 1 /\ n \in 0 .. Len(file) - 1
  BY <1>1, <1>3
<1>5. Line = file[n + 1] /\ Line \in Seq(Cells)
  BY <1>1, <1>4 DEF Line
<1>6. QED
  BY <1>1, <1>2, <1>4, <1>5

LEMMA SkipsEmptyStep ==
  ASSUME IInv, SkipsEmpty
  PROVE  IInv'
<1>1. /\ Reads /\ Line = <<>> /\ next' = next + 1
      /\ UNCHANGED <<schemas, phase, schema, file, stop_on_first_error, header, result>>
  BY DEF SkipsEmpty, Turns
<1>2. PICK n \in 0 .. Len(file) - 1 :
         /\ next = n + 1 /\ Line = file[n + 1]
         /\ Progress(stop_on_first_error, schema, file, n, n + 1, header, result)
  BY <1>1, Reading
<1>3. phase = "reading" /\ file \in Seq(Seq(Cells)) /\ Len(file) \in Nat /\ header \in BOOLEAN /\ result \in Result
  BY <1>1, Reading
<1>4. Progress(stop_on_first_error, schema, file, n + 1, n + 2, header, result)
  BY <1>1, <1>2, <1>3, SkipsStep
<1>5. n + 1 \in 0 .. Len(file) /\ next' = n + 2
  BY <1>1, <1>2, <1>3
<1>6. /\ Progress(stop_on_first_error, schema, file, n + 1, next', header', result')
      /\ header' \in BOOLEAN /\ result' \in Result
  BY <1>1, <1>3, <1>4, <1>5
<1>7. QED
  BY <1>1, <1>3, <1>5, <1>6, WithinStep

LEMMA TakesHeaderStep ==
  ASSUME IInv, TakesHeader
  PROVE  IInv'
<1>1. /\ Reads /\ Line # <<>> /\ ~header /\ schema.header /\ HeaderFits(Line, schema)
      /\ UNCHANGED <<schemas, phase, schema, file, stop_on_first_error>> /\ next' = next + 1 /\ header' = TRUE
      /\ result' = [result EXCEPT !.errors = Reported(result.errors, HeaderReports(Line, schema))]
  BY DEF TakesHeader, Turns, AsHeader
<1>2. PICK n \in 0 .. Len(file) - 1 :
         /\ next = n + 1 /\ Line = file[n + 1] /\ Line \in Seq(Cells)
         /\ Progress(stop_on_first_error, schema, file, n, n + 1, header, result)
  BY <1>1, Reading
<1>3. /\ phase = "reading" /\ SchemaOk(schema) /\ file \in Seq(Seq(Cells)) /\ Len(file) \in Nat
      /\ header \in BOOLEAN /\ result \in Result
  BY <1>1, Reading
<1>4. PICK errors \in Seq(Report) : /\ result' = [result EXCEPT !.errors = errors]
                                    /\ result.errors # <<>> => errors # <<>>
  <2>1. HeaderReports(Line, schema) \in Seq(Report)
    BY <1>2, <1>3, HeaderReported
  <2>2. result.errors \in Seq(Report)
    BY <1>3 DEF Result
  <2>3. QED
    BY <1>1, <2>1, <2>2, ReportedMore
<1>5. /\ result' \in Result
      /\ result'.valid = result.valid /\ result'.total = result.total
      /\ result'.good = result.good /\ result'.bad = result.bad
      /\ result.errors # <<>> => result'.errors # <<>>
  BY <1>3, <1>4 DEF Result
<1>6. Progress(stop_on_first_error, schema, file, n + 1, n + 2, TRUE, result')
  BY <1>1, <1>2, <1>3, <1>5, HeaderStep
<1>7. n + 1 \in 0 .. Len(file) /\ next' = n + 2
  BY <1>1, <1>2, <1>3
<1>8. Progress(stop_on_first_error, schema, file, n + 1, next', header', result') /\ header' \in BOOLEAN
  BY <1>1, <1>6, <1>7
<1>9. QED
  BY <1>1, <1>3, <1>5, <1>7, <1>8, WithinStep

LEMMA TakesRowStep ==
  ASSUME IInv, TakesRow
  PROVE  IInv'
<1> DEFINE reports == RowReports(Line, schema)
           fits == reports = <<>>
           asked == IF AsHeader THEN Reported(result.errors, HeaderReports(Line, schema)) ELSE result.errors
<1>1. /\ Reads /\ Line # <<>> /\ ~(AsHeader /\ HeaderFits(Line, schema))
      /\ UNCHANGED <<schemas, phase, schema, file, stop_on_first_error, header>>
  BY DEF TakesRow, Turns
<1>2. PICK n \in 0 .. Len(file) - 1 :
         /\ next = n + 1 /\ Line = file[n + 1] /\ Line \in Seq(Cells)
         /\ Progress(stop_on_first_error, schema, file, n, n + 1, header, result)
  BY <1>1, Reading
<1>3. /\ phase = "reading" /\ SchemaOk(schema) /\ file \in Seq(Seq(Cells)) /\ Len(file) \in Nat
      /\ header \in BOOLEAN /\ result \in Result /\ stop_on_first_error \in BOOLEAN
  BY <1>1, Reading, ConstantsOk
<1>4. /\ reports \in Seq(Report) /\ fits \in BOOLEAN /\ (fits <=> Fits(file[n + 1], schema))
      /\ asked \in Seq(Report)
      /\ result.errors # <<>> \/ AsHeader => asked # <<>>
  <2>1. reports \in Seq(Report) /\ (fits <=> Fits(file[n + 1], schema))
    BY <1>2, <1>3, RowReportsEmpty
  <2>2. result.errors \in Seq(Report)
    BY <1>3 DEF Result
  <2>3. HeaderReports(Line, schema) \in Seq(Report) /\ (AsHeader => HeaderReports(Line, schema) # <<>>)
    BY <1>1, <1>2, <1>3, HeaderReported
  <2>4. QED
    BY <2>1, <2>2, <2>3, ReportedMore
<1>5. CASE AsHeader /\ stop_on_first_error
  <2>1. result' = [result EXCEPT !.valid = FALSE, !.errors = asked] /\ next' = Len(file) + 1
    BY <1>5 DEF TakesRow, Turns
  <2> HIDE DEF asked
  <2>2. result' \in Result /\ ~result'.valid /\ result'.errors # <<>>
    BY <1>3, <1>4, <1>5, <2>1 DEF Result
  <2>3. schema.header /\ header = FALSE /\ ~HeaderFits(file[n + 1], schema) /\ file[n + 1] # <<>>
    BY <1>1, <1>2, <1>3, <1>5 DEF AsHeader
  <2>4. Progress(stop_on_first_error, schema, file, n + 1, Len(file) + 1, FALSE, result')
    BY <1>2, <1>3, <2>2, <2>3, NoHeaderStep
  <2>5. n + 1 \in 0 .. Len(file) /\ header' = FALSE
    BY <1>1, <1>2, <1>3, <2>3
  <2>6. Progress(stop_on_first_error, schema, file, n + 1, next', header', result') /\ header' \in BOOLEAN
    BY <2>1, <2>4, <2>5
  <2>7. QED
    BY <1>1, <1>3, <2>2, <2>5, <2>6, WithinStep
<1>6. CASE ~(AsHeader /\ stop_on_first_error)
  <2>1. PICK errors \in Seq(Report) :
           /\ result' = [result EXCEPT !.valid = result.valid /\ ~AsHeader /\ fits, !.total = result.total + 1,
                           !.good = result.good + One(fits), !.bad = result.bad + One(~fits), !.errors = errors]
           /\ result.errors # <<>> \/ AsHeader \/ ~fits => errors # <<>>
    <3>1. result' = [result EXCEPT !.valid = result.valid /\ ~AsHeader /\ fits, !.total = result.total + 1,
                       !.good = result.good + One(fits), !.bad = result.bad + One(~fits),
                       !.errors = Reported(asked, reports)]
      BY <1>6 DEF TakesRow
    <3>2. Reported(asked, reports) \in Seq(Report) /\ (asked # <<>> \/ reports # <<>> => Reported(asked, reports) # <<>>)
      BY <1>4, ReportedMore
    <3>3. QED
      BY <1>4, <3>1, <3>2, Zenon
  <2>2. next' = IF fits \/ ~stop_on_first_error THEN n + 2 ELSE Len(file) + 1
    BY <1>2, <1>6 DEF TakesRow, Turns
  <2> HIDE DEF fits, reports, asked
  <2>3. One(fits) \in Nat /\ One(~fits) \in Nat
    BY <1>4, OneNat
  <2>4. /\ result' \in Result
        /\ result'.valid = (result.valid /\ ~AsHeader /\ fits) /\ result'.total = result.total + 1
        /\ result'.good = result.good + One(fits) /\ result'.bad = result.bad + One(~fits)
        /\ result.errors # <<>> \/ AsHeader \/ ~fits => result'.errors # <<>>
    <3>1. /\ result.valid \in BOOLEAN /\ AsHeader \in BOOLEAN
          /\ result.total \in Nat /\ result.good \in Nat /\ result.bad \in Nat
      BY <1>3 DEF Result, AsHeader
    <3>2. PICK valid \in BOOLEAN : valid = (result.valid /\ ~AsHeader /\ fits)
      OBVIOUS
    <3>3. PICK total \in Nat, good \in Nat, bad \in Nat :
             /\ total = result.total + 1 /\ good = result.good + One(fits) /\ bad = result.bad + One(~fits)
      <4>1. \A x, y \in Nat : x + y \in Nat
        OBVIOUS
      <4>2. result.total + 1 \in Nat /\ result.good + One(fits) \in Nat /\ result.bad + One(~fits) \in Nat
        BY <2>3, <3>1, <4>1
      <4>3. QED
        BY <4>2
    <3>4. result' = [result EXCEPT !.valid = valid, !.total = total, !.good = good, !.bad = bad, !.errors = errors]
      <4>1. result' = [result EXCEPT !.valid = result.valid /\ ~AsHeader /\ fits, !.total = total,
                         !.good = good, !.bad = bad, !.errors = errors]
        BY <2>1, <3>3
      <4>2. QED
        BY <3>2, <4>1
    <3>5. /\ result' \in Result /\ result'.valid = valid /\ result'.total = total
          /\ result'.good = good /\ result'.bad = bad /\ result'.errors = errors
      BY <1>3, <3>4 DEF Result
    <3>6. QED
      BY <2>1, <3>2, <3>3, <3>5
  <2>5. n + 1 \in 0 .. Len(file) /\ next' \in {n + 2, Len(file) + 1}
    BY <1>2, <1>3, <2>2
  <2>6. Progress(stop_on_first_error, schema, file, n + 1, next', header, result')
    <3>1. CASE AsHeader
      <4>1. schema.header /\ header = FALSE /\ ~HeaderFits(file[n + 1], schema) /\ file[n + 1] # <<>>
        BY <1>1, <1>2, <1>3, <3>1 DEF AsHeader
      <4>2. ~result'.valid /\ result'.errors # <<>>
        BY <2>4, <3>1
      <4>3. QED
        BY <1>2, <1>3, <2>4, <2>5, <4>1, <4>2, NoHeaderStep
    <3>2. CASE ~AsHeader
      <4>1. (header \/ ~schema.header) /\ file[n + 1] # <<>>
        BY <1>1, <1>2, <3>2 DEF AsHeader
      <4>2. result'.valid = (result.valid /\ fits) /\ (result.errors # <<>> \/ ~fits => result'.errors # <<>>)
        BY <2>4, <3>2
      <4>3. Progress(stop_on_first_error, schema, file, n + 1,
                     IF fits \/ ~stop_on_first_error THEN n + 2 ELSE Len(file) + 1, header, result')
        <5>1. /\ file \in Seq(Seq(Cells)) /\ n \in 0 .. Len(file) - 1 /\ header \in BOOLEAN /\ result \in Result
              /\ stop_on_first_error \in BOOLEAN
          BY <1>2, <1>3
        <5>2. /\ Progress(stop_on_first_error, schema, file, n, n + 1, header, result)
              /\ fits \in BOOLEAN /\ (fits <=> Fits(file[n + 1], schema))
          BY <1>2, <1>3, <1>4
        <5>3. ARow(schema, file, n, header, result, result', fits)
          BY <2>4, <4>1, <4>2, <5>1, <5>2, Zenon DEF ARow
        <5>4. QED
          BY <5>1, <5>2, <5>3, RowStep
      <4>4. QED
        BY <2>2, <4>3
    <3>3. QED
      BY <3>1, <3>2
  <2>7. QED
    BY <1>1, <1>3, <2>4, <2>5, <2>6, WithinStep
<1>7. QED
  BY <1>5, <1>6

LEMMA EndsStep ==
  ASSUME IInv, Ends
  PROVE  IInv'
<1>1. /\ phase = "reading" /\ next > Len(file) /\ phase' = "idle"
      /\ UNCHANGED <<schemas, schema, file, next, header, stop_on_first_error>>
  BY DEF Ends
<1>2. /\ SchemaOk(schema) /\ file \in Seq(Seq(Cells)) /\ Len(file) \in Nat
      /\ header \in BOOLEAN /\ result \in Result /\ stop_on_first_error \in BOOLEAN
  BY <1>1, ConstantsOk DEF IInv, TypeInv, ReadingInv
<1>3. PICK n \in 0 .. Len(file) : Progress(stop_on_first_error, schema, file, n, next, header, result)
  BY <1>1 DEF IInv, ReadingInv
<1>4. next = Len(file) + 1
  BY <1>1, <1>2, <1>3 DEF Progress, Counted
<1>5. PICK warned \in Nat, valid \in BOOLEAN :
         /\ result' = [result EXCEPT !.valid = valid, !.warned = warned]
         /\ valid = (result.valid \/ result.errors = <<>>)
  <2> DEFINE warnings == {i \in DOMAIN result.errors : result.errors[i].severity \in {"WARNING", "NOTICE"}}
             ok == result.valid \/ result.errors = <<>>
  <2>1. Cardinality(warnings) \in Nat
    <3>1. result.errors \in Seq(Report)
      BY <1>2 DEF Result
    <3>2. DOMAIN result.errors = 1 .. Len(result.errors) /\ Len(result.errors) \in Nat
      BY <3>1
    <3>3. IsFiniteSet(DOMAIN result.errors)
      <4>1. 1 \in Int /\ Len(result.errors) \in Int
        BY <3>2
      <4>2. IsFiniteSet(1 .. Len(result.errors))
        BY <4>1, FS_Interval
      <4>3. QED
        BY <3>2, <4>2
    <3>4. IsFiniteSet(warnings)
      BY <3>3, FS_Subset
    <3>5. QED
      BY <3>4, FS_CardinalityType
  <2>2. ok \in BOOLEAN
    BY <1>2 DEF Result
  <2>3. result' = [result EXCEPT !.valid = ok, !.warned = Cardinality(warnings)]
    BY DEF Ends
  <2> HIDE DEF warnings, ok
  <2>4. QED
    BY <2>1, <2>2, <2>3, Zenon DEF ok
<1>6. /\ result' \in Result /\ result'.valid = valid /\ result'.total = result.total
      /\ result'.good = result.good /\ result'.bad = result.bad /\ result'.errors = result.errors
  BY <1>2, <1>5 DEF Result
<1>7. valid <=> result.valid
  BY <1>3, <1>5 DEF Progress
<1>8. Progress(stop_on_first_error, schema, file, n, Len(file) + 1, header, result')
  <2>1. result'.valid <=> result.valid
    BY <1>6, <1>7
  <2>2. QED
    BY <1>3, <1>4, <1>6, <2>1 DEF Progress, Counted
<1>9. TypeInv'
  BY <1>1, <1>6 DEF IInv, TypeInv
<1>10. ReadingInv'
  BY <1>1 DEF ReadingInv
<1>11. VerdictExact'
  <2>1. FilledTo(file, Len(file)) # <<>> => Verdict(stop_on_first_error, schema, file, result')
    BY <1>2, <1>6, <1>8, ReadToTheEnd
  <2>2. QED
    BY <1>1, <2>1, VerdictIsThen
<1>12. QED
  BY <1>9, <1>10, <1>11 DEF IInv

\* A file that has been read is called valid if and only if every line of it but the header
\* conforms to the schema, and each line read is counted once, as what it is: for any
\* schemas and files, whatever the limit of errors and whether or not the first one stops it.
THEOREM VerdictsAreExact ==
  Spec => []VerdictExact
<1>1. Init => IInv
  <2> SUFFICES ASSUME Init PROVE IInv
    OBVIOUS
  <2>1. TypeInv
    <3>1. DOMAIN <<>> = {}
      OBVIOUS
    <3>2. QED
      BY <3>1, NoResultOk, Zenon DEF Init, TypeInv
  <2>2. ReadingInv
    BY DEF Init, ReadingInv
  <2>3. next # Len(file) + 1
    BY DEF Init
  <2>4. VerdictExact
    BY <2>3 DEF VerdictExact
  <2>5. QED
    BY <2>1, <2>2, <2>4 DEF IInv
<1>2. IInv /\ [Next]_vars => IInv'
  <2> SUFFICES ASSUME IInv, [Next]_vars PROVE IInv'
    OBVIOUS
  <2>1. CASE UNCHANGED vars
    <3>1. UNCHANGED <<schemas, phase, schema, file, next, header, result, stop_on_first_error>>
      BY <2>1 DEF vars, run
    <3>2. TypeInv' /\ ReadingInv'
      BY <3>1 DEF IInv, TypeInv, ReadingInv
    <3>3. VerdictExact'
      <4>1. VerdictExact
        BY DEF IInv
      <4>2. QED
        BY <3>1, <4>1, VerdictIs, VerdictIsThen
    <3>4. QED
      BY <3>2, <3>3 DEF IInv
  <2>2. QED
    BY <2>1, RegisterStep, ValidateStep, SkipsEmptyStep, TakesHeaderStep, TakesRowStep, EndsStep DEF Next
<1>3. IInv => VerdictExact
  BY DEF IInv
<1>4. QED
  BY <1>1, <1>2, <1>3, PTL DEF Spec

-----------------------------------------------------------------------------
(* DeltaExact of DeltaCompression.                                         *)

(* What is written a token at a time.                                      *)

\* What Written comes to, step by step, and goes on being.
Writes(w, data, tokens, B) ==
  /\ w \in [Nat -> [at : Nat \ {0}, out : Seq(B)]]
  /\ w[0] = [at |-> 1, out |-> <<>>]
  /\ \A k \in Nat :
       w[k + 1] = IF w[k].at > Len(data) THEN w[k]
                  ELSE [at |-> w[k].at + tokens[w[k].at].takes, out |-> w[k].out \o tokens[w[k].at].code]

LEMMA WrittenSteps ==
  ASSUME NEW A, NEW data \in Seq(A), NEW B,
         NEW tokens \in [1 .. Len(data) -> [takes : Nat \ {0}, code : Seq(B)]]
  PROVE  \E w : Writes(w, data, tokens, B) /\ Written(data, tokens) = w[Len(data)].out
<1> DEFINE n == Len(data)
           V == [at : Nat \ {0}, out : Seq(B)]
           Then(s) == IF s.at > n THEN s
                      ELSE [at |-> s.at + tokens[s.at].takes, out |-> s.out \o tokens[s.at].code]
           Is(f) == f = [k \in 0 .. n |-> IF k = 0 THEN [at |-> 1, out |-> <<>>] ELSE Then(f[k - 1])]
           all == CHOOSE f : Is(f)
           step == [q \in Nat \X V |-> Then(q[2])]
           base == [at |-> 1, out |-> <<>>]
<1>1. n \in Nat /\ Written(data, tokens) = all[n].out
  BY DEF Written
<1>2. base \in V
  BY \A S : <<>> \in Seq(S)
<1>3. ASSUME NEW s \in V PROVE Then(s) \in V
  <2>1. CASE s.at > n
    BY <2>1
  <2>2. CASE ~(s.at > n)
    <3>1. s.at \in 1 .. n /\ s.at \in Nat \ {0} /\ s.out \in Seq(B)
      <4>1. s.at \in Nat \ {0} /\ s.out \in Seq(B)
        OBVIOUS
      <4>2. \A p \in Nat \ {0}, m \in Nat : ~(p > m) => p \in 1 .. m
        OBVIOUS
      <4>3. QED
        BY <1>1, <2>2, <4>1, <4>2, Zenon
    <3>2. tokens[s.at].takes \in Nat \ {0} /\ tokens[s.at].code \in Seq(B)
      BY <3>1
    <3>3. s.at + tokens[s.at].takes \in Nat \ {0} /\ s.out \o tokens[s.at].code \in Seq(B)
      BY <3>1, <3>2
    <3>4. QED
      BY <2>2, <3>3
  <2>3. QED
    BY <2>1, <2>2
<1> HIDE DEF n, base
<1>4. step \in [Nat \X V -> V]
  <2> HIDE DEF V, Then
  <2>1. QED
    BY <1>3
<1>5. PICK w : Computes(w, V, base, step)
  <2> HIDE DEF step, V
  <2>1. QED
    BY <1>2, <1>4, Recursion
<1>6. w \in [Nat -> V] /\ w[0] = base /\ \A k \in Nat : w[k + 1] = Then(w[k])
  <2>1. w \in [Nat -> V] /\ w[0] = base /\ \A k \in Nat : w[k + 1] = step[<<k, w[k]>>]
    BY <1>5 DEF Computes
  <2> HIDE DEF V, Then
  <2>2. QED
    BY <2>1
<1>7. Is(all)
  <2> DEFINE g == [k \in 0 .. n |-> w[k]]
  <2>1. ASSUME NEW k \in 0 .. n PROVE g[k] = IF k = 0 THEN base ELSE Then(g[k - 1])
    <3> HIDE DEF Then
    <3>1. CASE k = 0
      BY <1>6, <3>1
    <3>2. CASE k # 0
      <4>1. k - 1 \in 0 .. n /\ k - 1 \in Nat /\ (k - 1) + 1 = k
        BY <1>1, <3>2
      <4>2. w[k] = Then(w[k - 1])
        BY <1>6, <4>1
      <4>3. QED
        BY <3>2, <4>1, <4>2
    <3>3. QED
      BY <3>1, <3>2
  <2>2. g = [k \in 0 .. n |-> g[k]]
    OBVIOUS
  <2> HIDE DEF g, Then
  <2>3. Is(g)
    BY <2>1, <2>2, Zenon DEF base
  <2>4. QED
    BY <2>3
<1> HIDE DEF all
<1> DEFINE Same == {k \in Nat : k <= n => all[k] = w[k]}
<1>8. \A k \in Nat : k \in Same
  <2> HIDE DEF Then
  <2>1. 0 \in Same
    BY <1>1, <1>6, <1>7 DEF base
  <2>2. ASSUME NEW k \in Nat, k \in Same PROVE k + 1 \in Same
    <3> SUFFICES ASSUME k + 1 <= n PROVE all[k + 1] = w[k + 1]
      OBVIOUS
    <3>1. k + 1 \in 0 .. n /\ k + 1 # 0 /\ (k + 1) - 1 = k /\ all[k] = w[k]
      BY <1>1, <2>2
    <3>2. all[k + 1] = Then(all[k])
      BY <1>7, <3>1
    <3>3. QED
      BY <1>6, <3>1, <3>2
  <2> HIDE DEF Same
  <2>3. QED
    BY <2>1, <2>2, Induction
<1>9. all[n] = w[n]
  BY <1>1, <1>8
<1>10. Writes(w, data, tokens, B)
  BY <1>6 DEF Writes, n, base
<1>11. QED
  BY <1>1, <1>9, <1>10 DEF n

\* Where what has been written of the code ends, and what has been taken of the data.
Taken(w, data, k) == [at |-> Len(w[k].out) + 1, out |-> [i \in 1 .. w[k].at - 1 |-> data[i]]]

\* Each token takes something that is there, and is written.
TokensOf(tokens, data, B) ==
  /\ tokens \in [1 .. Len(data) -> [takes : Nat \ {0}, code : Seq(B)]]
  /\ \A p \in 1 .. Len(data) : p + tokens[p].takes <= Len(data) + 1 /\ tokens[p].code # <<>>

LEMMA Concatenation ==
  ASSUME NEW A, NEW s \in Seq(A), NEW t \in Seq(A)
  PROVE  /\ s \o t \in Seq(A) /\ Len(s \o t) = Len(s) + Len(t) /\ Len(s) \in Nat /\ Len(t) \in Nat
         /\ \A i \in 1 .. Len(s) : (s \o t)[i] = s[i]
         /\ \A i \in 1 .. Len(t) : (s \o t)[Len(s) + i] = t[i]
         /\ t # <<>> => Len(t) > 0
OBVIOUS

\* What a step writes, if there is anything left of n data.
StepFrom(w, n, tokens, B, k) ==
  /\ w[k].at \in Nat \ {0} /\ w[k].out \in Seq(B) /\ Len(w[k].out) \in Nat
  /\ w[k].at > n => w[k + 1] = w[k]
  /\ w[k].at <= n =>
       /\ w[k].at \in 1 .. n /\ tokens[w[k].at].takes \in Nat \ {0}
       /\ tokens[w[k].at].code \in Seq(B) /\ tokens[w[k].at].code # <<>>
       /\ Len(tokens[w[k].at].code) \in Nat /\ Len(tokens[w[k].at].code) > 0
       /\ w[k].at + tokens[w[k].at].takes <= n + 1
       /\ w[k + 1].at = w[k].at + tokens[w[k].at].takes
       /\ w[k + 1].out = w[k].out \o tokens[w[k].at].code

LEMMA WritesStep ==
  ASSUME NEW A, NEW data \in Seq(A), NEW B, NEW tokens, TokensOf(tokens, data, B),
         NEW w, Writes(w, data, tokens, B), NEW k \in Nat
  PROVE  StepFrom(w, Len(data), tokens, B, k)
<1>1. Len(data) \in Nat
  OBVIOUS
<1>2. w[k] \in [at : Nat \ {0}, out : Seq(B)]
  BY DEF Writes
<1>3. w[k].at \in Nat \ {0} /\ w[k].out \in Seq(B)
  BY <1>2
<1>4. Len(w[k].out) \in Nat
  BY <1>3
<1>5. ASSUME w[k].at > Len(data) PROVE w[k + 1] = w[k]
  BY <1>5 DEF Writes
<1>6. ASSUME w[k].at <= Len(data)
      PROVE  /\ w[k].at \in 1 .. Len(data) /\ tokens[w[k].at].takes \in Nat \ {0}
             /\ tokens[w[k].at].code \in Seq(B) /\ tokens[w[k].at].code # <<>>
             /\ Len(tokens[w[k].at].code) \in Nat /\ Len(tokens[w[k].at].code) > 0
             /\ w[k].at + tokens[w[k].at].takes <= Len(data) + 1
             /\ w[k + 1].at = w[k].at + tokens[w[k].at].takes
             /\ w[k + 1].out = w[k].out \o tokens[w[k].at].code
  <2>1. w[k].at \in 1 .. Len(data)
    <3>1. \A p \in Nat \ {0}, m \in Nat : p <= m => p \in 1 .. m
      OBVIOUS
    <3>2. QED
      BY <1>1, <1>3, <1>6, <3>1
  <2>2. tokens[w[k].at] \in [takes : Nat \ {0}, code : Seq(B)]
    BY <2>1 DEF TokensOf
  <2>3. tokens[w[k].at].takes \in Nat \ {0} /\ tokens[w[k].at].code \in Seq(B)
    BY <2>2
  <2>4. tokens[w[k].at].code # <<>> /\ w[k].at + tokens[w[k].at].takes <= Len(data) + 1
    BY <2>1 DEF TokensOf
  <2>5. Len(tokens[w[k].at].code) \in Nat /\ Len(tokens[w[k].at].code) > 0
    <3>1. \A t \in Seq(B) : t # <<>> => Len(t) \in Nat /\ Len(t) > 0
      OBVIOUS
    <3>2. QED
      BY <2>3, <2>4, <3>1
  <2>6. ~(w[k].at > Len(data))
    <3>1. \A p \in Nat \ {0}, m \in Nat : p <= m => ~(p > m)
      OBVIOUS
    <3>2. QED
      BY <1>1, <1>3, <1>6, <3>1
  <2>7. w[k + 1] = [at |-> w[k].at + tokens[w[k].at].takes, out |-> w[k].out \o tokens[w[k].at].code]
    BY <2>6 DEF Writes
  <2>8. w[k + 1].at = w[k].at + tokens[w[k].at].takes /\ w[k + 1].out = w[k].out \o tokens[w[k].at].code
    <3>1. PICK x, y : x = w[k].at + tokens[w[k].at].takes /\ y = w[k].out \o tokens[w[k].at].code
      OBVIOUS
    <3>2. w[k + 1] = [at |-> x, out |-> y]
      BY <2>7, <3>1
    <3>3. w[k + 1].at = x /\ w[k + 1].out = y
      BY <3>2
    <3>4. QED
      BY <3>1, <3>3
  <2>9. QED
    BY <2>1, <2>3, <2>4, <2>5, <2>8, Zenon
<1>7. QED
  BY <1>3, <1>4, <1>5, <1>6 DEF StepFrom

\* It takes everything in as many steps as there are data, or bytes written; each token
\* stands in the code where it was written.
Stands(w, n, tokens, code, B) ==
  /\ code \in Seq(B)
  /\ w[Len(code)].at = n + 1
  /\ \A k \in Nat :
       /\ w[k].at > n => w[k].out = code
       /\ w[k].at <= n =>
            /\ Len(w[k].out) + Len(tokens[w[k].at].code) <= Len(code)
            /\ \A i \in 1 .. Len(tokens[w[k].at].code) :
                 code[Len(w[k].out) + i] = tokens[w[k].at].code[i]

LEMMA LockStep ==
  ASSUME NEW A, NEW data \in Seq(A), NEW B, NEW tokens, TokensOf(tokens, data, B),
         NEW w, Writes(w, data, tokens, B), NEW code, code = w[Len(data)].out
  PROVE  Stands(w, Len(data), tokens, code, B)
<1> DEFINE n == Len(data)
           Far == {k \in Nat : w[k].at <= n + 1 /\ (w[k].at = n + 1 \/ w[k].at >= k + 1)}
           Long == {k \in Nat : w[k].at = n + 1 \/ Len(w[k].out) >= k}
<1>1. n \in Nat
  OBVIOUS
<1>2. w[0].at = 1 /\ w[0].out = <<>>
  BY DEF Writes
<1>3. ASSUME NEW k \in Nat
      PROVE  /\ w[k].at \in Nat \ {0} /\ w[k].out \in Seq(B) /\ Len(w[k].out) \in Nat
             /\ w[k].at > n => w[k + 1] = w[k]
             /\ w[k].at <= n =>
                  /\ w[k].at \in 1 .. n /\ tokens[w[k].at].takes \in Nat \ {0}
                  /\ tokens[w[k].at].code \in Seq(B) /\ tokens[w[k].at].code # <<>>
                  /\ Len(tokens[w[k].at].code) \in Nat /\ Len(tokens[w[k].at].code) > 0
                  /\ w[k].at + tokens[w[k].at].takes <= n + 1
                  /\ w[k + 1].at = w[k].at + tokens[w[k].at].takes
                  /\ w[k + 1].out = w[k].out \o tokens[w[k].at].code
  <2>1. StepFrom(w, Len(data), tokens, B, k)
    BY WritesStep
  <2>2. QED
    BY <2>1 DEF StepFrom
<1> HIDE DEF n
<1>4. \A k \in Nat : w[k].at <= n \/ w[k].at > n
  <2>1. \A p \in Nat \ {0}, m \in Nat : p <= m \/ p > m
    OBVIOUS
  <2>2. QED
    BY <1>1, <1>3, <2>1
<1>5. \A k \in Nat : k \in Far
  <2>1. 0 \in Far
    BY <1>1, <1>2
  <2>2. ASSUME NEW k \in Nat, k \in Far PROVE k + 1 \in Far
    <3>1. PICK p \in Nat : p = w[k].at
      BY <1>3
    <3>2. p <= n + 1 /\ (p = n + 1 \/ p >= k + 1)
      BY <2>2, <3>1
    <3>3. CASE p > n
      <4>1. w[k + 1].at = p /\ p = n + 1
        <5>1. w[k + 1] = w[k]
          BY <1>3, <3>1, <3>3
        <5>2. p = n + 1
          BY <1>1, <3>2, <3>3
        <5>3. QED
          BY <3>1, <5>1, <5>2
      <4>2. QED
        BY <1>1, <4>1
    <3>4. CASE p <= n
      <4>1. PICK t \in Nat \ {0} : t = tokens[w[k].at].takes
        BY <1>3, <3>1, <3>4
      <4>2. p + t <= n + 1 /\ w[k + 1].at = p + t
        BY <1>3, <3>1, <3>4, <4>1
      <4>3. p + t >= k + 2
        BY <1>1, <3>2, <3>4
      <4>4. QED
        BY <4>2, <4>3
    <3>5. QED
      BY <1>1, <3>3, <3>4
  <2> HIDE DEF Far
  <2>3. QED
    BY <2>1, <2>2, Induction
<1>6. \A k \in Nat : k \in Long
  <2>1. 0 \in Long
    BY <1>2, <1>3
  <2>2. ASSUME NEW k \in Nat, k \in Long PROVE k + 1 \in Long
    <3>1. CASE w[k].at > n
      <4>1. w[k].at = n + 1
        <5>1. w[k].at <= n + 1
          BY <1>5
        <5>2. \A p \in Nat \ {0}, m \in Nat : p > m /\ p <= m + 1 => p = m + 1
          OBVIOUS
        <5>3. QED
          BY <1>1, <1>3, <3>1, <5>1, <5>2
      <4>2. w[k + 1] = w[k]
        BY <1>3, <3>1
      <4>3. QED
        BY <4>1, <4>2
    <3>2. CASE w[k].at <= n
      <4>1. Len(w[k].out) >= k
        <5>1. w[k].at # n + 1
          <6>1. \A p \in Nat \ {0}, m \in Nat : p <= m => p # m + 1
            OBVIOUS
          <6>2. QED
            BY <1>1, <1>3, <3>2, <6>1
        <5>2. QED
          BY <2>2, <5>1
      <4>2. PICK s \in Seq(B), t \in Seq(B) : s = w[k].out /\ t = tokens[w[k].at].code
        BY <1>3, <3>2
      <4>3. t # <<>> /\ w[k + 1].out = s \o t
        BY <1>3, <3>2, <4>2
      <4>4. Len(s \o t) = Len(s) + Len(t) /\ Len(s) \in Nat /\ Len(t) \in Nat /\ Len(t) > 0
        BY <4>3, Concatenation
      <4>5. Len(s) + Len(t) >= k + 1
        <5>1. Len(s) >= k
          BY <4>1, <4>2
        <5>2. QED
          BY <4>4, <5>1
      <4>6. Len(w[k + 1].out) >= k + 1
        BY <4>3, <4>4, <4>5
      <4>7. QED
        BY <4>6
    <3>3. QED
      BY <1>4, <3>1, <3>2
  <2> HIDE DEF Long
  <2>3. QED
    BY <2>1, <2>2, Induction
<1>7. ASSUME NEW j \in Nat, NEW k \in Nat, j <= k
      PROVE  Begins(w[j].out, w[k].out) /\ (w[j].at > n => w[k] = w[j])
  <2> DEFINE Fine == {i \in Nat : j <= i => Begins(w[j].out, w[i].out) /\ (w[j].at > n => w[i] = w[j])}
  <2>1. \A s \in Seq(B) : Begins(s, s)
    BY DEF Begins
  <2>2. Begins(w[j].out, w[j].out)
    BY <1>3, <2>1
  <2>3. 0 \in Fine
    BY <2>2
  <2>4. ASSUME NEW i \in Nat, i \in Fine PROVE i + 1 \in Fine
    <3> SUFFICES ASSUME j <= i + 1
                 PROVE  Begins(w[j].out, w[i + 1].out) /\ (w[j].at > n => w[i + 1] = w[j])
      OBVIOUS
    <3>1. CASE j = i + 1
      BY <2>2, <3>1
    <3>2. CASE j # i + 1
      <4>1. j <= i
        BY <3>2
      <4>2. Begins(w[j].out, w[i].out) /\ (w[j].at > n => w[i] = w[j])
        BY <2>4, <4>1
      <4>3. CASE w[i].at > n
        <5>1. w[i + 1] = w[i]
          BY <1>3, <4>3
        <5>2. QED
          BY <4>2, <5>1
      <4>4. CASE w[i].at <= n
        <5>1. ~(w[j].at > n)
          <6>1. \A p \in Nat \ {0}, m \in Nat : p <= m => ~(p > m)
            OBVIOUS
          <6>2. QED
            BY <1>1, <1>3, <4>2, <4>4, <6>1
        <5>2. PICK r \in Seq(B), s \in Seq(B), t \in Seq(B) : r = w[j].out /\ s = w[i].out /\ t = tokens[w[i].at].code
          BY <1>3, <4>4
        <5>3. w[i + 1].out = s \o t /\ Begins(r, s)
          BY <1>3, <4>2, <4>4, <5>2
        <5>4. Begins(r, s \o t)
          <6>1. /\ Len(s \o t) = Len(s) + Len(t) /\ Len(s) \in Nat /\ Len(t) \in Nat /\ Len(r) \in Nat
                /\ \A h \in 1 .. Len(s) : (s \o t)[h] = s[h]
            BY Concatenation
          <6>2. \A h \in 1 .. Len(r) : h \in 1 .. Len(s) /\ s[h] = r[h]
            BY <5>3, <6>1 DEF Begins
          <6>3. Len(r) <= Len(s) + Len(t)
            BY <5>3, <6>1 DEF Begins
          <6>4. QED
            BY <6>1, <6>2, <6>3 DEF Begins
        <5>5. QED
          BY <5>1, <5>2, <5>3, <5>4
      <4>5. QED
        BY <1>4, <4>3, <4>4
    <3>3. QED
      BY <3>1, <3>2
  <2> HIDE DEF Fine
  <2>5. \A i \in Nat : i \in Fine
    BY <2>3, <2>4, Induction
  <2>6. k \in Fine
    BY <2>5
  <2>7. QED
    BY <1>7, <2>6 DEF Fine
<1>8. code \in Seq(B) /\ code = w[n].out /\ Len(code) \in Nat
  BY <1>1, <1>3 DEF n
<1>9. ASSUME NEW k \in Nat, w[k].at > n PROVE w[k].out = code
  <2>1. w[n].at > n
    <3>1. w[n].at = n + 1 \/ w[n].at >= n + 1
      BY <1>1, <1>5
    <3>2. \A p \in Nat \ {0}, m \in Nat : p = m + 1 \/ p >= m + 1 => p > m
      OBVIOUS
    <3>3. QED
      BY <1>1, <1>3, <3>1, <3>2
  <2>2. CASE k <= n
    BY <1>1, <1>7, <1>8, <1>9, <2>2
  <2>3. CASE n <= k
    BY <1>1, <1>7, <1>8, <2>1, <2>3
  <2>4. QED
    BY <1>1, <2>2, <2>3
<1>10. ASSUME NEW k \in Nat, w[k].at <= n
       PROVE  /\ Len(w[k].out) + Len(tokens[w[k].at].code) <= Len(code)
              /\ \A i \in 1 .. Len(tokens[w[k].at].code) :
                   code[Len(w[k].out) + i] = tokens[w[k].at].code[i]
  <2>1. k + 1 <= n
    <3>1. w[k].at = n + 1 \/ w[k].at >= k + 1
      BY <1>5
    <3>2. \A p \in Nat \ {0}, m \in Nat : p <= m /\ (p = m + 1 \/ p >= k + 1) => k + 1 <= m
      OBVIOUS
    <3>3. QED
      BY <1>1, <1>3, <1>10, <3>1, <3>2
  <2>2. Begins(w[k + 1].out, code)
    BY <1>1, <1>7, <1>8, <2>1
  <2>3. PICK s \in Seq(B), t \in Seq(B) : s = w[k].out /\ t = tokens[w[k].at].code
    BY <1>3, <1>10
  <2>4. Begins(s \o t, code)
    BY <1>3, <1>10, <2>2, <2>3
  <2>5. /\ Len(s \o t) = Len(s) + Len(t) /\ Len(s) \in Nat /\ Len(t) \in Nat
        /\ \A i \in 1 .. Len(t) : (s \o t)[Len(s) + i] = t[i]
    BY Concatenation
  <2>6. Len(s) + Len(t) <= Len(code)
    BY <2>4, <2>5 DEF Begins
  <2>7. \A i \in 1 .. Len(t) : code[Len(s) + i] = t[i]
    <3>1. \A i \in 1 .. Len(t) : Len(s) + i \in 1 .. Len(s) + Len(t)
      BY <2>5
    <3>2. QED
      BY <2>4, <2>5, <3>1 DEF Begins
  <2>8. QED
    BY <2>3, <2>6, <2>7
<1>11. w[Len(code)].at = n + 1
  <2>1. w[Len(code)].at = n + 1 \/ Len(w[Len(code)].out) >= Len(code)
    BY <1>6, <1>8
  <2>2. SUFFICES ASSUME Len(w[Len(code)].out) >= Len(code), w[Len(code)].at <= n PROVE FALSE
    <3>1. w[Len(code)].at <= n + 1
      BY <1>5, <1>8
    <3>2. \A p \in Nat \ {0}, m \in Nat : p <= m + 1 => p = m + 1 \/ p <= m
      OBVIOUS
    <3>3. QED
      BY <1>1, <1>3, <1>8, <2>1, <3>1, <3>2
  <2>3. PICK a \in Nat, b \in Nat : a = Len(w[Len(code)].out) /\ b = Len(tokens[w[Len(code)].at].code) /\ b > 0
    BY <1>3, <1>8, <2>2
  <2>4. a + b <= Len(code)
    BY <1>8, <1>10, <2>2, <2>3
  <2>5. \A x, y, m \in Nat : x >= m /\ y > 0 => ~(x + y <= m)
    OBVIOUS
  <2>6. QED
    BY <1>8, <2>2, <2>3, <2>4, <2>5
<1>12. QED
  BY <1>8, <1>9, <1>10, <1>11 DEF n, Stands

-----------------------------------------------------------------------------
(* The codes of DeltaCompression, read back.                               *)

LEMMA LeastThere ==
  ASSUME NEW S \in SUBSET Nat, S # {}
  PROVE  \E m \in S : \A x \in S : m <= x
<1> DEFINE R == {q \in Nat \X Nat : q[1] < q[2]}
<1>1. IsWellFoundedOn(R, Nat)
  BY NatLessThanWellFounded DEF OpToRel
<1> HIDE DEF R
<1>2. PICK m \in S : \A x \in S : ~ (<<x, m>> \in R)
  BY <1>1, WFMin
<1>3. ASSUME NEW x \in S PROVE m <= x
  <2>1. m \in Nat /\ x \in Nat /\ <<x, m>> \in Nat \X Nat
    OBVIOUS
  <2>2. ~(x < m)
    <3>1. x < m => <<x, m>> \in R
      BY <2>1 DEF R
    <3>2. QED
      BY <1>2, <3>1
  <2>3. QED
    BY <2>1, <2>2
<1>4. QED
  BY <1>3

LEMMA MaxThere ==
  ASSUME NEW S \in SUBSET Nat, S # {}, NEW top \in Nat, \A x \in S : x <= top
  PROVE  Max(S) \in S /\ \A x \in S : x <= Max(S)
<1> DEFINE Bounds == {u \in Nat : \A x \in S : x <= u}
<1>1. PICK u \in Bounds : \A x \in Bounds : u <= x
  <2>1. top \in Bounds
    OBVIOUS
  <2> HIDE DEF Bounds
  <2>2. Bounds \in SUBSET Nat
    BY DEF Bounds
  <2>3. QED
    BY <2>1, <2>2, LeastThere
<1>2. u \in S
  <2> SUFFICES ASSUME u \notin S PROVE FALSE
    OBVIOUS
  <2>1. PICK x \in S : TRUE
    OBVIOUS
  <2>2. u - 1 \in Nat
    BY <2>1
  <2>3. \A y \in S : y <= u - 1
    OBVIOUS
  <2>4. u <= u - 1
    BY <1>1, <2>2, <2>3
  <2>5. QED
    BY <2>4
<1>3. \E x \in S : \A y \in S : x >= y
  BY <1>2
<1>4. Max(S) = CHOOSE x \in S : \A y \in S : x >= y
  BY DEF Max
<1>5. Max(S) \in S /\ \A y \in S : Max(S) >= y
  BY <1>3, <1>4
<1>6. QED
  BY <1>5

LEMMA MinThere ==
  ASSUME NEW S \in SUBSET Nat, S # {}
  PROVE  Min(S) \in S /\ \A x \in S : Min(S) <= x
<1>1. \E m \in S : \A x \in S : m <= x
  BY LeastThere
<1>2. Min(S) = CHOOSE m \in S : \A x \in S : m <= x
  BY DEF Min
<1>3. QED
  BY <1>1, <1>2

LEMMA BytesThere ==
  MaxByte \in Nat /\ MaxByte >= 3 /\ Bytes = 0 .. MaxByte
<1>1. IsFiniteSet(Bytes) /\ Bytes = 0 .. MaxByte /\ Longest \in 3 .. MaxByte
  BY DeltaAssumption
<1>2. Cardinality(Bytes) \in Nat
  BY <1>1, FS_CardinalityType
<1>3. MaxByte \in Int
  BY <1>2 DEF MaxByte
<1>4. QED
  BY <1>1, <1>3

LEMMA RunToken ==
  ASSUME NEW data \in Seq(Bytes), NEW pos \in 1 .. Len(data)
  PROVE  \E n \in 1 .. MaxByte :
           /\ Run(data, pos) = [takes |-> n, code |-> <<n, data[pos]>>]
           /\ pos + n <= Len(data) + 1
           /\ \A k \in 0 .. n - 1 : data[pos + k] = data[pos]
<1> DEFINE left == Len(data) - pos + 1
           cut == Min({MaxByte, left})
           S == {n \in 1 .. cut : \A k \in 0 .. n - 1 : data[pos + k] = data[pos]}
<1>1. Len(data) \in Nat /\ left \in Nat /\ left >= 1 /\ pos \in Nat /\ pos + left = Len(data) + 1
  OBVIOUS
<1> HIDE DEF left
<1>2. cut \in Nat /\ 1 <= cut /\ cut <= MaxByte /\ cut <= left
  <2>1. cut \in {MaxByte, left} /\ \A x \in {MaxByte, left} : cut <= x
    BY <1>1, BytesThere, MinThere
  <2> HIDE DEF cut
  <2>2. QED
    BY <1>1, <2>1, BytesThere
<1>3. Run(data, pos) = [takes |-> Max(S), code |-> <<Max(S), data[pos]>>]
  BY DEF Run, left
<1> HIDE DEF cut
<1>4. S \in SUBSET Nat /\ 1 \in S /\ \A x \in S : x <= cut
  <2>1. \A k \in 0 .. 1 - 1 : pos + k = pos
    BY <1>1
  <2>2. QED
    BY <1>2, <2>1
<1> DEFINE n == Max(S)
<1>5. n \in S
  <2> HIDE DEF S
  <2>1. QED
    BY <1>2, <1>4, MaxThere
<1> HIDE DEF n
<1>6. n \in 1 .. MaxByte /\ pos + n <= Len(data) + 1 /\ \A k \in 0 .. n - 1 : data[pos + k] = data[pos]
  BY <1>1, <1>2, <1>5, BytesThere
<1>7. QED
  BY <1>3, <1>6 DEF n

LEMMA RunTokens ==
  ASSUME NEW data \in Seq(Bytes)
  PROVE  TokensOf([pos \in 1 .. Len(data) |-> Run(data, pos)], data, Bytes)
<1> DEFINE tokens == [pos \in 1 .. Len(data) |-> Run(data, pos)]
<1>1. ASSUME NEW p \in 1 .. Len(data)
      PROVE  /\ tokens[p] \in [takes : Nat \ {0}, code : Seq(Bytes)]
             /\ p + tokens[p].takes <= Len(data) + 1 /\ tokens[p].code # <<>>
  <2>1. PICK n \in 1 .. MaxByte :
           tokens[p] = [takes |-> n, code |-> <<n, data[p]>>] /\ p + n <= Len(data) + 1
    BY RunToken
  <2>2. n \in Bytes /\ data[p] \in Bytes /\ n \in Nat \ {0}
    BY BytesThere
  <2>3. <<n, data[p]>> \in Seq(Bytes) /\ <<n, data[p]>> # <<>>
    <3>1. \A x, y \in Bytes : <<x, y>> \in Seq(Bytes) /\ <<x, y>> # <<>>
      OBVIOUS
    <3>2. QED
      BY <2>2, <3>1
  <2> HIDE DEF tokens
  <2>4. tokens[p].takes = n /\ tokens[p].code = <<n, data[p]>>
    BY <2>1
  <2>5. QED
    BY <2>1, <2>2, <2>3, <2>4
<1>2. tokens = [p \in 1 .. Len(data) |-> tokens[p]]
  OBVIOUS
<1> HIDE DEF tokens
<1>3. QED
  BY <1>1, <1>2 DEF TokensOf, tokens

\* What a decoder comes to, when it is known step by step.
LEMMA RunsDecodedIs ==
  ASSUME NEW code, Len(code) \in Nat, NEW d, d[0] = [at |-> 1, out |-> <<>>],
         \A k \in 0 .. Len(code) - 1 :
           d[k + 1] = IF d[k].at > Len(code) THEN d[k] ELSE RunRead(code, d[k])
  PROVE  RunsDecoded(code) = d[Len(code)].out
<1> DEFINE n == Len(code)
           Then(s) == IF s.at > n THEN s ELSE RunRead(code, s)
           Is(f) == f = [k \in 0 .. n |-> IF k = 0 THEN [at |-> 1, out |-> <<>>] ELSE Then(f[k - 1])]
           all == CHOOSE f : Is(f)
           base == [at |-> 1, out |-> <<>>]
<1>1. RunsDecoded(code) = all[n].out
  BY DEF RunsDecoded
<1>2. n \in Nat /\ d[0] = base /\ \A k \in 0 .. n - 1 : d[k + 1] = Then(d[k])
  OBVIOUS
<1> HIDE DEF n, base, Then
<1>3. Is(all)
  <2> DEFINE g == [k \in 0 .. n |-> d[k]]
  <2>1. ASSUME NEW k \in 0 .. n PROVE g[k] = IF k = 0 THEN base ELSE Then(g[k - 1])
    <3>1. CASE k = 0
      BY <1>2, <3>1
    <3>2. CASE k # 0
      <4>1. k - 1 \in 0 .. n - 1 /\ k - 1 \in 0 .. n /\ (k - 1) + 1 = k
        BY <1>2, <3>2
      <4>2. d[k] = Then(d[k - 1])
        BY <1>2, <4>1
      <4>3. QED
        BY <3>2, <4>1, <4>2
    <3>3. QED
      BY <3>1, <3>2
  <2>2. g = [k \in 0 .. n |-> g[k]]
    OBVIOUS
  <2> HIDE DEF g
  <2>3. Is(g)
    BY <2>1, <2>2, Zenon DEF base
  <2>4. QED
    BY <2>3
<1> HIDE DEF all
<1> DEFINE Same == {k \in Nat : k <= n => all[k] = d[k]}
<1>4. \A k \in Nat : k \in Same
  <2>1. 0 \in Same
    BY <1>2, <1>3 DEF base
  <2>2. ASSUME NEW k \in Nat, k \in Same PROVE k + 1 \in Same
    <3> SUFFICES ASSUME k + 1 <= n PROVE all[k + 1] = d[k + 1]
      OBVIOUS
    <3>1. k + 1 \in 0 .. n /\ k + 1 # 0 /\ (k + 1) - 1 = k /\ k \in 0 .. n - 1 /\ all[k] = d[k]
      BY <1>2, <2>2
    <3>2. all[k + 1] = Then(all[k])
      BY <1>3, <3>1
    <3>3. QED
      BY <1>2, <3>1, <3>2
  <2> HIDE DEF Same
  <2>3. QED
    BY <2>1, <2>2, Induction
<1>5. all[n] = d[n]
  BY <1>2, <1>4
<1>6. QED
  BY <1>1, <1>5 DEF n

LEMMA Beginnings ==
  ASSUME NEW A, NEW data \in Seq(A)
  PROVE  /\ [i \in 1 .. 0 |-> data[i]] = <<>> /\ [i \in 1 .. Len(data) |-> data[i]] = data
         /\ \A p \in 1 .. Len(data) + 1 : /\ [i \in 1 .. p - 1 |-> data[i]] \in Seq(A)
                                          /\ Len([i \in 1 .. p - 1 |-> data[i]]) = p - 1
<1>1. Len(data) \in Nat
  OBVIOUS
<1>2. [i \in 1 .. 0 |-> data[i]] = <<>>
  <2>1. [i \in 1 .. 0 |-> data[i]] \in Seq(A) /\ Len([i \in 1 .. 0 |-> data[i]]) = 0
    OBVIOUS
  <2>2. QED
    BY <2>1
<1>3. [i \in 1 .. Len(data) |-> data[i]] = data
  OBVIOUS
<1>4. ASSUME NEW p \in 1 .. Len(data) + 1
      PROVE  [i \in 1 .. p - 1 |-> data[i]] \in Seq(A) /\ Len([i \in 1 .. p - 1 |-> data[i]]) = p - 1
  <2>1. p - 1 \in Nat /\ \A i \in 1 .. p - 1 : data[i] \in A
    BY <1>1
  <2>2. \A m \in Nat : (\A i \in 1 .. m : data[i] \in A) =>
                         [i \in 1 .. m |-> data[i]] \in Seq(A) /\ Len([i \in 1 .. m |-> data[i]]) = m
    OBVIOUS
  <2>3. QED
    BY <2>1, <2>2
<1>5. QED
  BY <1>2, <1>3, <1>4

ExtendsTo(data, p, m, t) == [i \in 1 .. p - 1 |-> data[i]] \o t = [i \in 1 .. p + m - 1 |-> data[i]]

LEMMA Extended ==
  ASSUME NEW A, NEW data \in Seq(A), NEW p \in 1 .. Len(data) + 1, NEW m \in Nat, p + m <= Len(data) + 1,
         NEW t \in Seq(A), Len(t) = m, \A i \in 1 .. m : t[i] = data[p - 1 + i]
  PROVE  ExtendsTo(data, p, m, t)
<1> DEFINE s == [i \in 1 .. p - 1 |-> data[i]]
<1>1. s \in Seq(A) /\ Len(s) = p - 1
  BY Beginnings
<1>2. Len(data) \in Nat /\ p \in Nat /\ p >= 1 /\ p - 1 \in Nat /\ (p - 1) + m = p + m - 1
  OBVIOUS
<1>3. \A i \in 1 .. p - 1 : s[i] = data[i]
  OBVIOUS
<1> HIDE DEF s
<1>4. s \o t \in Seq(A) /\ Len(s \o t) = p + m - 1
  BY <1>1, <1>2, Concatenation
<1>5. ASSUME NEW i \in 1 .. p + m - 1 PROVE (s \o t)[i] = data[i]
  <2>1. CASE i <= p - 1
    <3>1. i \in 1 .. Len(s)
      BY <1>1, <1>2, <2>1
    <3>2. (s \o t)[i] = s[i]
      BY <3>1, Concatenation
    <3>3. QED
      BY <1>1, <1>3, <3>1, <3>2
  <2>2. CASE ~(i <= p - 1)
    <3>1. PICK j \in 1 .. m : i = p - 1 + j
      <4>1. i - (p - 1) \in 1 .. m /\ i = p - 1 + (i - (p - 1))
        BY <1>2, <2>2
      <4>2. QED
        BY <4>1
    <3>2. (s \o t)[Len(s) + j] = t[j]
      BY <3>1, Concatenation
    <3>3. QED
      BY <1>1, <3>1, <3>2
  <2>3. QED
    BY <2>1, <2>2
<1>6. s \o t = [i \in 1 .. Len(s \o t) |-> (s \o t)[i]]
  <2>1. \A u \in Seq(A) : u = [i \in 1 .. Len(u) |-> u[i]]
    OBVIOUS
  <2>2. QED
    BY <1>4, <2>1
<1>7. s \o t = [i \in 1 .. p + m - 1 |-> data[i]]
  BY <1>4, <1>5, <1>6
<1>8. QED
  BY <1>7 DEF s, ExtendsTo

LEMMA RunsReadBack ==
  ASSUME NEW data \in Seq(Bytes)
  PROVE  /\ RunLengthEncoded(data) \in Seq(Bytes)
         /\ RunsDecoded(RunLengthEncoded(data)) = data
<1> DEFINE tokens == [pos \in 1 .. Len(data) |-> Run(data, pos)]
<1>1. TokensOf(tokens, data, Bytes) /\ \A p \in 1 .. Len(data) : tokens[p] = Run(data, p)
  BY RunTokens
<1>2. RunLengthEncoded(data) = Written(data, tokens)
  BY DEF RunLengthEncoded
<1> HIDE DEF tokens
<1>3. PICK w : Writes(w, data, tokens, Bytes) /\ Written(data, tokens) = w[Len(data)].out
  BY <1>1, WrittenSteps DEF TokensOf
<1> DEFINE code == w[Len(data)].out
           n == Len(data)
           d == [k \in Nat |-> Taken(w, data, k)]
<1>4. /\ code \in Seq(Bytes)
      /\ w[Len(code)].at = n + 1
      /\ \A k \in Nat :
           /\ w[k].at > n => w[k].out = code
           /\ w[k].at <= n =>
                /\ Len(w[k].out) + Len(tokens[w[k].at].code) <= Len(code)
                /\ \A i \in 1 .. Len(tokens[w[k].at].code) : code[Len(w[k].out) + i] = tokens[w[k].at].code[i]
  <2>1. Stands(w, Len(data), tokens, w[Len(data)].out, Bytes)
    BY <1>1, <1>3, LockStep
  <2>2. QED
    BY <2>1 DEF Stands
<1>5. \A k \in Nat : StepFrom(w, n, tokens, Bytes, k)
  BY <1>1, <1>3, WritesStep
<1>6. w[0].at = 1 /\ w[0].out = <<>>
  BY <1>3 DEF Writes
<1>7. n \in Nat /\ Len(code) \in Nat
  BY <1>4
<1>8. \A k \in Nat : d[k] = Taken(w, data, k)
  OBVIOUS
<1>14. \A k : Taken(w, data, k).at = Len(w[k].out) + 1 /\ Taken(w, data, k).out = [i \in 1 .. w[k].at - 1 |-> data[i]]
  BY DEF Taken
<1> HIDE DEF d, code, n
<1>9. d[0] = [at |-> 1, out |-> <<>>]
  <2>1. Len(w[0].out) + 1 = 1 /\ w[0].at - 1 = 0
    BY <1>6
  <2>2. [i \in 1 .. 0 |-> data[i]] = <<>>
    BY Beginnings
  <2>3. Taken(w, data, 0) = [at |-> 1, out |-> [i \in 1 .. 0 |-> data[i]]]
    BY <2>1 DEF Taken
  <2>4. d[0] = Taken(w, data, 0)
    BY <1>8
  <2>5. QED
    BY <2>2, <2>3, <2>4
<1>10. ASSUME NEW k \in 0 .. Len(code) - 1
       PROVE  d[k + 1] = IF d[k].at > Len(code) THEN d[k] ELSE RunRead(code, d[k])
  <2>1. k \in Nat /\ k + 1 \in Nat
    BY <1>7
  <2>2. d[k].at = Len(w[k].out) + 1 /\ d[k].out = [i \in 1 .. w[k].at - 1 |-> data[i]]
    BY <1>8, <1>14, <2>1
  <2>3. StepFrom(w, n, tokens, Bytes, k)
    BY <1>5, <2>1
  <2>4. CASE w[k].at > n
    <3>1. w[k + 1] = w[k] /\ w[k].out = code
      BY <1>4, <2>1, <2>3, <2>4 DEF StepFrom
    <3>2. d[k + 1] = d[k]
      BY <1>8, <2>1, <3>1 DEF Taken
    <3>3. d[k].at > Len(code)
      BY <1>7, <2>2, <3>1
    <3>4. QED
      BY <3>2, <3>3
  <2>5. CASE w[k].at <= n
    <3>1. PICK p \in 1 .. n, s \in Seq(Bytes) : p = w[k].at /\ s = w[k].out
      BY <2>3, <2>5 DEF StepFrom
    <3>2. PICK m \in 1 .. MaxByte :
            /\ tokens[p] = [takes |-> m, code |-> <<m, data[p]>>]
            /\ p + m <= n + 1
            /\ \A i \in 0 .. m - 1 : data[p + i] = data[p]
      <4>1. tokens[p] = Run(data, p)
        BY <1>1, <3>1 DEF n
      <4>2. QED
        <5>1. p \in 1 .. Len(data)
          BY <3>1 DEF n
        <5>2. QED
          BY <4>1, <5>1, RunToken DEF n
    <3>3. tokens[p].takes = m /\ tokens[p].code = <<m, data[p]>>
      BY <3>2
    <3>4. m \in Nat /\ m \in Bytes /\ data[p] \in Bytes
      <4>1. data[p] \in Bytes
        BY <3>1 DEF n
      <4>2. m \in Nat /\ m \in Bytes
        BY <3>2, BytesThere
      <4>3. QED
        BY <4>1, <4>2
    <3>5. Len(s) + 2 <= Len(code) /\ code[Len(s) + 1] = m /\ code[Len(s) + 2] = data[p]
      <4>1. Len(<<m, data[p]>>) = 2 /\ <<m, data[p]>>[1] = m /\ <<m, data[p]>>[2] = data[p]
        OBVIOUS
      <4>2. /\ Len(s) + Len(<<m, data[p]>>) <= Len(code)
            /\ \A i \in 1 .. Len(<<m, data[p]>>) : code[Len(s) + i] = <<m, data[p]>>[i]
        BY <1>4, <2>1, <2>5, <3>1, <3>3
      <4>3. QED
        BY <4>1, <4>2
    <3>6. w[k + 1].at = p + m /\ w[k + 1].out = s \o <<m, data[p]>>
      BY <2>3, <2>5, <3>1, <3>3 DEF StepFrom
    <3>7. Len(s \o <<m, data[p]>>) = Len(s) + 2 /\ Len(s) \in Nat
      <4>1. \A x, y \in Bytes : Len(s \o <<x, y>>) = Len(s) + 2 /\ Len(s) \in Nat
        OBVIOUS
      <4>2. QED
        BY <3>4, <4>1
    <3> DEFINE t == [i \in 1 .. m |-> data[p]]
               u == [i \in 1 .. p - 1 |-> data[i]]
    <3>8. t \in Seq(Bytes) /\ Len(t) = m /\ \A i \in 1 .. m : t[i] = data[p - 1 + i]
      <4>1. \A i \in 1 .. m : i - 1 \in 0 .. m - 1 /\ p + (i - 1) = p - 1 + i
        BY <3>1, <3>4
      <4>2. \A i \in 1 .. m : data[p] = data[p - 1 + i]
        BY <3>2, <4>1
      <4>3. \A b \in Bytes, h \in Nat : [i \in 1 .. h |-> b] \in Seq(Bytes) /\ Len([i \in 1 .. h |-> b]) = h
        OBVIOUS
      <4>4. QED
        BY <3>4, <4>2, <4>3
    <3>9. u \o t = [i \in 1 .. p + m - 1 |-> data[i]]
      <4> HIDE DEF t
      <4>1. p \in 1 .. Len(data) + 1 /\ p + m <= Len(data) + 1 /\ m \in Nat
        BY <1>7, <3>1, <3>2, <3>4 DEF n
      <4>2. ExtendsTo(data, p, m, t)
        BY <3>8, <4>1, Extended
      <4>3. QED
        BY <4>2 DEF ExtendsTo
    <3>10. RunRead(code, d[k]) = [at |-> Len(s) + 3, out |-> u \o t]
      <4>1. d[k].at = Len(s) + 1 /\ d[k].out = u /\ (Len(s) + 1) + 1 = Len(s) + 2 /\ (Len(s) + 1) + 2 = Len(s) + 3
        BY <2>2, <3>1, <3>7
      <4>2. RunRead(code, d[k])
              = [at |-> d[k].at + 2, out |-> d[k].out \o [i \in 1 .. code[d[k].at] |-> code[d[k].at + 1]]]
        BY DEF RunRead
      <4> HIDE DEF u
      <4>3. [i \in 1 .. code[d[k].at] |-> code[d[k].at + 1]] = t
        BY <3>5, <4>1
      <4> HIDE DEF t
      <4>4. QED
        BY <4>1, <4>2, <4>3
    <3>11. d[k + 1] = [at |-> Len(s) + 3, out |-> [i \in 1 .. p + m - 1 |-> data[i]]]
      <4>1. Len(w[k + 1].out) + 1 = Len(s) + 3 /\ w[k + 1].at - 1 = p + m - 1
        BY <3>6, <3>7
      <4>2. QED
        BY <1>8, <2>1, <4>1 DEF Taken
    <3>12. ~(d[k].at > Len(code))
      BY <1>7, <2>2, <3>1, <3>5, <3>7
    <3> HIDE DEF t, u
    <3>13. QED
      BY <3>9, <3>10, <3>11, <3>12
  <2>6. w[k].at > n \/ w[k].at <= n
    <3>1. w[k].at \in Nat
      BY <2>3 DEF StepFrom
    <3>2. \A p, m \in Nat : p > m \/ p <= m
      OBVIOUS
    <3>3. QED
      BY <1>7, <3>1, <3>2
  <2>7. QED
    BY <2>4, <2>5, <2>6
<1>11. RunsDecoded(code) = d[Len(code)].out
  BY <1>7, <1>9, <1>10, RunsDecodedIs
<1>12. d[Len(code)].out = data
  <2>1. (n + 1) - 1 = n
    BY <1>7
  <2>2. d[Len(code)] = Taken(w, data, Len(code))
    BY <1>7, <1>8
  <2>3. Taken(w, data, Len(code)).out = [i \in 1 .. w[Len(code)].at - 1 |-> data[i]]
    BY <1>14
  <2>4. Taken(w, data, Len(code)).out = [i \in 1 .. n |-> data[i]]
    BY <1>4, <2>1, <2>3
  <2>5. QED
    BY <2>2, <2>4, Beginnings DEF n
<1>13. QED
  BY <1>2, <1>3, <1>4, <1>11, <1>12 DEF code


\* A token that stands for a match, of which the code tells how far back and how long.
MatchAt(token, data, pos) ==
  \E m \in 3 .. MaxByte, back \in 1 .. pos - 1, low, high \in Bytes :
     /\ token = [takes |-> m, code |-> <<MaxByte, low, high, m>>]
     /\ back = low + (MaxByte + 1) * high
     /\ pos + m <= Len(data) + 1
     /\ \A k \in 0 .. m - 1 : data[pos - back + k] = data[pos + k]

LEMMA TwoBytes ==
  ASSUME NEW b \in Nat \ {0}, NEW d \in Nat, d < b * b
  PROVE  /\ d % b \in 0 .. b - 1 /\ (d \div b) % b \in 0 .. b - 1
         /\ d = (d % b) + b * ((d \div b) % b)
<1>1. PICK q, r \in Int : q = d \div b /\ r = d % b
  OBVIOUS
<1>2. r \in 0 .. b - 1 /\ d = b * q + r
  BY <1>1
<1>3. q \in 0 .. b - 1
  <2>1. q >= 0
    <3>1. q <= -1 => b * q <= -b
      OBVIOUS
    <3>2. QED
      BY <1>2, <3>1
  <2>2. q < b
    <3>1. q >= b => b * q >= b * b
      OBVIOUS
    <3>2. QED
      BY <1>2, <3>1
  <2>3. QED
    BY <2>1, <2>2
<1>4. q % b = q
  BY <1>3
<1>5. d % b = r /\ (d \div b) % b = q
  BY <1>1, <1>4
<1>6. d = r + b * q
  BY <1>2
<1>7. QED
  BY <1>2, <1>3, <1>5, <1>6, Zenon

LEMMA MatchLengthThere ==
  ASSUME NEW data \in Seq(Bytes), NEW pos \in 1 .. Len(data), NEW i
  PROVE  /\ MatchLength(data, i, pos) \in Nat
         /\ MatchLength(data, i, pos) <= MaxByte
         /\ pos + MatchLength(data, i, pos) <= Len(data) + 1
         /\ \A k \in 0 .. MatchLength(data, i, pos) - 1 : data[i + k] = data[pos + k]
<1> DEFINE left == Len(data) - pos + 1
           cut == Min({Longest, left})
           S == {n \in 0 .. cut : \A k \in 0 .. n - 1 : data[i + k] = data[pos + k]}
<1>1. Len(data) \in Nat /\ left \in Nat /\ pos \in Nat /\ pos + left = Len(data) + 1
  OBVIOUS
<1> HIDE DEF left
<1>2. cut \in Nat /\ cut <= MaxByte /\ cut <= left
  <2>1. Longest \in Nat /\ Longest <= MaxByte
    BY BytesThere, DeltaAssumption
  <2>2. cut \in {Longest, left} /\ \A x \in {Longest, left} : cut <= x
    BY <1>1, <2>1, MinThere
  <2> HIDE DEF cut
  <2>3. QED
    BY <1>1, <2>1, <2>2, BytesThere
<1>3. MatchLength(data, i, pos) = Max(S)
  BY DEF MatchLength, left
<1> HIDE DEF cut
<1>4. S \in SUBSET Nat /\ 0 \in S /\ \A x \in S : x <= cut
  BY <1>2
<1> DEFINE n == Max(S)
<1>5. n \in S
  <2> HIDE DEF S
  <2>1. QED
    BY <1>2, <1>4, MaxThere
<1> HIDE DEF n
<1>6. n \in Nat /\ n <= MaxByte /\ pos + n <= Len(data) + 1 /\ \A k \in 0 .. n - 1 : data[i + k] = data[pos + k]
  BY <1>1, <1>2, <1>5, BytesThere
<1>7. QED
  BY <1>3, <1>6 DEF n

LEMMA MatchToken ==
  ASSUME NEW data \in Seq(Bytes), NEW pos \in 1 .. Len(data)
  PROVE  \/ Match(data, pos) = [takes |-> 1, code |-> <<data[pos]>>]
         \/ MatchAt(Match(data, pos), data, pos)
<1> DEFINE window == {i \in 1 .. pos - 1 : pos - i <= Window}
           L(i) == MatchLength(data, i, pos)
           lengths == {0} \cup {L(i) : i \in window}
           length == Max(lengths)
           firsts == {i \in window : L(i) = length}
           first == Min(firsts)
           b == MaxByte + 1
           long == [takes |-> length,
                    code |-> <<MaxByte, (pos - first) % b, ((pos - first) \div b) % b, length>>]
<1>1. Match(data, pos) = IF length > 2 THEN long ELSE [takes |-> 1, code |-> <<data[pos]>>]
  BY DEF Match
<1>2. \A i : /\ L(i) \in Nat /\ L(i) <= MaxByte /\ pos + L(i) <= Len(data) + 1
             /\ \A k \in 0 .. L(i) - 1 : data[i + k] = data[pos + k]
  BY MatchLengthThere
<1>3. MaxByte \in Nat /\ MaxByte >= 3 /\ Bytes = 0 .. MaxByte /\ b \in Nat \ {0}
  BY BytesThere
<1> HIDE DEF L
<1> SUFFICES ASSUME length > 2 PROVE MatchAt(long, data, pos)
  BY <1>1
<1>4. length \in lengths
  <2>1. lengths \in SUBSET Nat /\ lengths # {} /\ \A x \in lengths : x <= MaxByte
    BY <1>2, <1>3
  <2> HIDE DEF lengths
  <2>2. QED
    BY <1>3, <2>1, MaxThere
<1> HIDE DEF length
<1>5. firsts \in SUBSET Nat /\ firsts # {}
  <2>1. length # 0
    OBVIOUS
  <2>2. QED
    BY <1>4, <2>1
<1>6. first \in firsts
  <2> HIDE DEF firsts
  <2>1. QED
    BY <1>5, MinThere
<1> HIDE DEF first, lengths
<1>7. first \in 1 .. pos - 1 /\ pos - first <= Window /\ length = L(first) /\ pos \in Nat
  BY <1>6
<1> HIDE DEF firsts
<1>8. /\ length \in 3 .. MaxByte /\ pos + length <= Len(data) + 1
      /\ \A k \in 0 .. length - 1 : data[first + k] = data[pos + k]
  <2>1. length \in Nat /\ length <= MaxByte /\ pos + length <= Len(data) + 1
    BY <1>2, <1>7
  <2>2. length \in 3 .. MaxByte
    BY <1>3, <2>1
  <2>3. QED
    BY <1>2, <1>7, <2>1, <2>2
<1>9. PICK back \in Nat : back = pos - first
  BY <1>7
<1>10. back \in 1 .. pos - 1 /\ back < b * b /\ pos - back = first
  <2>1. Window \in Int /\ Window <= b * b - 1
    BY <1>3, DeltaAssumption
  <2>2. b * b \in Nat
    BY <1>3
  <2> HIDE DEF b
  <2>3. QED
    BY <1>7, <1>9, <2>1, <2>2
<1>11. PICK low, high \in 0 .. b - 1 :
         low = back % b /\ high = (back \div b) % b /\ back = low + b * high
  <2> HIDE DEF b
  <2>1. QED
    BY <1>3, <1>10, TwoBytes
<1>12. low \in Bytes /\ high \in Bytes
  BY <1>3
<1>13. long = [takes |-> length, code |-> <<MaxByte, low, high, length>>]
  BY <1>9, <1>11
<1>14. \A k \in 0 .. length - 1 : data[pos - back + k] = data[pos + k]
  BY <1>8, <1>10
<1> HIDE DEF long
<1>15. QED
  BY <1>8, <1>10, <1>11, <1>12, <1>13, <1>14 DEF MatchAt

LEMMA MatchTokens ==
  ASSUME NEW data \in Seq(Bytes)
  PROVE  TokensOf([pos \in 1 .. Len(data) |-> Match(data, pos)], data, Bytes)
<1> DEFINE tokens == [pos \in 1 .. Len(data) |-> Match(data, pos)]
<1>1. ASSUME NEW p \in 1 .. Len(data)
      PROVE  /\ tokens[p] \in [takes : Nat \ {0}, code : Seq(Bytes)]
             /\ p + tokens[p].takes <= Len(data) + 1 /\ tokens[p].code # <<>>
  <2>1. tokens[p] = [takes |-> 1, code |-> <<data[p]>>] \/ MatchAt(tokens[p], data, p)
    BY MatchToken
  <2> HIDE DEF tokens
  <2>2. CASE tokens[p] = [takes |-> 1, code |-> <<data[p]>>]
    <3>1. data[p] \in Bytes /\ p + 1 <= Len(data) + 1 /\ 1 \in Nat \ {0}
      OBVIOUS
    <3>2. \A x \in Bytes : <<x>> \in Seq(Bytes) /\ <<x>> # <<>>
      OBVIOUS
    <3>3. PICK c \in Seq(Bytes) : c = <<data[p]>> /\ c # <<>>
      BY <3>1, <3>2
    <3>4. tokens[p] = [takes |-> 1, code |-> c]
      BY <2>2, <3>3
    <3>5. QED
      BY <3>1, <3>3, <3>4
  <2>3. CASE MatchAt(tokens[p], data, p)
    <3>1. PICK m \in 3 .. MaxByte, low, high \in Bytes :
            /\ tokens[p] = [takes |-> m, code |-> <<MaxByte, low, high, m>>]
            /\ p + m <= Len(data) + 1
      BY <2>3 DEF MatchAt
    <3>2. m \in Bytes /\ MaxByte \in Bytes /\ m \in Nat \ {0}
      BY BytesThere
    <3>3. \A x, y, z, u \in Bytes : <<x, y, z, u>> \in Seq(Bytes) /\ <<x, y, z, u>> # <<>>
      OBVIOUS
    <3>4. PICK c \in Seq(Bytes) : c = <<MaxByte, low, high, m>> /\ c # <<>>
      BY <3>2, <3>3
    <3>5. tokens[p] = [takes |-> m, code |-> c]
      BY <3>1, <3>4
    <3>6. QED
      BY <3>1, <3>2, <3>4, <3>5
  <2>4. QED
    BY <2>1, <2>2, <2>3
<1>2. tokens = [p \in 1 .. Len(data) |-> tokens[p]]
  OBVIOUS
<1> HIDE DEF tokens
<1>3. QED
  BY <1>1, <1>2 DEF TokensOf, tokens

LEMMA MatchesDecodedIs ==
  ASSUME NEW code, Len(code) \in Nat, NEW d, d[0] = [at |-> 1, out |-> <<>>],
         \A k \in 0 .. Len(code) - 1 :
           d[k + 1] = IF d[k].at > Len(code) THEN d[k] ELSE MatchRead(code, d[k])
  PROVE  MatchesDecoded(code) = d[Len(code)].out
<1> DEFINE n == Len(code)
           Then(s) == IF s.at > n THEN s ELSE MatchRead(code, s)
           Is(f) == f = [k \in 0 .. n |-> IF k = 0 THEN [at |-> 1, out |-> <<>>] ELSE Then(f[k - 1])]
           all == CHOOSE f : Is(f)
           base == [at |-> 1, out |-> <<>>]
<1>1. MatchesDecoded(code) = all[n].out
  BY DEF MatchesDecoded
<1>2. n \in Nat /\ d[0] = base /\ \A k \in 0 .. n - 1 : d[k + 1] = Then(d[k])
  OBVIOUS
<1> HIDE DEF n, base, Then
<1>3. Is(all)
  <2> DEFINE g == [k \in 0 .. n |-> d[k]]
  <2>1. ASSUME NEW k \in 0 .. n PROVE g[k] = IF k = 0 THEN base ELSE Then(g[k - 1])
    <3>1. CASE k = 0
      BY <1>2, <3>1
    <3>2. CASE k # 0
      <4>1. k - 1 \in 0 .. n - 1 /\ k - 1 \in 0 .. n /\ (k - 1) + 1 = k
        BY <1>2, <3>2
      <4>2. d[k] = Then(d[k - 1])
        BY <1>2, <4>1
      <4>3. QED
        BY <3>2, <4>1, <4>2
    <3>3. QED
      BY <3>1, <3>2
  <2>2. g = [k \in 0 .. n |-> g[k]]
    OBVIOUS
  <2> HIDE DEF g
  <2>3. Is(g)
    BY <2>1, <2>2, Zenon DEF base
  <2>4. QED
    BY <2>3
<1> HIDE DEF all
<1> DEFINE Same == {k \in Nat : k <= n => all[k] = d[k]}
<1>4. \A k \in Nat : k \in Same
  <2>1. 0 \in Same
    BY <1>2, <1>3 DEF base
  <2>2. ASSUME NEW k \in Nat, k \in Same PROVE k + 1 \in Same
    <3> SUFFICES ASSUME k + 1 <= n PROVE all[k + 1] = d[k + 1]
      OBVIOUS
    <3>1. k + 1 \in 0 .. n /\ k + 1 # 0 /\ (k + 1) - 1 = k /\ k \in 0 .. n - 1 /\ all[k] = d[k]
      BY <1>2, <2>2
    <3>2. all[k + 1] = Then(all[k])
      BY <1>3, <3>1
    <3>3. QED
      BY <1>2, <3>1, <3>2
  <2> HIDE DEF Same
  <2>3. QED
    BY <2>1, <2>2, Induction
<1>5. all[n] = d[n]
  BY <1>2, <1>4
<1>6. QED
  BY <1>1, <1>5 DEF n


LEMMA OneRemainder ==
  ASSUME NEW d \in Nat \ {0}, NEW q \in Int, NEW p \in Int, NEW r \in 0 .. d - 1, NEW s \in 0 .. d - 1,
         d * q + r = d * p + s
  PROVE  r = s
<1>1. q > p => d * q >= d * p + d
  OBVIOUS
<1>2. p > q => d * p >= d * q + d
  OBVIOUS
<1>3. CASE q = p
  BY <1>3
<1>4. CASE q > p
  BY <1>1, <1>4
<1>5. CASE p > q
  BY <1>2, <1>5
<1>6. QED
  BY <1>3, <1>4, <1>5

LEMMA Remainders ==
  ASSUME NEW d \in Nat \ {0}, NEW k \in Nat
  PROVE  /\ k % d \in 0 .. d - 1
         /\ k < d => k % d = k
         /\ k >= d => k - d \in Nat /\ (k - d) % d = k % d
<1>1. k % d \in 0 .. d - 1
  OBVIOUS
<1>2. k < d => k % d = k
  OBVIOUS
<1>3. ASSUME k >= d PROVE k - d \in Nat /\ (k - d) % d = k % d
  <2>1. k - d \in Nat
    BY <1>3
  <2>2. PICK q, r \in Int : k = d * q + r /\ r \in 0 .. d - 1 /\ r = k % d
    OBVIOUS
  <2>3. PICK p, s \in Int : k - d = d * p + s /\ s \in 0 .. d - 1 /\ s = (k - d) % d
    BY <2>1
  <2>4. PICK u \in Int : u = p + 1 /\ d * q + r = d * u + s
    <3>1. d * (p + 1) = d * p + d
      BY <2>3
    <3>2. PICK x \in Int : x = d * p
      BY <2>3
    <3>3. d * q + r = d * (p + 1) + s
      BY <2>2, <2>3, <3>1, <3>2
    <3>4. QED
      BY <2>3, <3>3
  <2>5. r = s
    <3> r \in 0 .. d - 1 /\ s \in 0 .. d - 1
      BY <2>2, <2>3
    <3>1. QED
      BY <2>4, OneRemainder
  <2>6. QED
    BY <2>1, <2>2, <2>3, <2>5
<1>4. QED
  BY <1>1, <1>2, <1>3

\* What equals what stands so far before it repeats itself.
RepeatsEvery(data, pos, back, m) == \A k \in 0 .. m - 1 : data[pos - back + (k % back)] = data[pos + k]

LEMMA Repeats ==
  ASSUME NEW data, NEW pos \in Nat, NEW back \in Nat \ {0}, NEW m \in Nat,
         \A k \in 0 .. m - 1 : data[pos - back + k] = data[pos + k]
  PROVE  RepeatsEvery(data, pos, back, m)
<1> DEFINE Holds(k) == data[pos - back + (k % back)] = data[pos + k]
           S == {k \in Nat : \A j \in 0 .. m - 1 : j < k => Holds(j)}
<1>1. 0 \in S
  OBVIOUS
<1>2. ASSUME NEW k \in Nat, k \in S PROVE k + 1 \in S
  <2>1. ASSUME k \in 0 .. m - 1 PROVE Holds(k)
    <3>1. CASE k < back
      <4>1. k % back = k
        BY <3>1, Remainders
      <4>2. QED
        BY <2>1, <4>1
    <3>2. CASE k >= back
      <4>1. k - back \in Nat /\ (k - back) % back = k % back
        BY <3>2, Remainders
      <4>2. k - back \in 0 .. m - 1 /\ k - back < k
        BY <2>1, <4>1
      <4>3. Holds(k - back)
        BY <1>2, <4>2
      <4>4. pos - back + k = pos + (k - back)
        OBVIOUS
      <4>5. data[pos - back + k] = data[pos + k]
        BY <2>1
      <4>6. data[pos - back + (k % back)] = data[pos + (k - back)]
        BY <4>1, <4>3
      <4>7. QED
        BY <4>4, <4>5, <4>6, Zenon
    <3>3. QED
      BY <3>1, <3>2
  <2> HIDE DEF Holds
  <2>2. ASSUME NEW j \in 0 .. m - 1, j < k + 1 PROVE Holds(j)
    <3>1. j < k \/ j = k
      BY <2>2
    <3>2. QED
      BY <1>2, <2>1, <3>1
  <2>3. QED
    BY <2>2
<1> HIDE DEF Holds, S
<1>3. \A k \in Nat : k \in S
  BY <1>1, <1>2, Induction
<1>4. ASSUME NEW k \in 0 .. m - 1 PROVE Holds(k)
  <2>1. k + 1 \in S /\ k < k + 1
    BY <1>3
  <2>2. QED
    BY <2>1 DEF S
<1>5. QED
  BY <1>4 DEF Holds, RepeatsEvery

LEMMA CopiedThere ==
  ASSUME NEW A, NEW data \in Seq(A), NEW p \in 1 .. Len(data), NEW m \in Nat, p + m <= Len(data) + 1,
         NEW back \in 1 .. p - 1,
         \A k \in 0 .. m - 1 : data[p - back + k] = data[p + k]
  PROVE  Copied([i \in 1 .. p - 1 |-> data[i]], back, m) = [i \in 1 .. p + m - 1 |-> data[i]]
<1> DEFINE s == [i \in 1 .. p - 1 |-> data[i]]
           Elsewhere(i) == p - 1 - back + 1 + ((i - (p - 1) - 1) % back)
<1>1. Len(data) \in Nat /\ p \in Nat /\ p >= 1 /\ (p - 1) + m = p + m - 1 /\ back \in Nat \ {0} /\ back < p
  OBVIOUS
<1>2. Len(s) = p - 1
  <2>1. p \in 1 .. Len(data) + 1
    BY <1>1
  <2>2. QED
    BY <2>1, Beginnings
<1>3. \A k \in 0 .. m - 1 : data[p - back + (k % back)] = data[p + k]
  <2>1. RepeatsEvery(data, p, back, m)
    BY <1>1, Repeats
  <2>2. QED
    BY <2>1 DEF RepeatsEvery
<1>4. Copied(s, back, m)
        = [i \in 1 .. Len(s) + m |-> IF i <= Len(s) THEN s[i]
                                     ELSE s[Len(s) - back + 1 + ((i - Len(s) - 1) % back)]]
  BY DEF Copied
<1>5. \A i \in 1 .. p - 1 : s[i] = data[i]
  OBVIOUS
<1> HIDE DEF s
<1>6. Copied(s, back, m) = [i \in 1 .. p + m - 1 |-> IF i <= p - 1 THEN s[i] ELSE s[Elsewhere(i)]]
  BY <1>1, <1>2, <1>4
<1>7. ASSUME NEW i \in 1 .. p + m - 1 PROVE (IF i <= p - 1 THEN s[i] ELSE s[Elsewhere(i)]) = data[i]
  <2>1. CASE i <= p - 1
    BY <1>1, <1>5, <2>1
  <2>2. CASE ~(i <= p - 1)
    <3>1. PICK k \in 0 .. m - 1 : i = p + k
      <4>1. i - p \in 0 .. m - 1 /\ i = p + (i - p)
        BY <1>1, <2>2
      <4>2. QED
        BY <4>1
    <3>2. i - (p - 1) - 1 = k
      BY <1>1, <3>1
    <3>3. PICK r \in 0 .. back - 1 : r = k % back
      <4>1. k \in Nat
        OBVIOUS
      <4>2. QED
        BY <1>1, <4>1, Remainders
    <3>4. Elsewhere(i) = p - back + r
      <4>1. Elsewhere(i) = p - 1 - back + 1 + r
        BY <3>2, <3>3
      <4> HIDE DEF Elsewhere
      <4>2. QED
        BY <1>1, <4>1
    <3> HIDE DEF Elsewhere
    <3>5. p - back + r \in 1 .. p - 1
      BY <1>1
    <3>6. s[p - back + r] = data[p - back + r]
      BY <1>5, <3>5
    <3>7. data[p - back + r] = data[p + k]
      BY <1>3, <3>3
    <3>8. QED
      BY <2>2, <3>1, <3>4, <3>6, <3>7
  <2>3. QED
    BY <2>1, <2>2
<1>8. QED
  BY <1>6, <1>7 DEF s

LEMMA MatchesReadBack ==
  ASSUME NEW data \in Seq(Bytes)
  PROVE  /\ LZ77Compressed(data) \in Seq(Bytes)
         /\ (\A i \in 1 .. Len(data) : data[i] # MaxByte)
              => MatchesDecoded(LZ77Compressed(data)) = data
<1> DEFINE tokens == [pos \in 1 .. Len(data) |-> Match(data, pos)]
<1>1. TokensOf(tokens, data, Bytes) /\ \A p \in 1 .. Len(data) : tokens[p] = Match(data, p)
  BY MatchTokens
<1>2. LZ77Compressed(data) = Written(data, tokens)
  BY DEF LZ77Compressed
<1> HIDE DEF tokens
<1>3. PICK w : Writes(w, data, tokens, Bytes) /\ Written(data, tokens) = w[Len(data)].out
  BY <1>1, WrittenSteps DEF TokensOf
<1> DEFINE code == w[Len(data)].out
           n == Len(data)
           d == [k \in Nat |-> Taken(w, data, k)]
<1>4. /\ code \in Seq(Bytes)
      /\ w[Len(code)].at = n + 1
      /\ \A k \in Nat :
           /\ w[k].at > n => w[k].out = code
           /\ w[k].at <= n =>
                /\ Len(w[k].out) + Len(tokens[w[k].at].code) <= Len(code)
                /\ \A i \in 1 .. Len(tokens[w[k].at].code) : code[Len(w[k].out) + i] = tokens[w[k].at].code[i]
  <2>1. Stands(w, Len(data), tokens, w[Len(data)].out, Bytes)
    BY <1>1, <1>3, LockStep
  <2>2. QED
    BY <2>1 DEF Stands
<1>13. code \in Seq(Bytes) /\ LZ77Compressed(data) = code
  BY <1>2, <1>3, <1>4
<1> SUFFICES ASSUME \A i \in 1 .. Len(data) : data[i] # MaxByte
             PROVE  MatchesDecoded(code) = data
  BY <1>13
<1>15. \A i \in 1 .. Len(data) : data[i] # MaxByte
  OBVIOUS
<1>5. \A k \in Nat : StepFrom(w, n, tokens, Bytes, k)
  BY <1>1, <1>3, WritesStep
<1>6. w[0].at = 1 /\ w[0].out = <<>>
  BY <1>3 DEF Writes
<1>7. n \in Nat /\ Len(code) \in Nat
  BY <1>4
<1>8. \A k \in Nat : d[k] = Taken(w, data, k)
  OBVIOUS
<1>14. \A k : Taken(w, data, k).at = Len(w[k].out) + 1 /\ Taken(w, data, k).out = [i \in 1 .. w[k].at - 1 |-> data[i]]
  BY DEF Taken
<1> HIDE DEF d, code, n
<1>9. d[0] = [at |-> 1, out |-> <<>>]
  <2>1. Len(w[0].out) + 1 = 1 /\ w[0].at - 1 = 0
    BY <1>6
  <2>2. [i \in 1 .. 0 |-> data[i]] = <<>>
    BY Beginnings
  <2>3. Taken(w, data, 0) = [at |-> 1, out |-> [i \in 1 .. 0 |-> data[i]]]
    BY <2>1 DEF Taken
  <2>4. d[0] = Taken(w, data, 0)
    BY <1>8
  <2>5. QED
    BY <2>2, <2>3, <2>4
<1>10. ASSUME NEW k \in 0 .. Len(code) - 1
       PROVE  d[k + 1] = IF d[k].at > Len(code) THEN d[k] ELSE MatchRead(code, d[k])
  <2>1. k \in Nat /\ k + 1 \in Nat
    BY <1>7
  <2>2. d[k].at = Len(w[k].out) + 1 /\ d[k].out = [i \in 1 .. w[k].at - 1 |-> data[i]]
    BY <1>8, <1>14, <2>1
  <2>3. StepFrom(w, n, tokens, Bytes, k)
    BY <1>5, <2>1
  <2>4. CASE w[k].at > n
    <3>1. w[k + 1] = w[k] /\ w[k].out = code
      BY <1>4, <2>1, <2>3, <2>4 DEF StepFrom
    <3>2. d[k + 1] = d[k]
      BY <1>8, <2>1, <3>1 DEF Taken
    <3>3. d[k].at > Len(code)
      BY <1>7, <2>2, <3>1
    <3>4. QED
      BY <3>2, <3>3
  <2>5. CASE w[k].at <= n
    <3>1. PICK p \in 1 .. n, s \in Seq(Bytes) : p = w[k].at /\ s = w[k].out
      BY <2>3, <2>5 DEF StepFrom
    <3>2. data[p] \in Bytes /\ data[p] # MaxByte /\ Len(s) \in Nat /\ p \in 1 .. Len(data)
      BY <1>15, <3>1 DEF n
    <3>3. d[k].at = Len(s) + 1 /\ d[k].out = [i \in 1 .. p - 1 |-> data[i]]
      BY <2>2, <3>1
    <3>4. /\ Len(s) + Len(tokens[p].code) <= Len(code)
          /\ \A i \in 1 .. Len(tokens[p].code) : code[Len(s) + i] = tokens[p].code[i]
      BY <1>4, <2>1, <2>5, <3>1
    <3>5. w[k + 1].at = p + tokens[p].takes /\ w[k + 1].out = s \o tokens[p].code
      BY <2>3, <2>5, <3>1 DEF StepFrom
    <3>6. d[k + 1] = [at |-> Len(w[k + 1].out) + 1, out |-> [i \in 1 .. w[k + 1].at - 1 |-> data[i]]]
      BY <1>8, <2>1 DEF Taken
    <3>7. tokens[p] = [takes |-> 1, code |-> <<data[p]>>] \/ MatchAt(tokens[p], data, p)
      <4>1. tokens[p] = Match(data, p)
        BY <1>1, <3>2
      <4>2. QED
        BY <3>2, <4>1, MatchToken
    <3>8. CASE tokens[p] = [takes |-> 1, code |-> <<data[p]>>]
      <4>1. tokens[p].takes = 1 /\ tokens[p].code = <<data[p]>>
        BY <3>8
      <4>2. Len(s) + 1 <= Len(code) /\ code[Len(s) + 1] = data[p]
        <5>1. Len(<<data[p]>>) = 1 /\ <<data[p]>>[1] = data[p]
          OBVIOUS
        <5>2. QED
          BY <3>4, <4>1, <5>1
      <4> DEFINE u == [i \in 1 .. p - 1 |-> data[i]]
                 t == <<data[p]>>
      <4>0. PICK m \in Nat : m = 1
        OBVIOUS
      <4>3. t \in Seq(Bytes) /\ Len(t) = m /\ \A i \in 1 .. m : t[i] = data[p - 1 + i]
        <5>1. \A x \in Bytes : <<x>> \in Seq(Bytes) /\ Len(<<x>>) = 1 /\ \A i \in 1 .. 1 : <<x>>[i] = x
          OBVIOUS
        <5>2. \A i \in 1 .. 1 : p - 1 + i = p
          BY <3>2
        <5>3. QED
          BY <3>2, <4>0, <5>1, <5>2
      <4>4. u \o t = [i \in 1 .. p + m - 1 |-> data[i]]
        <5> HIDE DEF t
        <5>1. p \in 1 .. Len(data) + 1 /\ p + m <= Len(data) + 1 /\ m \in Nat
          BY <3>2, <4>0
        <5>2. ExtendsTo(data, p, m, t)
          BY <4>3, <5>1, Extended
        <5>3. QED
          BY <5>2 DEF ExtendsTo
      <4>5. Append(u, data[p]) = u \o t
        <5>1. u \in Seq(Bytes)
          <6>1. p \in 1 .. Len(data) + 1
            BY <3>2
          <6>2. QED
            BY <6>1, Beginnings
        <5> HIDE DEF u
        <5>2. \A x \in Bytes : Append(u, x) = u \o <<x>>
          BY <5>1
        <5>3. QED
          BY <3>2, <5>2
      <4>6. MatchRead(code, d[k]) = [at |-> Len(s) + 2, out |-> u \o t]
        <5>1. code[d[k].at] # MaxByte /\ code[d[k].at] = data[p] /\ d[k].at + 1 = Len(s) + 2
          BY <3>2, <3>3, <4>2
        <5>2. MatchRead(code, d[k]) = [at |-> d[k].at + 1, out |-> Append(d[k].out, code[d[k].at])]
          BY <5>1 DEF MatchRead
        <5>3. d[k].out = u
          BY <3>3
        <5> HIDE DEF u, t
        <5>4. QED
          BY <4>5, <5>1, <5>2, <5>3
      <4>7. d[k + 1] = [at |-> Len(s) + 2, out |-> [i \in 1 .. p + m - 1 |-> data[i]]]
        <5>1. Len(s \o t) = Len(s) + 1
          <6>1. \A x \in Bytes : Len(s \o <<x>>) = Len(s) + 1
            OBVIOUS
          <6>2. QED
            BY <3>2, <6>1
        <5>2. Len(w[k + 1].out) + 1 = Len(s) + 2 /\ w[k + 1].at - 1 = p + m - 1
          BY <3>2, <3>5, <4>0, <4>1, <5>1
        <5>3. QED
          BY <3>6, <5>2
      <4>8. ~(d[k].at > Len(code))
        BY <1>7, <3>2, <3>3, <4>2
      <4> HIDE DEF t, u
      <4>9. QED
        BY <4>4, <4>6, <4>7, <4>8
    <3>9. CASE MatchAt(tokens[p], data, p)
      <4>1. PICK m \in 3 .. MaxByte, back \in 1 .. p - 1, low, high \in Bytes :
              /\ tokens[p] = [takes |-> m, code |-> <<MaxByte, low, high, m>>]
              /\ back = low + (MaxByte + 1) * high
              /\ p + m <= Len(data) + 1
              /\ \A i \in 0 .. m - 1 : data[p - back + i] = data[p + i]
        BY <3>9 DEF MatchAt
      <4>2. tokens[p].takes = m /\ tokens[p].code = <<MaxByte, low, high, m>>
        BY <4>1
      <4>3. m \in Bytes /\ MaxByte \in Bytes /\ m \in Nat
        BY BytesThere
      <4>4. /\ Len(s) + 4 <= Len(code)
            /\ code[Len(s) + 1] = MaxByte /\ code[Len(s) + 2] = low
            /\ code[Len(s) + 3] = high /\ code[Len(s) + 4] = m
        <5>1. PICK c : c = <<MaxByte, low, high, m>>
          OBVIOUS
        <5>2. Len(c) = 4 /\ c[1] = MaxByte /\ c[2] = low /\ c[3] = high /\ c[4] = m
          BY <5>1
        <5>3. Len(s) + Len(c) <= Len(code) /\ \A i \in 1 .. Len(c) : code[Len(s) + i] = c[i]
          BY <3>4, <4>2, <5>1
        <5>4. QED
          BY <5>2, <5>3
      <4> DEFINE u == [i \in 1 .. p - 1 |-> data[i]]
      <4>5. Copied(u, back, m) = [i \in 1 .. p + m - 1 |-> data[i]]
        BY <3>2, <4>1, <4>3, CopiedThere
      <4>6. MatchRead(code, d[k]) = [at |-> Len(s) + 5, out |-> Copied(u, back, m)]
        <5>1. /\ d[k].at = Len(s) + 1 /\ d[k].at + 1 = Len(s) + 2 /\ d[k].at + 2 = Len(s) + 3
              /\ d[k].at + 3 = Len(s) + 4 /\ d[k].at + 4 = Len(s) + 5
          BY <3>2, <3>3
        <5>2. code[d[k].at] = MaxByte
          BY <4>4, <5>1
        <5>3. MatchRead(code, d[k])
                = [at |-> d[k].at + 4,
                   out |-> Copied(d[k].out, code[d[k].at + 1] + (MaxByte + 1) * code[d[k].at + 2],
                                        code[d[k].at + 3])]
          BY <5>2, Zenon DEF MatchRead
        <5>4. d[k].out = u
          BY <3>3
        <5> HIDE DEF u
        <5>5. code[d[k].at + 1] = low /\ code[d[k].at + 2] = high /\ code[d[k].at + 3] = m
          BY <4>4, <5>1
        <5>6. QED
          BY <4>1, <5>1, <5>3, <5>4, <5>5, Zenon
      <4>7. d[k + 1] = [at |-> Len(s) + 5, out |-> [i \in 1 .. p + m - 1 |-> data[i]]]
        <5>1. Len(s \o <<MaxByte, low, high, m>>) = Len(s) + 4
          <6>1. \A x, y, z, v \in Bytes : Len(s \o <<x, y, z, v>>) = Len(s) + 4
            OBVIOUS
          <6>2. QED
            BY <4>3, <6>1
        <5>2. Len(w[k + 1].out) + 1 = Len(s) + 5 /\ w[k + 1].at - 1 = p + m - 1
          BY <3>2, <3>5, <4>2, <5>1
        <5>3. QED
          BY <3>6, <5>2
      <4>8. ~(d[k].at > Len(code))
        BY <1>7, <3>2, <3>3, <4>4
      <4> HIDE DEF u
      <4>9. QED
        BY <4>5, <4>6, <4>7, <4>8
    <3>10. QED
      BY <3>7, <3>8, <3>9
  <2>6. w[k].at > n \/ w[k].at <= n
    <3>1. w[k].at \in Nat
      BY <2>3 DEF StepFrom
    <3>2. \A p, m \in Nat : p > m \/ p <= m
      OBVIOUS
    <3>3. QED
      BY <1>7, <3>1, <3>2
  <2>7. QED
    BY <2>4, <2>5, <2>6
<1>11. MatchesDecoded(code) = d[Len(code)].out
  BY <1>7, <1>9, <1>10, MatchesDecodedIs
<1>12. d[Len(code)].out = data
  <2>1. (n + 1) - 1 = n
    BY <1>7
  <2>2. d[Len(code)] = Taken(w, data, Len(code))
    BY <1>7, <1>8
  <2>3. Taken(w, data, Len(code)).out = [i \in 1 .. w[Len(code)].at - 1 |-> data[i]]
    BY <1>14
  <2>4. Taken(w, data, Len(code)).out = [i \in 1 .. n |-> data[i]]
    BY <1>4, <2>1, <2>3
  <2>5. QED
    BY <2>2, <2>4, Beginnings DEF n
<1>16. QED
  BY <1>11, <1>12

\* A code of an algorithm, read back.
ReadsAs(algorithm, code, data) ==
  CASE algorithm = "rle" -> RunsDecoded(code) = data
    [] algorithm = "lz77" -> \/ \E i \in DOMAIN data : data[i] = MaxByte
                             \/ MatchesDecoded(code) = data
    [] OTHER -> code = data

LEMMA RangeIn ==
  ASSUME NEW A, NEW s \in Seq(A)
  PROVE  Range(s) \subseteq A
BY DEF Range

LEMMA ReadsBack ==
  ASSUME NEW data \in Seq(Bytes)
  PROVE  /\ ReadsAs("none", data, data)
         /\ ReadsAs("rle", RunLengthEncoded(data), data) /\ RunLengthEncoded(data) \in Seq(Bytes)
         /\ ReadsAs("lz77", LZ77Compressed(data), data) /\ LZ77Compressed(data) \in Seq(Bytes)
<1>1. ReadsAs("none", data, data)
  BY DEF ReadsAs
<1>2. ReadsAs("rle", RunLengthEncoded(data), data) /\ RunLengthEncoded(data) \in Seq(Bytes)
  BY RunsReadBack DEF ReadsAs
<1>3. ReadsAs("lz77", LZ77Compressed(data), data) /\ LZ77Compressed(data) \in Seq(Bytes)
  <2>1. DOMAIN data = 1 .. Len(data)
    OBVIOUS
  <2>2. \/ \E i \in DOMAIN data : data[i] = MaxByte
        \/ MatchesDecoded(LZ77Compressed(data)) = data
    BY <2>1, MatchesReadBack
  <2>3. QED
    BY <2>2, MatchesReadBack DEF ReadsAs
<1>4. QED
  BY <1>1, <1>2, <1>3

\* The byte in front names the code behind it.
LEMMA HybridReadsBack ==
  ASSUME NEW data \in Seq(Bytes)
  PROVE  /\ Range(Shortest(data)) \subseteq Bytes
         /\ ReadsAs(<<"none", "rle", "lz77">>[Head(Shortest(data)) + 1], Tail(Shortest(data)), data)
<1> DEFINE codes == <<data, RunLengthEncoded(data), LZ77Compressed(data)>>
           short == {i \in 1 .. 3 : \A j \in 1 .. 3 : Len(codes[i]) <= Len(codes[j])}
           best == Min(short)
           names == <<"none", "rle", "lz77">>
<1>1. Shortest(data) = <<best - 1>> \o codes[best]
  BY DEF Shortest
<1>2. \A i \in 1 .. 3 : codes[i] \in Seq(Bytes) /\ ReadsAs(names[i], codes[i], data)
  <2>1. codes[1] = data /\ codes[2] = RunLengthEncoded(data) /\ codes[3] = LZ77Compressed(data)
    OBVIOUS
  <2>2. names[1] = "none" /\ names[2] = "rle" /\ names[3] = "lz77"
    OBVIOUS
  <2> HIDE DEF codes, names
  <2>3. \A i \in 1 .. 3 : i = 1 \/ i = 2 \/ i = 3
    OBVIOUS
  <2>4. QED
    BY <2>1, <2>2, <2>3, ReadsBack
<1> HIDE DEF codes
<1>3. short \in SUBSET Nat /\ short # {}
  <2> DEFINE lengths == {Len(codes[i]) : i \in 1 .. 3}
  <2>1. lengths \in SUBSET Nat /\ lengths # {}
    <3>1. \A i \in 1 .. 3 : Len(codes[i]) \in Nat
      BY <1>2
    <3>2. 1 \in 1 .. 3
      OBVIOUS
    <3>3. QED
      BY <3>1, <3>2
  <2>2. PICK m \in lengths : \A x \in lengths : m <= x
    <3> HIDE DEF lengths
    <3>1. QED
      BY <2>1, LeastThere
  <2>3. PICK i \in 1 .. 3 : m = Len(codes[i])
    BY <2>2
  <2>4. \A j \in 1 .. 3 : Len(codes[i]) <= Len(codes[j])
    BY <2>2, <2>3
  <2>5. i \in short
    BY <2>4
  <2>6. QED
    BY <2>5
<1>4. best \in 1 .. 3
  <2>1. best \in short
    <3> HIDE DEF short
    <3>1. QED
      BY <1>3, MinThere
  <2>2. QED
    BY <2>1
<1> HIDE DEF best
<1>5. best - 1 \in Bytes /\ (best - 1) + 1 = best
  BY <1>4, BytesThere
<1>6. \A x \in Bytes, c \in Seq(Bytes) :
        <<x>> \o c \in Seq(Bytes) /\ Head(<<x>> \o c) = x /\ Tail(<<x>> \o c) = c
  <2> TAKE x \in Bytes, c \in Seq(Bytes)
  <2>1. <<x>> \o c \in Seq(Bytes) /\ Head(<<x>> \o c) = x /\ Len(<<x>> \o c) = Len(c) + 1 /\ Len(c) \in Nat
    OBVIOUS
  <2>2. Tail(<<x>> \o c) = c
    OBVIOUS
  <2>3. QED
    BY <2>1, <2>2
<1>7. PICK s : s = Shortest(data) /\ s \in Seq(Bytes) /\ Head(s) = best - 1 /\ Tail(s) = codes[best]
  BY <1>1, <1>2, <1>4, <1>5, <1>6
<1>8. Range(s) \subseteq Bytes
  BY <1>7, RangeIn
<1> HIDE DEF names
<1>9. ReadsAs(names[Head(s) + 1], Tail(s), data)
  BY <1>2, <1>4, <1>5, <1>7
<1>10. QED
  BY <1>7, <1>8, <1>9 DEF names

\* What delta holds.
CodeInv ==
  /\ config \in [mode : Modes, algorithm : Algorithms]
  /\ delta # Absent => /\ payload \in Payloads /\ delta.algorithm \in Algorithms
                       /\ delta.data = Encoded(delta.algorithm, payload)

LEMMA CodeStep ==
  CodeInv /\ [DeltaNext]_deltaVars => CodeInv'
<1> SUFFICES ASSUME CodeInv, [DeltaNext]_deltaVars PROVE CodeInv'
  OBVIOUS
<1>1. CASE UNCHANGED deltaVars
  BY <1>1 DEF CodeInv, deltaVars
<1>2. ASSUME NEW c \in [mode : Modes, algorithm : Algorithms], SetConfig(c) PROVE CodeInv'
  BY <1>2 DEF CodeInv, SetConfig
<1>3. ASSUME NEW path, NEW table, FileChanges(path, table) PROVE CodeInv'
  BY <1>3 DEF CodeInv, FileChanges
<1>4. ASSUME NEW old, NEW new, CompressFails(old, new) PROVE CodeInv'
  BY <1>4 DEF CodeInv, CompressFails
<1>5. ASSUME NEW old, NEW new, Decompress(old, new) PROVE CodeInv'
  BY <1>5 DEF CodeInv, Decompress
<1>6. ASSUME NEW old, NEW new, Compress(old, new) PROVE CodeInv'
  <2>1. config' = config
    BY <1>6 DEF Compress
  <2>2. PICK found \in DetectChanges(detector, made'[1], made'[2]), data \in Payloads :
          /\ payload' = data
          /\ delta' = [mode |-> config.mode, total |-> Len(found), algorithm |-> config.algorithm,
                       data |-> Encoded(config.algorithm, data)]
    BY <1>6 DEF Compress
  <2>3. delta'.algorithm = config.algorithm /\ delta'.data = Encoded(config.algorithm, data)
    BY <2>2
  <2>4. config.algorithm \in Algorithms
    BY DEF CodeInv
  <2>5. QED
    BY <2>1, <2>2, <2>3, <2>4 DEF CodeInv
<1>7. QED
  BY <1>1, <1>2, <1>3, <1>4, <1>5, <1>6 DEF DeltaNext

LEMMA CodesRead ==
  ASSUME CodeInv
  PROVE  CodesReadBack
<1> SUFFICES ASSUME delta # Absent PROVE CodesReadBack
  BY DEF CodesReadBack
<1>1. PICK a \in Algorithms, data \in Seq(Bytes) :
        a = delta.algorithm /\ data = payload /\ delta.data = Encoded(a, data)
  BY DeltaAssumption DEF CodeInv
<1>2. a \in {"none", "rle", "lz77", "hybrid"}
  BY DeltaAssumption
<1>3. PICK code : code = delta.data
  OBVIOUS
<1>4. /\ Range(code) \subseteq Bytes
      /\ IF a = "hybrid" THEN ReadsAs(<<"none", "rle", "lz77">>[Head(code) + 1], Tail(code), data)
         ELSE ReadsAs(a, code, data)
  <2>1. CASE a = "hybrid"
    <3>1. code = Shortest(data)
      BY <1>1, <1>3, <2>1 DEF Encoded
    <3>2. QED
      BY <2>1, <3>1, HybridReadsBack
  <2>2. CASE a = "none"
    <3>1. code = data
      BY <1>1, <1>3, <2>2 DEF Encoded
    <3>2. QED
      BY <2>2, <3>1, ReadsBack, RangeIn
  <2>3. CASE a = "rle"
    <3>1. code = RunLengthEncoded(data)
      BY <1>1, <1>3, <2>3 DEF Encoded
    <3>2. QED
      BY <2>3, <3>1, ReadsBack, RangeIn
  <2>4. CASE a = "lz77"
    <3>1. code = LZ77Compressed(data)
      BY <1>1, <1>3, <2>4 DEF Encoded
    <3>2. QED
      BY <2>4, <3>1, ReadsBack, RangeIn
  <2>5. QED
    BY <1>2, <2>1, <2>2, <2>3, <2>4
<1>5. QED
  BY <1>1, <1>3, <1>4 DEF CodesReadBack, ReadsAs

-----------------------------------------------------------------------------
(* The changes of DeltaCompression, explained.                             *)

LEMMA PlacesMembers ==
  ASSUME NEW set, NEW n \in Nat, NEW i \in set, i \in 1 .. n
  PROVE  \E k \in 1 .. Len(Places(set, n)) : Places(set, n)[k] = i
<1>1. PICK j \in Nat : i = j + 1 /\ j + 1 \in Nat /\ j + 1 <= n
  <2>1. i - 1 \in Nat /\ i = (i - 1) + 1
    OBVIOUS
  <2>2. QED
    BY <2>1
<1> DEFINE p == Places(set, j)
           m == Len(p)
<1>2. p \in Seq(Nat) /\ Places(set, j + 1) = Append(p, j + 1)
  BY <1>1, PlacesStep
<1>3. Places(set, n) \in Seq(Nat)
  BY PlacesStep
<1>4. Begins(Places(set, j + 1), Places(set, n))
  BY <1>1, PlacesGrow
<1> HIDE DEF p
<1>5. m \in Nat /\ Len(Append(p, j + 1)) = m + 1 /\ Append(p, j + 1)[m + 1] = j + 1
  BY <1>1, <1>2, Appending
<1>6. m + 1 <= Len(Places(set, n)) /\ Places(set, n)[m + 1] = j + 1
  <2>1. m + 1 \in 1 .. m + 1
    BY <1>5
  <2>2. QED
    BY <1>2, <1>4, <1>5, <2>1 DEF Begins
<1>7. Len(Places(set, n)) \in Nat
  BY <1>3
<1>8. m + 1 \in 1 .. Len(Places(set, n))
  BY <1>5, <1>6, <1>7
<1>9. QED
  BY <1>1, <1>6, <1>8

LEMMA PlacesCount ==
  ASSUME NEW set, NEW n \in Nat
  PROVE  /\ IsFiniteSet(set \cap (1 .. n))
         /\ Cardinality(set \cap (1 .. n)) = Len(Places(set, n))
<1> DEFINE S(k) == set \cap (1 .. k)
           Same == {k \in Nat : IsFiniteSet(S(k)) /\ Cardinality(S(k)) = Len(Places(set, k))}
<1>1. 0 \in Same
  <2>1. S(0) = {}
    OBVIOUS
  <2>2. Len(Places(set, 0)) = 0
    BY PlacesStep
  <2>3. QED
    BY <2>1, <2>2, FS_EmptySet
<1>2. ASSUME NEW k \in Nat, k \in Same PROVE k + 1 \in Same
  <2>1. /\ Places(set, k) \in Seq(Nat)
        /\ Places(set, k + 1) = IF k + 1 \in set THEN Append(Places(set, k), k + 1) ELSE Places(set, k)
    BY PlacesStep
  <2>2. CASE k + 1 \in set
    <3>1. S(k + 1) = S(k) \cup {k + 1} /\ k + 1 \notin S(k) /\ k + 1 \in Nat
      BY <2>2
    <3>2. Len(Places(set, k + 1)) = Len(Places(set, k)) + 1
      BY <2>1, <2>2, <3>1, Appending
    <3> HIDE DEF S
    <3>3. IsFiniteSet(S(k + 1)) /\ Cardinality(S(k + 1)) = Cardinality(S(k)) + 1
      BY <1>2, <3>1, FS_AddElement
    <3>4. QED
      BY <1>2, <3>1, <3>2, <3>3
  <2>3. CASE k + 1 \notin set
    <3>1. S(k + 1) = S(k)
      BY <2>3
    <3> HIDE DEF S
    <3>2. k + 1 \in Nat
      OBVIOUS
    <3>3. QED
      BY <1>2, <2>1, <2>3, <3>1, <3>2
  <2>4. QED
    BY <2>2, <2>3
<1> HIDE DEF Same
<1>3. \A k \in Nat : k \in Same
  BY <1>1, <1>2, Induction
<1>4. QED
  BY <1>3 DEF Same

\* A sequence of n members, of whatever kind.
ListOf(s, n) == n \in Nat /\ s = [k \in 1 .. n |-> s[k]]

LEMMA Listed ==
  ASSUME NEW s, NEW n, ListOf(s, n)
  PROVE  DOMAIN s = 1 .. n /\ Len(s) = n /\ n \in Nat /\ s \in Seq({s[k] : k \in 1 .. n})
<1>1. n \in Nat /\ s = [k \in 1 .. n |-> s[k]]
  BY DEF ListOf
<1>2. DOMAIN s = 1 .. n
  BY <1>1
<1>3. s \in [1 .. n -> {s[k] : k \in 1 .. n}]
  BY <1>1
<1>4. s \in Seq({s[k] : k \in 1 .. n})
  BY <1>1, <1>3
<1>5. Len(s) = n
  BY <1>1, <1>2, <1>4
<1>6. QED
  BY <1>1, <1>2, <1>4, <1>5

Behind(s, m, t, n) ==
  /\ ListOf(s \o t, m + n)
  /\ \A k \in 1 .. m : (s \o t)[k] = s[k]
  /\ \A k \in 1 .. n : (s \o t)[m + k] = t[k]

LEMMA Joined ==
  ASSUME NEW s, NEW m, ListOf(s, m), NEW t, NEW n, ListOf(t, n)
  PROVE  Behind(s, m, t, n)
<1> DEFINE A == {s[k] : k \in 1 .. m} \cup {t[k] : k \in 1 .. n}
<1>1. m \in Nat /\ n \in Nat /\ Len(s) = m /\ Len(t) = n
  BY Listed
<1>2. s \in Seq(A) /\ t \in Seq(A)
  <2>1. s \in Seq({s[k] : k \in 1 .. m}) /\ t \in Seq({t[k] : k \in 1 .. n})
    BY Listed
  <2>2. \A X, Y : \A z \in Seq(X) : z \in Seq(X \cup Y) /\ z \in Seq(Y \cup X)
    OBVIOUS
  <2>3. QED
    BY <2>1, <2>2
<1> HIDE DEF A
<1>3. /\ s \o t \in Seq(A) /\ Len(s \o t) = m + n
      /\ \A k \in 1 .. m : (s \o t)[k] = s[k]
      /\ \A k \in 1 .. n : (s \o t)[m + k] = t[k]
  BY <1>1, <1>2, Concatenation
<1>4. \A z \in Seq(A) : z = [k \in 1 .. Len(z) |-> z[k]]
  OBVIOUS
<1>5. QED
  BY <1>1, <1>3, <1>4 DEF ListOf, Behind

\* Three sequences one after the other.
BehindTwo(s, a, t, b, u, c) ==
  /\ ListOf(s \o t \o u, a + b + c)
  /\ \A k \in 1 .. a : (s \o t \o u)[k] = s[k]
  /\ \A k \in 1 .. b : (s \o t \o u)[a + k] = t[k]
  /\ \A k \in 1 .. c : (s \o t \o u)[a + b + k] = u[k]

LEMMA JoinedThree ==
  ASSUME NEW s, NEW a, ListOf(s, a), NEW t, NEW b, ListOf(t, b), NEW u, NEW c, ListOf(u, c)
  PROVE  BehindTwo(s, a, t, b, u, c)
<1>1. a \in Nat /\ b \in Nat /\ c \in Nat
  BY DEF ListOf
<1> DEFINE st == s \o t
<1>2. /\ ListOf(st, a + b)
      /\ \A k \in 1 .. a : st[k] = s[k]
      /\ \A k \in 1 .. b : st[a + k] = t[k]
  <2>1. Behind(s, a, t, b)
    BY Joined
  <2>2. QED
    BY <2>1 DEF Behind
<1> HIDE DEF st
<1>3. /\ ListOf(st \o u, a + b + c)
      /\ \A k \in 1 .. a + b : (st \o u)[k] = st[k]
      /\ \A k \in 1 .. c : (st \o u)[a + b + k] = u[k]
  <2>1. Behind(st, a + b, u, c)
    BY <1>2, Joined
  <2>2. QED
    BY <2>1 DEF Behind
<1>4. /\ \A k \in 1 .. a : k \in 1 .. a + b
      /\ \A k \in 1 .. b : a + k \in 1 .. a + b
  BY <1>1
<1>5. QED
  BY <1>2, <1>3, <1>4 DEF st, BehindTwo

\* A sequence of the members of a set, each once.
Lists(s, S) ==
  /\ ListOf(s, Len(s)) /\ IsFiniteSet(S) /\ Cardinality(S) = Len(s)
  /\ \A k \in 1 .. Len(s) : s[k] \in S
  /\ \A i \in S : \E k \in 1 .. Len(s) : s[k] = i

LEMMA PlacesListed ==
  ASSUME NEW n \in Nat, NEW set \in SUBSET (1 .. n)
  PROVE  Lists(Places(set, n), set)
<1>1. set \cap (1 .. n) = set
  OBVIOUS
<1> DEFINE p == Places(set, n)
<1>2. IsFiniteSet(set) /\ Cardinality(set) = Len(p)
  BY <1>1, PlacesCount
<1>3. p \in Seq(Nat)
  BY PlacesStep
<1>4. ListOf(p, Len(p)) /\ DOMAIN p = 1 .. Len(p)
  <2> HIDE DEF p
  <2>1. QED
    BY <1>3 DEF ListOf
<1>5. \A k \in 1 .. Len(p) : p[k] \in set
  BY <1>1, <1>4, PlacesIn
<1>6. \A i \in set : \E k \in 1 .. Len(p) : p[k] = i
  BY PlacesMembers
<1>7. QED
  BY <1>2, <1>4, <1>5, <1>6 DEF Lists

LEMMA OrderListed ==
  ASSUME NEW S, IsFiniteSet(S), NEW order \in SetToSeqs(S)
  PROVE  Lists(order, S)
<1> DEFINE m == Cardinality(S)
           I == 1 .. m
<1>1. m \in Nat
  BY FS_CardinalityType
<1>2. order \in {f \in [I -> S] : \A i, j \in I : i # j => f[i] # f[j]}
  BY DEF SetToSeqs
<1>3. IsFiniteSet(I) /\ Cardinality(I) = m
  BY <1>1, FS_Interval
<1> HIDE DEF m
<1>4. order \in [I -> S] /\ \A i, j \in I : i # j => order[i] # order[j]
  BY <1>2
<1> HIDE DEF I
<1>5. order \in Injection(I, S)
  BY <1>4 DEF Injection, IsInjective
<1>6. order \in Surjection(I, S)
  BY <1>3, <1>5, FS_Injection DEF m
<1>7. \A i \in S : \E k \in I : order[k] = i
  BY <1>6 DEF Surjection
<1>8. ListOf(order, m)
  BY <1>1, <1>4 DEF ListOf, I
<1>9. Len(order) = m
  BY <1>8, Listed, Zenon
<1>10. QED
  BY <1>4, <1>7, <1>8, <1>9 DEF Lists, I, m

LEMMA InsertFields ==
  \A place, row : LET r == InsertRecord(place, row)
                  IN  r.op = "insert" /\ r.place = place /\ r.new = row
BY DEF InsertRecord

LEMMA DeleteFields ==
  \A place, row : LET r == DeleteRecord(place, row)
                  IN  r.op = "delete" /\ r.place = place /\ r.old = row
BY DEF DeleteRecord

LEMMA UpdateFields ==
  \A place, row, other : LET r == UpdateRecord(place, row, other)
                         IN  r.op = "update" /\ r.place = place /\ r.new = other
BY DEF UpdateRecord

LEMMA CardinalityOfInterval ==
  \A x, y \in Int : x <= y + 1 => Cardinality(x .. y) = y - x + 1
<1> TAKE x, y \in Int
<1>1. Cardinality(x .. y) = IF x > y THEN 0 ELSE y - x + 1
  BY FS_Interval
<1>2. QED
  BY <1>1

RecordsThat(records, op) == {k \in DOMAIN records : records[k].op = op}

\* Row by row, what changed is told, and what is not told has not.
ExplainRows(records, old, new) ==
  /\ Len(new) = Len(old) + Cardinality(RecordsThat(records, "insert"))
                         - Cardinality(RecordsThat(records, "delete"))
  /\ \A i \in DOMAIN new :
       \/ \E k \in DOMAIN records : records[k].place = i /\ records[k].new = new[i]
       \/ /\ i \in DOMAIN old \ (   {records[k].place : k \in RecordsThat(records, "update")}
                               \cup {records[k].place : k \in RecordsThat(records, "delete")})
          /\ old[i] = new[i]

FieldsCompared(records, old, new, common) ==
  LET updated == {i \in 1 .. common : old[i] # new[i]}
      inserted == {i \in 1 .. Len(new) : i > common}
      deleted == {i \in 1 .. Len(old) : i > common}
      u == Places(updated, common)
      n == Places(inserted, Len(new))
      d == Places(deleted, Len(old))
  IN  /\ common <= Len(old) /\ common <= Len(new)
      /\ records = [k \in DOMAIN u |-> UpdateRecord(u[k], old[u[k]], new[u[k]])]
                \o [k \in DOMAIN n |-> InsertRecord(n[k], new[n[k]])]
                \o [k \in DOMAIN d |-> DeleteRecord(d[k], old[d[k]])]

LEMMA FieldRecords ==
  ASSUME NEW A, NEW old \in Seq(A), NEW new \in Seq(A), NEW records \in FieldByFieldChanges(old, new)
  PROVE  \E common \in Nat : FieldsCompared(records, old, new, common)
<1> DEFINE common == Min({Len(old), Len(new)})
<1>1. {Len(old), Len(new)} \in SUBSET Nat
  OBVIOUS
<1>2. common \in Nat /\ common <= Len(old) /\ common <= Len(new)
  BY <1>1, MinThere
<1>3. \A S, n : Places(S, n) = Places(S, n)
  OBVIOUS
<1>4. records = Recorded(common, LAMBDA i : old[i] # new[i], LAMBDA i : UpdateRecord(i, old[i], new[i]))
             \o Recorded(Len(new), LAMBDA i : i > common, LAMBDA i : InsertRecord(i, new[i]))
             \o Recorded(Len(old), LAMBDA i : i > common, LAMBDA i : DeleteRecord(i, old[i]))
  BY DEF FieldByFieldChanges
<1> HIDE DEF common
<1>5. QED
  BY <1>2, <1>3, <1>4 DEF Recorded, FieldsCompared

\* Updates, insertions and deletions one after the other.
Kinds(r, u, a, n, b, d, c) ==
  /\ DOMAIN r = 1 .. a + b + c /\ a \in Nat /\ b \in Nat /\ c \in Nat
  /\ RecordsThat(r, "update") = 1 .. a
  /\ RecordsThat(r, "insert") = a + 1 .. a + b
  /\ RecordsThat(r, "delete") = a + b + 1 .. a + b + c
  /\ \A k \in 1 .. a : r[k] = u[k]
  /\ \A k \in 1 .. b : r[a + k] = n[k]
  /\ \A k \in 1 .. c : r[a + b + k] = d[k]

LEMMA KindsJoined ==
  ASSUME NEW u, NEW a, ListOf(u, a), \A k \in 1 .. a : u[k].op = "update",
         NEW n, NEW b, ListOf(n, b), \A k \in 1 .. b : n[k].op = "insert",
         NEW d, NEW c, ListOf(d, c), \A k \in 1 .. c : d[k].op = "delete"
  PROVE  Kinds(u \o n \o d, u, a, n, b, d, c)
<1> DEFINE r == u \o n \o d
<1>1. /\ ListOf(r, a + b + c)
      /\ \A k \in 1 .. a : r[k] = u[k]
      /\ \A k \in 1 .. b : r[a + k] = n[k]
      /\ \A k \in 1 .. c : r[a + b + k] = d[k]
  <2>1. BehindTwo(u, a, n, b, d, c)
    BY JoinedThree
  <2>2. QED
    BY <2>1 DEF BehindTwo
<1> HIDE DEF r
<1>2. a \in Nat /\ b \in Nat /\ c \in Nat /\ DOMAIN r = 1 .. a + b + c
  BY <1>1, Listed DEF ListOf
<1>3. \A k \in 1 .. a : r[k].op = "update"
  BY <1>1
<1>4. \A k \in a + 1 .. a + b : r[k].op = "insert"
  <2>1. \A k \in a + 1 .. a + b : k - a \in 1 .. b /\ k = a + (k - a)
    BY <1>2
  <2>2. QED
    BY <1>1, <2>1
<1>5. \A k \in a + b + 1 .. a + b + c : r[k].op = "delete"
  <2>1. \A k \in a + b + 1 .. a + b + c : k - (a + b) \in 1 .. c /\ k = a + b + (k - (a + b))
    BY <1>2
  <2>2. QED
    BY <1>1, <2>1
<1>6. \A k \in 1 .. a + b + c : k \in 1 .. a \/ k \in a + 1 .. a + b \/ k \in a + b + 1 .. a + b + c
  BY <1>2
<1>7. /\ \A k \in 1 .. a : k \in 1 .. a + b + c
      /\ \A k \in a + 1 .. a + b : k \in 1 .. a + b + c
      /\ \A k \in a + b + 1 .. a + b + c : k \in 1 .. a + b + c
  BY <1>2
<1>8. "update" # "insert" /\ "update" # "delete" /\ "insert" # "delete"
  OBVIOUS
<1>9. RecordsThat(r, "update") = 1 .. a
  BY <1>2, <1>3, <1>4, <1>5, <1>6, <1>7, <1>8, Zenon DEF RecordsThat
<1>10. RecordsThat(r, "insert") = a + 1 .. a + b
  BY <1>2, <1>3, <1>4, <1>5, <1>6, <1>7, <1>8, Zenon DEF RecordsThat
<1>11. RecordsThat(r, "delete") = a + b + 1 .. a + b + c
  BY <1>2, <1>3, <1>4, <1>5, <1>6, <1>7, <1>8, Zenon DEF RecordsThat
<1>12. QED
  BY <1>1, <1>2, <1>9, <1>10, <1>11, Zenon DEF Kinds, r

LEMMA FieldExplains ==
  ASSUME NEW A, NEW old \in Seq(A), NEW new \in Seq(A), NEW records \in FieldByFieldChanges(old, new)
  PROVE  ExplainRows(records, old, new)
<1>1. PICK common \in Nat : FieldsCompared(records, old, new, common)
  BY FieldRecords
<1> DEFINE updated == {i \in 1 .. common : old[i] # new[i]}
           inserted == {i \in 1 .. Len(new) : i > common}
           deleted == {i \in 1 .. Len(old) : i > common}
           u == Places(updated, common)
           n == Places(inserted, Len(new))
           d == Places(deleted, Len(old))
           us == [k \in DOMAIN u |-> UpdateRecord(u[k], old[u[k]], new[u[k]])]
           ns == [k \in DOMAIN n |-> InsertRecord(n[k], new[n[k]])]
           ds == [k \in DOMAIN d |-> DeleteRecord(d[k], old[d[k]])]
           a == Len(u)
           b == Len(n)
           c == Len(d)
<1>2. common <= Len(old) /\ common <= Len(new) /\ records = us \o ns \o ds
  BY <1>1 DEF FieldsCompared
<1>3. Len(old) \in Nat /\ Len(new) \in Nat /\ DOMAIN old = 1 .. Len(old) /\ DOMAIN new = 1 .. Len(new)
  OBVIOUS
<1>4. Lists(u, updated) /\ Lists(n, inserted) /\ Lists(d, deleted)
  <2>1. updated \in SUBSET (1 .. common) /\ inserted \in SUBSET (1 .. Len(new)) /\ deleted \in SUBSET (1 .. Len(old))
    OBVIOUS
  <2> HIDE DEF updated, inserted, deleted
  <2>2. QED
    BY <1>3, <2>1, PlacesListed
<1> HIDE DEF u, n, d
<1>5. DOMAIN u = 1 .. a /\ DOMAIN n = 1 .. b /\ DOMAIN d = 1 .. c /\ a \in Nat /\ b \in Nat /\ c \in Nat
  BY <1>4, Listed DEF Lists
<1>6. /\ ListOf(us, a) /\ \A k \in 1 .. a : us[k] = UpdateRecord(u[k], old[u[k]], new[u[k]])
      /\ ListOf(ns, b) /\ \A k \in 1 .. b : ns[k] = InsertRecord(n[k], new[n[k]])
      /\ ListOf(ds, c) /\ \A k \in 1 .. c : ds[k] = DeleteRecord(d[k], old[d[k]])
  BY <1>5 DEF ListOf
<1> HIDE DEF us, ns, ds
<1>7. /\ \A k \in 1 .. a : us[k].op = "update" /\ us[k].place = u[k] /\ us[k].new = new[u[k]]
      /\ \A k \in 1 .. b : ns[k].op = "insert" /\ ns[k].place = n[k] /\ ns[k].new = new[n[k]]
      /\ \A k \in 1 .. c : ds[k].op = "delete" /\ ds[k].place = d[k]
  <2>1. \A k \in 1 .. a : us[k].op = "update" /\ us[k].place = u[k] /\ us[k].new = new[u[k]]
    BY <1>6, UpdateFields
  <2>2. \A k \in 1 .. b : ns[k].op = "insert" /\ ns[k].place = n[k] /\ ns[k].new = new[n[k]]
    BY <1>6, InsertFields
  <2>3. \A k \in 1 .. c : ds[k].op = "delete" /\ ds[k].place = d[k]
    BY <1>6, DeleteFields
  <2>4. QED
    BY <2>1, <2>2, <2>3
<1> HIDE DEF a, b, c
<1>8. Kinds(records, us, a, ns, b, ds, c)
  <2>1. /\ \A k \in 1 .. a : us[k].op = "update"
        /\ \A k \in 1 .. b : ns[k].op = "insert"
        /\ \A k \in 1 .. c : ds[k].op = "delete"
    BY <1>7
  <2>2. Kinds(us \o ns \o ds, us, a, ns, b, ds, c)
    BY <1>6, <2>1, KindsJoined
  <2>3. QED
    BY <1>2, <2>2
<1>9. Len(new) = Len(old) + Cardinality(RecordsThat(records, "insert")) - Cardinality(RecordsThat(records, "delete"))
  <2>1. b = Len(new) - common /\ c = Len(old) - common
    <3>1. inserted = common + 1 .. Len(new) /\ deleted = common + 1 .. Len(old)
      BY <1>3
    <3>2. Cardinality(inserted) = Len(new) - common /\ Cardinality(deleted) = Len(old) - common
      <4>1. \A m \in Nat : common <= m => Cardinality(common + 1 .. m) = m - common
        BY CardinalityOfInterval
      <4>2. QED
        BY <1>2, <1>3, <3>1, <4>1
    <3>3. QED
      BY <1>4, <3>2 DEF Lists, b, c
  <2>2. Cardinality(RecordsThat(records, "insert")) = b
    <3>1. RecordsThat(records, "insert") = a + 1 .. a + b
      BY <1>8 DEF Kinds
    <3>2. a + 1 \in Int /\ a + b \in Int
      BY <1>5 DEF a, b
    <3>3. \A x, y \in Int : x = a + 1 /\ y = a + b => Cardinality(x .. y) = b
      BY <1>5, CardinalityOfInterval
    <3>4. QED
      BY <3>1, <3>2, <3>3
  <2>3. Cardinality(RecordsThat(records, "delete")) = c
    <3>1. RecordsThat(records, "delete") = a + b + 1 .. a + b + c
      BY <1>8 DEF Kinds
    <3>2. a + b + 1 \in Int /\ a + b + c \in Int
      BY <1>5 DEF a, b, c
    <3>3. \A x, y \in Int : x = a + b + 1 /\ y = a + b + c => Cardinality(x .. y) = c
      BY <1>5, CardinalityOfInterval
    <3>4. QED
      BY <3>1, <3>2, <3>3
  <2>4. QED
    BY <1>2, <1>3, <2>1, <2>2, <2>3
<1>10. ASSUME NEW i \in DOMAIN new
       PROVE  \/ \E k \in DOMAIN records : records[k].place = i /\ records[k].new = new[i]
              \/ /\ i \in DOMAIN old \ (   {records[k].place : k \in RecordsThat(records, "update")}
                                      \cup {records[k].place : k \in RecordsThat(records, "delete")})
                 /\ old[i] = new[i]
  <2>1. CASE i > common
    <3>1. i \in inserted
      BY <1>3, <2>1
    <3>2. PICK k \in 1 .. b : n[k] = i
      BY <1>4, <3>1 DEF Lists, b
    <3>3. a + k \in 1 .. a + b + c /\ records[a + k] = ns[k]
      <4>1. a + k \in 1 .. a + b + c
        BY <1>5
      <4>2. QED
        BY <1>8, <4>1 DEF Kinds
    <3>4. a + k \in DOMAIN records /\ records[a + k].place = i /\ records[a + k].new = new[i]
      BY <1>7, <1>8, <3>2, <3>3 DEF Kinds
    <3>5. QED
      BY <3>4
  <2>2. CASE i <= common /\ old[i] # new[i]
    <3>1. i \in updated
      BY <1>3, <2>2
    <3>2. PICK k \in 1 .. a : u[k] = i
      BY <1>4, <3>1 DEF Lists, a
    <3>3. k \in 1 .. a + b + c /\ records[k] = us[k]
      <4>1. k \in 1 .. a + b + c
        BY <1>5
      <4>2. QED
        BY <1>8, <4>1 DEF Kinds
    <3>4. k \in DOMAIN records /\ records[k].place = i /\ records[k].new = new[i]
      BY <1>7, <1>8, <3>2, <3>3 DEF Kinds
    <3>5. QED
      BY <3>4
  <2>3. CASE i <= common /\ old[i] = new[i]
    <3>1. i \in DOMAIN old
      BY <1>2, <1>3, <2>3
    <3>2. ASSUME NEW k \in RecordsThat(records, "update") PROVE records[k].place # i
      <4>1. k \in 1 .. a /\ records[k].place = u[k]
        BY <1>7, <1>8 DEF Kinds
      <4>2. u[k] \in updated
        BY <1>4, <4>1 DEF Lists, a
      <4>3. QED
        BY <2>3, <4>1, <4>2
    <3>3. ASSUME NEW k \in RecordsThat(records, "delete") PROVE records[k].place # i
      <4>1. k \in a + b + 1 .. a + b + c
        BY <1>8 DEF Kinds
      <4>2. PICK j \in 1 .. c : k = a + b + j
        <5>1. k - (a + b) \in 1 .. c /\ k = a + b + (k - (a + b))
          BY <1>5, <4>1
        <5>2. QED
          BY <5>1
      <4>3. records[k].place = d[j]
        BY <1>7, <1>8, <4>2 DEF Kinds
      <4>4. d[j] \in deleted
        BY <1>4 DEF Lists, c
      <4>5. QED
        BY <1>3, <2>3, <4>3, <4>4
    <3>4. QED
      BY <2>3, <3>1, <3>2, <3>3
  <2>4. QED
    BY <1>3, <2>1, <2>2, <2>3
<1>11. QED
  BY <1>9, <1>10 DEF ExplainRows

-----------------------------------------------------------------------------
(* What is found by contents and by keys: insertions and updates in the    *)
(* order of the rows, then deletions in any order.                         *)

LEMMA LastThere ==
  ASSUME NEW n \in Nat, NEW S \in SUBSET (1 .. n), S # {}
  PROVE  \E m \in S : \A x \in S : x <= m
<1>1. S \in SUBSET Nat /\ \A x \in S : x <= n
  OBVIOUS
<1>2. QED
  BY <1>1, MaxThere

\* Deletions of the rows of a table at the places of a set.
Deletes(d, order, table, S) ==
  /\ Lists(order, S) /\ ListOf(d, Len(order))
  /\ \A k \in 1 .. Len(order) :
       d[k].op = "delete" /\ d[k].place = order[k] /\ d[k].old = table[order[k]]

LEMMA DeletionsThere ==
  ASSUME NEW n \in Nat, NEW S \in SUBSET (1 .. n), NEW table, NEW d \in Deletions(table, S)
  PROVE  \E order : Deletes(d, order, table, S)
<1>1. PICK order \in SetToSeqs(S) :
        d = [k \in DOMAIN order |-> DeleteRecord(order[k], table[order[k]])]
  BY DEF Deletions
<1>2. IsFiniteSet(S)
  <2>1. 1 \in Int /\ n \in Int
    OBVIOUS
  <2>2. IsFiniteSet(1 .. n)
    BY <2>1, FS_Interval
  <2>3. QED
    BY <2>2, FS_Subset
<1>3. Lists(order, S)
  BY <1>2, OrderListed
<1>4. ListOf(order, Len(order))
  BY <1>3 DEF Lists
<1>5. DOMAIN order = 1 .. Len(order) /\ Len(order) \in Nat
  BY <1>4, Listed
<1>6. ListOf(d, Len(order)) /\ \A k \in 1 .. Len(order) : d[k] = DeleteRecord(order[k], table[order[k]])
  BY <1>1, <1>5 DEF ListOf
<1>7. \A k \in 1 .. Len(order) : d[k].op = "delete" /\ d[k].place = order[k] /\ d[k].old = table[order[k]]
  BY <1>6, DeleteFields
<1>8. Deletes(d, order, table, S)
  BY <1>3, <1>6, <1>7 DEF Deletes
<1>9. QED
  BY <1>8

\* A list of records that ends with deletions.
Ended(r, f, a, d, c) ==
  /\ DOMAIN r = 1 .. a + c /\ Len(r) = a + c /\ a \in Nat /\ c \in Nat
  /\ RecordsThat(r, "delete") = a + 1 .. a + c /\ Cardinality(RecordsThat(r, "delete")) = c
  /\ RecordsThat(r, "insert") = {k \in 1 .. a : f[k].op = "insert"}
  /\ RecordsThat(r, "update") = {k \in 1 .. a : f[k].op = "update"}
  /\ \A k \in 1 .. a : r[k] = f[k]
  /\ \A k \in 1 .. c : r[a + k] = d[k]

LEMMA EndedJoined ==
  ASSUME NEW f, NEW a, ListOf(f, a), \A k \in 1 .. a : f[k].op # "delete",
         NEW d, NEW c, ListOf(d, c), \A k \in 1 .. c : d[k].op = "delete"
  PROVE  Ended(f \o d, f, a, d, c)
<1> DEFINE r == f \o d
<1>1. /\ ListOf(r, a + c)
      /\ \A k \in 1 .. a : r[k] = f[k]
      /\ \A k \in 1 .. c : r[a + k] = d[k]
  <2>1. Behind(f, a, d, c)
    BY Joined
  <2>2. QED
    BY <2>1 DEF Behind
<1> HIDE DEF r
<1>2. a \in Nat /\ c \in Nat /\ DOMAIN r = 1 .. a + c /\ Len(r) = a + c
  BY <1>1, Listed DEF ListOf
<1>3. \A k \in a + 1 .. a + c : r[k].op = "delete"
  <2>1. \A k \in a + 1 .. a + c : k - a \in 1 .. c /\ k = a + (k - a)
    BY <1>2
  <2>2. QED
    BY <1>1, <2>1
<1>4. \A k \in 1 .. a + c : k \in 1 .. a \/ k \in a + 1 .. a + c
  BY <1>2
<1>5. /\ \A k \in 1 .. a : k \in 1 .. a + c
      /\ \A k \in a + 1 .. a + c : k \in 1 .. a + c
  BY <1>2
<1>6. RecordsThat(r, "delete") = a + 1 .. a + c
  BY <1>1, <1>2, <1>3, <1>4, <1>5, Zenon DEF RecordsThat
<1>7. \A k \in 1 .. a + c : r[k].op # "delete" => k \in 1 .. a
  BY <1>3, <1>4
<1>8. RecordsThat(r, "insert") = {k \in 1 .. a : f[k].op = "insert"}
  <2>1. "insert" # "delete"
    OBVIOUS
  <2>2. QED
    BY <1>1, <1>2, <1>5, <1>7, <2>1, Zenon DEF RecordsThat
<1>9. RecordsThat(r, "update") = {k \in 1 .. a : f[k].op = "update"}
  <2>1. "update" # "delete"
    OBVIOUS
  <2>2. QED
    BY <1>1, <1>2, <1>5, <1>7, <2>1, Zenon DEF RecordsThat
<1>10. Cardinality(RecordsThat(r, "delete")) = c
  <2>1. a + 1 \in Int /\ a + c \in Int
    BY <1>2
  <2>2. \A x, y \in Int : x = a + 1 /\ y = a + c => Cardinality(x .. y) = c
    BY <1>2, CardinalityOfInterval
  <2>3. QED
    BY <1>6, <2>1, <2>2
<1>11. QED
  BY <1>1, <1>2, <1>6, <1>8, <1>9, <1>10, Zenon DEF Ended, r

\* By their contents, which rows there are.
ExplainContents(records, old, new) ==
  (Range(old) \ {records[k].old : k \in RecordsThat(records, "delete")})
    \cup {records[k].new : k \in RecordsThat(records, "insert")} = Range(new)

ContentsCompared(records, old, new) ==
  LET found == {i \in 1 .. Len(new) : ~Occurs(old, new[i])}
      n == Places(found, Len(new))
      gone == {i \in DOMAIN old : /\ \A j \in DOMAIN old : old[j] = old[i] => j <= i
                                  /\ ~Occurs(new, old[i])}
  IN  \E d \in Deletions(old, gone) :
        records = [k \in DOMAIN n |-> InsertRecord(n[k], new[n[k]])] \o d

LEMMA ContentRecords ==
  ASSUME NEW old, NEW new, NEW records \in ContentHashChanges(old, new)
  PROVE  ContentsCompared(records, old, new)
<1> DEFINE gone == {i \in DOMAIN old : /\ \A j \in DOMAIN old : old[j] = old[i] => j <= i
                                       /\ ~Occurs(new, old[i])}
<1>1. \A S, n : Places(S, n) = Places(S, n)
  OBVIOUS
<1>2. LastPlaces(old, LAMBDA row : row) = {i \in DOMAIN old : \A j \in DOMAIN old : old[j] = old[i] => j <= i}
  BY DEF LastPlaces
<1>3. gone = {i \in LastPlaces(old, LAMBDA row : row) : ~Occurs(new, old[i])}
  BY <1>2
<1> HIDE DEF gone
<1>4. PICK d \in Deletions(old, gone) :
        records = Recorded(Len(new), LAMBDA i : ~Occurs(old, new[i]),
                                           LAMBDA i : InsertRecord(i, new[i])) \o d
  BY <1>3 DEF ContentHashChanges
<1>5. QED
  BY <1>1, <1>4 DEF Recorded, ContentsCompared, gone

LEMMA ContentsExplain ==
  ASSUME NEW A, NEW old \in Seq(A), NEW new \in Seq(A), NEW records \in ContentHashChanges(old, new)
  PROVE  ExplainContents(records, old, new)
<1> DEFINE found == {i \in 1 .. Len(new) : ~Occurs(old, new[i])}
           n == Places(found, Len(new))
           gone == {i \in DOMAIN old : /\ \A j \in DOMAIN old : old[j] = old[i] => j <= i
                                       /\ ~Occurs(new, old[i])}
           f == [k \in DOMAIN n |-> InsertRecord(n[k], new[n[k]])]
           a == Len(n)
<1>1. PICK d \in Deletions(old, gone) : records = f \o d
  <2>1. ContentsCompared(records, old, new)
    BY ContentRecords
  <2>2. QED
    BY <2>1 DEF ContentsCompared
<1>2. Len(old) \in Nat /\ Len(new) \in Nat /\ DOMAIN old = 1 .. Len(old) /\ DOMAIN new = 1 .. Len(new)
  OBVIOUS
<1>3. found \in SUBSET (1 .. Len(new)) /\ gone \in SUBSET (1 .. Len(old))
  BY <1>2
<1>4. Lists(n, found)
  <2> HIDE DEF found
  <2>1. QED
    BY <1>2, <1>3, PlacesListed
<1>5. PICK order : Deletes(d, order, old, gone)
  <2> HIDE DEF gone
  <2>1. QED
    BY <1>1, <1>2, <1>3, DeletionsThere
<1> DEFINE c == Len(order)
<1> HIDE DEF n
<1>6. DOMAIN n = 1 .. a /\ a \in Nat
  BY <1>4, Listed DEF Lists
<1>7. ListOf(f, a) /\ \A k \in 1 .. a : f[k] = InsertRecord(n[k], new[n[k]])
  BY <1>6 DEF ListOf
<1> HIDE DEF f
<1>8. \A k \in 1 .. a : f[k].op = "insert" /\ f[k].new = new[n[k]]
  BY <1>7, InsertFields
<1> HIDE DEF a, c
<1>9. Ended(records, f, a, d, c)
  <2>1. \A k \in 1 .. a : f[k].op # "delete"
    <3>1. "insert" # "delete"
      OBVIOUS
    <3>2. QED
      BY <1>8, <3>1
  <2>2. ListOf(d, c) /\ \A k \in 1 .. c : d[k].op = "delete"
    BY <1>5 DEF Deletes, c
  <2>3. QED
    BY <1>1, <1>7, <2>1, <2>2, EndedJoined
<1>10. {records[k].new : k \in RecordsThat(records, "insert")} = {new[i] : i \in found}
  <2>1. \A k \in RecordsThat(records, "insert") : k \in 1 .. a /\ records[k].new = new[n[k]] /\ n[k] \in found
    BY <1>4, <1>8, <1>9, Zenon DEF Ended, Lists, a
  <2>2. ASSUME NEW i \in found PROVE \E k \in RecordsThat(records, "insert") : records[k].new = new[i]
    <3>1. PICK k \in 1 .. a : n[k] = i
      BY <1>4 DEF Lists, a
    <3>2. k \in RecordsThat(records, "insert") /\ records[k].new = new[i]
      BY <1>8, <1>9, <3>1, Zenon DEF Ended
    <3>3. QED
      BY <3>2
  <2> HIDE DEF found
  <2>3. QED
    BY <2>1, <2>2
<1>11. {records[k].old : k \in RecordsThat(records, "delete")} = {old[i] : i \in gone}
  <2>1. \A k \in 1 .. c : d[k].old = old[order[k]] /\ order[k] \in gone
    BY <1>5 DEF Deletes, Lists, c
  <2>2. ASSUME NEW k \in RecordsThat(records, "delete") PROVE \E i \in gone : records[k].old = old[i]
    <3>1. PICK j \in 1 .. c : k = a + j
      <4>1. k \in a + 1 .. a + c /\ a \in Nat /\ c \in Nat
        BY <1>9 DEF Ended
      <4>2. k - a \in 1 .. c /\ k = a + (k - a)
        BY <4>1
      <4>3. QED
        BY <4>2
    <3>2. records[k].old = old[order[j]] /\ order[j] \in gone
      BY <1>9, <2>1, <3>1, Zenon DEF Ended
    <3>3. QED
      BY <3>2
  <2>3. ASSUME NEW i \in gone PROVE \E k \in RecordsThat(records, "delete") : records[k].old = old[i]
    <3>1. PICK j \in 1 .. c : order[j] = i
      BY <1>5 DEF Deletes, Lists, c
    <3>2. a + j \in a + 1 .. a + c
      BY <1>9 DEF Ended
    <3>3. a + j \in RecordsThat(records, "delete") /\ records[a + j].old = old[i]
      BY <1>9, <2>1, <3>1, <3>2, Zenon DEF Ended
    <3>4. QED
      BY <3>3
  <2> HIDE DEF gone
  <2>4. QED
    BY <2>2, <2>3
<1>12. \A i \in DOMAIN new : (\E j \in DOMAIN old : old[j] = new[i]) \/ i \in found
  BY <1>2 DEF Occurs
<1>13. \A i \in gone : \A j \in DOMAIN new : new[j] # old[i]
  BY DEF Occurs
<1>14. ASSUME NEW i \in DOMAIN old, \A j \in DOMAIN new : new[j] # old[i] PROVE \E k \in gone : old[k] = old[i]
  <2> DEFINE S == {j \in 1 .. Len(old) : old[j] = old[i]}
  <2>1. S \in SUBSET (1 .. Len(old)) /\ S # {}
    BY <1>2
  <2>2. PICK m \in S : \A x \in S : x <= m
    <3> HIDE DEF S
    <3>1. QED
      BY <1>2, <2>1, LastThere
  <2>3. m \in DOMAIN old /\ old[m] = old[i] /\ \A j \in DOMAIN old : old[j] = old[m] => j <= m
    BY <1>2, <2>2
  <2>4. ~Occurs(new, old[m])
    BY <1>14, <2>3 DEF Occurs
  <2>5. QED
    BY <2>3, <2>4
<1>15. Range(old) = {old[i] : i \in DOMAIN old} /\ Range(new) = {new[i] : i \in DOMAIN new}
  BY DEF Range
<1>16. \A i \in found : i \in DOMAIN new
  BY <1>2
<1> HIDE DEF found, gone
<1>17. ({old[i] : i \in DOMAIN old} \ {old[i] : i \in gone}) \cup {new[i] : i \in found} = {new[i] : i \in DOMAIN new}
  <2>1. ASSUME NEW i \in DOMAIN old, old[i] \notin {old[k] : k \in gone} PROVE old[i] \in {new[j] : j \in DOMAIN new}
    BY <1>14, <2>1
  <2>2. ASSUME NEW i \in DOMAIN new
        PROVE  \/ new[i] \in {new[j] : j \in found}
               \/ new[i] \in {old[j] : j \in DOMAIN old} /\ new[i] \notin {old[k] : k \in gone}
    BY <1>12, <1>13
  <2>3. QED
    BY <1>16, <2>1, <2>2
<1>18. QED
  BY <1>10, <1>11, <1>15, <1>17 DEF ExplainContents

LEMMA SameNumber ==
  ASSUME NEW Q, IsFiniteSet(Q), NEW f, \A x, y \in Q : f[x] = f[y] => x = y
  PROVE  Cardinality({f[x] : x \in Q}) = Cardinality(Q)
<1> DEFINE g == [x \in Q |-> f[x]]
           T == {f[x] : x \in Q}
<1>1. g \in Bijection(Q, T)
  <2>1. g \in [Q -> T]
    OBVIOUS
  <2>2. \A x, y \in Q : g[x] = g[y] => x = y
    OBVIOUS
  <2>3. \A t \in T : \E x \in Q : g[x] = t
    OBVIOUS
  <2> HIDE DEF g, T
  <2>4. g \in Injection(Q, T) /\ g \in Surjection(Q, T)
    BY <2>1, <2>2, <2>3 DEF Injection, IsInjective, Surjection
  <2>5. QED
    BY <2>4 DEF Bijection
<1> HIDE DEF g, T
<1>2. ExistsBijection(Q, T)
  BY <1>1 DEF ExistsBijection
<1>3. Cardinality(T) = Cardinality(Q)
  BY <1>2, FS_Bijection
<1>4. QED
  BY <1>3 DEF T

RowKey(row) == KeyFromRow(row)

\* If keys are unique, the rows that are new, gone or different, and no other.
ExplainKeys(records, old, new) ==
  LET inserted == {records[k].new : k \in RecordsThat(records, "insert")}
      updated == {records[k].new : k \in RecordsThat(records, "update")}
      replaced == {records[k].place : k \in RecordsThat(records, "update")}
      deleted == {records[k].place : k \in RecordsThat(records, "delete")}
      kept == {old[i] : i \in DOMAIN old \ (replaced \cup deleted)}
  IN  (/\ \A i, j \in DOMAIN old : RowKey(old[i]) = RowKey(old[j]) => i = j
       /\ \A i, j \in DOMAIN new : RowKey(new[i]) = RowKey(new[j]) => i = j)
      => /\ kept \cup updated \cup inserted = Range(new)
         /\ Cardinality(kept) + Len(records) - Cardinality(RecordsThat(records, "delete")) = Len(new)

LastOld(old) == {i \in DOMAIN old : \A j \in DOMAIN old : RowKey(old[j]) = RowKey(old[i]) => j <= i}
Before(old, row) == {i \in LastOld(old) : RowKey(old[i]) = RowKey(row)}
There(old, row) == CHOOSE i \in Before(old, row) : TRUE

\* What is told of the new rows, and which of the old are gone.
Told(old, new) == {i \in 1 .. Len(new) : Before(old, new[i]) = {} \/ old[There(old, new[i])] # new[i]}
Gone(old, new) == {i \in LastOld(old) : ~\E j \in DOMAIN new : RowKey(new[j]) = RowKey(old[i])}
RowRecord(old, i, row) ==
  IF Before(old, row) = {} THEN InsertRecord(i, row)
  ELSE UpdateRecord(There(old, row), old[There(old, row)], row)

KeysCompared(records, old, new) ==
  LET t == Places(Told(old, new), Len(new))
  IN  \E d \in Deletions(old, Gone(old, new)) :
        records = [k \in DOMAIN t |-> RowRecord(old, t[k], new[t[k]])] \o d

LEMMA KeyRecords ==
  ASSUME NEW old, NEW new, NEW records \in KeyBasedChanges(old, new)
  PROVE  KeysCompared(records, old, new)
<1>1. \A S, n : Places(S, n) = Places(S, n)
  OBVIOUS
<1>2. \E d \in Deletions(old, Gone(old, new)) :
        records = Recorded(Len(new),
                    LAMBDA i : Before(old, new[i]) = {} \/ old[There(old, new[i])] # new[i],
                    LAMBDA i : RowRecord(old, i, new[i])) \o d
  BY Zenon DEF KeyBasedChanges, LastPlaces, Gone, RowRecord, Before, There, LastOld, RowKey
<1>3. PICK d \in Deletions(old, Gone(old, new)) :
        records = Recorded(Len(new),
                    LAMBDA i : Before(old, new[i]) = {} \/ old[There(old, new[i])] # new[i],
                    LAMBDA i : RowRecord(old, i, new[i])) \o d
  BY <1>2
<1>4. QED
  BY <1>1, <1>3, Zenon DEF Recorded, KeysCompared, Told

\* An old row and a new one known by one key.
Meets(old, new, i, j) == i \in DOMAIN old /\ j \in DOMAIN new /\ RowKey(old[i]) = RowKey(new[j])

\* If keys are unique, what is found of a new row depends on the old one it meets.
MeetingsTell(old, new) ==
  /\ \A i, j : Meets(old, new, i, j) => Before(old, new[j]) = {i} /\ There(old, new[j]) = i
  /\ \A j \in DOMAIN new : (\A i : ~Meets(old, new, i, j)) => Before(old, new[j]) = {}
  /\ Gone(old, new) = {i \in DOMAIN old : \A j : ~Meets(old, new, i, j)}

LEMMA KeysMeet ==
  ASSUME NEW A, NEW old \in Seq(A), NEW new \in Seq(A),
         \A i, j \in DOMAIN old : RowKey(old[i]) = RowKey(old[j]) => i = j
  PROVE  MeetingsTell(old, new)
<1>1. Len(old) \in Nat /\ DOMAIN old = 1 .. Len(old)
  OBVIOUS
<1>2. LastOld(old) = DOMAIN old
  <2>1. \A i \in DOMAIN old : i <= i
    BY <1>1
  <2>2. QED
    BY <2>1 DEF LastOld
<1>3. ASSUME NEW i, NEW j, Meets(old, new, i, j) PROVE Before(old, new[j]) = {i} /\ There(old, new[j]) = i
  <2>1. Before(old, new[j]) = {i}
    BY <1>2, <1>3 DEF Before, Meets
  <2>2. QED
    BY <2>1 DEF There
<1>4. ASSUME NEW j \in DOMAIN new, \A i : ~Meets(old, new, i, j) PROVE Before(old, new[j]) = {}
  BY <1>2, <1>4 DEF Before, Meets
<1>5. Gone(old, new) = {i \in DOMAIN old : \A j : ~Meets(old, new, i, j)}
  <2>1. \A i \in DOMAIN old : (\E j \in DOMAIN new : RowKey(new[j]) = RowKey(old[i])) <=> \E j : Meets(old, new, i, j)
    BY Zenon DEF Meets
  <2>2. QED
    BY <1>2, <2>1 DEF Gone
<1>6. QED
  BY <1>3, <1>4, <1>5, Zenon DEF MeetingsTell

\* What the records say of rows and places.
KeysSay(records, old, new) ==
  /\ {records[k].new : k \in RecordsThat(records, "insert")}
       \cup {records[k].new : k \in RecordsThat(records, "update")} = {new[j] : j \in Told(old, new)}
  /\ {records[k].place : k \in RecordsThat(records, "update")}
       = {There(old, new[j]) : j \in {h \in Told(old, new) : Before(old, new[h]) # {}}}
  /\ {records[k].place : k \in RecordsThat(records, "delete")} = Gone(old, new)
  /\ Len(records) - Cardinality(RecordsThat(records, "delete")) = Cardinality(Told(old, new))
  /\ Len(records) \in Nat /\ Cardinality(RecordsThat(records, "delete")) \in Nat

LEMMA KeysTold ==
  ASSUME NEW A, NEW old \in Seq(A), NEW new \in Seq(A), NEW records \in KeyBasedChanges(old, new)
  PROVE  KeysSay(records, old, new)
<1> DEFINE told == Told(old, new)
           t == Places(told, Len(new))
           gone == Gone(old, new)
           f == [k \in DOMAIN t |-> RowRecord(old, t[k], new[t[k]])]
           a == Len(t)
<1>1. PICK d \in Deletions(old, gone) : records = f \o d
  <2>1. KeysCompared(records, old, new)
    BY KeyRecords
  <2>2. QED
    BY <2>1 DEF KeysCompared
<1>2. Len(old) \in Nat /\ Len(new) \in Nat /\ DOMAIN old = 1 .. Len(old) /\ DOMAIN new = 1 .. Len(new)
  OBVIOUS
<1>3. told \in SUBSET (1 .. Len(new)) /\ gone \in SUBSET (1 .. Len(old))
  BY <1>2 DEF Told, Gone, LastOld
<1> HIDE DEF told, gone
<1>4. Lists(t, told)
  BY <1>2, <1>3, PlacesListed
<1>5. PICK order : Deletes(d, order, old, gone)
  BY <1>1, <1>2, <1>3, DeletionsThere
<1> DEFINE c == Len(order)
<1> HIDE DEF t
<1>6. DOMAIN t = 1 .. a /\ a \in Nat
  BY <1>4, Listed DEF Lists
<1>7. ListOf(f, a) /\ \A k \in 1 .. a : f[k] = RowRecord(old, t[k], new[t[k]])
  BY <1>6 DEF ListOf
<1> HIDE DEF f
<1>8. ASSUME NEW k \in 1 .. a
      PROVE  /\ f[k].new = new[t[k]] /\ f[k].op # "delete"
             /\ Before(old, new[t[k]]) = {} => f[k].op = "insert"
             /\ Before(old, new[t[k]]) # {} => f[k].op = "update" /\ f[k].place = There(old, new[t[k]])
  <2>0. "insert" # "delete" /\ "update" # "delete"
    OBVIOUS
  <2>1. CASE Before(old, new[t[k]]) = {}
    <3>1. f[k] = InsertRecord(t[k], new[t[k]])
      BY <1>7, <2>1 DEF RowRecord
    <3>2. f[k].new = new[t[k]] /\ f[k].op = "insert"
      BY <3>1, InsertFields
    <3>3. QED
      BY <2>0, <2>1, <3>2
  <2>2. CASE Before(old, new[t[k]]) # {}
    <3>1. f[k] = UpdateRecord(There(old, new[t[k]]), old[There(old, new[t[k]])], new[t[k]])
      BY <1>7, <2>2 DEF RowRecord
    <3>2. f[k].new = new[t[k]] /\ f[k].op = "update" /\ f[k].place = There(old, new[t[k]])
      BY <3>1, UpdateFields
    <3>3. QED
      BY <2>0, <2>2, <3>2
  <2>3. QED
    BY <2>1, <2>2
<1> HIDE DEF a, c
<1>9. Ended(records, f, a, d, c)
  <2>1. \A k \in 1 .. a : f[k].op # "delete"
    BY <1>8
  <2>2. ListOf(d, c) /\ \A k \in 1 .. c : d[k].op = "delete"
    BY <1>5 DEF Deletes, c
  <2>3. ListOf(f, a)
    BY <1>7
  <2>4. QED
    BY <1>1, <2>1, <2>2, <2>3, EndedJoined
<1>10. /\ RecordsThat(records, "insert") = {k \in 1 .. a : Before(old, new[t[k]]) = {}}
       /\ RecordsThat(records, "update") = {k \in 1 .. a : Before(old, new[t[k]]) # {}}
  <2>1. /\ RecordsThat(records, "insert") = {k \in 1 .. a : f[k].op = "insert"}
        /\ RecordsThat(records, "update") = {k \in 1 .. a : f[k].op = "update"}
    BY <1>9 DEF Ended
  <2>2. "insert" # "update"
    OBVIOUS
  <2>3. \A k \in 1 .. a : /\ f[k].op = "insert" <=> Before(old, new[t[k]]) = {}
                          /\ f[k].op = "update" <=> Before(old, new[t[k]]) # {}
    BY <1>8, <2>2
  <2>4. QED
    BY <2>1, <2>3
<1>11. \A k \in 1 .. a : records[k].new = new[t[k]] /\ t[k] \in told
  BY <1>4, <1>8, <1>9 DEF Ended, Lists, a
<1>12. \A j \in told : \E k \in 1 .. a : t[k] = j
  BY <1>4 DEF Lists, a
<1>13. {records[k].new : k \in RecordsThat(records, "insert")}
         \cup {records[k].new : k \in RecordsThat(records, "update")} = {new[j] : j \in told}
  <2>1. RecordsThat(records, "insert") \cup RecordsThat(records, "update") = 1 .. a
    BY <1>10
  <2>2. {records[k].new : k \in RecordsThat(records, "insert")}
          \cup {records[k].new : k \in RecordsThat(records, "update")} = {records[k].new : k \in 1 .. a}
    BY <2>1
  <2>3. {records[k].new : k \in 1 .. a} = {new[j] : j \in told}
    <3>1. \A k \in 1 .. a : \E j \in told : records[k].new = new[j]
      BY <1>11
    <3>2. \A j \in told : \E k \in 1 .. a : records[k].new = new[j]
      BY <1>11, <1>12
    <3>3. QED
      BY <3>1, <3>2
  <2>4. QED
    BY <2>2, <2>3
<1>14. {records[k].place : k \in RecordsThat(records, "update")}
         = {There(old, new[j]) : j \in {h \in told : Before(old, new[h]) # {}}}
  <2> DEFINE updates == RecordsThat(records, "update")
             known == {h \in told : Before(old, new[h]) # {}}
             Row(j) == There(old, new[j])
  <2>1. \A k \in updates : t[k] \in known /\ records[k].place = Row(t[k])
    BY <1>8, <1>9, <1>10, <1>11 DEF Ended
  <2>2. ASSUME NEW j \in known PROVE \E k \in updates : records[k].place = Row(j)
    <3>1. PICK k \in 1 .. a : t[k] = j
      BY <1>12
    <3>2. k \in updates
      BY <1>10, <3>1
    <3> HIDE DEF updates, known, Row
    <3>3. QED
      BY <2>1, <3>1, <3>2
  <2> HIDE DEF updates, known, Row
  <2>3. {records[k].place : k \in updates} = {Row(j) : j \in known}
    BY <2>1, <2>2
  <2>4. QED
    BY <2>3 DEF updates, known, Row
<1>15. {records[k].place : k \in RecordsThat(records, "delete")} = gone
  <2>1. \A k \in 1 .. c : d[k].place = order[k] /\ order[k] \in gone
    BY <1>5 DEF Deletes, Lists, c
  <2>2. ASSUME NEW k \in RecordsThat(records, "delete") PROVE records[k].place \in gone
    <3>1. PICK j \in 1 .. c : k = a + j
      <4>1. k \in a + 1 .. a + c /\ a \in Nat /\ c \in Nat
        BY <1>9 DEF Ended
      <4>2. k - a \in 1 .. c /\ k = a + (k - a)
        BY <4>1
      <4>3. QED
        BY <4>2
    <3>2. records[k].place = order[j] /\ order[j] \in gone
      BY <1>9, <2>1, <3>1, Zenon DEF Ended
    <3>3. QED
      BY <3>2
  <2>3. ASSUME NEW i \in gone PROVE \E k \in RecordsThat(records, "delete") : records[k].place = i
    <3>1. PICK j \in 1 .. c : order[j] = i
      BY <1>5 DEF Deletes, Lists, c
    <3>2. a + j \in a + 1 .. a + c
      BY <1>9 DEF Ended
    <3>3. a + j \in RecordsThat(records, "delete") /\ records[a + j].place = i
      BY <1>9, <2>1, <3>1, <3>2, Zenon DEF Ended
    <3>4. QED
      BY <3>3
  <2>4. QED
    BY <2>2, <2>3
<1>16. /\ Len(records) - Cardinality(RecordsThat(records, "delete")) = Cardinality(told)
       /\ Len(records) \in Nat /\ Cardinality(RecordsThat(records, "delete")) \in Nat
  <2>1. Len(records) = a + c /\ Cardinality(RecordsThat(records, "delete")) = c /\ a \in Nat /\ c \in Nat
    BY <1>9 DEF Ended
  <2>2. Cardinality(told) = a
    BY <1>4 DEF Lists, a
  <2>3. QED
    BY <2>1, <2>2
<1>17. QED
  BY <1>13, <1>14, <1>15, <1>16 DEF KeysSay, told, gone

LEMMA KeysExplain ==
  ASSUME NEW A, NEW old \in Seq(A), NEW new \in Seq(A), NEW records \in KeyBasedChanges(old, new)
  PROVE  ExplainKeys(records, old, new)
<1> DEFINE told == Told(old, new)
           inserted == {records[k].new : k \in RecordsThat(records, "insert")}
           updated == {records[k].new : k \in RecordsThat(records, "update")}
           replaced == {records[k].place : k \in RecordsThat(records, "update")}
           deleted == {records[k].place : k \in RecordsThat(records, "delete")}
           kept == {old[i] : i \in DOMAIN old \ (replaced \cup deleted)}
           same == DOMAIN new \ told
           Meet(i, j) == Meets(old, new, i, j)
<1> SUFFICES ASSUME \A i, j \in DOMAIN old : RowKey(old[i]) = RowKey(old[j]) => i = j,
                    \A i, j \in DOMAIN new : RowKey(new[i]) = RowKey(new[j]) => i = j
             PROVE  /\ kept \cup updated \cup inserted = Range(new)
                    /\ Cardinality(kept) + Len(records) - Cardinality(RecordsThat(records, "delete")) = Len(new)
  BY DEF ExplainKeys
<1>1. KeysSay(records, old, new)
  BY KeysTold
<1>2. Len(old) \in Nat /\ Len(new) \in Nat /\ DOMAIN old = 1 .. Len(old) /\ DOMAIN new = 1 .. Len(new)
  OBVIOUS
<1>3. /\ \A i, j : Meet(i, j) => Before(old, new[j]) = {i} /\ There(old, new[j]) = i
      /\ \A j \in DOMAIN new : (\A i : ~Meet(i, j)) => Before(old, new[j]) = {}
      /\ Gone(old, new) = {i \in DOMAIN old : \A j : ~Meet(i, j)}
  <2>1. MeetingsTell(old, new)
    BY KeysMeet
  <2>2. QED
    BY <2>1, Zenon DEF MeetingsTell
<1>4. /\ \A i, j, k : Meet(i, j) /\ Meet(i, k) => j = k
      /\ \A i, j : Meet(i, j) => i \in DOMAIN old /\ j \in DOMAIN new
  BY DEF Meets
<1> HIDE DEF Meet
<1>5. told = {j \in DOMAIN new : \A i : Meet(i, j) => old[i] # new[j]}
  <2>1. told = {j \in DOMAIN new : Before(old, new[j]) = {} \/ old[There(old, new[j])] # new[j]}
    BY <1>2 DEF Told
  <2>2. ASSUME NEW j \in DOMAIN new
        PROVE  (Before(old, new[j]) = {} \/ old[There(old, new[j])] # new[j])
                 <=> \A i : Meet(i, j) => old[i] # new[j]
    <3>1. CASE \A i : ~Meet(i, j)
      BY <1>3, <3>1
    <3>2. CASE \E i : Meet(i, j)
      <4>1. PICK i : Meet(i, j)
        BY <3>2
      <4>2. Before(old, new[j]) = {i} /\ There(old, new[j]) = i
        BY <1>3, <4>1
      <4>3. Before(old, new[j]) # {}
        BY <4>2
      <4>4. \A h : Meet(h, j) => h = i
        BY <1>3, <4>2
      <4>5. QED
        BY <4>1, <4>2, <4>3, <4>4
    <3>3. QED
      BY <3>1, <3>2
  <2> HIDE DEF told
  <2>3. QED
    BY <2>1, <2>2
<1>6. replaced = {There(old, new[j]) : j \in {h \in told : Before(old, new[h]) # {}}}
  BY <1>1 DEF KeysSay
<1>7. deleted = {i \in DOMAIN old : \A j : ~Meet(i, j)}
  BY <1>1, <1>3 DEF KeysSay
<1>8. updated \cup inserted = {new[j] : j \in told}
  BY <1>1 DEF KeysSay
<1>9. /\ Len(records) - Cardinality(RecordsThat(records, "delete")) = Cardinality(told)
      /\ Len(records) \in Nat /\ Cardinality(RecordsThat(records, "delete")) \in Nat
  BY <1>1 DEF KeysSay
<1> HIDE DEF told, inserted, updated, replaced, deleted
<1>10. /\ \A i \in replaced : \E j \in told : Meet(i, j)
       /\ \A i, j : j \in told /\ Meet(i, j) => i \in replaced
  <2>1. ASSUME NEW i \in replaced PROVE \E j \in told : Meet(i, j)
    <3>1. PICK j \in told : Before(old, new[j]) # {} /\ i = There(old, new[j])
      BY <1>6
    <3>2. PICK h : Meet(h, j)
      BY <1>3, <1>5, <3>1
    <3>3. QED
      BY <1>3, <3>1, <3>2
  <2>2. ASSUME NEW i, NEW j, j \in told, Meet(i, j) PROVE i \in replaced
    <3>1. Before(old, new[j]) = {i} /\ There(old, new[j]) = i
      BY <1>3, <2>2
    <3>2. QED
      BY <1>6, <2>2, <3>1
  <2>3. QED
    BY <2>1, <2>2
<1>11. kept = {new[j] : j \in same}
  <2>1. ASSUME NEW i \in DOMAIN old, i \notin replaced, i \notin deleted PROVE \E j \in same : old[i] = new[j]
    <3>1. PICK j : Meet(i, j)
      BY <1>7, <2>1
    <3>2. j \in same
      BY <1>4, <1>10, <2>1, <3>1
    <3>3. PICK h : Meet(h, j) /\ old[h] = new[j]
      BY <1>5, <3>2
    <3>4. h = i
      BY <1>3, <3>1, <3>3
    <3>5. QED
      BY <3>2, <3>3, <3>4
  <2>2. ASSUME NEW j \in same PROVE \E i \in DOMAIN old \ (replaced \cup deleted) : old[i] = new[j]
    <3>1. PICK i : Meet(i, j) /\ old[i] = new[j]
      BY <1>5
    <3>2. i \in DOMAIN old /\ i \notin deleted
      BY <1>4, <1>7, <3>1
    <3>3. i \notin replaced
      BY <1>4, <1>10, <3>1
    <3>4. QED
      BY <3>1, <3>2, <3>3
  <2> HIDE DEF same
  <2>3. QED
    BY <2>1, <2>2
<1> HIDE DEF kept
<1>12. told \in SUBSET DOMAIN new
  BY <1>5
<1>13. kept \cup updated \cup inserted = Range(new)
  <2>1. Range(new) = {new[j] : j \in DOMAIN new}
    BY DEF Range
  <2>2. kept \cup (updated \cup inserted) = {new[j] : j \in DOMAIN new}
    BY <1>8, <1>11, <1>12
  <2>3. QED
    BY <2>1, <2>2
<1>14. Cardinality(kept) = Len(new) - Cardinality(told) /\ Cardinality(told) \in Nat
  <2>1. IsFiniteSet(DOMAIN new) /\ Cardinality(DOMAIN new) = Len(new)
    <3>1. 1 \in Int /\ Len(new) \in Int
      BY <1>2
    <3>2. IsFiniteSet(1 .. Len(new))
      BY <3>1, FS_Interval
    <3>3. Cardinality(1 .. Len(new)) = Len(new)
      BY <1>2, <3>1, CardinalityOfInterval
    <3>4. QED
      BY <1>2, <3>2, <3>3
  <2>2. DOMAIN new \cap told = told /\ IsFiniteSet(told)
    <3>1. DOMAIN new \cap told = told
      BY <1>12
    <3>2. PICK S : S = DOMAIN new
      OBVIOUS
    <3>3. IsFiniteSet(told)
      BY <1>12, <2>1, <3>2, FS_Subset
    <3>4. QED
      BY <3>1, <3>3
  <2>3. IsFiniteSet(same) /\ Cardinality(same) = Len(new) - Cardinality(told)
    <3>1. PICK S : S = DOMAIN new
      OBVIOUS
    <3>2. IsFiniteSet(S \ told) /\ Cardinality(S \ told) = Cardinality(S) - Cardinality(S \cap told)
      BY <2>1, <3>1, FS_Difference
    <3>3. QED
      BY <2>1, <2>2, <3>1, <3>2
  <2>4. \A i, j \in same : new[i] = new[j] => i = j
    OBVIOUS
  <2> HIDE DEF same
  <2>5. Cardinality({new[j] : j \in same}) = Cardinality(same)
    BY <2>3, <2>4, SameNumber
  <2>6. QED
    BY <1>11, <2>2, <2>3, <2>5, FS_CardinalityType
<1>15. Cardinality(kept) + Len(records) - Cardinality(RecordsThat(records, "delete")) = Len(new)
  BY <1>2, <1>9, <1>14
<1>16. QED
  BY <1>13, <1>15

-----------------------------------------------------------------------------
(* The invariant.                                                          *)

TableRows == UNION {Range(table) : table \in Tables}

ChangesInv ==
  /\ files \in [Paths -> Tables \cup {Absent}]
  /\ \/ changes = <<>> /\ made[1] = <<>> /\ made[2] = <<>>
     \/ /\ made[1] \in Seq(TableRows) /\ made[2] \in Seq(TableRows)
        /\ changes \in DetectChanges(detector, made[1], made[2])

LEMMA TablesOfRows ==
  ASSUME NEW table \in Tables, table # <<>>
  PROVE  Tail(table) \in Seq(TableRows)
<1>1. table \in Seq(Range(table))
  BY DeltaAssumption
<1>2. Range(table) \subseteq TableRows
  BY DEF TableRows
<1>3. PICK S : S = Range(table)
  OBVIOUS
<1>4. table \in Seq(S) /\ S \subseteq TableRows
  BY <1>1, <1>2, <1>3
<1>5. table \in Seq(TableRows)
  BY <1>4
<1>6. QED
  BY <1>5

LEMMA NothingApplied ==
  ASSUME NEW base
  PROVE  ApplyDelta(base, RecordsOf(delta)) = base
<1> DEFINE Then(r, before) == IF r.op = "insert" /\ r.place <= Len(before) /\ r.new # <<>>
                              THEN InsertAt(before, r.place, r.new) ELSE before
           Is(f) == f = [k \in 0 .. Len(<<>>) |-> IF k = 0 THEN base ELSE Then(<<>>[k], f[k - 1])]
           applied == CHOOSE f : Is(f)
<1>1. ApplyDelta(base, RecordsOf(delta)) = applied[Len(<<>>)]
  BY DEF ApplyDelta, RecordsOf
<1> HIDE DEF Then
<1>2. Len(<<>>) = 0
  OBVIOUS
<1>3. Is([k \in 0 .. Len(<<>>) |-> base])
  <2>1. \A k \in 0 .. Len(<<>>) : k = 0
    BY <1>2
  <2>2. QED
    BY <2>1
<1>4. Is(applied)
  BY <1>3
<1> HIDE DEF applied
<1>5. applied[0] = base
  BY <1>2, <1>4
<1>6. QED
  BY <1>1, <1>2, <1>5

LEMMA ChangesExplained ==
  ASSUME ChangesInv
  PROVE  ChangesExplain
<1> DEFINE old == made[1]
           new == made[2]
<1>1. ASSUME NEW A, NEW o \in Seq(A), NEW n \in Seq(A), changes \in DetectChanges(detector, o, n)
      PROVE  /\ detector \in {"field", "semantic"} => ExplainRows(changes, o, n)
             /\ detector \in {"key", "timestamp"} => ExplainKeys(changes, o, n)
             /\ detector = "hash" => ExplainContents(changes, o, n)
  <2>1. ASSUME detector \in {"field", "semantic"} PROVE ExplainRows(changes, o, n)
    <3>1. changes \in FieldByFieldChanges(o, n)
      BY <1>1, <2>1 DEF DetectChanges
    <3>2. QED
      BY <3>1, FieldExplains
  <2>2. ASSUME detector \in {"key", "timestamp"} PROVE ExplainKeys(changes, o, n)
    <3>1. changes \in KeyBasedChanges(o, n)
      BY <1>1, <2>2 DEF DetectChanges
    <3>2. QED
      BY <3>1, KeysExplain
  <2>3. ASSUME detector = "hash" PROVE ExplainContents(changes, o, n)
    <3>1. changes \in ContentHashChanges(o, n)
      BY <1>1, <2>3 DEF DetectChanges
    <3>2. QED
      BY <3>1, ContentsExplain
  <2>4. QED
    BY <2>1, <2>2, <2>3
<1>2. ASSUME changes = <<>>, old = <<>>, new = <<>>
      PROVE  ExplainRows(changes, old, new) /\ ExplainKeys(changes, old, new) /\ ExplainContents(changes, old, new)
  <2>1. \A op : RecordsThat(<<>>, op) = {}
    BY DEF RecordsThat
  <2>2. Cardinality({}) = 0 /\ Len(<<>>) = 0 /\ DOMAIN <<>> = {} /\ Range(<<>>) = {}
    BY FS_EmptySet DEF Range
  <2>3. ExplainRows(<<>>, <<>>, <<>>)
    <3>1. RecordsThat(<<>>, "insert") = {} /\ RecordsThat(<<>>, "delete") = {}
      BY <2>1
    <3>2. Len(<<>>) = Len(<<>>) + Cardinality(RecordsThat(<<>>, "insert"))
                                - Cardinality(RecordsThat(<<>>, "delete"))
      <4>1. /\ Cardinality(RecordsThat(<<>>, "insert")) = 0
            /\ Cardinality(RecordsThat(<<>>, "delete")) = 0
        BY <2>2, <3>1, Zenon
      <4>2. \A x, y \in Nat : x = 0 /\ y = 0 => 0 = 0 + x - y
        OBVIOUS
      <4>3. Len(<<>>) = 0
        BY <2>2, Zenon
      <4>4. QED
        BY <4>1, <4>2, <4>3
    <3>3. \A i \in DOMAIN <<>> : FALSE
      BY <2>2
    <3>4. QED
      BY <3>2, <3>3, Zenon DEF ExplainRows
  <2>4. ExplainKeys(<<>>, <<>>, <<>>)
    <3> DEFINE kept(S) == {<<>>[i] : i \in DOMAIN <<>> \ S}
    <3>1. \A S : kept(S) = {}
      BY <2>2
    <3>2. \A op : {<<>>[k].new : k \in RecordsThat(<<>>, op)} = {}
      BY <2>1
    <3>3. \A S : Cardinality(kept(S)) + Len(<<>>) - Cardinality(RecordsThat(<<>>, "delete")) = Len(<<>>)
      <4>1. \A S : Cardinality(kept(S)) = 0
        BY <2>2, <3>1, Zenon
      <4>2. Cardinality(RecordsThat(<<>>, "delete")) = 0
        BY <2>1, <2>2, Zenon
      <4>3. Len(<<>>) = 0
        BY <2>2, Zenon
      <4> HIDE DEF kept
      <4>4. QED
        BY <4>1, <4>2, <4>3
    <3>4. \A S : kept(S) \cup {<<>>[k].new : k \in RecordsThat(<<>>, "update")}
                        \cup {<<>>[k].new : k \in RecordsThat(<<>>, "insert")} = Range(<<>>)
      BY <2>2, <3>1, <3>2
    <3>5. QED
      BY <3>3, <3>4, Zenon DEF ExplainKeys
  <2>5. ExplainContents(<<>>, <<>>, <<>>)
    BY <2>1, <2>2 DEF ExplainContents
  <2>6. QED
    BY <1>2, <2>3, <2>4, <2>5
<1>3. /\ detector \in {"field", "semantic"} => ExplainRows(changes, old, new)
      /\ detector \in {"key", "timestamp"} => ExplainKeys(changes, old, new)
      /\ detector = "hash" => ExplainContents(changes, old, new)
  <2>1. CASE changes = <<>> /\ old = <<>> /\ new = <<>>
    BY <1>2, <2>1
  <2>2. CASE /\ old \in Seq(TableRows) /\ new \in Seq(TableRows)
             /\ changes \in DetectChanges(detector, old, new)
    BY <1>1, <2>2
  <2>3. QED
    BY <2>1, <2>2 DEF ChangesInv
<1>4. \A op : ThatAre(op) = RecordsThat(changes, op)
  BY DEF ThatAre, RecordsThat
<1>5. ASSUME detector \in {"field", "semantic"}
      PROVE  /\ Len(new) = Len(old) + Cardinality(ThatAre("insert")) - Cardinality(ThatAre("delete"))
             /\ \A i \in DOMAIN new :
                  \/ \E k \in DOMAIN changes : changes[k].place = i /\ changes[k].new = new[i]
                  \/ /\ i \in DOMAIN old \ (   {changes[k].place : k \in ThatAre("update")}
                                          \cup {changes[k].place : k \in ThatAre("delete")})
                     /\ old[i] = new[i]
  BY <1>3, <1>4, <1>5, Zenon DEF ExplainRows
<1>6. ASSUME detector = "hash"
      PROVE  (Range(old) \ {changes[k].old : k \in ThatAre("delete")})
               \cup {changes[k].new : k \in ThatAre("insert")} = Range(new)
  BY <1>3, <1>4, <1>6, Zenon DEF ExplainContents
<1>7. ASSUME detector \in {"key", "timestamp"},
             Distinct(old, KeyFromRow), Distinct(new, KeyFromRow)
      PROVE  LET inserted == {changes[k].new : k \in ThatAre("insert")}
                 updated == {changes[k].new : k \in ThatAre("update")}
                 replaced == {changes[k].place : k \in ThatAre("update")}
                 deleted == {changes[k].place : k \in ThatAre("delete")}
                 kept == {old[i] : i \in DOMAIN old \ (replaced \cup deleted)}
             IN  /\ kept \cup updated \cup inserted = Range(new)
                 /\ Cardinality(kept) + Len(changes) - Cardinality(ThatAre("delete")) = Len(new)
  <2>1. /\ \A i, j \in DOMAIN old : RowKey(old[i]) = RowKey(old[j]) => i = j
        /\ \A i, j \in DOMAIN new : RowKey(new[i]) = RowKey(new[j]) => i = j
    BY <1>7 DEF Distinct, RowKey
  <2>2. QED
    BY <1>3, <1>4, <1>7, <2>1, Zenon DEF ExplainKeys
<1>8. QED
  BY <1>5, <1>6, <1>7, Zenon DEF ChangesExplain, OfChange

LEMMA ChangesStep ==
  ASSUME ChangesInv, [DeltaNext]_deltaVars
  PROVE  ChangesInv'
<1>1. CASE UNCHANGED deltaVars
  BY <1>1 DEF ChangesInv, deltaVars
<1>2. ASSUME NEW c, SetConfig(c) PROVE ChangesInv'
  BY <1>2 DEF ChangesInv, SetConfig
<1>3. ASSUME NEW path \in Paths, NEW table \in Tables, FileChanges(path, table) PROVE ChangesInv'
  BY <1>3 DEF ChangesInv, FileChanges
<1>4. ASSUME NEW old, NEW new, CompressFails(old, new) PROVE ChangesInv'
  BY <1>4 DEF ChangesInv, CompressFails
<1>5. ASSUME NEW base \in Paths, NEW output \in Paths, Decompress(base, output) PROVE ChangesInv'
  <2>1. changes' = changes /\ made' = made /\ detector' = detector
    BY <1>5 DEF Decompress
  <2>2. files' \in [Paths -> Tables \cup {Absent}]
    <3>1. CASE UNCHANGED files
      BY <3>1 DEF ChangesInv
    <3>2. CASE files' = [files EXCEPT ![output] = ApplyDelta(files[base], RecordsOf(delta))]
      <4>1. files' = [files EXCEPT ![output] = files[base]]
        BY <3>2, NothingApplied
      <4>2. QED
        BY <4>1 DEF ChangesInv
    <3>3. QED
      BY <1>5, <3>1, <3>2, Zenon DEF Decompress
  <2>3. QED
    BY <2>1, <2>2 DEF ChangesInv
<1>6. ASSUME NEW old \in Paths, NEW new \in Paths, Compress(old, new) PROVE ChangesInv'
  <2>1. /\ files' = files /\ detector' = detector /\ made' = <<Tail(files[old]), Tail(files[new])>>
        /\ \A path \in {old, new} : files[path] \notin {Absent, <<>>}
    BY <1>6 DEF Compress
  <2>2. changes' \in DetectChanges(detector, made'[1], made'[2])
    BY <1>6 DEF Compress
  <2>3. files[old] \in Tables /\ files[new] \in Tables /\ files[old] # <<>> /\ files[new] # <<>>
    BY <2>1 DEF ChangesInv
  <2>4. PICK s \in Seq(TableRows), t \in Seq(TableRows) : made' = <<s, t>>
    BY <2>1, <2>3, TablesOfRows
  <2>5. made'[1] \in Seq(TableRows) /\ made'[2] \in Seq(TableRows)
    BY <2>4
  <2>6. QED
    BY <2>1, <2>2, <2>5 DEF ChangesInv
<1>7. QED
  BY <1>1, <1>2, <1>3, <1>4, <1>5, <1>6 DEF DeltaNext

\* Whatever the tables, the payloads and the modes and algorithms in use: the changes a
\* delta was made with tell the new table from the old one, and what is written of their
\* bytes reads back as them, with runs and matches cut where the code cuts them.
THEOREM DeltasAreExact ==
  DeltaSpec => []DeltaExact
<1> DEFINE DeltaInv == CodeInv /\ ChangesInv
<1>1. DeltaInit => DeltaInv
  <2> SUFFICES ASSUME DeltaInit PROVE DeltaInv
    OBVIOUS
  <2>1. CodeInv
    BY DEF CodeInv, DeltaInit
  <2>2. ChangesInv
    BY DEF ChangesInv, DeltaInit
  <2>3. QED
    BY <2>1, <2>2
<1>2. DeltaInv /\ [DeltaNext]_deltaVars => DeltaInv'
  BY CodeStep, ChangesStep
<1>3. DeltaInv => DeltaExact
  BY CodesRead, ChangesExplained DEF DeltaExact
<1> HIDE DEF DeltaInv
<1>4. QED
  BY <1>1, <1>2, <1>3, PTL DEF DeltaSpec
=============================================================================
