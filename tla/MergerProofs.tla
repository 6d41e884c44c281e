----------------------------- MODULE MergerProofs -----------------------------
(***************************************************************************)
(* MergeExact of MergerEngine, for any sources, contents of files and      *)
(* configurations.  Induction, sequences and places are reasoned about     *)
(* with the lemmas of CsvTablesProofs.                                     *)
(***************************************************************************)
EXTENDS MergerEngine, CsvTablesProofs

-----------------------------------------------------------------------------
(* Texts put together.                                                     *)

\* What a loop that appends one part after the other makes of the first k.
Joins(f, parts, A) ==
  /\ f \in [0 .. Len(parts) -> Seq(A)] /\ f[0] = <<>>
  /\ \A k \in 1 .. Len(parts) : f[k] = f[k - 1] \o parts[k]

LEMMA JoinedUp ==
  ASSUME NEW A, NEW parts \in Seq(Seq(A))
  PROVE  \E f : Joins(f, parts, A) /\ FlattenSeq(parts) = f[Len(parts)]
<1> DEFINE n == Len(parts)
           Is(f) == f = [i \in 1 .. n |-> IF i = 1 THEN parts[i] ELSE f[i - 1] \o parts[i]]
           all == CHOOSE f : Is(f)
           step == [q \in Nat \X Seq(A) |-> IF q[1] + 1 \in 1 .. n THEN q[2] \o parts[q[1] + 1] ELSE q[2]]
<1>1. n \in Nat /\ DOMAIN parts = 1 .. n /\ \A k \in 1 .. n : parts[k] \in Seq(A)
  OBVIOUS
<1>2. PICK f : Computes(f, Seq(A), <<>>, step)
  <2>1. \A s, t \in Seq(A) : s \o t \in Seq(A)
    OBVIOUS
  <2>2. step \in [Nat \X Seq(A) -> Seq(A)]
    BY <1>1, <2>1
  <2>3. <<>> \in Seq(A)
    OBVIOUS
  <2> HIDE DEF step
  <2>4. QED
    BY <2>2, <2>3, Recursion
<1>3. f[0] = <<>> /\ \A k \in Nat : f[k] \in Seq(A)
  BY <1>2 DEF Computes
<1>4. ASSUME NEW i \in 1 .. n PROVE f[i] = f[i - 1] \o parts[i]
  <2>1. i - 1 \in Nat /\ (i - 1) + 1 = i
    BY <1>1
  <2> HIDE DEF step
  <2>2. f[i] = step[<<i - 1, f[i - 1]>>]
    BY <1>2, <2>1 DEF Computes
  <2>3. <<i - 1, f[i - 1]>> \in Nat \X Seq(A)
    BY <1>3, <2>1
  <2>4. step[<<i - 1, f[i - 1]>>] = f[i - 1] \o parts[(i - 1) + 1]
    BY <2>1, <2>3 DEF step
  <2>5. QED
    BY <2>1, <2>2, <2>4
<1> HIDE DEF step
<1> DEFINE g == [k \in 0 .. n |-> f[k]]
<1>5. Joins(g, parts, A)
  <2>1. g \in [0 .. n -> Seq(A)] /\ g[0] = <<>>
    BY <1>1, <1>3
  <2>2. ASSUME NEW k \in 1 .. n PROVE g[k] = g[k - 1] \o parts[k]
    <3>1. k \in 0 .. n /\ k - 1 \in 0 .. n
      BY <1>1
    <3>2. QED
      BY <1>4, <3>1
  <2> HIDE DEF g
  <2>3. QED
    BY <2>1, <2>2 DEF Joins
<1>6. FlattenSeq(parts) = f[n]
  <2>1. CASE n = 0
    <3>1. parts = <<>> /\ FlattenSeq(parts) = parts
      BY <2>1 DEF FlattenSeq
    <3>2. QED
      BY <1>3, <2>1, <3>1
  <2>2. CASE n # 0
    <3>1. FlattenSeq(parts) = all[n]
      BY <2>2 DEF FlattenSeq
    <3> HIDE DEF n
    <3>2. \A s \in Seq(A) : <<>> \o s = s
      OBVIOUS
    <3>3. f[1] = parts[1]
      <4>1. 1 \in 1 .. n /\ 1 - 1 = 0
        BY <1>1, <2>2
      <4>2. f[1] = f[1 - 1] \o parts[1]
        BY <1>4, <4>1
      <4>3. QED
        BY <1>1, <1>3, <3>2, <4>1, <4>2
    <3>4. Is([i \in 1 .. n |-> f[i]])
      <4> DEFINE h == [i \in 1 .. n |-> f[i]]
      <4>1. ASSUME NEW i \in 1 .. n PROVE h[i] = IF i = 1 THEN parts[i] ELSE h[i - 1] \o parts[i]
        <5>1. CASE i = 1
          BY <3>3, <5>1
        <5>2. CASE i # 1
          <6>1. i - 1 \in 1 .. n
            BY <1>1, <5>2
          <6>2. QED
            BY <1>4, <5>2, <6>1, Zenon
        <5>3. QED
          BY <5>1, <5>2
      <4>2. h = [i \in 1 .. n |-> h[i]]
        OBVIOUS
      <4> HIDE DEF h
      <4>3. Is(h)
        BY <4>1, <4>2, Zenon
      <4>4. QED
        BY <4>3 DEF h
    <3>5. Is(all)
      BY <3>4, Zenon
    <3> HIDE DEF all
    <3> DEFINE Fine == {k \in Nat : k + 1 <= n => all[k + 1] = f[k + 1]}
    <3>6. \A k \in Nat : k \in Fine
      <4>1. 0 \in Fine
        BY <1>1, <2>2, <3>3, <3>5
      <4>2. ASSUME NEW k \in Nat, k \in Fine PROVE k + 1 \in Fine
        <5> SUFFICES ASSUME (k + 1) + 1 <= n PROVE all[(k + 1) + 1] = f[(k + 1) + 1]
          OBVIOUS
        <5>1. (k + 1) + 1 \in 1 .. n /\ (k + 1) + 1 # 1 /\ ((k + 1) + 1) - 1 = k + 1 /\ k + 1 <= n
          BY <1>1
        <5>2. all[k + 1] = f[k + 1]
          BY <4>2, <5>1
        <5>3. all[(k + 1) + 1] = all[k + 1] \o parts[(k + 1) + 1]
          BY <3>5, <5>1
        <5>4. f[(k + 1) + 1] = f[k + 1] \o parts[(k + 1) + 1]
          BY <1>4, <5>1
        <5>5. QED
          BY <5>2, <5>3, <5>4
      <4> HIDE DEF Fine
      <4>3. QED
        BY <4>1, <4>2, Induction
    <3>7. n - 1 \in Nat /\ (n - 1) + 1 = n
      BY <1>1, <2>2
    <3>8. all[n] = f[n]
      <4>1. n - 1 \in Fine
        BY <3>6, <3>7
      <4>2. QED
        BY <3>7, <4>1
    <3>9. QED
      BY <3>1, <3>8
  <2>3. QED
    BY <2>1, <2>2
<1>7. g[n] = f[n]
  BY <1>1
<1> HIDE DEF g
<1>8. QED
  BY <1>5, <1>6, <1>7

\* Parts that end with a mark and have no other.
Marked(part) ==
  part # <<>> => part[Len(part)] = "|" /\ \A i \in 1 .. Len(part) - 1 : part[i] # "|"

EndsMarked(s) == s # <<>> => s[Len(s)] = "|"

Starts(t, s) == Len(t) <= Len(s) /\ \A i \in 1 .. Len(t) : s[i] = t[i]

LEMMA OnePartLess ==
  ASSUME NEW A, NEW s \in Seq(A), NEW t \in Seq(A), NEW a \in Seq(A), NEW b \in Seq(A),
         Marked(a), Marked(b), a # <<>> => b # <<>>, EndsMarked(s), EndsMarked(t),
         Starts(t \o b, s \o a)
  PROVE  Starts(t, s) /\ (s = t => a = b)
<1>1. /\ Len(s) \in Nat /\ Len(t) \in Nat /\ Len(a) \in Nat /\ Len(b) \in Nat
      /\ Len(s \o a) = Len(s) + Len(a) /\ Len(t \o b) = Len(t) + Len(b)
      /\ \A i \in 1 .. Len(s) : (s \o a)[i] = s[i]
      /\ \A i \in 1 .. Len(a) : (s \o a)[Len(s) + i] = a[i]
      /\ \A i \in 1 .. Len(t) : (t \o b)[i] = t[i]
      /\ \A i \in 1 .. Len(b) : (t \o b)[Len(t) + i] = b[i]
  BY Concatenation
<1>2. /\ Len(t) + Len(b) <= Len(s) + Len(a)
      /\ \A i \in 1 .. Len(t) + Len(b) : (s \o a)[i] = (t \o b)[i]
  BY <1>1 DEF Starts
<1>3. ASSUME Len(t) <= Len(s) PROVE Starts(t, s)
  <2>1. ASSUME NEW i \in 1 .. Len(t) PROVE s[i] = t[i]
    <3>1. i \in 1 .. Len(s) /\ i \in 1 .. Len(t) + Len(b)
      BY <1>1, <1>3
    <3>2. QED
      BY <1>1, <1>2, <3>1
  <2>2. QED
    BY <1>3, <2>1 DEF Starts
<1>4. ASSUME s = t, Len(a) = Len(b) PROVE a = b
  <2>1. ASSUME NEW i \in 1 .. Len(a) PROVE a[i] = b[i]
    <3>1. Len(t) + i \in 1 .. Len(t) + Len(b)
      BY <1>1, <1>4
    <3>2. QED
      BY <1>1, <1>2, <1>4, <3>1
  <2>2. QED
    BY <1>4, <2>1
<1>5. CASE a = <<>>
  <2>1. Len(a) = 0
    BY <1>5
  <2>2. QED
    BY <1>1, <1>2, <1>3, <1>4, <2>1
<1>6. CASE a # <<>>
  <2>1. /\ Len(a) >= 1 /\ Len(b) >= 1 /\ b[Len(b)] = "|"
        /\ \A i \in 1 .. Len(a) - 1 : a[i] # "|"
    <3>1. b # <<>> /\ \A r \in Seq(A) : r # <<>> => Len(r) >= 1
      BY <1>6
    <3>2. QED
      BY <1>6, <3>1 DEF Marked
  <2>2. (s \o a)[Len(t) + Len(b)] = "|"
    <3>1. Len(b) \in 1 .. Len(b) /\ Len(t) + Len(b) \in 1 .. Len(t) + Len(b)
      BY <1>1, <2>1
    <3>2. QED
      BY <1>1, <1>2, <2>1, <3>1
  <2>3. ASSUME NEW i \in Nat, Len(s) < i, i < Len(s) + Len(a) PROVE (s \o a)[i] # "|"
    <3>1. i - Len(s) \in 1 .. Len(a) - 1 /\ i - Len(s) \in 1 .. Len(a) /\ Len(s) + (i - Len(s)) = i
      BY <1>1, <2>3
    <3>2. (s \o a)[i] = a[i - Len(s)]
      BY <1>1, <3>1
    <3>3. QED
      BY <2>1, <3>1, <3>2
  <2>4. Len(t) + Len(b) <= Len(s) \/ Len(t) + Len(b) = Len(s) + Len(a)
    <3>1. Len(t) + Len(b) \in Nat
      BY <1>1
    <3>2. ~(Len(s) < Len(t) + Len(b) /\ Len(t) + Len(b) < Len(s) + Len(a))
      BY <2>2, <2>3, <3>1
    <3> DEFINE w == Len(s)  x == Len(a)  y == Len(t)  z == Len(b)
    <3>3. /\ w \in Nat /\ x \in Nat /\ y \in Nat /\ z \in Nat
          /\ y + z <= w + x /\ ~(w < y + z /\ y + z < w + x)
      BY <1>1, <1>2, <3>2
    <3> HIDE DEF w, x, y, z
    <3>4. y + z <= w \/ y + z = w + x
      BY <3>3
    <3>5. QED
      BY <3>4 DEF w, x, y, z
  <2>5. Len(t) <= Len(s)
    <3> SUFFICES ASSUME Len(s) < Len(t) PROVE FALSE
      BY <1>1
    <3>1. t # <<>> /\ Len(t) < Len(s) + Len(a) /\ Len(t) \in 1 .. Len(t) /\ Len(t) \in 1 .. Len(t) + Len(b)
      BY <1>1, <1>2, <2>1
    <3>2. t[Len(t)] = "|"
      BY <3>1 DEF EndsMarked
    <3>3. (s \o a)[Len(t)] = "|"
      BY <1>1, <1>2, <3>1, <3>2
    <3>4. QED
      BY <1>1, <2>3, <3>1, <3>3
  <2>6. s = t => Len(a) = Len(b)
    BY <1>1, <2>1, <2>4
  <2>7. QED
    BY <1>3, <1>4, <2>5, <2>6
<1>7. QED
  BY <1>5, <1>6

\* No part is there in one list that is not in the other, and the second text begins the
\* first.
Comparable(A, n, p, q, f, g) ==
  /\ n \in Nat
  /\ p \in [1 .. n -> Seq(A)] /\ q \in [1 .. n -> Seq(A)]
  /\ \A k \in 1 .. n : Marked(p[k]) /\ Marked(q[k]) /\ (p[k] # <<>> => q[k] # <<>>)
  /\ f \in [0 .. n -> Seq(A)] /\ g \in [0 .. n -> Seq(A)] /\ f[0] = <<>> /\ g[0] = <<>>
  /\ \A k \in 1 .. n : f[k] = f[k - 1] \o p[k] /\ g[k] = g[k - 1] \o q[k]
  /\ Starts(g[n], f[n])

Agree(n, p, q) == \A k \in 1 .. n : p[k] = q[k]

\* Then the lists are the same.
LEMMA SamePartsUpTo ==
  ASSUME NEW A, NEW n, NEW p, NEW q, NEW f, NEW g, Comparable(A, n, p, q, f, g)
  PROVE  Agree(n, p, q)
<1>0. n \in Nat
  BY DEF Comparable
<1>1. \A k \in 1 .. n : p[k] \in Seq(A) /\ q[k] \in Seq(A)
  BY DEF Comparable
<1>2. /\ \A k \in 0 .. n : f[k] \in Seq(A) /\ g[k] \in Seq(A)
      /\ f[0] = <<>> /\ g[0] = <<>>
      /\ \A k \in 1 .. n : f[k] = f[k - 1] \o p[k] /\ g[k] = g[k - 1] \o q[k]
  BY DEF Comparable
<1>3. \A k \in 1 .. n : Marked(p[k]) /\ Marked(q[k]) /\ (p[k] # <<>> => q[k] # <<>>)
  BY DEF Comparable
<1>4. Starts(g[n], f[n])
  BY DEF Comparable
<1>5. ASSUME NEW s \in Seq(A), NEW a \in Seq(A), EndsMarked(s), Marked(a) PROVE EndsMarked(s \o a)
  <2>1. CASE a = <<>>
    <3>1. s \o a = s
      BY <2>1
    <3>2. QED
      BY <1>5, <3>1
  <2>2. CASE a # <<>>
    <3>1. Len(a) \in 1 .. Len(a) /\ Len(s \o a) = Len(s) + Len(a) /\ (s \o a)[Len(s) + Len(a)] = a[Len(a)]
      BY <2>2
    <3>2. QED
      BY <1>5, <2>2, <3>1 DEF EndsMarked, Marked
  <2>3. QED
    BY <2>1, <2>2
<1> DEFINE Fine == {k \in Nat : k <= n => EndsMarked(f[k]) /\ EndsMarked(g[k])}
<1>6. \A k \in Nat : k \in Fine
  <2>1. 0 \in Fine
    BY <1>2 DEF EndsMarked
  <2>2. ASSUME NEW k \in Nat, k \in Fine PROVE k + 1 \in Fine
    <3> SUFFICES ASSUME k + 1 <= n PROVE EndsMarked(f[k + 1]) /\ EndsMarked(g[k + 1])
      OBVIOUS
    <3>1. k + 1 \in 1 .. n /\ k \in 0 .. n /\ (k + 1) - 1 = k
      BY <1>0
    <3>2. EndsMarked(f[k]) /\ EndsMarked(g[k])
      BY <2>2, <3>1
    <3>3. QED
      BY <1>1, <1>2, <1>3, <1>5, <3>1, <3>2
  <2> HIDE DEF Fine
  <2>3. QED
    BY <2>1, <2>2, Induction
<1> DEFINE Equal == {k \in Nat : k <= n /\ Starts(g[k], f[k]) =>
                        f[k] = g[k] /\ \A j \in 1 .. k : p[j] = q[j]}
<1>7. \A k \in Nat : k \in Equal
  <2>1. 0 \in Equal
    BY <1>0, <1>2
  <2>2. ASSUME NEW k \in Nat, k \in Equal PROVE k + 1 \in Equal
    <3>0. k + 1 \in Nat
      OBVIOUS
    <3> SUFFICES ASSUME k + 1 <= n, Starts(g[k + 1], f[k + 1])
                 PROVE  f[k + 1] = g[k + 1] /\ \A j \in 1 .. k + 1 : p[j] = q[j]
      BY <3>0, Zenon
    <3>1. k + 1 \in 1 .. n /\ k \in 0 .. n /\ (k + 1) - 1 = k /\ k <= n
      BY <1>0
    <3>2. f[k + 1] = f[k] \o p[k + 1] /\ g[k + 1] = g[k] \o q[k + 1]
      BY <1>2, <3>1
    <3>3. EndsMarked(f[k]) /\ EndsMarked(g[k])
      <4>1. k \in Fine
        BY <1>6
      <4>2. QED
        BY <3>1, <4>1
    <3>4. Starts(g[k], f[k]) /\ (f[k] = g[k] => p[k + 1] = q[k + 1])
      <4>1. /\ f[k] \in Seq(A) /\ g[k] \in Seq(A) /\ p[k + 1] \in Seq(A) /\ q[k + 1] \in Seq(A)
            /\ Marked(p[k + 1]) /\ Marked(q[k + 1]) /\ (p[k + 1] # <<>> => q[k + 1] # <<>>)
        BY <1>1, <1>2, <1>3, <3>1
      <4>2. Starts(g[k] \o q[k + 1], f[k] \o p[k + 1])
        BY <3>2
      <4>3. QED
        BY <3>3, <4>1, <4>2, OnePartLess
    <3>5. f[k] = g[k] /\ \A j \in 1 .. k : p[j] = q[j]
      BY <2>2, <3>1, <3>4
    <3>6. p[k + 1] = q[k + 1]
      BY <3>4, <3>5
    <3>7. \A j \in 1 .. k + 1 : j \in 1 .. k \/ j = k + 1
      OBVIOUS
    <3>8. QED
      BY <3>2, <3>5, <3>6, <3>7
  <2> HIDE DEF Equal, Fine
  <2>3. QED
    BY <2>1, <2>2, Induction
<1>8. QED
  <2>1. n \in Equal
    BY <1>0, <1>7
  <2>2. QED
    BY <1>0, <1>4, <2>1 DEF Agree

\* The same for a list that is shorter.
BothJoined(A, m, n, p, q, f, g) ==
  /\ m \in Nat /\ n \in Nat /\ m <= n
  /\ \A k \in 1 .. m : p[k] \in Seq(A) /\ Marked(p[k]) /\ (p[k] # <<>> => q[k] # <<>>)
  /\ \A k \in 1 .. n : q[k] \in Seq(A) /\ Marked(q[k])
  /\ q \in [1 .. n -> Seq(A)]
  /\ f \in [0 .. m -> Seq(A)] /\ f[0] = <<>> /\ \A k \in 1 .. m : f[k] = f[k - 1] \o p[k]
  /\ g \in [0 .. n -> Seq(A)] /\ g[0] = <<>> /\ \A k \in 1 .. n : g[k] = g[k - 1] \o q[k]
  /\ Starts(g[n], f[m])

OnlyThese(m, n, p, q) == Agree(m, p, q) /\ \A k \in m + 1 .. n : q[k] = <<>>

LEMMA SamePartsPadded ==
  ASSUME NEW A, NEW m, NEW n, NEW p, NEW q, NEW f, NEW g, BothJoined(A, m, n, p, q, f, g)
  PROVE  OnlyThese(m, n, p, q)
<1>2. m \in Nat /\ n \in Nat /\ m <= n
  BY DEF BothJoined
<1>3. /\ <<>> \in Seq(A) /\ q \in [1 .. n -> Seq(A)]
      /\ \A k \in 1 .. m : p[k] \in Seq(A) /\ Marked(p[k]) /\ (p[k] # <<>> => q[k] # <<>>)
      /\ \A k \in 1 .. n : q[k] \in Seq(A) /\ Marked(q[k])
  <2>1. <<>> \in Seq(A)
    OBVIOUS
  <2>2. QED
    BY <2>1 DEF BothJoined
<1>4. /\ f \in [0 .. m -> Seq(A)] /\ f[0] = <<>> /\ \A k \in 1 .. m : f[k] = f[k - 1] \o p[k]
      /\ g \in [0 .. n -> Seq(A)] /\ g[0] = <<>> /\ \A k \in 1 .. n : g[k] = g[k - 1] \o q[k]
      /\ Starts(g[n], f[m])
  BY DEF BothJoined
<1> DEFINE pp == [k \in 1 .. n |-> IF k <= m THEN p[k] ELSE <<>>]
           ff == [k \in 0 .. n |-> IF k <= m THEN f[k] ELSE f[m]]
<1>5. /\ pp \in [1 .. n -> Seq(A)] /\ ff \in [0 .. n -> Seq(A)] /\ ff[0] = <<>> /\ ff[n] = f[m]
      /\ \A k \in 1 .. n : Marked(pp[k]) /\ (pp[k] # <<>> => q[k] # <<>>)
  <2>1. Marked(<<>>)
    BY DEF Marked
  <2>2. ASSUME NEW k \in 1 .. n
        PROVE  pp[k] \in Seq(A) /\ Marked(pp[k]) /\ (pp[k] # <<>> => q[k] # <<>>)
    <3>1. k <= m => k \in 1 .. m
      BY <1>2, <1>3
    <3>2. QED
      BY <1>2, <1>3, <2>1, <3>1
  <2>3. ASSUME NEW k \in 0 .. n PROVE ff[k] \in Seq(A)
    BY <1>2, <1>3, <1>4
  <2>4. ff[0] = <<>> /\ ff[n] = f[m]
    <3>1. 0 \in 0 .. n /\ n \in 0 .. n /\ 0 <= m /\ (n <= m => n = m)
      BY <1>2
    <3>2. QED
      BY <1>4, <3>1
  <2>5. QED
    BY <2>2, <2>3, <2>4
<1>6. ASSUME NEW k \in 1 .. n PROVE ff[k] = ff[k - 1] \o pp[k]
  <2>1. k \in 0 .. n /\ k - 1 \in 0 .. n /\ \A s \in Seq(A) : s \o <<>> = s
    BY <1>2, <1>3
  <2>2. CASE k <= m
    <3>1. k \in 1 .. m /\ k - 1 <= m
      BY <1>2, <1>3, <2>2
    <3>2. QED
      BY <1>4, <2>1, <2>2, <3>1
  <2>3. CASE ~(k <= m)
    <3>1. ff[k] = f[m] /\ pp[k] = <<>> /\ f[m] \in Seq(A)
      BY <1>2, <1>3, <1>4, <2>1, <2>3
    <3>2. ff[k - 1] = f[m]
      <4>1. k - 1 = m \/ ~(k - 1 <= m)
        BY <1>2, <2>3
      <4>2. ff[k - 1] = IF k - 1 <= m THEN f[k - 1] ELSE f[m]
        BY <2>1
      <4>3. QED
        BY <4>1, <4>2
    <3>3. QED
      BY <2>1, <3>1, <3>2
  <2>4. QED
    BY <2>2, <2>3
<1>7. Comparable(A, n, pp, q, ff, g)
  <2>1. \A k \in 1 .. n : Marked(pp[k]) /\ Marked(q[k]) /\ (pp[k] # <<>> => q[k] # <<>>)
    BY <1>2, <1>3, <1>5
  <2>2. \A k \in 1 .. n : ff[k] = ff[k - 1] \o pp[k] /\ g[k] = g[k - 1] \o q[k]
    BY <1>2, <1>4, <1>6
  <2>3. Starts(g[n], ff[n])
    BY <1>2, <1>4, <1>5
  <2> HIDE DEF pp, ff
  <2>4. /\ pp \in [1 .. n -> Seq(A)] /\ q \in [1 .. n -> Seq(A)]
        /\ ff \in [0 .. n -> Seq(A)] /\ g \in [0 .. n -> Seq(A)] /\ ff[0] = <<>> /\ g[0] = <<>>
    BY <1>2, <1>3, <1>4, <1>5
  <2>5. QED
    BY <1>2, <2>1, <2>2, <2>3, <2>4 DEF Comparable
<1>8. (\A k \in 1 .. m : pp[k] = p[k]) /\ (\A k \in m + 1 .. n : pp[k] = <<>>)
  <2>1. ASSUME NEW k \in 1 .. m PROVE pp[k] = p[k]
    <3>1. k \in 1 .. n /\ k <= m
      BY <1>2
    <3>2. QED
      BY <3>1
  <2>2. ASSUME NEW k \in m + 1 .. n PROVE pp[k] = <<>>
    <3>1. k \in 1 .. n /\ ~(k <= m)
      BY <1>2
    <3>2. QED
      BY <3>1
  <2>3. QED
    BY <2>1, <2>2
<1> HIDE DEF pp, ff
<1>9. Agree(n, pp, q)
  BY <1>7, SamePartsUpTo, Zenon
<1>10. (\A k \in 1 .. m : k \in 1 .. n) /\ \A k \in m + 1 .. n : k \in 1 .. n
  BY <1>2
<1>11. QED
  BY <1>8, <1>9, <1>10 DEF OnlyThese, Agree

MarkedParts(A, p, q) ==
  /\ p \in Seq(Seq(A)) /\ q \in Seq(Seq(A)) /\ Len(p) <= Len(q)
  /\ \A k \in 1 .. Len(p) : Marked(p[k]) /\ (p[k] # <<>> => q[k] # <<>>)
  /\ \A k \in 1 .. Len(q) : Marked(q[k])
  /\ FlattenSeq(p) = FlattenSeq(q)

LEMMA SameParts ==
  ASSUME NEW A, NEW p, NEW q, MarkedParts(A, p, q)
  PROVE  OnlyThese(Len(p), Len(q), p, q)
<1>0. p \in Seq(Seq(A)) /\ q \in Seq(Seq(A))
  BY DEF MarkedParts
<1>1. PICK f : Joins(f, p, A) /\ FlattenSeq(p) = f[Len(p)]
  BY <1>0, JoinedUp
<1>2. PICK g : Joins(g, q, A) /\ FlattenSeq(q) = g[Len(q)]
  BY <1>0, JoinedUp
<1>3. /\ Len(p) \in Nat /\ Len(q) \in Nat /\ Len(p) <= Len(q)
      /\ \A k \in 1 .. Len(p) : p[k] \in Seq(A) /\ Marked(p[k]) /\ (p[k] # <<>> => q[k] # <<>>)
      /\ \A k \in 1 .. Len(q) : q[k] \in Seq(A) /\ Marked(q[k])
      /\ q \in [1 .. Len(q) -> Seq(A)]
  BY <1>0 DEF MarkedParts
<1>4. /\ f \in [0 .. Len(p) -> Seq(A)] /\ f[0] = <<>>
      /\ \A k \in 1 .. Len(p) : f[k] = f[k - 1] \o p[k]
      /\ g \in [0 .. Len(q) -> Seq(A)] /\ g[0] = <<>>
      /\ \A k \in 1 .. Len(q) : g[k] = g[k - 1] \o q[k]
      /\ Starts(g[Len(q)], f[Len(p)])
  <2>1. f[Len(p)] = g[Len(q)] /\ f[Len(p)] \in Seq(A)
    <3>1. Len(p) \in 0 .. Len(p)
      BY <1>3
    <3>2. QED
      BY <1>1, <1>2, <3>1 DEF MarkedParts, Joins
  <2>2. \A s \in Seq(A) : Starts(s, s)
    BY DEF Starts
  <2>3. QED
    BY <1>1, <1>2, <2>1, <2>2 DEF Joins
<1>5. BothJoined(A, Len(p), Len(q), p, q, f, g)
  BY <1>3, <1>4 DEF BothJoined
<1>6. QED
  BY <1>5, SamePartsPadded, Zenon

-----------------------------------------------------------------------------
(* The key of a merged row.                                                *)

Normal(cell, c) ==
  LET kept == IF c.trim THEN Trimmed(cell) ELSE cell
  IN  IF c.sensitive THEN kept ELSE Lower(kept)

First(heading, column) == Min(ColumnsNamed(column, heading))

HasColumn(row, heading, column) ==
  ColumnsNamed(column, heading) # {} /\ First(heading, column) <= Len(row)

PartOf(row, heading, c, column) ==
  IF HasColumn(row, heading, column) THEN Append(Normal(row[First(heading, column)], c), "|") ELSE <<>>

PartsOf(row, heading, c) == [k \in DOMAIN c.keys |-> PartOf(row, heading, c, c.keys[k])]

LEMMA KeyOfParts ==
  ASSUME NEW row, NEW heading, NEW c
  PROVE  Key(row, heading, c) = FlattenSeq(PartsOf(row, heading, c))
BY DEF Key, PartsOf, PartOf, HasColumn, First, Normal

LEMMA TrimmedIn ==
  ASSUME NEW L, NEW cell \in Seq(L)
  PROVE  Trimmed(cell) \in Seq(L)
<1> DEFINE kept == {i \in DOMAIN cell : cell[i] \notin Blanks}
<1>1. CASE kept = {}
  <2>1. Trimmed(cell) = <<>> /\ <<>> \in Seq(L)
    BY <1>1 DEF Trimmed
  <2>2. QED
    BY <2>1
<1>2. CASE kept # {}
  <2>1. kept \in SUBSET Nat /\ Len(cell) \in Nat /\ \A i \in kept : i \in 1 .. Len(cell) /\ i <= Len(cell)
    OBVIOUS
  <2>2. Trimmed(cell) = SubSeq(cell, Min(kept), Max(kept))
    BY <1>2 DEF Trimmed
  <2> HIDE DEF kept
  <2>3. Min(kept) \in kept /\ Max(kept) \in kept
    BY <1>2, <2>1, MinThere, MaxThere
  <2>4. Min(kept) \in 1 .. Len(cell) /\ Max(kept) \in 1 .. Len(cell)
    BY <2>1, <2>3
  <2>5. \A x, y \in 1 .. Len(cell) : SubSeq(cell, x, y) \in Seq(L)
    OBVIOUS
  <2>6. QED
    BY <2>2, <2>4, <2>5
<1>3. QED
  BY <1>1, <1>2

LEMMA NormalIn ==
  ASSUME NEW L, NEW cell \in Seq(L), NEW c
  PROVE  Normal(cell, c) \in Seq(L \cup {"a"})
<1> DEFINE kept == IF c.trim THEN Trimmed(cell) ELSE cell
<1>1. kept \in Seq(L)
  BY TrimmedIn
<1>2. Normal(cell, c) = IF c.sensitive THEN kept ELSE Lower(kept)
  BY DEF Normal
<1> HIDE DEF kept
<1>3. kept \in Seq(L \cup {"a"})
  BY <1>1
<1>4. Lower(kept) \in Seq(L \cup {"a"})
  BY <1>1 DEF Lower
<1>5. QED
  BY <1>2, <1>3, <1>4

LEMMA FirstThere ==
  ASSUME NEW heading, DOMAIN heading \in SUBSET (Nat \ {0}), NEW column, ColumnsNamed(column, heading) # {}
  PROVE  First(heading, column) \in Nat \ {0}
<1>1. ColumnsNamed(column, heading) \in SUBSET Nat /\ 0 \notin ColumnsNamed(column, heading)
  BY DEF ColumnsNamed
<1>2. Min(ColumnsNamed(column, heading)) \in ColumnsNamed(column, heading)
  BY <1>1, MinThere
<1>3. QED
  BY <1>1, <1>2 DEF First

LEMMA PartThere ==
  ASSUME NEW L, NEW row \in Seq(Seq(L)), NEW heading, DOMAIN heading \in SUBSET (Nat \ {0}), NEW c, NEW column
  PROVE  /\ PartOf(row, heading, c, column) \in Seq(L \cup {"a", "|"})
         /\ "|" \notin L => Marked(PartOf(row, heading, c, column))
         /\ PartOf(row, heading, c, column) # <<>> <=> HasColumn(row, heading, column)
<1>1. CASE ~HasColumn(row, heading, column)
  <2>1. PartOf(row, heading, c, column) = <<>> /\ <<>> \in Seq(L \cup {"a", "|"})
    BY <1>1 DEF PartOf
  <2>2. QED
    BY <1>1, <2>1 DEF Marked
<1>2. CASE HasColumn(row, heading, column)
  <2> DEFINE cell == row[First(heading, column)]
             text == Normal(cell, c)
  <2>1. PartOf(row, heading, c, column) = Append(text, "|")
    BY <1>2 DEF PartOf
  <2>2. First(heading, column) \in 1 .. Len(row)
    <3>1. First(heading, column) \in Nat \ {0} /\ First(heading, column) <= Len(row)
      BY <1>2, FirstThere DEF HasColumn
    <3>2. QED
      BY <3>1
  <2>3. cell \in Seq(L)
    BY <2>2
  <2> HIDE DEF cell
  <2>4. text \in Seq(L \cup {"a"})
    BY <2>3, NormalIn
  <2> HIDE DEF text
  <2>5. text \in Seq(L \cup {"a", "|"}) /\ "|" \in L \cup {"a", "|"}
    BY <2>4
  <2>6. /\ Append(text, "|") \in Seq(L \cup {"a", "|"}) /\ Append(text, "|") # <<>>
        /\ Len(text) \in Nat /\ Len(Append(text, "|")) = Len(text) + 1
        /\ \A k \in 1 .. Len(text) : Append(text, "|")[k] = text[k]
        /\ Append(text, "|")[Len(text) + 1] = "|"
    BY <2>5, Appending
  <2>7. ASSUME "|" \notin L PROVE Marked(Append(text, "|"))
    <3>1. \A i \in 1 .. Len(text) : text[i] \in L \cup {"a"}
      BY <2>4
    <3>2. \A i \in 1 .. Len(text) : text[i] # "|"
      BY <2>7, <3>1
    <3>3. (Len(text) + 1) - 1 = Len(text)
      BY <2>6
    <3>4. QED
      BY <2>6, <3>2, <3>3 DEF Marked
  <2>8. QED
    BY <1>2, <2>1, <2>6, <2>7
<1>3. QED
  BY <1>1, <1>2

LEMMA OneToN ==
  ASSUME NEW n \in Nat, NEW S, NEW s \in [1 .. n -> S]
  PROVE  s \in Seq(S) /\ Len(s) = n
OBVIOUS

LEMMA SameSequence ==
  ASSUME NEW S, NEW x \in Seq(S), NEW y \in Seq(S), Len(x) = Len(y),
         \A j \in 1 .. Len(x) : x[j] = y[j]
  PROVE  x = y
OBVIOUS

KeyedAlike(L, old, new, heading, c) ==
  /\ "|" \notin L /\ old \in Seq(Seq(L)) /\ new \in Seq(Seq(L))
  /\ DOMAIN heading \in SUBSET (Nat \ {0}) /\ c.keys \in Seq(Range(c.keys))
  /\ Key(old, heading, c) = Key(new, heading, c)

PartsMeet(old, new, heading, c) ==
  \A k \in DOMAIN c.keys : PartOf(old, heading, c, c.keys[k]) = PartOf(new, heading, c, c.keys[k])

\* Rows of which the second is not shorter, with the same key.
LEMMA PartsAgree ==
  ASSUME NEW L, NEW old, NEW new, NEW heading, NEW c,
         KeyedAlike(L, old, new, heading, c), Len(old) <= Len(new)
  PROVE  PartsMeet(old, new, heading, c)
<1>0. /\ "|" \notin L /\ old \in Seq(Seq(L)) /\ new \in Seq(Seq(L))
      /\ DOMAIN heading \in SUBSET (Nat \ {0}) /\ c.keys \in Seq(Range(c.keys))
      /\ Key(old, heading, c) = Key(new, heading, c)
  BY DEF KeyedAlike
<1> DEFINE A == L \cup {"a", "|"}
           p == PartsOf(old, heading, c)
           q == PartsOf(new, heading, c)
<1>1. DOMAIN c.keys = 1 .. Len(c.keys) /\ Len(c.keys) \in Nat
  BY <1>0
<1>2. ASSUME NEW k \in DOMAIN c.keys
      PROVE  /\ p[k] = PartOf(old, heading, c, c.keys[k]) /\ q[k] = PartOf(new, heading, c, c.keys[k])
             /\ p[k] \in Seq(A) /\ q[k] \in Seq(A) /\ Marked(p[k]) /\ Marked(q[k])
             /\ p[k] # <<>> => q[k] # <<>>
  <2>1. p[k] = PartOf(old, heading, c, c.keys[k]) /\ q[k] = PartOf(new, heading, c, c.keys[k])
    BY DEF PartsOf
  <2>2. /\ PartOf(old, heading, c, c.keys[k]) \in Seq(A) /\ Marked(PartOf(old, heading, c, c.keys[k]))
        /\ PartOf(old, heading, c, c.keys[k]) # <<>> <=> HasColumn(old, heading, c.keys[k])
    BY <1>0, PartThere
  <2>3. /\ PartOf(new, heading, c, c.keys[k]) \in Seq(A) /\ Marked(PartOf(new, heading, c, c.keys[k]))
        /\ PartOf(new, heading, c, c.keys[k]) # <<>> <=> HasColumn(new, heading, c.keys[k])
    BY <1>0, PartThere
  <2>4. HasColumn(old, heading, c.keys[k]) => HasColumn(new, heading, c.keys[k])
    <3> SUFFICES ASSUME HasColumn(old, heading, c.keys[k]) PROVE HasColumn(new, heading, c.keys[k])
      OBVIOUS
    <3>1. ColumnsNamed(c.keys[k], heading) # {} /\ First(heading, c.keys[k]) <= Len(old)
      BY DEF HasColumn
    <3>2. First(heading, c.keys[k]) \in Nat /\ Len(old) \in Nat /\ Len(new) \in Nat
      BY <1>0, <3>1, FirstThere
    <3>3. QED
      BY <3>1, <3>2 DEF HasColumn
  <2> HIDE DEF A, p, q
  <2>5. QED
    BY <2>1, <2>2, <2>3, <2>4
<1>3. DOMAIN p = 1 .. Len(c.keys) /\ DOMAIN q = 1 .. Len(c.keys)
  BY <1>1 DEF PartsOf
<1>4. FlattenSeq(p) = FlattenSeq(q)
  BY <1>0, KeyOfParts
<1>5. p = [k \in 1 .. Len(c.keys) |-> p[k]] /\ q = [k \in 1 .. Len(c.keys) |-> q[k]]
  BY <1>1 DEF PartsOf
<1> HIDE DEF A, p, q
<1>6. p \in Seq(Seq(A)) /\ q \in Seq(Seq(A)) /\ Len(p) = Len(c.keys) /\ Len(q) = Len(c.keys)
  <2>1. \A k \in 1 .. Len(c.keys) : p[k] \in Seq(A) /\ q[k] \in Seq(A)
    BY <1>1, <1>2
  <2>2. p \in [1 .. Len(c.keys) -> Seq(A)] /\ q \in [1 .. Len(c.keys) -> Seq(A)]
    BY <1>5, <2>1
  <2>3. \A S, s : s \in [1 .. Len(c.keys) -> S] => s \in Seq(S) /\ Len(s) = Len(c.keys)
    BY <1>1, OneToN
  <2>4. QED
    BY <2>2, <2>3, Zenon
<1>7. MarkedParts(A, p, q)
  <2>1. Len(p) <= Len(q)
    BY <1>1, <1>6
  <2>2. QED
    BY <1>1, <1>2, <1>4, <1>6, <2>1 DEF MarkedParts
<1>8. OnlyThese(Len(p), Len(q), p, q)
  BY <1>7, SameParts, Zenon
<1>9. QED
  BY <1>1, <1>2, <1>6, <1>8 DEF OnlyThese, Agree, PartsMeet

MergedFrom(old, new, m, L) ==
  /\ m \in Seq(Seq(L)) /\ Len(m) \in {Len(old), Len(new)}
  /\ Len(old) <= Len(m) /\ Len(new) <= Len(m)
  /\ \A k \in 1 .. Len(m) :
       /\ (k <= Len(old) /\ m[k] = old[k]) \/ (k <= Len(new) /\ m[k] = new[k])
       /\ m[k] = <<>> => (k <= Len(old) => old[k] = <<>>) /\ (k <= Len(new) => new[k] = <<>>)

LEMMA MergedIs ==
  ASSUME NEW L, NEW old \in Seq(Seq(L)), NEW new \in Seq(Seq(L)), NEW m \in Merged(old, new)
  PROVE  MergedFrom(old, new, m, L)
<1> DEFINE width == Max({Len(old), Len(new)})
           Values(k) == {row[k] : row \in {r \in {old, new} : k <= Len(r)}} \ {<<>>}
<1>1. /\ width \in {Len(old), Len(new)} /\ Len(old) <= width /\ Len(new) <= width
      /\ Len(old) \in Nat /\ Len(new) \in Nat /\ width \in Nat
  <2>1. Len(old) \in Nat /\ Len(new) \in Nat
    OBVIOUS
  <2> DEFINE S == {Len(old), Len(new)}
  <2>2. S \in SUBSET Nat /\ S # {} /\ Len(old) + Len(new) \in Nat /\ \A x \in S : x <= Len(old) + Len(new)
    BY <2>1
  <2>3. Len(old) \in S /\ Len(new) \in S
    OBVIOUS
  <2> HIDE DEF S
  <2>4. Max(S) \in S /\ \A x \in S : x <= Max(S)
    BY <2>2, MaxThere
  <2>5. QED
    BY <2>1, <2>3, <2>4 DEF S
<1>2. /\ m \in [1 .. width -> UNION {Values(k) : k \in 1 .. width} \cup {<<>>}]
      /\ \A k \in 1 .. width : IF Values(k) = {} THEN m[k] = <<>> ELSE m[k] \in Values(k)
  BY DEF Merged
<1>3. ASSUME NEW k, NEW v
      PROVE  v \in Values(k) <=> v # <<>> /\ ((k <= Len(old) /\ v = old[k]) \/ (k <= Len(new) /\ v = new[k]))
  OBVIOUS
<1> HIDE DEF width, Values
<1>4. ASSUME NEW k \in 1 .. width
      PROVE  /\ (k <= Len(old) /\ m[k] = old[k]) \/ (k <= Len(new) /\ m[k] = new[k])
             /\ m[k] = <<>> => (k <= Len(old) => old[k] = <<>>) /\ (k <= Len(new) => new[k] = <<>>)
  <2>1. k <= Len(old) \/ k <= Len(new)
    BY <1>1
  <2>2. CASE Values(k) = {}
    <3>1. m[k] = <<>>
      BY <1>2, <2>2
    <3>2. (k <= Len(old) => old[k] = <<>>) /\ (k <= Len(new) => new[k] = <<>>)
      BY <1>3, <2>2
    <3>3. QED
      BY <2>1, <3>1, <3>2
  <2>3. CASE Values(k) # {}
    <3>1. m[k] \in Values(k)
      BY <1>2, <2>3
    <3>2. QED
      BY <1>3, <3>1
  <2>4. QED
    BY <2>2, <2>3
<1>5. ASSUME NEW k \in 1 .. width PROVE m[k] \in Seq(L)
  <2>1. (k <= Len(old) => old[k] \in Seq(L)) /\ (k <= Len(new) => new[k] \in Seq(L))
    BY <1>1
  <2>2. QED
    BY <1>4, <2>1
<1>6. m \in [1 .. width -> Seq(L)]
  BY <1>2, <1>5
<1>7. m \in Seq(Seq(L)) /\ Len(m) = width
  BY <1>1, <1>6, OneToN
<1>8. QED
  BY <1>1, <1>4, <1>7 DEF MergedFrom

\* A merged row stands under the key of the rows it is made of.
LEMMA MergedKey ==
  ASSUME NEW L, "|" \notin L, NEW old \in Seq(Seq(L)), NEW new \in Seq(Seq(L)),
         NEW heading, DOMAIN heading \in SUBSET (Nat \ {0}),
         NEW c, c.keys \in Seq(Range(c.keys)),
         Key(old, heading, c) = Key(new, heading, c),
         NEW m \in Merged(old, new)
  PROVE  Key(m, heading, c) = Key(old, heading, c)
<1>1. MergedFrom(old, new, m, L)
  BY MergedIs
<1>2. /\ m \in Seq(Seq(L)) /\ Len(m) \in {Len(old), Len(new)}
      /\ Len(old) <= Len(m) /\ Len(new) <= Len(m)
      /\ \A k \in 1 .. Len(m) :
          /\ (k <= Len(old) /\ m[k] = old[k]) \/ (k <= Len(new) /\ m[k] = new[k])
          /\ m[k] = <<>> => (k <= Len(old) => old[k] = <<>>) /\ (k <= Len(new) => new[k] = <<>>)
  BY <1>1 DEF MergedFrom
<1>3. Len(old) \in Nat /\ Len(new) \in Nat /\ Len(m) \in Nat
  BY <1>2
<1>4. PartsMeet(old, new, heading, c)
  <2>1. KeyedAlike(L, old, new, heading, c) /\ KeyedAlike(L, new, old, heading, c)
    BY DEF KeyedAlike
  <2>2. CASE Len(old) <= Len(new)
    BY <2>1, <2>2, PartsAgree, Zenon
  <2>3. CASE Len(new) <= Len(old)
    <3>1. PartsMeet(new, old, heading, c)
      BY <2>1, <2>3, PartsAgree, Zenon
    <3>2. QED
      BY <3>1 DEF PartsMeet
  <2>4. QED
    BY <1>3, <2>2, <2>3
<1>5. ASSUME NEW k \in DOMAIN c.keys
      PROVE  PartOf(m, heading, c, c.keys[k]) = PartOf(old, heading, c, c.keys[k])
  <2> DEFINE column == c.keys[k]
             first == First(heading, column)
  <2>1. HasColumn(old, heading, column) <=> HasColumn(new, heading, column)
    BY <1>4, PartThere DEF PartsMeet
  <2>2. CASE ~HasColumn(old, heading, column)
    <3>1. ~HasColumn(m, heading, column)
      BY <1>2, <2>1, <2>2 DEF HasColumn
    <3>2. QED
      BY <2>2, <3>1 DEF PartOf
  <2>3. CASE HasColumn(old, heading, column)
    <3>1. first \in Nat \ {0}
      BY <2>3, FirstThere DEF HasColumn
    <3>2. ColumnsNamed(column, heading) # {} /\ first <= Len(old) /\ first <= Len(new)
      BY <2>1, <2>3 DEF HasColumn
    <3>3. first \in 1 .. Len(m) /\ HasColumn(m, heading, column)
      BY <1>2, <1>3, <3>1, <3>2 DEF HasColumn
    <3>4. m[first] = old[first] \/ m[first] = new[first]
      BY <1>2, <3>3
    <3>5. PartOf(m, heading, c, column) = Append(Normal(m[first], c), "|")
      BY <3>3 DEF PartOf
    <3>6. PartOf(old, heading, c, column) = Append(Normal(old[first], c), "|")
      BY <2>3 DEF PartOf
    <3>7. PartOf(new, heading, c, column) = Append(Normal(new[first], c), "|")
      BY <2>1, <2>3 DEF PartOf
    <3>8. PartOf(old, heading, c, column) = PartOf(new, heading, c, column)
      BY <1>4 DEF PartsMeet
    <3> HIDE DEF first, column
    <3>9. PartOf(m, heading, c, column) = PartOf(old, heading, c, column)
      BY <3>4, <3>5, <3>6, <3>7, <3>8
    <3>10. QED
      BY <3>9 DEF column
  <2>4. QED
    BY <2>2, <2>3
<1>6. PartsOf(m, heading, c) = PartsOf(old, heading, c)
  BY <1>5 DEF PartsOf
<1>7. QED
  BY <1>6, KeyOfParts

\* What the hash of a row is made of.
HashOf(row) == FlattenSeq([i \in DOMAIN row |-> Append(row[i], "|")])

LEMMA Marking ==
  ASSUME NEW A, "|" \in A, NEW cell \in Seq(A), \A j \in 1 .. Len(cell) : cell[j] # "|"
  PROVE  Append(cell, "|") \in Seq(A) /\ Append(cell, "|") # <<>> /\ Marked(Append(cell, "|"))
<1> DEFINE mark == "|"
<1>1. mark \in A
  OBVIOUS
<1> HIDE DEF mark
<1>2. /\ Append(cell, mark) \in Seq(A) /\ Append(cell, mark) # <<>>
      /\ Len(cell) \in Nat /\ Len(Append(cell, mark)) = Len(cell) + 1
      /\ \A j \in 1 .. Len(cell) : Append(cell, mark)[j] = cell[j]
      /\ Append(cell, mark)[Len(cell) + 1] = mark
  BY <1>1, Appending
<1>3. (Len(cell) + 1) - 1 = Len(cell)
  BY <1>2
<1>4. Marked(Append(cell, mark))
  BY <1>2, <1>3 DEF Marked, mark
<1>5. QED
  BY <1>2, <1>4 DEF mark

LEMMA HashIsRow ==
  ASSUME NEW L, "|" \notin L, NEW row1 \in Seq(Seq(L)), NEW row2 \in Seq(Seq(L)),
         HashOf(row1) = HashOf(row2)
  PROVE  row1 = row2
<1> DEFINE A == L \cup {"|"}
           WithMarks(row) == [i \in DOMAIN row |-> Append(row[i], "|")]
<1>1. ASSUME NEW row \in Seq(Seq(L))
      PROVE  /\ DOMAIN row = 1 .. Len(row) /\ Len(row) \in Nat
             /\ WithMarks(row) \in Seq(Seq(A)) /\ Len(WithMarks(row)) = Len(row)
             /\ \A k \in 1 .. Len(row) : /\ WithMarks(row)[k] = Append(row[k], "|") /\ row[k] \in Seq(A)
                                         /\ Marked(WithMarks(row)[k]) /\ WithMarks(row)[k] # <<>>
  <2>1. DOMAIN row = 1 .. Len(row) /\ Len(row) \in Nat
    OBVIOUS
  <2>2. ASSUME NEW k \in 1 .. Len(row)
        PROVE  /\ WithMarks(row)[k] = Append(row[k], "|") /\ row[k] \in Seq(A) /\ Append(row[k], "|") \in Seq(A)
               /\ Marked(Append(row[k], "|")) /\ Append(row[k], "|") # <<>>
    <3>1. row[k] \in Seq(L) /\ row[k] \in Seq(A) /\ "|" \in A
      BY <2>1
    <3>2. WithMarks(row)[k] = Append(row[k], "|")
      BY <2>1
    <3>3. \A j \in 1 .. Len(row[k]) : row[k][j] # "|"
      BY <3>1
    <3> HIDE DEF A
    <3>4. /\ Append(row[k], "|") \in Seq(A) /\ Append(row[k], "|") # <<>>
          /\ Marked(Append(row[k], "|"))
      BY <3>1, <3>3, Marking, Zenon
    <3>5. QED
      BY <3>1, <3>2, <3>4
  <2>3. WithMarks(row) = [k \in 1 .. Len(row) |-> Append(row[k], "|")]
    BY <2>1
  <2> HIDE DEF A, WithMarks
  <2>4. WithMarks(row) \in [1 .. Len(row) -> Seq(A)]
    BY <2>2, <2>3
  <2>5. WithMarks(row) \in Seq(Seq(A)) /\ Len(WithMarks(row)) = Len(row)
    BY <2>1, <2>4, OneToN
  <2>6. QED
    BY <2>1, <2>2, <2>5
<1>2. FlattenSeq(WithMarks(row1)) = FlattenSeq(WithMarks(row2))
  BY DEF HashOf
<1> HIDE DEF A, WithMarks
<1>3. ASSUME NEW r \in Seq(Seq(L)), NEW s \in Seq(Seq(L)), Len(r) <= Len(s),
             FlattenSeq(WithMarks(r)) = FlattenSeq(WithMarks(s))
      PROVE  r = s
  <2>1. /\ Len(r) \in Nat /\ Len(s) \in Nat
        /\ WithMarks(r) \in Seq(Seq(A)) /\ Len(WithMarks(r)) = Len(r)
        /\ WithMarks(s) \in Seq(Seq(A)) /\ Len(WithMarks(s)) = Len(s)
    BY <1>1
  <2>2. /\ \A k \in 1 .. Len(r) : /\ WithMarks(r)[k] = Append(r[k], "|") /\ r[k] \in Seq(A)
                                  /\ Marked(WithMarks(r)[k]) /\ WithMarks(r)[k] # <<>>
        /\ \A k \in 1 .. Len(s) : /\ WithMarks(s)[k] = Append(s[k], "|") /\ s[k] \in Seq(A)
                                  /\ Marked(WithMarks(s)[k]) /\ WithMarks(s)[k] # <<>>
    BY <1>1
  <2>3. \A k \in 1 .. Len(r) : k \in 1 .. Len(s)
    BY <1>3, <2>1
  <2>4. MarkedParts(A, WithMarks(r), WithMarks(s))
    BY <1>3, <2>1, <2>2, <2>3 DEF MarkedParts
  <2>5. OnlyThese(Len(WithMarks(r)), Len(WithMarks(s)), WithMarks(r), WithMarks(s))
    BY <2>4, SameParts, Zenon
  <2>6. /\ \A k \in 1 .. Len(r) : WithMarks(r)[k] = WithMarks(s)[k]
        /\ \A k \in Len(r) + 1 .. Len(s) : WithMarks(s)[k] = <<>>
    BY <2>1, <2>5 DEF OnlyThese, Agree
  <2>7. Len(r) = Len(s)
    <3> SUFFICES ASSUME Len(r) # Len(s) PROVE FALSE
      OBVIOUS
    <3>1. Len(s) \in Len(r) + 1 .. Len(s) /\ Len(s) \in 1 .. Len(s)
      BY <1>3, <2>1
    <3>2. QED
      BY <2>2, <2>6, <3>1
  <2>8. ASSUME NEW k \in 1 .. Len(r) PROVE r[k] = s[k]
    <3>1. Append(r[k], "|") = Append(s[k], "|") /\ r[k] \in Seq(A) /\ s[k] \in Seq(A)
      BY <2>2, <2>3, <2>6
    <3>2. "|" \in A
      BY DEF A
    <3>3. \A x, y \in Seq(A) : Append(x, "|") = Append(y, "|") => x = y
      <4> SUFFICES ASSUME NEW x \in Seq(A), NEW y \in Seq(A), Append(x, "|") = Append(y, "|")
                   PROVE  x = y
        OBVIOUS
      <4>1. /\ Len(x) \in Nat /\ Len(y) \in Nat
            /\ Len(Append(x, "|")) = Len(x) + 1 /\ Len(Append(y, "|")) = Len(y) + 1
            /\ \A j \in 1 .. Len(x) : Append(x, "|")[j] = x[j]
            /\ \A j \in 1 .. Len(y) : Append(y, "|")[j] = y[j]
        BY <3>2, Appending
      <4>2. Len(x) = Len(y)
        BY <4>1
      <4>3. \A j \in 1 .. Len(x) : x[j] = y[j]
        BY <4>1, <4>2
      <4>4. QED
        BY <4>2, <4>3, SameSequence
    <3>4. QED
      BY <3>1, <3>3
  <2>9. QED
    BY <2>7, <2>8, SameSequence
<1>4. Len(row1) \in Nat /\ Len(row2) \in Nat
  OBVIOUS
<1>5. QED
  BY <1>2, <1>3, <1>4

-----------------------------------------------------------------------------
(* Rows that are the same row.                                             *)

HasKey(row, h, c) == c.rule # "none" /\ Key(row, h, c) # <<>>

Alike(row1, row2, h, c) ==
  row1 = row2 \/ (HasKey(row1, h, c) /\ Key(row1, h, c) = Key(row2, h, c) /\ AreDuplicates(row1, row2, h, c))

LEMMA DuplicatesAre ==
  ASSUME NEW row1, NEW row2, NEW h, NEW c, c.rule # "fuzzy"
  PROVE  AreDuplicates(row1, row2, h, c) <=>
           \/ c.rule = "exact" /\ row1 = row2
           \/ c.rule = "key" /\ Key(row1, h, c) # <<>> /\ Key(row1, h, c) = Key(row2, h, c)
           \/ c.rule = "hash" /\ HashOf(row1) = HashOf(row2)
BY DEF AreDuplicates, HashOf

LEMMA AlikeBack ==
  ASSUME NEW row1, NEW row2, NEW h, NEW c, c.rule # "fuzzy", Alike(row1, row2, h, c)
  PROVE  Alike(row2, row1, h, c)
BY DuplicatesAre DEF Alike, HasKey

LEMMA AlikeOn ==
  ASSUME NEW row1, NEW row2, NEW row3, NEW h, NEW c, c.rule # "fuzzy",
         Alike(row1, row2, h, c), Alike(row2, row3, h, c)
  PROVE  Alike(row1, row3, h, c)
BY DuplicatesAre DEF Alike, HasKey

LEMMA AlikeKeys ==
  ASSUME NEW row1, NEW row2, NEW h, NEW c, Alike(row1, row2, h, c)
  PROVE  Key(row1, h, c) = Key(row2, h, c) /\ (HasKey(row1, h, c) <=> HasKey(row2, h, c))
BY DEF Alike, HasKey

Plain(c, L) == c.keep = "merge" => "|" \notin L

SameKey(L, old, new, h, c) ==
  /\ old \in Seq(Seq(L)) /\ new \in Seq(Seq(L))
  /\ DOMAIN h \in SUBSET (Nat \ {0}) /\ c.keys \in Seq(Range(c.keys)) /\ Plain(c, L)
  /\ Key(old, h, c) = Key(new, h, c)

\* What is kept of two rows under one key is under that key.
LEMMA KeptKey ==
  ASSUME NEW L, NEW old, NEW new, NEW h, NEW c, SameKey(L, old, new, h, c),
         NEW kept, kept \in Resolved(old, new, c)
  PROVE  kept \in Seq(Seq(L)) /\ Key(kept, h, c) = Key(old, h, c)
<1>0. /\ old \in Seq(Seq(L)) /\ new \in Seq(Seq(L))
      /\ DOMAIN h \in SUBSET (Nat \ {0}) /\ c.keys \in Seq(Range(c.keys)) /\ Plain(c, L)
      /\ Key(old, h, c) = Key(new, h, c)
  BY DEF SameKey
<1>1. CASE c.keep = "merge"
  <2>1. kept \in Merged(old, new) /\ "|" \notin L
    BY <1>0, <1>1 DEF Resolved, Plain
  <2>2. MergedFrom(old, new, kept, L)
    BY <1>0, <2>1, MergedIs
  <2>3. Key(kept, h, c) = Key(old, h, c)
    BY <1>0, <2>1, MergedKey
  <2>4. QED
    BY <2>2, <2>3 DEF MergedFrom
<1>2. CASE c.keep # "merge"
  <2>1. kept \in {old, new}
    BY <1>2 DEF Resolved
  <2>2. QED
    BY <1>0, <2>1
<1>3. QED
  BY <1>1, <1>2

LEMMA MergedSelf ==
  ASSUME NEW L, NEW row \in Seq(Seq(L)), NEW m \in Merged(row, row)
  PROVE  m = row
<1>1. MergedFrom(row, row, m, L)
  BY MergedIs
<1>2. m \in Seq(Seq(L)) /\ Len(m) = Len(row) /\ \A k \in 1 .. Len(m) : m[k] = row[k]
  BY <1>1 DEF MergedFrom
<1> DEFINE S == Seq(L)
<1>3. m \in Seq(S) /\ row \in Seq(S)
  BY <1>2
<1> HIDE DEF S
<1>4. QED
  BY <1>2, <1>3, SameSequence

LEMMA KeptAlike ==
  ASSUME NEW L, NEW old \in Seq(Seq(L)), NEW new \in Seq(Seq(L)),
         NEW h, DOMAIN h \in SUBSET (Nat \ {0}),
         NEW c, c.keys \in Seq(Range(c.keys)), Plain(c, L), c.rule # "fuzzy",
         Alike(old, new, h, c), NEW kept \in Resolved(old, new, c)
  PROVE  Alike(old, kept, h, c)
<1>1. Key(old, h, c) = Key(new, h, c)
  BY AlikeKeys
<1>2. CASE c.keep # "merge"
  <2>1. kept \in {old, new}
    BY <1>2 DEF Resolved
  <2>2. QED
    BY <2>1 DEF Alike
<1>3. CASE c.keep = "merge"
  <2>1. kept \in Merged(old, new) /\ "|" \notin L
    BY <1>3 DEF Resolved, Plain
  <2>2. CASE old = new
    <3>1. kept = old
      BY <2>1, <2>2, MergedSelf
    <3>2. QED
      BY <3>1 DEF Alike
  <2>3. CASE old # new
    <3>1. HasKey(old, h, c) /\ AreDuplicates(old, new, h, c)
      BY <2>3 DEF Alike
    <3>2. c.rule # "hash"
      <4> SUFFICES ASSUME c.rule = "hash" PROVE FALSE
        OBVIOUS
      <4>1. HashOf(old) = HashOf(new)
        BY <3>1, DuplicatesAre
      <4>2. QED
        BY <2>1, <2>3, <4>1, HashIsRow
    <3>3. c.rule = "key"
      BY <2>3, <3>1, <3>2, DuplicatesAre
    <3>4. Key(kept, h, c) = Key(old, h, c)
      BY <1>1, <2>1, MergedKey
    <3>5. Key(old, h, c) # <<>>
      BY <3>1 DEF HasKey
    <3>6. AreDuplicates(old, kept, h, c)
      BY <3>3, <3>4, <3>5, DuplicatesAre
    <3>7. QED
      BY <3>1, <3>4, <3>6 DEF Alike
  <2>4. QED
    BY <2>2, <2>3
<1>4. QED
  BY <1>2, <1>3

-----------------------------------------------------------------------------
(* The index of the rows.                                                  *)

IndexFits(rows, index, h, c) ==
  c.rule # "none" =>
    /\ <<>> \notin DOMAIN index
    /\ \A k \in DOMAIN index : index[k] = {i \in DOMAIN rows : Key(rows[i], h, c) = k}
    /\ \A i \in DOMAIN rows : Key(rows[i], h, c) # <<>> => Key(rows[i], h, c) \in DOMAIN index

LEMMA IndexKept ==
  ASSUME NEW rows, NEW index, NEW h, NEW c, IndexFits(rows, index, h, c),
         NEW i \in DOMAIN rows, NEW kept, Key(kept, h, c) = Key(rows[i], h, c)
  PROVE  IndexFits([rows EXCEPT ![i] = kept], index, h, c)
<1> DEFINE then == [rows EXCEPT ![i] = kept]
<1>1. DOMAIN then = DOMAIN rows /\ \A j \in DOMAIN rows : Key(then[j], h, c) = Key(rows[j], h, c)
  OBVIOUS
<1> HIDE DEF then
<1>2. IndexFits(then, index, h, c)
  <2>1. \A k : {j \in DOMAIN then : Key(then[j], h, c) = k} = {j \in DOMAIN rows : Key(rows[j], h, c) = k}
    BY <1>1
  <2>2. QED
    BY <1>1, <2>1 DEF IndexFits
<1>3. QED
  BY <1>2 DEF then

\* The index with a row that is put at the end.
Entered(rows, index, row, h, c) ==
  IF HasKey(row, h, c)
  THEN [k \in DOMAIN index \cup {Key(row, h, c)} |->
         IF k = Key(row, h, c)
         THEN (IF Key(row, h, c) \in DOMAIN index THEN index[Key(row, h, c)] ELSE {}) \cup {Len(rows) + 1}
         ELSE index[k]]
  ELSE index

LEMMA IndexGrown ==
  ASSUME NEW S, NEW rows \in Seq(S), NEW index, NEW h, NEW c, IndexFits(rows, index, h, c),
         NEW row \in S
  PROVE  IndexFits(Append(rows, row), Entered(rows, index, row, h, c), h, c)
<1> DEFINE grown == Entered(rows, index, row, h, c)
           at == IF Key(row, h, c) \in DOMAIN index THEN index[Key(row, h, c)] ELSE {}
<1>0. grown = IF HasKey(row, h, c)
              THEN [k \in DOMAIN index \cup {Key(row, h, c)} |->
                     IF k = Key(row, h, c) THEN at \cup {Len(rows) + 1} ELSE index[k]]
              ELSE index
  BY DEF Entered
<1> HIDE DEF grown
<1> SUFFICES ASSUME c.rule # "none"
             PROVE  IndexFits(Append(rows, row), grown, h, c)
  BY DEF IndexFits, grown
<1> DEFINE then == Append(rows, row)
           n == Len(rows)
           Under(k) == {i \in DOMAIN rows : Key(rows[i], h, c) = k}
<1>1. /\ n \in Nat /\ DOMAIN rows = 1 .. n /\ DOMAIN then = 1 .. n + 1
      /\ \A i \in 1 .. n : then[i] = rows[i]
      /\ then[n + 1] = row
  BY Appending
<1>2. \A i : i \in DOMAIN then <=> i \in DOMAIN rows \/ i = n + 1
  BY <1>1
<1>3. /\ <<>> \notin DOMAIN index
      /\ \A k \in DOMAIN index : index[k] = Under(k)
      /\ \A i \in DOMAIN rows : Key(rows[i], h, c) # <<>> => Key(rows[i], h, c) \in DOMAIN index
  BY DEF IndexFits
<1> HIDE DEF then, n
<1>4. ASSUME NEW k
      PROVE  {i \in DOMAIN then : Key(then[i], h, c) = k}
               = Under(k) \cup (IF k = Key(row, h, c) THEN {n + 1} ELSE {})
  BY <1>1, <1>2
<1>5. CASE ~HasKey(row, h, c)
  <2>1. Key(row, h, c) = <<>> /\ grown = index
    BY <1>0, <1>5 DEF HasKey
  <2>2. ASSUME NEW k \in DOMAIN grown PROVE grown[k] = {i \in DOMAIN then : Key(then[i], h, c) = k}
    <3>1. k # Key(row, h, c)
      BY <1>3, <2>1
    <3>2. {i \in DOMAIN then : Key(then[i], h, c) = k} = Under(k)
      BY <1>4, <3>1
    <3>3. QED
      BY <1>3, <2>1, <3>2
  <2>3. ASSUME NEW i \in DOMAIN then, Key(then[i], h, c) # <<>> PROVE Key(then[i], h, c) \in DOMAIN grown
    BY <1>1, <1>2, <1>3, <2>1, <2>3
  <2> HIDE DEF Under
  <2>4. IndexFits(then, grown, h, c)
    BY <1>3, <2>1, <2>2, <2>3 DEF IndexFits
  <2>5. QED
    BY <2>4 DEF then
<1>6. CASE HasKey(row, h, c)
  <2> DEFINE key == Key(row, h, c)
  <2>1. /\ key # <<>>
        /\ grown = [k \in DOMAIN index \cup {key} |-> IF k = key THEN at \cup {n + 1} ELSE index[k]]
    BY <1>0, <1>6 DEF HasKey, n
  <2>2. at = Under(key)
    <3>1. CASE key \in DOMAIN index
      BY <1>3, <3>1
    <3>2. CASE key \notin DOMAIN index
      <4>1. \A i \in DOMAIN rows : Key(rows[i], h, c) # key
        BY <1>3, <2>1, <3>2
      <4>2. Under(key) = {}
        BY <4>1
      <4>3. QED
        BY <3>2, <4>2
    <3>3. QED
      BY <3>1, <3>2
  <2>3. ASSUME NEW k \in DOMAIN grown PROVE grown[k] = {i \in DOMAIN then : Key(then[i], h, c) = k}
    <3>1. CASE k = key
      <4>1. grown[k] = at \cup {n + 1}
        BY <2>1, <3>1
      <4> HIDE DEF Under
      <4>2. QED
        BY <1>4, <2>2, <3>1, <4>1
    <3>2. CASE k # key
      <4>1. k \in DOMAIN index /\ grown[k] = index[k]
        BY <2>1, <3>2
      <4>2. {i \in DOMAIN then : Key(then[i], h, c) = k} = Under(k)
        BY <1>4, <3>2
      <4>3. QED
        BY <1>3, <4>1, <4>2
    <3>3. QED
      BY <3>1, <3>2
  <2>4. ASSUME NEW i \in DOMAIN then, Key(then[i], h, c) # <<>> PROVE Key(then[i], h, c) \in DOMAIN grown
    <3>1. DOMAIN grown = DOMAIN index \cup {key}
      BY <2>1
    <3>2. CASE i = n + 1
      BY <1>1, <3>1, <3>2
    <3>3. CASE i # n + 1
      <4>1. i \in DOMAIN rows /\ then[i] = rows[i]
        BY <1>1, <1>2, <3>3
      <4>2. QED
        BY <1>3, <2>4, <3>1, <4>1
    <3>4. QED
      BY <3>2, <3>3
  <2>5. <<>> \notin DOMAIN grown
    BY <1>3, <2>1
  <2> HIDE DEF Under, key
  <2>6. IndexFits(then, grown, h, c)
    BY <2>3, <2>4, <2>5 DEF IndexFits
  <2>7. QED
    BY <2>6 DEF then
<1>7. QED
  BY <1>5, <1>6

-----------------------------------------------------------------------------
(* The result, row by row.                                                 *)

LEMMA PlacesSame ==
  ASSUME NEW set, NEW other, NEW n \in Nat, \A i \in 1 .. n : i \in set <=> i \in other
  PROVE  Places(set, n) = Places(other, n)
<1> DEFINE Equal == {k \in Nat : k <= n => Places(set, k) = Places(other, k)}
<1>1. 0 \in Equal
  BY PlacesStep
<1>2. ASSUME NEW k \in Nat, k \in Equal PROVE k + 1 \in Equal
  <2> SUFFICES ASSUME k + 1 <= n PROVE Places(set, k + 1) = Places(other, k + 1)
    OBVIOUS
  <2>1. k <= n /\ k + 1 \in 1 .. n
    OBVIOUS
  <2>2. Places(set, k) = Places(other, k)
    BY <1>2, <2>1
  <2>3. QED
    BY <2>1, <2>2, PlacesStep
<1> HIDE DEF Equal
<1>3. n \in Equal
  BY <1>1, <1>2, Induction
<1>4. QED
  BY <1>3 DEF Equal

Firsts(s, h, c) ==
  {i \in DOMAIN s : ~HasKey(s[i], h, c) \/ \A j \in 1 .. i - 1 : ~Alike(s[j], s[i], h, c)}

BegunOf(s, h, c) == Places(Firsts(s, h, c), Len(s))

ClassOf(i, s, h, c) ==
  IF HasKey(s[i], h, c) THEN {j \in i .. Len(s) : Alike(s[i], s[j], h, c)} ELSE {i}

LEMMA BegunGrows ==
  ASSUME NEW S, NEW s \in Seq(S), NEW row \in S, NEW h, NEW c
  PROVE  BegunOf(Append(s, row), h, c) =
           IF ~HasKey(row, h, c) \/ \A j \in 1 .. Len(s) : ~Alike(s[j], row, h, c)
           THEN Append(BegunOf(s, h, c), Len(s) + 1) ELSE BegunOf(s, h, c)
<1> DEFINE then == Append(s, row)
           n == Len(s)
<1>1. /\ n \in Nat /\ Len(then) = n + 1 /\ DOMAIN s = 1 .. n /\ DOMAIN then = 1 .. n + 1
      /\ \A i \in 1 .. n : then[i] = s[i]
      /\ then[n + 1] = row
  BY Appending
<1> HIDE DEF then, n
<1>2. ASSUME NEW i \in 1 .. n PROVE i \in Firsts(then, h, c) <=> i \in Firsts(s, h, c)
  <2>1. i \in DOMAIN then /\ i \in DOMAIN s /\ then[i] = s[i]
    BY <1>1
  <2>2. \A j \in 1 .. i - 1 : then[j] = s[j]
    BY <1>1
  <2>3. QED
    BY <2>1, <2>2 DEF Firsts
<1>3. n + 1 \in Firsts(then, h, c) <=> ~HasKey(row, h, c) \/ \A j \in 1 .. n : ~Alike(s[j], row, h, c)
  <2>1. n + 1 \in DOMAIN then /\ (n + 1) - 1 = n
    BY <1>1
  <2>2. QED
    BY <1>1, <2>1 DEF Firsts
<1>4. Places(Firsts(then, h, c), n) = Places(Firsts(s, h, c), n)
  BY <1>1, <1>2, PlacesSame
<1>5. Places(Firsts(then, h, c), n + 1) = IF n + 1 \in Firsts(then, h, c)
                                          THEN Append(Places(Firsts(then, h, c), n), n + 1)
                                          ELSE Places(Firsts(then, h, c), n)
  BY <1>1, PlacesStep
<1>6. BegunOf(then, h, c) = Places(Firsts(then, h, c), n + 1) /\ BegunOf(s, h, c) = Places(Firsts(s, h, c), n)
  BY <1>1 DEF BegunOf, n
<1>7. BegunOf(then, h, c) = IF ~HasKey(row, h, c) \/ \A j \in 1 .. n : ~Alike(s[j], row, h, c)
                            THEN Append(BegunOf(s, h, c), n + 1) ELSE BegunOf(s, h, c)
  BY <1>3, <1>4, <1>5, <1>6
<1>8. QED
  BY <1>7 DEF then, n

\* A row more joins the classes it is like.
ClassesGrow(s, row, h, c) ==
  /\ \A b \in 1 .. Len(s) :
       /\ ClassOf(b, s, h, c) \in SUBSET (1 .. Len(s)) /\ b \in ClassOf(b, s, h, c)
       /\ ClassOf(b, Append(s, row), h, c) =
            IF HasKey(s[b], h, c) /\ Alike(s[b], row, h, c)
            THEN ClassOf(b, s, h, c) \cup {Len(s) + 1} ELSE ClassOf(b, s, h, c)
  /\ ClassOf(Len(s) + 1, Append(s, row), h, c) = {Len(s) + 1}

LEMMA ClassGrows ==
  ASSUME NEW S, NEW s \in Seq(S), NEW row \in S, NEW h, NEW c
  PROVE  ClassesGrow(s, row, h, c)
<1> DEFINE then == Append(s, row)
           n == Len(s)
<1>1. /\ n \in Nat /\ Len(then) = n + 1 /\ DOMAIN s = 1 .. n /\ DOMAIN then = 1 .. n + 1
      /\ \A i \in 1 .. n : then[i] = s[i]
      /\ then[n + 1] = row
  BY Appending
<1> HIDE DEF then, n
<1>2. ASSUME NEW b \in 1 .. n
      PROVE  /\ ClassOf(b, s, h, c) \in SUBSET (1 .. n) /\ b \in ClassOf(b, s, h, c)
             /\ ClassOf(b, then, h, c) = IF HasKey(s[b], h, c) /\ Alike(s[b], row, h, c)
                                         THEN ClassOf(b, s, h, c) \cup {n + 1} ELSE ClassOf(b, s, h, c)
  <2>1. then[b] = s[b] /\ Len(s) = n /\ b \in b .. n
    BY <1>1 DEF n
  <2>2. CASE ~HasKey(s[b], h, c)
    BY <2>1, <2>2 DEF ClassOf
  <2>3. CASE HasKey(s[b], h, c)
    <3>1. ClassOf(b, s, h, c) = {j \in b .. n : Alike(s[b], s[j], h, c)}
      BY <2>1, <2>3 DEF ClassOf
    <3>2. ClassOf(b, then, h, c) = {j \in b .. n + 1 : Alike(s[b], then[j], h, c)}
      BY <1>1, <2>1, <2>3 DEF ClassOf
    <3>3. \A j : j \in b .. n + 1 <=> j \in b .. n \/ j = n + 1
      BY <1>1
    <3>4. \A j \in b .. n : j \in 1 .. n /\ then[j] = s[j]
      BY <1>1
    <3>5. Alike(s[b], s[b], h, c)
      BY DEF Alike
    <3>6. ClassOf(b, then, h, c) = IF Alike(s[b], row, h, c) THEN ClassOf(b, s, h, c) \cup {n + 1}
                                   ELSE ClassOf(b, s, h, c)
      BY <1>1, <3>1, <3>2, <3>3, <3>4
    <3>7. QED
      BY <2>1, <2>3, <3>1, <3>4, <3>5, <3>6
  <2>4. QED
    BY <2>2, <2>3
<1>3. ClassOf(n + 1, then, h, c) = {n + 1}
  <2>1. n + 1 .. n + 1 = {n + 1}
    BY <1>1
  <2>2. Alike(then[n + 1], then[n + 1], h, c)
    BY DEF Alike
  <2>3. QED
    BY <1>1, <2>1, <2>2 DEF ClassOf
<1>4. QED
  BY <1>2, <1>3 DEF then, n, ClassesGrow

\* The cell of a merged row, of those in its column.
CellOf(cell, cells) == cell \in (IF cells = {<<>>} THEN cells ELSE cells \ {<<>>})

CellsIn(col, s, J) == {s[j][col] : j \in {i \in J : col <= Len(s[i])}}

MadeOf(r, s, J) ==
  /\ \A j \in J : Len(s[j]) <= Len(r)
  /\ \A col \in DOMAIN r : CellOf(r[col], CellsIn(col, s, J))

\* A row of the result is the one the configuration asks for.
Holds(r, s, b, J, c) ==
  /\ c.keep = "merge" => MadeOf(r, s, J)
  /\ c.keep \in {"last", "newest"} => r = s[Max(J)]
  /\ c.keep \notin {"merge", "last", "newest"} => r = s[b]

LEMMA CellKept ==
  ASSUME NEW cell, NEW cells, CellOf(cell, cells), NEW new, NEW kept \in {cell, new},
         kept = <<>> => cell = <<>> /\ new = <<>>
  PROVE  CellOf(kept, cells \cup {new})
BY DEF CellOf

LEMMA MadeKept ==
  ASSUME NEW L, NEW s \in Seq(Seq(Seq(L))), NEW row \in Seq(Seq(L)),
         NEW r \in Seq(Seq(L)), NEW J \in SUBSET (1 .. Len(s)), MadeOf(r, s, J),
         NEW m \in Merged(r, row)
  PROVE  MadeOf(m, Append(s, row), J \cup {Len(s) + 1})
<1> DEFINE then == Append(s, row)
           n == Len(s)
<1>1. /\ n \in Nat
      /\ \A i \in 1 .. n : then[i] = s[i]
      /\ then[n + 1] = row
  BY Appending
<1>2. MergedFrom(r, row, m, L)
  BY MergedIs
<1>3. /\ DOMAIN m = 1 .. Len(m) /\ Len(r) <= Len(m) /\ Len(row) <= Len(m)
      /\ \A k \in 1 .. Len(m) :
           /\ (k <= Len(r) /\ m[k] = r[k]) \/ (k <= Len(row) /\ m[k] = row[k])
           /\ m[k] = <<>> => (k <= Len(r) => r[k] = <<>>) /\ (k <= Len(row) => row[k] = <<>>)
  <2>1. m \in Seq(Seq(L))
    BY <1>2 DEF MergedFrom
  <2>2. DOMAIN m = 1 .. Len(m)
    BY <2>1
  <2>3. QED
    BY <1>2, <2>2 DEF MergedFrom
<1>4. /\ DOMAIN r = 1 .. Len(r) /\ Len(r) \in Nat /\ Len(row) \in Nat /\ Len(m) \in Nat
      /\ \A j \in J : j \in 1 .. n /\ Len(s[j]) \in Nat /\ Len(s[j]) <= Len(r)
      /\ \A col \in 1 .. Len(r) : CellOf(r[col], CellsIn(col, s, J))
  <2>1. DOMAIN r = 1 .. Len(r) /\ Len(r) \in Nat /\ Len(row) \in Nat
    OBVIOUS
  <2>2. Len(m) \in Nat
    BY <1>2 DEF MergedFrom
  <2>3. \A j \in J : s[j] \in Seq(Seq(L))
    BY <1>1
  <2>4. \A x \in Seq(Seq(L)) : Len(x) \in Nat
    OBVIOUS
  <2>5. QED
    BY <2>1, <2>2, <2>3, <2>4 DEF MadeOf
<1> HIDE DEF then, n
<1>5. ASSUME NEW j \in J \cup {n + 1} PROVE Len(then[j]) <= Len(m)
  <2>1. CASE j = n + 1
    BY <1>1, <1>3, <2>1
  <2>2. CASE j \in J
    <3>1. then[j] = s[j] /\ Len(s[j]) \in Nat /\ Len(s[j]) <= Len(r)
      BY <1>1, <1>4, <2>2
    <3>2. QED
      BY <1>3, <1>4, <3>1
  <2>3. QED
    BY <2>1, <2>2
<1>6. ASSUME NEW col
      PROVE  CellsIn(col, then, J \cup {n + 1})
               = CellsIn(col, s, J) \cup (IF col <= Len(row) THEN {row[col]} ELSE {})
  <2>1. \A j \in J : then[j] = s[j]
    BY <1>1, <1>4
  <2>2. ASSUME NEW v
        PROVE  v \in CellsIn(col, then, J \cup {n + 1})
                 <=> (\E j \in J : col <= Len(s[j]) /\ v = s[j][col]) \/ (col <= Len(row) /\ v = row[col])
    BY <1>1, <2>1 DEF CellsIn
  <2>3. ASSUME NEW v
        PROVE  v \in CellsIn(col, s, J) <=> \E j \in J : col <= Len(s[j]) /\ v = s[j][col]
    BY DEF CellsIn
  <2>4. QED
    BY <2>2, <2>3
<1>7. ASSUME NEW col \in DOMAIN m PROVE CellOf(m[col], CellsIn(col, then, J \cup {n + 1}))
  <2>1. col \in 1 .. Len(m)
    BY <1>3
  <2>2. CASE col <= Len(r) /\ col <= Len(row)
    <3>1. CellOf(r[col], CellsIn(col, s, J))
      BY <1>4, <2>1, <2>2
    <3>2. m[col] \in {r[col], row[col]} /\ (m[col] = <<>> => r[col] = <<>> /\ row[col] = <<>>)
      BY <1>3, <2>1, <2>2
    <3>3. CellOf(m[col], CellsIn(col, s, J) \cup {row[col]})
      BY <3>1, <3>2, CellKept
    <3>4. QED
      BY <1>6, <2>2, <3>3
  <2>3. CASE col <= Len(r) /\ ~(col <= Len(row))
    <3>1. CellOf(r[col], CellsIn(col, s, J)) /\ m[col] = r[col]
      BY <1>3, <1>4, <2>1, <2>3
    <3>2. CellsIn(col, then, J \cup {n + 1}) = CellsIn(col, s, J)
      BY <1>6, <2>3
    <3>3. QED
      BY <3>1, <3>2
  <2>4. CASE ~(col <= Len(r))
    <3>1. col <= Len(row) /\ m[col] = row[col]
      BY <1>3, <2>1, <2>4
    <3>2. CellsIn(col, s, J) = {}
      <4>1. \A j \in J : ~(col <= Len(s[j]))
        BY <1>4, <2>1, <2>4
      <4>2. QED
        BY <4>1 DEF CellsIn
    <3>3. CellsIn(col, then, J \cup {n + 1}) = {m[col]}
      BY <1>6, <3>1, <3>2
    <3>4. QED
      BY <3>3 DEF CellOf
  <2>5. QED
    BY <2>2, <2>3, <2>4
<1>8. MadeOf(m, then, J \cup {n + 1})
  BY <1>5, <1>7 DEF MadeOf
<1>9. QED
  BY <1>8 DEF then, n

LEMMA MaxIs ==
  ASSUME NEW J, NEW top \in Nat, top \in J, J \in SUBSET (0 .. top)
  PROVE  Max(J) = top
<1>1. J \in SUBSET Nat /\ J # {} /\ \A x \in J : x <= top
  OBVIOUS
<1>2. Max(J) \in J /\ top <= Max(J)
  BY <1>1, MaxThere
<1>3. Max(J) \in Nat /\ Max(J) <= top
  BY <1>1, <1>2
<1>4. QED
  BY <1>2, <1>3

LEMMA HoldsKept ==
  ASSUME NEW L, NEW s \in Seq(Seq(Seq(L))), NEW row \in Seq(Seq(L)),
         NEW r \in Seq(Seq(L)), NEW b \in 1 .. Len(s), NEW J \in SUBSET (1 .. Len(s)), NEW c,
         Holds(r, s, b, J, c), NEW kept \in Resolved(r, row, c)
  PROVE  Holds(kept, Append(s, row), b, J \cup {Len(s) + 1}, c)
<1> DEFINE then == Append(s, row)
           n == Len(s)
<1>1. n \in Nat /\ then[n + 1] = row /\ \A i \in 1 .. n : then[i] = s[i]
  BY Appending
<1>2. CASE c.keep = "merge"
  <2>1. kept \in Merged(r, row) /\ MadeOf(r, s, J)
    BY <1>2 DEF Resolved, Holds
  <2>2. MadeOf(kept, then, J \cup {n + 1})
    BY <2>1, MadeKept
  <2> HIDE DEF then, n
  <2>3. Holds(kept, then, b, J \cup {n + 1}, c)
    BY <1>2, <2>2 DEF Holds
  <2>4. QED
    BY <2>3 DEF then, n
<1>3. CASE c.keep \in {"last", "newest"}
  <2>1. kept = row
    BY <1>3 DEF Resolved
  <2>2. Max(J \cup {n + 1}) = n + 1
    <3> DEFINE all == J \cup {n + 1}
    <3>0. \A j \in J : j \in 1 .. n
      OBVIOUS
    <3> HIDE DEF n
    <3>1. n + 1 \in Nat /\ n + 1 \in all /\ \A j \in all : j \in 0 .. n + 1
      BY <1>1, <3>0
    <3> HIDE DEF all
    <3>2. Max(all) = n + 1
      BY <3>1, MaxIs
    <3>3. QED
      BY <3>2 DEF all
  <2> HIDE DEF then, n
  <2>3. Holds(kept, then, b, J \cup {n + 1}, c)
    BY <1>1, <1>3, <2>1, <2>2 DEF Holds
  <2>4. QED
    BY <2>3 DEF then, n
<1>4. CASE c.keep \notin {"merge", "last", "newest"}
  <2>1. kept = r /\ r = s[b]
    BY <1>4 DEF Resolved, Holds
  <2> HIDE DEF then
  <2>2. Holds(kept, then, b, J \cup {n + 1}, c)
    BY <1>1, <1>4, <2>1 DEF Holds
  <2>3. QED
    BY <2>2 DEF then
<1>5. QED
  BY <1>2, <1>3, <1>4

LEMMA HoldsOn ==
  ASSUME NEW S, NEW s \in Seq(S), NEW row \in S, NEW r,
         NEW b \in 1 .. Len(s), NEW J \in SUBSET (1 .. Len(s)), b \in J, NEW c, Holds(r, s, b, J, c)
  PROVE  Holds(r, Append(s, row), b, J, c)
<1> DEFINE then == Append(s, row)
           n == Len(s)
<1>1. n \in Nat /\ \A i \in 1 .. n : then[i] = s[i]
  BY Appending
<1>2. then[b] = s[b] /\ \A j \in J : then[j] = s[j]
  BY <1>1
<1>3. Max(J) \in J
  <2>1. J \in SUBSET Nat /\ J # {} /\ \A x \in J : x <= n
    BY <1>1
  <2>2. QED
    BY <1>1, <2>1, MaxThere
<1> HIDE DEF then, n
<1>4. \A col : CellsIn(col, then, J) = CellsIn(col, s, J)
  BY <1>2 DEF CellsIn
<1>5. MadeOf(r, s, J) => MadeOf(r, then, J)
  BY <1>2, <1>4 DEF MadeOf
<1>6. Holds(r, then, b, J, c)
  BY <1>2, <1>3, <1>5 DEF Holds
<1>7. QED
  BY <1>6 DEF then

LEMMA HoldsNew ==
  ASSUME NEW L, NEW s \in Seq(Seq(Seq(L))), NEW row \in Seq(Seq(L)), NEW c
  PROVE  Holds(row, Append(s, row), Len(s) + 1, {Len(s) + 1}, c)
<1> DEFINE then == Append(s, row)
           n == Len(s)
<1>1. n \in Nat /\ then[n + 1] = row /\ DOMAIN row = 1 .. Len(row) /\ Len(row) \in Nat
  BY Appending
<1> HIDE DEF then, n
<1>2. Max({n + 1}) = n + 1
  <2> DEFINE all == {n + 1}
  <2>1. n + 1 \in Nat /\ n + 1 \in all /\ all \in SUBSET (0 .. n + 1)
    BY <1>1
  <2> HIDE DEF all
  <2>2. Max(all) = n + 1
    BY <2>1, MaxIs
  <2>3. QED
    BY <2>2 DEF all
<1>3. \A col \in 1 .. Len(row) : CellsIn(col, then, {n + 1}) = {row[col]}
  BY <1>1 DEF CellsIn
<1>4. MadeOf(row, then, {n + 1})
  <2>1. \A cell : CellOf(cell, {cell})
    BY DEF CellOf
  <2>2. \A col \in DOMAIN row : CellOf(row[col], CellsIn(col, then, {n + 1}))
    BY <1>1, <1>3, <2>1
  <2>3. \A j \in {n + 1} : Len(then[j]) <= Len(row)
    BY <1>1
  <2>4. QED
    BY <2>2, <2>3 DEF MadeOf
<1>5. Holds(row, then, n + 1, {n + 1}, c)
  BY <1>1, <1>2, <1>4 DEF Holds
<1>6. QED
  BY <1>5 DEF then, n

RowFits(k, s, rows, B, h, c) ==
  /\ B[k] \in 1 .. Len(s) /\ Alike(s[B[k]], rows[k], h, c)
  /\ Holds(rows[k], s, B[k], ClassOf(B[k], s, h, c), c)

RowsFit(s, rows, B, h, c) ==
  /\ Len(rows) = Len(B)
  /\ \A k \in 1 .. Len(rows) : RowFits(k, s, rows, B, h, c)
  /\ \A k, l \in 1 .. Len(rows) : k # l /\ HasKey(rows[l], h, c) => ~Alike(rows[k], rows[l], h, c)
  /\ \A j \in 1 .. Len(s) : \E k \in 1 .. Len(rows) : Alike(rows[k], s[j], h, c)

\* The rows and the configurations there are.
Types(L, s, rows, B, h, c) ==
  /\ s \in Seq(Seq(Seq(L))) /\ rows \in Seq(Seq(Seq(L))) /\ B \in Seq(Nat)
  /\ DOMAIN h \in SUBSET (Nat \ {0}) /\ c.keys \in Seq(Range(c.keys))
  /\ Plain(c, L) /\ c.rule # "fuzzy"

LEMMA RowsResolved ==
  ASSUME NEW L, NEW s, NEW rows, NEW B, NEW h, NEW c, Types(L, s, rows, B, h, c),
         RowsFit(s, rows, B, h, c), NEW row \in Seq(Seq(L)), HasKey(row, h, c),
         NEW i \in 1 .. Len(rows), Alike(rows[i], row, h, c),
         NEW kept \in Resolved(rows[i], row, c)
  PROVE  /\ RowsFit(Append(s, row), [rows EXCEPT ![i] = kept], B, h, c)
         /\ \E j \in 1 .. Len(s) : Alike(s[j], row, h, c)
<1> DEFINE A(x, y) == Alike(x, y, h, c)
           K(x) == HasKey(x, h, c)
           then == Append(s, row)
           n == Len(s)
           now == [rows EXCEPT ![i] = kept]
           Row == Seq(Seq(L))
<1>1. /\ s \in Seq(Row) /\ rows \in Seq(Row) /\ B \in Seq(Nat) /\ row \in Row
      /\ DOMAIN h \in SUBSET (Nat \ {0}) /\ c.keys \in Seq(Range(c.keys))
      /\ Plain(c, L) /\ c.rule # "fuzzy"
  BY DEF Types
<1>2. /\ n \in Nat /\ Len(then) = n + 1 /\ DOMAIN s = 1 .. n
      /\ \A j \in 1 .. n : then[j] = s[j]
      /\ then[n + 1] = row
  BY <1>1, Appending
<1>3. /\ DOMAIN rows = 1 .. Len(rows) /\ Len(rows) \in Nat /\ \A k \in 1 .. Len(rows) : rows[k] \in Row
      /\ Len(now) = Len(rows) /\ now[i] = kept
      /\ \A k \in 1 .. Len(rows) : k # i => now[k] = rows[k]
  BY <1>1
<1>4. A(rows[i], kept)
  BY <1>1, <1>3, KeptAlike
<1>5. /\ \A x : A(x, x)
      /\ \A x, y : A(x, y) => A(y, x) /\ (K(x) <=> K(y))
      /\ \A x, y, z : A(x, y) /\ A(y, z) => A(x, z)
  <2>1. \A x : A(x, x)
    BY DEF Alike
  <2>2. ASSUME NEW x, NEW y, A(x, y) PROVE A(y, x) /\ (K(x) <=> K(y))
    BY <1>1, <2>2, AlikeBack, AlikeKeys
  <2>3. ASSUME NEW x, NEW y, NEW z, A(x, y), A(y, z) PROVE A(x, z)
    BY <1>1, <2>3, AlikeOn
  <2> HIDE DEF A, K
  <2>4. QED
    BY <2>1, <2>2, <2>3
<1>6. /\ Len(rows) = Len(B)
      /\ \A k \in 1 .. Len(rows) : /\ B[k] \in 1 .. n /\ A(s[B[k]], rows[k])
                                   /\ Holds(rows[k], s, B[k], ClassOf(B[k], s, h, c), c)
      /\ \A k, l \in 1 .. Len(rows) : k # l /\ K(rows[l]) => ~A(rows[k], rows[l])
      /\ \A j \in 1 .. n : \E k \in 1 .. Len(rows) : A(rows[k], s[j])
  BY DEF RowsFit, RowFits
<1>7. \A b \in 1 .. n :
        /\ ClassOf(b, s, h, c) \in SUBSET (1 .. n) /\ b \in ClassOf(b, s, h, c)
        /\ ClassOf(b, then, h, c) = IF K(s[b]) /\ A(s[b], row)
                                    THEN ClassOf(b, s, h, c) \cup {n + 1} ELSE ClassOf(b, s, h, c)
  <2>1. s \in Seq(Row) /\ row \in Row
    BY <1>1
  <2>2. ClassesGrow(s, row, h, c)
    BY <2>1, ClassGrows, Zenon
  <2>3. QED
    BY <2>2, Zenon DEF ClassesGrow
<1>8. A(rows[i], row) /\ K(row) /\ K(rows[i])
  BY <1>5
<1> HIDE DEF A, K
<1>9. ASSUME NEW k \in 1 .. Len(rows) PROVE RowFits(k, then, now, B, h, c)
  <2> DEFINE b == B[k]
             J == ClassOf(b, s, h, c)
  <2>1. /\ b \in 1 .. n /\ A(s[b], rows[k]) /\ Holds(rows[k], s, b, J, c)
        /\ J \in SUBSET (1 .. n) /\ b \in J /\ rows[k] \in Row
    BY <1>3, <1>6, <1>7
  <2>2. b \in 1 .. Len(then) /\ then[b] = s[b]
    BY <1>2, <2>1
  <2>3. CASE k = i
    <3>1. A(then[b], now[k])
      BY <1>3, <1>4, <1>5, <2>1, <2>2, <2>3
    <3>2. K(s[b]) /\ A(s[b], row)
      BY <1>5, <1>8, <2>1, <2>3
    <3>3. ClassOf(b, then, h, c) = J \cup {n + 1}
      BY <1>7, <2>1, <3>2
    <3>4. kept \in Resolved(rows[k], row, c)
      BY <2>3
    <3> HIDE DEF b, J, now
    <3>5. Holds(kept, then, b, J \cup {n + 1}, c)
      BY <1>1, <2>1, <3>4, HoldsKept
    <3>6. Holds(now[k], then, b, ClassOf(b, then, h, c), c)
      BY <1>3, <2>3, <3>3, <3>5
    <3>7. QED
      BY <2>2, <3>1, <3>6 DEF RowFits, A, b
  <2>4. CASE k # i
    <3>1. now[k] = rows[k]
      BY <1>3, <2>4
    <3>2. ~A(s[b], row)
      <4> SUFFICES ASSUME A(s[b], row) PROVE FALSE
        OBVIOUS
      <4>1. A(rows[k], s[b]) /\ A(row, rows[i])
        BY <1>5, <1>8, <2>1
      <4>2. A(rows[k], rows[i])
        BY <1>5, <4>1
      <4>3. QED
        BY <1>6, <1>8, <2>4, <4>2
    <3>3. ClassOf(b, then, h, c) = J
      BY <1>7, <2>1, <3>2
    <3> HIDE DEF b, J, now
    <3>4. Holds(rows[k], then, b, J, c)
      BY <1>1, <2>1, HoldsOn
    <3>5. QED
      BY <2>1, <2>2, <3>1, <3>3, <3>4 DEF RowFits, A, b
  <2>5. QED
    BY <2>3, <2>4
<1> HIDE DEF now
<1>10. ASSUME NEW k \in 1 .. Len(rows), NEW l \in 1 .. Len(rows), k # l, K(now[l])
       PROVE  ~A(now[k], now[l])
  <2>1. \A m \in 1 .. Len(rows) : A(rows[m], now[m]) /\ A(now[m], rows[m]) /\ (K(rows[m]) <=> K(now[m]))
    <3>1. ASSUME NEW m \in 1 .. Len(rows) PROVE A(rows[m], now[m])
      <4>1. CASE m = i
        BY <1>3, <1>4, <4>1
      <4>2. CASE m # i
        BY <1>3, <1>5, <4>2
      <4>3. QED
        BY <4>1, <4>2
    <3>2. QED
      BY <1>5, <3>1
  <2>2. ~A(rows[k], rows[l])
    BY <1>6, <1>10, <2>1
  <2>3. QED
    BY <1>5, <2>1, <2>2
<1>11. ASSUME NEW j \in 1 .. Len(then) PROVE \E k \in 1 .. Len(rows) : A(now[k], then[j])
  <2>1. \A m \in 1 .. Len(rows) : A(now[m], rows[m])
    BY <1>3, <1>4, <1>5
  <2>2. PICK k \in 1 .. Len(rows) : A(rows[k], then[j])
    <3>1. CASE j = n + 1
      BY <1>2, <1>8, <3>1
    <3>2. CASE j # n + 1
      <4>1. j \in 1 .. n
        BY <1>2, <3>2
      <4>2. QED
        BY <1>2, <1>6, <4>1
    <3>3. QED
      BY <3>1, <3>2
  <2>3. QED
    BY <1>5, <2>1, <2>2
<1>12. RowsFit(then, now, B, h, c)
  BY <1>3, <1>6, <1>9, <1>10, <1>11 DEF RowsFit, A, K
<1>13. \E j \in 1 .. n : A(s[j], row)
  <2>1. B[i] \in 1 .. n /\ A(s[B[i]], rows[i])
    BY <1>6
  <2>2. QED
    BY <1>5, <1>8, <2>1
<1>14. QED
  BY <1>12, <1>13 DEF then, now, A

LEMMA RowsAdded ==
  ASSUME NEW L, NEW s, NEW rows, NEW B, NEW h, NEW c, Types(L, s, rows, B, h, c),
         RowsFit(s, rows, B, h, c), NEW row \in Seq(Seq(L)),
         HasKey(row, h, c) => \A k \in 1 .. Len(rows) : ~Alike(rows[k], row, h, c)
  PROVE  /\ RowsFit(Append(s, row), Append(rows, row), Append(B, Len(s) + 1), h, c)
         /\ HasKey(row, h, c) => \A j \in 1 .. Len(s) : ~Alike(s[j], row, h, c)
<1> DEFINE A(x, y) == Alike(x, y, h, c)
           K(x) == HasKey(x, h, c)
           then == Append(s, row)
           n == Len(s)
           now == Append(rows, row)
           w == Len(rows)
           C == Append(B, n + 1)
           Row == Seq(Seq(L))
<1>1. /\ s \in Seq(Row) /\ rows \in Seq(Row) /\ B \in Seq(Nat) /\ row \in Row /\ c.rule # "fuzzy"
  BY DEF Types
<1>2. /\ n \in Nat /\ Len(then) = n + 1 /\ n + 1 \in Nat
      /\ \A j \in 1 .. n : then[j] = s[j]
      /\ then[n + 1] = row
  BY <1>1, Appending
<1>3. /\ w \in Nat /\ Len(now) = w + 1
      /\ \A k \in 1 .. w : now[k] = rows[k]
      /\ now[w + 1] = row
  BY <1>1, Appending
<1>4. /\ \A x : A(x, x)
      /\ \A x, y : A(x, y) => A(y, x) /\ (K(x) <=> K(y))
      /\ \A x, y, z : A(x, y) /\ A(y, z) => A(x, z)
  <2>1. \A x : A(x, x)
    BY DEF Alike
  <2>2. ASSUME NEW x, NEW y, A(x, y) PROVE A(y, x) /\ (K(x) <=> K(y))
    BY <1>1, <2>2, AlikeBack, AlikeKeys
  <2>3. ASSUME NEW x, NEW y, NEW z, A(x, y), A(y, z) PROVE A(x, z)
    BY <1>1, <2>3, AlikeOn
  <2> HIDE DEF A, K
  <2>4. QED
    BY <2>1, <2>2, <2>3
<1>5. /\ w = Len(B)
      /\ \A k \in 1 .. w : /\ B[k] \in 1 .. n /\ A(s[B[k]], rows[k])
                           /\ Holds(rows[k], s, B[k], ClassOf(B[k], s, h, c), c)
      /\ \A k, l \in 1 .. w : k # l /\ K(rows[l]) => ~A(rows[k], rows[l])
      /\ \A j \in 1 .. n : \E k \in 1 .. w : A(rows[k], s[j])
  BY DEF RowsFit, RowFits
<1>6. /\ Len(C) = w + 1 /\ C[w + 1] = n + 1
      /\ \A k \in 1 .. w : C[k] = B[k]
  <2> HIDE DEF w, n
  <2>1. /\ Len(C) = Len(B) + 1 /\ C[Len(B) + 1] = n + 1
        /\ \A k \in 1 .. Len(B) : C[k] = B[k]
    BY <1>1, <1>2, Appending
  <2>2. QED
    BY <1>5, <2>1
<1>7. /\ \A b \in 1 .. n :
           /\ ClassOf(b, s, h, c) \in SUBSET (1 .. n) /\ b \in ClassOf(b, s, h, c)
           /\ ClassOf(b, then, h, c) = IF K(s[b]) /\ A(s[b], row)
                                       THEN ClassOf(b, s, h, c) \cup {n + 1} ELSE ClassOf(b, s, h, c)
      /\ ClassOf(n + 1, then, h, c) = {n + 1}
  <2>1. s \in Seq(Row) /\ row \in Row
    BY <1>1
  <2>2. ClassesGrow(s, row, h, c)
    BY <2>1, ClassGrows, Zenon
  <2>3. QED
    BY <2>2, Zenon DEF ClassesGrow
<1>8. K(row) => \A k \in 1 .. w : ~A(rows[k], row)
  OBVIOUS
<1>9. Holds(row, then, n + 1, {n + 1}, c)
  BY <1>1, HoldsNew
<1> HIDE DEF A, K, C, now
<1>10. K(row) => \A j \in 1 .. n : ~A(s[j], row)
  BY <1>4, <1>5, <1>8
<1>11. ASSUME NEW k \in 1 .. w PROVE RowFits(k, then, now, C, h, c)
  <2> DEFINE b == B[k]
             J == ClassOf(b, s, h, c)
  <2>1. /\ b \in 1 .. n /\ A(s[b], rows[k]) /\ Holds(rows[k], s, b, J, c)
        /\ J \in SUBSET (1 .. n) /\ b \in J
    BY <1>5, <1>7
  <2>2. b \in 1 .. Len(then) /\ then[b] = s[b] /\ C[k] = b /\ now[k] = rows[k]
    BY <1>2, <1>3, <1>6, <2>1
  <2>3. ~(K(s[b]) /\ A(s[b], row))
    BY <1>4, <1>10, <2>1
  <2>4. ClassOf(b, then, h, c) = J
    BY <1>7, <2>1, <2>3
  <2> HIDE DEF b, J
  <2>5. Holds(rows[k], then, b, J, c)
    BY <1>1, <2>1, HoldsOn
  <2>6. QED
    BY <2>1, <2>2, <2>4, <2>5 DEF RowFits, A
<1>12. RowFits(w + 1, then, now, C, h, c)
  <2>1. C[w + 1] \in 1 .. Len(then) /\ C[w + 1] = n + 1
    BY <1>2, <1>6
  <2>2. then[n + 1] = row /\ now[w + 1] = row
    BY <1>2, <1>3
  <2>3. Alike(row, row, h, c)
    BY <1>4 DEF A
  <2>4. QED
    BY <1>7, <1>9, <2>1, <2>2, <2>3, Zenon DEF RowFits
<1>13. \A k \in 1 .. w + 1 : k \in 1 .. w \/ k = w + 1
  BY <1>3
<1>14. ASSUME NEW k \in 1 .. w + 1, NEW l \in 1 .. w + 1, k # l, K(now[l])
       PROVE  ~A(now[k], now[l])
  <2>1. CASE k \in 1 .. w /\ l \in 1 .. w
    BY <1>3, <1>5, <1>14, <2>1
  <2>2. CASE k \in 1 .. w /\ l = w + 1
    BY <1>3, <1>8, <1>14, <2>2
  <2>3. CASE k = w + 1 /\ l \in 1 .. w
    <3>1. now[k] = row /\ now[l] = rows[l] /\ K(rows[l])
      BY <1>3, <1>14, <2>3
    <3>2. A(row, rows[l]) => A(rows[l], row) /\ K(row)
      BY <1>4, <3>1
    <3>3. QED
      BY <1>8, <2>3, <3>1, <3>2
  <2>4. QED
    BY <1>13, <1>14, <2>1, <2>2, <2>3
<1>15. ASSUME NEW j \in 1 .. Len(then) PROVE \E k \in 1 .. w + 1 : A(now[k], then[j])
  <2>1. CASE j = n + 1
    <3>1. w + 1 \in 1 .. w + 1 /\ A(now[w + 1], then[j])
      BY <1>2, <1>3, <1>4, <2>1
    <3>2. QED
      BY <3>1
  <2>2. CASE j # n + 1
    <3>1. j \in 1 .. n
      BY <1>2, <2>2
    <3>2. PICK k \in 1 .. w : A(rows[k], s[j])
      BY <1>5, <3>1
    <3>3. k \in 1 .. w + 1 /\ A(now[k], then[j])
      BY <1>2, <1>3, <3>1, <3>2
    <3>4. QED
      BY <3>3
  <2>3. QED
    BY <2>1, <2>2
<1>16. RowsFit(then, now, C, h, c)
  <2>1. \A k \in 1 .. w + 1 : RowFits(k, then, now, C, h, c)
    BY <1>11, <1>12, <1>13
  <2>2. QED
    BY <1>3, <1>6, <1>14, <1>15, <2>1 DEF RowsFit, A, K
<1>17. QED
  BY <1>10, <1>16 DEF then, now, A, K, C

-----------------------------------------------------------------------------
(* The merger.                                                             *)

\* Parts of a key end with the character; cells that have it could be merged into one
\* that moves the end of a part.
PlainCells == \A c \in Configs : c.keep = "merge" => "|" \notin Letters

Row == Seq(Seq(Letters))

MergerBase ==
  /\ DOMAIN disk = InputPaths \cup {Output}
  /\ \A p \in InputPaths : disk[p] \in Contents \cup {NoFile}
  /\ merge_config \in Configs /\ sources \in Seq(Sources)

\* What a merge at hand has read and made.
WorkTypes ==
  /\ DOMAIN merged_headers \in SUBSET (Nat \ {0})
  /\ queue \in Seq(Sources) /\ \A i \in DOMAIN queue : queue[i].path \in InputPaths /\ SourceThere(queue[i])
  /\ pending \in Seq(Row) /\ all_rows \in Seq(Row) /\ seen \in Seq(Row)
  /\ merge_stats \in [processed : Int, removed : Int, output : Int]

ResultFits(s, rows, h, c, figures) ==
  c.rule # "fuzzy" =>
    /\ RowsFit(s, rows, BegunOf(s, h, c), h, c)
    /\ figures.processed = Len(s) /\ figures.removed = Len(s) - Len(rows)

MergerWork ==
  doing = "merge" =>
    /\ WorkTypes
    /\ IndexFits(all_rows, key_to_rows, merged_headers, merge_config)
    /\ ResultFits(seen, all_rows, merged_headers, merge_config, merge_stats)

MergerFits == MergerBase /\ MergerWork

LEMMA MergerBaseStep ==
  ASSUME MergerBase, MergerNext
  PROVE  MergerBase'
<1>1. Output \notin InputPaths
  BY MergerAssumption
<1>2. ASSUME NEW lines, disk' = [disk EXCEPT ![Output] = lines]
      PROVE  DOMAIN disk' = InputPaths \cup {Output} /\ \A p \in InputPaths : disk'[p] \in Contents \cup {NoFile}
  BY <1>1, <1>2 DEF MergerBase
<1>3. ASSUME NEW s \in Sources, AddInputSource(s) PROVE MergerBase'
  <2>1. Append(sources, s) \in Seq(Sources)
    BY Appending DEF MergerBase
  <2>2. QED
    BY <1>3, <2>1 DEF MergerBase, AddInputSource
<1>4. CASE ClearInputSources
  <2>1. <<>> \in Seq(Sources)
    OBVIOUS
  <2>2. QED
    BY <1>4, <2>1 DEF MergerBase, ClearInputSources
<1>5. ASSUME NEW c \in Configs, SetMergeConfig(c) PROVE MergerBase'
  BY <1>5 DEF MergerBase, SetMergeConfig
<1>6. CASE FailsMerge
  BY <1>2, <1>6 DEF MergerBase, FailsMerge
<1>7. CASE BeginsMerge
  BY <1>2, <1>7 DEF MergerBase, BeginsMerge
<1>8. CASE Merges
  <2>1. CASE NoSchema
    BY <2>1 DEF MergerBase, NoSchema
  <2>2. CASE ReadsSource
    BY <2>2 DEF MergerBase, ReadsSource
  <2>3. CASE WritesAll
    BY <1>2, <2>3 DEF MergerBase, WritesAll
  <2>4. CASE AppendsSource
    <3> DEFINE s == Head(queue)
               first == s.has_header /\ disk[s.path] # <<>> /\ merged_headers = <<>>
               lines == IF first THEN disk[s.path] ELSE DataRows(s)
    <3>1. disk' = [disk EXCEPT ![Output] = @ \o lines] /\ UNCHANGED <<merge_config, sources>>
      BY <2>4 DEF AppendsSource
    <3> HIDE DEF lines
    <3>2. disk' = [disk EXCEPT ![Output] = disk[Output] \o lines]
      BY <3>1
    <3>3. QED
      BY <1>2, <3>1, <3>2 DEF MergerBase
  <2>5. CASE AppendEnds
    BY <2>5 DEF MergerBase, AppendEnds
  <2>6. CASE ResolvesDuplicate(Head(pending))
    BY <2>6 DEF MergerBase, ResolvesDuplicate, Processes
  <2>7. CASE AddsRow(Head(pending))
    BY <2>7 DEF MergerBase, AddsRow, Processes
  <2>8. QED
    BY <1>8, <2>1, <2>2, <2>3, <2>4, <2>5, <2>6, <2>7 DEF Merges
<1>9. QED
  BY <1>3, <1>4, <1>5, <1>6, <1>7, <1>8 DEF MergerNext

\* A source is one of the files, which are as they were when it all began.
LEMMA SourceLines ==
  ASSUME MergerBase, NEW s \in Sources, SourceThere(s)
  PROVE  disk[s.path] \in Seq(Row) /\ DataRows(s) \in Seq(Row)
<1>1. disk[s.path] \in Seq(Row)
  BY MergerAssumption DEF MergerBase, SourceThere, Row
<1>2. \A t \in Seq(Row) : t # <<>> => Tail(t) \in Seq(Row)
  OBVIOUS
<1>3. QED
  BY <1>1, <1>2 DEF DataRows

LEMMA QueueOf ==
  ASSUME NEW S, NEW s \in Seq(S), NEW t \in ByPriority(s)
  PROVE  t \in Seq(S) /\ \A i \in DOMAIN t : \E j \in DOMAIN s : t[i] = s[j]
<1>1. PICK p \in Injection(DOMAIN s, DOMAIN s) : t = [i \in DOMAIN s |-> s[p[i]]]
  BY DEF ByPriority
<1>2. \A i \in DOMAIN s : p[i] \in DOMAIN s
  BY DEF Injection
<1>3. DOMAIN s = 1 .. Len(s) /\ Len(s) \in Nat /\ \A i \in DOMAIN s : s[i] \in S
  OBVIOUS
<1>4. t \in [1 .. Len(s) -> S]
  BY <1>1, <1>2, <1>3
<1>5. t \in Seq(S)
  BY <1>3, <1>4, OneToN
<1>6. QED
  BY <1>1, <1>2, <1>5

LEMMA NothingFits ==
  ASSUME NEW h, NEW c, NEW figures, figures = NoMergeStats
  PROVE  IndexFits(<<>>, <<>>, h, c) /\ ResultFits(<<>>, <<>>, h, c, figures)
<1>1. IndexFits(<<>>, <<>>, h, c)
  BY DEF IndexFits
<1>2. BegunOf(<<>>, h, c) = <<>>
  BY PlacesStep DEF BegunOf
<1>3. RowsFit(<<>>, <<>>, <<>>, h, c)
  BY DEF RowsFit
<1>4. QED
  BY <1>1, <1>2, <1>3 DEF ResultFits, NoMergeStats

LEMMA BeginsMergeStep ==
  ASSUME MergerBase, BeginsMerge
  PROVE  MergerWork'
<1> SUFFICES ASSUME doing' = "merge" PROVE MergerWork'
  BY DEF MergerWork
<1>1. /\ queue' \in (IF merge_config.strategy = "priority" THEN ByPriority(sources) ELSE {sources})
      /\ merged_headers' = InferredSchema
      /\ pending' = <<>> /\ all_rows' = <<>> /\ key_to_rows' = <<>> /\ seen' = <<>>
      /\ merge_stats' = NoMergeStats
      /\ Validated = "SUCCESS"
      /\ disk' = [disk EXCEPT ![Output] = <<>>]
  BY DEF BeginsMerge
<1>2. ASSUME NEW i \in DOMAIN sources
      PROVE  sources[i] \in Sources /\ sources[i].path \in InputPaths /\ SourceThere(sources[i])
  <2>1. sources[i] \in Sources
    BY DEF MergerBase
  <2>2. sources[i].path \in InputPaths
    BY <2>1, MergerAssumption
  <2>3. SourceThere(sources[i])
    BY <1>1 DEF Validated
  <2>4. QED
    BY <2>1, <2>2, <2>3
<1>3. queue' \in Seq(Sources) /\ \A i \in DOMAIN queue' : \E j \in DOMAIN sources : queue'[i] = sources[j]
  <2>1. CASE queue' = sources
    BY <2>1 DEF MergerBase
  <2>2. CASE queue' \in ByPriority(sources)
    BY <2>2, QueueOf DEF MergerBase
  <2>3. QED
    BY <1>1, <2>1, <2>2
<1>4. ASSUME NEW i \in DOMAIN queue' PROVE queue'[i].path \in InputPaths /\ disk'[queue'[i].path] # NoFile
  <2>1. PICK j \in DOMAIN sources : queue'[i] = sources[j]
    BY <1>3
  <2>2. sources[j].path \in InputPaths /\ disk[sources[j].path] # NoFile
    BY <1>2 DEF SourceThere
  <2>3. disk'[sources[j].path] = disk[sources[j].path]
    BY <1>1, <2>2, MergerAssumption DEF MergerBase
  <2>4. QED
    BY <2>1, <2>2, <2>3
<1>5. DOMAIN merged_headers' \in SUBSET (Nat \ {0})
  <2> DEFINE columns == UNION {Range(Header(sources[i])) :
                               i \in {j \in DOMAIN sources : Header(sources[j]) # NoFile}}
             set == {k \in DOMAIN merge_config.order : merge_config.order[k] \in columns}
             there == Places(set, Len(merge_config.order))
  <2>1. DOMAIN merged_headers' = DOMAIN there
    BY <1>1 DEF InferredSchema
  <2> HIDE DEF set
  <2>2. Len(merge_config.order) \in Nat
    <3>1. merge_config.order \in Seq(Range(merge_config.order))
      BY MergerAssumption DEF MergerBase
    <3>2. QED
      BY <3>1
  <2>3. there \in Seq(Nat)
    BY <2>2, PlacesStep
  <2> HIDE DEF there
  <2>4. DOMAIN there = 1 .. Len(there) /\ Len(there) \in Nat
    BY <2>3
  <2>5. QED
    BY <2>1, <2>4
<1>6. <<>> \in Seq(Row) /\ NoMergeStats \in [processed : Int, removed : Int, output : Int]
  BY DEF NoMergeStats
<1>7. WorkTypes'
  BY <1>1, <1>3, <1>4, <1>5, <1>6 DEF WorkTypes, SourceThere
<1>8. /\ IndexFits(all_rows', key_to_rows', merged_headers', merge_config')
      /\ ResultFits(seen', all_rows', merged_headers', merge_config', merge_stats')
  BY <1>1, NothingFits
<1>9. QED
  BY <1>7, <1>8 DEF MergerWork

LEMMA ReadsSourceStep ==
  ASSUME MergerFits, ReadsSource
  PROVE  MergerWork'
<1>1. /\ MergerBase /\ WorkTypes
      /\ IndexFits(all_rows, key_to_rows, merged_headers, merge_config)
      /\ ResultFits(seen, all_rows, merged_headers, merge_config, merge_stats)
  BY DEF MergerFits, MergerWork, ReadsSource
<1>2. /\ queue # <<>> /\ pending' = DataRows(Head(queue)) /\ queue' = Tail(queue)
      /\ UNCHANGED <<disk, merge_config, merged_headers, all_rows, key_to_rows, merge_stats, seen>>
  BY DEF ReadsSource
<1>3. /\ queue \in Seq(Sources) /\ \A i \in DOMAIN queue : queue[i].path \in InputPaths /\ SourceThere(queue[i])
  BY <1>1 DEF WorkTypes
<1>4. /\ Head(queue) \in Sources /\ Head(queue).path \in InputPaths /\ SourceThere(Head(queue))
      /\ Tail(queue) \in Seq(Sources) /\ \A i \in DOMAIN Tail(queue) : \E j \in DOMAIN queue : Tail(queue)[i] = queue[j]
  <2>1. Head(queue) = queue[1] /\ 1 \in DOMAIN queue /\ queue[1] \in Sources
    BY <1>2, <1>3
  <2>2. Tail(queue) \in Seq(Sources)
    BY <1>2, <1>3
  <2>3. ASSUME NEW i \in DOMAIN Tail(queue) PROVE i + 1 \in DOMAIN queue /\ Tail(queue)[i] = queue[i + 1]
    BY <1>2, <1>3
  <2>4. QED
    BY <1>3, <2>1, <2>2, <2>3
<1>5. pending' \in Seq(Row)
  BY <1>1, <1>2, <1>4, SourceLines
<1>6. \A i \in DOMAIN queue' : queue'[i].path \in InputPaths /\ disk'[queue'[i].path] # NoFile
  BY <1>2, <1>3, <1>4 DEF SourceThere
<1>7. WorkTypes'
  BY <1>1, <1>2, <1>4, <1>5, <1>6 DEF WorkTypes, SourceThere
<1>8. QED
  BY <1>1, <1>2, <1>7 DEF MergerWork

\* What a row finds when its turn comes.
RowsTurn(row) ==
  /\ MergerBase /\ WorkTypes /\ row \in Row /\ merge_config \in Configs
  /\ IndexFits(all_rows, key_to_rows, merged_headers, merge_config)
  /\ ResultFits(seen, all_rows, merged_headers, merge_config, merge_stats)
  /\ merge_config.keys \in Seq(Range(merge_config.keys)) /\ Plain(merge_config, Letters)
  /\ merge_config.rule # "fuzzy" =>
       Types(Letters, seen, all_rows, BegunOf(seen, merged_headers, merge_config),
             merged_headers, merge_config)

LEMMA RowComes ==
  ASSUME PlainCells, MergerFits, NEW row, Processes(row)
  PROVE  RowsTurn(row) /\ pending' \in Seq(Row) /\ seen' = Append(seen, row) /\ seen' \in Seq(Row)
<1>1. /\ MergerBase /\ WorkTypes
      /\ IndexFits(all_rows, key_to_rows, merged_headers, merge_config)
      /\ ResultFits(seen, all_rows, merged_headers, merge_config, merge_stats)
  BY DEF MergerFits, MergerWork, Processes
<1>2. /\ pending # <<>> /\ row = Head(pending) /\ pending' = Tail(pending)
      /\ seen' = Append(seen, row)
  BY DEF Processes
<1>3. pending \in Seq(Row) /\ all_rows \in Seq(Row) /\ seen \in Seq(Row)
  BY <1>1 DEF WorkTypes
<1>4. \A t \in Seq(Row) : t # <<>> => Head(t) \in Row /\ Tail(t) \in Seq(Row)
  OBVIOUS
<1>5. row \in Row /\ pending' \in Seq(Row)
  BY <1>2, <1>3, <1>4
<1>6. seen' \in Seq(Row)
  BY <1>2, <1>3, <1>5, Appending
<1>7. merge_config \in Configs /\ merge_config.keys \in Seq(Range(merge_config.keys))
  BY <1>1, MergerAssumption DEF MergerBase
<1>8. Plain(merge_config, Letters)
  BY <1>7 DEF PlainCells, Plain
<1>9. BegunOf(seen, merged_headers, merge_config) \in Seq(Nat)
  <2>1. Len(seen) \in Nat
    BY <1>3
  <2>2. QED
    BY <2>1, PlacesStep DEF BegunOf
<1>10. merge_config.rule # "fuzzy" =>
         Types(Letters, seen, all_rows, BegunOf(seen, merged_headers, merge_config),
               merged_headers, merge_config)
  BY <1>1, <1>3, <1>7, <1>8, <1>9 DEF Types, Row, WorkTypes
<1>11. QED
  BY <1>1, <1>2, <1>5, <1>6, <1>7, <1>8, <1>10 DEF RowsTurn

LEMMA TwinsAre ==
  ASSUME NEW row, RowsTurn(row), Indexed(row)
  PROVE  \A i : i \in Twins(row) <=> /\ i \in DOMAIN all_rows
                                     /\ Key(all_rows[i], merged_headers, merge_config)
                                          = Key(row, merged_headers, merge_config)
                                     /\ AreDuplicates(row, all_rows[i], merged_headers, merge_config)
<1> DEFINE key == Key(row, merged_headers, merge_config)
<1>1. /\ \A k \in DOMAIN key_to_rows :
            key_to_rows[k] = {i \in DOMAIN all_rows : Key(all_rows[i], merged_headers, merge_config) = k}
      /\ \A i \in DOMAIN all_rows : Key(all_rows[i], merged_headers, merge_config) # <<>> =>
           Key(all_rows[i], merged_headers, merge_config) \in DOMAIN key_to_rows
      /\ key # <<>>
  BY DEF RowsTurn, IndexFits, Indexed, KeyOf
<1>2. AtKey(row) = {i \in DOMAIN all_rows : Key(all_rows[i], merged_headers, merge_config) = key}
  <2>1. CASE key \in DOMAIN key_to_rows
    BY <1>1, <2>1 DEF AtKey, KeyOf
  <2>2. CASE key \notin DOMAIN key_to_rows
    BY <1>1, <2>2 DEF AtKey, KeyOf
  <2>3. QED
    BY <2>1, <2>2
<1>3. QED
  BY <1>2 DEF Twins

LEMMA ResolvesDuplicateStep ==
  ASSUME PlainCells, MergerFits, NEW row, ResolvesDuplicate(row)
  PROVE  MergerWork'
<1> DEFINE h == merged_headers
           c == merge_config
           i == Min(Twins(row))
           B == BegunOf(seen, h, c)
<1>1. RowsTurn(row) /\ pending' \in Seq(Row) /\ seen' = Append(seen, row) /\ seen' \in Seq(Row)
  BY RowComes DEF ResolvesDuplicate
<1>2. PICK kept \in Resolved(all_rows[i], row, c) : all_rows' = [all_rows EXCEPT ![i] = kept]
  BY DEF ResolvesDuplicate
<1>3. /\ Indexed(row) /\ Twins(row) # {}
      /\ merge_stats' = [merge_stats EXCEPT !.processed = @ + 1, !.removed = @ + 1]
      /\ UNCHANGED <<key_to_rows, disk, merge_config, doing, queue, merged_headers>>
  BY DEF ResolvesDuplicate, Processes
<1>4. /\ MergerBase /\ WorkTypes /\ row \in Row /\ c.keys \in Seq(Range(c.keys)) /\ Plain(c, Letters)
      /\ IndexFits(all_rows, key_to_rows, h, c)
      /\ ResultFits(seen, all_rows, h, c, merge_stats)
      /\ c.rule # "fuzzy" => Types(Letters, seen, all_rows, B, h, c)
  BY <1>1 DEF RowsTurn
<1>5. /\ all_rows \in Seq(Row) /\ DOMAIN all_rows = 1 .. Len(all_rows) /\ Len(all_rows) \in Nat
      /\ seen \in Seq(Row) /\ DOMAIN h \in SUBSET (Nat \ {0})
      /\ merge_stats \in [processed : Int, removed : Int, output : Int]
  BY <1>4 DEF WorkTypes
<1>6. i \in Twins(row)
  <2>1. Twins(row) \in SUBSET Nat
    BY <1>1, <1>3, <1>5, TwinsAre
  <2>2. QED
    BY <1>3, <2>1, MinThere
<1>7. /\ i \in 1 .. Len(all_rows) /\ all_rows[i] \in Row
      /\ Key(all_rows[i], h, c) = Key(row, h, c) /\ AreDuplicates(row, all_rows[i], h, c)
  BY <1>1, <1>3, <1>5, <1>6, TwinsAre
<1>8. HasKey(row, h, c)
  BY <1>3 DEF Indexed, KeyOf, HasKey
<1> HIDE DEF h, c, i, B
<1>9. kept \in Row /\ Key(kept, h, c) = Key(all_rows[i], h, c)
  <2>1. all_rows[i] \in Seq(Seq(Letters)) /\ row \in Seq(Seq(Letters))
    BY <1>4, <1>7 DEF Row
  <2>2. DOMAIN h \in SUBSET (Nat \ {0}) /\ c.keys \in Seq(Range(c.keys)) /\ Plain(c, Letters)
    BY <1>4, <1>5
  <2>3. Key(all_rows[i], h, c) = Key(row, h, c) /\ kept \in Resolved(all_rows[i], row, c)
    BY <1>2, <1>7
  <2>3a. SameKey(Letters, all_rows[i], row, h, c)
    BY <2>1, <2>2, <2>3 DEF SameKey
  <2>4. kept \in Seq(Seq(Letters)) /\ Key(kept, h, c) = Key(all_rows[i], h, c)
    BY <2>3, <2>3a, KeptKey
  <2>5. QED
    BY <2>4 DEF Row
<1>10. all_rows' \in Seq(Row) /\ Len(all_rows') = Len(all_rows)
  BY <1>2, <1>5, <1>7, <1>9
<1>11. IndexFits(all_rows', key_to_rows', h, c)
  <2>1. IndexFits([all_rows EXCEPT ![i] = kept], key_to_rows, h, c)
    BY <1>4, <1>5, <1>7, <1>9, IndexKept
  <2>2. QED
    BY <1>2, <1>3, <2>1
<1>12. /\ merge_stats' \in [processed : Int, removed : Int, output : Int]
       /\ merge_stats'.processed = merge_stats.processed + 1
       /\ merge_stats'.removed = merge_stats.removed + 1
  <2>1. ASSUME NEW figures \in [processed : Int, removed : Int, output : Int], NEW counted,
               counted = [figures EXCEPT !.processed = @ + 1, !.removed = @ + 1]
        PROVE  /\ counted \in [processed : Int, removed : Int, output : Int]
               /\ counted.processed = figures.processed + 1 /\ counted.removed = figures.removed + 1
    <3>1. counted = [processed |-> figures.processed + 1, removed |-> figures.removed + 1, output |-> figures.output]
      BY <2>1
    <3>2. QED
      BY <3>1
  <2>2. QED
    BY <1>3, <1>5, <2>1, Zenon
<1>13. ResultFits(seen', all_rows', h, c, merge_stats')
  <2> SUFFICES ASSUME c.rule # "fuzzy"
               PROVE  /\ RowsFit(seen', all_rows', BegunOf(seen', h, c), h, c)
                      /\ merge_stats'.processed = Len(seen')
                      /\ merge_stats'.removed = Len(seen') - Len(all_rows')
    BY DEF ResultFits
  <2>1. /\ Types(Letters, seen, all_rows, B, h, c) /\ RowsFit(seen, all_rows, B, h, c)
        /\ merge_stats.processed = Len(seen) /\ merge_stats.removed = Len(seen) - Len(all_rows)
    BY <1>4 DEF ResultFits, B, h, c
  <2>2. Alike(row, all_rows[i], h, c)
    BY <1>7, <1>8 DEF Alike
  <2>3. Alike(all_rows[i], row, h, c)
    BY <2>2, AlikeBack
  <2>4. row \in Seq(Seq(Letters))
    BY <1>4 DEF Row
  <2>5. /\ RowsFit(Append(seen, row), [all_rows EXCEPT ![i] = kept], B, h, c)
        /\ \E j \in 1 .. Len(seen) : Alike(seen[j], row, h, c)
    BY <1>2, <1>7, <1>8, <2>1, <2>3, <2>4, RowsResolved
  <2>6. BegunOf(Append(seen, row), h, c) = B
    <3>1. BegunOf(Append(seen, row), h, c) =
            IF ~HasKey(row, h, c) \/ \A j \in 1 .. Len(seen) : ~Alike(seen[j], row, h, c)
            THEN Append(BegunOf(seen, h, c), Len(seen) + 1) ELSE BegunOf(seen, h, c)
      BY <1>4, <1>5, BegunGrows
    <3>2. QED
      BY <1>8, <2>5, <3>1 DEF B, h, c
  <2>7. Len(seen') = Len(seen) + 1 /\ Len(seen) \in Nat
    BY <1>1, <1>4, <1>5, Appending
  <2>8. QED
    BY <1>1, <1>2, <1>5, <1>10, <1>12, <2>1, <2>5, <2>6, <2>7
<1>14. WorkTypes'
  <2>1. \A j \in DOMAIN queue : queue[j].path \in InputPaths /\ SourceThere(queue[j])
    BY <1>4 DEF WorkTypes
  <2>2. QED
    BY <1>1, <1>3, <1>4, <1>10, <1>12, <2>1 DEF WorkTypes, SourceThere
<1>15. QED
  BY <1>3, <1>11, <1>13, <1>14 DEF MergerWork, h, c

LEMMA AddsRowStep ==
  ASSUME PlainCells, MergerFits, NEW row, AddsRow(row)
  PROVE  MergerWork'
<1> DEFINE h == merged_headers
           c == merge_config
           B == BegunOf(seen, h, c)
<1>1. RowsTurn(row) /\ pending' \in Seq(Row) /\ seen' = Append(seen, row) /\ seen' \in Seq(Row)
  BY RowComes DEF AddsRow
<1>2. /\ ~(Indexed(row) /\ Twins(row) # {})
      /\ all_rows' = Append(all_rows, row)
      /\ key_to_rows' = IF Indexed(row) THEN WithNewRow(row) ELSE key_to_rows
      /\ merge_stats' = [merge_stats EXCEPT !.processed = @ + 1]
      /\ UNCHANGED <<disk, merge_config, doing, queue, merged_headers>>
  BY DEF AddsRow, Processes
<1>3. /\ MergerBase /\ WorkTypes /\ row \in Row
      /\ IndexFits(all_rows, key_to_rows, h, c)
      /\ ResultFits(seen, all_rows, h, c, merge_stats)
      /\ c.rule # "fuzzy" => Types(Letters, seen, all_rows, B, h, c)
  BY <1>1 DEF RowsTurn
<1>4. /\ all_rows \in Seq(Row) /\ DOMAIN all_rows = 1 .. Len(all_rows) /\ Len(all_rows) \in Nat
      /\ seen \in Seq(Row)
      /\ merge_stats \in [processed : Int, removed : Int, output : Int]
  BY <1>3 DEF WorkTypes
<1>5. Indexed(row) <=> HasKey(row, h, c)
  BY DEF Indexed, KeyOf, HasKey
<1>6. HasKey(row, h, c) => \A k \in 1 .. Len(all_rows) : ~Alike(all_rows[k], row, h, c) \/ c.rule = "fuzzy"
  <2> SUFFICES ASSUME HasKey(row, h, c), NEW k \in 1 .. Len(all_rows), Alike(all_rows[k], row, h, c),
                      c.rule # "fuzzy"
               PROVE  FALSE
    OBVIOUS
  <2>1. Indexed(row) /\ Twins(row) = {}
    BY <1>2, <1>5
  <2>2. Alike(row, all_rows[k], h, c)
    BY AlikeBack
  <2>3. Key(row, h, c) = Key(all_rows[k], h, c)
    BY <2>2, AlikeKeys
  <2>4. AreDuplicates(row, all_rows[k], h, c)
    <3>1. CASE row = all_rows[k]
      <4>1. c.rule \in Rules /\ c.rule # "none"
        BY <1>3, MergerAssumption DEF MergerBase, HasKey
      <4>2. c.rule \in {"exact", "key", "hash"}
        BY <4>1 DEF Rules
      <4>3. QED
        BY <3>1, <4>2, DuplicatesAre DEF HasKey
    <3>2. CASE row # all_rows[k]
      BY <2>2, <3>2 DEF Alike
    <3>3. QED
      BY <3>1, <3>2
  <2>5. k \in Twins(row)
    BY <1>1, <1>4, <2>1, <2>3, <2>4, TwinsAre
  <2>6. QED
    BY <2>1, <2>5
<1>7. IndexFits(all_rows', key_to_rows', h, c)
  <2>1. key_to_rows' = Entered(all_rows, key_to_rows, row, h, c)
    BY <1>2, <1>5 DEF Entered, WithNewRow, AtKey, KeyOf
  <2>2. IndexFits(Append(all_rows, row), Entered(all_rows, key_to_rows, row, h, c), h, c)
    BY <1>3, <1>4, IndexGrown
  <2>3. QED
    BY <1>2, <2>1, <2>2
<1> HIDE DEF h, c, B
<1>8. all_rows' \in Seq(Row) /\ Len(all_rows') = Len(all_rows) + 1
  BY <1>2, <1>3, <1>4, Appending
<1>9. /\ merge_stats' \in [processed : Int, removed : Int, output : Int]
      /\ merge_stats'.processed = merge_stats.processed + 1
      /\ merge_stats'.removed = merge_stats.removed
  BY <1>2, <1>4
<1>10. ResultFits(seen', all_rows', h, c, merge_stats')
  <2> SUFFICES ASSUME c.rule # "fuzzy"
               PROVE  /\ RowsFit(seen', all_rows', BegunOf(seen', h, c), h, c)
                      /\ merge_stats'.processed = Len(seen')
                      /\ merge_stats'.removed = Len(seen') - Len(all_rows')
    BY DEF ResultFits
  <2>1. /\ Types(Letters, seen, all_rows, B, h, c) /\ RowsFit(seen, all_rows, B, h, c)
        /\ merge_stats.processed = Len(seen) /\ merge_stats.removed = Len(seen) - Len(all_rows)
    BY <1>3 DEF ResultFits, B, h, c
  <2>2. row \in Seq(Seq(Letters))
    BY <1>3 DEF Row
  <2>3. HasKey(row, h, c) => \A k \in 1 .. Len(all_rows) : ~Alike(all_rows[k], row, h, c)
    BY <1>6
  <2>4. /\ RowsFit(Append(seen, row), Append(all_rows, row), Append(B, Len(seen) + 1), h, c)
        /\ HasKey(row, h, c) => \A j \in 1 .. Len(seen) : ~Alike(seen[j], row, h, c)
    BY <2>1, <2>2, <2>3, RowsAdded
  <2>5. BegunOf(Append(seen, row), h, c) = Append(B, Len(seen) + 1)
    <3>1. BegunOf(Append(seen, row), h, c) =
            IF ~HasKey(row, h, c) \/ \A j \in 1 .. Len(seen) : ~Alike(seen[j], row, h, c)
            THEN Append(BegunOf(seen, h, c), Len(seen) + 1) ELSE BegunOf(seen, h, c)
      BY <1>3, <1>4, BegunGrows
    <3>2. QED
      BY <2>4, <3>1 DEF B, h, c
  <2>6. Len(seen') = Len(seen) + 1 /\ Len(seen) \in Nat
    BY <1>1, <1>3, <1>4, Appending
  <2>7. QED
    BY <1>1, <1>2, <1>4, <1>8, <1>9, <2>1, <2>4, <2>5, <2>6
<1>11. WorkTypes'
  <2>1. \A j \in DOMAIN queue : queue[j].path \in InputPaths /\ SourceThere(queue[j])
    BY <1>3 DEF WorkTypes
  <2>2. QED
    BY <1>1, <1>2, <1>3, <1>8, <1>9, <2>1 DEF WorkTypes, SourceThere
<1>12. QED
  BY <1>2, <1>7, <1>10, <1>11 DEF MergerWork, h, c

LEMMA MergerFitsAlways ==
  ASSUME PlainCells
  PROVE  MergerSpec => []MergerFits
<1>1. MergerInit => MergerFits
  <2> SUFFICES ASSUME MergerInit PROVE MergerFits
    OBVIOUS
  <2>1. /\ DOMAIN disk = InputPaths \cup {Output}
        /\ \A p \in InputPaths : disk[p] \in Contents \cup {NoFile}
        /\ merge_config \in Configs /\ sources = <<>> /\ doing # "merge"
    BY DEF MergerInit
  <2>2. <<>> \in Seq(Sources)
    OBVIOUS
  <2>3. QED
    BY <2>1, <2>2 DEF MergerFits, MergerBase, MergerWork
<1>2. MergerFits /\ [MergerNext]_mergerVars => MergerFits'
  <2> SUFFICES ASSUME MergerFits, [MergerNext]_mergerVars PROVE MergerFits'
    OBVIOUS
  <2>1. CASE UNCHANGED mergerVars
    BY <2>1 DEF mergerVars, merging, MergerFits, MergerBase, MergerWork, WorkTypes, SourceThere, IndexFits,
                ResultFits
  <2>2. CASE MergerNext
    <3>1. MergerBase'
      BY <2>2, MergerBaseStep DEF MergerFits
    <3>2. ASSUME doing' # "merge" PROVE MergerWork'
      BY <3>2 DEF MergerWork
    <3>3. ASSUME NEW s \in Sources, AddInputSource(s) PROVE doing' # "merge"
      BY <3>3 DEF AddInputSource
    <3>4. ASSUME ClearInputSources PROVE doing' # "merge"
      BY <3>4 DEF ClearInputSources
    <3>5. ASSUME NEW c \in Configs, SetMergeConfig(c) PROVE doing' # "merge"
      BY <3>5 DEF SetMergeConfig
    <3>6. ASSUME FailsMerge PROVE doing' # "merge"
      BY <3>6 DEF FailsMerge
    <3>7. ASSUME BeginsMerge PROVE MergerWork'
      BY <3>7, BeginsMergeStep DEF MergerFits
    <3>8. ASSUME Merges PROVE MergerWork'
      <4>1. ASSUME NoSchema \/ WritesAll \/ AppendEnds PROVE doing' # "merge"
        BY <4>1 DEF NoSchema, WritesAll, AppendEnds
      <4>2. ASSUME AppendsSource PROVE doing' # "merge"
        BY <4>2 DEF AppendsSource
      <4>3. CASE ReadsSource
        BY <4>3, ReadsSourceStep
      <4>4. CASE ResolvesDuplicate(Head(pending))
        BY <4>4, ResolvesDuplicateStep
      <4>5. CASE AddsRow(Head(pending))
        BY <4>5, AddsRowStep
      <4>6. QED
        BY <3>2, <3>8, <4>1, <4>2, <4>3, <4>4, <4>5 DEF Merges
    <3>9. MergerWork'
      BY <2>2, <3>2, <3>3, <3>4, <3>5, <3>6, <3>7, <3>8 DEF MergerNext
    <3>10. QED
      BY <3>1, <3>9 DEF MergerFits
  <2>3. QED
    BY <2>1, <2>2
<1>3. QED
  BY <1>1, <1>2, PTL DEF MergerSpec

LEMMA MergeFits ==
  ASSUME MergerFits
  PROVE  MergeExact
<1>1. IndexExact
  BY DEF MergerFits, MergerWork, IndexFits, IndexExact, KeyOf
<1>2. MergeIsExact
  <2> SUFFICES ASSUME doing = "merge", merge_config.rule # "fuzzy" PROVE MergeIsExact
    BY DEF MergeIsExact
  <2> DEFINE h == merged_headers
             c == merge_config
             B == BegunOf(seen, h, c)
  <2>1. /\ WorkTypes /\ RowsFit(seen, all_rows, B, h, c)
        /\ merge_stats.processed = Len(seen) /\ merge_stats.removed = Len(seen) - Len(all_rows)
    BY DEF MergerFits, MergerWork, ResultFits
  <2>2. /\ all_rows \in Seq(Row) /\ DOMAIN all_rows = 1 .. Len(all_rows)
    BY <2>1 DEF WorkTypes
  <2>3. Begun = B
    BY DEF Begun, SameRow, Indexed, KeyOf, BegunOf, Firsts, HasKey, Alike
  <2>4. \A i : Class(i) = ClassOf(i, seen, h, c)
    BY DEF Class, SameRow, Indexed, KeyOf, ClassOf, HasKey, Alike
  <2> HIDE DEF h, c, B
  <2>5. Len(all_rows) = Len(Begun)
    BY <2>1, <2>3 DEF RowsFit
  <2>6. \A k \in DOMAIN all_rows : Holds(all_rows[k], seen, Begun[k], Class(Begun[k]), c)
    BY <2>1, <2>2, <2>3, <2>4 DEF RowsFit, RowFits
  <2>7. CASE c.keep = "merge"
    <3>1. \A k \in DOMAIN all_rows : \A col \in DOMAIN all_rows[k] :
            CellOf(all_rows[k][col], CellsIn(col, seen, Class(Begun[k])))
      BY <2>6, <2>7 DEF Holds, MadeOf
    <3>2. QED
      BY <2>1, <2>5, <2>7, <3>1 DEF MergeIsExact, CellOf, CellsIn, c
  <2>8. CASE c.keep \in {"last", "newest"}
    <3>1. \A k \in DOMAIN all_rows : all_rows[k] = seen[Max(Class(Begun[k]))]
      BY <2>6, <2>8 DEF Holds
    <3>2. QED
      BY <2>1, <2>5, <2>8, <3>1 DEF MergeIsExact, c
  <2>9. CASE c.keep \notin {"merge", "last", "newest"}
    <3>1. \A k \in DOMAIN all_rows : all_rows[k] = seen[Begun[k]]
      BY <2>6, <2>9 DEF Holds
    <3>2. QED
      BY <2>1, <2>5, <2>9, <3>1 DEF MergeIsExact, c
  <2>10. QED
    BY <2>7, <2>8, <2>9
<1>3. QED
  BY <1>1, <1>2 DEF MergeExact

\* However many sources a merge has, in whatever order it reads them and whatever it
\* keeps of two rows that are the same: the index finds every row of the result, and the
\* result is the one the rows read so far ask for, row by row.
THEOREM MergesAreExact ==
  ASSUME PlainCells
  PROVE  MergerSpec => []MergeExact
<1>1. MergerFits => MergeExact
  BY MergeFits
<1>2. QED
  BY <1>1, MergerFitsAlways, PTL
=============================================================================
