----------------------------- MODULE PacketProofs ----------------------------
(***************************************************************************)
(* What the codecs promise for every packet: a frame is opened to what was *)
(* put into it, also when others stuck to it; fields, lists and whole      *)
(* bodies are read as they were written; the check octet holds; a message  *)
(* comes out of a packet with the header and the body it had; and a        *)
(* setting replaces what is stored.  Nothing here is about a state.        *)
(***************************************************************************)
EXTENDS PacketNotions, TLAPS, WellFoundedInduction, SequenceTheorems, FiniteSetTheorems

-----------------------------------------------------------------------------
(* Numbers and sequences.  Induction goes by the least number that a set   *)
(* of counterexamples holds.                                               *)

LEMMA Regroup ==
    ASSUME NEW X, NEW a \in Seq(X), NEW b \in Seq(X), NEW c \in Seq(X)
    PROVE  Assoc(a, b, c) /\ a \o b \in Seq(X) /\ b \o c \in Seq(X)
BY ConcatAssociative, ConcatProperties DEF Assoc

LEMMA Least ==
    ASSUME NEW T \in SUBSET Nat, T # {}
    PROVE  \E x \in T : \A y \in T : x <= y
<1> DEFINE R == OpToRel(<, Nat)
<1>1. PICK x \in T : \A y \in T : ~(<<y, x>> \in R)
  BY WFMin, NatLessThanWellFounded
<1>2. \A z, y \in Nat : y < z => <<y, z>> \in R
  BY DEF OpToRel
<1> HIDE DEF R
<1>3. \A y \in T : ~(y < x)
  BY <1>1, <1>2, Zenon
<1> QED
  BY <1>3

\* What holds at 0 and is handed on from each number to the next holds up to n.
LEMMA UpTo ==
    ASSUME NEW n \in Nat, NEW S \in SUBSET (0..n), 0 \in S,
           \A i \in 1..n : i - 1 \in S => i \in S
    PROVE  \A i \in 0..n : i \in S
<1> SUFFICES ASSUME NEW i \in 0..n, i \notin S PROVE FALSE
  OBVIOUS
<1>1. (0..n) \ S \in SUBSET Nat /\ (0..n) \ S # {}
  OBVIOUS
<1>2. PICK x \in (0..n) \ S : \A y \in (0..n) \ S : x <= y
  BY <1>1, Least
<1>3. x # 0 /\ x \in 1..n /\ x - 1 \in 0..n
  BY <1>2
<1>4. x - 1 \in S
  BY <1>2, <1>3
<1> QED
  BY <1>2, <1>3, <1>4

\* FlattenSeq puts the sequences of ps one behind the other.
LEMMA FlattenSteps ==
    ASSUME NEW X, NEW ps \in Seq(Seq(X))
    PROVE  \E f \in [0..Len(ps) -> Seq(X)] :
             /\ f[0] = <<>>
             /\ \A i \in 1..Len(ps) : f[i] = f[i - 1] \o ps[i]
             /\ FlattenSeq(ps) = f[Len(ps)]
<1> DEFINE n == Len(ps)
           Steps(k, g) == /\ g[0] = <<>>
                          /\ \A i \in 1..k : g[i] = g[i - 1] \o ps[i]
           Possible(k) == \E g \in [0..k -> Seq(X)] : Steps(k, g)
           S == {k \in 0..n : Possible(k)}
<1>1. n \in Nat /\ \A i \in 1..n : ps[i] \in Seq(X)
  BY LenProperties, ElementOfSeq
<1> HIDE DEF n
<1>2. Possible(0)
  <2> DEFINE g == [i \in 0..0 |-> <<>>]
  <2>1. g \in [0..0 -> Seq(X)] /\ g[0] = <<>>
    BY EmptySeq
  <2> HIDE DEF g
  <2>2. Steps(0, g)
    BY <2>1
  <2> QED
    BY <2>1, <2>2
<1>3. ASSUME NEW k \in 1..n, Possible(k - 1) PROVE Possible(k)
  <2>1. PICK g \in [0..k - 1 -> Seq(X)] : Steps(k - 1, g)
    BY <1>3
  <2> DEFINE h == [i \in 0..k |-> IF i = k THEN g[k - 1] \o ps[k] ELSE g[i]]
  <2>2. g[k - 1] \o ps[k] \in Seq(X)
    BY <1>1, <2>1
  <2>3. h \in [0..k -> Seq(X)]
    BY <1>1, <2>1, <2>2
  <2>4. /\ k \in 0..k /\ \A i \in 0..k - 1 : i # k /\ i \in 0..k
        /\ \A i \in 1..k : i # k => i \in 1..k - 1 /\ i - 1 \in 0..k - 1
        /\ k - 1 \in 0..k - 1 /\ 0 \in 0..k - 1
    BY <1>1
  <2>5. h[k] = g[k - 1] \o ps[k] /\ \A i \in 0..k - 1 : h[i] = g[i]
    BY <2>4, Zenon
  <2> HIDE DEF h
  <2>6. Steps(k, h)
    <3>1. h[0] = <<>>
      BY <2>1, <2>4, <2>5
    <3>2. ASSUME NEW i \in 1..k PROVE h[i] = h[i - 1] \o ps[i]
      <4>1. CASE i = k
        BY <2>4, <2>5, <4>1, Zenon
      <4>2. CASE i # k
        <5>1. h[i] = g[i] /\ h[i - 1] = g[i - 1]
          BY <2>4, <2>5, <4>2
        <5> QED
          BY <2>1, <2>4, <4>2, <5>1, Zenon
      <4> QED
        BY <4>1, <4>2
    <3> QED
      BY <3>1, <3>2
  <2> QED
    BY <2>3, <2>6
<1> HIDE DEF Possible
<1>4. PICK f \in [0..n -> Seq(X)] : Steps(n, f)
  <2>1. S \in SUBSET (0..n) /\ 0 \in S
    BY <1>1, <1>2
  <2>2. \A k \in 1..n : k - 1 \in S => k \in S
    BY <1>1, <1>3
  <2> HIDE DEF S
  <2>3. \A k \in 0..n : k \in S
    BY <1>1, <2>1, <2>2, UpTo
  <2>4. Possible(n)
    BY <1>1, <2>3 DEF S
  <2> QED
    BY <2>4, Zenon DEF Possible
<1>5. CASE n = 0
  <2>1. ps = <<>> /\ FlattenSeq(ps) = ps
    BY <1>5, EmptySeq DEF n, FlattenSeq
  <2> QED
    BY <1>4, <1>5, <2>1 DEF n
<1>6. CASE n # 0
  <2> DEFINE step(g) == [i \in 1..n |-> IF i = 1 THEN ps[i] ELSE g[i - 1] \o ps[i]]
             flat == CHOOSE g : g = step(g)
             f1 == [i \in 1..n |-> f[i]]
  <2>1. \A i \in 1..n : f[i] = IF i = 1 THEN ps[i] ELSE f1[i - 1] \o ps[i]
    <3> SUFFICES ASSUME NEW i \in 1..n
                 PROVE  f[i] = IF i = 1 THEN ps[i] ELSE f1[i - 1] \o ps[i]
      OBVIOUS
    <3>1. f[i] = f[i - 1] \o ps[i]
      BY <1>4
    <3>2. CASE i = 1
      <4>1. f[i - 1] = <<>>
        BY <1>4, <3>2
      <4> QED
        BY <1>1, <3>1, <3>2, <4>1, ConcatEmptySeq
    <3>3. CASE i # 1
      <4>1. f1[i - 1] = f[i - 1]
        BY <1>1, <3>3
      <4> QED
        BY <3>1, <3>3, <4>1
    <3> QED
      BY <3>2, <3>3
  <2>2. f1 = step(f1)
    BY <2>1, Zenon
  <2>3. flat = step(flat)
    BY <2>2, Zenon
  <2>4. FlattenSeq(ps) = flat[n]
    BY <1>6, Zenon DEF FlattenSeq, n
  <2>5. \A k \in 1..n : flat[k] = IF k = 1 THEN ps[k] ELSE flat[k - 1] \o ps[k]
    BY <2>3, Zenon
  <2> HIDE DEF flat, f1, step
  <2> DEFINE T == {k \in 0..n : k = 0 \/ flat[k] = f[k]}
  <2>6. ASSUME NEW k \in 1..n, k - 1 \in T PROVE k \in T
    <3>1. f[k] = f[k - 1] \o ps[k]
      BY <1>4
    <3>2. CASE k = 1
      <4>1. f[k - 1] = <<>>
        BY <1>4, <3>2
      <4>2. f[k] = ps[k]
        BY <1>1, <3>1, <4>1, ConcatEmptySeq
      <4> QED
        BY <2>5, <3>2, <4>2
    <3>3. CASE k # 1
      <4>1. flat[k - 1] = f[k - 1]
        BY <2>6, <3>3
      <4>2. flat[k] = f[k]
        BY <2>5, <3>1, <3>3, <4>1, Zenon
      <4> QED
        BY <4>2
    <3> QED
      BY <3>2, <3>3
  <2>7. 0 \in T /\ T \in SUBSET (0..n)
    BY <1>1
  <2> HIDE DEF T
  <2>8. n \in T
    <3>1. \A k \in 0..n : k \in T
      BY <1>1, <2>6, <2>7, UpTo
    <3> QED
      BY <1>1, <3>1
  <2> QED
    BY <1>4, <1>6, <2>4, <2>8 DEF n, T
<1> QED
  BY <1>5, <1>6

\* What a sequence put behind another one holds.
LEMMA Behind ==
    ASSUME NEW X, NEW g \in Seq(X), NEW p \in Seq(X), NEW r, r = g \o p
    PROVE  /\ r \in Seq(X) /\ Len(r) = Len(g) + Len(p)
           /\ \A j \in 1..Len(g) : r[j] = g[j]
           /\ \A k \in 1..Len(p) : r[Len(g) + k] = p[k]
<1>1. Len(g) \in Nat /\ Len(p) \in Nat
  BY LenProperties
<1>2. /\ r \in Seq(X) /\ Len(r) = Len(g) + Len(p)
      /\ \A i \in 1..Len(g) + Len(p) : r[i] = IF i <= Len(g) THEN g[i] ELSE p[i - Len(g)]
  BY ConcatProperties
<1>3. ASSUME NEW j \in 1..Len(g) PROVE r[j] = g[j]
  BY <1>1, <1>2
<1>4. ASSUME NEW k \in 1..Len(p) PROVE r[Len(g) + k] = p[k]
  <2>1. /\ Len(g) + k \in 1..Len(g) + Len(p) /\ ~(Len(g) + k <= Len(g))
        /\ (Len(g) + k) - Len(g) = k
    BY <1>1
  <2> QED
    BY <1>2, <2>1
<1> QED
  BY <1>2, <1>3, <1>4

-----------------------------------------------------------------------------
(* Sizes add up.                                                           *)

LEMMA SumExists ==
    ASSUME NEW X, \A x \in X : x.size \in Nat, NEW s \in Seq(X)
    PROVE  \E f : SumSteps(s, f)
<1> DEFINE n == Len(s)
           Sum(k, g) == /\ g \in [0..k -> Nat] /\ g[0] = 0
                        /\ \A i \in 1..k : g[i] = g[i - 1] + s[i].size
           Possible(k) == \E g : Sum(k, g)
           S == {k \in 0..n : Possible(k)}
<1>1. n \in Nat /\ \A i \in 1..n : s[i].size \in Nat
  BY LenProperties, ElementOfSeq
<1> HIDE DEF n
<1>2. Possible(0)
  <2> DEFINE g == [i \in 0..0 |-> 0]
  <2>1. Sum(0, g)
    OBVIOUS
  <2> HIDE DEF g, Sum
  <2> QED
    BY <2>1
<1>3. ASSUME NEW k \in 1..n, Possible(k - 1) PROVE Possible(k)
  <2>1. PICK g : Sum(k - 1, g)
    BY <1>3
  <2> DEFINE h == [i \in 0..k |-> IF i = k THEN g[k - 1] + s[k].size ELSE g[i]]
  <2>2. /\ k \in 0..k /\ \A i \in 0..k - 1 : i # k /\ i \in 0..k
        /\ \A i \in 1..k : i # k => i \in 1..k - 1 /\ i - 1 \in 0..k - 1
        /\ k - 1 \in 0..k - 1 /\ 0 \in 0..k - 1
        /\ \A i \in 0..k : i # k => i \in 0..k - 1
    BY <1>1
  <2>3. g[k - 1] + s[k].size \in Nat
    BY <1>1, <2>1, <2>2
  <2>4. h \in [0..k -> Nat]
    BY <2>1, <2>2, <2>3
  <2>5. h[k] = g[k - 1] + s[k].size /\ \A i \in 0..k - 1 : h[i] = g[i]
    BY <2>2, Zenon
  <2> HIDE DEF h
  <2>6. Sum(k, h)
    <3>1. h[0] = 0
      BY <2>1, <2>2, <2>5
    <3>2. ASSUME NEW i \in 1..k PROVE h[i] = h[i - 1] + s[i].size
      <4>1. CASE i = k
        BY <2>2, <2>5, <4>1, Zenon
      <4>2. CASE i # k
        <5>1. h[i] = g[i] /\ h[i - 1] = g[i - 1]
          BY <2>2, <2>5, <4>2
        <5> QED
          BY <2>1, <2>2, <4>2, <5>1, Zenon
      <4> QED
        BY <4>1, <4>2
    <3> QED
      BY <2>4, <3>1, <3>2
  <2> QED
    BY <2>6
<1> HIDE DEF Possible
<1>4. S \in SUBSET (0..n) /\ 0 \in S /\ \A k \in 1..n : k - 1 \in S => k \in S
  BY <1>1, <1>2, <1>3
<1> HIDE DEF S
<1>5. \A k \in 0..n : k \in S
  BY <1>1, <1>4, UpTo
<1>6. Possible(n)
  BY <1>1, <1>5 DEF S
<1> QED
  BY <1>6, Zenon DEF Possible, SumSteps, n

\* SizeOf is the last of the partial sums.
LEMMA SizeIs ==
    ASSUME NEW s, Len(s) \in Nat, NEW f, SumSteps(s, f)
    PROVE  SizeOf(s) = f[Len(s)]
<1> DEFINE n == Len(s)
           step(g) == [i \in 0..n |-> IF i = 0 THEN 0 ELSE g[i - 1] + s[i].size]
           sum == CHOOSE g : g = step(g)
<1>1. SizeOf(s) = sum[n]
  BY Zenon DEF SizeOf, Through
<1>2. f = step(f)
  <2>1. \A i \in 0..n : f[i] = IF i = 0 THEN 0 ELSE f[i - 1] + s[i].size
    BY DEF SumSteps
  <2> HIDE DEF n
  <2>2. f \in [0..n -> Nat]
    BY DEF SumSteps, n
  <2> QED
    BY <2>1, <2>2, Zenon
<1>3. sum = step(sum)
  BY <1>2, Zenon
<1>4. \A i \in 0..n : sum[i] = IF i = 0 THEN 0 ELSE sum[i - 1] + s[i].size
  BY <1>3, Zenon
<1> HIDE DEF sum
<1> DEFINE S == {i \in 0..n : sum[i] = f[i]}
<1>5. S \in SUBSET (0..n) /\ 0 \in S
  BY <1>4 DEF SumSteps
<1>6. ASSUME NEW i \in 1..n, i - 1 \in S PROVE i \in S
  <2>1. i \in 0..n /\ i # 0
    OBVIOUS
  <2>2. sum[i] = sum[i - 1] + s[i].size /\ f[i] = f[i - 1] + s[i].size
    BY <1>4, <2>1 DEF SumSteps
  <2> QED
    BY <1>6, <2>1, <2>2
<1> HIDE DEF S
<1>7. n \in S
  BY <1>5, <1>6, UpTo
<1> QED
  BY <1>1, <1>7 DEF S

LEMMA SizeEmpty == SizeOf(<<>>) = 0
<1> DEFINE f == [i \in 0..0 |-> 0]
<1>1. Len(<<>>) = 0
  OBVIOUS
<1>2. SumSteps(<<>>, f)
  BY <1>1 DEF SumSteps
<1>3. f[Len(<<>>)] = 0
  BY <1>1
<1> HIDE DEF f
<1> QED
  BY <1>1, <1>2, <1>3, SizeIs

LEMMA SizeOne ==
    ASSUME NEW x, x.size \in Nat
    PROVE  SizeOf(<<x>>) = x.size
<1> DEFINE f == [i \in 0..1 |-> IF i = 0 THEN 0 ELSE x.size]
           s == <<x>>
<1>1. Len(s) = 1 /\ s[1] = x
  OBVIOUS
<1>2. f \in [0..1 -> Nat] /\ f[0] = 0 /\ f[1] = x.size
  OBVIOUS
<1> HIDE DEF f, s
<1>3. SumSteps(s, f)
  BY <1>1, <1>2 DEF SumSteps
<1>4. SizeOf(s) = x.size
  BY <1>1, <1>2, <1>3, SizeIs
<1> QED
  BY <1>4 DEF s

\* The sizes of two sequences, one behind the other, add up.
LEMMA SizeBehind ==
    ASSUME NEW X, \A x \in X : x.size \in Nat, NEW s \in Seq(X), NEW t \in Seq(X)
    PROVE  /\ SizeOf(s) \in Nat /\ SizeOf(t) \in Nat
           /\ SizeOf(s \o t) = SizeOf(s) + SizeOf(t)
<1> DEFINE m == Len(s)
           n == Len(t)
           r == s \o t
<1>1. PICK f : SumSteps(s, f)
  BY SumExists
<1>2. PICK g : SumSteps(t, g)
  BY SumExists
<1>3. m \in Nat /\ n \in Nat
  BY LenProperties
<1>4. /\ \A i \in 1..m : f[i] = f[i - 1] + s[i].size
      /\ \A i \in 1..n : g[i] = g[i - 1] + t[i].size /\ t[i].size \in Nat
  BY <1>1, <1>2, ElementOfSeq DEF SumSteps
<1>5. SizeOf(s) = f[m] /\ SizeOf(t) = g[n]
  BY <1>1, <1>2, <1>3, SizeIs
<1>6. f \in [0..m -> Nat] /\ g \in [0..n -> Nat]
  BY <1>1, <1>2 DEF SumSteps
<1>7. f[m] \in Nat /\ g[n] \in Nat
  <2> HIDE DEF m, n
  <2>1. m \in 0..m /\ n \in 0..n
    BY <1>3
  <2> QED
    BY <1>6, <2>1
<1>8. /\ Len(r) = m + n
      /\ \A j \in 1..m : r[j] = s[j]
      /\ \A j \in 1..n : r[m + j] = t[j]
  <2>1. r = s \o t
    OBVIOUS
  <2> HIDE DEF r
  <2> QED
    BY <2>1, Behind
<1> HIDE DEF m, n, r
<1> DEFINE h == [i \in 0..m + n |-> IF i <= m THEN f[i] ELSE f[m] + g[i - m]]
<1>9. /\ \A i \in 0..m : h[i] = f[i]
      /\ \A i \in 0..n : h[m + i] = f[m] + g[i]
  <2>1. \A i \in 0..m : h[i] = f[i]
    BY <1>3
  <2>2. ASSUME NEW i \in 0..n PROVE h[m + i] = f[m] + g[i]
    <3>1. CASE i = 0
      <4>1. g[i] = 0 /\ m + i = m
        BY <1>2, <1>3, <3>1 DEF SumSteps
      <4> QED
        BY <1>3, <1>7, <2>1, <4>1
    <3>2. CASE i # 0
      <4>1. m + i \in 0..m + n /\ ~(m + i <= m) /\ (m + i) - m = i
        BY <1>3, <3>2
      <4> QED
        BY <4>1
    <3> QED
      BY <3>1, <3>2
  <2> QED
    BY <2>1, <2>2
<1>10. h \in [0..m + n -> Nat]
  <2>1. ASSUME NEW i \in 0..m + n PROVE (IF i <= m THEN f[i] ELSE f[m] + g[i - m]) \in Nat
    <3>1. i <= m => i \in 0..m
      OBVIOUS
    <3>2. ~(i <= m) => i - m \in 0..n
      BY <1>3
    <3> QED
      BY <1>6, <1>7, <3>1, <3>2
  <2> QED
    BY <2>1
<1> HIDE DEF h
<1>11. h[0] = 0
  BY <1>1, <1>3, <1>9 DEF SumSteps
<1>12. ASSUME NEW i \in 1..m + n PROVE h[i] = h[i - 1] + r[i].size
  <2>1. CASE i <= m
    <3>1. i \in 1..m /\ i \in 0..m /\ i - 1 \in 0..m
      BY <1>3, <2>1
    <3>2. f[i] = f[i - 1] + s[i].size
      BY <1>4, <3>1
    <3> QED
      BY <1>8, <1>9, <3>1, <3>2
  <2>2. CASE ~(i <= m)
    <3> DEFINE j == i - m
    <3>1. /\ j \in 1..n /\ j \in 0..n /\ j - 1 \in 0..n
          /\ i = m + j /\ i - 1 = m + (j - 1)
      BY <1>3, <2>2
    <3> HIDE DEF j
    <3>2. g[j] = g[j - 1] + t[j].size
      BY <1>4, <3>1
    <3>3. h[i] = f[m] + g[j] /\ h[i - 1] = f[m] + g[j - 1] /\ r[i] = t[j]
      BY <1>8, <1>9, <3>1
    <3>4. g[j - 1] \in Nat /\ t[j].size \in Nat
      BY <1>6, <1>4, <3>1
    <3> QED
      BY <1>7, <3>2, <3>3, <3>4
  <2> QED
    BY <2>1, <2>2
<1>13. SumSteps(r, h)
  BY <1>8, <1>10, <1>11, <1>12 DEF SumSteps
<1>14. SizeOf(r) = h[m + n]
  <2>1. Len(r) \in Nat /\ m + n = Len(r)
    BY <1>3, <1>8
  <2>2. SizeOf(r) = h[Len(r)]
    BY <1>13, <2>1, SizeIs
  <2> QED
    BY <2>1, <2>2
<1>15. h[m + n] = f[m] + g[n]
  BY <1>3, <1>9
<1> QED
  BY <1>5, <1>7, <1>14, <1>15 DEF r

LEMMA Split ==
    ASSUME NEW X, NEW s \in Seq(X), NEW k \in 0..Len(s)
    PROVE  /\ First(s, k) \in Seq(X) /\ Len(First(s, k)) = k
           /\ Others(s, k) \in Seq(X) /\ Len(Others(s, k)) = Len(s) - k
           /\ s = First(s, k) \o Others(s, k)
           /\ k < Len(s) => Head(Others(s, k)) = s[k + 1]
<1> DEFINE a == First(s, k)
           b == Others(s, k)
<1>1. Len(s) \in Nat /\ \A i \in 1..Len(s) : s[i] \in X
  BY LenProperties, ElementOfSeq
<1> DEFINE n == Len(s)
<1>2. a = [i \in 1..k |-> s[i]] /\ b = [i \in 1..n - k |-> s[k + i]]
  BY <1>1 DEF First, Others
<1>3. n \in Nat /\ k \in 0..n /\ n = Len(s) /\ \A i \in 1..n : s[i] \in X
  BY <1>1
<1> HIDE DEF n, a, b
<1>4. a \in Seq(X) /\ Len(a) = k /\ \A i \in 1..k : a[i] = s[i]
  BY <1>2, <1>3
<1>5. b \in Seq(X) /\ Len(b) = n - k /\ \A i \in 1..n - k : b[i] = s[k + i]
  BY <1>2, <1>3
<1>6. s = a \o b
  <2> DEFINE r == a \o b
  <2>1. /\ r \in Seq(X) /\ Len(r) = Len(a) + Len(b)
        /\ \A j \in 1..Len(a) : r[j] = a[j]
        /\ \A j \in 1..Len(b) : r[Len(a) + j] = b[j]
    <3>1. r = a \o b /\ a \in Seq(X) /\ b \in Seq(X)
      BY <1>4, <1>5
    <3> HIDE DEF r
    <3> QED
      BY <3>1, Behind
  <2> HIDE DEF r
  <2>2. Len(r) = n
    BY <1>3, <1>4, <1>5, <2>1
  <2>3. ASSUME NEW i \in 1..n PROVE r[i] = s[i]
    <3>1. CASE i <= k
      BY <1>3, <1>4, <2>1, <3>1
    <3>2. CASE ~(i <= k)
      <4>1. i - k \in 1..n - k /\ k + (i - k) = i
        BY <1>3, <3>2
      <4> QED
        BY <1>4, <1>5, <2>1, <4>1
    <3> QED
      BY <3>1, <3>2
  <2>4. r = s
    BY <1>3, <2>1, <2>2, <2>3, SeqEqual
  <2> QED
    BY <2>4 DEF r
<1>7. k < Len(s) => Head(b) = s[k + 1]
  BY <1>3, <1>5
<1> QED
  BY <1>3, <1>4, <1>5, <1>6, <1>7 DEF a, b

LEMMA UptoFacts ==
    ASSUME NEW X, \A x \in X : x.size \in Nat, NEW s \in Seq(X)
    PROVE  /\ Upto(s, 0) = 0
           /\ Upto(s, Len(s)) = SizeOf(s)
           /\ \A i \in 0..Len(s) :
                 /\ Upto(s, i) \in Nat
                 /\ SizeOf(Others(s, i)) \in Nat
                 /\ SizeOf(s) = Upto(s, i) + SizeOf(Others(s, i))
           /\ \A i \in 1..Len(s) : Upto(s, i) = Upto(s, i - 1) + s[i].size
<1>1. Len(s) \in Nat /\ \A i \in 1..Len(s) : s[i] \in X
  BY LenProperties, ElementOfSeq
<1>2. Upto(s, 0) = 0
  <2>1. First(s, 0) = <<>>
    BY DEF First
  <2> QED
    BY <2>1, SizeEmpty DEF Upto
<1>3. Upto(s, Len(s)) = SizeOf(s)
  <2>1. First(s, Len(s)) = s
    BY DEF First
  <2> QED
    BY <2>1 DEF Upto
<1>4. ASSUME NEW i \in 0..Len(s)
      PROVE  /\ Upto(s, i) \in Nat
             /\ SizeOf(Others(s, i)) \in Nat
             /\ SizeOf(s) = Upto(s, i) + SizeOf(Others(s, i))
  <2> DEFINE a == First(s, i)
             b == Others(s, i)
  <2>1. a \in Seq(X) /\ b \in Seq(X) /\ s = a \o b
    BY Split
  <2> HIDE DEF a, b
  <2>2. SizeOf(a) \in Nat /\ SizeOf(b) \in Nat /\ SizeOf(a \o b) = SizeOf(a) + SizeOf(b)
    BY <2>1, SizeBehind
  <2>3. SizeOf(s) = SizeOf(a) + SizeOf(b)
    BY <2>1, <2>2, Zenon
  <2> QED
    BY <2>2, <2>3 DEF Upto, a, b
<1>5. ASSUME NEW i \in 1..Len(s) PROVE Upto(s, i) = Upto(s, i - 1) + s[i].size
  <2> DEFINE c == First(s, i)
             a == First(c, i - 1)
             b == Others(c, i - 1)
  <2>1. i - 1 \in 0..Len(s) /\ i \in 0..Len(s) /\ i - 1 \in 0..i /\ i - 1 < i /\ (i - 1) + 1 = i
    BY <1>1
  <2>2. c \in Seq(X) /\ Len(c) = i
    BY <2>1, Split
  <2>3. c \in Seq(X) /\ i - 1 \in 0..Len(c) /\ Len(c) - (i - 1) = 1
    BY <2>1, <2>2
  <2>4. a = First(s, i - 1) /\ c[i] = s[i]
    <3>1. c = [j \in 1..i |-> s[j]] /\ First(s, i - 1) = [j \in 1..i - 1 |-> s[j]]
      BY <1>1 DEF First
    <3> HIDE DEF c
    <3>2. a = [j \in 1..i - 1 |-> s[j]]
      BY <2>1, <2>2, <3>1 DEF First
    <3> QED
      BY <2>1, <3>1, <3>2
  <2> HIDE DEF c
  <2>5. /\ a \in Seq(X) /\ b \in Seq(X) /\ c = a \o b
        /\ Len(b) = 1 /\ b[1] = s[i]
    <3>1. /\ a \in Seq(X) /\ b \in Seq(X) /\ c = a \o b
          /\ Len(b) = Len(c) - (i - 1)
          /\ i - 1 < Len(c) => Head(b) = c[(i - 1) + 1]
      BY <2>3, Split
    <3>2. i - 1 < Len(c)
      BY <2>1, <2>2
    <3> HIDE DEF a, b
    <3>3. Head(b) = b[1]
      BY <3>1
    <3> QED
      BY <2>1, <2>3, <2>4, <3>1, <3>2, <3>3
  <2> HIDE DEF a, b
  <2>6. SizeOf(b) = s[i].size
    <3>1. b = <<b[1]>>
      BY <2>5
    <3> QED
      BY <1>1, <2>5, <3>1, SizeOne
  <2>7. SizeOf(c) = SizeOf(a) + SizeOf(b)
    BY <2>5, SizeBehind
  <2> QED
    BY <2>4, <2>6, <2>7 DEF Upto, c
<1> QED
  BY <1>2, <1>3, <1>4, <1>5

\* How many frames there are wholly among the first m octets
LEMMA GoneIs ==
    ASSUME NEW X, \A x \in X : x.size \in Nat, NEW s \in Seq(X), NEW m \in Nat,
           NEW g, Cardinality({i \in DOMAIN s : SizeOf(SubSeq(s, 1, i)) <= m}) = g
    PROVE  /\ g \in 0..Len(s)
           /\ Upto(s, g) <= m
           /\ g < Len(s) => m < Upto(s, g + 1)
<1> DEFINE n == Len(s)
           D == {i \in DOMAIN s : SizeOf(SubSeq(s, 1, i)) <= m}
           T == {k \in 0..n : k = n \/ m < Upto(s, k + 1)}
           U(c) == {i \in 0..n : i <= c \/ m < Upto(s, i)}
<1>1. n \in Nat /\ D = {i \in 1..n : Upto(s, i) <= m}
  BY LenProperties DEF Upto, First
<1>2. /\ Upto(s, 0) = 0
      /\ \A i \in 0..n : Upto(s, i) \in Nat
      /\ \A i \in 1..n : Upto(s, i - 1) <= Upto(s, i)
  <2>1. /\ Upto(s, 0) = 0
        /\ \A i \in 0..n : Upto(s, i) \in Nat
        /\ \A i \in 1..n : Upto(s, i) = Upto(s, i - 1) + s[i].size
    BY UptoFacts, Zenon
  <2>2. \A i \in 1..n : s[i].size \in Nat /\ i - 1 \in 0..n
    BY <1>1, ElementOfSeq
  <2> HIDE DEF n
  <2>3. ASSUME NEW i \in 1..n PROVE Upto(s, i - 1) <= Upto(s, i)
    <3>1. Upto(s, i) = Upto(s, i - 1) + s[i].size /\ Upto(s, i - 1) \in Nat /\ s[i].size \in Nat
      BY <2>1, <2>2, Zenon
    <3> QED
      BY <3>1
  <2> QED
    BY <2>1, <2>3, Zenon
<1>3. Cardinality(D) = g
  OBVIOUS
<1> HIDE DEF n, D
<1>4. PICK c \in T : \A y \in T : c <= y
  <2>1. T \in SUBSET Nat /\ n \in T
    BY <1>1
  <2> HIDE DEF T
  <2> QED
    BY <2>1, Least
<1>5. c \in 0..n /\ (c # n => m < Upto(s, c + 1))
  BY <1>4
<1>6. ASSUME NEW i \in 1..n, i <= c PROVE Upto(s, i) <= m
  <2>1. i - 1 \in 0..n /\ i - 1 # n /\ (i - 1) + 1 = i /\ ~(c <= i - 1)
    BY <1>1, <1>5, <1>6
  <2>2. ~(m < Upto(s, i))
    BY <1>4, <2>1
  <2> QED
    BY <1>1, <1>2, <2>2
<1>7. \A i \in 0..n : i \in U(c)
  <2>1. 0 \in U(c) /\ U(c) \in SUBSET (0..n)
    BY <1>1, <1>5
  <2>2. ASSUME NEW i \in 1..n, i - 1 \in U(c) PROVE i \in U(c)
    <3>1. i \in 0..n /\ i - 1 \in 0..n
      BY <1>1
    <3>2. CASE i <= c
      BY <3>1, <3>2
    <3>3. CASE i = c + 1
      BY <1>1, <1>5, <3>1, <3>3
    <3>4. CASE i > c + 1
      <4>1. m < Upto(s, i - 1)
        BY <1>5, <2>2, <3>4
      <4> QED
        BY <1>2, <3>1, <4>1
    <3> QED
      BY <1>5, <3>2, <3>3, <3>4
  <2> HIDE DEF U
  <2> QED
    BY <1>1, <2>1, <2>2, UpTo
<1>8. D = 1..c
  <2>1. ASSUME NEW i \in D PROVE i \in 1..c
    BY <1>1, <1>2, <1>5, <1>7
  <2>2. ASSUME NEW i \in 1..c PROVE i \in D
    BY <1>1, <1>5, <1>6
  <2> QED
    BY <2>1, <2>2
<1>9. c = g
  <2>1. Cardinality(1..c) = IF 1 > c THEN 0 ELSE c - 1 + 1
    BY <1>5, FS_Interval
  <2> QED
    BY <1>3, <1>5, <1>8, <2>1
<1>10. Upto(s, c) <= m
  BY <1>1, <1>2, <1>5, <1>6
<1> QED
  BY <1>1, <1>5, <1>9, <1>10 DEF n

-----------------------------------------------------------------------------
(* Escaping is undone by unescaping, whatever the octets.                  *)

LEMMA EscapedOctet ==
    ASSUME NEW v \in Octet
    PROVE  /\ v = boundaryMark => Escaped(v) = <<escapeMark, 2>>
           /\ v = escapeMark => Escaped(v) = <<escapeMark, 1>>
           /\ v \notin {boundaryMark, escapeMark} => Escaped(v) = <<v>>
           /\ Escaped(v) \in Seq(Octet)
<1>1. boundaryMark \in Octet /\ escapeMark \in Octet /\ boundaryMark # escapeMark
  BY DEF boundaryMark, escapeMark, Octet
<1>2. CASE v = boundaryMark
  <2>1. Escaped(v) = <<escapeMark, 2>>
    BY <1>1, <1>2, Zenon DEF Escaped
  <2> QED
    BY <1>1, <1>2, <2>1 DEF Octet
<1>3. CASE v = escapeMark
  <2>1. Escaped(v) = <<escapeMark, 1>>
    BY <1>1, <1>3, Zenon DEF Escaped
  <2> QED
    BY <1>1, <1>3, <2>1 DEF Octet
<1>4. CASE v # boundaryMark /\ v # escapeMark
  <2>1. Escaped(v) = <<v>>
    BY <1>4, Zenon DEF Escaped
  <2> QED
    BY <1>4, <2>1
<1> QED
  BY <1>2, <1>3, <1>4

LEMMA UnescapedOctet ==
    ASSUME NEW src, Len(src) \in Nat, NEW i \in Int
    PROVE  /\ Pair(src, i) => Unescaped(src, i) = <<IF src[i + 1] = 2 THEN boundaryMark ELSE escapeMark>>
           /\ ~Pair(src, i) /\ Pair(src, i - 1) => Unescaped(src, i) = <<>>
           /\ ~Pair(src, i) /\ ~Pair(src, i - 1) => Unescaped(src, i) = <<src[i]>>
<1>1. Pair(src, i) => ~Pair(src, i - 1)
  BY DEF Pair, escapeMark
<1> QED
  BY <1>1, Zenon DEF Unescaped

\* What is escaped grows, and does not end in an escape mark.
LEMMA EscapeGrows ==
    ASSUME NEW s \in Seq(Octet), NEW f, EscapeSteps(s, f), NEW i \in 1..Len(s)
    PROVE  /\ Len(f[i]) = Len(f[i - 1]) + Len(Escaped(s[i]))
           /\ Len(f[i]) > Len(f[i - 1])
           /\ \A j \in 1..Len(f[i - 1]) : f[i][j] = f[i - 1][j]
           /\ f[i][Len(f[i])] # escapeMark
<1>0. /\ Len(s) \in Nat /\ i - 1 \in 0..Len(s) /\ s[i] \in Octet
      /\ f[i - 1] \in Seq(Octet) /\ Len(f[i - 1]) \in Nat /\ f[i] = f[i - 1] \o Escaped(s[i])
  <2>1. Len(s) \in Nat /\ i - 1 \in 0..Len(s) /\ s[i] \in Octet
    BY LenProperties, ElementOfSeq
  <2> QED
    BY <2>1, LenProperties DEF EscapeSteps
<1> DEFINE p == Escaped(s[i])
           g == f[i - 1]
<1>1. p \in Seq(Octet) /\ Len(p) \in Nat /\ Len(p) > 0 /\ p[Len(p)] # escapeMark
  <2>1. s[i] \in Octet /\ p \in Seq(Octet)
    BY <1>0, EscapedOctet
  <2>2. CASE s[i] = boundaryMark
    <3>1. p = <<escapeMark, 2>>
      BY <2>1, <2>2, EscapedOctet
    <3> HIDE DEF p
    <3> QED
      BY <2>1, <3>1 DEF escapeMark
  <2>3. CASE s[i] = escapeMark
    <3>1. p = <<escapeMark, 1>>
      BY <2>1, <2>3, EscapedOctet
    <3> HIDE DEF p
    <3> QED
      BY <2>1, <3>1 DEF escapeMark
  <2>4. CASE s[i] \notin {boundaryMark, escapeMark}
    <3>1. p = <<s[i]>>
      BY <2>1, <2>4, EscapedOctet
    <3> HIDE DEF p
    <3> QED
      BY <2>1, <2>4, <3>1
  <2> QED
    BY <2>2, <2>3, <2>4
<1>2. g \in Seq(Octet) /\ Len(g) \in Nat /\ f[i] = g \o p
  BY <1>0
<1> HIDE DEF p, g
<1>3. /\ Len(f[i]) = Len(g) + Len(p)
      /\ \A j \in 1..Len(g) + Len(p) : f[i][j] = IF j <= Len(g) THEN g[j] ELSE p[j - Len(g)]
  BY <1>1, <1>2, ConcatProperties
<1>4. f[i][Len(f[i])] = p[Len(p)]
  BY <1>1, <1>2, <1>3
<1>5. Len(f[i]) > Len(g) /\ f[i][Len(f[i])] # escapeMark
  BY <1>1, <1>2, <1>3, <1>4
<1>6. \A j \in 1..Len(g) : f[i][j] = g[j]
  BY <1>1, <1>2, <1>3
<1> QED
  BY <1>3, <1>5, <1>6 DEF p, g

\* The first octets escaped are a beginning of all of them escaped.
LEMMA EscapeBegins ==
    ASSUME NEW s \in Seq(Octet), NEW f, EscapeSteps(s, f),
           NEW e, f[Len(s)] = e, NEW h \in 0..Len(s)
    PROVE  Len(f[h]) \in 0..Len(e) /\ \A j \in 1..Len(f[h]) : e[j] = f[h][j]
<1> DEFINE n == Len(s)
           Prefix(i) == Len(f[i]) \in 0..Len(e) /\ \A j \in 1..Len(f[i]) : e[j] = f[i][j]
           S == {d \in 0..n : Prefix(n - d)}
<1>1. n \in Nat /\ \A i \in 1..n : s[i] \in Octet /\ i \in 0..n /\ i - 1 \in 0..n
  BY LenProperties, ElementOfSeq
<1> HIDE DEF n
<1>2. /\ \A i \in 0..n : f[i] \in Seq(Octet) /\ Len(f[i]) \in Nat
      /\ \A i \in 1..n : f[i] = f[i - 1] \o Escaped(s[i])
  BY LenProperties DEF EscapeSteps, n
<1>3. \A i \in 1..n : /\ Len(f[i]) = Len(f[i - 1]) + Len(Escaped(s[i]))
                      /\ Len(f[i]) > Len(f[i - 1])
                      /\ \A j \in 1..Len(f[i - 1]) : f[i][j] = f[i - 1][j]
  <2> TAKE i \in 1..n
  <2>1. i \in 1..Len(s)
    BY DEF n
  <2>2. Len(f[i]) = Len(f[i - 1]) + Len(Escaped(s[i]))
    BY <2>1, EscapeGrows
  <2>3. Len(f[i]) > Len(f[i - 1])
    BY <2>1, EscapeGrows
  <2>4. \A j \in 1..Len(f[i - 1]) : f[i][j] = f[i - 1][j]
    BY <2>1, EscapeGrows
  <2> QED
    BY <2>2, <2>3, <2>4
<1>4. Prefix(n)
  BY <1>1, <1>2 DEF n
<1>5. ASSUME NEW i \in 1..n, Prefix(i) PROVE Prefix(i - 1)
  <2>1. Len(f[i]) \in Nat /\ Len(f[i - 1]) \in Nat /\ Len(e) \in Nat
    BY <1>1, <1>2
  <2>2. /\ Len(f[i]) > Len(f[i - 1])
        /\ \A j \in 1..Len(f[i - 1]) : f[i][j] = f[i - 1][j]
    BY <1>3
  <2>3. Len(f[i]) \in 0..Len(e) /\ \A j \in 1..Len(f[i]) : e[j] = f[i][j]
    BY <1>5
  <2>4. Len(f[i - 1]) \in 0..Len(e)
    BY <2>1, <2>2, <2>3
  <2>5. ASSUME NEW j \in 1..Len(f[i - 1]) PROVE e[j] = f[i - 1][j]
    <3>1. j \in 1..Len(f[i])
      BY <2>1, <2>2
    <3> QED
      BY <2>2, <2>3, <3>1, Zenon
  <2> QED
    BY <2>4, <2>5
<1> HIDE DEF Prefix
<1>6. \A d \in 0..n : d \in S
  <2>1. S \in SUBSET (0..n) /\ 0 \in S
    BY <1>1, <1>4
  <2>2. ASSUME NEW d \in 1..n, d - 1 \in S PROVE d \in S
    <3>1. n - (d - 1) \in 1..n /\ Prefix(n - (d - 1)) /\ (n - (d - 1)) - 1 = n - d
      BY <1>1, <2>2
    <3>2. Prefix(n - d)
      BY <1>5, <3>1
    <3> QED
      BY <1>1, <3>2
  <2> HIDE DEF S
  <2> QED
    BY <1>1, <2>1, <2>2, UpTo
<1>7. ASSUME NEW i \in 0..n PROVE Prefix(i)
  <2>1. n - i \in 0..n /\ n - (n - i) = i
    BY <1>1
  <2> QED
    BY <1>6, <2>1
<1> QED
  BY <1>7, Zenon DEF n, Prefix

LEMMA Between ==
    ASSUME NEW e \in Seq(Octet)
    PROVE  /\ Framed(e) \in Seq(Octet) /\ Len(Framed(e)) = Len(e) + 2
           /\ Framed(e)[1] = boundaryMark
           /\ \A j \in 1..Len(e) : Framed(e)[1 + j] = e[j]
<1> DEFINE h == <<boundaryMark>>
           g == h \o e
           src == Framed(e)
<1>1. h \in Seq(Octet) /\ Len(e) \in Nat /\ boundaryMark \in Octet
  BY LenProperties DEF boundaryMark, Octet
<1>2. Len(h) = 1 /\ h[1] = boundaryMark
  BY <1>1
<1>3. g = h \o e /\ src = g \o h
  BY DEF Framed
<1> HIDE DEF g, h, src
<1>4. /\ g \in Seq(Octet) /\ Len(g) = Len(h) + Len(e)
      /\ \A j \in 1..Len(h) : g[j] = h[j]
      /\ \A j \in 1..Len(e) : g[Len(h) + j] = e[j]
  BY <1>1, <1>3, Behind
<1>5. /\ src \in Seq(Octet) /\ Len(src) = Len(g) + Len(h)
      /\ \A j \in 1..Len(g) : src[j] = g[j]
  BY <1>1, <1>3, <1>4, Behind
<1>6. Len(g) = 1 + Len(e) /\ Len(src) = Len(e) + 2
  <2>1. Len(g) = Len(h) + Len(e) /\ Len(src) = Len(g) + Len(h)
    BY <1>4, <1>5
  <2> QED
    BY <1>1, <1>2, <2>1
<1>7. src[1] = boundaryMark
  <2>1. 1 \in 1..Len(h) /\ 1 \in 1..Len(g)
    BY <1>1, <1>2, <1>6
  <2>2. src[1] = g[1] /\ g[1] = h[1]
    BY <1>4, <1>5, <2>1, Zenon
  <2> QED
    BY <1>2, <2>2
<1>8. ASSUME NEW j \in 1..Len(e) PROVE src[1 + j] = e[j]
  <2>1. 1 + j \in 1..Len(g)
    BY <1>1, <1>6
  <2>2. src[1 + j] = g[1 + j]
    BY <1>5, <2>1, Zenon
  <2>3. g[Len(h) + j] = e[j]
    BY <1>4
  <2> QED
    BY <1>2, <2>2, <2>3
<1> QED
  BY <1>5, <1>6, <1>7, <1>8 DEF src

\* Where the octets of s stand in the frame: those before the i-th take b octets behind
\* the first mark, and the octet before the i-th is no escape mark.
LEMMA Placed ==
    ASSUME NEW s \in Seq(Octet), NEW f, EscapeSteps(s, f),
           NEW src, Framed(f[Len(s)]) = src,
           NEW i \in 1..Len(s), NEW b, Start(f, i) = b
    PROVE  /\ b \in Nat /\ b + Len(Escaped(s[i])) <= Len(src) - 2
           /\ src[b + 1] # escapeMark
           /\ \A k \in 1..Len(Escaped(s[i])) : src[b + 1 + k] = Escaped(s[i])[k]
<1> DEFINE e == f[Len(s)]
           p == Escaped(s[i])
<1>1. /\ Len(s) \in Nat /\ Len(s) \in 0..Len(s) /\ i - 1 \in 0..Len(s) /\ i \in 0..Len(s)
      /\ i - 1 # 0 => i - 1 \in 1..Len(s)
  BY LenProperties
<1>2. s[i] \in Octet /\ p \in Seq(Octet)
  BY <1>1, ElementOfSeq, EscapedOctet
<1>3. f[i] = f[i - 1] \o p /\ f[0] = <<>> /\ f[i - 1] \in Seq(Octet) /\ e \in Seq(Octet)
  BY <1>1 DEF EscapeSteps
<1>4. b \in Nat /\ Len(e) \in Nat /\ Len(p) \in Nat
  BY <1>2, <1>3, LenProperties DEF Start
<1>5. Len(f[i]) = b + Len(p) /\ \A k \in 1..Len(p) : f[i][b + k] = p[k]
  <2> DEFINE g == f[i - 1]
  <2>1. g \in Seq(Octet) /\ f[i] = g \o p /\ b = Len(g)
    BY <1>3 DEF Start
  <2> HIDE DEF g, p
  <2> QED
    BY <1>2, <2>1, Behind
<1>6. /\ Len(f[i]) \in 0..Len(e) /\ \A j \in 1..Len(f[i]) : e[j] = f[i][j]
      /\ b \in 0..Len(e) /\ \A j \in 1..b : e[j] = f[i - 1][j]
  <2>1. f[Len(s)] = e
    OBVIOUS
  <2> HIDE DEF e
  <2>2. Len(f[i]) \in 0..Len(e) /\ \A j \in 1..Len(f[i]) : e[j] = f[i][j]
    BY <1>1, <2>1, EscapeBegins
  <2>3. Len(f[i - 1]) \in 0..Len(e) /\ \A j \in 1..Len(f[i - 1]) : e[j] = f[i - 1][j]
    BY <1>1, <2>1, EscapeBegins
  <2> QED
    BY <2>2, <2>3 DEF Start
<1>7. \A j \in 1..Len(p) : e[b + j] = p[j]
  <2> HIDE DEF e, p
  <2> TAKE j \in 1..Len(p)
  <2>1. b + j \in 1..Len(f[i])
    <3>1. Len(f[i]) = b + Len(p)
      BY <1>5
    <3> QED
      BY <1>4, <3>1
  <2> QED
    BY <1>5, <1>6, <2>1, Zenon
<1>8. b # 0 => e[b] # escapeMark
  <2> SUFFICES ASSUME b # 0 PROVE e[b] # escapeMark
    OBVIOUS
  <2>1. i - 1 # 0
    BY <1>3, EmptySeq DEF Start
  <2>2. f[i - 1][b] # escapeMark
    BY <1>1, <2>1, EscapeGrows DEF Start
  <2>3. b \in 1..b
    BY <1>4
  <2> QED
    BY <1>6, <2>2, <2>3
<1> HIDE DEF e, p
<1>9. Len(src) = Len(e) + 2 /\ src[1] = boundaryMark /\ \A j \in 1..Len(e) : src[1 + j] = e[j]
  <2>1. src = Framed(e)
    BY DEF e
  <2> QED
    BY <1>3, <2>1, Between
<1>10. src[b + 1] # escapeMark
  <2>1. CASE b = 0
    BY <1>9, <2>1 DEF boundaryMark, escapeMark
  <2>2. CASE b # 0
    <3>1. b \in 1..Len(e) /\ b + 1 = 1 + b
      BY <1>4, <1>6, <2>2
    <3> QED
      BY <1>8, <1>9, <2>2, <3>1, Zenon
  <2> QED
    BY <2>1, <2>2
<1>11. \A k \in 1..Len(p) : src[b + 1 + k] = p[k]
  <2> TAKE k \in 1..Len(p)
  <2>1. b + k \in 1..Len(e) /\ b + 1 + k = 1 + (b + k)
    BY <1>4, <1>5, <1>6
  <2> QED
    BY <1>7, <1>9, <2>1, Zenon
<1>12. b + Len(p) <= Len(src) - 2
  BY <1>4, <1>5, <1>6, <1>9
<1> QED
  BY <1>4, <1>10, <1>11, <1>12 DEF p

\* Unescaping gives the i-th octet where its escape begins, and nothing where that ends.
LEMMA Undone ==
    ASSUME NEW s \in Seq(Octet), NEW f, EscapeSteps(s, f),
           NEW src, Framed(f[Len(s)]) = src,
           Len(src) \in Nat,
           NEW i \in 1..Len(s), NEW b, Start(f, i) = b
    PROVE  /\ Unescaped(src, b + 2) = <<s[i]>>
           /\ \/ Len(Escaped(s[i])) = 1
              \/ Len(Escaped(s[i])) = 2 /\ Unescaped(src, b + 3) = <<>>
<1> DEFINE v == s[i]
           p == Escaped(v)
<1>1. v \in Octet
  BY LenProperties, ElementOfSeq
<1>2. /\ b \in Nat /\ b + Len(p) <= Len(src) - 2
      /\ src[b + 1] # escapeMark
      /\ \A k \in 1..Len(p) : src[b + 1 + k] = p[k]
  <2>1. /\ b \in Nat /\ b + Len(Escaped(s[i])) <= Len(src) - 2
        /\ src[b + 1] # escapeMark
        /\ \A k \in 1..Len(Escaped(s[i])) : src[b + 1 + k] = Escaped(s[i])[k]
    BY Placed
  <2> QED
    BY <2>1, Zenon
<1>3. /\ v = boundaryMark => p = <<escapeMark, 2>>
      /\ v = escapeMark => p = <<escapeMark, 1>>
      /\ v \notin {boundaryMark, escapeMark} => p = <<v>>
  BY <1>1, EscapedOctet
<1>4. (b + 2) - 1 = b + 1 /\ (b + 3) - 1 = b + 2 /\ b + 2 \in Int /\ b + 3 \in Int
  BY <1>2
<1> HIDE DEF p, v
<1>5. ASSUME v \in {boundaryMark, escapeMark}
      PROVE  /\ Unescaped(src, b + 2) = <<v>>
             /\ Len(p) = 2 /\ Unescaped(src, b + 3) = <<>>
  <2> DEFINE c == IF v = boundaryMark THEN 2 ELSE 1
  <2>1. p = <<escapeMark, c>> /\ c \in {1, 2}
    BY <1>3, <1>5 DEF boundaryMark, escapeMark
  <2>2. Len(p) = 2 /\ p[1] = escapeMark /\ p[2] = c
    BY <2>1
  <2>3. src[b + 2] = escapeMark /\ src[b + 3] = c
    <3>1. 1 \in 1..Len(p) /\ 2 \in 1..Len(p) /\ b + 1 + 1 = b + 2 /\ b + 1 + 2 = b + 3
      BY <1>2, <2>2
    <3> QED
      BY <1>2, <2>2, <3>1
  <2> HIDE DEF c
  <2>4. Pair(src, b + 2)
    <3>1. (b + 2) + 1 = b + 3 /\ b + 2 \in 2..Len(src) - 2
      BY <1>2, <2>2
    <3> QED
      BY <2>1, <2>3, <3>1, Zenon DEF Pair
  <2>5. ~Pair(src, b + 3)
    <3>1. c # escapeMark
      BY <2>1 DEF escapeMark
    <3> QED
      BY <2>3, <3>1, Zenon DEF Pair
  <2>6. Unescaped(src, b + 2) = <<IF src[b + 3] = 2 THEN boundaryMark ELSE escapeMark>>
    <3>1. (b + 2) + 1 = b + 3
      BY <1>2
    <3> QED
      BY <1>4, <2>4, <3>1, UnescapedOctet
  <2>7. (IF src[b + 3] = 2 THEN boundaryMark ELSE escapeMark) = v
    <3>1. (IF c = 2 THEN boundaryMark ELSE escapeMark) = v
      BY <1>5 DEF c
    <3> QED
      BY <2>3, <3>1, Zenon
  <2>8. Unescaped(src, b + 3) = <<>>
    BY <1>4, <2>4, <2>5, UnescapedOctet
  <2> QED
    BY <2>2, <2>6, <2>7, <2>8
<1>6. ASSUME v \notin {boundaryMark, escapeMark}
      PROVE  Unescaped(src, b + 2) = <<v>> /\ Len(p) = 1
  <2>1. p = <<v>>
    BY <1>3, <1>6
  <2>2. Len(p) = 1 /\ p[1] = v
    BY <2>1
  <2>3. src[b + 2] = v
    <3>1. 1 \in 1..Len(p) /\ b + 1 + 1 = b + 2
      BY <1>2, <2>2
    <3> QED
      BY <1>2, <2>2, <3>1
  <2>4. ~Pair(src, b + 2) /\ ~Pair(src, b + 1)
    BY <1>2, <1>6, <2>3 DEF Pair
  <2> QED
    BY <1>4, <2>2, <2>3, <2>4, UnescapedOctet
<1> QED
  BY <1>5, <1>6 DEF p, v

LEMMA Escaping ==
    ASSUME NEW s \in Seq(Octet)
    PROVE  \E f : EscapeSteps(s, f) /\ escape(s) = Framed(f[Len(s)])
<1> DEFINE n == Len(s)
           ps == [i \in 1..n |-> Escaped(s[i])]
<1>1. n \in Nat /\ \A i \in 1..n : s[i] \in Octet
  BY LenProperties, ElementOfSeq
<1>2. \A i \in 1..n : Escaped(s[i]) \in Seq(Octet)
  BY <1>1, EscapedOctet
<1>3. escape(s) = Framed(FlattenSeq(ps))
  BY Zenon DEF escape, Framed
<1> HIDE DEF n
<1>4. ps \in Seq(Seq(Octet)) /\ Len(ps) = n /\ \A i \in 1..n : ps[i] = Escaped(s[i])
  BY <1>1, <1>2
<1> HIDE DEF ps
<1>5. PICK f \in [0..Len(ps) -> Seq(Octet)] :
        /\ f[0] = <<>>
        /\ \A i \in 1..Len(ps) : f[i] = f[i - 1] \o ps[i]
        /\ FlattenSeq(ps) = f[Len(ps)]
  BY <1>4, FlattenSteps, Zenon
<1>6. /\ f \in [0..n -> Seq(Octet)] /\ f[0] = <<>>
      /\ \A i \in 1..n : f[i] = f[i - 1] \o Escaped(s[i])
      /\ FlattenSeq(ps) = f[n]
  BY <1>4, <1>5, Zenon
<1>7. EscapeSteps(s, f) /\ escape(s) = Framed(f[Len(s)])
  BY <1>3, <1>6, Zenon DEF EscapeSteps, n
<1> QED
  BY <1>7, Zenon

LEMMA ShortUnescaped ==
    ASSUME NEW src \in Seq(Octet), NEW j \in 1..Len(src) - 2
    PROVE  Unescaped(src, j + 1) \in Seq(Octet) /\ Len(Unescaped(src, j + 1)) \in 0..1
<1>1. Len(src) \in Nat /\ \A k \in 1..Len(src) : src[k] \in Octet
  BY LenProperties, ElementOfSeq
<1> DEFINE Short(t) == t \in Seq(Octet) /\ Len(t) \in 0..1
<1>2. Short(<<>>) /\ \A v \in Octet : Short(<<v>>)
  OBVIOUS
<1> DEFINE u == Unescaped(src, j + 1)
<1> HIDE DEF Short, u
<1>3. j + 1 \in 1..Len(src) /\ j + 1 \in Int
  BY <1>1
<1>4. src[j + 1] \in Octet
  BY <1>1, <1>3
<1>5. (IF src[(j + 1) + 1] = 2 THEN boundaryMark ELSE escapeMark) \in Octet
  BY DEF boundaryMark, escapeMark, Octet
<1>6. Short(<<src[j + 1]>>) /\ Short(<<IF src[(j + 1) + 1] = 2 THEN boundaryMark ELSE escapeMark>>)
  BY <1>2, <1>4, <1>5, Zenon
<1>7. u \in {<<>>, <<src[j + 1]>>, <<IF src[(j + 1) + 1] = 2 THEN boundaryMark ELSE escapeMark>>}
  BY <1>1, <1>3, UnescapedOctet DEF u
<1>8. Short(u)
  BY <1>2, <1>6, <1>7, Zenon
<1> QED
  BY <1>8 DEF Short, u

LEMMA Unescaping ==
    ASSUME NEW src \in Seq(Octet), NEW m \in Nat, Len(src) - 2 = m
    PROVE  \E g \in [0..m -> Seq(Octet)] :
             /\ g[0] = <<>>
             /\ \A j \in 1..m : g[j] = g[j - 1] \o Unescaped(src, j + 1)
             /\ unescape(src) = g[m]
<1> DEFINE qs == [j \in 1..m |-> Unescaped(src, j + 1)]
<1>1. Len(src) \in Nat /\ Len(src) = m + 2 /\ \A j \in 1..Len(src) : src[j] \in Octet
  BY LenProperties, ElementOfSeq
<1>2. ASSUME NEW j \in 1..m PROVE Unescaped(src, j + 1) \in Seq(Octet)
  <2>1. j \in 1..Len(src) - 2
    BY <1>1
  <2> QED
    BY <2>1, ShortUnescaped
<1>3. unescape(src) = FlattenSeq(qs)
  BY Zenon DEF unescape
<1>4. qs \in Seq(Seq(Octet)) /\ Len(qs) = m /\ \A j \in 1..m : qs[j] = Unescaped(src, j + 1)
  BY <1>2
<1> HIDE DEF qs
<1>5. PICK g \in [0..Len(qs) -> Seq(Octet)] :
        /\ g[0] = <<>>
        /\ \A j \in 1..Len(qs) : g[j] = g[j - 1] \o qs[j]
        /\ FlattenSeq(qs) = g[Len(qs)]
  BY <1>4, FlattenSteps, Zenon
<1>6. /\ g \in [0..m -> Seq(Octet)] /\ g[0] = <<>>
      /\ \A j \in 1..m : g[j] = g[j - 1] \o Unescaped(src, j + 1)
      /\ unescape(src) = g[m]
  BY <1>3, <1>4, <1>5, Zenon
<1> QED
  BY <1>6, Zenon

\* Whatever the octets of a packet, unescaping what it was escaped to gives it back
\* (PacketCodec's escape and unescape).
THEOREM EscapeUndone ==
    ASSUME NEW s \in Seq(Octet)
    PROVE  unescape(escape(s)) = s
<1> DEFINE n == Len(s)
<1>1. n \in Nat /\ \A i \in 1..n : s[i] \in Octet /\ i - 1 \in 0..n /\ i \in 0..n
  BY LenProperties, ElementOfSeq
<1>2. PICK f : EscapeSteps(s, f) /\ escape(s) = Framed(f[n])
  BY Escaping
<1> DEFINE e == f[n]
           src == Framed(e)
           m == Len(e)
           b(i) == Len(f[i])
<1>3. /\ \A i \in 0..n : f[i] \in Seq(Octet)
      /\ f[0] = <<>> /\ \A i \in 1..n : f[i] = f[i - 1] \o Escaped(s[i])
  BY <1>2, Zenon DEF EscapeSteps
<1>4. e \in Seq(Octet) /\ m \in Nat
  BY <1>1, <1>3, LenProperties
<1>5. src \in Seq(Octet) /\ Len(src) = m + 2
  <2> HIDE DEF e
  <2> QED
    BY <1>4, Between
<1>6. \A i \in 1..n : /\ Unescaped(src, b(i - 1) + 2) = <<s[i]>>
                      /\ \/ Len(Escaped(s[i])) = 1
                         \/ Len(Escaped(s[i])) = 2 /\ Unescaped(src, b(i - 1) + 3) = <<>>
  <2> TAKE i \in 1..n
  <2>1. Framed(f[Len(s)]) = src /\ Len(src) \in Nat /\ Start(f, i) = b(i - 1)
    BY <1>4, <1>5 DEF Start
  <2> HIDE DEF src, b
  <2> QED
    BY <1>2, <2>1, Undone
<1>7. \A i \in 1..n : b(i) = b(i - 1) + Len(Escaped(s[i]))
  BY <1>2, EscapeGrows
<1>8. \A i \in 0..n : b(i) \in 0..m
  BY <1>2, EscapeBegins
<1> HIDE DEF src, e, m
<1>9. PICK g \in [0..m -> Seq(Octet)] :
        /\ g[0] = <<>>
        /\ \A j \in 1..m : g[j] = g[j - 1] \o Unescaped(src, j + 1)
        /\ unescape(src) = g[m]
  <2>1. Len(src) - 2 = m
    BY <1>4, <1>5
  <2> QED
    BY <1>4, <1>5, <2>1, Unescaping
<1> DEFINE Given(t, i) == Len(t) = i /\ \A j \in 1..i : t[j] = s[j]
           S == {i \in 0..n : Given(g[b(i)], i)}
<1>10. ASSUME NEW i \in 1..n, Given(g[b(i - 1)], i - 1) PROVE Given(g[b(i)], i)
  <2> DEFINE c == b(i - 1)
             t == g[c]
             u == g[c + 1]
  <2>1. c \in 0..m /\ b(i) \in 0..m /\ b(i) = c + Len(Escaped(s[i]))
    BY <1>1, <1>7, <1>8
  <2>2. /\ Unescaped(src, c + 2) = <<s[i]>>
        /\ \/ Len(Escaped(s[i])) = 1
           \/ Len(Escaped(s[i])) = 2 /\ Unescaped(src, c + 3) = <<>>
    BY <1>6
  <2> HIDE DEF c, b
  <2>3. c + 1 \in 1..m /\ (c + 1) - 1 = c /\ (c + 1) + 1 = c + 2
    <3>1. PICK k \in {1, 2} : b(i) = c + k
      BY <2>1, <2>2
    <3>2. c \in 0..m /\ b(i) \in 0..m /\ m \in Nat
      BY <1>4, <2>1
    <3> QED
      BY <3>1, <3>2
  <2>4. u = t \o <<s[i]>> /\ t \in Seq(Octet)
    <3>1. u = g[(c + 1) - 1] \o Unescaped(src, (c + 1) + 1)
      BY <1>9, <2>3
    <3>2. t \in Seq(Octet)
      BY <1>9, <2>1
    <3> QED
      BY <2>2, <2>3, <3>1, <3>2
  <2>5. Given(t, i - 1)
    BY <1>10 DEF c
  <2>6. u \in Seq(Octet) /\ g[b(i)] = u
    <3>1. u \in Seq(Octet)
      BY <1>9, <2>3
    <3>2. CASE Len(Escaped(s[i])) = 1
      BY <2>1, <3>1, <3>2
    <3>3. CASE Len(Escaped(s[i])) = 2 /\ Unescaped(src, c + 3) = <<>>
      <4>1. b(i) = c + 2 /\ c + 2 \in 1..m /\ (c + 2) - 1 = c + 1 /\ (c + 2) + 1 = c + 3
        BY <1>4, <2>1, <3>3
      <4>2. g[c + 2] = g[(c + 2) - 1] \o Unescaped(src, (c + 2) + 1)
        BY <1>9, <4>1
      <4>3. g[c + 2] = u \o <<>>
        BY <3>3, <4>1, <4>2
      <4>4. u \o <<>> = u
        BY <3>1, ConcatEmptySeq
      <4> QED
        BY <3>1, <4>1, <4>3, <4>4
    <3> QED
      BY <2>2, <3>2, <3>3
  <2> HIDE DEF t, u
  <2>7. Given(u, i)
    BY <1>1, <2>4, <2>5
  <2> QED
    BY <2>6, <2>7
<1>11. Given(g[b(0)], 0)
  <2>1. b(0) = 0
    BY <1>3, EmptySeq
  <2> QED
    BY <1>9, <2>1, EmptySeq
<1> HIDE DEF Given
<1>12. \A i \in 0..n : i \in S
  <2>1. S \in SUBSET (0..n) /\ 0 \in S
    BY <1>1, <1>11
  <2>2. \A i \in 1..n : i - 1 \in S => i \in S
    BY <1>1, <1>10
  <2> HIDE DEF S, n
  <2> QED
    BY <1>1, <2>1, <2>2, UpTo
<1>13. Given(unescape(src), n)
  <2>1. b(n) = m /\ n \in 0..n
    BY <1>1 DEF m, e
  <2> QED
    BY <1>9, <1>12, <2>1
<1>14. unescape(src) \in Seq(Octet)
  BY <1>4, <1>9
<1>15. unescape(src) = s
  BY <1>1, <1>13, <1>14, SeqEqual DEF Given
<1> QED
  BY <1>2, <1>15 DEF src, e

LEMMA CheckIsOctet ==
    ASSUME NEW s \in Seq(Octet)
    PROVE  CheckOf(s) \in Octet
<1> DEFINE odd(bit) == Cardinality({i \in 1..Len(s) : (s[i] \div bit) % 2 = 1}) % 2
<1>1. ASSUME NEW bit \in Nat PROVE odd(bit) \in 0..1
  <2> DEFINE set == {i \in 1..Len(s) : (s[i] \div bit) % 2 = 1}
  <2>1. IsFiniteSet(1..Len(s))
    BY LenProperties, FS_Interval
  <2>2. set \in SUBSET (1..Len(s))
    OBVIOUS
  <2> HIDE DEF set
  <2>3. IsFiniteSet(set)
    BY <2>1, <2>2, FS_Subset
  <2>4. Cardinality(set) \in Nat
    BY <2>3, FS_CardinalityType
  <2>5. Cardinality(set) % 2 \in 0..1
    BY <2>4
  <2> QED
    BY <2>5 DEF set
<1>2. CheckOf(s) = odd(1) + 2 * odd(2) + 4 * odd(4) + 8 * odd(8)
                     + 16 * odd(16) + 32 * odd(32) + 64 * odd(64) + 128 * odd(128)
  BY Zenon DEF CheckOf
<1> HIDE DEF odd
<1>3. /\ odd(1) \in 0..1 /\ odd(2) \in 0..1 /\ odd(4) \in 0..1 /\ odd(8) \in 0..1
      /\ odd(16) \in 0..1 /\ odd(32) \in 0..1 /\ odd(64) \in 0..1 /\ odd(128) \in 0..1
  BY <1>1
<1> DEFINE b1 == odd(1)   b2 == odd(2)   b3 == odd(4)   b4 == odd(8)
           b5 == odd(16)  b6 == odd(32)  b7 == odd(64)  b8 == odd(128)
<1>4. CheckOf(s) = b1 + 2 * b2 + 4 * b3 + 8 * b4 + 16 * b5 + 32 * b6 + 64 * b7 + 128 * b8
  BY <1>2, Zenon
<1>5. /\ b1 \in 0..1 /\ b2 \in 0..1 /\ b3 \in 0..1 /\ b4 \in 0..1
      /\ b5 \in 0..1 /\ b6 \in 0..1 /\ b7 \in 0..1 /\ b8 \in 0..1
  BY <1>3, Zenon
<1> HIDE DEF b1, b2, b3, b4, b5, b6, b7, b8
<1>6. b1 + 2 * b2 + 4 * b3 + 8 * b4 + 16 * b5 + 32 * b6 + 64 * b7 + 128 * b8 \in Octet
  <2>1. b1 + 2 * b2 + 4 * b3 + 8 * b4 \in 0..15
    BY <1>5
  <2>2. 16 * b5 + 32 * b6 + 64 * b7 + 128 * b8 \in 0..240
    BY <1>5
  <2> QED
    BY <1>5, <2>1, <2>2 DEF Octet
<1> QED
  BY <1>4, <1>6, Zenon

\* What genVerifier makes of any octets is verified.
LEMMA CheckIsVerified ==
    ASSUME NEW s \in Seq(Octet)
    PROVE  /\ genVerifier(s) \in Seq(Octet) /\ genVerifier(s) # <<>>
           /\ Verified(genVerifier(s))
           /\ verify(genVerifier(s)).len = Len(s)
<1> DEFINE c == CheckOf(s)
           t == genVerifier(s)
<1>1. c \in Octet /\ Len(s) \in Nat /\ t = Append(s, c)
  BY CheckIsOctet, LenProperties DEF genVerifier
<1> HIDE DEF c, t
<1>2. /\ t \in Seq(Octet) /\ Len(t) = Len(s) + 1 /\ t[Len(t)] = c
      /\ \A i \in 1..Len(s) : t[i] = s[i]
  BY <1>1, AppendProperties
<1>3. t # <<>>
  BY <1>1, <1>2, EmptySeq
<1>4. Last(t) = c
  BY <1>2 DEF Last
<1>5. Front(t) = s
  <2>1. Front(t) = SubSeq(t, 1, Len(t) - 1)
    BY DEF Front
  <2>2. Len(t) - 1 = Len(s)
    BY <1>1, <1>2
  <2>3. SubSeq(t, 1, Len(s)) = s
    <3>1. \A i \in 1..Len(s) : t[i] = s[i]
      BY <1>2
    <3>2. /\ SubSeq(t, 1, Len(s)) \in Seq(Octet)
          /\ Len(SubSeq(t, 1, Len(s))) = Len(s)
          /\ \A i \in 1..Len(s) : SubSeq(t, 1, Len(s))[i] = t[i]
      BY <1>1, <1>2, SubSeqProperties
    <3> QED
      BY <3>1, <3>2, SeqEqual
  <2> QED
    BY <2>1, <2>2, <2>3
<1>6. Verified(t)
  BY <1>4, <1>5 DEF Verified, c
<1>7. verify(t).len = Len(s)
  <2>1. verify(t).len = Len(t) - 1
    BY Zenon DEF verify
  <2> QED
    BY <1>1, <1>2, <2>1
<1> QED
  BY <1>2, <1>3, <1>6, <1>7 DEF t

\* Whatever octets are framed, PacketCodec.Decode opens the frame, refuses it neither as
\* empty nor for its check octet, and goes on with as many octets as were put in
\* (genVerifier and escape against unescape and verify).
THEOREM FrameOpened ==
    ASSUME NEW s \in Seq(Octet)
    PROVE  /\ DecodePacket(escape(genVerifier(s))) = DecodeVerified(verify(genVerifier(s)))
           /\ verify(genVerifier(s)).len = Len(s)
<1> DEFINE t == genVerifier(s)
<1>1. t \in Seq(Octet) /\ t # <<>> /\ Verified(t) /\ verify(t).len = Len(s)
  BY CheckIsVerified
<1> HIDE DEF t
<1>2. unescape(escape(t)) = t
  BY <1>1, EscapeUndone
<1>3. DecodePacket(escape(t)) = DecodeVerified(verify(t))
  BY <1>1, <1>2, Zenon DEF DecodePacket
<1> QED
  BY <1>1, <1>3 DEF t

-----------------------------------------------------------------------------
(* The fields of a message are read as they were written.                  *)

\* The largest of a set of numbers that CHOOSE picks is the largest.
LEMMA Largest ==
    ASSUME NEW S, NEW k \in S, S \in SUBSET Int, \A j \in S : j <= k
    PROVE  (CHOOSE i \in S : \A j \in S : j <= i) = k
<1> DEFINE c == CHOOSE i \in S : \A j \in S : j <= i
<1>1. c \in S /\ \A j \in S : j <= c
  BY Zenon
<1> HIDE DEF c
<1>2. c <= k /\ k <= c /\ c \in Int /\ k \in Int
  BY <1>1
<1>3. c = k
  BY <1>2
<1> QED
  BY <1>3 DEF c

\* A number is twice its half, or one more.
LEMMA Halves ==
    ASSUME NEW i \in Nat
    PROVE  /\ i \div 2 \in Nat
           /\ i % 2 = 1 => i = 2 * (i \div 2) + 1 /\ (i + 1) \div 2 = (i \div 2) + 1
           /\ i % 2 # 1 => i = 2 * (i \div 2)
OBVIOUS

\* A number of two octets is read as it was written (WriteWord, ReadWord).
THEOREM WordKept ==
    ASSUME NEW n \in 0..2^16 - 1
    PROVE  WriteWord(n) \in Seq(Octet) /\ WordOf(WriteWord(n)) = n
<1>1. n \div 256 \in 0..255 /\ n % 256 \in 0..255 /\ (n \div 256) * 256 + (n % 256) = n
  <2>1. 2^16 = 65536
    BY SMT
  <2> QED
    BY <2>1, SMT
<1>2. n \div 256 \in Octet /\ n % 256 \in Octet
  BY <1>1 DEF Octet
<1>3. PICK a \in Octet, b \in Octet : WriteWord(n) = <<a, b>> /\ a * 256 + b = n
  BY <1>1, <1>2 DEF WriteWord
<1>4. PICK w \in Seq(Octet) : WriteWord(n) = w /\ w[1] = a /\ w[2] = b
  <2>1. \A x, y \in Octet : <<x, y>> \in Seq(Octet) /\ <<x, y>>[1] = x /\ <<x, y>>[2] = y
    OBVIOUS
  <2> QED
    BY <1>3, <2>1, Zenon
<1>5. WordOf(w) = w[1] * 256 + w[2]
  BY Zenon DEF WordOf
<1>6. WordOf(w) = n
  BY <1>3, <1>4, <1>5
<1> QED
  BY <1>4, <1>6, Zenon

\* Text that does not end in a zero octet is read as it was written, in any field that
\* it fits into (the messages fill them up and trim them).
THEOREM TextKept ==
    ASSUME NEW v \in Seq(Octet), NEW n \in Nat, Len(v) <= n,
           Len(v) # 0 => v[Len(v)] # 0
    PROVE  TrimZeros(SubSeq(FillTo(v, n), 1, n)) = v
<1> DEFINE k == IF Len(v) < n THEN n - Len(v) ELSE 0
           z == Zeros(k)
           t == SubSeq(FillTo(v, n), 1, n)
           kept == {i \in DOMAIN t : t[i] # 0}
<1>1. Len(v) \in Nat /\ k \in Nat /\ Len(v) + k = n
  BY LenProperties
<1>2. FillTo(v, n) = v \o z
  BY DEF FillTo
<1> HIDE DEF k
<1>3. z \in Seq(Octet) /\ k = Len(z) /\ \A i \in 1..k : z[i] = 0
  BY <1>1 DEF Zeros, Octet
<1> HIDE DEF z
<1> DEFINE w == FillTo(v, n)
<1>4. /\ w \in Seq(Octet) /\ Len(w) = Len(v) + Len(z)
      /\ \A i \in 1..Len(v) : w[i] = v[i]
      /\ \A i \in 1..Len(z) : w[Len(v) + i] = z[i]
  <2>1. w = v \o z
    BY <1>2
  <2> HIDE DEF w
  <2> QED
    BY <1>3, <2>1, Behind
<1>5. t = SubSeq(w, 1, n)
  OBVIOUS
<1> HIDE DEF w, t
<1>6. Len(w) = n /\ \A i \in 1..n : w[i] \in Octet
  <2>1. Len(w) = n
    BY <1>1, <1>3, <1>4
  <2> QED
    BY <1>4, <2>1, ElementOfSeq
<1>7. t = w
  <2>1. t \in Seq(Octet) /\ Len(t) = n /\ \A i \in 1..n : t[i] = w[i]
    <3>1. 1 \in Int /\ n \in Int /\ n - 1 + 1 = n /\ (1 <= n => n - 1 + 1 = n) /\ (~(1 <= n) => n = 0)
      OBVIOUS
    <3>2. /\ t \in Seq(Octet) /\ Len(t) = IF 1 <= n THEN n - 1 + 1 ELSE 0
          /\ \A i \in 1..n - 1 + 1 : t[i] = w[1 + i - 1]
      BY <1>5, <1>6, <3>1, SubSeqProperties
    <3> QED
      BY <3>1, <3>2
  <2> QED
    BY <1>4, <1>6, <2>1, SeqEqual
<1>8. ASSUME NEW i \in DOMAIN t, t[i] # 0 PROVE i <= Len(v)
  <2>1. i \in 1..n
    BY <1>4, <1>6, <1>7
  <2>2. SUFFICES ASSUME i > Len(v) PROVE FALSE
    BY <1>1, <2>1
  <2>3. i - Len(v) \in 1..k /\ Len(v) + (i - Len(v)) = i
    BY <1>1, <2>1, <2>2
  <2>4. w[i] = z[i - Len(v)] /\ z[i - Len(v)] = 0
    BY <1>3, <1>4, <2>3
  <2> QED
    BY <1>7, <1>8, <2>4
<1>9. DOMAIN t = 1..n
  BY <1>4, <1>6, <1>7
<1>10. SubSeq(t, 1, Len(v)) = v
  <2>1. \A i \in 1..Len(v) : t[i] = v[i] /\ t[i] \in Octet
    BY <1>4, <1>7, ElementOfSeq
  <2>2. /\ SubSeq(t, 1, Len(v)) \in Seq(Octet)
        /\ Len(SubSeq(t, 1, Len(v))) = Len(v)
        /\ \A i \in 1..Len(v) : SubSeq(t, 1, Len(v))[i] = t[i]
    BY <1>1, <2>1, SubSeqProperties
  <2> QED
    BY <2>1, <2>2, SeqEqual
<1>11. TrimZeros(t) = SubSeq(t, 1, IF kept = {} THEN 0 ELSE CHOOSE i \in kept : \A j \in kept : j <= i)
  BY Zenon DEF TrimZeros
<1>12. kept \in SUBSET Int /\ \A i \in kept : i <= Len(v) /\ i >= 1
  BY <1>8, <1>9
<1>13. CASE Len(v) = 0
  <2>1. kept = {}
    BY <1>12, <1>13
  <2> QED
    BY <1>10, <1>11, <1>13, <2>1 DEF t, w
<1>14. CASE Len(v) # 0
  <2>1. Len(v) \in DOMAIN t /\ t[Len(v)] = v[Len(v)]
    BY <1>1, <1>4, <1>7, <1>9, <1>14
  <2>2. Len(v) \in kept
    BY <1>14, <2>1
  <2> HIDE DEF kept
  <2>3. (CHOOSE i \in kept : \A j \in kept : j <= i) = Len(v)
    BY <1>12, <2>2, Largest
  <2>4. TrimZeros(t) = SubSeq(t, 1, Len(v))
    BY <1>11, <2>2, <2>3
  <2> QED
    BY <1>10, <2>4 DEF t, w
<1> QED
  BY <1>13, <1>14

\* A telephone number or a time is read as it was written: an even number of digits, or
\* no more than eight, which are filled up (numberStr2BCD, bcd2NumberStr).
THEOREM DigitsKept ==
    ASSUME NEW d \in Seq(Digit), Len(d) <= 8 \/ Len(d) % 2 = 0
    PROVE  bcd2NumberStr(numberStr2BCD(d)) = d
<1> DEFINE k == IF Len(d) < 8 THEN 8 - Len(d) ELSE 0
           p == [i \in 1..k |-> Fill]
           f == p \o d
           n == Len(f)
           b == numberStr2BCD(d)
<1>1. Len(d) \in Nat /\ k \in Nat
  BY LenProperties
<1>2. (k + Len(d)) % 2 = 0 /\ (k = 0 \/ k + Len(d) = 8) /\ k # 9
  <2>1. CASE Len(d) < 8
    <3>1. k = 8 - Len(d)
      BY <2>1
    <3> HIDE DEF k
    <3> QED
      BY <1>1, <2>1, <3>1
  <2>2. CASE ~(Len(d) < 8)
    <3>1. k = 0
      BY <2>2
    <3> HIDE DEF k
    <3> QED
      BY <1>1, <2>2, <3>1
  <2> QED
    BY <2>1, <2>2
<1> HIDE DEF k
<1>3. p \in Seq(0..15) /\ k = Len(p) /\ \A i \in 1..k : p[i] = 15
  BY <1>1 DEF Fill
<1>4. d \in Seq(0..15) /\ \A i \in 1..Len(d) : d[i] \in 0..14
  BY ElementOfSeq DEF Digit
<1>5. /\ f \in Seq(0..15) /\ n = Len(p) + Len(d)
      /\ \A i \in 1..Len(p) : f[i] = p[i]
      /\ \A i \in 1..Len(d) : f[Len(p) + i] = d[i]
  <2>1. f = p \o d
    OBVIOUS
  <2>2. n = Len(f)
    OBVIOUS
  <2> HIDE DEF f, p, n
  <2> QED
    BY <1>3, <1>4, <2>1, <2>2, Behind
<1>6. b = [i \in 1..n \div 2 |-> f[2 * i - 1] * 16 + f[2 * i]]
  BY Zenon DEF numberStr2BCD, k
<1> HIDE DEF f, p
<1>7. n \in Nat /\ n % 2 = 0 /\ n = k + Len(d) /\ \A i \in 1..n : f[i] \in 0..15
  <2>1. \A i \in 1..n : f[i] \in 0..15
    BY <1>5, ElementOfSeq
  <2> HIDE DEF n
  <2>2. n = k + Len(d)
    BY <1>3, <1>5
  <2>3. n \in Nat /\ n % 2 = 0
    BY <1>1, <1>2, <2>2
  <2> QED
    BY <2>1, <2>2, <2>3
<1> HIDE DEF n, b
<1>8. b \in Seq(Int) /\ Len(b) = n \div 2 /\ \A i \in 1..n \div 2 : b[i] = f[2 * i - 1] * 16 + f[2 * i]
  <2>1. \A i \in 1..n \div 2 : 2 * i - 1 \in 1..n /\ 2 * i \in 1..n
    BY <1>7
  <2>2. ASSUME NEW i \in 1..n \div 2 PROVE f[2 * i - 1] * 16 + f[2 * i] \in Int
    <3>1. f[2 * i - 1] \in 0..15 /\ f[2 * i] \in 0..15
      BY <1>7, <2>1, Zenon
    <3>2. \A x, y \in 0..15 : x * 16 + y \in Int
      OBVIOUS
    <3> QED
      BY <3>1, <3>2, Zenon
  <2>3. n \div 2 \in Nat
    BY <1>7
  <2> DEFINE m == n \div 2
             e(i) == f[2 * i - 1] * 16 + f[2 * i]
  <2>4. b = [i \in 1..m |-> e(i)] /\ m \in Nat /\ \A i \in 1..m : e(i) \in Int
    BY <1>6, <2>2, <2>3, Zenon
  <2> HIDE DEF m, e
  <2>5. b \in Seq(Int) /\ Len(b) = m /\ \A i \in 1..m : b[i] = e(i)
    BY <2>4
  <2> QED
    BY <2>5, Zenon DEF m, e
<1>9. 2 * Len(b) = n
  <2>1. n = 2 * (n \div 2)
    BY <1>7, Halves
  <2> QED
    BY <1>8, <2>1
<1>10. Digits(b) = [i \in 1..n |-> IF i % 2 = 1 THEN b[(i + 1) \div 2] \div 16 ELSE b[i \div 2] % 16]
  BY <1>9 DEF Digits
<1>11. ASSUME NEW i \in 1..n PROVE Digits(b)[i] = f[i]
  <2>1. \A x, y \in 0..15 : (x * 16 + y) \div 16 = x /\ (x * 16 + y) % 16 = y
    OBVIOUS
  <2> DEFINE q == i \div 2
             h == n \div 2
  <2>0. q \in Nat /\ h \in Nat /\ n = 2 * h
    BY <1>7, Halves
  <2>2. CASE i % 2 = 1
    <3>1. (i + 1) \div 2 \in 1..n \div 2 /\ 2 * ((i + 1) \div 2) - 1 = i /\ i + 1 \in 1..n
          /\ 2 * ((i + 1) \div 2) = i + 1
      <4>1. i = 2 * q + 1 /\ (i + 1) \div 2 = q + 1 /\ n \div 2 = h
        BY <2>2, Halves
      <4> HIDE DEF q, h
      <4>2. q + 1 \in 1..h /\ 2 * (q + 1) - 1 = i /\ i + 1 \in 1..n /\ 2 * (q + 1) = i + 1
        BY <2>0, <4>1
      <4> QED
        BY <4>1, <4>2, Zenon
    <3>2. b[(i + 1) \div 2] = f[i] * 16 + f[i + 1]
      BY <1>8, <3>1
    <3>3. f[i] \in 0..15 /\ f[i + 1] \in 0..15
      BY <1>7, <3>1
    <3>4. Digits(b)[i] = b[(i + 1) \div 2] \div 16
      BY <1>10, <2>2
    <3>5. (f[i] * 16 + f[i + 1]) \div 16 = f[i]
      BY <2>1, <3>3
    <3> QED
      BY <3>2, <3>4, <3>5, Zenon
  <2>3. CASE i % 2 # 1
    <3>1. i \div 2 \in 1..n \div 2 /\ 2 * (i \div 2) = i /\ i - 1 \in 1..n
      <4>1. i = 2 * q /\ i \div 2 = q /\ n \div 2 = h
        BY <2>3, Halves
      <4> HIDE DEF q, h
      <4>2. q \in 1..h /\ 2 * q = i /\ i - 1 \in 1..n
        BY <2>0, <4>1
      <4> QED
        BY <4>1, <4>2, Zenon
    <3>2. b[i \div 2] = f[i - 1] * 16 + f[i]
      BY <1>8, <3>1
    <3>3. f[i - 1] \in 0..15 /\ f[i] \in 0..15
      BY <1>7, <3>1
    <3>4. Digits(b)[i] = b[i \div 2] % 16
      BY <1>10, <2>3
    <3>5. (f[i - 1] * 16 + f[i]) % 16 = f[i]
      BY <2>1, <3>3
    <3> QED
      BY <3>2, <3>4, <3>5, Zenon
  <2> QED
    BY <2>2, <2>3
<1> DEFINE s == Digits(b)
           fs == {i \in DOMAIN s : s[i] = Fill}
           pos == IF fs = {} THEN 0 ELSE CHOOSE i \in fs : \A j \in fs : j <= i
<1>12. s \in Seq(0..15) /\ Len(s) = n /\ DOMAIN s = 1..n /\ \A i \in 1..n : s[i] = f[i]
  <2>1. s \in Seq(0..15) /\ Len(s) = n
    <3>1. s = f
      <4>1. DOMAIN s = 1..n
        BY <1>10
      <4>2. \A i \in 1..n : s[i] = f[i]
        BY <1>11
      <4>3. f = [i \in 1..n |-> f[i]]
        BY <1>5 DEF n
      <4>4. s = [i \in 1..n |-> s[i]]
        BY <1>10, Zenon
      <4> QED
        BY <4>2, <4>3, <4>4
    <3> QED
      BY <1>5, <3>1 DEF n
  <2>2. DOMAIN s = 1..n
    BY <1>10
  <2> QED
    BY <1>11, <2>1, <2>2
<1>13. bcd2NumberStr(b) = IF pos = 9 THEN <<0>> ELSE SubSeq(s, pos + 1, Len(s))
  BY Zenon DEF bcd2NumberStr
<1> HIDE DEF s
<1>14. \A i \in fs : i \in 1..k
  <2> TAKE i \in fs
  <2>0. i \in 1..n /\ f[i] = 15
    BY <1>12 DEF Fill
  <2> HIDE DEF fs
  <2> SUFFICES ASSUME i > k PROVE FALSE
    BY <1>1, <2>0
  <2>1. i - k \in 1..Len(d) /\ k + (i - k) = i
    BY <1>1, <1>7, <2>0
  <2>2. f[i] = d[i - k]
    BY <1>3, <1>5, <2>1
  <2> QED
    BY <1>4, <2>0, <2>1, <2>2
<1>15. pos = k
  <2>1. CASE k = 0
    BY <1>14, <2>1
  <2>2. CASE k # 0
    <3>1. k \in 1..n /\ k \in 1..k
      BY <1>1, <1>7, <2>2
    <3>2. s[k] = 15
      BY <1>3, <1>5, <1>12, <3>1
    <3>3. k \in fs
      BY <1>12, <3>1, <3>2 DEF Fill
    <3>4. fs \in SUBSET Int /\ \A j \in fs : j <= k
      BY <1>1, <1>14
    <3> HIDE DEF fs
    <3>5. (CHOOSE i \in fs : \A j \in fs : j <= i) = k
      BY <3>3, <3>4, Largest
    <3> QED
      BY <3>3, <3>5
  <2> QED
    BY <2>1, <2>2
<1> HIDE DEF pos, fs
<1>16. bcd2NumberStr(b) = SubSeq(s, k + 1, n)
  BY <1>2, <1>12, <1>13, <1>15
<1>17. SubSeq(s, k + 1, n) = d
  <2> DEFINE u == SubSeq(s, k + 1, n)
  <2>1. k + 1 \in Int /\ n \in Int /\ \A i \in k + 1..n : s[i] \in 0..15
    BY <1>1, <1>7, <1>12
  <2>2. /\ u \in Seq(0..15) /\ Len(u) = IF k + 1 <= n THEN n - (k + 1) + 1 ELSE 0
        /\ \A i \in 1..n - (k + 1) + 1 : u[i] = s[k + 1 + i - 1]
    BY <2>1, SubSeqProperties
  <2> HIDE DEF u
  <2>3. n - (k + 1) + 1 = Len(d) /\ (~(k + 1 <= n) => Len(d) = 0)
    BY <1>1, <1>7
  <2>4. Len(u) = Len(d)
    BY <2>2, <2>3
  <2>5. ASSUME NEW i \in 1..Len(d) PROVE u[i] = d[i]
    <3>1. u[i] = s[k + 1 + i - 1] /\ k + 1 + i - 1 = k + i /\ k + i \in 1..n
      BY <1>1, <1>7, <2>2, <2>3
    <3>2. f[k + i] = d[i]
      BY <1>3, <1>5
    <3> QED
      BY <1>12, <3>1, <3>2
  <2> QED
    BY <1>4, <2>2, <2>4, <2>5, SeqEqual DEF u
<1> QED
  BY <1>16, <1>17 DEF b

LEMMA AttrBits ==
    ASSUME NEW a \in Nat, a < 1024, NEW b \in 0..7, NEW c \in 0..1, NEW d \in 0..1, NEW e \in 0..1
    PROVE  LET v == Packed(a, b, c, d, e) IN
           /\ v % 65536 = v
           /\ v % 1024 = a /\ (v \div 1024) % 8 = b
           /\ (v \div 8192) % 2 = c /\ (v \div 16384) % 2 = d /\ v \div 32768 = e
<1> DEFINE v == Packed(a, b, c, d, e)
<1>0. v = a + b * 1024 + c * 8192 + d * 16384 + e * 32768
  BY SMT DEF Packed
<1> HIDE DEF v
<1>1. v % 65536 = v
  <2>1. \A x \in Nat : x < 65536 => x % 65536 = x
    BY SMT
  <2>2. v \in Nat /\ v < 65536
    BY <1>0, SMT
  <2> QED
    BY <2>1, <2>2, SMT
<1>2. v = a + 1024 * (b + 8 * (c + 2 * (d + 2 * e)))
  BY <1>0, SMT
<1>3. v % 1024 = a /\ v \div 1024 = b + 8 * (c + 2 * (d + 2 * e))
  BY <1>2, SMT
<1>4. (v \div 1024) % 8 = b
  BY <1>3, SMT
<1>5. v \div 8192 = c + 2 * (d + 2 * e)
  BY <1>0, SMT
<1>6. (v \div 8192) % 2 = c
  BY <1>5, SMT
<1>7. v \div 16384 = d + 2 * e /\ v \div 32768 = e
  BY <1>0, SMT
<1>8. (v \div 16384) % 2 = d
  BY <1>7, SMT
<1> QED
  BY <1>1, <1>3, <1>4, <1>6, <1>7, <1>8, SMT DEF v

\* The attribute word tells the length, the encryption, the fragment bit and the version
\* as they were given, whenever the length has the ten bits that there are for it
\* (MsgBodyAttr's Encode and Decode).
THEOREM AttrKept ==
    ASSUME NEW h,
           h.BodyLength \in 0..2^10 - 1, h.Encryption \in 0..7,
           h.PacketFragmented \in 0..1, h.VersionSign \in 0..1, h.Extra \in 0..1
    PROVE  LET attr == ReadAttr(WriteAttr(h)) IN
           /\ attr.BodyLength = h.BodyLength /\ attr.Encryption = h.Encryption
           /\ attr.PacketFragmented = h.PacketFragmented
           /\ attr.VersionSign = h.VersionSign /\ attr.Extra = h.Extra
           /\ attr.VersionDesc = IF h.VersionSign = 1 THEN Version2019 ELSE Version2013
<1> DEFINE w == WriteAttr(h)
           a == h.BodyLength
           b == h.Encryption
           c == h.PacketFragmented
           d == h.VersionSign
           e == h.Extra
<1> DEFINE v == Packed(a, b, c, d, e)
<1>1. 2^10 = 1024 /\ 2^13 = 8192 /\ 2^14 = 16384 /\ 2^15 = 32768 /\ 2^16 = 65536
  BY SMT
<1>2. w = (a + b * 2^10 + c * 2^13 + d * 2^14 + e * 2^15) % 2^16
  BY SMT DEF WriteAttr
<1>3. a \in Nat /\ a < 1024 /\ b \in 0..7 /\ c \in 0..1 /\ d \in 0..1 /\ e \in 0..1
  BY <1>1, SMT
<1> HIDE DEF w, a, b, c, d, e, v
<1>4. /\ v % 65536 = v
      /\ v % 1024 = a /\ (v \div 1024) % 8 = b
      /\ (v \div 8192) % 2 = c /\ (v \div 16384) % 2 = d /\ v \div 32768 = e
  BY <1>3, AttrBits DEF v
<1>5. w = v % 65536
  BY <1>1, <1>2, SMT DEF v, Packed
<1>6. /\ w % 2^10 = a /\ (w \div 2^10) % 8 = b
      /\ (w \div 2^13) % 2 = c /\ (w \div 2^14) % 2 = d /\ w \div 2^15 = e
  BY <1>1, <1>4, <1>5, SMT
<1> QED
  BY <1>6, SMT DEF ReadAttr, w, a, b, c, d, e

-----------------------------------------------------------------------------
(* What is read is octets, however it was cut.                             *)

\* A set of numbers of which none is above n has a largest, and CHOOSE finds it.
LEMMA LargestIs ==
    ASSUME NEW n \in Nat, NEW S \in SUBSET (0..n), S # {}
    PROVE  LET c == CHOOSE i \in S : \A j \in S : j <= i
           IN  c \in S /\ \A j \in S : j <= c
<1> DEFINE T == {n - i : i \in S}
<1>1. T \in SUBSET Nat /\ T # {}
  <2>1. \A i \in S : n - i \in Nat
    OBVIOUS
  <2> QED
    BY <2>1
<1>2. PICK x \in T : \A y \in T : x <= y
  <2> HIDE DEF T
  <2> QED
    BY <1>1, Least
<1>3. PICK k \in S : x = n - k
  BY <1>2
<1>4. \A j \in S : j <= k
  <2> TAKE j \in S
  <2>1. n - j \in T
    OBVIOUS
  <2>2. x <= n - j
    BY <1>2, <2>1
  <2> QED
    BY <1>3, <2>2
<1> QED
  BY <1>4, Zenon

LEMMA TrimTyped ==
    ASSUME NEW s \in Seq(Octet)
    PROVE  TrimZeros(s) \in Seq(Octet) /\ Len(TrimZeros(s)) <= Len(s)
<1> DEFINE kept == {i \in DOMAIN s : s[i] # 0}
           c == CHOOSE i \in kept : \A j \in kept : j <= i
           k == IF kept = {} THEN 0 ELSE c
<1>1. Len(s) \in Nat /\ DOMAIN s = 1..Len(s)
  BY LenProperties
<1>2. TrimZeros(s) = First(s, k)
  BY Zenon DEF TrimZeros, First
<1>3. kept \in SUBSET (0..Len(s))
  BY <1>1
<1> HIDE DEF kept
<1>4. kept # {} => c \in kept
  BY <1>1, <1>3, LargestIs
<1> HIDE DEF c
<1>5. k \in 0..Len(s)
  <2>1. CASE kept = {}
    BY <1>1, <2>1
  <2>2. CASE kept # {}
    BY <1>3, <1>4, <2>2
  <2> QED
    BY <2>1, <2>2
<1> HIDE DEF k
<1>6. First(s, k) \in Seq(Octet) /\ Len(First(s, k)) = k
  BY <1>5, Split
<1> QED
  BY <1>1, <1>2, <1>5, <1>6

LEMMA UnescapeTyped ==
    ASSUME NEW src \in Seq(Octet)
    PROVE  unescape(src) \in Seq(Octet) /\ Len(unescape(src)) <= Len(src)
<1>1. Len(src) \in Nat
  BY LenProperties
<1>2. CASE Len(src) < 2
  <2>1. 1..Len(src) - 2 = {}
    BY <1>1, <1>2
  <2>2. unescape(src) = FlattenSeq([i \in 1..Len(src) - 2 |-> Unescaped(src, i + 1)])
    BY Zenon DEF unescape
  <2>3. [i \in 1..Len(src) - 2 |-> Unescaped(src, i + 1)] = <<>>
    <3> DEFINE qs == [i \in 1..Len(src) - 2 |-> Unescaped(src, i + 1)]
    <3>1. qs = [i \in {} |-> Unescaped(src, i + 1)]
      BY <2>1, Zenon
    <3> QED
      BY <3>1
  <2>4. FlattenSeq(<<>>) = <<>>
    BY EmptySeq DEF FlattenSeq
  <2>5. unescape(src) = <<>>
    BY <2>2, <2>3, <2>4
  <2> QED
    BY <1>1, <2>5, EmptySeq
<1>3. CASE ~(Len(src) < 2)
  <2> DEFINE m == Len(src) - 2
  <2>1. m \in Nat /\ Len(src) - 2 = m
    BY <1>1, <1>3
  <2> HIDE DEF m
  <2>2. PICK g \in [0..m -> Seq(Octet)] :
          /\ g[0] = <<>>
          /\ \A j \in 1..m : g[j] = g[j - 1] \o Unescaped(src, j + 1)
          /\ unescape(src) = g[m]
    BY <2>1, Unescaping
  <2> DEFINE S == {j \in 0..m : Len(g[j]) <= j}
  <2>3. 0 \in S /\ S \in SUBSET (0..m)
    BY <2>1, <2>2, EmptySeq
  <2>4. ASSUME NEW j \in 1..m, j - 1 \in S PROVE j \in S
    <3> DEFINE u == Unescaped(src, j + 1)
               t == g[j - 1]
    <3>1. j - 1 \in 0..m /\ j \in 0..m /\ t \in Seq(Octet) /\ g[j] \in Seq(Octet)
      BY <2>1, <2>2
    <3>2. u \in Seq(Octet) /\ Len(u) <= 1 /\ Len(u) \in Nat
      <4>1. j \in 1..Len(src) - 2
        BY <2>1
      <4>2. u \in Seq(Octet) /\ Len(u) \in 0..1
        BY <4>1, ShortUnescaped
      <4> HIDE DEF u
      <4>3. \A i \in 0..1 : i <= 1 /\ i \in Nat
        OBVIOUS
      <4> QED
        BY <4>2, <4>3, Zenon
    <3>3. g[j] = t \o u /\ Len(t) <= j - 1
      BY <2>2, <2>4
    <3> HIDE DEF t, u
    <3>4. Len(g[j]) = Len(t) + Len(u) /\ Len(t) \in Nat
      BY <3>1, <3>2, <3>3
    <3> QED
      BY <3>1, <3>2, <3>3, <3>4
  <2> HIDE DEF S
  <2>5. \A j \in 0..m : j \in S
    BY <2>1, <2>3, <2>4, UpTo
  <2>6. Len(g[m]) <= m /\ g[m] \in Seq(Octet)
    BY <2>1, <2>2, <2>5 DEF S
  <2>7. Len(g[m]) <= Len(src)
    BY <1>1, <2>1, <2>6, LenProperties
  <2> QED
    BY <2>2, <2>6, <2>7
<1> QED
  BY <1>2, <1>3

LEMMA RoomEnough ==
    ASSUME NEW n \in Nat, n <= LongestArray
    PROVE  Capacity(n) \in Nat /\ n <= Capacity(n)
<1> DEFINE room == {c \in Capacities : c >= n}
<1>1. Capacity(n) = Min(room)
  BY DEF Capacity
<1>2. room \in SUBSET Nat /\ room # {} /\ \A c \in room : n <= c
  <2>1. 3072 \in room
    BY DEF Capacities, LongestArray
  <2> QED
    BY <2>1 DEF Capacities
<1> HIDE DEF room
<1>3. \E x \in room : \A y \in room : x <= y
  BY <1>2, Least
<1>4. Min(room) \in room
  BY <1>3 DEF Min
<1>5. PICK c \in room : Min(room) = c
  BY <1>4
<1>6. c \in Nat /\ n <= c
  BY <1>2
<1> QED
  BY <1>1, <1>5, <1>6

LEMMA VerifyTyped ==
    ASSUME NEW pkt \in Seq(Octet), Len(pkt) <= LongestArray
    PROVE  /\ verify(pkt).mem \in Seq(Octet)
           /\ Len(pkt) <= Len(verify(pkt).mem)
           /\ verify(pkt).len = Len(pkt) - 1
<1> DEFINE n == Len(pkt)
           cap == Capacity(n)
           k == IF n < cap THEN cap - n ELSE 0
           z == Zeros(k)
<1>1. n \in Nat /\ cap \in Nat
  BY LenProperties, RoomEnough
<1>2. verify(pkt).mem = pkt \o z /\ verify(pkt).len = n - 1
  BY DEF verify, FillTo
<1> HIDE DEF n, cap
<1>3. k \in Nat
  BY <1>1
<1> HIDE DEF k
<1>4. z \in Seq(Octet)
  BY <1>3 DEF Zeros, Octet
<1> HIDE DEF z
<1>5. pkt \o z \in Seq(Octet) /\ Len(pkt \o z) = Len(pkt) + Len(z) /\ Len(z) \in Nat
  BY <1>4
<1> QED
  BY <1>1, <1>2, <1>5 DEF n

LEMMA HeaderTyped ==
    ASSUME NEW version, NEW fragmented
    PROVE  /\ HeaderPhone(version) \in Seq(HeaderFields)
           /\ HeaderPart(fragmented) \in Seq(HeaderFields)
           /\ <<Word("MsgID"), Word("Attr")>> \in Seq(HeaderFields)
           /\ <<Word("SerialNumber")>> \in Seq(HeaderFields)
           /\ HeaderLayout(version, fragmented)
                = ((<<Word("MsgID"), Word("Attr")>> \o HeaderPhone(version))
                     \o <<Word("SerialNumber")>>) \o HeaderPart(fragmented)
           /\ HeaderLayout(version, fragmented) \in Seq(HeaderFields)
<1> DEFINE start == <<Word("MsgID"), Word("Attr")>>
           phone == HeaderPhone(version)
           serial == <<Word("SerialNumber")>>
           part == HeaderPart(fragmented)
<1>1. HeaderLayout(version, fragmented) = start \o phone \o serial \o part
  BY Zenon DEF HeaderLayout, Fragment, HeaderPhone, HeaderPart
<1>2. \A a, b \in HeaderFields : <<a>> \in Seq(HeaderFields) /\ <<a, b>> \in Seq(HeaderFields)
  <2> HIDE DEF HeaderFields
  <2> QED
    OBVIOUS
<1>3. /\ start \in Seq(HeaderFields) /\ serial \in Seq(HeaderFields)
      /\ <<Byte("ProtocolVersion"), BCD("PhoneNumber", 10)>> \in Seq(HeaderFields)
      /\ <<BCD("PhoneNumber", 6)>> \in Seq(HeaderFields)
      /\ <<Word("Total"), Word("Index")>> \in Seq(HeaderFields)
  <2>1. /\ Word("MsgID") \in HeaderFields /\ Word("Attr") \in HeaderFields
        /\ Byte("ProtocolVersion") \in HeaderFields /\ BCD("PhoneNumber", 10) \in HeaderFields
        /\ BCD("PhoneNumber", 6) \in HeaderFields /\ Word("SerialNumber") \in HeaderFields
        /\ Word("Total") \in HeaderFields /\ Word("Index") \in HeaderFields
    BY Zenon DEF HeaderFields
  <2> QED
    BY <1>2, <2>1, Zenon
<1>4. phone \in Seq(HeaderFields) /\ part \in Seq(HeaderFields)
  BY <1>3, EmptySeq, Zenon DEF HeaderPhone, HeaderPart
<1> HIDE DEF start, phone, serial, part
<1>5. \A a, b \in Seq(HeaderFields) : a \o b \in Seq(HeaderFields)
  OBVIOUS
<1>6. HeaderLayout(version, fragmented) \in Seq(HeaderFields)
  <2>1. start \o phone \in Seq(HeaderFields)
    BY <1>3, <1>4, <1>5
  <2>2. (start \o phone) \o serial \in Seq(HeaderFields)
    BY <2>1, <1>3, <1>5
  <2>3. ((start \o phone) \o serial) \o part \in Seq(HeaderFields)
    BY <2>2, <1>4, <1>5
  <2> QED
    BY <1>1, <2>3
<1> QED
  BY <1>1, <1>3, <1>4, <1>6, Zenon DEF start, phone, serial, part

LEMMA HeaderSize ==
    ASSUME NEW version, NEW fragmented
    PROVE  SizeOf(HeaderLayout(version, fragmented)) \in Nat
<1>1. \A f \in HeaderFields : f.size \in Nat
  BY DEF HeaderFields, Word, Byte, BCD, F
<1> QED
  BY <1>1, HeaderTyped, SizeBehind

LEMMA FromTyped ==
    ASSUME NEW s, Body(s), NEW i \in Nat, i <= s.len
    PROVE  Body(From(s, i))
<1> DEFINE r == Others(s.mem, i)
<1>1. i \in 0..Len(s.mem) /\ Len(s.mem) \in Nat
  BY LenProperties DEF Body
<1>2. From(s, i).mem = r /\ From(s, i).len = s.len - i
  BY DEF From, Others
<1>3. r \in Seq(Octet) /\ Len(r) = Len(s.mem) - i
  BY <1>1, Split DEF Body
<1> HIDE DEF r
<1> QED
  BY <1>1, <1>2, <1>3 DEF Body

LEMMA VerifiedIs ==
    ASSUME NEW s, Body(s), DecodeVerified(s).err = NoError
    PROVE  /\ ~ReadHeader(s).panic /\ DecodeVerified(s).header = ReadHeader(s).header
           /\ Body(DecodeVerified(s).body)
<1> DEFINE h == ReadHeader(s)
           p == DecodeVerified(s)
<1>1. Panic # NoError
  BY Zenon DEF Panic, NoError
<1>2. p = IF h.panic \/ h.Idx > s.len
          THEN [err |-> Panic]
          ELSE [err |-> NoError, header |-> h.header, body |-> From(s, h.Idx)]
  BY Zenon DEF DecodeVerified, NoError
<1>3. p.err = NoError
  OBVIOUS
<1> HIDE DEF h, p
<1>4. ~h.panic /\ ~(h.Idx > s.len) /\ p.header = h.header /\ p.body = From(s, h.Idx)
  BY <1>2, <1>3, <1>1
<1>5. h.Idx \in Nat
  <2>1. h.Idx = SizeOf(LayoutOf(s))
    BY <1>4, Zenon DEF ReadHeader, HeaderStart, Attrs, LayoutOf, h
  <2>2. SizeOf(LayoutOf(s)) \in Nat
    BY HeaderSize, Zenon DEF LayoutOf
  <2> QED BY <2>1, <2>2
<1>6. h.Idx <= s.len
  <2>1. s.len \in Int
    BY DEF Body
  <2> QED BY <1>4, <1>5, <2>1
<1>7. Body(From(s, h.Idx))
  BY <1>5, <1>6, FromTyped
<1> QED BY <1>4, <1>7 DEF h, p

LEMMA PacketFrom ==
    ASSUME NEW t \in Seq(Octet), Len(t) <= LongestArray, DecodePacket(t).err = NoError
    PROVE  \E s : Body(s) /\ DecodePacket(t) = DecodeVerified(s)
<1> DEFINE pkt == unescape(t)
           s == verify(pkt)
           p == DecodePacket(t)
<1>1. pkt \in Seq(Octet) /\ Len(pkt) <= LongestArray
  <2>1. pkt \in Seq(Octet) /\ Len(pkt) <= Len(t)
    BY UnescapeTyped
  <2> HIDE DEF pkt
  <2> QED BY <2>1, LenProperties DEF LongestArray
<1>2. p = CASE pkt = <<>> -> [err |-> ErrEmptyPacket]
            [] pkt # <<>> /\ ~Verified(pkt) -> [err |-> ErrVerifyFailed]
            [] OTHER -> DecodeVerified(s)
  BY Zenon DEF DecodePacket
<1>3. p.err = NoError
  OBVIOUS
<1> HIDE DEF pkt, p
<1>4. s.mem \in Seq(Octet) /\ Len(pkt) <= Len(s.mem) /\ s.len = Len(pkt) - 1
  BY <1>1, VerifyTyped
<1> HIDE DEF s
<1>5. Body(s)
  <2>1. Len(pkt) \in Nat /\ Len(s.mem) \in Nat
    BY <1>1, <1>4, LenProperties
  <2> QED BY <1>4, <2>1 DEF Body
<1>6. p = DecodeVerified(s)
  <2>1. ErrEmptyPacket # NoError /\ ErrVerifyFailed # NoError
    BY Zenon DEF ErrEmptyPacket, ErrVerifyFailed, NoError
  <2> QED BY <1>2, <1>3, <2>1
<1> QED BY <1>5, <1>6, Zenon DEF p

-----------------------------------------------------------------------------
(* Lists of parameters.                                                    *)

LEMMA ListedIs ==
    ASSUME NEW list, Listed(list)
    PROVE  /\ Len(list) \in Nat /\ DOMAIN list = 1..Len(list)
           /\ Ids(list) \in SUBSET SupportedIds
           /\ IsFiniteSet(Ids(list))
<1>1. PICK X : list \in Seq(X) /\ \A x \in X : Supported(x.id)
  BY DEF Listed
<1>2. /\ Len(list) \in Nat /\ DOMAIN list = 1..Len(list)
      /\ \A k \in 1..Len(list) : list[k] \in X
  BY <1>1, LenProperties, ElementOfSeq
<1>3. Ids(list) = {list[k].id : k \in 1..Len(list)}
  BY <1>2, Zenon DEF Ids
<1>4. \A k \in 1..Len(list) : list[k].id \in SupportedIds
  BY <1>1, <1>2, Zenon DEF Supported
<1>5. Ids(list) \in SUBSET SupportedIds
  BY <1>3, <1>4
<1>6. IsFiniteSet(Ids(list))
  <2> DEFINE f == [k \in 1..Len(list) |-> list[k].id]
  <2>1. f \in Surjection(1..Len(list), Ids(list))
    BY <1>3 DEF Surjection
  <2>2. IsFiniteSet(1..Len(list))
    BY <1>2, FS_Interval
  <2> QED
    BY <2>1, <2>2, FS_Surjection
<1> QED
  BY <1>2, <1>5, <1>6

LEMMA ListedAre ==
    ASSUME NEW n \in Nat, NEW f, DOMAIN f = 1..n, f = [k \in 1..n |-> f[k]],
           \A k \in 1..n : Supported(f[k].id)
    PROVE  Listed(f) /\ Len(f) = n
<1> DEFINE X == {f[k] : k \in 1..n}
<1>1. \A x \in X : Supported(x.id)
  OBVIOUS
<1>2. f \in [1..n -> X]
  <2>1. \A k \in 1..n : f[k] \in X
    OBVIOUS
  <2> HIDE DEF X
  <2> QED
    BY <2>1, Zenon
<1> HIDE DEF X
<1>3. f \in Seq(X) /\ Len(f) = n
  BY <1>2
<1> QED
  BY <1>1, <1>3, Zenon DEF Listed

LEMMA ListedMore ==
    ASSUME NEW list, Listed(list), NEW e, Supported(e.id)
    PROVE  Listed(Append(list, e))
<1>1. PICK X : list \in Seq(X) /\ \A x \in X : Supported(x.id)
  BY DEF Listed
<1> DEFINE Y == X \cup {e}
<1>2. \A y \in Y : Supported(y.id)
  BY <1>1, Zenon
<1>3. X \subseteq Y /\ e \in Y
  OBVIOUS
<1> HIDE DEF Y
<1>4. list \in Seq(Y)
  BY <1>1, <1>3, SeqMonotonic
<1>5. Append(list, e) \in Seq(Y)
  BY <1>3, <1>4
<1> QED
  BY <1>2, <1>5, Zenon DEF Listed

\* No parameter at all
LEMMA ListedNone == Listed(<<>>)
<1>1. PICK X : X = {}
  OBVIOUS
<1>2. <<>> \in Seq(X)
  BY EmptySeq
<1>3. \A x \in X : Supported(x.id)
  BY <1>1, Zenon
<1> QED
  BY <1>2, <1>3, Zenon DEF Listed

\* Entry finds the last of those with the identifier.
LEMMA EntryIs ==
    ASSUME NEW list, Listed(list), NEW id \in Ids(list)
    PROVE  \E k \in DOMAIN list :
             /\ Entry(list, id) = list[k] /\ list[k].id = id
             /\ \A j \in DOMAIN list : list[j].id = id => j <= k
<1> DEFINE S == {k \in DOMAIN list : list[k].id = id}
           c == CHOOSE k \in DOMAIN list :
                  list[k].id = id /\ \A j \in DOMAIN list : list[j].id = id => j <= k
<1>1. Len(list) \in Nat /\ DOMAIN list = 1..Len(list)
  BY ListedIs
<1>2. S \in SUBSET (0..Len(list)) /\ S # {}
  BY <1>1 DEF Ids
<1>3. \E k \in S : \A j \in S : j <= k
  <2> HIDE DEF S
  <2> QED
    BY <1>1, <1>2, LargestIs, Zenon
<1>4. \E k \in DOMAIN list : list[k].id = id /\ \A j \in DOMAIN list : list[j].id = id => j <= k
  BY <1>3, Zenon
<1>5. c \in DOMAIN list /\ list[c].id = id /\ \A j \in DOMAIN list : list[j].id = id => j <= c
  BY <1>4, Zenon
<1>6. Entry(list, id) = list[c]
  BY Zenon DEF Entry
<1> HIDE DEF c
<1> QED
  BY <1>5, <1>6, Zenon

\* The order of identifiers is total.
LEMMA SupportedAre == \A id \in SupportedIds : id[1] = 0 /\ id[2] \in Nat /\ id = <<id[1], id[2]>>
<1>1. SupportedIds \subseteq {0} \X Nat
  <2>1. DoubleWordParams \subseteq Nat
    BY DEF DoubleWordParams
  <2>2. WordParams \subseteq Nat /\ ByteParams \subseteq Nat /\ BCDParams \subseteq Nat
    BY DEF WordParams, ByteParams, BCDParams
  <2>3. TextParams \subseteq Nat /\ DsmParam \in Nat
    BY DEF TextParams, DsmParam
  <2> QED
    BY <2>1, <2>2, <2>3 DEF SupportedIds
<1>2. \A id \in {0} \X Nat : id[1] = 0 /\ id[2] \in Nat /\ id = <<id[1], id[2]>>
  OBVIOUS
<1> QED
  BY <1>1, <1>2, Zenon

LEMMA IdsOrdered ==
    ASSUME NEW a \in SupportedIds, NEW b \in SupportedIds
    PROVE  /\ ~LessId(a, a)
           /\ a # b => LessId(a, b) \/ LessId(b, a)
           /\ \A c \in SupportedIds : LessId(a, b) /\ LessId(b, c) => LessId(a, c)
<1>1. /\ a[1] = 0 /\ a[2] \in Nat /\ a = <<a[1], a[2]>>
      /\ b[1] = 0 /\ b[2] \in Nat /\ b = <<b[1], b[2]>>
      /\ \A c \in SupportedIds : c[1] = 0 /\ c[2] \in Nat
  BY SupportedAre, Zenon
<1>2. \A c \in SupportedIds : LessId(a, b) /\ LessId(b, c) => LessId(a, c)
  BY <1>1 DEF LessId
<1>3. a # b => a[2] # b[2]
  BY <1>1
<1>4. ~LessId(a, a) /\ (a[2] # b[2] => LessId(a, b) \/ LessId(b, a))
  BY <1>1 DEF LessId
<1> QED
  BY <1>2, <1>3, <1>4

LEMMA RankGrows ==
    ASSUME NEW ids \in SUBSET SupportedIds, IsFiniteSet(ids), NEW a \in ids, NEW b \in ids
    PROVE  /\ Rank(ids, a) \in Nat
           /\ LessId(a, b) => Rank(ids, a) < Rank(ids, b)
           /\ Rank(ids, a) < Cardinality(ids)
<1>1. /\ ~LessId(a, a) /\ ~LessId(b, b)
      /\ \A c \in ids : LessId(c, a) /\ LessId(a, b) => LessId(c, b)
  BY IdsOrdered
<1>2. \A i \in ids : /\ Below(ids, i) \in SUBSET ids
                     /\ \A c \in ids : c \in Below(ids, i) <=> LessId(c, i)
  BY DEF Below
<1> DEFINE A == Below(ids, a)
           B == Below(ids, b)
<1>3. A \in SUBSET ids /\ B \in SUBSET ids /\ a \notin A
  BY <1>1, <1>2
<1>4. IsFiniteSet(A) /\ IsFiniteSet(B)
  BY <1>3, FS_Subset
<1>5. Cardinality(A) \in Nat /\ Cardinality(B) \in Nat /\ Cardinality(ids) \in Nat
  BY <1>4, FS_CardinalityType
<1>6. LessId(a, b) => A \in SUBSET B /\ a \in B
  BY <1>1, <1>2
<1>7. Rank(ids, a) = Cardinality(A) /\ Rank(ids, b) = Cardinality(B)
  BY DEF Rank
<1> HIDE DEF A, B
<1>8. ASSUME LessId(a, b) PROVE Cardinality(A) < Cardinality(B)
  <2>1. A \in SUBSET B /\ A # B
    BY <1>3, <1>6, <1>8
  <2> QED
    BY <1>4, <1>5, <2>1, FS_Subset
<1>9. Cardinality(A) < Cardinality(ids)
  <2>1. A # ids
    BY <1>3
  <2> QED
    BY <1>3, <1>5, <2>1, FS_Subset
<1> QED
  BY <1>5, <1>7, <1>8, <1>9

\* So every place in the order is taken, and by one identifier.
LEMMA RankIs ==
    ASSUME NEW ids \in SUBSET SupportedIds, IsFiniteSet(ids)
    PROVE  /\ Cardinality(ids) \in Nat
           /\ \A id \in ids : Rank(ids, id) + 1 \in 1..Cardinality(ids)
           /\ \A a, b \in ids : Rank(ids, a) = Rank(ids, b) => a = b
           /\ \A k \in 1..Cardinality(ids) : \E id \in ids : Rank(ids, id) = k - 1
<1> DEFINE n == Cardinality(ids)
           f == [id \in ids |-> Rank(ids, id) + 1]
<1>1. n \in Nat
  BY FS_CardinalityType
<1>2. \A a, b \in ids : /\ Rank(ids, a) \in Nat /\ Rank(ids, a) < n
                        /\ LessId(a, b) => Rank(ids, a) < Rank(ids, b)
                        /\ a # b => LessId(a, b) \/ LessId(b, a)
  BY RankGrows, IdsOrdered
<1> HIDE DEF n
<1>3. \A id \in ids : Rank(ids, id) + 1 \in 1..n
  BY <1>1, <1>2
<1>4. ASSUME NEW a \in ids, NEW b \in ids, Rank(ids, a) = Rank(ids, b) PROVE a = b
  <2> SUFFICES ASSUME a # b PROVE FALSE
    OBVIOUS
  <2>1. Rank(ids, a) < Rank(ids, b) \/ Rank(ids, b) < Rank(ids, a)
    BY <1>2
  <2> QED
    BY <1>2, <1>4, <2>1
<1>5. f \in Injection(ids, 1..n)
  <2>1. f \in [ids -> 1..n]
    BY <1>3
  <2>2. \A a, b \in ids : f[a] = f[b] => a = b
    BY <1>2, <1>4
  <2> HIDE DEF f
  <2> QED
    BY <2>1, <2>2, Zenon DEF Injection, IsInjective
<1>6. f \in Surjection(ids, 1..n)
  <2>1. IsFiniteSet(1..n) /\ Cardinality(1..n) = n
    BY <1>1, FS_Interval
  <2> HIDE DEF f
  <2> QED
    BY <1>5, <2>1, FS_Injection DEF n
<1>7. \A k \in 1..n : \E id \in ids : f[id] = k
  <2> HIDE DEF f
  <2> QED
    BY <1>6 DEF Surjection
<1>8. \A k \in 1..n : \E id \in ids : Rank(ids, id) = k - 1
  <2> TAKE k \in 1..n
  <2>1. PICK id \in ids : Rank(ids, id) + 1 = k
    BY <1>7
  <2>2. Rank(ids, id) = k - 1
    BY <1>1, <1>2, <2>1
  <2> QED
    BY <2>2
<1> QED
  BY <1>1, <1>3, <1>4, <1>8 DEF n

\* Sorted puts each identifier in one place.
LEMMA SortedIs ==
    ASSUME NEW ids \in SUBSET SupportedIds, IsFiniteSet(ids)
    PROVE  /\ Cardinality(ids) \in Nat
           /\ DOMAIN Sorted(ids) = 1..Cardinality(ids)
           /\ \A k \in 1..Cardinality(ids) :
                Sorted(ids)[k] \in ids /\ Rank(ids, Sorted(ids)[k]) = k - 1
           /\ \A id \in ids : \E k \in 1..Cardinality(ids) : Sorted(ids)[k] = id
<1> DEFINE n == Cardinality(ids)
           s == Sorted(ids)
<1>1. /\ n \in Nat
      /\ \A id \in ids : Rank(ids, id) + 1 \in 1..n
      /\ \A a, b \in ids : Rank(ids, a) = Rank(ids, b) => a = b
      /\ \A k \in 1..n : \E id \in ids : Rank(ids, id) = k - 1
  BY RankIs
<1>2. s = [k \in 1..n |-> CHOOSE id \in ids : Rank(ids, id) = k - 1]
  BY Zenon DEF Sorted, Rank
<1> HIDE DEF n, s
<1>3. DOMAIN s = 1..n
  BY <1>2
<1>4. \A k \in 1..n : s[k] \in ids /\ Rank(ids, s[k]) = k - 1
  BY <1>1, <1>2, Zenon
<1>5. \A id \in ids : \E k \in 1..n : s[k] = id
  <2> TAKE id \in ids
  <2> DEFINE k == Rank(ids, id) + 1
  <2>1. k \in 1..n /\ Rank(ids, id) \in Nat
    BY <1>1, RankGrows
  <2>2. s[k] \in ids /\ Rank(ids, s[k]) = k - 1
    BY <1>4, <2>1, Zenon
  <2>3. k - 1 = Rank(ids, id)
    BY <2>1
  <2>4. s[k] = id
    <3> HIDE DEF k
    <3> QED
      BY <1>1, <2>2, <2>3, Zenon
  <2> QED
    BY <2>1, <2>4, Zenon
<1> QED
  BY <1>1, <1>3, <1>4, <1>5 DEF n, s

\* A setting replaces what is stored, and nothing else: the stored list has the same
\* parameters afterwards, each as the setting has it last, or as it was
\* (DeviceParams.Update).
THEOREM UpdateMerges ==
    ASSUME NEW old, Listed(old), NEW new, Listed(new)
    PROVE  /\ Listed(Update(old, new))
           /\ Ids(Update(old, new)) = Ids(old)
           /\ \A id \in Ids(old) : Entry(Update(old, new), id)
                                     = Entry(IF id \in Ids(new) THEN new ELSE old, id)
<1> DEFINE ids == Ids(old)
           n == Cardinality(ids)
           s == Sorted(ids)
           u == Update(old, new)
           source(id) == IF id \in Ids(new) THEN new ELSE old
<1>1. /\ n \in Nat /\ DOMAIN s = 1..n
      /\ \A k \in 1..n : s[k] \in ids /\ Rank(ids, s[k]) = k - 1
      /\ \A id \in ids : \E k \in 1..n : s[k] = id
  BY ListedIs, SortedIs
<1>2. u = [k \in 1..n |-> Entry(source(s[k]), s[k])]
  <2>1. u = [k \in DOMAIN s |-> Entry(source(s[k]), s[k])]
    BY Zenon DEF Update
  <2> HIDE DEF u, s, source
  <2> QED
    BY <1>1, <2>1
<1>3. \A id \in ids : Entry(source(id), id).id = id
  <2> TAKE id \in ids
  <2> DEFINE t == source(id)
  <2>1. Listed(t) /\ id \in Ids(t)
    BY Zenon
  <2> HIDE DEF t
  <2>2. PICK k \in DOMAIN t : Entry(t, id) = t[k] /\ t[k].id = id
    BY <2>1, EntryIs
  <2> QED
    BY <2>2 DEF t
<1>4. ids \in SUBSET SupportedIds
  BY ListedIs
<1> HIDE DEF ids, n, s, u, source
<1>5. \A k \in 1..n : u[k] = Entry(source(s[k]), s[k]) /\ u[k].id = s[k]
  BY <1>1, <1>2, <1>3, Zenon
<1>6. DOMAIN u = 1..n /\ u = [k \in 1..n |-> u[k]]
  BY <1>2
<1>7. Listed(u) /\ Len(u) = n
  <2>1. \A k \in 1..n : Supported(u[k].id)
    BY <1>1, <1>4, <1>5 DEF Supported
  <2> QED
    BY <1>1, <1>6, <2>1, ListedAre
<1>8. Ids(u) = ids
  <2>1. Ids(u) = {u[k].id : k \in 1..n}
    BY <1>6, Zenon DEF Ids
  <2>2. \A id \in ids : \E k \in 1..n : u[k].id = id
    BY <1>1, <1>5, Zenon
  <2>3. \A k \in 1..n : u[k].id \in ids
    BY <1>1, <1>5, Zenon
  <2> QED
    BY <2>1, <2>2, <2>3
<1>9. ASSUME NEW id \in ids PROVE Entry(u, id) = Entry(source(id), id)
  <2>1. PICK k \in DOMAIN u : Entry(u, id) = u[k] /\ u[k].id = id
    BY <1>7, <1>8, EntryIs
  <2>2. s[k] = id
    BY <1>5, <1>6, <2>1
  <2> QED
    BY <1>5, <1>6, <2>1, <2>2
<1> QED
  BY <1>7, <1>8, <1>9 DEF u, ids, source

-----------------------------------------------------------------------------
(* What is read as a list of parameters is one, whatever the octets are.   *)

LEMMA ReadExists ==
    ASSUME NEW s, NEW n \in Nat
    PROVE  \E f : ReadSteps(s, n, f)
<1> DEFINE S == {k \in 0..n : \E f : ReadSteps(s, k, f)}
<1>1. 0 \in S
  <2> DEFINE f == [i \in 0..0 |-> NothingRead]
  <2>1. ReadSteps(s, 0, f)
    BY DEF ReadSteps
  <2> HIDE DEF f
  <2> QED
    BY <2>1
<1>2. ASSUME NEW k \in 1..n, k - 1 \in S PROVE k \in S
  <2>1. PICK g : ReadSteps(s, k - 1, g)
    BY <1>2
  <2> DEFINE h == [i \in 0..k |-> IF i = k THEN ReadParam(s, g[k - 1]) ELSE g[i]]
  <2>2. /\ k \in 0..n /\ k \in 0..k /\ k # 0 /\ 0 \in 0..k
        /\ \A i \in 1..k : /\ i - 1 # k /\ i - 1 \in 0..k /\ i \in 0..k
                           /\ i # k => i \in 1..k - 1
    OBVIOUS
  <2>3. h[0] = NothingRead
    BY <2>1, <2>2, Zenon DEF ReadSteps
  <2>4. ASSUME NEW i \in 1..k PROVE h[i] = ReadParam(s, h[i - 1])
    <3>1. h[i - 1] = g[i - 1]
      BY <2>2, Zenon
    <3>2. CASE i = k
      BY <2>2, <3>1, <3>2, Zenon
    <3>3. CASE i # k
      <4>1. g[i] = ReadParam(s, g[i - 1])
        BY <2>1, <2>2, <3>3, Zenon DEF ReadSteps
      <4> QED
        BY <2>2, <3>1, <3>3, <4>1, Zenon
    <3> QED
      BY <3>2, <3>3
  <2>5. DOMAIN h = 0..k
    OBVIOUS
  <2> HIDE DEF h
  <2>6. ReadSteps(s, k, h)
    BY <2>3, <2>4, <2>5, Zenon DEF ReadSteps
  <2> QED
    BY <2>2, <2>6
<1> HIDE DEF S
<1>3. \A k \in 0..n : k \in S
  <2>1. S \in SUBSET (0..n)
    BY DEF S
  <2> QED
    BY <1>1, <1>2, <2>1, UpTo
<1> QED
  BY <1>3 DEF S

LEMMA ReadParamsIs ==
    ASSUME NEW s, NEW n \in Nat
    PROVE  \E f : ReadSteps(s, n, f) /\ ReadParams(s, n) = f[n]
<1> DEFINE q == [i \in 1..n |-> i]
           step(g) == [i \in 0..n |-> IF i = 0 THEN NothingRead ELSE ReadParam(s, g[i - 1])]
           all == CHOOSE g : g = step(g)
<1>1. Len(q) = n
  <2>1. q \in Seq(Nat) /\ Len(q) = n
    OBVIOUS
  <2> QED
    BY <2>1
<1>2. ReadParams(s, n) = all[n]
  <2> DEFINE again(g) == [i \in 0..Len(q) |-> IF i = 0 THEN NothingRead ELSE ReadParam(s, g[i - 1])]
  <2>1. ReadParams(s, n) = (CHOOSE g : g = again(g))[Len(q)]
    BY Zenon DEF ReadParams, Through, NothingRead
  <2> HIDE DEF q
  <2> QED
    BY <1>1, <2>1
<1>3. PICK f : ReadSteps(s, n, f)
  BY ReadExists
<1>4. \E g : g = step(g)
  <2> DEFINE f1 == [i \in 0..n |-> f[i]]
  <2>1. \A i \in 0..n : f[i] = IF i = 0 THEN NothingRead ELSE ReadParam(s, f1[i - 1])
    <3> SUFFICES ASSUME NEW i \in 0..n, i # 0 PROVE f[i] = ReadParam(s, f1[i - 1])
      BY <1>3 DEF ReadSteps
    <3>1. i \in 1..n /\ i - 1 \in 0..n
      OBVIOUS
    <3>2. f1[i - 1] = f[i - 1]
      BY <3>1, Zenon
    <3> QED
      BY <1>3, <3>1, <3>2, Zenon DEF ReadSteps
  <2>2. f1 = step(f1)
    BY <2>1, Zenon
  <2> QED
    BY <2>2, Zenon
<1>5. all = step(all)
  BY <1>4, Zenon
<1> HIDE DEF all
<1>6. ReadSteps(s, n, all)
  <2>1. DOMAIN all = 0..n
    BY <1>5, Zenon
  <2>2. all[0] = NothingRead
    <3>1. 0 \in 0..n
      OBVIOUS
    <3> QED
      BY <1>5, <3>1, Zenon
  <2>3. ASSUME NEW i \in 1..n PROVE all[i] = ReadParam(s, all[i - 1])
    <3>1. i \in 0..n /\ i # 0
      OBVIOUS
    <3> QED
      BY <1>5, <3>1, Zenon
  <2> QED
    BY <2>1, <2>2, <2>3, Zenon DEF ReadSteps
<1> QED
  BY <1>2, <1>6, Zenon

LEMMA ReadListed ==
    ASSUME NEW s, NEW n \in Nat
    PROVE  Listed(ReadParams(s, n).params)
<1>1. PICK f : ReadSteps(s, n, f) /\ ReadParams(s, n) = f[n]
  BY ReadParamsIs
<1> DEFINE Good(r) == "params" \in DOMAIN r /\ Listed(r.params)
           S == {i \in 0..n : Good(f[i])}
<1>2. 0 \in S
  <2>1. f[0] = NothingRead
    BY <1>1 DEF ReadSteps
  <2>2. "params" \in DOMAIN NothingRead /\ NothingRead.params = <<>>
    BY DEF NothingRead
  <2>3. 0 \in 0..n
    OBVIOUS
  <2> QED
    BY <2>1, <2>2, <2>3, ListedNone, Zenon
<1>3. ASSUME NEW i \in 1..n, i - 1 \in S PROVE i \in S
  <2> DEFINE r == f[i - 1]
             t == ReadParam(s, r)
             at == From(s, r.idx)
             head == ReadAll(at, ParamHead)
             layout == ParamLayout(head.ParamID, head.ParamLen)
             value == From(at, SizeOf(ParamHead))
             e == [id |-> head.ParamID, value |-> ReadAll(value, layout)]
             next == r.idx + SizeOf(ParamHead) + SizeOf(layout)
  <2>1. f[i] = t /\ i \in 0..n
    BY <1>1 DEF ReadSteps
  <2>2. Good(r)
    BY <1>3
  <2>3. t = IF r.panic \/ ~Readable(at, ParamHead)
            THEN [r EXCEPT !.panic = TRUE]
            ELSE IF ~Supported(head.ParamID) \/ ~Readable(value, layout)
            THEN [r EXCEPT !.panic = TRUE]
            ELSE [panic |-> FALSE, idx |-> next, params |-> Append(r.params, e)]
    BY Zenon DEF ReadParam
  <2>4. e.id = head.ParamID
    OBVIOUS
  <2> HIDE DEF t, r, at, head, layout, value, e, next
  <2>5. \/ t = [r EXCEPT !.panic = TRUE]
        \/ /\ t = [panic |-> FALSE, idx |-> next, params |-> Append(r.params, e)]
           /\ Supported(e.id)
    BY <2>3, <2>4, Zenon
  <2>6. CASE t = [r EXCEPT !.panic = TRUE]
    <3>1. "params" \in DOMAIN t /\ t.params = r.params
      BY <2>2, <2>6
    <3> QED
      BY <2>1, <2>2, <3>1, Zenon
  <2>7. CASE /\ t = [panic |-> FALSE, idx |-> next, params |-> Append(r.params, e)]
             /\ Supported(e.id)
    <3>1. "params" \in DOMAIN t /\ t.params = Append(r.params, e)
      BY <2>7
    <3>2. Listed(Append(r.params, e))
      BY <2>2, <2>7, ListedMore
    <3> QED
      BY <2>1, <3>1, <3>2, Zenon
  <2> QED
    BY <2>5, <2>6, <2>7
<1>4. S \in SUBSET (0..n)
  OBVIOUS
<1> HIDE DEF S
<1>5. n \in S
  <2>1. \A i \in 0..n : i \in S
    BY <1>2, <1>3, <1>4, UpTo
  <2> QED
    BY <2>1
<1> QED
  BY <1>1, <1>5 DEF S

-----------------------------------------------------------------------------
(* What a handler is given, and what it makes of the parameters.           *)

\* A body with a count in it counts with an octet.
LEMMA ParamCount ==
    ASSUME NEW s, Body(s), Readable(s, ParamsSetting)
    PROVE  ReadAll(s, ParamsSetting).ParamCnt \in Nat
<1> DEFINE f == Byte("ParamCnt")
           at == OffsetOf(ParamsSetting, 1)
           b == SubSeq(s.mem, at + 1, at + 1)
<1>1. /\ DOMAIN ParamsSetting = {1} /\ ParamsSetting[1] = f
      /\ f.name = "ParamCnt" /\ f.kind = "byte" /\ f.size = 1
  BY DEF ParamsSetting, Byte, F
<1>2. at = 0
  <2>1. SubSeq(ParamsSetting, 1, 1 - 1) = <<>>
    BY SubSeqEmpty
  <2> QED
    BY <2>1, SizeEmpty DEF OffsetOf
<1>3. at < s.len
  <2> HIDE DEF f, at
  <2>1. LET g == ParamsSetting[1] IN IF g.kind = "byte" THEN at < s.len ELSE at + g.size <= Len(s.mem)
    BY <1>1, Zenon DEF Readable, at
  <2> QED
    BY <1>1, <2>1
<1>4. ReadAll(s, ParamsSetting).ParamCnt = Read(f, b)
  <2> DEFINE k == CHOOSE k \in DOMAIN ParamsSetting : ParamsSetting[k].name = "ParamCnt"
             off == OffsetOf(ParamsSetting, k)
  <2>1. k = 1
    BY <1>1
  <2>2. "ParamCnt" \in {ParamsSetting[i].name : i \in DOMAIN ParamsSetting}
    BY <1>1
  <2>3. ReadAll(s, ParamsSetting).ParamCnt
          = Read(ParamsSetting[k], SubSeq(s.mem, off + 1, off + ParamsSetting[k].size))
    BY <2>2, Zenon DEF ReadAll
  <2> HIDE DEF k, f
  <2> QED
    BY <1>1, <2>1, <2>3
<1>5. Read(f, b) = b[1]
  <2> HIDE DEF f, b
  <2> QED
    BY <1>1 DEF Read
<1>6. b[1] \in Octet
  <2>1. 1 \in 1..Len(s.mem)
    BY <1>2, <1>3, LenProperties DEF Body
  <2>2. s.mem[1] \in Octet
    BY <2>1, ElementOfSeq DEF Body
  <2>3. b = SubSeq(s.mem, 1, 1)
    BY <1>2
  <2> HIDE DEF b
  <2>4. b[1] = s.mem[1]
    <3>1. \A i \in 1..1 : s.mem[i] \in Octet
      BY <2>2
    <3>2. \A i \in 1..1 - 1 + 1 : SubSeq(s.mem, 1, 1)[i] = s.mem[1 + i - 1]
      BY <3>1, SubSeqProperties
    <3> QED
      BY <2>3, <3>2
  <2> QED
    BY <2>2, <2>4
<1> HIDE DEF f, b
<1> QED
  BY <1>4, <1>5, <1>6 DEF Octet

\* A setting that is read at all has a list of supported parameters.
LEMMA SettingListed ==
    ASSUME NEW h, NEW s, Body(s), IsSetting(h), ~ReadBody(h, s).panic
    PROVE  Listed(ReadBody(h, s).body.Parameters)
<1> DEFINE layout == BodyLayout(h, s)
           read == ReadAll(s, layout)
           rest == From(s, SizeOf(layout))
           list == ReadParams(rest, read.ParamCnt)
           setting == [panic |-> list.panic, body |-> With(read, "Parameters", list.params)]
           r == ReadBody(h, s)
<1>1. Readable(s, layout)
  BY DEF ReadBody
<1>2. r = setting
  BY <1>1 DEF ReadBody, IsSetting
<1>3. layout = ParamsSetting
  BY DEF BodyLayout, IsSetting
<1>4. setting.body.Parameters = ReadParams(rest, read.ParamCnt).params
  BY DEF With
<1> HIDE DEF r, layout, setting
<1>5. read.ParamCnt \in Nat
  BY <1>1, <1>3, ParamCount
<1> HIDE DEF read, rest
<1>6. Listed(ReadParams(rest, read.ParamCnt).params)
  BY <1>5, ReadListed
<1> QED
  BY <1>4, <1>2, <1>6 DEF r

-----------------------------------------------------------------------------
(* Fields: what is written behind one another is found again.              *)

LEMMA FlattenPlaces ==
    ASSUME NEW X, NEW ps \in Seq(Seq(X)), NEW f, Joins(X, f, ps), NEW i \in 1..Len(ps)
    PROVE  Stands(f, ps, i)
<1> DEFINE n == Len(ps)
           a == Len(f[i - 1])
           p == ps[i]
           Placed1(j) == a + Len(p) <= Len(f[j]) /\ \A k \in 1..Len(p) : f[j][a + k] = p[k]
           S == {j \in 0..n : j < i \/ Placed1(j)}
<1>1. /\ n \in Nat /\ i \in 1..n /\ i - 1 \in 0..n /\ i \in 0..n
      /\ \A j \in 1..n : j - 1 \in 0..n /\ j \in 0..n /\ ps[j] \in Seq(X)
  BY LenProperties, ElementOfSeq
<1>2. \A j \in 0..n : f[j] \in Seq(X) /\ Len(f[j]) \in Nat
  BY LenProperties DEF Joins
<1>3. \A j \in 1..n : /\ Len(f[j]) = Len(f[j - 1]) + Len(ps[j])
                      /\ \A k \in 1..Len(f[j - 1]) : f[j][k] = f[j - 1][k]
                      /\ \A k \in 1..Len(ps[j]) : f[j][Len(f[j - 1]) + k] = ps[j][k]
  <2> TAKE j \in 1..n
  <2>1. f[j] = f[j - 1] \o ps[j] /\ f[j - 1] \in Seq(X) /\ ps[j] \in Seq(X)
    BY <1>1, <1>2 DEF Joins
  <2> DEFINE g == f[j - 1]
             q == ps[j]
             r == f[j]
  <2>2. r = g \o q /\ g \in Seq(X) /\ q \in Seq(X)
    BY <2>1
  <2> HIDE DEF g, q, r
  <2>3. /\ Len(r) = Len(g) + Len(q)
        /\ \A k \in 1..Len(g) : r[k] = g[k]
        /\ \A k \in 1..Len(q) : r[Len(g) + k] = q[k]
    BY <2>2, Behind
  <2> QED
    BY <2>3 DEF g, q, r
<1>4. p \in Seq(X) /\ Len(p) \in Nat /\ a \in Nat /\ Len(f[i]) = a + Len(p)
  BY <1>1, <1>2, <1>3, LenProperties
<1>5. 0 \in S /\ S \in SUBSET (0..n)
  <2> HIDE DEF Placed1, n
  <2> QED
    BY <1>1
<1>6. Placed1(i)
  <2>1. a + Len(p) <= Len(f[i])
    <3> HIDE DEF a, p
    <3> QED
      BY <1>4
  <2>2. \A k \in 1..Len(p) : f[i][a + k] = p[k]
    BY <1>1, <1>3, Zenon
  <2> QED
    BY <2>1, <2>2
<1>7. \A j \in 1..n : Len(f[j - 1]) <= Len(f[j])
  <2> TAKE j \in 1..n
  <2>1. ps[j] \in Seq(X) /\ j - 1 \in 0..n
    BY <1>1
  <2>2. Len(ps[j]) \in Nat /\ Len(f[j - 1]) \in Nat
    BY <1>2, <2>1, LenProperties
  <2>3. Len(f[j]) = Len(f[j - 1]) + Len(ps[j])
    BY <1>3
  <2> DEFINE x == Len(f[j - 1])
             y == Len(ps[j])
             z == Len(f[j])
  <2> HIDE DEF x, y, z
  <2>4. x \in Nat /\ y \in Nat /\ z = x + y
    BY <2>2, <2>3 DEF x, y, z
  <2>5. x <= z
    BY <2>4
  <2> QED
    BY <2>5 DEF x, z
<1> HIDE DEF p, a, n
<1>8. ASSUME NEW j \in 1..n, j - 1 \in S PROVE j \in S
  <2>1. CASE j < i
    BY <1>1, <2>1
  <2>2. CASE j = i
    BY <1>1, <1>6, <2>2
  <2>3. CASE i < j
    <3>1. ~(j - 1 < i) /\ Len(f[j - 1]) \in Nat /\ Len(f[j]) \in Nat
      BY <1>1, <1>2, <2>3
    <3>2. Placed1(j - 1)
      BY <1>8, <3>1
    <3>3. Len(f[j - 1]) <= Len(f[j]) /\ \A k \in 1..Len(f[j - 1]) : f[j][k] = f[j - 1][k]
      BY <1>3, <1>7
    <3>4. a + Len(p) <= Len(f[j])
      BY <1>4, <3>1, <3>2, <3>3
    <3>5. ASSUME NEW k \in 1..Len(p) PROVE f[j][a + k] = p[k]
      <4>1. a + k \in 1..Len(f[j - 1])
        BY <1>4, <3>1, <3>2
      <4> QED
        BY <3>2, <3>3, <4>1
    <3> QED
      BY <1>1, <3>4, <3>5
  <2> QED
    BY <1>1, <2>1, <2>2, <2>3
<1> HIDE DEF S
<1>9. n \in S
  <2>1. \A j \in 0..n : j \in S
    BY <1>1, <1>5, <1>8, UpTo
  <2> QED
    BY <1>1, <2>1
<1>10. Placed1(n)
  BY <1>1, <1>9 DEF S
<1> QED
  BY <1>4, <1>10 DEF n, p, a, Stands

\* The k-th field stands where its offset says.
LEMMA FieldsWritten ==
    ASSUME NEW layout, NEW m, Suits(layout, m)
    PROVE  /\ WriteAll(layout, m) \in Seq(Octet)
           /\ Len(WriteAll(layout, m)) = SizeOf(layout)
           /\ Len(layout) \in Nat /\ DOMAIN layout = 1..Len(layout)
           /\ \A k \in 1..Len(layout) :
                /\ OffsetOf(layout, k) \in Nat
                /\ OffsetOf(layout, k) + layout[k].size <= SizeOf(layout)
                /\ \A i \in 1..layout[k].size :
                     WriteAll(layout, m)[OffsetOf(layout, k) + i]
                       = Write(layout[k], m[layout[k].name])[i]
<1> DEFINE n == Len(layout)
           v(k) == Write(layout[k], m[layout[k].name])
           ps == [k \in 1..n |-> v(k)]
           all == WriteAll(layout, m)
<1>1. PICK X : layout \in Seq(X) /\ \A x \in X : x.size \in Nat
  BY DEF Suits
<1>2. n \in Nat /\ DOMAIN layout = 1..n /\ \A k \in 1..n : layout[k] \in X
  BY <1>1, LenProperties, ElementOfSeq
<1>3. \A k \in 1..n : v(k) \in Seq(Octet) /\ Len(v(k)) = layout[k].size /\ layout[k].size \in Nat
  BY <1>2 DEF Suits, Fits
<1>4. all = FlattenSeq(ps)
  <2>1. all = FlattenSeq([k \in DOMAIN layout |-> v(k)])
    BY Zenon DEF WriteAll
  <2> HIDE DEF all, v
  <2> QED
    BY <1>2, <2>1
<1> HIDE DEF n, v, all
<1>5. ps \in Seq(Seq(Octet)) /\ Len(ps) = n /\ \A k \in 1..n : ps[k] = v(k)
  BY <1>2, <1>3
<1> HIDE DEF ps
<1>6. PICK f \in [0..n -> Seq(Octet)] :
        /\ f[0] = <<>>
        /\ \A i \in 1..n : f[i] = f[i - 1] \o ps[i]
        /\ all = f[n]
  BY <1>4, <1>5, FlattenSteps
<1>7. \A i \in 1..n :
        /\ Len(f[i]) = Len(f[i - 1]) + Len(ps[i])
        /\ Len(f[i]) <= Len(f[n])
        /\ \A k \in 1..Len(ps[i]) : f[n][Len(f[i - 1]) + k] = ps[i][k]
  <2>1. ps \in Seq(Seq(Octet)) /\ Len(ps) = n
    BY <1>5
  <2>2. Joins(Octet, f, ps)
    BY <1>6, <2>1 DEF Joins
  <2>3. ps \in Seq(Seq(Octet))
    BY <2>1
  <2>4. \A i \in 1..Len(ps) :
          /\ Len(f[i]) = Len(f[i - 1]) + Len(ps[i])
          /\ Len(f[i]) <= Len(f[Len(ps)])
          /\ \A k \in 1..Len(ps[i]) : f[Len(ps)][Len(f[i - 1]) + k] = ps[i][k]
    <3> TAKE i \in 1..Len(ps)
    <3>1. Stands(f, ps, i)
      BY <2>2, <2>3, FlattenPlaces
    <3> QED
      BY <3>1 DEF Stands
  <2> QED
    BY <2>1, <2>4
<1> DEFINE g == [i \in 0..n |-> Len(f[i])]
<1>8. SumSteps(layout, g)
  <2>1. g \in [0..n -> Nat]
    BY <1>2, <1>6, LenProperties
  <2>2. g[0] = 0
    BY <1>2, <1>6
  <2>3. ASSUME NEW i \in 1..n PROVE g[i] = g[i - 1] + layout[i].size
    <3>1. i \in 0..n /\ i - 1 \in 0..n
      BY <1>2
    <3>2. g[i] = Len(f[i]) /\ g[i - 1] = Len(f[i - 1])
      BY <3>1
    <3> QED
      BY <1>3, <1>5, <1>7, <3>2
  <2> HIDE DEF g
  <2> QED
    BY <2>1, <2>2, <2>3 DEF SumSteps, n
<1>9. \A k \in 0..n : Upto(layout, k) = Len(f[k])
  <2> DEFINE S == {k \in 0..n : Upto(layout, k) = Len(f[k])}
  <2>1. /\ Upto(layout, 0) = 0
        /\ \A i \in 1..n : Upto(layout, i) = Upto(layout, i - 1) + layout[i].size
    BY <1>1, UptoFacts DEF n
  <2>2. 0 \in S /\ S \in SUBSET (0..n)
    BY <1>2, <1>6, <2>1
  <2>3. ASSUME NEW k \in 1..n, k - 1 \in S PROVE k \in S
    <3>1. k \in 0..n /\ Upto(layout, k - 1) = Len(f[k - 1])
      BY <1>2, <2>3
    <3>2. Upto(layout, k) = Upto(layout, k - 1) + layout[k].size
      BY <2>1
    <3>3. Len(f[k]) = Len(f[k - 1]) + Len(ps[k]) /\ Len(ps[k]) = layout[k].size
      BY <1>3, <1>5, <1>7
    <3>4. Upto(layout, k) = Len(f[k])
      BY <3>1, <3>2, <3>3, Zenon
    <3> QED
      BY <3>1, <3>4
  <2> HIDE DEF S
  <2>4. \A k \in 0..n : k \in S
    BY <1>2, <2>2, <2>3, UpTo
  <2> QED
    BY <2>4 DEF S
<1>10. SizeOf(layout) = Len(f[n])
  <2>1. Upto(layout, n) = SizeOf(layout)
    BY <1>1, UptoFacts DEF n
  <2> QED
    BY <1>2, <1>9, <2>1
<1>11. ASSUME NEW k \in 1..n
       PROVE  /\ OffsetOf(layout, k) \in Nat
              /\ OffsetOf(layout, k) + layout[k].size <= SizeOf(layout)
              /\ \A i \in 1..layout[k].size : all[OffsetOf(layout, k) + i] = v(k)[i]
  <2>1. OffsetOf(layout, k) = Upto(layout, k - 1)
    BY DEF OffsetOf, Upto, First
  <2>2. k - 1 \in 0..n
    BY <1>2
  <2>3. OffsetOf(layout, k) = Len(f[k - 1])
    BY <1>9, <2>1, <2>2
  <2>4. Len(f[k - 1]) \in Nat
    BY <1>6, <2>2, LenProperties
  <2>5. ps[k] = v(k) /\ Len(v(k)) = layout[k].size
    BY <1>3, <1>5
  <2> QED
    BY <1>6, <1>7, <1>10, <2>3, <2>4, <2>5
<1>12. all \in Seq(Octet) /\ Len(all) = SizeOf(layout)
  BY <1>2, <1>6, <1>10
<1> QED
  BY <1>2, <1>11, <1>12 DEF n, v, all

\* What was written of a layout is read back, whatever stands behind it: every value
\* that suits its field comes back from the packet, and no read leaves it
\* (the Encode and Decode of every message with a fixed layout).
THEOREM FieldsKept ==
    ASSUME NEW layout, NEW m, Suits(layout, m), NEW s, Begins(s, layout, m)
    PROVE  ReadsBack(s, layout, m)
<1>9. PICK rest \in Seq(Octet) : s.mem = WriteAll(layout, m) \o rest
  BY Zenon DEF Begins
<1>0. s.len \in Int /\ SizeOf(layout) <= s.len
  BY Zenon DEF Begins
<1> DEFINE all == WriteAll(layout, m)
           size == SizeOf(layout)
           at(k) == OffsetOf(layout, k)
           v(k) == Write(layout[k], m[layout[k].name])
<1>1. /\ all \in Seq(Octet) /\ Len(all) = size
      /\ DOMAIN layout = 1..Len(layout)
      /\ \A k \in 1..Len(layout) :
           /\ at(k) \in Nat
           /\ at(k) + layout[k].size <= size
           /\ \A i \in 1..layout[k].size : all[at(k) + i] = v(k)[i]
  BY FieldsWritten
<1>2. \A k \in DOMAIN layout :
        /\ layout[k].size \in Nat /\ v(k) \in Seq(Octet) /\ Len(v(k)) = layout[k].size
        /\ Read(layout[k], v(k)) = m[layout[k].name]
  BY DEF Suits, Fits
<1>3. s.mem = all \o rest
  BY <1>9
<1> DEFINE mem == s.mem
<1> HIDE DEF all, size, at, v, mem
<1>4. mem \in Seq(Octet) /\ Len(mem) = size + Len(rest) /\ \A i \in 1..size : mem[i] = all[i]
  <2>1. mem = all \o rest
    BY <1>3 DEF mem
  <2>2. all \in Seq(Octet) /\ rest \in Seq(Octet)
    BY <1>1
  <2>3. /\ mem \in Seq(Octet) /\ Len(mem) = Len(all) + Len(rest)
        /\ \A j \in 1..Len(all) : mem[j] = all[j]
    BY <2>1, <2>2, Behind
  <2> QED
    BY <1>1, <2>3
<1>5. size \in Nat /\ Len(rest) \in Nat
  BY <1>1, LenProperties
<1>6. ASSUME NEW k \in DOMAIN layout
      PROVE  SubSeq(mem, at(k) + 1, at(k) + layout[k].size) = v(k)
  <2> DEFINE c == layout[k].size
             w == v(k)
             o == at(k)
             t == SubSeq(mem, o + 1, o + c)
  <2>1. c \in Nat /\ o \in Nat /\ o + c <= size /\ w \in Seq(Octet) /\ Len(w) = c
    BY <1>1, <1>2
  <2>2. \A i \in 1..c : all[o + i] = w[i]
    BY <1>1
  <2> HIDE DEF c, w, o
  <2>3. \A i \in 1..c : o + i \in 1..size /\ mem[o + i] = w[i]
    BY <1>4, <1>5, <2>1, <2>2
  <2>4. \A i \in (o + 1)..(o + c) : mem[i] \in Octet
    <3> TAKE i \in (o + 1)..(o + c)
    <3>1. i \in 1..Len(mem)
      BY <1>4, <1>5, <2>1
    <3> QED
      BY <1>4, <3>1, ElementOfSeq
  <2>5. /\ t \in Seq(Octet)
        /\ Len(t) = IF o + 1 <= o + c THEN (o + c) - (o + 1) + 1 ELSE 0
        /\ \A i \in 1..(o + c) - (o + 1) + 1 : t[i] = mem[(o + 1) + i - 1]
    BY <2>1, <2>4, SubSeqProperties
  <2> HIDE DEF t
  <2>6. Len(t) = c /\ \A i \in 1..c : t[i] = mem[o + i]
    <3>1. (o + c) - (o + 1) + 1 = c /\ \A i \in 1..c : (o + 1) + i - 1 = o + i
      BY <2>1
    <3>2. c = 0 => ~(o + 1 <= o + c)
      BY <2>1
    <3>3. c # 0 => o + 1 <= o + c
      BY <2>1
    <3> QED
      BY <2>5, <3>1, <3>2, <3>3
  <2>7. t = w
    BY <2>1, <2>3, <2>5, <2>6, SeqEqual
  <2> QED
    BY <2>7 DEF t, w, o, c
<1>7. Readable(s, layout)
  <2>1. ASSUME NEW k \in DOMAIN layout
        PROVE  /\ layout[k].size >= 0
               /\ IF layout[k].kind = "byte" THEN at(k) < s.len
                  ELSE at(k) + layout[k].size <= Len(s.mem)
    <3>1. layout[k].size \in Nat /\ at(k) \in Nat /\ at(k) + layout[k].size <= size
      BY <1>1, <1>2
    <3>2. at(k) + layout[k].size <= Len(s.mem)
      BY <1>4, <1>5, <3>1 DEF mem
    <3>3. layout[k].kind = "byte" => at(k) < s.len
      <4>1. layout[k].kind = "byte" => layout[k].size # 0
        <5> SUFFICES ASSUME layout[k].kind = "byte", layout[k].size = 0 PROVE FALSE
          OBVIOUS
        <5>1. v(k) = <<m[layout[k].name]>>
          BY DEF Write, v
        <5>2. Len(v(k)) = 0
          BY <1>2
        <5>3. \A x : Len(<<x>>) = 1
          OBVIOUS
        <5> QED
          BY <5>1, <5>2, <5>3
      <4>2. size <= s.len
        BY <1>0 DEF size
      <4> QED
        BY <1>0, <1>5, <3>1, <4>1, <4>2
    <3> QED
      BY <3>1, <3>2, <3>3
  <2> QED
    BY <2>1, Zenon DEF Readable, at
<1>8. ASSUME NEW k \in DOMAIN layout
      PROVE  ReadAll(s, layout)[layout[k].name] = m[layout[k].name]
  <2> DEFINE name == layout[k].name
             c == CHOOSE j \in DOMAIN layout : layout[j].name = name
  <2>1. c = k
    <3>1. \A i, j \in DOMAIN layout : layout[i].name = layout[j].name => i = j
      BY DEF Suits
    <3> QED
      BY <3>1, Zenon
  <2>2. name \in {layout[j].name : j \in DOMAIN layout}
    OBVIOUS
  <2>3. ReadAll(s, layout)[name]
          = Read(layout[c], SubSeq(s.mem, OffsetOf(layout, c) + 1,
                                   OffsetOf(layout, c) + layout[c].size))
    BY <2>2, Zenon DEF ReadAll
  <2> HIDE DEF c
  <2>4. ReadAll(s, layout)[name] = Read(layout[k], SubSeq(mem, at(k) + 1, at(k) + layout[k].size))
    BY <2>1, <2>3, Zenon DEF mem, at
  <2> QED
    BY <1>2, <1>6, <2>4, Zenon
<1> QED
  BY <1>7, <1>8, Zenon DEF ReadsBack

\* What each kind of field takes and gives back.
LEMMA ByteFits ==
    ASSUME NEW name, NEW v \in Octet
    PROVE  Fits(Byte(name), v)
<1>1. Write(Byte(name), v) = <<v>> /\ Byte(name).size = 1
  BY DEF Write, Byte, F
<1>2. Read(Byte(name), <<v>>) = v
  BY DEF Read, Byte, F
<1>3. <<v>> \in Seq(Octet) /\ Len(<<v>>) = 1
  OBVIOUS
<1> QED
  BY <1>1, <1>2, <1>3 DEF Fits

LEMMA WordWritten ==
    ASSUME NEW n
    PROVE  Len(WriteWord(n)) = 2
BY DEF WriteWord

\* What a WORD holds
LEMMA WordFits ==
    ASSUME NEW name, NEW v, AWord(v)
    PROVE  Fits(Word(name), v)
<1>1. Write(Word(name), v) = WriteWord(v) /\ Word(name).size = 2
  BY DEF Write, Word, F
<1>2. \A b : Read(Word(name), b) = WordOf(b)
  BY DEF Read, Word, F
<1>3. WriteWord(v) \in Seq(Octet) /\ WordOf(WriteWord(v)) = v
  BY WordKept, Zenon DEF AWord
<1>4. Read(Word(name), WriteWord(v)) = v
  BY <1>2, <1>3, Zenon
<1>5. Len(WriteWord(v)) = 2
  BY WordWritten, Zenon
<1>6. Word(name).size \in Nat /\ Len(Write(Word(name), v)) = Word(name).size
  <2> HIDE DEF AWord
  <2>1. 2 \in Nat
    OBVIOUS
  <2> QED
    BY <1>1, <1>5, <2>1, Zenon
<1> QED
  BY <1>1, <1>3, <1>4, <1>6, Zenon DEF Fits

LEMMA TwoWords ==
    ASSUME NEW g, TwoOctets(g), NEW p, TwoOctets(p)
    PROVE  TwoOf(g \o p, g, p)
<1> DEFINE r == g \o p
<1>1. /\ r \in Seq(Octet) /\ Len(r) = Len(g) + Len(p)
      /\ \A j \in 1..Len(g) : r[j] = g[j]
      /\ \A k \in 1..Len(p) : r[Len(g) + k] = p[k]
  <2>1. g \in Seq(Octet) /\ p \in Seq(Octet)
    BY DEF TwoOctets
  <2> QED
    BY <2>1, Behind
<1> DEFINE q == r
<1>2. q \in Seq(Octet) /\ q[1] = g[1] /\ q[2] = g[2] /\ q[3] = p[1] /\ q[4] = p[2] /\ Len(q) = 4
  BY <1>1 DEF TwoOctets
<1> HIDE DEF q
<1>3. /\ SubSeq(q, 1, 2)[1] = q[1] /\ SubSeq(q, 1, 2)[2] = q[2]
      /\ SubSeq(q, 3, 4)[1] = q[3] /\ SubSeq(q, 3, 4)[2] = q[4]
  BY <1>2
<1>4. WordOf(SubSeq(q, 1, 2)) = WordOf(g) /\ WordOf(SubSeq(q, 3, 4)) = WordOf(p)
  BY <1>2, <1>3, Zenon DEF WordOf
<1> QED
  BY <1>2, <1>4, Zenon DEF q, TwoOf

LEMMA DoubleWordFits ==
    ASSUME NEW name, NEW a, AWord(a), NEW c, AWord(c)
    PROVE  Fits(DoubleWord(name), <<a, c>>)
<1> DEFINE v == <<a, c>>
           r == WriteDoubleWord(v)
<1>1. Write(DoubleWord(name), v) = r /\ DoubleWord(name).size = 4 /\ 4 \in Nat
  BY DEF Write, DoubleWord, F
<1>2. \A b : Read(DoubleWord(name), b) = DoubleWordOf(b)
  BY DEF Read, DoubleWord, F
<1>3. v[1] = a /\ v[2] = c
  OBVIOUS
<1>4. /\ WriteWord(a) \in Seq(Octet) /\ WordOf(WriteWord(a)) = a /\ Len(WriteWord(a)) = 2
      /\ WriteWord(c) \in Seq(Octet) /\ WordOf(WriteWord(c)) = c /\ Len(WriteWord(c)) = 2
  BY WordKept, WordWritten, Zenon DEF AWord
<1>5. r = WriteWord(a) \o WriteWord(c)
  BY <1>3, Zenon DEF WriteDoubleWord
<1> HIDE DEF r
<1>6. /\ r \in Seq(Octet) /\ Len(r) = 4
      /\ WordOf(SubSeq(r, 1, 2)) = a /\ WordOf(SubSeq(r, 3, 4)) = c
  <2>1. TwoOctets(WriteWord(a)) /\ TwoOctets(WriteWord(c))
    BY <1>4, Zenon DEF TwoOctets
  <2>2. /\ r \in Seq(Octet) /\ Len(r) = 4
        /\ WordOf(SubSeq(r, 1, 2)) = WordOf(WriteWord(a))
        /\ WordOf(SubSeq(r, 3, 4)) = WordOf(WriteWord(c))
    <3>1. TwoOf(WriteWord(a) \o WriteWord(c), WriteWord(a), WriteWord(c))
      BY <2>1, TwoWords, Zenon
    <3>2. TwoOf(r, WriteWord(a), WriteWord(c))
      BY <1>5, <3>1, Zenon
    <3> QED
      BY <3>2, Zenon DEF TwoOf
  <2> QED
    BY <1>4, <2>2, Zenon
<1>7. DoubleWordOf(r) = v
  BY <1>6, Zenon DEF DoubleWordOf
<1>8. Read(DoubleWord(name), r) = v
  BY <1>2, <1>7, Zenon
<1> HIDE DEF v
<1>9. Fits(DoubleWord(name), v)
  BY <1>1, <1>6, <1>8, Zenon DEF Fits
<1> QED
  BY <1>9 DEF v

LEMMA BytesFit ==
    ASSUME NEW name, NEW v \in Seq(Octet)
    PROVE  Fits(Bytes(name, Len(v)), v)
<1>1. \A b : Write(Bytes(name, Len(v)), b) = b /\ Read(Bytes(name, Len(v)), b) = b
  BY DEF Write, Read, Bytes, F
<1>2. Bytes(name, Len(v)).size = Len(v) /\ Len(v) \in Nat
  BY LenProperties DEF Bytes, F
<1> QED
  BY <1>1, <1>2 DEF Fits

LEMMA BCDFits ==
    ASSUME NEW name, NEW n \in Nat, n >= 4, NEW v \in Seq(Digit), Len(v) = 2 * n
    PROVE  Fits(BCD(name, n), v)
<1> DEFINE b == numberStr2BCD(v)
<1>1. Write(BCD(name, n), v) = b /\ BCD(name, n).size = n
  BY DEF Write, BCD, F
<1>2. Read(BCD(name, n), b) = bcd2NumberStr(b)
  BY DEF Read, BCD, F
<1>3. bcd2NumberStr(b) = v
  BY DigitsKept
<1>4. b = [i \in 1..n |-> v[2 * i - 1] * 16 + v[2 * i]]
  <2> DEFINE none == [i \in 1..0 |-> Fill]
  <2>1. (IF Len(v) < 8 THEN 8 - Len(v) ELSE 0) = 0
    OBVIOUS
  <2>2. none \o v = v
    OBVIOUS
  <2>3. (2 * n) \div 2 = n
    OBVIOUS
  <2> QED
    BY <2>1, <2>2, <2>3 DEF numberStr2BCD
<1> HIDE DEF b
<1>5. b \in Seq(Octet) /\ Len(b) = n
  <2>1. \A i \in 1..n : v[2 * i - 1] \in 0..14 /\ v[2 * i] \in 0..14
    <3> TAKE i \in 1..n
    <3>1. 2 * i - 1 \in 1..Len(v) /\ 2 * i \in 1..Len(v)
      OBVIOUS
    <3> QED
      BY <3>1, ElementOfSeq DEF Digit
  <2>2. \A x, y \in 0..14 : x * 16 + y \in Octet
    BY DEF Octet
  <2>3. \A i \in 1..n : v[2 * i - 1] * 16 + v[2 * i] \in Octet
    BY <2>1, <2>2
  <2> QED
    BY <1>4, <2>3
<1> QED
  BY <1>1, <1>2, <1>3, <1>5 DEF Fits

-----------------------------------------------------------------------------
(* Whole packets.                                                          *)

LEMMA WithAttrIs ==
    ASSUME NEW h, Whole(h)
    PROVE  /\ WithAttr(h)["Attr"] = WriteAttr(h)
           /\ \A n \in CommonItems \cup OptionalItems : WithAttr(h)[n] = h[n]
<1>1. CommonItems \cup OptionalItems \subseteq DOMAIN h
  BY Zenon DEF Whole
<1>2. \A n \in CommonItems \cup OptionalItems : n # "Attr"
  BY DEF CommonItems, OptionalItems
<1> QED
  BY <1>1, <1>2, Zenon DEF WithAttr

LEMMA HeaderIs ==
    ASSUME NEW version, NEW fragmented \in BOOLEAN
    PROVE  HeaderAt(HeaderLayout(version, fragmented), version, fragmented)
<1> DEFINE start == <<Word("MsgID"), Word("Attr")>>
           phone == HeaderPhone(version)
           serial == <<Word("SerialNumber")>>
           part == HeaderPart(fragmented)
           two == start \o phone
           three == two \o serial
           all == three \o part
<1>1. /\ phone \in Seq(HeaderFields) /\ part \in Seq(HeaderFields)
      /\ start \in Seq(HeaderFields) /\ serial \in Seq(HeaderFields)
      /\ HeaderLayout(version, fragmented) = all
  BY HeaderTyped, Zenon
<1>2. /\ Len(start) = 2 /\ start[1] = Word("MsgID") /\ start[2] = Word("Attr")
      /\ Len(serial) = 1 /\ serial[1] = Word("SerialNumber")
  OBVIOUS
<1>3. /\ version = Version2019 => /\ Len(phone) = 2 /\ phone[1] = Byte("ProtocolVersion")
                                  /\ phone[2] = BCD("PhoneNumber", 10)
      /\ version # Version2019 => Len(phone) = 1 /\ phone[1] = BCD("PhoneNumber", 6)
  BY DEF HeaderPhone
<1>4. /\ fragmented => Len(part) = 2 /\ part[1] = Word("Total") /\ part[2] = Word("Index")
      /\ ~fragmented => Len(part) = 0
  BY DEF HeaderPart
<1> HIDE DEF start, phone, serial, part
<1>5. /\ two \in Seq(HeaderFields) /\ Len(two) = Len(start) + Len(phone)
      /\ \A j \in 1..Len(start) : two[j] = start[j]
      /\ \A k \in 1..Len(phone) : two[Len(start) + k] = phone[k]
  BY <1>1, Behind
<1> HIDE DEF two
<1>6. /\ three \in Seq(HeaderFields) /\ Len(three) = Len(two) + Len(serial)
      /\ \A j \in 1..Len(two) : three[j] = two[j]
      /\ \A k \in 1..Len(serial) : three[Len(two) + k] = serial[k]
  <2>1. two \in Seq(HeaderFields) /\ serial \in Seq(HeaderFields)
    BY <1>1, <1>5
  <2> QED
    BY <2>1, Behind
<1> HIDE DEF three
<1>7. /\ all \in Seq(HeaderFields) /\ Len(all) = Len(three) + Len(part)
      /\ \A j \in 1..Len(three) : all[j] = three[j]
      /\ \A k \in 1..Len(part) : all[Len(three) + k] = part[k]
  <2>1. three \in Seq(HeaderFields) /\ part \in Seq(HeaderFields)
    BY <1>1, <1>6
  <2> QED
    BY <2>1, Behind
<1> HIDE DEF all
<1>8. CASE version = Version2019
  <2>1. /\ Len(two) = 4 /\ two[1] = Word("MsgID") /\ two[2] = Word("Attr")
        /\ two[3] = Byte("ProtocolVersion") /\ two[4] = BCD("PhoneNumber", 10)
    <3>0. Len(phone) = 2 /\ Len(start) = 2
      BY <1>2, <1>3, <1>8, Zenon
    <3>1. two[1] = start[1] /\ two[2] = start[2] /\ two[2 + 1] = phone[1] /\ two[2 + 2] = phone[2]
      BY <1>5, <3>0
    <3>2. 2 + 1 = 3 /\ 2 + 2 = 4
      OBVIOUS
    <3>3. Len(two) = 4
      BY <1>5, <3>0
    <3> QED
      BY <1>2, <1>3, <1>8, <3>1, <3>2, <3>3, Zenon
  <2>2. /\ Len(three) = 5 /\ three[1] = Word("MsgID") /\ three[2] = Word("Attr")
        /\ three[3] = Byte("ProtocolVersion") /\ three[4] = BCD("PhoneNumber", 10)
        /\ three[5] = Word("SerialNumber")
    BY <1>2, <1>6, <2>1
  <2>3. /\ all[1] = Word("MsgID") /\ all[2] = Word("Attr")
        /\ all[3] = Byte("ProtocolVersion") /\ all[4] = BCD("PhoneNumber", 10)
        /\ all[5] = Word("SerialNumber")
        /\ fragmented => Len(all) = 7 /\ all[6] = Word("Total") /\ all[7] = Word("Index")
        /\ ~fragmented => Len(all) = 5
    BY <1>4, <1>7, <2>2
  <2> QED
    BY <1>1, <1>7, <1>8, <2>3, Zenon DEF HeaderAt
<1>9. CASE version # Version2019
  <2>1. /\ Len(two) = 3 /\ two[1] = Word("MsgID") /\ two[2] = Word("Attr")
        /\ two[3] = BCD("PhoneNumber", 6)
    <3>0. Len(phone) = 1 /\ Len(start) = 2
      BY <1>2, <1>3, <1>9, Zenon
    <3>1. two[1] = start[1] /\ two[2] = start[2] /\ two[2 + 1] = phone[1]
      BY <1>5, <3>0
    <3>2. 2 + 1 = 3
      OBVIOUS
    <3>3. Len(two) = 3
      BY <1>5, <3>0
    <3> QED
      BY <1>2, <1>3, <1>9, <3>1, <3>2, <3>3, Zenon
  <2>2. /\ Len(three) = 4 /\ three[1] = Word("MsgID") /\ three[2] = Word("Attr")
        /\ three[3] = BCD("PhoneNumber", 6) /\ three[4] = Word("SerialNumber")
    BY <1>2, <1>6, <2>1
  <2>3. /\ all[1] = Word("MsgID") /\ all[2] = Word("Attr")
        /\ all[3] = BCD("PhoneNumber", 6) /\ all[4] = Word("SerialNumber")
        /\ fragmented => Len(all) = 6 /\ all[5] = Word("Total") /\ all[6] = Word("Index")
        /\ ~fragmented => Len(all) = 4
    BY <1>4, <1>7, <2>2
  <2> QED
    BY <1>1, <1>7, <1>9, <2>3, Zenon DEF HeaderAt
<1> QED
  BY <1>8, <1>9

\* Each item of a whole header fits its field.
LEMMA ItemsFit ==
    ASSUME NEW h, Whole(h)
    PROVE  LET w == WithAttr(h) IN
           /\ \A n \in {"MsgID", "Attr", "SerialNumber", "Total", "Index"} : Fits(Word(n), w[n])
           /\ Fits(Byte("ProtocolVersion"), w["ProtocolVersion"])
           /\ h.VersionDesc = Version2019 => Fits(BCD("PhoneNumber", 10), w["PhoneNumber"])
           /\ h.VersionDesc # Version2019 => Fits(BCD("PhoneNumber", 6), w["PhoneNumber"])
<1> DEFINE w == WithAttr(h)
<1>1. /\ w["Attr"] = WriteAttr(h)
      /\ \A n \in {"MsgID", "SerialNumber", "Total", "Index"} : w[n] = h[n]
      /\ w["ProtocolVersion"] = h["ProtocolVersion"] /\ w["PhoneNumber"] = h["PhoneNumber"]
  <2>1. \A n \in {"MsgID", "SerialNumber", "Total", "Index", "ProtocolVersion", "PhoneNumber"} :
          n \in CommonItems \cup OptionalItems
    BY DEF CommonItems, OptionalItems
  <2> QED
    BY <2>1, WithAttrIs, Zenon
<1> HIDE DEF w
<1>2. \A n \in {"MsgID", "SerialNumber", "Total", "Index"} : Fits(Word(n), w[n])
  BY <1>1, WordFits, Zenon DEF Whole
<1>3. Fits(Word("Attr"), w["Attr"])
  <2> DEFINE x == h.BodyLength + h.Encryption * 2^10 + h.PacketFragmented * 2^13
                    + h.VersionSign * 2^14 + h.Extra * 2^15
  <2>1. h.VersionSign \in 0..1
    BY DEF Whole, VersionSign
  <2>2. x \in Int
    <3>1. /\ h.BodyLength \in Int /\ h.Encryption \in Int /\ h.PacketFragmented \in Int
          /\ h.VersionSign \in Int /\ h.Extra \in Int
      BY <2>1 DEF Whole
    <3> QED
      BY <3>1, SMT
  <2>3. WriteAttr(h) = x % 2^16
    BY Zenon DEF WriteAttr
  <2> HIDE DEF x
  <2>4. x % 2^16 \in 0..2^16 - 1
    BY <2>2, SMT
  <2>5. AWord(WriteAttr(h))
    BY <2>3, <2>4, Zenon DEF AWord
  <2> QED
    BY <1>1, <2>5, WordFits, Zenon
<1>4. Fits(Byte("ProtocolVersion"), w["ProtocolVersion"])
  BY <1>1, ByteFits, Zenon DEF Whole
<1> DEFINE p == h["PhoneNumber"]
<1>5. p \in Seq(Digit) /\ Len(p) = IF h.VersionDesc = Version2019 THEN 20 ELSE 12
  BY Zenon DEF Whole
<1> HIDE DEF p
<1>6. ASSUME h.VersionDesc = Version2019 PROVE Fits(BCD("PhoneNumber", 10), p)
  <2>1. Len(p) = 2 * 10 /\ 10 \in Nat /\ 10 >= 4
    BY <1>5, <1>6
  <2> QED
    BY <1>5, <2>1, BCDFits
<1>7. ASSUME h.VersionDesc # Version2019 PROVE Fits(BCD("PhoneNumber", 6), p)
  <2>1. Len(p) = 2 * 6 /\ 6 \in Nat /\ 6 >= 4
    BY <1>5, <1>7
  <2> QED
    BY <1>5, <2>1, BCDFits
<1>8. w["PhoneNumber"] = p
  BY <1>1 DEF p
<1> QED
  BY <1>2, <1>3, <1>4, <1>6, <1>7, <1>8, Zenon DEF w

LEMMA HeaderSuits ==
    ASSUME NEW h, Whole(h)
    PROVE  Suits(HeaderLayout(h.VersionDesc, h.Frag), WithAttr(h))
<1> DEFINE L == HeaderLayout(h.VersionDesc, h.Frag)
           w == WithAttr(h)
           version == h.VersionDesc
           frag == h.Frag
<1>1. frag \in BOOLEAN
  BY Zenon DEF Whole
<1>2. HeaderAt(L, version, frag)
  BY <1>1, HeaderIs, Zenon
<1>3. \A n : Word(n).name = n /\ Byte(n).name = n /\ BCD(n, 6).name = n /\ BCD(n, 10).name = n
  BY DEF Word, Byte, BCD, F
<1>4. /\ \A n \in {"MsgID", "Attr", "SerialNumber", "Total", "Index"} : Fits(Word(n), w[n])
      /\ Fits(Byte("ProtocolVersion"), w["ProtocolVersion"])
      /\ version = Version2019 => Fits(BCD("PhoneNumber", 10), w["PhoneNumber"])
      /\ version # Version2019 => Fits(BCD("PhoneNumber", 6), w["PhoneNumber"])
  BY ItemsFit, Zenon
<1> HIDE DEF L, w, version, frag
<1>5. /\ L \in Seq(HeaderFields) /\ DOMAIN L = 1..Len(L)
      /\ L[1] = Word("MsgID") /\ L[2] = Word("Attr")
  <2>1. L \in Seq(HeaderFields) /\ L[1] = Word("MsgID") /\ L[2] = Word("Attr")
    BY <1>2, Zenon DEF HeaderAt
  <2> QED
    BY <2>1, LenProperties
<1>6. \A x \in HeaderFields : x.size \in Nat
  BY DEF HeaderFields, Word, Byte, BCD, F
<1> DEFINE Good(k) == Fits(L[k], w[L[k].name])
           Named(k, n) == Good(k) /\ L[k].name = n
<1>12. \A k, f, n : L[k] = f /\ f.name = n /\ Fits(f, w[n]) => Named(k, n)
  BY Zenon
<1>13. /\ Fits(Word("MsgID"), w["MsgID"]) /\ Fits(Word("Attr"), w["Attr"])
       /\ Fits(Word("SerialNumber"), w["SerialNumber"])
       /\ Fits(Word("Total"), w["Total"]) /\ Fits(Word("Index"), w["Index"])
  BY <1>4, Zenon
<1> HIDE DEF Named
<1>7. Named(1, "MsgID") /\ Named(2, "Attr")
  BY <1>3, <1>5, <1>12, <1>13, Zenon
<1> DEFINE Fine == /\ \A k \in DOMAIN L : Good(k)
                   /\ \A j, k \in DOMAIN L : L[j].name = L[k].name => j = k
<1>8. ASSUME version = Version2019 PROVE Fine
  <2>1. /\ L[3] = Byte("ProtocolVersion") /\ L[4] = BCD("PhoneNumber", 10)
        /\ L[5] = Word("SerialNumber")
        /\ frag => Len(L) = 7 /\ L[6] = Word("Total") /\ L[7] = Word("Index")
        /\ ~frag => Len(L) = 5
    BY <1>2, <1>8, Zenon DEF HeaderAt
  <2>2. Named(3, "ProtocolVersion") /\ Named(4, "PhoneNumber") /\ Named(5, "SerialNumber")
    BY <1>3, <1>4, <1>8, <1>12, <1>13, <2>1, Zenon
  <2>3. CASE frag
    <3>1. Named(6, "Total") /\ Named(7, "Index") /\ Len(L) = 7
      BY <1>3, <1>12, <1>13, <2>1, <2>3, Zenon
    <3> HIDE DEF Good
    <3> QED
      BY <1>5, <1>7, <2>2, <3>1 DEF Named
  <2>4. CASE ~frag
    <3>1. Len(L) = 5
      BY <2>1, <2>4, Zenon
    <3> HIDE DEF Good
    <3> QED
      BY <1>5, <1>7, <2>2, <3>1 DEF Named
  <2> QED
    BY <1>1, <2>3, <2>4, Zenon
<1>9. ASSUME version # Version2019 PROVE Fine
  <2>1. /\ L[3] = BCD("PhoneNumber", 6) /\ L[4] = Word("SerialNumber")
        /\ frag => Len(L) = 6 /\ L[5] = Word("Total") /\ L[6] = Word("Index")
        /\ ~frag => Len(L) = 4
    BY <1>2, <1>9, Zenon DEF HeaderAt
  <2>2. Named(3, "PhoneNumber") /\ Named(4, "SerialNumber")
    BY <1>3, <1>4, <1>9, <1>12, <1>13, <2>1, Zenon
  <2>3. CASE frag
    <3>1. Named(5, "Total") /\ Named(6, "Index") /\ Len(L) = 6
      BY <1>3, <1>12, <1>13, <2>1, <2>3, Zenon
    <3> HIDE DEF Good
    <3> QED
      BY <1>5, <1>7, <2>2, <3>1 DEF Named
  <2>4. CASE ~frag
    <3>1. Len(L) = 4
      BY <2>1, <2>4, Zenon
    <3> HIDE DEF Good
    <3> QED
      BY <1>5, <1>7, <2>2, <3>1 DEF Named
  <2> QED
    BY <1>1, <2>3, <2>4, Zenon
<1>10. Fine
  BY <1>8, <1>9, Zenon
<1>11. Suits(L, w)
  BY <1>5, <1>6, <1>10, Zenon DEF Suits
<1> QED
  BY <1>11, Zenon DEF L, w

LEMMA AttrRead ==
    ASSUME NEW h, Whole(h), NEW s,
           ReadsBack(s, HeaderLayout(h.VersionDesc, h.Frag), WithAttr(h))
    PROVE  Readable(s, HeaderStart) /\ ReadAll(s, HeaderStart)["Attr"] = WriteAttr(h)
<1> DEFINE L == HeaderLayout(h.VersionDesc, h.Frag)
           w == WithAttr(h)
<1>1. HeaderAt(L, h.VersionDesc, h.Frag) /\ Suits(L, w)
  BY HeaderIs, HeaderSuits, Zenon DEF Whole
<1>2. ReadsBack(s, L, w) /\ w["Attr"] = WriteAttr(h)
  BY WithAttrIs, Zenon
<1> HIDE DEF L, w
<1>3. L \in Seq(HeaderFields) /\ L[1] = Word("MsgID") /\ L[2] = Word("Attr")
  BY <1>1, Zenon DEF HeaderAt
<1>4. Len(L) \in Nat /\ Len(L) >= 2 /\ DOMAIN L = 1..Len(L) /\ 1 \in DOMAIN L /\ 2 \in DOMAIN L
  <2>1. Len(L) \in {4, 5, 6, 7}
    <3>1. \/ Len(L) = 4 \/ Len(L) = 5 \/ Len(L) = 6 \/ Len(L) = 7
      BY <1>1, Zenon DEF HeaderAt
    <3> QED
      BY <3>1
  <2>2. DOMAIN L = 1..Len(L)
    BY <1>3, LenProperties
  <2> QED
    BY <2>1, <2>2
<1>5. /\ DOMAIN HeaderStart = {1, 2} /\ HeaderStart[1] = L[1] /\ HeaderStart[2] = L[2]
  BY <1>3 DEF HeaderStart
<1>6. \A k \in {1, 2} : OffsetOf(HeaderStart, k) = OffsetOf(L, k)
  <2>1. SubSeq(HeaderStart, 1, 1 - 1) = SubSeq(L, 1, 1 - 1)
    BY <1>3 DEF HeaderStart
  <2>2. SubSeq(HeaderStart, 1, 2 - 1) = SubSeq(L, 1, 2 - 1)
    <3>1. \A p \in Seq(HeaderFields) :
            Len(p) >= 1 => /\ SubSeq(p, 1, 1) \in Seq(HeaderFields)
                           /\ Len(SubSeq(p, 1, 1)) = 1 /\ SubSeq(p, 1, 1)[1] = p[1]
      OBVIOUS
    <3>2. HeaderStart \in Seq(HeaderFields) /\ Len(HeaderStart) >= 1
      <4>1. HeaderStart \in Seq(HeaderFields)
        BY HeaderTyped, Zenon DEF HeaderStart
      <4>2. Len(HeaderStart) = 2
        BY DEF HeaderStart
      <4> QED
        BY <4>1, <4>2
    <3> DEFINE p == SubSeq(HeaderStart, 1, 1)
               q == SubSeq(L, 1, 1)
    <3>3. /\ p \in Seq(HeaderFields) /\ Len(p) = 1 /\ p[1] = HeaderStart[1]
          /\ q \in Seq(HeaderFields) /\ Len(q) = 1 /\ q[1] = L[1]
      BY <1>3, <1>4, <3>1, <3>2
    <3> HIDE DEF p, q
    <3>4. p = q
      <4>1. \A i \in 1..Len(p) : p[i] = q[i]
        BY <1>5, <3>3
      <4> QED
        BY <3>3, <4>1, SeqEqual
    <3>5. 2 - 1 = 1
      OBVIOUS
    <3> QED
      BY <3>4, <3>5, Zenon DEF p, q
  <2>3. OffsetOf(HeaderStart, 1) = OffsetOf(L, 1) /\ OffsetOf(HeaderStart, 2) = OffsetOf(L, 2)
    BY <2>1, <2>2, Zenon DEF OffsetOf
  <2> QED
    BY <2>3
<1>7. Readable(s, L) /\ \A k \in DOMAIN L : ReadAll(s, L)[L[k].name] = w[L[k].name]
  BY <1>2, Zenon DEF ReadsBack
<1>8. Readable(s, HeaderStart)
  BY <1>4, <1>5, <1>6, <1>7, Zenon DEF Readable
<1>9. /\ HeaderStart[1].name = "MsgID" /\ HeaderStart[2].name = "Attr"
  BY DEF HeaderStart, Word, F
<1>10. \A j, k \in DOMAIN L : L[j].name = L[k].name => j = k
  BY <1>1, Zenon DEF Suits
<1>11. (CHOOSE k \in DOMAIN L : L[k].name = "Attr") = 2
  <2>1. \A k \in DOMAIN L : L[k].name = "Attr" <=> k = 2
    BY <1>4, <1>5, <1>9, <1>10, Zenon
  <2> QED
    BY <1>4, <2>1, Zenon
<1>12. (CHOOSE k \in DOMAIN HeaderStart : HeaderStart[k].name = "Attr") = 2
  <2>1. \A k \in DOMAIN HeaderStart : HeaderStart[k].name = "Attr" <=> k = 2
    BY <1>5, <1>9
  <2>2. 2 \in DOMAIN HeaderStart
    BY <1>5
  <2> QED
    BY <2>1, <2>2, Zenon
<1> DEFINE at == OffsetOf(L, 2)
           there == Read(L[2], SubSeq(s.mem, at + 1, at + L[2].size))
<1>13. ReadAll(s, L)["Attr"] = there
  <2>1. "Attr" \in {L[k].name : k \in DOMAIN L}
    BY <1>4, <1>5, <1>9, Zenon
  <2> QED
    BY <1>11, <2>1, Zenon DEF ReadAll
<1>14. ReadAll(s, HeaderStart)["Attr"] = there
  <2>1. 2 \in DOMAIN HeaderStart /\ 2 \in {1, 2}
    BY <1>5
  <2>2. "Attr" \in {HeaderStart[k].name : k \in DOMAIN HeaderStart}
    BY <1>9, <2>1, Zenon
  <2>3. ReadAll(s, HeaderStart)["Attr"]
          = Read(HeaderStart[2], SubSeq(s.mem, OffsetOf(HeaderStart, 2) + 1,
                                        OffsetOf(HeaderStart, 2) + HeaderStart[2].size))
    BY <1>12, <2>2, Zenon DEF ReadAll
  <2> QED
    BY <1>5, <1>6, <2>1, <2>3, Zenon
<1>15. ReadAll(s, L)["Attr"] = w["Attr"]
  BY <1>4, <1>5, <1>7, <1>9, Zenon
<1> QED
  BY <1>2, <1>8, <1>13, <1>14, <1>15, Zenon

LEMMA HeaderNames ==
    ASSUME NEW h, h.Frag \in BOOLEAN
    PROVE  Names(HeaderLayout(h.VersionDesc, h.Frag)) = Carried(h) \cup {"Attr"}
<1> DEFINE L == HeaderLayout(h.VersionDesc, h.Frag)
           version == h.VersionDesc
           frag == h.Frag
           C == Carried(h)
<1>1. HeaderAt(L, version, frag)
  BY HeaderIs, Zenon
<1>2. \A x : Word(x).name = x /\ Byte(x).name = x /\ BCD(x, 6).name = x /\ BCD(x, 10).name = x
  BY DEF Word, Byte, BCD, F
<1>3. C = {"MsgID", "PhoneNumber", "SerialNumber"}
          \cup (IF version = Version2019 THEN {"ProtocolVersion"} ELSE {})
          \cup (IF frag THEN {"Total", "Index"} ELSE {})
  BY Zenon DEF Carried
<1> HIDE DEF L, version, frag, C
<1>4. L \in Seq(HeaderFields) /\ L[1].name = "MsgID" /\ L[2].name = "Attr"
  BY <1>1, <1>2, Zenon DEF HeaderAt
<1>5. Names(L) = {L[k].name : k \in 1..Len(L)}
  BY <1>4, LenProperties DEF Names
<1>6. CASE version = Version2019
  <2>1. /\ L[3].name = "ProtocolVersion" /\ L[4].name = "PhoneNumber" /\ L[5].name = "SerialNumber"
        /\ frag => Len(L) = 7 /\ L[6].name = "Total" /\ L[7].name = "Index"
        /\ ~frag => Len(L) = 5
    BY <1>1, <1>2, <1>6, Zenon DEF HeaderAt
  <2> QED BY <1>3, <1>4, <1>5, <1>6, <2>1 DEF L, C
<1>7. CASE version # Version2019
  <2>1. /\ L[3].name = "PhoneNumber" /\ L[4].name = "SerialNumber"
        /\ frag => Len(L) = 6 /\ L[5].name = "Total" /\ L[6].name = "Index"
        /\ ~frag => Len(L) = 4
    BY <1>1, <1>2, <1>7, Zenon DEF HeaderAt
  <2> QED BY <1>3, <1>4, <1>5, <1>7, <2>1 DEF L, C
<1> QED BY <1>6, <1>7

LEMMA HeaderMade ==
    ASSUME NEW s, Readable(s, HeaderStart), Readable(s, LayoutOf(s)),
           NEW h, Attrs(s).VersionDesc = h.VersionDesc, (Attrs(s).PacketFragmented = 1) = h.Frag
    PROVE  Made(s, h, ReadHeader(s))
<1> DEFINE attr == Attrs(s)
           L == LayoutOf(s)
           read == ReadAll(s, L)
           names == (DOMAIN attr \cup DOMAIN read \cup OptionalItems \cup {"Frag"}) \ {"Attr"}
           value(n) == CASE n = "Frag" -> attr.PacketFragmented = 1
                         [] n \in DOMAIN attr -> attr[n]
                         [] n \in DOMAIN read -> read[n]
                         [] OTHER -> 0
           head == [n \in names |-> value(n)]
           r == ReadHeader(s)
           C == Carried(h)
<1>1. r = [panic |-> FALSE, header |-> head, Idx |-> SizeOf(L)]
  BY Zenon DEF ReadHeader, HeaderStart, Attrs, LayoutOf
<1>2. DOMAIN attr = AttrItems
  BY DEF Attrs, ReadAttr, AttrItems
<1>3. DOMAIN read = C \cup {"Attr"}
  <2>1. L = HeaderLayout(h.VersionDesc, h.Frag)
    BY Zenon DEF LayoutOf
  <2>2. h.Frag \in BOOLEAN
    OBVIOUS
  <2>3. DOMAIN read = Names(L)
    BY Zenon DEF ReadAll, Names
  <2>4. Names(HeaderLayout(h.VersionDesc, h.Frag)) = C \cup {"Attr"}
    BY <2>2, HeaderNames
  <2> HIDE DEF L, read, C
  <2> QED BY <2>1, <2>3, <2>4
<1>4. /\ {"MsgID", "PhoneNumber", "SerialNumber"} \subseteq C
      /\ C \subseteq {"MsgID", "PhoneNumber", "SerialNumber"} \cup OptionalItems
  BY DEF Carried, OptionalItems
<1> DEFINE frag == attr.PacketFragmented = 1
<1>5. h.Frag = frag
  OBVIOUS
<1> HIDE DEF attr, L, read, r, C, frag
<1>6. names = CommonItems \cup OptionalItems
  BY <1>2, <1>3, <1>4 DEF AttrItems, CommonItems, OptionalItems
<1>7. \A n \in CommonItems \cup OptionalItems : head[n] = value(n)
  BY <1>6, Zenon
<1>8. head = [n \in CommonItems \cup OptionalItems |-> head[n]]
  <2>1. head = [n \in names |-> head[n]]
    <3> HIDE DEF value, names
    <3> QED OBVIOUS
  <2> HIDE DEF head
  <2> QED BY <1>6, <2>1, Zenon
<1>9. ASSUME NEW n \in CommonItems \cup OptionalItems
      PROVE  /\ n = "Frag" => value(n) = frag
             /\ n \in AttrItems => value(n) = attr[n]
             /\ n \in C => value(n) = read[n]
             /\ n \in OptionalItems \ C => value(n) = 0
  <2>1. /\ "Frag" \notin AttrItems /\ "Frag" \notin C /\ "Frag" \notin OptionalItems /\ "Attr" \notin OptionalItems
        /\ AttrItems \cap C = {} /\ AttrItems \cap OptionalItems = {}
    BY <1>4 DEF AttrItems, OptionalItems
  <2>2. /\ n = "Frag" => n \notin DOMAIN attr /\ n \notin DOMAIN read
        /\ n \in DOMAIN attr => n # "Frag" /\ n \notin DOMAIN read
        /\ n \in DOMAIN read => n # "Frag" \/ n = "Attr"
    BY <1>2, <1>3, <2>1 DEF AttrItems
  <2>3. ASSUME n = "Frag" PROVE value(n) = frag
    BY <2>2, <2>3 DEF frag
  <2>4. ASSUME n \in DOMAIN attr PROVE value(n) = attr[n]
    BY <2>2, <2>4
  <2>5. ASSUME n # "Frag", n \notin DOMAIN attr, n \in DOMAIN read PROVE value(n) = read[n]
    BY <2>5
  <2>6. ASSUME n # "Frag", n \notin DOMAIN attr, n \notin DOMAIN read PROVE value(n) = 0
    BY <2>6
  <2> HIDE DEF value
  <2>7. /\ n = "Frag" => value(n) = frag
        /\ n \in AttrItems => value(n) = attr[n]
    BY <1>2, <2>3, <2>4
  <2>8. n \in C => value(n) = read[n]
    BY <1>2, <1>3, <2>1, <2>5
  <2>9. n \in OptionalItems \ C => value(n) = 0
    BY <1>2, <1>3, <2>1, <2>6
  <2> QED BY <2>7, <2>8, <2>9
<1>10. AttrItems \subseteq CommonItems /\ "Frag" \in CommonItems /\ C \subseteq CommonItems \cup OptionalItems
  BY <1>4 DEF AttrItems, CommonItems
<1> HIDE DEF head, value
<1>11. ~r.panic /\ r.Idx = SizeOf(L) /\ r.header = head
  BY <1>1
<1>12. /\ \A n \in AttrItems : head[n] = attr[n]
       /\ head["Frag"] = frag
       /\ \A n \in C : head[n] = read[n]
       /\ \A n \in OptionalItems \ C : head[n] = 0
  BY <1>7, <1>9, <1>10, Zenon
<1> QED BY <1>5, <1>8, <1>11, <1>12, Zenon DEF Made, attr, L, read, r, C

LEMMA HeaderReads ==
    ASSUME NEW h, Whole(h), NEW s,
           Begins(s, HeaderLayout(h.VersionDesc, h.Frag), WithAttr(h))
    PROVE  HeaderRead(ReadHeader(s), h)
<1> DEFINE L == HeaderLayout(h.VersionDesc, h.Frag)
           w == WithAttr(h)
           attr == Attrs(s)
           r == ReadHeader(s)
<1>1. ReadsBack(s, L, w)
  BY HeaderSuits, FieldsKept, Zenon
<1>2. Readable(s, HeaderStart) /\ attr = ReadAttr(WriteAttr(h))
  BY <1>1, AttrRead, Zenon DEF Attrs
<1>3. h.VersionSign \in 0..1 /\ h.VersionDesc = IF h.VersionSign = 1 THEN Version2019 ELSE Version2013
  BY DEF Whole, VersionSign, Version2013, Version2019
<1>4. /\ h.BodyLength \in 0..2^10 - 1 /\ h.Encryption \in 0..7
      /\ h.PacketFragmented \in 0..1 /\ h.Extra \in 0..1
      /\ h.Frag = (h.PacketFragmented = 1)
  BY Zenon DEF Whole
<1> HIDE DEF attr, r
<1>5. /\ attr.BodyLength = h.BodyLength /\ attr.Encryption = h.Encryption
      /\ attr.PacketFragmented = h.PacketFragmented
      /\ attr.VersionSign = h.VersionSign /\ attr.Extra = h.Extra
      /\ attr.VersionDesc = h.VersionDesc
  BY <1>2, <1>3, <1>4, AttrKept, Zenon
<1>6. attr.VersionDesc = h.VersionDesc /\ (attr.PacketFragmented = 1) = h.Frag
  BY <1>4, <1>5, Zenon
<1>7. L = LayoutOf(s)
  BY <1>6, Zenon DEF LayoutOf, attr
<1>8. Readable(s, L) /\ \A n \in Names(L) : ReadAll(s, L)[n] = w[n]
  BY <1>1, Zenon DEF ReadsBack, Names
<1>9. Names(L) = Carried(h) \cup {"Attr"}
  <2>1. h.Frag \in BOOLEAN
    BY <1>4
  <2>2. Names(HeaderLayout(h.VersionDesc, h.Frag)) = Carried(h) \cup {"Attr"}
    BY <2>1, HeaderNames
  <2> QED BY <2>2
<1>10. Made(s, h, r)
  BY <1>2, <1>6, <1>7, <1>8, HeaderMade, Zenon DEF attr, r
<1>11. ASSUME NEW n \in Carried(h) PROVE r.header[n] = h[n]
  <2>1. n \in CommonItems \cup OptionalItems
    BY DEF Carried, CommonItems, OptionalItems
  <2>2. w[n] = h[n]
    BY <2>1, WithAttrIs, Zenon
  <2> QED BY <1>7, <1>8, <1>9, <1>10, <2>2, Zenon DEF Made
<1>12. ASSUME NEW n \in CommonItems PROVE r.header[n] = h[n]
  <2>1. n \in AttrItems \/ n = "Frag" \/ n \in Carried(h)
    BY DEF CommonItems, AttrItems, Carried
  <2>2. \A x \in AttrItems : attr[x] = h[x]
    BY <1>5 DEF AttrItems
  <2>3. h["Frag"] = h.Frag
    OBVIOUS
  <2> QED BY <1>10, <1>11, <2>1, <2>2, <2>3, Zenon DEF Made, attr
<1>13. \A n \in CommonItems \cup Carried(h) : r.header[n] = h[n]
  BY <1>11, <1>12
<1> QED BY <1>7, <1>10, <1>13, Zenon DEF Made, HeaderRead, r

\* A header is read as it was written, whatever stands behind it: the attributes and
\* every item that its layout has, and the items that it has not are 0 (MsgHeader.Encode
\* and Decode).
THEOREM HeaderKept ==
    ASSUME NEW h, Whole(h), NEW s,
           Begins(s, HeaderLayout(h.VersionDesc, h.Frag), WithAttr(h))
    PROVE  LET read == ReadHeader(s) IN
           /\ ~read.panic
           /\ read.Idx = SizeOf(HeaderLayout(h.VersionDesc, h.Frag))
           /\ \A n \in CommonItems \cup Carried(h) : read.header[n] = h[n]
           /\ read.header = [n \in CommonItems \cup OptionalItems |-> read.header[n]]
           /\ \A n \in OptionalItems \ Carried(h) : read.header[n] = 0
<1> DEFINE r == ReadHeader(s)
<1>1. HeaderRead(r, h)
  BY HeaderReads, Zenon
<1> HIDE DEF r
<1>2. /\ ~r.panic /\ r.Idx = SizeOf(HeaderLayout(h.VersionDesc, h.Frag))
      /\ \A n \in CommonItems \cup Carried(h) : r.header[n] = h[n]
      /\ r.header = [n \in CommonItems \cup OptionalItems |-> r.header[n]]
      /\ \A n \in OptionalItems \ Carried(h) : r.header[n] = 0
  BY <1>1, Zenon DEF HeaderRead
<1> QED
  BY <1>2 DEF r

\* What stands behind a part of a sequence
LEMMA Behindhand ==
    ASSUME NEW X, NEW g \in Seq(X), NEW p \in Seq(X)
    PROVE  Others(g \o p, Len(g)) = p
<1> DEFINE r == g \o p
           k == Len(g)
           t == SubSeq(r, k + 1, Len(r))
<1>1. /\ r \in Seq(X) /\ Len(r) = k + Len(p)
      /\ \A i \in 1..Len(p) : r[k + i] = p[i]
  BY Behind
<1>2. k \in Nat /\ Len(p) \in Nat
  BY LenProperties
<1> HIDE DEF r, k
<1>3. \A i \in (k + 1)..Len(r) : r[i] \in X
  <2> TAKE i \in (k + 1)..Len(r)
  <2>1. i \in 1..Len(r)
    BY <1>1, <1>2
  <2> QED
    BY <1>1, <2>1, ElementOfSeq
<1>4. /\ t \in Seq(X)
      /\ Len(t) = IF k + 1 <= Len(r) THEN Len(r) - (k + 1) + 1 ELSE 0
      /\ \A i \in 1..Len(r) - (k + 1) + 1 : t[i] = r[(k + 1) + i - 1]
  BY <1>1, <1>2, <1>3, SubSeqProperties
<1> HIDE DEF t
<1>5. Len(r) \in Int /\ Len(r) - (k + 1) + 1 = Len(p)
  BY <1>1, <1>2
<1>6. Len(t) = Len(p)
  BY <1>1, <1>2, <1>4, <1>5
<1>7. \A i \in 1..Len(p) : t[i] = p[i]
  <2> TAKE i \in 1..Len(p)
  <2>1. (k + 1) + i - 1 = k + i
    BY <1>2
  <2> QED
    BY <1>1, <1>4, <1>5, <2>1
<1>8. t = p
  BY <1>4, <1>6, <1>7, SeqEqual
<1> QED
  BY <1>8, Zenon DEF Others, t, r, k

\* No header is long.
LEMMA HeaderShort ==
    ASSUME NEW version, NEW fragmented \in BOOLEAN
    PROVE  SizeOf(HeaderLayout(version, fragmented)) \in 0..70
<1> DEFINE L == HeaderLayout(version, fragmented)
           n == Len(L)
<1>1. L \in Seq(HeaderFields)
  BY HeaderTyped, Zenon
<1>2. \A f \in HeaderFields : f.size \in Nat /\ f.size <= 10
  BY DEF HeaderFields, Word, Byte, BCD, F
<1>3. n \in {4, 5, 6, 7}
  <2>1. HeaderAt(L, version, fragmented)
    BY HeaderIs, Zenon
  <2>2. \/ n = 4 \/ n = 5 \/ n = 6 \/ n = 7
    BY <2>1, Zenon DEF HeaderAt
  <2> HIDE DEF n
  <2> QED
    BY <2>2
<1> HIDE DEF L
<1>4. \A i \in 1..n : L[i] \in HeaderFields
  BY <1>1
<1> DEFINE x(i) == Upto(L, i)
<1>5. /\ x(0) = 0 /\ x(n) = SizeOf(L)
      /\ \A i \in 0..n : x(i) \in Nat
      /\ \A i \in 1..n : x(i) = x(i - 1) + L[i].size
  BY <1>1, <1>2, UptoFacts
<1> HIDE DEF n, x
<1>6. \A i \in 1..n : x(i) \in Nat /\ x(i - 1) \in Nat /\ x(i) <= x(i - 1) + 10
  BY <1>2, <1>3, <1>4, <1>5
<1>7. \A i \in 1..n : x(i) <= 10 * i
  <2>1. x(1) <= 10 /\ x(2) <= 20 /\ x(3) <= 30 /\ x(4) <= 40
    BY <1>3, <1>5, <1>6
  <2>2. n >= 5 => x(5) <= 50
    BY <1>3, <1>6, <2>1
  <2>3. n >= 6 => x(6) <= 60
    BY <1>3, <1>6, <2>2
  <2>4. n >= 7 => x(7) <= 70
    BY <1>3, <1>6, <2>3
  <2>5. \A i \in 1..n : i \in {1, 2, 3, 4, 5, 6, 7}
    BY <1>3
  <2> QED
    BY <2>1, <2>2, <2>3, <2>4, <2>5
<1>8. x(n) \in 0..70
  BY <1>3, <1>5, <1>7
<1> QED
  BY <1>5, <1>8, Zenon DEF L

\* The octets of a packet, its check octet and what fills up the array behind it
LEMMA VerifiedHolds ==
    ASSUME NEW e \in Seq(Octet), Len(e) < LongestArray
    PROVE  /\ \E rest \in Seq(Octet) : verify(genVerifier(e)).mem = e \o rest
           /\ verify(genVerifier(e)).len = Len(e)
<1> DEFINE t == genVerifier(e)
           c == <<CheckOf(e)>>
           k == IF Len(t) < Capacity(Len(t)) THEN Capacity(Len(t)) - Len(t) ELSE 0
           z == Zeros(k)
<1>1. t \in Seq(Octet) /\ verify(t).len = Len(e)
  BY CheckIsVerified
<1>2. t = e \o c /\ c \in Seq(Octet) /\ Len(t) = Len(e) + 1 /\ Len(e) \in Nat
  <2>1. CheckOf(e) \in Octet
    BY CheckIsOctet
  <2>2. t = Append(e, CheckOf(e))
    BY Zenon DEF genVerifier
  <2> DEFINE x == CheckOf(e)
  <2> HIDE DEF x
  <2>3. x \in Octet /\ t = Append(e, x)
    BY <2>1, <2>2 DEF x
  <2> HIDE DEF t
  <2>4. \A y \in Octet : Append(e, y) = e \o <<y>> /\ <<y>> \in Seq(Octet)
                         /\ Len(Append(e, y)) = Len(e) + 1
    OBVIOUS
  <2>5. t = e \o <<x>> /\ <<x>> \in Seq(Octet) /\ Len(t) = Len(e) + 1
    BY <2>3, <2>4, Zenon
  <2> QED
    BY <2>5, LenProperties DEF x
<1>3. verify(t).mem = t \o z
  BY Zenon DEF verify, FillTo
<1> HIDE DEF t, c
<1>4. Capacity(Len(t)) \in Nat /\ Len(t) \in Nat
  <2>1. Len(t) \in Nat /\ Len(t) <= LongestArray
    BY <1>2 DEF LongestArray
  <2> QED
    BY <2>1, RoomEnough
<1>5. k \in Nat
  BY <1>4
<1> HIDE DEF k
<1>6. z \in Seq(Octet)
  BY <1>5 DEF Zeros, Octet
<1> HIDE DEF z
<1>7. (e \o c) \o z = e \o (c \o z) /\ c \o z \in Seq(Octet)
  BY <1>2, <1>6, ConcatAssociative, ConcatProperties
<1>8. verify(t).mem = e \o (c \o z)
  BY <1>2, <1>3, <1>7, Zenon
<1> QED
  BY <1>1, <1>7, <1>8, Zenon DEF t

LEMMA EscapeEdged ==
    ASSUME NEW t \in Seq(Octet)
    PROVE  Edged(escape(t))
<1> DEFINE e == escape(t)
<1>1. PICK f : EscapeSteps(t, f) /\ e = Framed(f[Len(t)])
  BY Escaping, Zenon
<1> DEFINE b == f[Len(t)]
           mark == <<boundaryMark>>
           g == mark \o b
<1>2. b \in Seq(Octet) /\ Len(b) \in Nat
  BY <1>1, LenProperties DEF EscapeSteps
<1>3. mark \in Seq(Octet) /\ Len(mark) = 1 /\ mark[1] = boundaryMark
  BY DEF boundaryMark, Octet
<1>4. e = g \o mark
  BY <1>1, Zenon DEF Framed
<1> HIDE DEF b, mark, e
<1>9. g = mark \o b
  OBVIOUS
<1> HIDE DEF g
<1>5. g \in Seq(Octet) /\ Len(g) = Len(mark) + Len(b) /\ \A j \in 1..Len(mark) : g[j] = mark[j]
  <2>1. mark \in Seq(Octet) /\ b \in Seq(Octet)
    BY <1>2, <1>3
  <2> QED
    BY <1>9, <2>1, Behind
<1>6. /\ e \in Seq(Octet) /\ Len(e) = Len(g) + Len(mark)
      /\ \A j \in 1..Len(g) : e[j] = g[j]
      /\ \A k \in 1..Len(mark) : e[Len(g) + k] = mark[k]
  <2>1. g \in Seq(Octet) /\ mark \in Seq(Octet)
    BY <1>3, <1>5
  <2> QED
    BY <1>4, <2>1, Behind
<1>7. Len(e) = Len(g) + 1 /\ Len(g) \in Nat /\ Len(g) >= 1
  BY <1>2, <1>3, <1>5, <1>6
<1>8. e[1] = boundaryMark /\ e[Len(e)] = boundaryMark
  BY <1>3, <1>5, <1>6, <1>7
<1> QED
  BY <1>6, <1>7, <1>8 DEF Edged, e

\* The header of an answer fits as that of the message did.
LEMMA WholeAnswer ==
    ASSUME NEW h, Whole(h), NEW id, AWord(id), NEW n \in 0..2^10 - 1
    PROVE  Whole([[h EXCEPT !.MsgID = id] EXCEPT !.BodyLength = n])
<1> DEFINE k == [[h EXCEPT !.MsgID = id] EXCEPT !.BodyLength = n]
<1>1. CommonItems \cup OptionalItems \subseteq DOMAIN h
  BY Zenon DEF Whole
<1>2. {"MsgID", "BodyLength", "SerialNumber", "Total", "Index", "ProtocolVersion", "PhoneNumber",
       "Encryption", "PacketFragmented", "VersionSign", "Extra", "VersionDesc", "Frag"}
        \subseteq DOMAIN h
  <2>1. {"MsgID", "BodyLength", "SerialNumber", "Total", "Index", "ProtocolVersion", "PhoneNumber",
         "Encryption", "PacketFragmented", "VersionSign", "Extra", "VersionDesc", "Frag"}
          \subseteq CommonItems \cup OptionalItems
    BY DEF CommonItems, OptionalItems
  <2> QED
    BY <1>1, <2>1, Zenon
<1>3. /\ k["MsgID"] = id /\ k["BodyLength"] = n
      /\ k["SerialNumber"] = h["SerialNumber"] /\ k["Total"] = h["Total"]
      /\ k["Index"] = h["Index"] /\ k["ProtocolVersion"] = h["ProtocolVersion"]
      /\ k["PhoneNumber"] = h["PhoneNumber"]
  BY <1>2
<1>4. /\ k.BodyLength = n /\ k.Encryption = h.Encryption
      /\ k.PacketFragmented = h.PacketFragmented /\ k.Extra = h.Extra
      /\ k.VersionDesc = h.VersionDesc /\ k.VersionSign = h.VersionSign /\ k.Frag = h.Frag
  BY <1>2
<1>5. DOMAIN k = DOMAIN h
  OBVIOUS
<1> HIDE DEF k
<1>6. \A x \in {"MsgID", "SerialNumber", "Total", "Index"} : AWord(k[x])
  <2>1. AWord(h["SerialNumber"]) /\ AWord(h["Total"]) /\ AWord(h["Index"])
    BY Zenon DEF Whole
  <2>2. AWord(k["MsgID"]) /\ AWord(k["SerialNumber"]) /\ AWord(k["Total"]) /\ AWord(k["Index"])
    BY <1>3, <2>1, Zenon
  <2> QED
    BY <2>2, Zenon
<1>7. /\ k["ProtocolVersion"] \in Octet /\ k["PhoneNumber"] \in Seq(Digit)
      /\ Len(k["PhoneNumber"]) = IF k.VersionDesc = Version2019 THEN 20 ELSE 12
  <2>1. /\ h["ProtocolVersion"] \in Octet /\ h["PhoneNumber"] \in Seq(Digit)
        /\ Len(h["PhoneNumber"]) = IF h.VersionDesc = Version2019 THEN 20 ELSE 12
    BY Zenon DEF Whole
  <2> QED
    BY <1>3, <1>4, <2>1, Zenon
<1>8. /\ k.BodyLength \in 0..2^10 - 1 /\ k.Encryption \in 0..7
      /\ k.PacketFragmented \in 0..1 /\ k.Extra \in 0..1
      /\ k.VersionDesc \in {Version2013, Version2019}
      /\ k.VersionSign = VersionSign(k.VersionDesc)
      /\ k.Frag = (k.PacketFragmented = 1)
  <2>1. /\ h.Encryption \in 0..7
        /\ h.PacketFragmented \in 0..1 /\ h.Extra \in 0..1
        /\ h.VersionDesc \in {Version2013, Version2019}
        /\ h.VersionSign = VersionSign(h.VersionDesc)
        /\ h.Frag = (h.PacketFragmented = 1)
    BY Zenon DEF Whole
  <2> QED
    BY <1>4, <2>1, Zenon
<1>9. Whole(k)
  BY <1>1, <1>5, <1>6, <1>7, <1>8, Zenon DEF Whole
<1> QED
  BY <1>9, Zenon DEF k

-----------------------------------------------------------------------------
(* What a type holds, a field of that type gives back.                     *)

\* Text that is filled up with zeros
LEMMA FillIs ==
    ASSUME NEW v \in Seq(Octet), NEW n \in Nat, Len(v) <= n
    PROVE  FillTo(v, n) \in Seq(Octet) /\ Len(FillTo(v, n)) = n /\ SubSeq(FillTo(v, n), 1, n) = FillTo(v, n)
<1> DEFINE k == IF Len(v) < n THEN n - Len(v) ELSE 0
           z == Zeros(k)
           t == v \o z
<1>1. k \in Nat /\ Len(v) + k = n
  BY LenProperties
<1> HIDE DEF k
<1>2. z \in Seq(Octet) /\ Len(z) = k
  BY <1>1 DEF Zeros, Octet
<1>3. t \in Seq(Octet) /\ Len(t) = n
  BY <1>1, <1>2, ConcatProperties
<1>4. FillTo(v, n) = t
  BY Zenon DEF FillTo, k
<1> HIDE DEF t
<1>5. SubSeq(t, 1, n) = t
  BY <1>3
<1> QED
  BY <1>3, <1>4, <1>5, Zenon

LEMMA TextFits ==
    ASSUME NEW name, NEW n \in Nat, NEW v \in Seq(Octet), Len(v) <= n,
           v # <<>> => v[Len(v)] # 0
    PROVE  Fits(Text(name, n), v) /\ Fits(F(name, "note", n), v)
<1> DEFINE t == FillTo(v, n)
<1>1. /\ t \in Seq(Octet) /\ Len(t) = n
      /\ SubSeq(t, 1, n) = t
  BY FillIs, Zenon
<1>2. TrimZeros(t) = v
  <2>1. Len(v) # 0 => v[Len(v)] # 0
    BY EmptySeq
  <2>2. TrimZeros(SubSeq(t, 1, n)) = v
    BY <2>1, TextKept, Zenon
  <2> QED
    BY <1>1, <2>2, Zenon
<1>3. Write(Text(name, n), v) = SubSeq(t, 1, n) /\ Write(F(name, "note", n), v) = t
  BY DEF Write, Text, F
<1>4. /\ \A b : Read(Text(name, n), b) = TrimZeros(b) /\ Read(F(name, "note", n), b) = TrimZeros(b)
      /\ Text(name, n).size = n /\ F(name, "note", n).size = n
  BY DEF Read, Text, F
<1> HIDE DEF t
<1> QED
  BY <1>1, <1>2, <1>3, <1>4, Zenon DEF Fits

LEMMA FillFits ==
    ASSUME NEW name, NEW n \in Nat, NEW v \in Seq(Octet), Len(v) = n
    PROVE  Fits(F(name, "fill", n), v)
<1> DEFINE f == F(name, "fill", n)
<1>1. Write(f, v) = FillTo(v, n) /\ (\A b : Read(f, b) = b) /\ f.size = n
  BY DEF Write, Read, F
<1>2. FillTo(v, n) \in Seq(Octet) /\ Len(FillTo(v, n)) = n
  BY FillIs
<1>3. FillTo(v, n) = v
  <2>1. (IF Len(v) < n THEN n - Len(v) ELSE 0) = 0
    OBVIOUS
  <2>2. v \o Zeros(0) = v
    BY DEF Zeros
  <2> QED
    BY <2>1, <2>2, Zenon DEF FillTo
<1> QED
  BY <1>1, <1>2, <1>3, Zenon DEF Fits

\* Fewer digits than eight are filled up to four octets.
LEMMA ShortBCDFits ==
    ASSUME NEW name, NEW v \in Seq(Digit), Len(v) < 8
    PROVE  Fits(BCD(name, 4), v)
<1> DEFINE b == numberStr2BCD(v)
           p == [i \in 1..8 - Len(v) |-> Fill]
           f == p \o v
<1>1. Write(BCD(name, 4), v) = b /\ BCD(name, 4).size = 4 /\ \A x : Read(BCD(name, 4), x) = bcd2NumberStr(x)
  BY DEF Write, Read, BCD, F
<1>2. bcd2NumberStr(b) = v
  BY DigitsKept
<1>3. p \in Seq(0..15) /\ v \in Seq(0..15) /\ Len(p) + Len(v) = 8
  <2>1. p \in Seq(0..15) /\ Len(p) = 8 - Len(v)
    BY LenProperties DEF Fill
  <2>2. \A i \in 1..Len(v) : v[i] \in 0..15
    BY ElementOfSeq DEF Digit
  <2>3. v \in Seq(0..15)
    BY <2>2
  <2> QED
    BY <2>1, <2>3, LenProperties
<1>4. f \in Seq(0..15) /\ Len(f) = 8
  BY <1>3, ConcatProperties
<1>5. b = [i \in 1..4 |-> f[2 * i - 1] * 16 + f[2 * i]]
  <2>1. (IF Len(v) < 8 THEN 8 - Len(v) ELSE 0) = 8 - Len(v)
    BY Zenon
  <2>2. b = [i \in 1..Len(f) \div 2 |-> f[2 * i - 1] * 16 + f[2 * i]]
    BY <2>1, Zenon DEF numberStr2BCD
  <2>3. 8 \div 2 = 4
    OBVIOUS
  <2> QED
    BY <1>4, <2>2, <2>3, Zenon
<1> HIDE DEF f, b
<1>6. b \in Seq(Octet) /\ Len(b) = 4
  <2>1. ASSUME NEW i \in 1..4 PROVE f[2 * i - 1] \in 0..15 /\ f[2 * i] \in 0..15
    <3>1. 2 * i - 1 \in 1..8 /\ 2 * i \in 1..8
      OBVIOUS
    <3> QED
      BY <1>4, <3>1, ElementOfSeq
  <2>2. \A x, y \in 0..15 : x * 16 + y \in Octet
    BY DEF Octet
  <2>3. \A i \in 1..4 : f[2 * i - 1] * 16 + f[2 * i] \in Octet
    BY <2>1, <2>2
  <2>4. \A n \in Nat : \A g : (\A i \in 1..n : g[i] \in Octet) =>
          [i \in 1..n |-> g[i]] \in Seq(Octet) /\ Len([i \in 1..n |-> g[i]]) = n
    OBVIOUS
  <2>5. \A i \in 1..4 : b[i] \in Octet
    BY <1>5, <2>3
  <2>6. b = [i \in 1..4 |-> b[i]] /\ 4 \in Nat
    BY <1>5
  <2> QED
    BY <2>4, <2>5, <2>6, Zenon
<1>7. 4 \in Nat
  OBVIOUS
<1> QED
  BY <1>1, <1>2, <1>6, <1>7, Zenon DEF Fits

\* A time is read as it was written: its digits are those of a time when they come back.
LEMMA TimeFits ==
    ASSUME NEW name, NEW v \in Seq(Digit), IsTime(v)
    PROVE  Fits(Time(name), v)
<1>1. Len(v) = 2 * 6 /\ 6 \in Nat /\ 6 >= 4
  BY DEF IsTime
<1>2. Fits(BCD(name, 6), v)
  BY <1>1, BCDFits
<1>3. /\ Write(Time(name), v) = Write(BCD(name, 6), v) /\ Time(name).size = BCD(name, 6).size
      /\ \A b : Read(Time(name), b) = ParseTime(Read(BCD(name, 6), b))
  BY DEF Write, Read, Time, BCD, F
<1>4. ParseTime(v) = v
  BY Zenon DEF ParseTime
<1> QED
  BY <1>2, <1>3, <1>4, Zenon DEF Fits

LEMMA FieldMade ==
    ASSUME NEW name, NEW n \in Nat
    PROVE  /\ IsField(Byte(name)) /\ IsField(Word(name)) /\ IsField(DoubleWord(name))
           /\ IsField(Time(name)) /\ IsField(Bytes(name, n)) /\ IsField(BCD(name, n))
           /\ IsField(Text(name, n)) /\ IsField(F(name, "fill", n)) /\ IsField(F(name, "note", n))
BY DEF IsField, Byte, Word, DoubleWord, Time, Bytes, BCD, Text, F

LEMMA KindIs ==
    ASSUME NEW name, NEW n
    PROVE  /\ Byte(name).kind = "byte" /\ Word(name).kind = "word" /\ DoubleWord(name).kind = "dword"
           /\ Time(name).kind = "time" /\ Bytes(name, n).kind = "bytes" /\ BCD(name, n).kind = "bcd"
           /\ Text(name, n).kind = "text"
           /\ F(name, "fill", n).kind = "fill" /\ F(name, "note", n).kind = "note"
BY DEF Byte, Word, DoubleWord, Time, Bytes, BCD, Text, F

LEMMA HeldIs ==
    ASSUME NEW f, NEW v, Holds(f, v)
    PROVE  /\ f.kind = "byte" => v \in Octet
           /\ f.kind = "word" => AWord(v)
           /\ f.kind = "dword" => v = <<v[1], v[2]>> /\ AWord(v[1]) /\ AWord(v[2])
           /\ f.kind \in {"bytes", "fill"} => v \in Seq(Octet) /\ Len(v) = f.size
           /\ f.kind = "bcd" =>
                v \in Seq(Digit) /\ f.size >= 4 /\ (Len(v) = 2 * f.size \/ (f.size = 4 /\ Len(v) < 8))
           /\ f.kind = "time" => v \in Seq(Digit) /\ IsTime(v)
           /\ f.kind \in {"text", "note"} =>
                v \in Seq(Octet) /\ Len(v) <= f.size /\ (v # <<>> => v[Len(v)] # 0)
BY DEF Holds

LEMMA HeldFits ==
    ASSUME NEW f, IsField(f), NEW v, Holds(f, v)
    PROVE  Fits(f, v)
<1>0. f.size \in Nat
  BY DEF IsField
<1>1. CASE f = Byte(f.name)
  <2>0. f.kind = "byte"
    BY <1>1, KindIs
  <2>1. v \in Octet
    BY <2>0, HeldIs, Zenon
  <2> QED
    BY <1>1, <2>1, ByteFits, Zenon
<1>2. CASE f = Word(f.name)
  <2>0. f.kind = "word"
    BY <1>2, KindIs
  <2>1. AWord(v)
    BY <2>0, HeldIs, Zenon
  <2> QED
    BY <1>2, <2>1, WordFits, Zenon
<1>3. CASE f = DoubleWord(f.name)
  <2>0. f.kind = "dword"
    BY <1>3, KindIs
  <2>2. v = <<v[1], v[2]>> /\ AWord(v[1]) /\ AWord(v[2])
    BY <2>0, HeldIs, Zenon
  <2>3. Fits(DoubleWord(f.name), <<v[1], v[2]>>)
    BY <2>2, DoubleWordFits, Zenon
  <2> QED
    BY <1>3, <2>2, <2>3, Zenon
<1>4. CASE f = Time(f.name)
  <2>0. f.kind = "time"
    BY <1>4, KindIs
  <2>1. v \in Seq(Digit) /\ IsTime(v)
    BY <2>0, HeldIs, Zenon
  <2> QED
    BY <1>4, <2>1, TimeFits, Zenon
<1>5. CASE f = Bytes(f.name, f.size)
  <2>0. f.kind = "bytes"
    BY <1>5, KindIs
  <2>1. v \in Seq(Octet) /\ Len(v) = f.size
    BY <2>0, HeldIs, Zenon
  <2>2. Fits(Bytes(f.name, Len(v)), v)
    BY <2>1, BytesFit, Zenon
  <2> QED
    BY <1>5, <2>1, <2>2, Zenon
<1>6. CASE f = F(f.name, "fill", f.size)
  <2>0. f.kind = "fill"
    BY <1>6, KindIs
  <2>1. v \in Seq(Octet) /\ Len(v) = f.size
    BY <2>0, HeldIs, Zenon
  <2>2. Fits(F(f.name, "fill", f.size), v)
    BY <1>0, <2>1, FillFits, Zenon
  <2> QED
    BY <1>6, <2>2, Zenon
<1>7. CASE f = BCD(f.name, f.size)
  <2>0. f.kind = "bcd"
    BY <1>7, KindIs
  <2>1. v \in Seq(Digit) /\ f.size >= 4 /\ (Len(v) = 2 * f.size \/ (f.size = 4 /\ Len(v) < 8))
    BY <2>0, HeldIs, Zenon
  <2>2. Fits(BCD(f.name, f.size), v)
    <3>1. CASE Len(v) = 2 * f.size
      BY <1>0, <2>1, <3>1, BCDFits, Zenon
    <3>2. CASE f.size = 4 /\ Len(v) < 8
      <4>1. Fits(BCD(f.name, 4), v)
        BY <2>1, <3>2, ShortBCDFits, Zenon
      <4> QED
        BY <3>2, <4>1, Zenon
    <3> QED
      BY <2>1, <3>1, <3>2, Zenon
  <2> QED
    BY <1>7, <2>2, Zenon
<1>8. CASE f = Text(f.name, f.size) \/ f = F(f.name, "note", f.size)
  <2>0. f.kind \in {"text", "note"}
    BY <1>8, KindIs
  <2>1. v \in Seq(Octet) /\ Len(v) <= f.size /\ (v # <<>> => v[Len(v)] # 0)
    BY <2>0, HeldIs, Zenon
  <2>2. Fits(Text(f.name, f.size), v) /\ Fits(F(f.name, "note", f.size), v)
    BY <1>0, <2>1, TextFits, Zenon
  <2> QED
    BY <1>8, <2>2, Zenon
<1> QED
  BY <1>1, <1>2, <1>3, <1>4, <1>5, <1>6, <1>7, <1>8, Zenon DEF IsField

LEMMA FormalIs ==
    ASSUME NEW layout, NEW n \in Nat, layout = [k \in 1..n |-> layout[k]],
           \A k \in 1..n : IsField(layout[k]),
           \A j, k \in 1..n : layout[j].name = layout[k].name => j = k
    PROVE  Formal(layout) /\ Len(layout) = n /\ DOMAIN layout = 1..n
<1> DEFINE X == {layout[k] : k \in 1..n}
<1>1. DOMAIN layout = 1..n
  OBVIOUS
<1>2. \A k \in 1..n : layout[k] \in X
  OBVIOUS
<1> HIDE DEF X
<1>3. layout \in Seq(X)
  BY <1>2
<1>4. Len(layout) = n
  BY <1>1, <1>3, LenProperties
<1> QED
  BY <1>1, <1>3, <1>4, Zenon DEF Formal, X

LEMMA FormalFacts ==
    ASSUME NEW layout, Formal(layout)
    PROVE  /\ Len(layout) \in Nat /\ DOMAIN layout = 1..Len(layout)
           /\ layout = [k \in 1..Len(layout) |-> layout[k]]
           /\ \E X : layout \in Seq(X) /\ \A x \in X : x.size \in Nat
<1> DEFINE X == {layout[k] : k \in DOMAIN layout}
<1>1. layout \in Seq(X)
  BY Zenon DEF Formal
<1>2. \A x \in X : x.size \in Nat
  BY DEF Formal, IsField
<1> HIDE DEF X
<1>3. Len(layout) \in Nat /\ DOMAIN layout = 1..Len(layout)
  BY <1>1, LenProperties
<1>4. layout = [k \in 1..Len(layout) |-> layout[k]]
  BY <1>1, <1>3
<1> QED
  BY <1>1, <1>2, <1>3, <1>4, Zenon

LEMMA HeldSuits ==
    ASSUME NEW layout, Formal(layout), NEW m, HoldAll(layout, m)
    PROVE  Suits(layout, m)
<1>1. \E X : layout \in Seq(X) /\ \A x \in X : x.size \in Nat
  BY FormalFacts, Zenon
<1>2. ASSUME NEW k \in DOMAIN layout PROVE Fits(layout[k], m[layout[k].name])
  <2>1. IsField(layout[k]) /\ Holds(layout[k], m[layout[k].name])
    BY Zenon DEF Formal, HoldAll
  <2> QED
    BY <2>1, HeldFits, Zenon
<1> QED
  BY <1>1, <1>2, Zenon DEF Suits, Formal

-----------------------------------------------------------------------------
(* The layouts of the bodies: made of such fields, each with its own name. *)

LEMMA AnswerFormal ==
    /\ Formal(Answer)
    /\ Len(Answer) = 3
    /\ Names(Answer) = {"AnswerSerialNumber", "AnswerMessageID", "Result"}
<1>1. Answer = [k \in 1..3 |-> Answer[k]]
  BY DEF Answer
<1>2. \A k \in 1..3 : IsField(Answer[k])
  BY FieldMade DEF Answer
<1>3. \A j, k \in 1..3 : Answer[j].name = Answer[k].name => j = k
  BY DEF Answer, Word, Byte, F
<1>4. Names(Answer) = {"AnswerSerialNumber", "AnswerMessageID", "Result"}
  BY DEF Answer, Word, Byte, F, Names
<1> QED
  BY <1>1, <1>2, <1>3, <1>4, FormalIs

LEMMA ParamsAnswerFormal ==
    /\ Formal(ParamsAnswer)
    /\ Len(ParamsAnswer) = 2
    /\ Names(ParamsAnswer) = {"AnswerSerialNumber", "AnswerParamCnt"}
<1>1. ParamsAnswer = [k \in 1..2 |-> ParamsAnswer[k]]
  BY DEF ParamsAnswer
<1>2. \A k \in 1..2 : IsField(ParamsAnswer[k])
  BY FieldMade DEF ParamsAnswer
<1>3. \A j, k \in 1..2 : ParamsAnswer[j].name = ParamsAnswer[k].name => j = k
  BY DEF ParamsAnswer, Word, Byte, F
<1>4. Names(ParamsAnswer) = {"AnswerSerialNumber", "AnswerParamCnt"}
  BY DEF ParamsAnswer, Word, Byte, F, Names
<1> QED
  BY <1>1, <1>2, <1>3, <1>4, FormalIs

LEMMA ParamsSettingFormal ==
    /\ Formal(ParamsSetting)
    /\ Len(ParamsSetting) = 1
    /\ Names(ParamsSetting) = {"ParamCnt"}
<1>1. ParamsSetting = [k \in 1..1 |-> ParamsSetting[k]]
  BY DEF ParamsSetting
<1>2. \A k \in 1..1 : IsField(ParamsSetting[k])
  BY FieldMade DEF ParamsSetting
<1>3. \A j, k \in 1..1 : ParamsSetting[j].name = ParamsSetting[k].name => j = k
  BY DEF ParamsSetting, Byte, F
<1>4. Names(ParamsSetting) = {"ParamCnt"}
  BY DEF ParamsSetting, Byte, F, Names
<1> QED
  BY <1>1, <1>2, <1>3, <1>4, FormalIs

LEMMA ParamHeadFormal ==
    /\ Formal(ParamHead)
    /\ Len(ParamHead) = 2
    /\ Names(ParamHead) = {"ParamID", "ParamLen"}
<1>1. ParamHead = [k \in 1..2 |-> ParamHead[k]]
  BY DEF ParamHead
<1>2. \A k \in 1..2 : IsField(ParamHead[k])
  BY FieldMade DEF ParamHead
<1>3. \A j, k \in 1..2 : ParamHead[j].name = ParamHead[k].name => j = k
  BY DEF ParamHead, DoubleWord, Byte, F
<1>4. Names(ParamHead) = {"ParamID", "ParamLen"}
  BY DEF ParamHead, DoubleWord, Byte, F, Names
<1> QED
  BY <1>1, <1>2, <1>3, <1>4, FormalIs

LEMMA PositionFormal ==
    /\ Formal(Position)
    /\ Len(Position) = 8
    /\ Names(Position) = {"AlarmSign", "StatusSign", "Latitude", "Longitude", "Altitude", "Speed", "Direction", "Time"}
<1>1. Position = [k \in 1..8 |-> Position[k]]
  BY DEF Position
<1>2. \A k \in 1..8 : IsField(Position[k])
  BY FieldMade DEF Position
<1>3. \A j, k \in 1..8 : Position[j].name = Position[k].name => j = k
  BY DEF Position, DoubleWord, Word, BCD, F
<1>4. Names(Position) = {"AlarmSign", "StatusSign", "Latitude", "Longitude", "Altitude", "Speed", "Direction", "Time"}
  BY DEF Position, DoubleWord, Word, BCD, F, Names
<1> QED
  BY <1>1, <1>2, <1>3, <1>4, FormalIs

LEMMA MediaQueryFormal ==
    /\ Formal(MediaQuery)
    /\ Len(MediaQuery) = 8
    /\ Names(MediaQuery) = {"LogicChannelID", "StartTime", "EndTime", "AlarmSign", "AlarmSignExt", "MediaType", "StreamType", "StorageType"}
<1>1. MediaQuery = [k \in 1..8 |-> MediaQuery[k]]
  BY DEF MediaQuery
<1>2. \A k \in 1..8 : IsField(MediaQuery[k])
  BY FieldMade DEF MediaQuery
<1>3. \A j, k \in 1..8 : MediaQuery[j].name = MediaQuery[k].name => j = k
  BY DEF MediaQuery, DoubleWord, Time, Byte, F
<1>4. Names(MediaQuery) = {"LogicChannelID", "StartTime", "EndTime", "AlarmSign", "AlarmSignExt", "MediaType", "StreamType", "StorageType"}
  BY DEF MediaQuery, DoubleWord, Time, Byte, F, Names
<1> QED
  BY <1>1, <1>2, <1>3, <1>4, FormalIs

LEMMA DsmAlarmFormal ==
    /\ Formal(DsmAlarm)
    /\ Len(DsmAlarm) = 13
<1>1. DsmAlarm = [k \in 1..13 |-> DsmAlarm[k]]
  BY DEF DsmAlarm
<1>2. \A k \in 1..13 : IsField(DsmAlarm[k])
  BY FieldMade DEF DsmAlarm
<1>3. \A j, k \in 1..13 : DsmAlarm[j].name = DsmAlarm[k].name => j = k
  BY DEF DsmAlarm, DoubleWord, Word, Byte, Bytes, BCD, F
<1> QED
  BY <1>1, <1>2, <1>3, FormalIs

LEMMA NothingFormal == Formal(<<>>) /\ Names(<<>>) = {}
<1>1. <<>> = [k \in 1..0 |-> <<>>[k]]
  OBVIOUS
<1>2. Formal(<<>>)
  <2>1. \A k \in 1..0 : FALSE
    OBVIOUS
  <2> QED
    BY <1>1, <2>1, FormalIs
<1> QED
  BY <1>2 DEF Names

\* A layout behind another, with other names
LEMMA JoinedFormal ==
    ASSUME NEW a, Formal(a), NEW b, Formal(b), Names(a) \cap Names(b) = {}
    PROVE  Formal(a \o b) /\ Names(a \o b) = Names(a) \cup Names(b)
<1> DEFINE c == a \o b
<1>1. Len(a) \in Nat /\ Len(b) \in Nat
  BY FormalFacts
<1>2. /\ Len(c) = Len(a) + Len(b) /\ c = [k \in 1..Len(a) + Len(b) |-> c[k]]
      /\ \A j \in 1..Len(a) : c[j] = a[j]
      /\ \A k \in 1..Len(b) : c[Len(a) + k] = b[k]
  <2> DEFINE X == {a[k] : k \in DOMAIN a} \cup {b[k] : k \in DOMAIN b}
  <2>1. a \in Seq({a[k] : k \in DOMAIN a}) /\ b \in Seq({b[k] : k \in DOMAIN b})
    BY Zenon DEF Formal
  <2>2. a \in Seq(X) /\ b \in Seq(X)
    BY <2>1
  <2> HIDE DEF X
  <2>3. /\ c \in Seq(X) /\ Len(c) = Len(a) + Len(b)
        /\ \A j \in 1..Len(a) : c[j] = a[j]
        /\ \A k \in 1..Len(b) : c[Len(a) + k] = b[k]
    BY <2>2, Behind
  <2>4. DOMAIN c = 1..Len(a) + Len(b) /\ c = [k \in 1..Len(a) + Len(b) |-> c[k]]
    BY <2>3, LenProperties
  <2> QED
    BY <2>3, <2>4
<1>3. DOMAIN a = 1..Len(a) /\ DOMAIN b = 1..Len(b) /\ DOMAIN c = 1..Len(a) + Len(b)
  BY <1>1, <1>2, FormalFacts
<1> HIDE DEF c
<1>4. \A i \in DOMAIN c : \/ i \in DOMAIN a /\ c[i] = a[i]
                          \/ i - Len(a) \in DOMAIN b /\ c[i] = b[i - Len(a)]
  <2> TAKE i \in DOMAIN c
  <2>1. CASE i \in 1..Len(a)
    BY <1>2, <1>3, <2>1
  <2>2. CASE i \notin 1..Len(a)
    <3>1. i - Len(a) \in 1..Len(b) /\ Len(a) + (i - Len(a)) = i
      BY <1>1, <1>3, <2>2
    <3> QED
      BY <1>2, <1>3, <3>1
  <2> QED
    BY <2>1, <2>2
<1>5. \A i \in DOMAIN c : IsField(c[i])
  BY <1>4, Zenon DEF Formal
<1>6. ASSUME NEW j \in DOMAIN c, NEW k \in DOMAIN c, c[j].name = c[k].name PROVE j = k
  <2>1. /\ \A x \in DOMAIN a : a[x].name \in Names(a)
        /\ \A x \in DOMAIN b : b[x].name \in Names(b)
    BY DEF Names
  <2>2. \A x, y \in DOMAIN a : a[x].name = a[y].name => x = y
    BY Zenon DEF Formal
  <2>3. \A x, y \in DOMAIN b : b[x].name = b[y].name => x = y
    BY Zenon DEF Formal
  <2>4. j \in Int /\ k \in Int
    BY <1>1, <1>3
  <2>5. CASE j \in DOMAIN a /\ c[j] = a[j]
    <3>1. k \in DOMAIN a /\ c[k] = a[k]
      BY <1>4, <1>6, <2>1, <2>5
    <3> QED
      BY <1>6, <2>2, <2>5, <3>1
  <2>6. CASE j - Len(a) \in DOMAIN b /\ c[j] = b[j - Len(a)]
    <3>1. k - Len(a) \in DOMAIN b /\ c[k] = b[k - Len(a)]
      BY <1>4, <1>6, <2>1, <2>6
    <3>2. j - Len(a) = k - Len(a)
      BY <1>6, <2>3, <2>6, <3>1
    <3> QED
      BY <1>1, <2>4, <3>2
  <2> QED
    BY <1>4, <2>5, <2>6
<1>7. Names(c) = Names(a) \cup Names(b)
  <2>1. ASSUME NEW n \in Names(a) PROVE n \in Names(c)
    <3>1. PICK x \in DOMAIN a : n = a[x].name
      BY DEF Names
    <3>2. x \in 1..Len(a) /\ x \in 1..Len(a) + Len(b)
      BY <1>1, <1>3
    <3>3. x \in DOMAIN c /\ c[x] = a[x]
      BY <1>2, <1>3, <3>2, Zenon
    <3> QED
      BY <3>1, <3>3 DEF Names
  <2>2. ASSUME NEW n \in Names(b) PROVE n \in Names(c)
    <3>1. PICK x \in DOMAIN b : n = b[x].name
      BY DEF Names
    <3>2. Len(a) + x \in DOMAIN c /\ c[Len(a) + x] = b[x]
      BY <1>1, <1>2, <1>3
    <3> QED
      BY <3>1, <3>2 DEF Names
  <2>3. ASSUME NEW n \in Names(c) PROVE n \in Names(a) \cup Names(b)
    BY <1>4 DEF Names
  <2> QED
    BY <2>1, <2>2, <2>3
<1>8. Formal(c)
  <2>1. Len(a) + Len(b) \in Nat
    BY <1>1
  <2> QED
    BY <1>2, <1>3, <1>5, <1>6, <2>1, FormalIs, Zenon
<1> QED
  BY <1>7, <1>8 DEF c

\* What fits a field by its type
LEMMA HeldMade ==
    ASSUME NEW name, NEW n, NEW v
    PROVE  /\ v \in Octet => Holds(Byte(name), v)
           /\ AWord(v) => Holds(Word(name), v)
           /\ v = <<v[1], v[2]>> /\ AWord(v[1]) /\ AWord(v[2]) => Holds(DoubleWord(name), v)
           /\ v \in Seq(Octet) /\ Len(v) = n => Holds(Bytes(name, n), v)
           /\ v \in Seq(Digit) /\ IsTime(v) => Holds(Time(name), v)
BY DEF Holds, Byte, Word, DoubleWord, Bytes, Time, F

LEMMA NoughtHeld ==
    /\ 0 \in Octet /\ AWord(0)
    /\ \A name : Holds(DoubleWord(name), <<0, 0>>) /\ Holds(DoubleWord(name), <<0, 1>>)
<1>1. 0 \in Octet
  BY DEF Octet
<1>2. AWord(0) /\ AWord(1)
  <2>1. 2^16 = 65536
    BY SMT
  <2> QED BY <2>1, SMT DEF AWord
<1>3. \A name : Holds(DoubleWord(name), <<0, 0>>) /\ Holds(DoubleWord(name), <<0, 1>>)
  <2> TAKE name
  <2>1. <<0, 0>> = <<<<0, 0>>[1], <<0, 0>>[2]>> /\ <<0, 0>>[1] = 0 /\ <<0, 0>>[2] = 0
    OBVIOUS
  <2>2. <<0, 1>> = <<<<0, 1>>[1], <<0, 1>>[2]>> /\ <<0, 1>>[1] = 0 /\ <<0, 1>>[2] = 1
    OBVIOUS
  <2>3. Holds(DoubleWord(name), <<0, 0>>)
    BY <1>2, <2>1, HeldMade
  <2>4. Holds(DoubleWord(name), <<0, 1>>)
    BY <1>2, <2>2, HeldMade
  <2> QED BY <2>3, <2>4
<1> QED BY <1>1, <1>2, <1>3

\* Short fields make a short layout.
LEMMA ShortFields ==
    ASSUME NEW L, Formal(L), \A k \in 1..Len(L) : L[k].size <= 40
    PROVE  SizeOf(L) \in Nat /\ SizeOf(L) <= 40 * Len(L)
<1> DEFINE n == Len(L)
           x(i) == Upto(L, i)
           S == {i \in 0..n : x(i) <= 40 * i}
<1>1. PICK X : L \in Seq(X) /\ \A f \in X : f.size \in Nat
  BY FormalFacts
<1>2. /\ n \in Nat /\ x(0) = 0 /\ x(n) = SizeOf(L)
      /\ \A i \in 0..n : x(i) \in Nat
      /\ \A i \in 1..n : x(i) = x(i - 1) + L[i].size
  BY <1>1, UptoFacts, LenProperties
<1>3. \A i \in 1..n : L[i].size \in Nat /\ L[i].size <= 40
  BY <1>1, ElementOfSeq
<1> HIDE DEF n, x
<1>4. 0 \in S /\ S \in SUBSET (0..n)
  BY <1>2
<1>5. ASSUME NEW i \in 1..n, i - 1 \in S PROVE i \in S
  <2>1. i \in 0..n /\ i - 1 \in 0..n
    BY <1>2
  <2>2. x(i - 1) \in Nat /\ x(i) \in Nat /\ x(i - 1) <= 40 * (i - 1)
    BY <1>2, <1>5, <2>1
  <2>3. x(i) = x(i - 1) + L[i].size /\ L[i].size \in Nat /\ L[i].size <= 40
    BY <1>2, <1>3
  <2>4. i \in Int
    BY <1>2
  <2>5. x(i) <= 40 * i
    BY <2>2, <2>3, <2>4
  <2> QED BY <2>1, <2>5
<1> HIDE DEF S
<1>6. \A i \in 0..n : i \in S
  BY <1>2, <1>4, <1>5, UpTo
<1>7. n \in S /\ n \in 0..n
  BY <1>2, <1>6
<1> QED BY <1>2, <1>7 DEF S, n

\* Layouts behind one another hold what both of them hold.
LEMMA BothHeld ==
    ASSUME NEW a, Formal(a), NEW b, Formal(b), NEW m, HoldAll(a, m), HoldAll(b, m)
    PROVE  HoldAll(a \o b, m)
<1> DEFINE c == a \o b
           X == {a[k] : k \in DOMAIN a} \cup {b[k] : k \in DOMAIN b}
<1>1. Len(a) \in Nat /\ Len(b) \in Nat /\ DOMAIN a = 1..Len(a) /\ DOMAIN b = 1..Len(b)
  BY FormalFacts
<1>2. a \in Seq({a[k] : k \in DOMAIN a}) /\ b \in Seq({b[k] : k \in DOMAIN b})
  BY Zenon DEF Formal
<1>3. a \in Seq(X) /\ b \in Seq(X)
  BY <1>2
<1> HIDE DEF X
<1>4. /\ c \in Seq(X) /\ Len(c) = Len(a) + Len(b)
      /\ \A j \in 1..Len(a) : c[j] = a[j]
      /\ \A k \in 1..Len(b) : c[Len(a) + k] = b[k]
  BY <1>3, Behind
<1>5. DOMAIN c = 1..Len(a) + Len(b)
  BY <1>4, LenProperties
<1> HIDE DEF c
<1>6. ASSUME NEW k \in DOMAIN c PROVE Holds(c[k], m[c[k].name])
  <2>1. CASE k \in 1..Len(a)
    <3>1. k \in DOMAIN a /\ c[k] = a[k]
      BY <1>1, <1>4, <2>1
    <3> QED BY <3>1, Zenon DEF HoldAll
  <2>2. CASE k \notin 1..Len(a)
    <3>1. k - Len(a) \in DOMAIN b /\ c[k] = b[k - Len(a)]
      <4>1. k - Len(a) \in 1..Len(b) /\ Len(a) + (k - Len(a)) = k
        BY <1>1, <1>5, <2>2
      <4> QED BY <1>1, <1>4, <4>1
    <3> QED BY <3>1, Zenon DEF HoldAll
  <2> QED BY <2>1, <2>2
<1>7. HoldAll(c, m)
  BY <1>6 DEF HoldAll
<1> QED BY <1>7 DEF c

\* The same holds for the list of media, and no field of it is long.
LEMMA MediaListIs ==
    /\ Formal(MediaList)
    /\ Names(MediaList) = {"AnswerSerialNumber", "MediaCount", "LogicChannelID", "StartTime", "EndTime",
                           "AlarmSign", "AlarmSignExt", "MediaType", "StreamType", "StorageType", "Size"}
    /\ SizeOf(MediaList) \in Nat /\ SizeOf(MediaList) <= 1000
    /\ \A b : /\ Holds(Word("AnswerSerialNumber"), b["AnswerSerialNumber"])
              /\ Holds(DoubleWord("MediaCount"), b["MediaCount"])
              /\ HoldAll(MediaQuery, b) /\ Holds(DoubleWord("Size"), b["Size"])
              => HoldAll(MediaList, b)
<1> DEFINE f == <<Word("AnswerSerialNumber"), DoubleWord("MediaCount")>>
           q == MediaQuery
           z == <<DoubleWord("Size")>>
<1>1. Formal(f) /\ Len(f) = 2
  <2>1. f = [k \in 1..2 |-> f[k]]
    OBVIOUS
  <2>2. \A k \in 1..2 : IsField(f[k])
    BY FieldMade
  <2>3. \A j, k \in 1..2 : f[j].name = f[k].name => j = k
    BY DEF DoubleWord, Word, F
  <2> HIDE DEF f
  <2> QED BY <2>1, <2>2, <2>3, FormalIs
<1>2. Formal(z) /\ Len(z) = 1
  <2>1. z = [k \in 1..1 |-> z[k]]
    OBVIOUS
  <2>2. \A k \in 1..1 : IsField(z[k])
    BY FieldMade
  <2>3. \A j, k \in 1..1 : z[j].name = z[k].name => j = k
    OBVIOUS
  <2> HIDE DEF z
  <2> QED BY <2>1, <2>2, <2>3, FormalIs
<1>3. Formal(q) /\ Len(q) = 8
  BY MediaQueryFormal
<1>4. /\ DOMAIN f = 1..2 /\ f[1] = Word("AnswerSerialNumber") /\ f[1].name = "AnswerSerialNumber"
      /\ f[2] = DoubleWord("MediaCount") /\ f[2].name = "MediaCount"
      /\ DOMAIN z = 1..1 /\ z[1] = DoubleWord("Size") /\ z[1].name = "Size"
      /\ \A k \in 1..2 : f[k].size <= 40
      /\ \A k \in 1..1 : z[k].size <= 40
  BY DEF Word, DoubleWord, F
<1>5. \A k \in 1..8 : q[k].size <= 40
  BY DEF MediaQuery, Byte, Time, DoubleWord, F
<1>6. MediaList = (f \o q) \o z
  BY Zenon DEF MediaList
<1> HIDE DEF f, q, z
<1>7. /\ Names(f) = {"AnswerSerialNumber", "MediaCount"} /\ Names(z) = {"Size"}
      /\ Names(q) = {"LogicChannelID", "StartTime", "EndTime", "AlarmSign", "AlarmSignExt",
                     "MediaType", "StreamType", "StorageType"}
  <2>1. Names(f) = {"AnswerSerialNumber", "MediaCount"}
    BY <1>4 DEF Names
  <2>2. Names(z) = {"Size"}
    BY <1>4 DEF Names
  <2> QED BY <2>1, <2>2, MediaQueryFormal, Zenon DEF q
<1>8. Formal(f \o q) /\ Names(f \o q) = Names(f) \cup Names(q)
  <2>1. Names(f) \cap Names(q) = {}
    BY <1>7
  <2> QED BY <1>1, <1>3, <2>1, JoinedFormal
<1>9. Formal(MediaList) /\ Names(MediaList) = Names(f \o q) \cup Names(z)
  <2>1. Names(f \o q) \cap Names(z) = {}
    BY <1>7, <1>8
  <2> QED BY <1>2, <1>6, <1>8, <2>1, JoinedFormal, Zenon
<1>10. ASSUME NEW b, Holds(Word("AnswerSerialNumber"), b["AnswerSerialNumber"]),
              Holds(DoubleWord("MediaCount"), b["MediaCount"]),
              HoldAll(q, b), Holds(DoubleWord("Size"), b["Size"])
       PROVE  HoldAll(MediaList, b)
  <2>1. \A k \in DOMAIN f : k = 1 \/ k = 2
    BY <1>4
  <2>2. \A k \in DOMAIN z : k = 1
    BY <1>4
  <2>3. HoldAll(f, b) /\ HoldAll(z, b)
    BY <1>4, <1>10, <2>1, <2>2, Zenon DEF HoldAll
  <2>4. HoldAll(f \o q, b)
    BY <1>1, <1>3, <1>10, <2>3, BothHeld
  <2>5. HoldAll((f \o q) \o z, b)
    BY <1>2, <1>8, <2>3, <2>4, BothHeld
  <2> QED BY <1>6, <2>5, Zenon
<1>11. SizeOf(MediaList) \in Nat /\ SizeOf(MediaList) <= 1000
  <2>1. SizeOf(f) \in Nat /\ SizeOf(f) <= 80
    <3>1. \A k \in 1..Len(f) : f[k].size <= 40
      BY <1>1, <1>4
    <3>2. SizeOf(f) \in Nat /\ SizeOf(f) <= 40 * Len(f)
      BY <1>1, <3>1, ShortFields
    <3> QED BY <1>1, <3>2
  <2>2. SizeOf(q) \in Nat /\ SizeOf(q) <= 320
    <3>1. \A k \in 1..Len(q) : q[k].size <= 40
      BY <1>3, <1>5
    <3>2. SizeOf(q) \in Nat /\ SizeOf(q) <= 40 * Len(q)
      BY <1>3, <3>1, ShortFields
    <3> QED BY <1>3, <3>2
  <2>3. SizeOf(z) \in Nat /\ SizeOf(z) <= 40
    <3>1. \A k \in 1..Len(z) : z[k].size <= 40
      BY <1>2, <1>4
    <3>2. SizeOf(z) \in Nat /\ SizeOf(z) <= 40 * Len(z)
      BY <1>2, <3>1, ShortFields
    <3> QED BY <1>2, <3>2
  <2> DEFINE X == {f[k] : k \in DOMAIN f} \cup {q[k] : k \in DOMAIN q} \cup {z[k] : k \in DOMAIN z}
  <2>4. \A x \in X : x.size \in Nat
    BY <1>1, <1>2, <1>3 DEF Formal, IsField
  <2>5. f \in Seq({f[k] : k \in DOMAIN f})
    BY <1>1, Zenon DEF Formal
  <2>6. q \in Seq({q[k] : k \in DOMAIN q})
    BY <1>3, Zenon DEF Formal
  <2>7. z \in Seq({z[k] : k \in DOMAIN z})
    BY <1>2, Zenon DEF Formal
  <2>8. f \in Seq(X) /\ q \in Seq(X) /\ z \in Seq(X)
    BY <2>5, <2>6, <2>7
  <2> HIDE DEF X
  <2>9. f \o q \in Seq(X)
    BY <2>8, ConcatProperties
  <2>10. SizeOf(f \o q) = SizeOf(f) + SizeOf(q)
    BY <2>4, <2>8, SizeBehind
  <2>11. SizeOf((f \o q) \o z) = SizeOf(f \o q) + SizeOf(z)
    BY <2>4, <2>8, <2>9, SizeBehind
  <2>12. SizeOf(MediaList) = SizeOf(f) + SizeOf(q) + SizeOf(z)
    BY <1>6, <2>10, <2>11, Zenon
  <2> QED BY <2>1, <2>2, <2>3, <2>12
<1>12. Names(MediaList) = {"AnswerSerialNumber", "MediaCount", "LogicChannelID", "StartTime", "EndTime",
                           "AlarmSign", "AlarmSignExt", "MediaType", "StreamType", "StorageType", "Size"}
  BY <1>7, <1>8, <1>9
<1> QED BY <1>9, <1>10, <1>11, <1>12 DEF q

LEMMA SizesAre ==
    ASSUME NEW version \in {Version2011, Version2013, Version2019}
    PROVE  /\ Sized(Sizes(version))
           /\ version = Version2011 => Sizes(version) = <<5, 8, 7>>
           /\ version = Version2013 => Sizes(version) = <<5, 20, 7>>
           /\ version = Version2019 => Sizes(version) = <<11, 30, 30>>
BY DEF Sized, Sizes, Version2011, Version2013, Version2019

LEMMA RegistrationFormal ==
    ASSUME NEW sizes, Sized(sizes), NEW n \in Nat
    PROVE  /\ Formal(Registration(sizes, n))
           /\ Len(Registration(sizes, n)) = 7
           /\ SizeOf(Registration(sizes, n)) = 5 + sizes[1] + sizes[2] + sizes[3] + n
<1> DEFINE L == Registration(sizes, n)
<1>1. Formal(L) /\ Len(L) = 7
  <2>1. L = [k \in 1..7 |-> L[k]]
    BY DEF Registration
  <2>2. \A k \in 1..7 : IsField(L[k])
    BY FieldMade DEF Registration, Sized
  <2>3. \A j, k \in 1..7 : L[j].name = L[k].name => j = k
    BY DEF Registration, Word, Text, Byte, Bytes, F
  <2> HIDE DEF L
  <2> QED
    BY <2>1, <2>2, <2>3, FormalIs
<1>2. /\ L[1].size = 2 /\ L[2].size = 2 /\ L[3].size = sizes[1] /\ L[4].size = sizes[2]
      /\ L[5].size = sizes[3] /\ L[6].size = 1 /\ L[7].size = n
  BY DEF Registration, Word, Text, Byte, Bytes, F
<1> HIDE DEF L
<1> DEFINE x(i) == Upto(L, i)
<1>4. x(0) = 0 /\ x(7) = SizeOf(L) /\ \A i \in 1..7 : x(i) = x(i - 1) + L[i].size
  <2>1. PICK X : L \in Seq(X) /\ \A f \in X : f.size \in Nat
    BY <1>1, FormalFacts
  <2> QED
    BY <1>1, <2>1, UptoFacts
<1> HIDE DEF x
<1>5. x(1) = 2 /\ x(2) = 4
  BY <1>2, <1>4
<1>6. x(3) = 4 + sizes[1] /\ x(4) = 4 + sizes[1] + sizes[2] /\ x(5) = 4 + sizes[1] + sizes[2] + sizes[3]
  BY <1>2, <1>4, <1>5 DEF Sized
<1>7. x(6) = 5 + sizes[1] + sizes[2] + sizes[3] /\ x(7) = 5 + sizes[1] + sizes[2] + sizes[3] + n
  BY <1>2, <1>4, <1>6 DEF Sized
<1> QED
  BY <1>1, <1>4, <1>7 DEF L

LEMMA RegistrationAnswerFormal ==
    ASSUME NEW n \in Nat
    PROVE  Formal(RegistrationAnswer(n)) /\ SizeOf(RegistrationAnswer(n)) = 3 + n
<1> DEFINE L == RegistrationAnswer(n)
<1>1. Formal(L) /\ Len(L) = 3
  <2>1. L = [k \in 1..3 |-> L[k]]
    BY DEF RegistrationAnswer
  <2>2. \A k \in 1..3 : IsField(L[k])
    BY FieldMade DEF RegistrationAnswer
  <2>3. \A j, k \in 1..3 : L[j].name = L[k].name => j = k
    BY DEF RegistrationAnswer, Word, Byte, Bytes, F
  <2> HIDE DEF L
  <2> QED
    BY <2>1, <2>2, <2>3, FormalIs
<1>2. L[1].size = 2 /\ L[2].size = 1 /\ L[3].size = n
  BY DEF RegistrationAnswer, Word, Byte, Bytes, F
<1> HIDE DEF L
<1> DEFINE x(i) == Upto(L, i)
<1>4. x(0) = 0 /\ x(3) = SizeOf(L) /\ \A i \in 1..3 : x(i) = x(i - 1) + L[i].size
  <2>1. PICK X : L \in Seq(X) /\ \A f \in X : f.size \in Nat
    BY <1>1, FormalFacts
  <2> QED
    BY <1>1, <2>1, UptoFacts
<1> HIDE DEF x
<1>5. x(1) = 2 /\ x(2) = 3 /\ x(3) = 3 + n
  BY <1>2, <1>4
<1> QED
  BY <1>1, <1>4, <1>5 DEF L

LEMMA AuthenticationFormal ==
    ASSUME NEW version, NEW n \in Nat
    PROVE  /\ Formal(Authentication(version, n))
           /\ version = Version2019 =>
                Names(Authentication(version, n)) = {"AuthCodeLen", "AuthCode", "IMEI", "SoftwareVersion"}
           /\ version # Version2019 => Names(Authentication(version, n)) = {"AuthCode"}
<1>1. CASE version = Version2019
  <2> DEFINE L == <<Byte("AuthCodeLen"), Bytes("AuthCode", n), F("IMEI", "fill", 15),
                    F("SoftwareVersion", "note", 20)>>
  <2>1. Formal(L)
    <3>1. L = [k \in 1..4 |-> L[k]]
      OBVIOUS
    <3>2. \A k \in 1..4 : IsField(L[k])
      BY FieldMade
    <3>3. \A j, k \in 1..4 : L[j].name = L[k].name => j = k
      BY DEF Byte, Bytes, F
    <3> HIDE DEF L
    <3> QED
      BY <3>1, <3>2, <3>3, FormalIs
  <2>2. Names(L) = {"AuthCodeLen", "AuthCode", "IMEI", "SoftwareVersion"}
    BY DEF Byte, Bytes, F, Names
  <2>3. Authentication(version, n) = L
    BY <1>1, Zenon DEF Authentication
  <2> QED
    BY <1>1, <2>1, <2>2, <2>3, Zenon
<1>2. CASE version # Version2019
  <2> DEFINE L == <<Bytes("AuthCode", n)>>
  <2>1. Formal(L)
    <3>1. L = [k \in 1..1 |-> L[k]]
      OBVIOUS
    <3>2. \A k \in 1..1 : IsField(L[k])
      BY FieldMade
    <3>3. \A j, k \in 1..1 : L[j].name = L[k].name => j = k
      OBVIOUS
    <3> HIDE DEF L
    <3> QED
      BY <3>1, <3>2, <3>3, FormalIs
  <2>2. Names(L) = {"AuthCode"}
    BY DEF Byte, Bytes, F, Names
  <2>3. Authentication(version, n) = L
    BY <1>2, Zenon DEF Authentication
  <2> QED
    BY <1>2, <2>1, <2>2, <2>3, Zenon
<1> QED
  BY <1>1, <1>2

-----------------------------------------------------------------------------
(* One parameter and a list of them, through WriteParam and ReadParam.     *)

LEMMA ParamKinds ==
    /\ \A n \in DoubleWordParams : n \notin WordParams \cup ByteParams \cup TextParams \cup BCDParams /\ n # DsmParam
    /\ \A n \in WordParams : n \notin ByteParams \cup TextParams \cup BCDParams /\ n # DsmParam
    /\ \A n \in ByteParams : n \notin TextParams \cup BCDParams /\ n # DsmParam
    /\ \A n \in TextParams : n \notin BCDParams /\ n # DsmParam
    /\ \A n \in BCDParams : n # DsmParam
<1>1. \A n \in DoubleWordParams : n \notin WordParams \cup ByteParams /\ n # DsmParam
  BY DEF DoubleWordParams, WordParams, ByteParams, DsmParam
<1>2. \A n \in DoubleWordParams : n \notin TextParams \cup BCDParams
  BY DEF DoubleWordParams, TextParams, BCDParams
<1>3. \A n \in WordParams : n \notin ByteParams \cup TextParams \cup BCDParams /\ n # DsmParam
  BY DEF WordParams, ByteParams, TextParams, BCDParams, DsmParam
<1>4. \A n \in ByteParams : n \notin TextParams \cup BCDParams /\ n # DsmParam
  BY DEF ByteParams, TextParams, BCDParams, DsmParam
<1>5. \A n \in TextParams : n \notin BCDParams /\ n # DsmParam
  BY DEF TextParams, BCDParams, DsmParam
<1>6. \A n \in BCDParams : n # DsmParam
  BY DEF BCDParams, DsmParam
<1> QED
  BY <1>1, <1>2, <1>3, <1>4, <1>5, <1>6

LEMMA DsmFormal == Formal(DsmSwitches \o DsmAlarms)
<1>1. Formal(DsmSwitches) /\ DOMAIN DsmSwitches = 1..16
  <2>1. DsmSwitches = [k \in 1..16 |-> DsmSwitches[k]]
    BY DEF DsmSwitches
  <2>2. \A k \in 1..16 : IsField(DsmSwitches[k])
    <3>1. \A name : IsField(Byte(name)) /\ IsField(Word(name)) /\ IsField(DoubleWord(name))
      BY FieldMade
    <3> QED
      BY <3>1 DEF DsmSwitches
  <2>3. \A j, k \in 1..16 : DsmSwitches[j].name = DsmSwitches[k].name => j = k
    BY DEF DsmSwitches, Byte, Word, DoubleWord, F
  <2> QED
    BY <2>1, <2>2, <2>3, FormalIs
<1>2. Formal(DsmAlarms) /\ DOMAIN DsmAlarms = 1..23
  <2>1. DsmAlarms = [k \in 1..23 |-> DsmAlarms[k]]
    BY DEF DsmAlarms
  <2>2. \A k \in 1..23 : IsField(DsmAlarms[k])
    <3>1. \A name : IsField(Byte(name))
      BY FieldMade
    <3> QED
      BY <3>1 DEF DsmAlarms
  <2>3. \A j, k \in 1..23 : DsmAlarms[j].name = DsmAlarms[k].name => j = k
    BY DEF DsmAlarms, Byte, F
  <2> QED
    BY <2>1, <2>2, <2>3, FormalIs
<1>3. Names(DsmSwitches) \cap Names(DsmAlarms) = {}
  <2>1. \A j \in 1..16 : \A k \in 1..23 : DsmSwitches[j].name # DsmAlarms[k].name
    BY DEF DsmAlarms, Byte, F, DsmSwitches, Word, DoubleWord
  <2> QED
    BY <1>1, <1>2, <2>1 DEF Names
<1> QED
  BY <1>1, <1>2, <1>3, JoinedFormal

LEMMA OneFormal ==
    ASSUME NEW f, IsField(f)
    PROVE  Formal(<<f>>)
<1> DEFINE L == <<f>>
<1>1. L = [k \in 1..1 |-> L[k]] /\ 1 \in Nat
  OBVIOUS
<1>2. \A k \in 1..1 : IsField(L[k])
  OBVIOUS
<1>3. \A j, k \in 1..1 : L[j].name = L[k].name => j = k
  OBVIOUS
<1> HIDE DEF L
<1>4. Formal(L)
  BY <1>1, <1>2, <1>3, FormalIs
<1> QED
  BY <1>4 DEF L

\* What a layout writes depends on its names and on what each of its fields writes.
LEMMA SameWritten ==
    ASSUME NEW a, NEW b, NEW m, DOMAIN a = DOMAIN b,
           \A k \in DOMAIN a : a[k].name = b[k].name,
           \A k \in DOMAIN a : Write(a[k], m[b[k].name]) = Write(b[k], m[b[k].name])
    PROVE  WriteAll(a, m) = WriteAll(b, m)
<1>1. [k \in DOMAIN a |-> Write(a[k], m[a[k].name])] = [k \in DOMAIN b |-> Write(b[k], m[b[k].name])]
  OBVIOUS
<1> QED
  BY <1>1, Zenon DEF WriteAll

\* Octets and digits are written whatever the size of their field.
LEMMA FreeSize ==
    ASSUME NEW name, NEW n, NEW v
    PROVE  /\ Write(Bytes(name, 0), v) = Write(Bytes(name, n), v)
           /\ Write(BCD(name, 0), v) = Write(BCD(name, n), v)
           /\ Bytes(name, 0).name = Bytes(name, n).name /\ BCD(name, 0).name = BCD(name, n).name
<1>1. \A k : Write(Bytes(name, k), v) = v
  BY DEF Write, Bytes, F
<1>2. \A k : Write(BCD(name, k), v) = numberStr2BCD(v)
  BY DEF Write, BCD, F
<1>3. \A k : Bytes(name, k).name = name /\ BCD(name, k).name = name
  BY DEF Bytes, BCD, F
<1> QED
  BY <1>1, <1>2, <1>3

LEMMA ParamFormal ==
    ASSUME NEW id \in SupportedIds, NEW n \in Nat, NEW v
    PROVE  /\ Formal(ParamLayout(id, n))
           /\ WriteAll(ParamLayout(id, n), v) = WriteAll(ParamLayout(id, 0), v)
<1>0. \/ id[2] \in DoubleWordParams \cup WordParams \cup ByteParams
      \/ id[2] \in TextParams \cup BCDParams
      \/ id[2] = DsmParam
  BY Zenon DEF SupportedIds
<1>1. CASE id[2] \in DoubleWordParams
  <2>1. \A k : ParamLayout(id, k) = <<DoubleWord("value")>>
    BY <1>1, ParamKinds DEF ParamLayout
  <2> QED
    BY <2>1, FieldMade, OneFormal
<1>2. CASE id[2] \in WordParams
  <2>1. \A k : ParamLayout(id, k) = <<Word("value")>>
    BY <1>2, ParamKinds DEF ParamLayout
  <2> QED
    BY <2>1, FieldMade, OneFormal
<1>3. CASE id[2] \in ByteParams
  <2>1. \A k : ParamLayout(id, k) = <<Byte("value")>>
    BY <1>3, ParamKinds DEF ParamLayout
  <2> QED
    BY <2>1, FieldMade, OneFormal
<1>4. CASE id[2] \in TextParams
  <2>1. \A k : ParamLayout(id, k) = <<Bytes("value", k)>>
    BY <1>4, ParamKinds DEF ParamLayout
  <2>2. WriteAll(<<Bytes("value", n)>>, v) = WriteAll(<<Bytes("value", 0)>>, v)
    BY FreeSize, SameWritten
  <2> QED
    BY <2>1, <2>2, FieldMade, OneFormal
<1>5. CASE id[2] \in BCDParams
  <2>1. \A k : ParamLayout(id, k) = <<BCD("value", k)>>
    BY <1>5, ParamKinds DEF ParamLayout
  <2>2. WriteAll(<<BCD("value", n)>>, v) = WriteAll(<<BCD("value", 0)>>, v)
    BY FreeSize, SameWritten
  <2> QED
    BY <2>1, <2>2, FieldMade, OneFormal
<1>6. CASE id[2] = DsmParam
  <2>1. \A k : ParamLayout(id, k) = DsmSwitches \o DsmAlarms
    BY <1>6, ParamKinds DEF ParamLayout
  <2> QED
    BY <2>1, DsmFormal
<1> QED
  BY <1>0, <1>1, <1>2, <1>3, <1>4, <1>5, <1>6

-----------------------------------------------------------------------------
(* What stands in front of a part of a sequence, and what behind it.       *)

LEMMA Ends ==
    ASSUME NEW X, NEW g \in Seq(X), NEW p \in Seq(X)
    PROVE  /\ First(g \o p, Len(g)) = g /\ Others(g \o p, Len(g)) = p
           /\ g \o p \in Seq(X) /\ Len(g \o p) = Len(g) + Len(p)
           /\ Len(g) \in Nat /\ Len(p) \in Nat
<1> DEFINE r == g \o p
<1>1. /\ r \in Seq(X) /\ Len(r) = Len(g) + Len(p)
      /\ \A j \in 1..Len(g) : r[j] = g[j]
  BY Behind
<1>2. Len(g) \in Nat /\ Len(p) \in Nat
  BY LenProperties
<1> HIDE DEF r
<1>3. First(r, Len(g)) = g
  <2> DEFINE a == First(r, Len(g))
  <2>1. Len(g) \in 0..Len(r)
    BY <1>1, <1>2
  <2>2. a \in Seq(X) /\ Len(a) = Len(g)
    BY <1>1, <2>1, Split
  <2>3. \A j \in 1..Len(g) : a[j] = r[j]
    <3>1. a = [j \in 1..Len(g) |-> r[j]]
      BY <1>1, <1>2, <2>1 DEF First
    <3> HIDE DEF a
    <3> QED
      BY <3>1
  <2> HIDE DEF a
  <2>4. a = g
    BY <1>1, <2>2, <2>3, SeqEqual
  <2> QED
    BY <2>4 DEF a
<1>4. Others(r, Len(g)) = p
  BY Behindhand DEF r
<1> QED
  BY <1>1, <1>2, <1>3, <1>4 DEF r

LEMMA OthersOfOthers ==
    ASSUME NEW X, NEW s \in Seq(X), NEW a \in Nat, NEW b \in Nat, a + b <= Len(s)
    PROVE  Others(Others(s, a), b) = Others(s, a + b)
<1> DEFINE t == Others(s, a)
           u == Others(t, b)
           v == Others(s, a + b)
           n == Len(s)
<1>1. n \in Nat /\ \A i \in 1..n : s[i] \in X
  BY LenProperties, ElementOfSeq
<1>2. t = [i \in 1..n - a |-> s[a + i]] /\ v = [i \in 1..n - (a + b) |-> s[a + b + i]]
  BY <1>1 DEF Others
<1>3. t \in Seq(X) /\ Len(t) = n - a
  <2>1. a \in 0..Len(s)
    BY <1>1
  <2> QED
    BY <2>1, Split
<1>4. u = [i \in 1..(n - a) - b |-> t[b + i]]
  <2> HIDE DEF t, v, n
  <2>1. n - a \in Nat /\ \A i \in 1..n - a : t[i] \in X
    BY <1>1, <1>3, ElementOfSeq, LenProperties
  <2> QED
    BY <1>3, <2>1 DEF Others
<1> HIDE DEF t, u, v, n
<1>5. (n - a) - b = n - (a + b) /\ \A i \in 1..n - (a + b) : b + i \in 1..n - a /\ a + (b + i) = a + b + i
  BY <1>1
<1>6. \A i \in 1..n - (a + b) : t[b + i] = s[a + b + i]
  BY <1>2, <1>5
<1>7. u = v
  BY <1>2, <1>4, <1>5, <1>6, Zenon
<1> QED
  BY <1>7 DEF u, v, t

LEMMA FlattenCut ==
    ASSUME NEW X, NEW ps \in Seq(Seq(X))
    PROVE  \E f : Cuts(X, ps, f)
<1> DEFINE n == Len(ps)
           all == FlattenSeq(ps)
<1>1. PICK f \in [0..n -> Seq(X)] :
             /\ f[0] = <<>>
             /\ \A i \in 1..n : f[i] = f[i - 1] \o ps[i]
             /\ all = f[n]
  BY FlattenSteps
<1>2. n \in Nat /\ \A i \in 1..n : ps[i] \in Seq(X)
  BY LenProperties, ElementOfSeq
<1> HIDE DEF n, all
<1>3. ASSUME NEW i \in 1..n, NEW rest \in Seq(X), all = f[i] \o rest
      PROVE  all = f[i - 1] \o (ps[i] \o rest) /\ ps[i] \o rest \in Seq(X)
  <2>1. f[i - 1] \in Seq(X) /\ ps[i] \in Seq(X)
    BY <1>1, <1>2
  <2>2. Assoc(f[i - 1], ps[i], rest) /\ ps[i] \o rest \in Seq(X)
    BY <2>1, Regroup
  <2>3. f[i] = f[i - 1] \o ps[i]
    BY <1>1
  <2> QED
    BY <1>3, <2>2, <2>3, Zenon DEF Assoc
<1> DEFINE Cut(i) == \E rest \in Seq(X) : all = f[i] \o rest
           S == {k \in 0..n : Cut(n - k)}
<1>4. 0 \in S
  <2>1. <<>> \in Seq(X) /\ f[n] \o <<>> = f[n]
    BY <1>1, <1>2, ConcatEmptySeq
  <2>2. Cut(n)
    BY <1>1, <2>1, Zenon
  <2> HIDE DEF Cut
  <2>3. n - 0 = n /\ 0 \in 0..n
    BY <1>2
  <2> QED
    BY <2>2, <2>3
<1>5. ASSUME NEW k \in 1..n, k - 1 \in S PROVE k \in S
  <2>1. Cut(n - (k - 1)) /\ n - (k - 1) \in 1..n /\ (n - (k - 1)) - 1 = n - k
    <3> HIDE DEF Cut
    <3>1. n - (k - 1) \in 1..n /\ (n - (k - 1)) - 1 = n - k
      BY <1>2
    <3>2. Cut(n - (k - 1))
      BY <1>5
    <3> QED
      BY <3>1, <3>2
  <2>2. Cut(n - k)
    <3> DEFINE i == n - (k - 1)
    <3>1. i \in 1..n /\ Cut(i) /\ i - 1 = n - k
      BY <2>1
    <3> HIDE DEF i
    <3>2. PICK rest \in Seq(X) : all = f[i] \o rest
      BY <3>1
    <3>3. all = f[i - 1] \o (ps[i] \o rest) /\ ps[i] \o rest \in Seq(X)
      BY <1>3, <3>1, <3>2
    <3> QED
      BY <3>1, <3>3, Zenon
  <2> HIDE DEF Cut
  <2>3. k \in 0..n
    BY <1>2
  <2> QED
    BY <2>2, <2>3
<1>6. \A i \in 0..n : Cut(i)
  <2> HIDE DEF Cut
  <2>1. S \in SUBSET (0..n)
    OBVIOUS
  <2>2. \A k \in S : Cut(n - k)
    OBVIOUS
  <2> HIDE DEF S
  <2>3. \A k \in 0..n : k \in S
    BY <1>2, <1>4, <1>5, <2>1, UpTo
  <2>4. \A i \in 0..n : n - i \in 0..n /\ n - (n - i) = i
    BY <1>2
  <2> QED
    BY <2>2, <2>3, <2>4
<1>7. \A i \in 1..n : \E rest \in Seq(X) : all = f[i - 1] \o (ps[i] \o rest)
  <2> TAKE i \in 1..n
  <2>1. i \in 0..n
    OBVIOUS
  <2>2. PICK rest \in Seq(X) : all = f[i] \o rest
    BY <1>6, <2>1
  <2> QED
    BY <1>3, <2>2
<1> QED
  BY <1>1, <1>6, <1>7, Zenon DEF n, all, Cuts

-----------------------------------------------------------------------------
(* Slices that begin with the octets w, and what is read from them.        *)

LEMMA AheadOf ==
    ASSUME NEW s, NEW a \in Seq(Octet), NEW b \in Seq(Octet), Ahead(s, a \o b)
    PROVE  /\ Ahead(s, a) /\ Ahead(From(s, Len(a)), b)
           /\ From(s, Len(a)).len = s.len - Len(a)
<1>1. PICK rest \in Seq(Octet) : s.mem = (a \o b) \o rest
  BY DEF Ahead
<1>2. Len(a \o b) = Len(a) + Len(b) /\ Len(a) \in Nat /\ Len(b) \in Nat
  BY Ends
<1>3. s.mem = a \o (b \o rest) /\ b \o rest \in Seq(Octet)
  <2>1. (a \o b) \o rest = a \o (b \o rest) /\ b \o rest \in Seq(Octet)
    BY ConcatAssociative, ConcatProperties
  <2> QED
    BY <1>1, <2>1, Zenon
<1>4. s.len \in Int /\ Len(a) + Len(b) <= s.len
  <2> DEFINE n == Len(a \o b)
  <2>1. s.len \in Int /\ n <= s.len
    BY Zenon DEF Ahead
  <2>2. n = Len(a) + Len(b)
    BY <1>2
  <2> HIDE DEF n
  <2> QED
    BY <2>1, <2>2
<1>5. Ahead(s, a)
  <2>1. Len(a) <= s.len
    BY <1>2, <1>4
  <2> QED
    BY <1>3, <1>4, <2>1, Zenon DEF Ahead
<1>6. From(s, Len(a)).len = s.len - Len(a) /\ From(s, Len(a)).mem = Others(s.mem, Len(a))
  BY DEF From, Others
<1>7. Others(s.mem, Len(a)) = b \o rest
  <2>1. Others(a \o (b \o rest), Len(a)) = b \o rest
    BY <1>3, Ends
  <2> QED
    BY <1>3, <2>1, Zenon
<1>8. Ahead(From(s, Len(a)), b)
  <2>1. From(s, Len(a)).len \in Int /\ Len(b) <= From(s, Len(a)).len
    BY <1>2, <1>4, <1>6
  <2> QED
    BY <1>6, <1>7, <2>1, Zenon DEF Ahead
<1> QED
  BY <1>5, <1>6, <1>8

\* Values that a layout holds are read as they were written.
LEMMA HeldRead ==
    ASSUME NEW layout, Formal(layout), NEW m, HoldAll(layout, m)
    PROVE  /\ WriteAll(layout, m) \in Seq(Octet) /\ Len(WriteAll(layout, m)) = SizeOf(layout)
           /\ \A s : Ahead(s, WriteAll(layout, m)) =>
                /\ Readable(s, layout)
                /\ ReadAll(s, layout) = [n \in Names(layout) |-> m[n]]
<1>1. Suits(layout, m)
  BY HeldSuits
<1>2. WriteAll(layout, m) \in Seq(Octet) /\ Len(WriteAll(layout, m)) = SizeOf(layout)
  BY <1>1, FieldsWritten
<1>3. ASSUME NEW s, Ahead(s, WriteAll(layout, m))
      PROVE  Readable(s, layout) /\ ReadAll(s, layout) = [n \in Names(layout) |-> m[n]]
  <2>1. Begins(s, layout, m)
    BY <1>2, <1>3, Zenon DEF Begins, Ahead
  <2>2. ReadsBack(s, layout, m)
    BY <1>1, <2>1, FieldsKept
  <2>3. Readable(s, layout) /\ \A n \in Names(layout) : ReadAll(s, layout)[n] = m[n]
    <3>1. \A n \in Names(layout) : \E k \in DOMAIN layout : n = layout[k].name
      BY Zenon DEF Names
    <3> QED
      BY <2>2, <3>1, Zenon DEF ReadsBack
  <2>4. ReadAll(s, layout) = [n \in Names(layout) |-> ReadAll(s, layout)[n]]
    BY DEF ReadAll, Names
  <2> QED
    BY <2>3, <2>4
<1> QED
  BY <1>2, <1>3

-----------------------------------------------------------------------------
(* A list of parameters is read as it was written.                         *)

LEMMA FlattenTwo ==
    ASSUME NEW X, NEW a \in Seq(X), NEW b \in Seq(X)
    PROVE  FlattenSeq(<<a, b>>) = a \o b
<1> DEFINE ps == <<a, b>>
<1>1. ps \in Seq(Seq(X)) /\ Len(ps) = 2 /\ ps[1] = a /\ ps[2] = b
  OBVIOUS
<1> HIDE DEF ps
<1>2. PICK f \in [0..Len(ps) -> Seq(X)] :
             /\ f[0] = <<>>
             /\ \A i \in 1..Len(ps) : f[i] = f[i - 1] \o ps[i]
             /\ FlattenSeq(ps) = f[Len(ps)]
  BY <1>1, FlattenSteps
<1>3. f[1] = f[0] \o a /\ f[2] = f[1] \o b /\ FlattenSeq(ps) = f[2]
  <2>1. 1 \in 1..Len(ps) /\ 2 \in 1..Len(ps) /\ 1 - 1 = 0 /\ 2 - 1 = 1
    BY <1>1
  <2>2. f[1] = f[1 - 1] \o ps[1]
    BY <1>2, <2>1, Zenon
  <2>3. f[2] = f[2 - 1] \o ps[2]
    BY <1>2, <2>1, Zenon
  <2> QED
    BY <1>1, <1>2, <2>1, <2>2, <2>3, Zenon
<1>4. <<>> \o a = a
  BY ConcatEmptySeq
<1>5. FlattenSeq(ps) = a \o b
  BY <1>2, <1>3, <1>4, Zenon
<1> QED
  BY <1>5 DEF ps

LEMMA IdHeld ==
    ASSUME NEW id \in SupportedIds
    PROVE  id = <<id[1], id[2]>> /\ AWord(id[1]) /\ AWord(id[2])
<1>1. id[1] = 0 /\ id = <<id[1], id[2]>>
  BY SupportedAre
<1>2. id[2] \in DoubleWordParams \cup WordParams \cup ByteParams \cup TextParams \cup BCDParams \cup {DsmParam}
  BY Zenon DEF SupportedIds
<1> DEFINE W(n) == n \in Int /\ 0 <= n /\ n <= 65535
<1>3. \A n \in DoubleWordParams \cup WordParams \cup ByteParams : W(n)
  BY DEF DoubleWordParams, WordParams, ByteParams
<1>4. \A n \in TextParams \cup BCDParams \cup {DsmParam} : W(n)
  BY DEF TextParams, BCDParams, DsmParam
<1>5. W(0)
  OBVIOUS
<1>6. \A n : W(n) => AWord(n)
  BY SMT DEF AWord
<1> HIDE DEF W
<1>7. W(id[2])
  BY <1>2, <1>3, <1>4, Zenon
<1>8. AWord(id[2])
  BY <1>6, <1>7, Zenon
<1>9. AWord(0)
  BY <1>5, <1>6, Zenon
<1> QED
  BY <1>1, <1>8, <1>9, Zenon

LEMMA HeadWritten ==
    ASSUME NEW id \in SupportedIds, NEW n \in Octet
    PROVE  /\ HoldAll(ParamHead, HeadOf(id, n))
           /\ WriteAll(ParamHead, HeadOf(id, n)) = WriteDoubleWord(id) \o <<n>>
           /\ [x \in Names(ParamHead) |-> HeadOf(id, n)[x]] = HeadOf(id, n)
<1>1. DOMAIN ParamHead = {1, 2} /\ ParamHead[1] = DoubleWord("ParamID") /\ ParamHead[2] = Byte("ParamLen")
  BY DEF ParamHead
<1>2. /\ DoubleWord("ParamID").name = "ParamID" /\ Byte("ParamLen").name = "ParamLen"
      /\ DoubleWord("ParamID").kind = "dword" /\ Byte("ParamLen").kind = "byte"
  BY DEF DoubleWord, Byte, F
<1>3. HeadOf(id, n).ParamID = id /\ HeadOf(id, n).ParamLen = n
  BY DEF HeadOf
<1>4. HoldAll(ParamHead, HeadOf(id, n))
  <2>1. Holds(DoubleWord("ParamID"), id)
    BY <1>2, IdHeld DEF Holds
  <2>2. Holds(Byte("ParamLen"), n)
    BY <1>2 DEF Holds
  <2>3. ASSUME NEW k \in DOMAIN ParamHead PROVE Holds(ParamHead[k], HeadOf(id, n)[ParamHead[k].name])
    <3>1. CASE k = 1
      BY <1>1, <1>2, <1>3, <2>1, <3>1
    <3>2. CASE k = 2
      BY <1>1, <1>2, <1>3, <2>2, <3>2
    <3> QED
      BY <1>1, <3>1, <3>2
  <2> QED
    BY <2>3, Zenon DEF HoldAll
<1>5. Formal(ParamHead) /\ Names(ParamHead) = {"ParamID", "ParamLen"}
  BY ParamHeadFormal
<1>6. WriteAll(ParamHead, HeadOf(id, n)) = WriteDoubleWord(id) \o <<n>>
  <2>1. Write(DoubleWord("ParamID"), id) = WriteDoubleWord(id) /\ Write(Byte("ParamLen"), n) = <<n>>
    BY <1>2 DEF Write
  <2>2. [k \in DOMAIN ParamHead |-> Write(ParamHead[k], HeadOf(id, n)[ParamHead[k].name])]
          = <<WriteDoubleWord(id), <<n>>>>
    <3> DEFINE g == [k \in DOMAIN ParamHead |-> Write(ParamHead[k], HeadOf(id, n)[ParamHead[k].name])]
    <3>1. g[1] = WriteDoubleWord(id) /\ g[2] = <<n>> /\ DOMAIN g = {1, 2} /\ g = [k \in {1, 2} |-> g[k]]
      BY <1>1, <1>2, <1>3, <2>1
    <3> HIDE DEF g
    <3>2. g = <<WriteDoubleWord(id), <<n>>>>
      BY <3>1
    <3> QED
      BY <3>2 DEF g
  <2>3. WriteDoubleWord(id) \in Seq(Octet) /\ <<n>> \in Seq(Octet)
    <3>1. Holds(DoubleWord("ParamID"), id)
      BY <1>2, IdHeld DEF Holds
    <3>2. Fits(DoubleWord("ParamID"), id)
      <4>1. IsField(DoubleWord("ParamID"))
        BY FieldMade
      <4> QED
        BY <3>1, <4>1, HeldFits
    <3>3. <<n>> \in Seq(Octet)
      OBVIOUS
    <3> QED
      BY <2>1, <3>2, <3>3, Zenon DEF Fits
  <2>4. FlattenSeq(<<WriteDoubleWord(id), <<n>>>>) = WriteDoubleWord(id) \o <<n>>
    BY <2>3, FlattenTwo
  <2> QED
    BY <2>2, <2>4, Zenon DEF WriteAll
<1>7. [x \in Names(ParamHead) |-> HeadOf(id, n)[x]] = HeadOf(id, n)
  BY <1>5 DEF HeadOf
<1> QED
  BY <1>4, <1>6, <1>7

LEMMA ParamWritten ==
    ASSUME NEW p, HoldsParam(p)
    PROVE  /\ ValueOf(p) \in Seq(Octet) /\ Len(ValueOf(p)) \in Octet
           /\ p.id \in SupportedIds /\ HoldAll(ParamLayout(p.id, Len(ValueOf(p))), p.value)
           /\ Formal(ParamLayout(p.id, Len(ValueOf(p))))
           /\ ValueOf(p) = WriteAll(ParamLayout(p.id, Len(ValueOf(p))), p.value)
           /\ p = [id |-> p.id, value |-> [x \in Names(ParamLayout(p.id, Len(ValueOf(p)))) |-> p.value[x]]]
           /\ WriteParam(p) = WriteAll(ParamHead, HeadOf(p.id, Len(ValueOf(p)))) \o ValueOf(p)
<1> DEFINE v == ValueOf(p)
           layout(n) == ParamLayout(p.id, n)
<1>1. /\ p.id \in SupportedIds
      /\ p = [id |-> p.id, value |-> [x \in Names(layout(Len(v))) |-> p.value[x]]]
      /\ HoldAll(layout(Len(v)), p.value)
      /\ Len(v) \in Octet
  BY Zenon DEF HoldsParam, ValueOf, Supported
<1>2. Len(v) \in Nat /\ Len(v) % 256 = Len(v)
  <2>1. \A n \in Octet : n \in Nat /\ n % 256 = n
    BY DEF Octet
  <2> QED
    BY <1>1, <2>1, Zenon
<1>3. \A n \in Nat : Formal(layout(n)) /\ WriteAll(layout(n), p.value) = v
  BY <1>1, ParamFormal, Zenon DEF ValueOf
<1>4. v \in Seq(Octet)
  <2>1. WriteAll(layout(Len(v)), p.value) \in Seq(Octet)
    BY <1>1, <1>2, <1>3, HeldRead
  <2> QED
    BY <1>2, <1>3, <2>1, Zenon
<1>5. WriteParam(p) = WriteAll(ParamHead, HeadOf(p.id, Len(v))) \o v
  <2>1. WriteParam(p) = WriteDoubleWord(p.id) \o <<Len(v) % 256>> \o v
    BY Zenon DEF WriteParam, ValueOf
  <2> HIDE DEF v
  <2>2. WriteParam(p) = (WriteDoubleWord(p.id) \o <<Len(v)>>) \o v
    BY <1>2, <2>1, Zenon
  <2>3. WriteAll(ParamHead, HeadOf(p.id, Len(v))) = WriteDoubleWord(p.id) \o <<Len(v)>>
    BY <1>1, HeadWritten
  <2> QED
    BY <2>2, <2>3, Zenon
<1> HIDE DEF v
<1> QED
  BY <1>1, <1>2, <1>3, <1>4, <1>5, Zenon DEF v

LEMMA ParamRead ==
    ASSUME NEW s, NEW i \in Nat, NEW ps, NEW p, HoldsParam(p), Ahead(From(s, i), WriteParam(p))
    PROVE  /\ ReadParam(s, [panic |-> FALSE, idx |-> i, params |-> ps])
                = [panic |-> FALSE, idx |-> i + Len(WriteParam(p)), params |-> Append(ps, p)]
           /\ WriteParam(p) \in Seq(Octet)
<1> DEFINE v == ValueOf(p)
           n == Len(v)
           head == HeadOf(p.id, n)
           w == WriteAll(ParamHead, head)
           layout == ParamLayout(p.id, n)
           at == From(s, i)
           value == From(at, SizeOf(ParamHead))
           r == [panic |-> FALSE, idx |-> i, params |-> ps]
           e == [id |-> p.id, value |-> ReadAll(value, layout)]
<1>1. /\ v \in Seq(Octet) /\ n \in Octet /\ p.id \in SupportedIds
      /\ HoldAll(layout, p.value) /\ Formal(layout) /\ v = WriteAll(layout, p.value)
      /\ p = [id |-> p.id, value |-> [x \in Names(layout) |-> p.value[x]]]
      /\ WriteParam(p) = w \o v
  BY ParamWritten, Zenon
<1>2. /\ HoldAll(ParamHead, head) /\ Formal(ParamHead)
      /\ [x \in Names(ParamHead) |-> head[x]] = head
      /\ head.ParamID = p.id /\ head.ParamLen = n
  <2> HIDE DEF n
  <2>1. head.ParamID = p.id /\ head.ParamLen = n
    BY DEF HeadOf
  <2> QED
    BY <1>1, <2>1, HeadWritten, ParamHeadFormal
<1> HIDE DEF v, n, head, layout
<1>3. /\ w \in Seq(Octet) /\ Len(w) = SizeOf(ParamHead)
      /\ \A t : Ahead(t, w) => Readable(t, ParamHead) /\ ReadAll(t, ParamHead) = head
  <2>1. /\ w \in Seq(Octet) /\ Len(w) = SizeOf(ParamHead)
        /\ \A t : Ahead(t, w) =>
              /\ Readable(t, ParamHead)
              /\ ReadAll(t, ParamHead) = [x \in Names(ParamHead) |-> head[x]]
    BY <1>2, HeldRead
  <2> QED
    BY <1>2, <2>1, Zenon
<1>4. /\ Len(v) = SizeOf(layout)
      /\ \A t : Ahead(t, v) =>
            /\ Readable(t, layout)
            /\ ReadAll(t, layout) = [x \in Names(layout) |-> p.value[x]]
  <2>1. /\ Len(WriteAll(layout, p.value)) = SizeOf(layout)
        /\ \A t : Ahead(t, WriteAll(layout, p.value)) =>
              /\ Readable(t, layout)
              /\ ReadAll(t, layout) = [x \in Names(layout) |-> p.value[x]]
    BY <1>1, HeldRead
  <2> QED
    BY <1>1, <2>1, Zenon
<1> HIDE DEF w
<1>5. Ahead(at, w) /\ Ahead(value, v)
  <2>1. Ahead(at, w \o v)
    BY <1>1, Zenon
  <2>2. Ahead(at, w) /\ Ahead(From(at, Len(w)), v)
    BY <1>1, <1>3, <2>1, AheadOf
  <2> QED
    BY <1>3, <2>2, Zenon
<1>6. /\ Readable(at, ParamHead) /\ ReadAll(at, ParamHead) = head
      /\ Readable(value, layout) /\ ReadAll(value, layout) = [x \in Names(layout) |-> p.value[x]]
  BY <1>3, <1>4, <1>5, Zenon
<1>7. e = p
  BY <1>1, <1>6, Zenon
<1>8. i + SizeOf(ParamHead) + SizeOf(layout) = i + Len(WriteParam(p)) /\ WriteParam(p) \in Seq(Octet)
  <2>1. Len(w \o v) = Len(w) + Len(v) /\ Len(w) \in Nat /\ Len(v) \in Nat /\ w \o v \in Seq(Octet)
    BY <1>1, <1>3, Ends
  <2>2. Len(WriteParam(p)) = SizeOf(ParamHead) + SizeOf(layout)
        /\ SizeOf(ParamHead) \in Nat /\ SizeOf(layout) \in Nat
    BY <1>1, <1>3, <1>4, <2>1, Zenon
  <2> QED
    BY <1>1, <2>1, <2>2
<1>9. ReadParam(s, r) = [panic |-> FALSE, idx |-> i + SizeOf(ParamHead) + SizeOf(layout), params |-> Append(ps, e)]
  <2>1. r.idx = i /\ r.params = ps /\ r.panic = FALSE
    OBVIOUS
  <2> HIDE DEF r, e
  <2>2. LET hd == ReadAll(From(s, r.idx), ParamHead)
            lay == ParamLayout(hd.ParamID, hd.ParamLen)
            val == From(From(s, r.idx), SizeOf(ParamHead))
        IN /\ ~(r.panic \/ ~Readable(From(s, r.idx), ParamHead))
           /\ ~(~Supported(hd.ParamID) \/ ~Readable(val, lay))
           /\ [id |-> hd.ParamID, value |-> ReadAll(val, lay)] = e
           /\ lay = layout
    BY <1>1, <1>2, <1>6, <2>1, Zenon DEF Supported, layout, e
  <2>3. ReadParam(s, r) = [panic |-> FALSE, idx |-> r.idx + SizeOf(ParamHead) + SizeOf(layout),
                           params |-> Append(r.params, e)]
    BY <2>2, Zenon DEF ReadParam
  <2> QED
    BY <2>1, <2>3, Zenon
<1> QED
  BY <1>7, <1>8, <1>9, Zenon

LEMMA ListWritten ==
    ASSUME NEW list, HoldsParams(list)
    PROVE  /\ Len(list) \in Octet /\ DOMAIN list = 1..Len(list)
           /\ [k \in DOMAIN list |-> WriteParam(list[k])] \in Seq(Seq(Octet))
           /\ Len([k \in DOMAIN list |-> WriteParam(list[k])]) = Len(list)
           /\ ListOctets(list) \in Seq(Octet)
           /\ WriteParams(list) = <<Len(list)>> \o ListOctets(list)
<1> DEFINE ps == [k \in DOMAIN list |-> WriteParam(list[k])]
           n == Len(list)
<1>1. list \in Seq(Range(list)) /\ n < 2^8 /\ \A k \in DOMAIN list : HoldsParam(list[k])
  BY Zenon DEF HoldsParams
<1>2. n \in Nat /\ DOMAIN list = 1..n
  BY <1>1, LenProperties
<1>3. n \in Octet /\ n % 256 = n
  <2> HIDE DEF n
  <2> QED
    BY <1>1, <1>2 DEF Octet
<1>4. \A k \in DOMAIN list : WriteParam(list[k]) \in Seq(Octet) /\ Supported(list[k].id)
  <2> SUFFICES ASSUME NEW k \in DOMAIN list
               PROVE  WriteParam(list[k]) \in Seq(Octet) /\ Supported(list[k].id)
    OBVIOUS
  <2> DEFINE p == list[k]
  <2>1. HoldsParam(p)
    BY <1>1
  <2> HIDE DEF p
  <2>2. /\ ValueOf(p) \in Seq(Octet) /\ p.id \in SupportedIds /\ Len(ValueOf(p)) \in Octet
        /\ WriteParam(p) = WriteAll(ParamHead, HeadOf(p.id, Len(ValueOf(p)))) \o ValueOf(p)
    BY <2>1, ParamWritten, Zenon
  <2>3. WriteAll(ParamHead, HeadOf(p.id, Len(ValueOf(p)))) \in Seq(Octet)
    BY <2>2, HeadWritten, ParamHeadFormal, HeldRead, Zenon
  <2>4. WriteParam(p) \in Seq(Octet)
    BY <2>2, <2>3, ConcatProperties, Zenon
  <2> QED
    BY <2>2, <2>4, Zenon DEF Supported, p
<1>5. ps \in [1..n -> Seq(Octet)]
  BY <1>2, <1>4, Zenon
<1>6. ps \in Seq(Seq(Octet)) /\ Len(ps) = n
  <2> HIDE DEF ps, n
  <2> QED
    BY <1>2, <1>5
<1>7. ListOctets(list) \in Seq(Octet)
  <2>1. FlattenSeq(ps) \in Seq(Octet)
    <3> HIDE DEF ps
    <3>1. PICK f \in [0..Len(ps) -> Seq(Octet)] : FlattenSeq(ps) = f[Len(ps)]
      BY <1>6, FlattenSteps
    <3>2. Len(ps) \in 0..Len(ps)
      BY <1>2, <1>6
    <3> QED
      BY <3>1, <3>2
  <2> QED
    BY <2>1, Zenon DEF ListOctets
<1>8. WriteParams(list) = <<n>> \o ListOctets(list)
  <2>1. ps = [k \in DOMAIN list |-> IF Supported(list[k].id) THEN WriteParam(list[k]) ELSE <<>>]
    BY <1>4, Zenon
  <2> HIDE DEF ps
  <2>2. WriteParams(list) = <<n % 256>> \o FlattenSeq(ps)
    BY <2>1, Zenon DEF WriteParams
  <2> QED
    BY <1>3, <2>2, Zenon DEF ListOctets, ps
<1> QED
  BY <1>2, <1>3, <1>6, <1>7, <1>8

\* A list of parameters that is ahead is read as it is.
LEMMA ListRead ==
    ASSUME NEW list, HoldsParams(list), NEW s, Ahead(s, ListOctets(list))
    PROVE  ReadParams(s, Len(list)) = [panic |-> FALSE, idx |-> Len(ListOctets(list)), params |-> list]
<1> DEFINE ps == [k \in DOMAIN list |-> WriteParam(list[k])]
           n == Len(list)
           all == ListOctets(list)
<1>1. /\ n \in Nat /\ DOMAIN list = 1..n /\ ps \in Seq(Seq(Octet)) /\ Len(ps) = n
      /\ \A k \in 1..n : ps[k] = WriteParam(list[k])
      /\ \A k \in 1..n : HoldsParam(list[k])
      /\ list \in Seq(Range(list)) /\ all = FlattenSeq(ps)
  <2>1. \A x \in Octet : x \in Nat
    BY DEF Octet
  <2> QED
    BY <2>1, ListWritten, Zenon DEF HoldsParams, ListOctets
<1>2. Ahead(s, all)
  OBVIOUS
<1> HIDE DEF ps, all
<1> PICK f : Cuts(Octet, ps, f)
  <2>1. ps \in Seq(Seq(Octet))
    BY <1>1
  <2> QED
    BY <2>1, FlattenCut
<1>3. /\ f \in [0..Len(ps) -> Seq(Octet)] /\ f[0] = <<>>
      /\ \A i \in 1..Len(ps) : f[i] = f[i - 1] \o ps[i]
      /\ FlattenSeq(ps) = f[Len(ps)]
      /\ \A i \in 1..Len(ps) : \E rest \in Seq(Octet) :
             FlattenSeq(ps) = f[i - 1] \o (ps[i] \o rest)
  BY Zenon DEF Cuts
<1>4. PICK g : ReadSteps(s, n, g) /\ ReadParams(s, n) = g[n]
  BY <1>1, ReadParamsIs
<1> HIDE DEF n
<1> DEFINE At(i) == [panic |-> FALSE, idx |-> Len(f[i]), params |-> SubSeq(list, 1, i)]
           S == {i \in 0..n : g[i] = At(i)}
<1>5. 0 \in S
  <2>1. SubSeq(list, 1, 0) = <<>> /\ Len(f[0]) = 0 /\ 0 \in 0..n
    BY <1>1, <1>3
  <2>2. g[0] = NothingRead
    BY <1>4 DEF ReadSteps
  <2> QED
    BY <2>1, <2>2 DEF NothingRead
<1>6. ASSUME NEW i \in 1..n, i - 1 \in S PROVE i \in S
  <2> DEFINE a == f[i - 1]
             p == list[i]
  <2>1. PICK rest \in Seq(Octet) : all = a \o (ps[i] \o rest)
    BY <1>1, <1>3
  <2>2. a \in Seq(Octet) /\ ps[i] \in Seq(Octet) /\ f[i] = a \o ps[i] /\ i - 1 \in 0..n /\ i \in 0..n
    <3>1. i - 1 \in 0..n /\ i \in 0..n /\ i \in 1..Len(ps)
      BY <1>1
    <3>2. f[i - 1] \in Seq(Octet)
      BY <1>1, <1>3, <3>1, Zenon
    <3>3. ps[i] \in Seq(Octet)
      BY <1>1, <3>1, ElementOfSeq
    <3> QED
      BY <1>3, <3>1, <3>2, <3>3, Zenon
  <2>3. HoldsParam(p) /\ ps[i] = WriteParam(p)
    BY <1>1
  <2> HIDE DEF a, p
  <2>4. Len(a) \in Nat /\ Len(ps[i]) \in Nat /\ Len(f[i]) = Len(a) + Len(ps[i]) /\ ps[i] \o rest \in Seq(Octet)
    BY <2>2, Ends
  <2>5. Ahead(From(s, Len(a)), ps[i])
    <3>1. Ahead(s, a \o (ps[i] \o rest))
      BY <1>2, <2>1, Zenon
    <3>2. Ahead(From(s, Len(a)), ps[i] \o rest)
      BY <2>2, <2>4, <3>1, AheadOf
    <3> QED
      BY <2>2, <3>2, AheadOf
  <2>6. g[i] = ReadParam(s, g[i - 1])
    BY <1>4 DEF ReadSteps
  <2>7. g[i - 1] = [panic |-> FALSE, idx |-> Len(a), params |-> SubSeq(list, 1, i - 1)]
    BY <1>6 DEF a
  <2>8. g[i] = [panic |-> FALSE, idx |-> Len(a) + Len(ps[i]), params |-> Append(SubSeq(list, 1, i - 1), p)]
    <3>1. \A qs : ReadParam(s, [panic |-> FALSE, idx |-> Len(a), params |-> qs])
                    = [panic |-> FALSE, idx |-> Len(a) + Len(WriteParam(p)), params |-> Append(qs, p)]
      <4> SUFFICES ASSUME NEW qs
                   PROVE ReadParam(s, [panic |-> FALSE, idx |-> Len(a), params |-> qs])
                           = [panic |-> FALSE, idx |-> Len(a) + Len(WriteParam(p)), params |-> Append(qs, p)]
        OBVIOUS
      <4>1. Ahead(From(s, Len(a)), WriteParam(p))
        BY <2>3, <2>5, Zenon
      <4> QED
        <5> DEFINE k == Len(a)
        <5>1. HoldsParam(p) /\ Ahead(From(s, k), WriteParam(p)) /\ k \in Nat
          BY <2>3, <2>4, <4>1
        <5> HIDE DEF k
        <5>2. ReadParam(s, [panic |-> FALSE, idx |-> k, params |-> qs])
                = [panic |-> FALSE, idx |-> k + Len(WriteParam(p)), params |-> Append(qs, p)]
          BY <5>1, ParamRead
        <5> QED
          BY <5>2 DEF k
    <3> QED
      BY <2>3, <2>6, <2>7, <3>1, Zenon
  <2>9. Append(SubSeq(list, 1, i - 1), p) = SubSeq(list, 1, i)
    BY <1>1, <2>2 DEF p
  <2> QED
    BY <2>2, <2>4, <2>8, <2>9, Zenon
<1>7. S \in SUBSET (0..n)
  OBVIOUS
<1> HIDE DEF S
<1>8. n \in S
  <2>1. \A i \in 0..n : i \in S
    BY <1>1, <1>5, <1>6, <1>7, UpTo
  <2>2. n \in 0..n
    BY <1>1
  <2> QED
    BY <2>1, <2>2
<1>9. SubSeq(list, 1, n) = list
  BY <1>1 DEF n
<1> QED
  <2>1. g[n] = [panic |-> FALSE, idx |-> Len(f[n]), params |-> SubSeq(list, 1, n)]
    BY <1>8 DEF S
  <2>2. f[n] = all
    BY <1>1, <1>3, Zenon
  <2>3. ReadParams(s, n) = [panic |-> FALSE, idx |-> Len(all), params |-> list]
    BY <1>4, <1>9, <2>1, <2>2, Zenon
  <2> QED
    BY <2>3, Zenon DEF n, all

-----------------------------------------------------------------------------
(* The further items of a report are read as they were written.            *)

LEMMA Middle ==
    ASSUME NEW X, NEW a \in Seq(X), NEW b \in Seq(X), NEW c \in Seq(X), NEW s, a \o (b \o c) = s
    PROVE  StandsIn(X, a, b, c, s)
<1> DEFINE t == b \o c
           k == Len(a)
           n == Len(b)
<1>1. /\ t \in Seq(X) /\ Len(t) = n + Len(c) /\ \A j \in 1..n : t[j] = b[j]
  BY Behind
<1>2. k \in Nat /\ n \in Nat /\ Len(c) \in Nat
  BY LenProperties
<1>3. s = a \o t
  OBVIOUS
<1> HIDE DEF t
<1>4. s \in Seq(X) /\ Len(s) = k + Len(t) /\ \A j \in 1..Len(t) : s[k + j] = t[j]
  <2>1. t \in Seq(X) /\ s = a \o t
    BY <1>1, <1>3
  <2> QED
    BY <2>1, Behind
<1>5. \A j \in 1..n : s[k + j] = b[j]
  <2> TAKE j \in 1..n
  <2> HIDE DEF k, n
  <2>1. j \in 1..Len(t)
    BY <1>1, <1>2
  <2> QED
    BY <1>1, <1>4, <2>1, Zenon
<1> DEFINE d == SubSeq(s, k + 1, k + n)
<1>6. d = b
  <2>1. k + n <= Len(s) /\ Len(s) \in Nat
    BY <1>1, <1>2, <1>4
  <2>2. \A i \in k + 1..k + n : s[i] \in X
    <3>1. \A i \in 1..Len(s) : s[i] \in X
      BY <1>4, ElementOfSeq
    <3> HIDE DEF k, n
    <3> QED
      BY <1>2, <2>1, <3>1
  <2> HIDE DEF k, n
  <2>3. d \in Seq(X) /\ Len(d) = n /\ \A i \in 1..n : d[i] = s[k + i]
    <3>1. /\ SubSeq(s, k + 1, k + n) \in Seq(X)
          /\ Len(SubSeq(s, k + 1, k + n)) = IF k + 1 <= k + n THEN (k + n) - (k + 1) + 1 ELSE 0
          /\ \A i \in 1..(k + n) - (k + 1) + 1 : SubSeq(s, k + 1, k + n)[i] = s[(k + 1) + i - 1]
      <4> DEFINE lo == k + 1
                 hi == k + n
      <4>1. lo \in Int /\ hi \in Int /\ \A i \in lo..hi : s[i] \in X
        BY <1>2, <2>2
      <4> HIDE DEF lo, hi
      <4>2. /\ SubSeq(s, lo, hi) \in Seq(X)
            /\ Len(SubSeq(s, lo, hi)) = IF lo <= hi THEN hi - lo + 1 ELSE 0
            /\ \A i \in 1..hi - lo + 1 : SubSeq(s, lo, hi)[i] = s[lo + i - 1]
        BY <4>1, SubSeqProperties
      <4> QED
        BY <4>2, Zenon DEF lo, hi
    <3>2. (k + n) - (k + 1) + 1 = n /\ (k + 1 <= k + n <=> n # 0) /\ \A i \in 1..n : (k + 1) + i - 1 = k + i
      BY <1>2
    <3>3. Len(d) = n
      BY <3>1, <3>2
    <3>4. ASSUME NEW i \in 1..n PROVE d[i] = s[k + i]
      <4>1. d[i] = s[(k + 1) + i - 1]
        BY <3>1, <3>2
      <4>2. (k + 1) + i - 1 = k + i
        BY <3>2
      <4> QED
        BY <4>1, <4>2, Zenon
    <3> QED
      BY <3>1, <3>3, <3>4
  <2>4. Len(b) = n
    BY DEF n
  <2> HIDE DEF d
  <2>5. \A i \in 1..n : d[i] = b[i]
    BY <1>5, <2>3, Zenon
  <2> QED
    BY <2>3, <2>4, <2>5, SeqEqual
<1>7. Len(s) = k + n + Len(c)
  <2>1. Len(t) = n + Len(c) /\ Len(s) = k + Len(t)
    BY <1>1, <1>4
  <2> HIDE DEF k, n
  <2> QED
    BY <1>2, <2>1
<1> HIDE DEF d
<1> QED
  BY <1>2, <1>4, <1>5, <1>6, <1>7, Zenon DEF StandsIn, d

LEMMA ExtrasAre ==
    ASSUME NEW s, NEW h
    PROVE  ReadExtras(s, h) = (CHOOSE f : ItemsRead(s, h, f))[SizeOf(Position)]
BY Zenon DEF ReadExtras, ItemsRead, ReadItem, ItemEnd, ItemsOf

\* Each way an item is read
LEMMA ItemCases ==
    ASSUME NEW s, NEW h, NEW i \in Nat, NEW v, s.len \in Int
    PROVE  /\ i >= s.len => ReadItem(s, h, v, i) = ItemsOf(FALSE)
           /\ i = s.len - 1 => ReadItem(s, h, v, i) = ItemsOf(TRUE)
           /\ i < s.len - 1 /\ (s.mem[i + 1] = 0 \/ ItemEnd(s, i) > h.BodyLength)
                => ReadItem(s, h, v, i) = ItemsOf(FALSE)
           /\ i < s.len - 1 /\ ~(s.mem[i + 1] = 0 \/ ItemEnd(s, i) > h.BodyLength)
                => /\ ItemEnd(s, i) > Len(s.mem) => ReadItem(s, h, v, i) = ItemsOf(TRUE)
                   /\ /\ ~(ItemEnd(s, i) > Len(s.mem))
                      /\ ~(s.mem[i + 1] = ExtraIdAiDSM /\ s.mem[i + 2] < SizeOf(DsmAlarm))
                      => ItemTaken(s, h, v, i)
<1> DEFINE A == i >= s.len
           B == i = s.len - 1
           C == i < s.len - 1
           D == s.mem[i + 1] = 0 \/ ItemEnd(s, i) > h.BodyLength
           r == ReadItem(s, h, v, i)
           x == [v EXCEPT !.extras =
                   <<ExtraItem(s.mem[i + 1], SubSeq(s.mem, i + 3, ItemEnd(s, i)))>> \o @]
           G == ItemEnd(s, i) > Len(s.mem)
           H == s.mem[i + 1] = ExtraIdAiDSM /\ s.mem[i + 2] < SizeOf(DsmAlarm)
<1>1. (A => ~B /\ ~C) /\ (B => ~A /\ ~C) /\ (C => ~A /\ ~B)
  OBVIOUS
<1>2. r = CASE A -> ItemsOf(FALSE) [] B -> ItemsOf(TRUE) [] C /\ D -> ItemsOf(FALSE)
            [] OTHER -> IF G THEN ItemsOf(TRUE) ELSE IF H THEN v ELSE x
  BY Zenon DEF ReadItem
<1> HIDE DEF A, B, C, D, r, x, G, H
<1>3. /\ A => r = ItemsOf(FALSE)
      /\ B => r = ItemsOf(TRUE)
      /\ C /\ D => r = ItemsOf(FALSE)
      /\ C /\ ~D => (G => r = ItemsOf(TRUE)) /\ (~G /\ ~H => r = x)
  BY <1>1, <1>2, Zenon
<1> QED
  BY <1>3, Zenon DEF A, B, C, D, r, x, G, H, ItemTaken

\* The last item is read without what is behind it.
LEMMA LastItem ==
    ASSUME NEW s, NEW h, NEW i \in Nat, s.len \in Int, NEW v, NEW w,
           i + 2 > s.len \/ ItemEnd(s, i) > Len(s.mem)
    PROVE  ReadItem(s, h, v, i) = ReadItem(s, h, w, i)
<1> DEFINE A == i >= s.len
           B == i = s.len - 1
           C == i < s.len - 1
           D == s.mem[i + 1] = 0 \/ ItemEnd(s, i) > h.BodyLength
           G == ItemEnd(s, i) > Len(s.mem)
<1>1. A \/ B \/ (C /\ G)
  BY SMT
<1> DEFINE Is(x) == /\ A => ReadItem(s, h, x, i) = ItemsOf(FALSE)
                    /\ B => ReadItem(s, h, x, i) = ItemsOf(TRUE)
                    /\ C /\ D => ReadItem(s, h, x, i) = ItemsOf(FALSE)
                    /\ C /\ ~D => (G => ReadItem(s, h, x, i) = ItemsOf(TRUE))
<1>2. Is(v)
  BY ItemCases
<1>3. Is(w)
  BY ItemCases
<1> HIDE DEF A, B, C, D, G
<1> QED
  BY <1>1, <1>2, <1>3, Zenon

LEMMA ItemsExist ==
    ASSUME NEW s, NEW h, s.mem \in Seq(Octet), s.len \in Int, s.len <= Len(s.mem)
    PROVE  \E f : ItemsRead(s, h, f)
<1> DEFINE n == Len(s.mem)
           S == {k \in 0..n + 1 : \E g : LaterItems(s, h, n + 1 - k, g)}
<1>1. n \in Nat /\ n + 1 \in Nat
  BY LenProperties
<1>2. \A i \in 0..n : i + 2 <= s.len => ItemEnd(s, i) \in Nat /\ ItemEnd(s, i) >= i + 2
  <2> SUFFICES ASSUME NEW i \in 0..n, i + 2 <= s.len
               PROVE  ItemEnd(s, i) \in Nat /\ ItemEnd(s, i) >= i + 2
    OBVIOUS
  <2>1. i + 2 \in 1..n /\ i \in Nat
    BY <1>1
  <2> HIDE DEF n
  <2>2. s.mem[i + 2] \in Octet
    BY <2>1, ElementOfSeq DEF n
  <2>3. \A x \in Octet : i + 2 + x \in Nat /\ i + 2 + x >= i + 2
    BY <2>1 DEF Octet
  <2> QED
    BY <2>2, <2>3, Zenon DEF ItemEnd
<1>3. ASSUME NEW f, NEW g, NEW i \in 0..n,
             ItemEnd(s, i) \in i + 1..n => f[ItemEnd(s, i)] = g[ItemEnd(s, i)]
      PROVE  ReadItem(s, h, f[ItemEnd(s, i)], i) = ReadItem(s, h, g[ItemEnd(s, i)], i)
  <2> DEFINE e == ItemEnd(s, i)
  <2>1. i \in Nat
    BY <1>1
  <2>2. CASE e \in i + 1..n
    BY <1>3, <2>2, Zenon
  <2>3. CASE ~(e \in i + 1..n)
    <3>1. i + 2 > s.len \/ e > n
      <4>1. i + 2 <= s.len => e \in Nat /\ e >= i + 2
        BY <1>2
      <4> HIDE DEF e, n
      <4> QED
        BY <1>1, <2>1, <2>3, <4>1
    <3> HIDE DEF e
    <3>2. i + 2 > s.len \/ ItemEnd(s, i) > Len(s.mem)
      BY <3>1, Zenon DEF e, n
    <3> QED
      BY <2>1, <3>2, LastItem
  <2> QED
    BY <2>2, <2>3
<1> HIDE DEF n
<1>4. 0 \in S
  <2> DEFINE g == [i \in n + 1..n |-> 0]
  <2>1. \A i \in n + 1..n : FALSE
    BY <1>1
  <2>2. LaterItems(s, h, n + 1 - 0, g)
    <3>1. n + 1 - 0 = n + 1
      BY <1>1
    <3>2. DOMAIN g = n + 1..n
      OBVIOUS
    <3> HIDE DEF g
    <3> QED
      BY <2>1, <3>1, <3>2, Zenon DEF LaterItems, n
  <2> HIDE DEF g
  <2> QED
    BY <1>1, <2>2
<1>5. ASSUME NEW k \in 1..n + 1, k - 1 \in S PROVE k \in S
  <2> DEFINE a == n + 1 - k
             b == n + 1 - (k - 1)
  <2>1. b = a + 1 /\ a \in 0..n /\ k \in 0..n + 1
    BY <1>1
  <2>2. PICK g : LaterItems(s, h, b, g)
    BY <1>5
  <2> HIDE DEF a, b
  <2> DEFINE f == [i \in a..n |-> IF i = a THEN ReadItem(s, h, g[ItemEnd(s, a)], a) ELSE g[i]]
  <2>3. \A i \in a..n : i \in 0..n /\ (i # a => i \in b..n)
    BY <1>1, <2>1
  <2>4. ASSUME NEW i \in a..n PROVE f[i] = ReadItem(s, h, g[ItemEnd(s, i)], i)
    <3>1. CASE i = a
      BY <3>1, Zenon
    <3>2. CASE i # a
      <4>1. g[i] = ReadItem(s, h, g[ItemEnd(s, i)], i)
        BY <2>2, <2>3, <3>2, Zenon DEF LaterItems, n
      <4> QED
        BY <3>2, <4>1, Zenon
    <3> QED
      BY <3>1, <3>2
  <2>5. ASSUME NEW i \in a..n PROVE f[i] = ReadItem(s, h, f[ItemEnd(s, i)], i)
    <3> DEFINE e == ItemEnd(s, i)
    <3>1. e \in i + 1..n => f[e] = g[e]
      <4> HIDE DEF e
      <4>1. e \in i + 1..n => e \in a..n /\ e # a
        BY <1>1, <2>1
      <4> QED
        BY <4>1, Zenon
    <3> HIDE DEF f
    <3>2. ReadItem(s, h, f[ItemEnd(s, i)], i) = ReadItem(s, h, g[ItemEnd(s, i)], i)
      BY <1>3, <2>3, <3>1, Zenon
    <3> QED
      BY <2>4, <3>2, Zenon
  <2>6. DOMAIN f = a..n
    OBVIOUS
  <2> HIDE DEF f
  <2>7. LaterItems(s, h, a, f)
    BY <2>5, <2>6, Zenon DEF LaterItems, n
  <2> QED
    BY <2>1, <2>7, Zenon DEF a
<1>6. \E g : LaterItems(s, h, 0, g)
  <2>1. S \in SUBSET (0..n + 1)
    OBVIOUS
  <2>2. n + 1 \in S
    <3> HIDE DEF S
    <3>1. \A i \in 0..n + 1 : i \in S
      BY <1>1, <1>4, <1>5, <2>1, UpTo
    <3>2. n + 1 \in 0..n + 1
      BY <1>1
    <3> QED
      BY <3>1, <3>2
  <2>3. n + 1 - (n + 1) = 0
    BY <1>1
  <2> QED
    BY <2>2, <2>3
<1>7. PICK g : LaterItems(s, h, 0, g)
  BY <1>6
<1> DEFINE f == [i \in 0..n |-> g[i]]
<1>8. ASSUME NEW i \in 0..n PROVE g[i] = ReadItem(s, h, f[ItemEnd(s, i)], i)
  <2> DEFINE e == ItemEnd(s, i)
  <2>1. g[i] = ReadItem(s, h, g[ItemEnd(s, i)], i)
    BY <1>7, Zenon DEF LaterItems, n
  <2>2. e \in i + 1..n => f[e] = g[e]
    <3> HIDE DEF e
    <3>1. e \in i + 1..n => e \in 0..n
      BY <1>1
    <3> QED
      BY <3>1, Zenon
  <2> HIDE DEF f
  <2>3. ReadItem(s, h, f[ItemEnd(s, i)], i) = ReadItem(s, h, g[ItemEnd(s, i)], i)
    BY <1>3, <2>2, Zenon
  <2> QED
    BY <2>1, <2>3, Zenon
<1>9. f = [i \in 0..n |-> ReadItem(s, h, f[ItemEnd(s, i)], i)]
  BY <1>8, Zenon
<1> QED
  BY <1>9, Zenon DEF ItemsRead, n

\* The reading of the items from any octet on
LEMMA ItemsAre ==
    ASSUME NEW s, NEW h, s.mem \in Seq(Octet), s.len \in Int, s.len <= Len(s.mem)
    PROVE  \E f : /\ ReadExtras(s, h) = f[SizeOf(Position)]
                  /\ \A i \in 0..Len(s.mem) : f[i] = ReadItem(s, h, f[ItemEnd(s, i)], i)
<1> DEFINE f == CHOOSE f : ItemsRead(s, h, f)
<1>1. ItemsRead(s, h, f)
  BY ItemsExist, Zenon
<1>2. ReadExtras(s, h) = f[SizeOf(Position)]
  BY ExtrasAre
<1> HIDE DEF f
<1>3. \A i \in 0..Len(s.mem) : f[i] = ReadItem(s, h, f[ItemEnd(s, i)], i)
  <2>1. f = [i \in 0..Len(s.mem) |-> ReadItem(s, h, f[ItemEnd(s, i)], i)]
    BY <1>1 DEF ItemsRead
  <2> QED
    BY <2>1, Zenon
<1> QED
  BY <1>2, <1>3, Zenon

LEMMA ItemWritten ==
    ASSUME NEW x, HoldsExtra(x)
    PROVE  /\ x.id \in Octet /\ x.id # 0 /\ Len(x.octets) \in Octet /\ x.octets \in Seq(Octet)
           /\ x.id = ExtraIdAiDSM => ~(Len(x.octets) < SizeOf(DsmAlarm))
           /\ x = ExtraItem(x.id, x.octets)
           /\ WriteItem(x) \in Seq(Octet) /\ Len(WriteItem(x)) = 2 + Len(x.octets)
<1> DEFINE o == x.octets
           n == Len(o)
           d == x.id
           p == <<d, n>>
<1>1. d \in 1..255 /\ o \in Seq(Octet) /\ n < 2^8
  BY Zenon DEF HoldsExtra
<1>2. (x.id = ExtraIdAiDSM => n >= SizeOf(DsmAlarm)) /\ x = ExtraItem(x.id, x.octets)
  BY Zenon DEF HoldsExtra
<1>3. n \in Nat
  BY <1>1, LenProperties
<1>4. SizeOf(DsmAlarm) \in Nat
  <2>1. Formal(DsmAlarm)
    BY DsmAlarmFormal
  <2>2. PICK X : DsmAlarm \in Seq(X) /\ \A d1 \in X : d1.size \in Nat
    BY <2>1, FormalFacts
  <2> QED
    BY <2>2, SizeBehind
<1> HIDE DEF o, n, d
<1>5. d \in Octet /\ d # 0 /\ n \in Octet
  BY <1>1, <1>3 DEF Octet
<1>6. p \in Seq(Octet) /\ Len(p) = 2
  BY <1>5
<1> HIDE DEF p
<1>7. p \o o \in Seq(Octet) /\ Len(p \o o) = 2 + n
  <2>1. p \o o \in Seq(Octet) /\ Len(p \o o) = Len(p) + Len(o)
    BY <1>1, <1>6, Ends
  <2> QED
    BY <1>6, <2>1 DEF n
<1>8. ~(n < SizeOf(DsmAlarm)) <=> n >= SizeOf(DsmAlarm)
  BY <1>3, <1>4
<1> QED
  BY <1>1, <1>2, <1>5, <1>7, <1>8, Zenon DEF o, n, d, p, WriteItem

LEMMA RegroupFour ==
    ASSUME NEW X, NEW a \in Seq(X), NEW b \in Seq(X), NEW c \in Seq(X), NEW d \in Seq(X)
    PROVE  AssocFour(a, b, c, d) /\ a \o b \in Seq(X)
<1> DEFINE e == c \o d
<1>1. Assoc(b, c, d) /\ e \in Seq(X)
  BY Regroup
<1> HIDE DEF e
<1>2. Assoc(a, b, e) /\ a \o b \in Seq(X)
  BY <1>1, Regroup
<1> QED
  BY <1>1, <1>2, Zenon DEF e, Assoc, AssocFour

LEMMA FoundMore ==
    ASSUME NEW p, NEW es, NEW q
    PROVE  [Found(p, es) EXCEPT !.extras = q] = Found(p, q) /\ Found(p, es).extras = es
BY DEF Found

\* An item that is ahead is read, and then what is behind it.
LEMMA ItemRead ==
    ASSUME NEW s, NEW h, NEW a, NEW x, NEW t, ItemAhead(s, h, a, x, t)
    PROVE  /\ Len(a) \in Nat /\ ItemEnd(s, Len(a)) = Len(a) + Len(WriteItem(x))
           /\ \A es : ReadItem(s, h, Found(FALSE, es), Len(a)) = Found(FALSE, <<x>> \o es)
<1> DEFINE o == x.octets
           n == Len(o)
           d == x.id
           p == <<d, n>>
           w == WriteItem(x)
           i == Len(a)
           m == s.mem
<1>1. /\ d \in Octet /\ d # 0 /\ n \in Octet /\ o \in Seq(Octet)
      /\ d = ExtraIdAiDSM => ~(n < SizeOf(DsmAlarm))
      /\ x = ExtraItem(d, o)
      /\ w \in Seq(Octet) /\ Len(w) = 2 + n
  <2>1. HoldsExtra(x)
    BY Zenon DEF ItemAhead
  <2> QED
    BY <2>1, ItemWritten
<1>2. w = p \o o /\ p \in Seq(Octet) /\ Len(p) = 2 /\ p[1] = d /\ p[2] = n
  <2>1. w = p \o o
    BY Zenon DEF WriteItem
  <2> HIDE DEF d, n
  <2>2. p \in Seq(Octet) /\ Len(p) = 2 /\ p[1] = d /\ p[2] = n
    BY <1>1
  <2> QED
    BY <2>1, <2>2
<1>3. /\ a \o (w \o t) = m /\ s.len \in Int /\ h.BodyLength \in Int
      /\ i + Len(w) <= s.len /\ i + Len(w) <= h.BodyLength
      /\ a \in Seq(Octet) /\ t \in Seq(Octet)
  BY Zenon DEF ItemAhead
<1>4. n \in Nat /\ i \in Nat
  <2>1. i \in Nat
    BY <1>3, LenProperties
  <2> QED
    BY <1>1, <2>1 DEF Octet
<1> HIDE DEF o, n, d, p, w, m
<1>5. m \in Seq(Octet) /\ Len(m) = i + Len(w) + Len(t) /\ Len(t) \in Nat /\ \A j \in 1..Len(w) : m[i + j] = w[j]
  <2> HIDE DEF i
  <2>1. /\ m \in Seq(Octet) /\ Len(m) = Len(a) + Len(w) + Len(t) /\ Len(t) \in Nat
        /\ \A j \in 1..Len(w) : m[Len(a) + j] = w[j]
    <3>1. a \o (w \o t) = m /\ a \in Seq(Octet) /\ t \in Seq(Octet) /\ w \in Seq(Octet)
      BY <1>1, <1>3
    <3>2. StandsIn(Octet, a, w, t, m)
      BY <3>1, Middle
    <3> QED
      BY <3>2, Zenon DEF StandsIn
  <2> QED
    BY <2>1, Zenon DEF i
<1>6. w[1] = d /\ w[2] = n
  <2>1. \A j \in 1..Len(p) : w[j] = p[j]
    <3>1. w = p \o o /\ p \in Seq(Octet) /\ o \in Seq(Octet)
      BY <1>1, <1>2
    <3> QED
      BY <3>1, Behind
  <2>2. 1 \in 1..Len(p) /\ 2 \in 1..Len(p)
    BY <1>2
  <2> QED
    BY <1>2, <2>1, <2>2, Zenon
<1>7. m[i + 1] = d /\ m[i + 2] = n
  BY <1>1, <1>4, <1>5, <1>6
<1>8. ItemEnd(s, i) = i + Len(w) /\ ItemEnd(s, i) = (i + 2) + n
  <2>1. ItemEnd(s, i) = i + 2 + n
    BY <1>7, Zenon DEF ItemEnd, m
  <2> HIDE DEF i
  <2> QED
    BY <1>1, <1>4, <2>1
<1>9. SubSeq(m, i + 3, ItemEnd(s, i)) = o
  <2> DEFINE b == a \o p
             c == o \o t
  <2>1. b \o (o \o t) = m /\ b \in Seq(Octet)
    <3>1. AssocFour(a, p, o, t) /\ a \o p \in Seq(Octet)
      <4>1. a \in Seq(Octet) /\ p \in Seq(Octet) /\ o \in Seq(Octet) /\ t \in Seq(Octet)
        BY <1>1, <1>2, <1>3
      <4> QED
        BY <4>1, RegroupFour
    <3>2. a \o ((p \o o) \o t) = m
      BY <1>2, <1>3, Zenon
    <3> QED
      BY <3>1, <3>2, Zenon DEF AssocFour
  <2>2. Len(b) = i + 2
    <3>1. Len(a \o p) = Len(a) + Len(p)
      BY <1>2, <1>3, Ends
    <3> QED
      BY <1>2, <3>1
  <2> HIDE DEF b
  <2>3. SubSeq(m, Len(b) + 1, Len(b) + Len(o)) = o
    <3>1. StandsIn(Octet, b, o, t, m)
      BY <1>1, <1>3, <2>1, Middle
    <3> QED
      BY <3>1, Zenon DEF StandsIn
  <2>4. SubSeq(m, (i + 2) + 1, (i + 2) + n) = o
    BY <2>2, <2>3, Zenon DEF n
  <2>5. (i + 2) + 1 = i + 3
    BY <1>4
  <2> QED
    BY <1>8, <2>4, <2>5, Zenon
<1>10. /\ i < s.len - 1 /\ ~(m[i + 1] = 0 \/ ItemEnd(s, i) > h.BodyLength)
       /\ ~(ItemEnd(s, i) > Len(m))
  <2>1. i < s.len - 1
    BY <1>1, <1>3, <1>4
  <2>2. ~(ItemEnd(s, i) > h.BodyLength)
    BY <1>1, <1>3, <1>4, <1>8
  <2>3. ~(ItemEnd(s, i) > Len(m))
    BY <1>1, <1>4, <1>5, <1>8
  <2> QED
    BY <1>1, <1>7, <2>1, <2>2, <2>3, Zenon
<1>11. ~(m[i + 1] = ExtraIdAiDSM /\ m[i + 2] < SizeOf(DsmAlarm))
  BY <1>1, <1>7, Zenon
<1>12. ASSUME NEW es
       PROVE  ReadItem(s, h, Found(FALSE, es), i) = Found(FALSE, <<x>> \o es)
  <2> DEFINE v == Found(FALSE, es)
             y == ExtraItem(m[i + 1], SubSeq(m, i + 3, ItemEnd(s, i)))
  <2>1. ReadItem(s, h, v, i) = [v EXCEPT !.extras = <<y>> \o @]
    <3> HIDE DEF v, i
    <3>1. /\ s.len \in Int /\ i \in Nat /\ i < s.len - 1
          /\ ~(s.mem[i + 1] = 0 \/ ItemEnd(s, i) > h.BodyLength)
          /\ ~(ItemEnd(s, i) > Len(s.mem))
          /\ ~(s.mem[i + 1] = ExtraIdAiDSM /\ s.mem[i + 2] < SizeOf(DsmAlarm))
      BY <1>3, <1>4, <1>10, <1>11, Zenon DEF m
    <3>2. ItemTaken(s, h, v, i)
      BY <3>1, ItemCases
    <3> QED
      BY <3>2, Zenon DEF m, ItemTaken
  <2>2. y = x
    BY <1>1, <1>7, <1>9, Zenon
  <2> HIDE DEF y
  <2>3. [v EXCEPT !.extras = <<y>> \o @] = Found(FALSE, <<y>> \o es)
    <3>1. v.extras = es /\ \A q : [v EXCEPT !.extras = q] = Found(FALSE, q)
      BY FoundMore, Zenon
    <3> HIDE DEF v
    <3> QED
      BY <3>1, Zenon
  <2> QED
    BY <2>1, <2>2, <2>3, Zenon
<1> QED
  BY <1>4, <1>8, <1>12, Zenon DEF w

LEMMA RegroupFive ==
    ASSUME NEW X, NEW a \in Seq(X), NEW b \in Seq(X), NEW c \in Seq(X), NEW d \in Seq(X), NEW e \in Seq(X)
    PROVE  AssocFive(a, b, c, d, e) /\ a \o b \in Seq(X) /\ d \o e \in Seq(X)
<1> DEFINE v == c \o d
           u == a \o b
<1>1. Assoc(c, d, e) /\ v \in Seq(X) /\ d \o e \in Seq(X)
  BY Regroup
<1> HIDE DEF v
<1>2. Assoc(a, b, v) /\ u \in Seq(X)
  BY <1>1, Regroup
<1> HIDE DEF u
<1>3. Assoc(u, v, e)
  BY <1>1, <1>2, Regroup
<1> QED
  BY <1>1, <1>2, <1>3, Zenon DEF u, v, Assoc, AssocFive

LEMMA ExtrasWritten ==
    ASSUME NEW extras, HoldsExtras(extras)
    PROVE  /\ Len(extras) \in Nat /\ DOMAIN extras = 1..Len(extras)
           /\ ItemOctets(extras) \in Seq(Seq(Octet)) /\ Len(ItemOctets(extras)) = Len(extras)
           /\ WriteExtras(extras) = FlattenSeq(ItemOctets(extras)) /\ WriteExtras(extras) \in Seq(Octet)
           /\ \A k \in 1..Len(extras) : HoldsExtra(extras[k])
<1> DEFINE n == Len(extras)
           ps == ItemOctets(extras)
<1>1. extras \in Seq(Range(extras)) /\ \A x \in Range(extras) : HoldsExtra(x)
  BY Zenon DEF HoldsExtras
<1>2. n \in Nat /\ DOMAIN extras = 1..n /\ \A k \in 1..n : extras[k] \in Range(extras)
  BY <1>1, LenProperties, ElementOfSeq
<1>3. \A k \in 1..n : HoldsExtra(extras[k])
  BY <1>1, <1>2, Zenon
<1>4. \A k \in 1..n : WriteItem(extras[k]) \in Seq(Octet)
  BY <1>3, ItemWritten, Zenon
<1> HIDE DEF n
<1>5. ps \in [1..n -> Seq(Octet)]
  BY <1>2, <1>4, Zenon DEF ItemOctets
<1> HIDE DEF ps
<1>6. ps \in Seq(Seq(Octet)) /\ Len(ps) = n
  BY <1>2, <1>5
<1>7. WriteExtras(extras) = FlattenSeq(ps)
  BY Zenon DEF WriteExtras, WriteItem, ItemOctets, ps
<1>8. FlattenSeq(ps) \in Seq(Octet)
  <2>1. PICK f : Cuts(Octet, ps, f)
    BY <1>6, FlattenCut
  <2>2. f \in [0..Len(ps) -> Seq(Octet)] /\ FlattenSeq(ps) = f[Len(ps)]
    BY <2>1, Zenon DEF Cuts
  <2>3. Len(ps) \in 0..Len(ps)
    BY <1>2, <1>6
  <2> QED
    BY <2>2, <2>3
<1> QED
  BY <1>2, <1>3, <1>6, <1>7, <1>8, Zenon DEF ps, n

LEMMA ExtrasRead ==
    ASSUME NEW extras, HoldsExtras(extras), NEW s, NEW h, NEW head, NEW rest,
           ItemsAhead(s, h, head, extras, rest)
    PROVE  ReadExtras(s, h) = Found(FALSE, extras)
<1> DEFINE n == Len(extras)
           ps == ItemOctets(extras)
           all == WriteExtras(extras)
           m == s.mem
           len == h.BodyLength
           k == Len(head)
<1>1. /\ n \in Nat /\ DOMAIN extras = 1..n /\ ps \in Seq(Seq(Octet)) /\ Len(ps) = n
      /\ all = FlattenSeq(ps) /\ all \in Seq(Octet)
      /\ \A i \in 1..n : HoldsExtra(extras[i])
  BY ExtrasWritten, Zenon
<1>2. /\ head \in Seq(Octet) /\ k = SizeOf(Position) /\ rest \in Seq(Octet)
      /\ (head \o all) \o rest = m /\ len = Len(head \o all)
      /\ s.len \in Int /\ s.len <= Len(m)
      /\ s.len = len \/ s.len > len + 1
  BY Zenon DEF ItemsAhead
<1>3. ps[1] = ps[1] /\ \A i \in 1..n : ps[i] = WriteItem(extras[i])
  BY <1>1, Zenon DEF ItemOctets
<1>4. extras \in Seq(Range(extras))
  BY Zenon DEF HoldsExtras
<1> HIDE DEF n, ps, all, m, len, k
<1>5. /\ head \o all \in Seq(Octet) /\ len = k + Len(all) /\ k \in Nat /\ Len(all) \in Nat
      /\ m \in Seq(Octet) /\ Len(m) = len + Len(rest) /\ Len(rest) \in Nat
  <2>1. head \o all \in Seq(Octet) /\ Len(head \o all) = Len(head) + Len(all) /\ Len(head) \in Nat /\ Len(all) \in Nat
    BY <1>1, <1>2, Ends
  <2> DEFINE w == head \o all
  <2>2. w \in Seq(Octet) /\ w \o rest = m /\ rest \in Seq(Octet)
    BY <1>2, <2>1
  <2> HIDE DEF w
  <2>3. w \o rest \in Seq(Octet) /\ Len(w \o rest) = Len(w) + Len(rest) /\ Len(rest) \in Nat
    BY <2>2, Ends
  <2> QED
    BY <1>2, <2>1, <2>2, <2>3, Zenon DEF k, w
<1>6. PICK f : Cuts(Octet, ps, f)
  BY <1>1, FlattenCut
<1>7. /\ \A i \in 0..n : f[i] \in Seq(Octet)
      /\ f[0] = <<>> /\ f[n] = all
      /\ \A i \in 1..n : f[i] = f[i - 1] \o ps[i]
      /\ \A i \in 1..n : \E r \in Seq(Octet) : all = f[i - 1] \o (ps[i] \o r)
  BY <1>1, <1>6, Zenon DEF Cuts
<1>8. PICK g : /\ ReadExtras(s, h) = g[SizeOf(Position)]
               /\ \A i \in 0..Len(s.mem) : g[i] = ReadItem(s, h, g[ItemEnd(s, i)], i)
  <2>1. s.mem \in Seq(Octet) /\ s.len \in Int /\ s.len <= Len(s.mem)
    BY <1>2, <1>5 DEF m
  <2> QED
    BY <2>1, ItemsAre
<1> DEFINE at(i) == k + Len(f[i])
           Good(i) == g[at(i)] = Found(FALSE, SubSeq(extras, i + 1, n))
           S == {j \in 0..n : Good(n - j)}
<1>9. Good(n)
  <2>1. at(n) = len
    BY <1>5, <1>7
  <2>2. len \in Nat /\ len \in 0..Len(s.mem)
    BY <1>5 DEF m
  <2>3. g[len] = ReadItem(s, h, g[ItemEnd(s, len)], len)
    BY <1>8, <2>2, Zenon
  <2>4. ReadItem(s, h, g[ItemEnd(s, len)], len) = ItemsOf(FALSE)
    <3>1. CASE s.len = len
      <4>1. len >= s.len
        BY <2>2, <3>1
      <4> QED
        BY <1>2, <2>2, <4>1, ItemCases
    <3>2. CASE s.len > len + 1
      <4>1. len < s.len - 1
        BY <1>2, <2>2, <3>2
      <4>2. ItemEnd(s, len) > len
        <5>1. m[len + 2] \in Octet
          <6>1. len + 2 \in 1..Len(m)
            <7>1. s.len \in Int /\ s.len <= Len(m)
              BY <1>2
            <7>2. Len(m) \in Int
              BY <1>5, LenProperties
            <7> DEFINE z == s.len
                       y == Len(m)
            <7>3. z \in Int /\ y \in Int /\ z <= y /\ z > len + 1
              BY <3>2, <7>1, <7>2
            <7> HIDE DEF z, y
            <7>4. len + 2 \in 1..y
              BY <2>2, <7>3
            <7> QED
              BY <7>4 DEF y
          <6> QED
            BY <1>5, <6>1, ElementOfSeq
        <5>2. \A v \in Octet : len + 2 + v > len
          BY <2>2 DEF Octet
        <5> QED
          BY <5>1, <5>2, Zenon DEF ItemEnd, m
      <4>3. ItemEnd(s, len) > h.BodyLength
        BY <4>2 DEF len
      <4> QED
        BY <1>2, <2>2, <4>1, <4>3, ItemCases
    <3> QED
      BY <1>2, <3>1, <3>2
  <2>5. ItemsOf(FALSE) = Found(FALSE, SubSeq(extras, n + 1, n))
    <3>1. SubSeq(extras, n + 1, n) = <<>>
      BY <1>1, SubSeqEmpty
    <3> QED
      BY <3>1, Zenon DEF ItemsOf, Found
  <2> QED
    BY <2>1, <2>3, <2>4, <2>5, Zenon
<1>10. ASSUME NEW i \in 1..n, Good(i) PROVE Good(i - 1)
  <2> DEFINE u == f[i - 1]
             p == ps[i]
             x == extras[i]
             a == head \o u
  <2>1. PICK r \in Seq(Octet) : all = u \o (p \o r)
    BY <1>7
  <2>2. u \in Seq(Octet) /\ p \in Seq(Octet) /\ f[i] = u \o p /\ p = WriteItem(x) /\ HoldsExtra(x)
    <3>1. i - 1 \in 0..n /\ i \in 1..Len(ps)
      BY <1>1
    <3> QED
      BY <1>1, <1>3, <1>7, <3>1, ElementOfSeq
  <2> HIDE DEF u, p, x
  <2>3. Len(f[i]) = Len(u) + Len(p) /\ Len(u) \in Nat /\ Len(p) \in Nat /\ at(i) = k + Len(u) + Len(p)
    <3>1. Len(f[i]) = Len(u) + Len(p) /\ Len(u) \in Nat /\ Len(p) \in Nat
      BY <2>2, Ends
    <3> QED
      BY <1>5, <3>1
  <2>4. a \in Seq(Octet) /\ Len(a) = k + Len(u)
    BY <1>2, <2>2, Ends DEF k
  <2>5. Len(all) = Len(u) + Len(p) + Len(r) /\ Len(r) \in Nat
    <3>1. u \o (p \o r) = all
      BY <2>1
    <3>2. StandsIn(Octet, u, p, r, all)
      BY <2>2, <3>1, Middle
    <3> QED
      BY <3>2, Zenon DEF StandsIn
  <2>6. a \o (p \o (r \o rest)) = m /\ r \o rest \in Seq(Octet)
    <3>1. AssocFive(head, u, p, r, rest) /\ r \o rest \in Seq(Octet)
      BY <1>2, <2>2, RegroupFive
    <3>2. (head \o (u \o (p \o r))) \o rest = m
      BY <1>2, <2>1, Zenon
    <3> QED
      BY <3>1, <3>2, Zenon DEF AssocFive
  <2> HIDE DEF a
  <2>7. ItemAhead(s, h, a, x, r \o rest)
    <3>1. Len(a) + Len(p) <= len /\ Len(a) + Len(p) <= s.len /\ len \in Int
      <4> DEFINE z == s.len
                 c == Len(a)
                 d == Len(p)
      <4>1. z \in Int /\ (z = len \/ z > len + 1)
        BY <1>2
      <4>2. len = k + Len(all) /\ Len(all) = Len(u) + d + Len(r) /\ c = k + Len(u)
        BY <1>5, <2>4, <2>5
      <4>3. k \in Nat /\ Len(u) \in Nat /\ d \in Nat /\ Len(r) \in Nat
        BY <1>5, <2>3, <2>5
      <4> HIDE DEF z, c, d
      <4>4. c + d <= len /\ c + d <= z /\ len \in Int
        BY <4>1, <4>2, <4>3
      <4> QED
        BY <4>4 DEF z, c, d
    <3> QED
      BY <1>2, <2>2, <2>4, <2>6, <3>1, Zenon DEF ItemAhead, m, len
  <2>8. /\ Len(a) \in Nat /\ ItemEnd(s, Len(a)) = at(i)
        /\ \A es : ReadItem(s, h, Found(FALSE, es), Len(a)) = Found(FALSE, <<x>> \o es)
    <3>1. /\ Len(a) \in Nat /\ ItemEnd(s, Len(a)) = Len(a) + Len(WriteItem(x))
          /\ \A es : ReadItem(s, h, Found(FALSE, es), Len(a)) = Found(FALSE, <<x>> \o es)
      BY <2>7, ItemRead
    <3>2. Len(a) + Len(WriteItem(x)) = at(i)
      BY <1>5, <2>2, <2>3, <2>4
    <3> QED
      BY <3>1, <3>2, Zenon
  <2>9. Len(a) = at(i - 1) /\ Len(a) \in 0..Len(s.mem)
    <3>1. Len(a) = at(i - 1)
      BY <2>4 DEF u
    <3>2. Len(a) \in 0..Len(m)
      BY <1>5, <2>3, <2>4, <2>5
    <3> QED
      BY <3>1, <3>2 DEF m
  <2>10. g[Len(a)] = ReadItem(s, h, g[at(i)], Len(a))
    BY <1>8, <2>8, <2>9, Zenon
  <2>11. g[at(i - 1)] = Found(FALSE, <<x>> \o SubSeq(extras, i + 1, n))
    <3>1. g[at(i)] = Found(FALSE, SubSeq(extras, i + 1, n))
      BY <1>10
    <3> HIDE DEF at
    <3> QED
      BY <2>8, <2>9, <2>10, <3>1, Zenon
  <2>12. <<x>> \o SubSeq(extras, i + 1, n) = SubSeq(extras, (i - 1) + 1, n)
    BY <1>1, <1>4 DEF x
  <2> QED
    BY <2>11, <2>12, Zenon
<1> HIDE DEF Good
<1>11. 0 \in S
  <2>1. n - 0 = n /\ 0 \in 0..n
    BY <1>1
  <2> QED
    BY <1>9, <2>1
<1>12. ASSUME NEW j \in 1..n, j - 1 \in S PROVE j \in S
  <2>1. n - (j - 1) \in 1..n /\ (n - (j - 1)) - 1 = n - j /\ j \in 0..n
    BY <1>1
  <2>2. Good(n - (j - 1))
    BY <1>12
  <2>3. Good((n - (j - 1)) - 1)
    BY <1>10, <2>1, <2>2
  <2> QED
    BY <2>1, <2>3
<1>13. n \in S
  <2>1. S \in SUBSET (0..n)
    OBVIOUS
  <2> HIDE DEF S
  <2>2. \A j \in 0..n : j \in S
    BY <1>1, <1>11, <1>12, <2>1, UpTo
  <2>3. n \in 0..n
    BY <1>1
  <2> QED
    BY <2>2, <2>3
<1>14. Good(0)
  <2>1. n - n = 0
    BY <1>1
  <2> QED
    BY <1>13, <2>1
<1>15. g[SizeOf(Position)] = Found(FALSE, SubSeq(extras, 0 + 1, n))
  <2>1. at(0) = SizeOf(Position)
    <3>1. Len(f[0]) = 0
      BY <1>7
    <3> QED
      BY <1>2, <1>5, <3>1
  <2> HIDE DEF at
  <2> QED
    BY <1>14, <2>1, Zenon DEF Good
<1>16. SubSeq(extras, 0 + 1, n) = extras
  BY <1>1, <1>4 DEF n
<1> QED
  BY <1>8, <1>15, <1>16, Zenon

-----------------------------------------------------------------------------
(* A message is read as it was written.                                    *)

LEMMA PlainKind ==
    ASSUME NEW m, m.header.MsgID \notin Special
    PROVE  /\ FieldsOf(m) = PlainLayout(m.header.MsgID)
           /\ WriteBody(m) = WriteAll(PlainLayout(m.header.MsgID), m.body)
           /\ NamesOf(m) = Names(FieldsOf(m))
           /\ \A h, s : h.MsgID = m.header.MsgID => BodyLayout(h, s) = PlainLayout(m.header.MsgID)
<1> DEFINE id == m.header.MsgID
<1>1. /\ id # \h0100 /\ id # \h0102 /\ id # \h0104 /\ id # \h0200 /\ id # \h8100 /\ id # \h8103
  BY DEF Special
<1>2. ASSUME NEW h, NEW s, h.MsgID = id PROVE BodyLayout(h, s) = PlainLayout(id)
  <2> HIDE DEF id
  <2>1. CASE id \in {\h0001, \h8001}
    BY <1>1, <1>2, <2>1 DEF BodyLayout, PlainLayout
  <2>2. CASE id = \h1205
    BY <1>1, <1>2, <2>2 DEF BodyLayout, PlainLayout
  <2>3. CASE id = \h9205
    BY <1>1, <1>2, <2>3 DEF BodyLayout, PlainLayout
  <2>4. CASE id \notin {\h0001, \h8001} /\ id # \h1205 /\ id # \h9205
    BY <1>1, <1>2, <2>4 DEF BodyLayout, PlainLayout
  <2> QED
    BY <2>1, <2>2, <2>3, <2>4
<1>3. BodyLayout(m.header, Slice(<<>>)) = PlainLayout(id)
  BY <1>2
<1>4. FieldsOf(m) = BodyLayout(m.header, Slice(<<>>))
  BY <1>1, SMT DEF FieldsOf
<1>5. WriteBody(m) = WriteAll(BodyLayout(m.header, Slice(<<>>)), m.body)
  BY <1>1, SMT DEF WriteBody
<1>6. NamesOf(m) = Names(FieldsOf(m))
  BY <1>1 DEF NamesOf
<1> QED
  BY <1>2, <1>3, <1>4, <1>5, <1>6, Zenon

LEMMA RegistrationKind ==
    ASSUME NEW m, m.header.MsgID = \h0100
    PROVE  /\ FieldsOf(m) = Registration(Sizes(m.header.VersionDesc), Len(m.body.PlateNumber))
           /\ WriteBody(m) = WriteAll(Registration(Sizes(m.header.VersionDesc), 0), m.body)
           /\ NamesOf(m) = Names(FieldsOf(m))
<1>1. FieldsOf(m) = Registration(Sizes(m.header.VersionDesc), Len(m.body.PlateNumber))
  BY SMT DEF FieldsOf
<1>2. WriteBody(m) = WriteAll(Registration(Sizes(m.header.VersionDesc), 0), m.body)
  BY SMT DEF WriteBody
<1>3. NamesOf(m) = Names(FieldsOf(m))
  BY DEF NamesOf
<1> QED
  BY <1>1, <1>2, <1>3

LEMMA AuthenticationKind ==
    ASSUME NEW m, m.header.MsgID = \h0102
    PROVE  /\ FieldsOf(m) = Authentication(m.header.VersionDesc, Len(m.body.AuthCode))
           /\ WriteBody(m) = WriteAll(Authentication(m.header.VersionDesc, 0), CodeMeasured(m.body))
           /\ NamesOf(m) = Names(FieldsOf(m))
<1>1. FieldsOf(m) = Authentication(m.header.VersionDesc, Len(m.body.AuthCode))
  BY SMT DEF FieldsOf
<1>2. WriteBody(m) = WriteAll(Authentication(m.header.VersionDesc, 0), CodeMeasured(m.body))
  BY SMT DEF WriteBody
<1>3. NamesOf(m) = Names(FieldsOf(m))
  BY DEF NamesOf
<1> QED
  BY <1>1, <1>2, <1>3

LEMMA ParamsAnswerKind ==
    ASSUME NEW m, m.header.MsgID = \h0104
    PROVE  /\ FieldsOf(m) = ParamsAnswer
           /\ WriteBody(m) = WriteWord(m.body.AnswerSerialNumber) \o WriteParams(m.body.Parameters)
           /\ NamesOf(m) = Names(FieldsOf(m)) \cup {"Parameters"}
<1>1. FieldsOf(m) = ParamsAnswer
  BY SMT DEF FieldsOf, BodyLayout
<1>2. WriteBody(m) = WriteWord(m.body.AnswerSerialNumber) \o WriteParams(m.body.Parameters)
  BY SMT DEF WriteBody
<1>3. NamesOf(m) = Names(FieldsOf(m)) \cup {"Parameters"}
  BY DEF NamesOf
<1> QED
  BY <1>1, <1>2, <1>3

LEMMA PositionKind ==
    ASSUME NEW m, m.header.MsgID = \h0200
    PROVE  /\ FieldsOf(m) = Position
           /\ WriteBody(m) = WriteAll(Position, m.body) \o WriteExtras(m.body.Extra)
           /\ NamesOf(m) = Names(FieldsOf(m)) \cup {"Extra"}
<1>1. FieldsOf(m) = Position
  BY SMT DEF FieldsOf, BodyLayout
<1>2. WriteBody(m) = WriteAll(Position, m.body) \o WriteExtras(m.body.Extra)
  BY SMT DEF WriteBody
<1>3. NamesOf(m) = Names(FieldsOf(m)) \cup {"Extra"}
  BY DEF NamesOf
<1> QED
  BY <1>1, <1>2, <1>3

LEMMA RegistrationAnswerKind ==
    ASSUME NEW m, m.header.MsgID = \h8100
    PROVE  /\ FieldsOf(m) = RegistrationAnswer(Len(m.body.AuthCode))
           /\ WriteBody(m) = WriteAll(RegistrationAnswer(0), m.body)
           /\ NamesOf(m) = Names(FieldsOf(m))
<1>1. FieldsOf(m) = RegistrationAnswer(Len(m.body.AuthCode))
  BY SMT DEF FieldsOf
<1>2. WriteBody(m) = WriteAll(RegistrationAnswer(0), m.body)
  BY SMT DEF WriteBody
<1>3. NamesOf(m) = Names(FieldsOf(m))
  BY DEF NamesOf
<1> QED
  BY <1>1, <1>2, <1>3

LEMMA ParamsSettingKind ==
    ASSUME NEW m, m.header.MsgID = \h8103
    PROVE  /\ FieldsOf(m) = ParamsSetting
           /\ WriteBody(m) = WriteParams(m.body.Parameters)
           /\ NamesOf(m) = Names(FieldsOf(m)) \cup {"Parameters"}
<1>1. FieldsOf(m) = ParamsSetting
  BY SMT DEF FieldsOf, BodyLayout
<1>2. WriteBody(m) = WriteParams(m.body.Parameters)
  BY SMT DEF WriteBody
<1>3. NamesOf(m) = Names(FieldsOf(m)) \cup {"Parameters"}
  BY DEF NamesOf
<1> QED
  BY <1>1, <1>2, <1>3

LEMMA FlattenOne ==
    ASSUME NEW X, NEW a \in Seq(X)
    PROVE  FlattenSeq(<<a>>) = a
<1> DEFINE ps == <<a>>
<1>1. ps \in Seq(Seq(X)) /\ Len(ps) = 1 /\ ps[1] = a
  OBVIOUS
<1> HIDE DEF ps
<1>2. PICK f \in [0..Len(ps) -> Seq(X)] :
             /\ f[0] = <<>>
             /\ \A i \in 1..Len(ps) : f[i] = f[i - 1] \o ps[i]
             /\ FlattenSeq(ps) = f[Len(ps)]
  BY <1>1, FlattenSteps
<1>3. f[1] = f[0] \o a /\ FlattenSeq(ps) = f[1]
  <2>1. 1 \in 1..Len(ps) /\ 1 - 1 = 0
    BY <1>1
  <2>2. f[1] = f[1 - 1] \o ps[1]
    BY <1>2, <2>1, Zenon
  <2> QED
    BY <1>1, <1>2, <2>1, <2>2, Zenon
<1>4. <<>> \o a = a
  BY ConcatEmptySeq
<1>5. FlattenSeq(ps) = a
  BY <1>2, <1>3, <1>4, Zenon
<1> QED
  BY <1>5 DEF ps

\* What two records have under the names of two layouts is written alike.
LEMMA SameOctets ==
    ASSUME NEW a, NEW b, NEW x, NEW y, DOMAIN a = DOMAIN b,
           \A k \in DOMAIN a : Write(a[k], x[a[k].name]) = Write(b[k], y[b[k].name])
    PROVE  WriteAll(a, x) = WriteAll(b, y)
<1>1. [k \in DOMAIN a |-> Write(a[k], x[a[k].name])] = [k \in DOMAIN b |-> Write(b[k], y[b[k].name])]
  BY Zenon
<1> QED
  BY <1>1, Zenon DEF WriteAll

LEMMA BytesHeld ==
    ASSUME NEW layout, NEW m, HoldAll(layout, m), NEW k \in DOMAIN layout, NEW name, NEW n,
           Bytes(name, n) = layout[k]
    PROVE  m[name] \in Seq(Octet) /\ Len(m[name]) = n /\ n \in Nat
<1> DEFINE f == Bytes(name, n)
<1>1. f.kind = "bytes" /\ f.name = name /\ f.size = n
  BY DEF Bytes, F
<1> HIDE DEF f
<1>2. Holds(f, m[name])
  BY <1>1, Zenon DEF HoldAll, f
<1>3. m[name] \in Seq(Octet) /\ Len(m[name]) = n
  BY <1>1, <1>2, HeldIs
<1> QED
  BY <1>3, LenProperties

LEMMA RestIs ==
    ASSUME NEW sizes, NEW n, NEW version
    PROVE  /\ DOMAIN Registration(sizes, n) = 1..7 /\ Registration(sizes, n)[7] = Bytes("PlateNumber", n)
           /\ DOMAIN RegistrationAnswer(n) = 1..3 /\ RegistrationAnswer(n)[3] = Bytes("AuthCode", n)
           /\ version = Version2019 =>
                DOMAIN Authentication(version, n) = 1..4 /\ Authentication(version, n)[2] = Bytes("AuthCode", n)
           /\ version # Version2019 =>
                DOMAIN Authentication(version, n) = 1..1 /\ Authentication(version, n)[1] = Bytes("AuthCode", n)
BY DEF Registration, RegistrationAnswer, Authentication

\* A field of known octets, behind others
LEMMA FreeWritten ==
    ASSUME NEW sizes, NEW n, NEW v
    PROVE  /\ WriteAll(Registration(sizes, 0), v) = WriteAll(Registration(sizes, n), v)
           /\ WriteAll(RegistrationAnswer(0), v) = WriteAll(RegistrationAnswer(n), v)
<1>1. \A x : Write(Bytes("PlateNumber", 0), x) = Write(Bytes("PlateNumber", n), x)
  BY FreeSize
<1>2. \A x : Write(Bytes("AuthCode", 0), x) = Write(Bytes("AuthCode", n), x)
  BY FreeSize
<1>3. Bytes("PlateNumber", 0).name = Bytes("PlateNumber", n).name
      /\ Bytes("AuthCode", 0).name = Bytes("AuthCode", n).name
  BY DEF Bytes, F
<1> DEFINE a(k) == Registration(sizes, k)
           b(k) == RegistrationAnswer(k)
<1>4. /\ DOMAIN a(0) = 1..7 /\ DOMAIN a(n) = 1..7 /\ \A k \in 1..6 : a(0)[k] = a(n)[k]
      /\ a(0)[7] = Bytes("PlateNumber", 0) /\ a(n)[7] = Bytes("PlateNumber", n)
  BY DEF Registration
<1>5. /\ DOMAIN b(0) = 1..3 /\ DOMAIN b(n) = 1..3 /\ \A k \in 1..2 : b(0)[k] = b(n)[k]
      /\ b(0)[3] = Bytes("AuthCode", 0) /\ b(n)[3] = Bytes("AuthCode", n)
  BY DEF RegistrationAnswer
<1> HIDE DEF a, b
<1>6. WriteAll(a(0), v) = WriteAll(a(n), v)
  <2>1. ASSUME NEW k \in 1..7 PROVE Write(a(0)[k], v[a(0)[k].name]) = Write(a(n)[k], v[a(n)[k].name])
    <3>1. CASE k = 7
      BY <1>1, <1>3, <1>4, <3>1, Zenon
    <3>2. CASE k # 7
      <4>1. k \in 1..6
        BY <3>2
      <4> QED
        BY <1>4, <4>1, Zenon
    <3> QED
      BY <3>1, <3>2
  <2> QED
    BY <1>4, <2>1, SameOctets
<1>7. WriteAll(b(0), v) = WriteAll(b(n), v)
  <2>1. ASSUME NEW k \in 1..3 PROVE Write(b(0)[k], v[b(0)[k].name]) = Write(b(n)[k], v[b(n)[k].name])
    <3>1. CASE k = 3
      BY <1>2, <1>3, <1>5, <3>1, Zenon
    <3>2. CASE k # 3
      <4>1. k \in 1..2
        BY <3>2
      <4> QED
        BY <1>5, <4>1, Zenon
    <3> QED
      BY <3>1, <3>2
  <2> QED
    BY <1>5, <2>1, SameOctets
<1> QED
  BY <1>6, <1>7 DEF a, b

LEMMA CodeWritten ==
    ASSUME NEW version, NEW b, NEW n, CodeHeld(version, b)
    PROVE  WriteAll(Authentication(version, 0), CodeMeasured(b)) = WriteAll(Authentication(version, n), b)
<1> DEFINE m == CodeMeasured(b)
           u == Authentication(version, 0)
           v == Authentication(version, n)
           l == Byte("AuthCodeLen")
           c == Bytes("AuthCode", 0)
           d == Bytes("AuthCode", n)
           e == F("IMEI", "fill", 15)
           f == F("SoftwareVersion", "note", 20)
<1>1. /\ m["AuthCode"] = b["AuthCode"]
      /\ version = Version2019 => /\ m["AuthCodeLen"] = b["AuthCodeLen"]
                                  /\ m["IMEI"] = b["IMEI"] /\ m["SoftwareVersion"] = b["SoftwareVersion"]
  BY DEF CodeMeasured, With, CodeHeld
<1>2. \A x : Write(c, x) = Write(d, x)
  BY FreeSize
<1>3. /\ l["name"] = "AuthCodeLen" /\ c["name"] = "AuthCode" /\ d["name"] = "AuthCode"
      /\ e["name"] = "IMEI" /\ f["name"] = "SoftwareVersion"
  BY DEF Byte, Bytes, F
<1>4. version = Version2019 =>
        /\ DOMAIN u = 1..4 /\ u[1] = l /\ u[2] = c /\ u[3] = e /\ u[4] = f
        /\ DOMAIN v = 1..4 /\ v[1] = l /\ v[2] = d /\ v[3] = e /\ v[4] = f
  BY DEF Authentication
<1>5. version # Version2019 =>
        /\ DOMAIN u = 1..1 /\ u[1] = c
        /\ DOMAIN v = 1..1 /\ v[1] = d
  BY DEF Authentication
<1> HIDE DEF m, u, v, l, c, d, e, f
<1>6. Write(c, m[c.name]) = Write(d, b[d.name])
  BY <1>1, <1>2, <1>3, Zenon
<1>7. CASE version = Version2019
  <2>1. /\ Write(l, m[l.name]) = Write(l, b[l.name])
        /\ Write(e, m[e.name]) = Write(e, b[e.name])
        /\ Write(f, m[f.name]) = Write(f, b[f.name])
    BY <1>1, <1>3, <1>7, Zenon
  <2>2. ASSUME NEW k \in 1..4 PROVE Write(u[k], m[u[k].name]) = Write(v[k], b[v[k].name])
    <3>1. CASE k = 1
      BY <1>4, <1>7, <2>1, <3>1
    <3>2. CASE k = 2
      BY <1>4, <1>6, <1>7, <3>2
    <3>3. CASE k = 3
      BY <1>4, <1>7, <2>1, <3>3
    <3>4. CASE k = 4
      BY <1>4, <1>7, <2>1, <3>4
    <3> QED
      BY <3>1, <3>2, <3>3, <3>4
  <2>3. DOMAIN u = 1..4 /\ DOMAIN v = 1..4
    BY <1>4, <1>7
  <2>4. DOMAIN u = DOMAIN v /\ \A k \in DOMAIN u : Write(u[k], m[u[k].name]) = Write(v[k], b[v[k].name])
    BY <2>2, <2>3, Zenon
  <2>5. WriteAll(u, m) = WriteAll(v, b)
    BY <2>2, <2>3, SameOctets
  <2> QED
    BY <2>5, Zenon DEF u, v, m
<1>8. CASE version # Version2019
  <2>2. ASSUME NEW k \in 1..1 PROVE Write(u[k], m[u[k].name]) = Write(v[k], b[v[k].name])
    <3>1. k = 1
      OBVIOUS
    <3> QED
      BY <1>5, <1>6, <1>8, <3>1, Zenon
  <2>3. DOMAIN u = 1..1 /\ DOMAIN v = 1..1
    BY <1>5, <1>8
  <2>4. DOMAIN u = DOMAIN v /\ \A k \in DOMAIN u : Write(u[k], m[u[k].name]) = Write(v[k], b[v[k].name])
    BY <2>2, <2>3, Zenon
  <2>5. WriteAll(u, m) = WriteAll(v, b)
    BY <2>2, <2>3, SameOctets
  <2> QED
    BY <2>5, Zenon DEF u, v, m
<1> QED
  BY <1>7, <1>8

LEMMA CountWritten ==
    ASSUME NEW b
    PROVE  /\ HoldAll(ParamsSetting, b) =>
                WriteAll(ParamsSetting, b) = <<b.ParamCnt>>
           /\ HoldAll(ParamsAnswer, b) =>
                /\ WriteAll(ParamsAnswer, b) = WriteWord(b.AnswerSerialNumber) \o <<b.AnswerParamCnt>>
                /\ WriteWord(b.AnswerSerialNumber) \in Seq(Octet) /\ <<b.AnswerParamCnt>> \in Seq(Octet)
<1>1. /\ DOMAIN ParamsSetting = {1} /\ ParamsSetting[1] = Byte("ParamCnt")
      /\ DOMAIN ParamsAnswer = {1, 2} /\ ParamsAnswer[1] = Word("AnswerSerialNumber")
      /\ ParamsAnswer[2] = Byte("AnswerParamCnt")
  BY DEF ParamsSetting, ParamsAnswer
<1>2. /\ Byte("ParamCnt").name = "ParamCnt" /\ Byte("ParamCnt").kind = "byte"
      /\ Word("AnswerSerialNumber").name = "AnswerSerialNumber" /\ Word("AnswerSerialNumber").kind = "word"
      /\ Byte("AnswerParamCnt").name = "AnswerParamCnt" /\ Byte("AnswerParamCnt").kind = "byte"
  BY DEF Byte, Word, F
<1>3. \A v : /\ Write(Byte("ParamCnt"), v) = <<v>> /\ Write(Byte("AnswerParamCnt"), v) = <<v>>
             /\ Write(Word("AnswerSerialNumber"), v) = WriteWord(v)
  BY <1>2 DEF Write
<1>4. ASSUME HoldAll(ParamsSetting, b) PROVE WriteAll(ParamsSetting, b) = <<b.ParamCnt>>
  <2>1. Holds(Byte("ParamCnt"), b.ParamCnt)
    BY <1>1, <1>2, <1>4 DEF HoldAll
  <2>2. <<b.ParamCnt>> \in Seq(Octet)
    <3>1. b.ParamCnt \in Octet
      BY <1>2, <2>1, HeldIs, Zenon
    <3> QED
      BY <3>1
  <2> DEFINE g == [k \in DOMAIN ParamsSetting |-> Write(ParamsSetting[k], b[ParamsSetting[k].name])]
  <2>3. g[1] = <<b.ParamCnt>> /\ g = [k \in {1} |-> g[k]]
    BY <1>1, <1>2, <1>3
  <2> HIDE DEF g
  <2>4. g = <<<<b.ParamCnt>>>>
    BY <2>3
  <2>5. FlattenSeq(<<<<b.ParamCnt>>>>) = <<b.ParamCnt>>
    BY <2>2, FlattenOne
  <2> QED
    BY <2>4, <2>5, Zenon DEF WriteAll, g
<1>5. ASSUME HoldAll(ParamsAnswer, b)
      PROVE  /\ WriteAll(ParamsAnswer, b) = WriteWord(b.AnswerSerialNumber) \o <<b.AnswerParamCnt>>
             /\ WriteWord(b.AnswerSerialNumber) \in Seq(Octet) /\ <<b.AnswerParamCnt>> \in Seq(Octet)
  <2>1. Holds(Word("AnswerSerialNumber"), b.AnswerSerialNumber) /\ Holds(Byte("AnswerParamCnt"), b.AnswerParamCnt)
    BY <1>1, <1>2, <1>5 DEF HoldAll
  <2>2. <<b.AnswerParamCnt>> \in Seq(Octet)
    <3>1. b.AnswerParamCnt \in Octet
      BY <1>2, <2>1, HeldIs, Zenon
    <3> QED
      BY <3>1
  <2>3. WriteWord(b.AnswerSerialNumber) \in Seq(Octet)
    <3>1. IsField(Word("AnswerSerialNumber"))
      BY FieldMade
    <3>2. Fits(Word("AnswerSerialNumber"), b.AnswerSerialNumber)
      BY <2>1, <3>1, HeldFits
    <3> QED
      BY <1>3, <3>2, Zenon DEF Fits
  <2> DEFINE g == [k \in DOMAIN ParamsAnswer |-> Write(ParamsAnswer[k], b[ParamsAnswer[k].name])]
             u == WriteWord(b.AnswerSerialNumber)
             v == <<b.AnswerParamCnt>>
  <2>4. g[1] = u /\ g[2] = v /\ g = [k \in {1, 2} |-> g[k]]
    BY <1>1, <1>2, <1>3
  <2> HIDE DEF g, u, v
  <2>5. g = <<u, v>>
    BY <2>4
  <2>6. FlattenSeq(<<u, v>>) = u \o v
    BY <2>2, <2>3, FlattenTwo DEF u, v
  <2> QED
    BY <2>2, <2>3, <2>5, <2>6, Zenon DEF WriteAll, g, u, v
<1> QED
  BY <1>4, <1>5, Zenon

LEMMA BodiedIs ==
    ASSUME NEW m, Formal(FieldsOf(m)), HoldAll(FieldsOf(m), m.body), NEW tail \in Seq(Octet),
           WriteBody(m) = WriteAll(FieldsOf(m), m.body) \o tail
    PROVE  Bodied(m, tail)
<1> DEFINE w == WriteAll(FieldsOf(m), m.body)
<1>1. w \in Seq(Octet) /\ Len(w) = SizeOf(FieldsOf(m))
  BY HeldRead
<1> HIDE DEF w
<1>2. w \o tail \in Seq(Octet)
  BY <1>1, ConcatProperties
<1>3. WriteBody(m) = w \o tail
  BY DEF w
<1> QED
  BY <1>1, <1>2, <1>3, Zenon DEF Bodied, w

LEMMA NothingBehind ==
    ASSUME NEW m, Formal(FieldsOf(m)), HoldAll(FieldsOf(m), m.body),
           WriteBody(m) = WriteAll(FieldsOf(m), m.body)
    PROVE  Bodied(m, <<>>)
<1> DEFINE w == WriteAll(FieldsOf(m), m.body)
<1>1. w \in Seq(Octet)
  BY HeldRead
<1> HIDE DEF w
<1>2. w \o <<>> = w /\ <<>> \in Seq(Octet)
  BY <1>1, ConcatEmptySeq
<1>3. WriteBody(m) = w \o <<>>
  BY <1>2, Zenon DEF w
<1> QED
  BY <1>2, <1>3, BodiedIs, Zenon DEF w

LEMMA PlainFormal ==
    ASSUME NEW id
    PROVE  Formal(PlainLayout(id))
BY AnswerFormal, MediaListIs, MediaQueryFormal, NothingFormal DEF PlainLayout

LEMMA PlainBodied ==
    ASSUME NEW m, m.header.MsgID \notin Special, HoldAll(FieldsOf(m), m.body)
    PROVE  Bodied(m, <<>>)
<1>1. FieldsOf(m) = PlainLayout(m.header.MsgID) /\ WriteBody(m) = WriteAll(PlainLayout(m.header.MsgID), m.body)
  BY PlainKind
<1>2. Formal(PlainLayout(m.header.MsgID))
  BY PlainFormal
<1>3. Formal(FieldsOf(m)) /\ WriteBody(m) = WriteAll(FieldsOf(m), m.body)
  BY <1>1, <1>2, Zenon
<1> QED
  BY <1>3, NothingBehind

LEMMA RegistrationBodied ==
    ASSUME NEW m, m.header.MsgID = \h0100, HoldAll(FieldsOf(m), m.body),
           m.header.VersionDesc \in {Version2013, Version2019}
    PROVE  /\ Bodied(m, <<>>) /\ Len(m.body.PlateNumber) \in Nat /\ m.body.PlateNumber \in Seq(Octet)
<1> DEFINE n == Len(m.body.PlateNumber)
           sizes == Sizes(m.header.VersionDesc)
<1>1. /\ FieldsOf(m) = Registration(sizes, n)
      /\ WriteBody(m) = WriteAll(Registration(sizes, 0), m.body)
  BY RegistrationKind
<1>2. DOMAIN Registration(sizes, n) = 1..7 /\ Registration(sizes, n)[7] = Bytes("PlateNumber", n)
  BY RestIs
<1>3. WriteAll(Registration(sizes, 0), m.body) = WriteAll(Registration(sizes, n), m.body)
  BY FreeWritten
<1>4. Sized(sizes)
  BY SizesAre
<1> HIDE DEF n, sizes
<1>5. HoldAll(Registration(sizes, n), m.body) /\ 7 \in DOMAIN Registration(sizes, n)
  BY <1>1, <1>2
<1>6. m.body["PlateNumber"] \in Seq(Octet) /\ n \in Nat
  BY <1>2, <1>5, BytesHeld
<1>7. Formal(Registration(sizes, n))
  BY <1>4, <1>6, RegistrationFormal
<1>8. Formal(FieldsOf(m)) /\ WriteBody(m) = WriteAll(FieldsOf(m), m.body)
  BY <1>1, <1>3, <1>7, Zenon
<1>9. Bodied(m, <<>>)
  BY <1>8, NothingBehind
<1> QED
  BY <1>6, <1>9, Zenon DEF n

LEMMA RegistrationAnswerBodied ==
    ASSUME NEW m, m.header.MsgID = \h8100, HoldAll(FieldsOf(m), m.body)
    PROVE  /\ Bodied(m, <<>>) /\ Len(m.body.AuthCode) \in Nat /\ m.body.AuthCode \in Seq(Octet)
<1> DEFINE n == Len(m.body.AuthCode)
<1>1. /\ FieldsOf(m) = RegistrationAnswer(n)
      /\ WriteBody(m) = WriteAll(RegistrationAnswer(0), m.body)
  BY RegistrationAnswerKind
<1>2. DOMAIN RegistrationAnswer(n) = 1..3 /\ RegistrationAnswer(n)[3] = Bytes("AuthCode", n)
  BY RestIs
<1>3. WriteAll(RegistrationAnswer(0), m.body) = WriteAll(RegistrationAnswer(n), m.body)
  BY FreeWritten
<1> HIDE DEF n
<1>5. HoldAll(RegistrationAnswer(n), m.body) /\ 3 \in DOMAIN RegistrationAnswer(n)
  BY <1>1, <1>2
<1>6. m.body["AuthCode"] \in Seq(Octet) /\ n \in Nat
  BY <1>2, <1>5, BytesHeld
<1>7. Formal(RegistrationAnswer(n))
  BY <1>6, RegistrationAnswerFormal
<1>8. Formal(FieldsOf(m)) /\ WriteBody(m) = WriteAll(FieldsOf(m), m.body)
  BY <1>1, <1>3, <1>7
<1>9. Bodied(m, <<>>)
  BY <1>8, NothingBehind
<1> QED
  BY <1>6, <1>9 DEF n

LEMMA AuthenticationBodied ==
    ASSUME NEW m, m.header.MsgID = \h0102, HoldAll(FieldsOf(m), m.body),
           NamesOf(m) \subseteq DOMAIN m.body,
           HoldsLists(m.header.MsgID, m.header, m.body)
    PROVE  /\ Bodied(m, <<>>) /\ Len(m.body.AuthCode) \in Nat /\ m.body.AuthCode \in Seq(Octet)
           /\ m.header.VersionDesc = Version2019 => Len(m.body.AuthCode) \in Octet
<1> DEFINE n == Len(m.body.AuthCode)
           v == m.header.VersionDesc
           l == Byte("AuthCodeLen")
<1>1. /\ FieldsOf(m) = Authentication(v, n)
      /\ WriteBody(m) = WriteAll(Authentication(v, 0), CodeMeasured(m.body))
      /\ NamesOf(m) = Names(FieldsOf(m))
  BY AuthenticationKind
<1>2. /\ v = Version2019 => DOMAIN Authentication(v, n) = 1..4 /\ Authentication(v, n)[1] = l
                            /\ Authentication(v, n)[2] = Bytes("AuthCode", n)
      /\ v # Version2019 => DOMAIN Authentication(v, n) = 1..1 /\ Authentication(v, n)[1] = Bytes("AuthCode", n)
  BY DEF Authentication
<1>3. v = Version2019 => m.body.AuthCodeLen = n
  BY DEF HoldsLists
<1>4. l.kind = "byte" /\ l.name = "AuthCodeLen"
  BY KindIs DEF l, Byte, F
<1> HIDE DEF n, v, l
<1>5. HoldAll(Authentication(v, n), m.body) /\ Names(Authentication(v, n)) \subseteq DOMAIN m.body
  BY <1>1, Zenon
<1>6. m.body["AuthCode"] \in Seq(Octet) /\ n \in Nat
  <2>1. CASE v = Version2019
    <3>1. 2 \in DOMAIN Authentication(v, n) /\ Bytes("AuthCode", n) = Authentication(v, n)[2]
      BY <1>2, <2>1
    <3> QED
      BY <1>5, <3>1, BytesHeld
  <2>2. CASE v # Version2019
    <3>1. 1 \in DOMAIN Authentication(v, n) /\ Bytes("AuthCode", n) = Authentication(v, n)[1]
      BY <1>2, <2>2
    <3> QED
      BY <1>5, <3>1, BytesHeld
  <2> QED
    BY <2>1, <2>2
<1>7. ASSUME v = Version2019
      PROVE  n \in Octet /\ m.body.AuthCodeLen = n % 256
  <2>1. 1 \in DOMAIN Authentication(v, n) /\ Authentication(v, n)[1] = l
    BY <1>2, <1>7
  <2>2. Holds(l, m.body["AuthCodeLen"])
    BY <1>4, <1>5, <2>1, Zenon DEF HoldAll
  <2>3. m.body["AuthCodeLen"] \in Octet
    BY <1>4, <2>2, HeldIs
  <2>4. n \in Octet
    BY <1>3, <1>7, <2>3
  <2>5. n % 256 = n
    BY <2>4 DEF Octet
  <2> QED
    BY <1>3, <1>7, <2>4, <2>5, Zenon
<1>8. Formal(Authentication(v, n))
      /\ (v = Version2019 => Names(Authentication(v, n)) = {"AuthCodeLen", "AuthCode", "IMEI", "SoftwareVersion"})
      /\ (v # Version2019 => Names(Authentication(v, n)) = {"AuthCode"})
  BY <1>6, AuthenticationFormal
<1>9. "AuthCode" \in DOMAIN m.body
      /\ (v = Version2019 => {"IMEI", "SoftwareVersion"} \subseteq DOMAIN m.body)
  BY <1>5, <1>8
<1>10. WriteAll(Authentication(v, 0), CodeMeasured(m.body)) = WriteAll(Authentication(v, n), m.body)
  <2>1. v = Version2019 => m.body.AuthCodeLen = Len(m.body.AuthCode) % 256 /\ {"IMEI", "SoftwareVersion"} \subseteq DOMAIN m.body
    BY <1>7, <1>9, Zenon DEF n
  <2>2. "AuthCode" \in DOMAIN m.body
    BY <1>9
  <2>3. CodeHeld(v, m.body)
    BY <2>1, <2>2, Zenon DEF CodeHeld
  <2> QED
    BY <2>3, CodeWritten
<1>11. Formal(FieldsOf(m)) /\ WriteBody(m) = WriteAll(FieldsOf(m), m.body)
  BY <1>1, <1>8, <1>10, Zenon
<1>12. Bodied(m, <<>>)
  BY <1>11, NothingBehind
<1> QED
  BY <1>6, <1>7, <1>12, Zenon DEF n, v

LEMMA FieldsRead ==
    ASSUME NEW m, NEW tail, Bodied(m, tail), NEW h, NEW s, NEW rest, Faced(m, h, s, rest)
    PROVE  FieldsFound(m, s, tail)
<1> DEFINE L == FieldsOf(m)
           w == WriteAll(L, m.body)
           all == WriteBody(m)
<1>1. /\ Formal(L) /\ HoldAll(L, m.body) /\ tail \in Seq(Octet) /\ w \in Seq(Octet)
      /\ Len(w) = SizeOf(L) /\ all = w \o tail /\ all \in Seq(Octet)
  BY Zenon DEF Bodied
<1>2. /\ rest \in Seq(Octet) /\ all \o rest = s.mem /\ s.len \in Int
      /\ h.BodyLength = Len(all)
      /\ s.len = h.BodyLength \/ s.len > h.BodyLength + 1
  BY Zenon DEF Faced
<1> HIDE DEF L, w, all
<1>3. Len(all) \in Nat
  BY <1>1, LenProperties
<1>4. Len(all) <= s.len
  <2> DEFINE a == h.BodyLength
             b == s.len
             c == Len(all)
  <2>1. a = c /\ c \in Nat /\ b \in Int /\ (b = a \/ b > a + 1)
    BY <1>2, <1>3
  <2> HIDE DEF a, b, c
  <2>2. c <= b
    BY <2>1
  <2> QED
    BY <2>2 DEF b, c
<1>5. Ahead(s, all)
  BY <1>2, <1>4, Zenon DEF Ahead
<1>6. Ahead(s, w \o tail)
  BY <1>1, <1>5, Zenon
<1>7. Ahead(s, w) /\ Ahead(From(s, Len(w)), tail)
  BY <1>1, <1>6, AheadOf
<1>8. Ahead(s, WriteAll(L, m.body))
  BY <1>7 DEF w
<1>9. Readable(s, L) /\ ReadAll(s, L) = [n \in Names(L) |-> m.body[n]]
  BY <1>1, <1>8, HeldRead
<1>10. Ahead(From(s, SizeOf(L)), tail)
  BY <1>1, <1>7, Zenon
<1> QED
  BY <1>9, <1>10, Zenon DEF FieldsFound, L

LEMMA PlainlyRead ==
    ASSUME NEW h, NEW s, NEW L, BodyLayout(h, s) = L, Readable(s, L), ~HasList(h.MsgID)
    PROVE  ReadBody(h, s) = Got(FALSE, ReadAll(s, L))
<1>1. h.MsgID # \h0104 /\ h.MsgID # \h8103 /\ h.MsgID # \h0200
  BY DEF HasList
<1> QED
  BY <1>1, SMT DEF ReadBody, Got

LEMMA ReportIs ==
    ASSUME NEW h, NEW s, NEW L, BodyLayout(h, s) = L, Readable(s, L), h.MsgID = \h0200
    PROVE  ReadBody(h, s) = Got(ReadExtras(s, h).panic, With(ReadAll(s, L), "Extra", ReadExtras(s, h).extras))
<1> DEFINE e == ReadExtras(s, h)
<1> HIDE DEF e
<1>1. ReadBody(h, s) = Got(e.panic, With(ReadAll(s, L), "Extra", e.extras))
  BY SMT DEF ReadBody, Got, e
<1> QED
  BY <1>1 DEF e

LEMMA ListIs ==
    ASSUME NEW h, NEW s, NEW n, NEW L, BodyLayout(h, s) = L, Readable(s, L), h.MsgID \in {\h0104, \h8103},
           h.MsgID = \h0104 => ReadAll(s, L).AnswerParamCnt = n,
           h.MsgID = \h8103 => ReadAll(s, L).ParamCnt = n
    PROVE  LET r == ReadParams(From(s, SizeOf(L)), n) IN
           ReadBody(h, s) = Got(r.panic, With(ReadAll(s, L), "Parameters", r.params))
<1>1. CASE h.MsgID = \h0104
  <2>1. ReadAll(s, L).AnswerParamCnt = n
    BY <1>1
  <2> QED
    BY <1>1, <2>1, SMT DEF ReadBody, Got
<1>2. CASE h.MsgID = \h8103
  <2>1. ReadAll(s, L).ParamCnt = n
    BY <1>2
  <2> QED
    BY <1>2, <2>1, SMT DEF ReadBody, Got
<1> QED
  BY <1>1, <1>2

LEMMA WholeRead ==
    ASSUME NEW m, Bodied(m, <<>>), NEW h, NEW s, NEW rest, Faced(m, h, s, rest),
           SameLayout(m, h, s), NamesAlone(m)
    PROVE  ReadsMessage(m, h, s)
<1> DEFINE L == FieldsOf(m)
<1>1. FieldsFound(m, s, <<>>)
  BY FieldsRead
<1>2. Readable(s, L) /\ ReadAll(s, L) = [n \in Names(L) |-> m.body[n]]
  BY <1>1, Zenon DEF FieldsFound
<1>3. ~HasList(h.MsgID)
  BY DEF Faced, NamesAlone
<1>4. BodyLayout(h, s) = L
  BY Zenon DEF SameLayout
<1>5. NamesOf(m) = Names(L)
  BY Zenon DEF NamesAlone
<1> HIDE DEF L
<1>6. ReadBody(h, s) = Got(FALSE, ReadAll(s, L))
  BY <1>2, <1>3, <1>4, PlainlyRead
<1>7. ReadAll(s, L) = [n \in NamesOf(m) |-> m.body[n]]
  BY <1>2, <1>5
<1> QED
  BY <1>6, <1>7, Zenon DEF ReadsMessage

LEMMA WholeSize ==
    ASSUME NEW m, Bodied(m, <<>>)
    PROVE  /\ WriteBody(m) = WriteAll(FieldsOf(m), m.body)
           /\ Len(WriteBody(m)) = SizeOf(FieldsOf(m))
<1> DEFINE w == WriteAll(FieldsOf(m), m.body)
<1>1. w \in Seq(Octet) /\ Len(w) = SizeOf(FieldsOf(m)) /\ WriteBody(m) = w \o <<>>
  BY Zenon DEF Bodied
<1> HIDE DEF w
<1>2. w \o <<>> = w
  BY <1>1, ConcatEmptySeq
<1>3. WriteBody(m) = w
  BY <1>1, <1>2, Zenon
<1>4. Len(WriteBody(m)) = SizeOf(FieldsOf(m))
  BY <1>1, <1>3, Zenon
<1> QED
  BY <1>3, <1>4 DEF w

LEMMA PlainReads ==
    ASSUME NEW m, m.header.MsgID \notin Special, HoldAll(FieldsOf(m), m.body),
           NEW h, NEW s, NEW rest, Faced(m, h, s, rest)
    PROVE  ReadsMessage(m, h, s)
<1>1. Bodied(m, <<>>)
  BY PlainBodied
<1>2. SameLayout(m, h, s)
  <2>1. h.MsgID = m.header.MsgID
    BY DEF Faced
  <2>2. BodyLayout(h, s) = PlainLayout(m.header.MsgID) /\ FieldsOf(m) = PlainLayout(m.header.MsgID)
    BY <2>1, PlainKind
  <2> QED
    BY <2>2 DEF SameLayout
<1>3. NamesAlone(m)
  <2>1. NamesOf(m) = Names(FieldsOf(m))
    BY PlainKind
  <2>2. ~HasList(m.header.MsgID)
    BY DEF Special, HasList
  <2> QED
    BY <2>1, <2>2 DEF NamesAlone
<1> QED
  BY <1>1, <1>2, <1>3, WholeRead

LEMMA RegistrationReads ==
    ASSUME NEW m, m.header.MsgID = \h0100, HoldAll(FieldsOf(m), m.body),
           m.header.VersionDesc \in {Version2013, Version2019},
           HoldsLists(m.header.MsgID, m.header, m.body),
           NEW h, NEW s, NEW rest, Faced(m, h, s, rest)
    PROVE  ReadsMessage(m, h, s)
<1> DEFINE n == Len(m.body.PlateNumber)
           v == m.header.VersionDesc
           sizes == Sizes(v)
           len == h.BodyLength
<1>1. Bodied(m, <<>>) /\ n \in Nat /\ m.body.PlateNumber \in Seq(Octet)
  BY RegistrationBodied
<1>2. FieldsOf(m) = Registration(sizes, n) /\ NamesOf(m) = Names(FieldsOf(m))
  BY RegistrationKind
<1>3. h.MsgID = \h0100 /\ h.VersionDesc = v /\ len = Len(WriteBody(m))
  BY DEF Faced
<1>4. v \in {Version2013, Version2019} /\ (v = Version2013 => m.body.PlateNumber # <<>>)
  BY DEF HoldsLists, Version2013, Version2019
<1>5. v # Version2019 => n >= 1
  <2>1. m.body.PlateNumber # <<>> => n # 0
    BY <1>1, EmptySeq
  <2> QED
    BY <1>1, <1>4, <2>1 DEF Version2013, Version2019
<1>6. /\ Sized(sizes) /\ (v = Version2013 => sizes = <<5, 20, 7>>)
  BY SizesAre
<1>7. ASSUME NEW k \in Nat PROVE SizeOf(Registration(sizes, k)) = 5 + sizes[1] + sizes[2] + sizes[3] + k
  BY <1>6, RegistrationFormal
<1>8. sizes[1] \in Nat /\ sizes[2] \in Nat /\ sizes[3] \in Nat
  BY <1>6 DEF Sized
<1>9. len = SizeOf(Registration(sizes, n))
  <2>1. Len(WriteBody(m)) = SizeOf(FieldsOf(m))
    BY <1>1, WholeSize
  <2> QED
    BY <1>2, <1>3, <2>1
<1> HIDE DEF n, v, sizes, len
<1>10. len - SizeOf(Registration(sizes, 0)) = n
  <2> DEFINE a == SizeOf(Registration(sizes, n))
             b == SizeOf(Registration(sizes, 0))
  <2>1. a = 5 + sizes[1] + sizes[2] + sizes[3] + n /\ b = 5 + sizes[1] + sizes[2] + sizes[3] + 0
    BY <1>1, <1>7
  <2>2. len = a
    BY <1>9
  <2> HIDE DEF a, b
  <2>3. len - b = n
    BY <1>1, <1>8, <2>1, <2>2
  <2> QED
    BY <2>3 DEF b
<1>11. VersionRead(h) = v
  <2>1. CASE v = Version2019
    BY <1>3, <2>1 DEF VersionRead, Version2013, Version2019
  <2>2. CASE v # Version2019
    <3>1. v = Version2013 /\ n >= 1
      BY <1>4, <1>5, <2>2
    <3>2. sizes[1] = 5 /\ sizes[2] = 20 /\ sizes[3] = 7
      BY <1>6, <3>1
    <3>3. len = 37 + n
      <4>1. SizeOf(Registration(sizes, n)) = 5 + sizes[1] + sizes[2] + sizes[3] + n
        BY <1>1, <1>7
      <4> QED
        BY <1>1, <1>9, <3>2, <4>1
    <3>4. ~(len - 4 <= 5 + 20 + 7 + 1)
      BY <1>1, <3>1, <3>3
    <3> QED
      BY <1>3, <3>4 DEF VersionRead, len
  <2> QED
    BY <2>1, <2>2
<1>12. RegistrationRead(h) = Registration(sizes, n)
  <2>1. Sizes(VersionRead(h)) = sizes
    BY <1>11 DEF sizes
  <2>2. RegistrationRead(h) = Registration(sizes, len - SizeOf(Registration(sizes, 0)))
    BY <2>1, Zenon DEF RegistrationRead, len
  <2> QED
    BY <1>10, <2>2, Zenon
<1>13. BodyLayout(h, s) = RegistrationRead(h)
  BY <1>3, SMT DEF BodyLayout
<1>14. SameLayout(m, h, s)
  BY <1>2, <1>12, <1>13, Zenon DEF SameLayout
<1>15. NamesAlone(m)
  BY <1>2 DEF NamesAlone, HasList
<1> QED
  BY <1>1, <1>14, <1>15, WholeRead

LEMMA RegistrationAnswerReads ==
    ASSUME NEW m, m.header.MsgID = \h8100, HoldAll(FieldsOf(m), m.body),
           NEW h, NEW s, NEW rest, Faced(m, h, s, rest)
    PROVE  ReadsMessage(m, h, s)
<1> DEFINE n == Len(m.body.AuthCode)
           len == h.BodyLength
<1>1. Bodied(m, <<>>) /\ n \in Nat
  BY RegistrationAnswerBodied
<1>2. FieldsOf(m) = RegistrationAnswer(n) /\ NamesOf(m) = Names(FieldsOf(m))
  BY RegistrationAnswerKind
<1>3. h.MsgID = \h8100 /\ len = Len(WriteBody(m))
  BY DEF Faced
<1>4. len = SizeOf(RegistrationAnswer(n))
  <2>1. Len(WriteBody(m)) = SizeOf(FieldsOf(m))
    BY <1>1, WholeSize
  <2> QED
    BY <1>2, <1>3, <2>1
<1> HIDE DEF n, len
<1>5. len - SizeOf(RegistrationAnswer(0)) = n
  <2>1. SizeOf(RegistrationAnswer(n)) = 3 + n /\ SizeOf(RegistrationAnswer(0)) = 3 + 0
    BY <1>1, RegistrationAnswerFormal
  <2> QED
    BY <1>1, <1>4, <2>1
<1>6. BodyLayout(h, s) = RegistrationAnswer(len - SizeOf(RegistrationAnswer(0)))
  BY <1>3, SMT DEF BodyLayout, len
<1>7. SameLayout(m, h, s)
  BY <1>2, <1>5, <1>6 DEF SameLayout
<1>8. NamesAlone(m)
  BY <1>2 DEF NamesAlone, HasList
<1> QED
  BY <1>1, <1>7, <1>8, WholeRead

LEMMA AuthenticationReads ==
    ASSUME NEW m, m.header.MsgID = \h0102, HoldAll(FieldsOf(m), m.body),
           NamesOf(m) \subseteq DOMAIN m.body,
           HoldsLists(m.header.MsgID, m.header, m.body),
           NEW h, NEW s, NEW rest, Faced(m, h, s, rest)
    PROVE  ReadsMessage(m, h, s)
<1> DEFINE n == Len(m.body.AuthCode)
           v == m.header.VersionDesc
           len == h.BodyLength
           L == Authentication(v, n)
<1>1. Bodied(m, <<>>) /\ n \in Nat
  BY AuthenticationBodied
<1>2. FieldsOf(m) = L /\ NamesOf(m) = Names(FieldsOf(m))
  BY AuthenticationKind
<1>3. h.MsgID = \h0102 /\ h.VersionDesc = v /\ len = Len(WriteBody(m))
  BY DEF Faced
<1>4. len = SizeOf(L)
  <2>1. Len(WriteBody(m)) = SizeOf(FieldsOf(m))
    BY <1>1, WholeSize
  <2> QED
    BY <1>2, <1>3, <2>1
<1>5. v = Version2019 => m.body.AuthCodeLen = n
  BY DEF HoldsLists
<1> HIDE DEF n, v, len, L
<1>6. BodyLayout(h, s) = AuthenticationRead(h, s)
  BY <1>3, SMT DEF BodyLayout
<1>7. AuthenticationRead(h, s) = L
  <2>1. CASE v # Version2019
    <3>1. L = <<Bytes("AuthCode", n)>>
      BY <2>1 DEF Authentication, L
    <3>2. SizeOf(L) = n
      <4>1. Bytes("AuthCode", n).size = n
        BY DEF Bytes, F
      <4>2. SizeOf(<<Bytes("AuthCode", n)>>) = Bytes("AuthCode", n).size
        <5> DEFINE x == Bytes("AuthCode", n)
        <5>1. x.size \in Nat
          BY <1>1, <4>1
        <5> HIDE DEF x
        <5>2. SizeOf(<<x>>) = x.size
          BY <5>1, SizeOne
        <5> QED
          BY <5>2 DEF x
      <4> QED
        BY <3>1, <4>1, <4>2
    <3>3. AuthenticationRead(h, s) = Authentication(v, len)
      BY <1>3, <2>1 DEF AuthenticationRead, len
    <3>4. len = n
      BY <1>4, <3>2
    <3> QED
      BY <3>3, <3>4 DEF L
  <2>2. CASE v = Version2019
    <3>1. FieldsFound(m, s, <<>>)
      BY <1>1, FieldsRead
    <3>2. Readable(s, L) /\ ReadAll(s, L) = [x \in Names(L) |-> m.body[x]]
      BY <1>2, <3>1 DEF FieldsFound
    <3>3. DOMAIN L = {1, 2, 3, 4} /\ L[1] = Byte("AuthCodeLen")
      BY <2>2 DEF Authentication, L
    <3>4. s.len # 0
      <4>1. OffsetOf(L, 1) < s.len /\ OffsetOf(L, 1) = 0
        <5>1. L[1].kind = "byte" /\ 1 \in DOMAIN L
          BY <3>3 DEF Byte, F
        <5>2. OffsetOf(L, 1) < s.len
          BY <3>2, <5>1 DEF Readable
        <5>3. SubSeq(L, 1, 1 - 1) = <<>>
          OBVIOUS
        <5>4. OffsetOf(L, 1) = 0
          BY <5>3, SizeEmpty DEF OffsetOf
        <5> QED
          BY <5>2, <5>4
      <4> QED
        BY <4>1
    <3>5. s.mem[1] = n
      <4> DEFINE w == WriteAll(L, m.body)
      <4>1. w \in Seq(Octet) /\ Formal(L) /\ HoldAll(L, m.body) /\ WriteBody(m) = w
        <5>1. /\ WriteAll(FieldsOf(m), m.body) \in Seq(Octet)
              /\ Formal(FieldsOf(m)) /\ HoldAll(FieldsOf(m), m.body)
          BY <1>1, Zenon DEF Bodied
        <5>2. WriteBody(m) = WriteAll(FieldsOf(m), m.body)
          BY <1>1, WholeSize
        <5> QED
          BY <1>2, <5>1, <5>2
      <4>2. Suits(L, m.body)
        BY <4>1, HeldSuits
      <4>3. 1 \in 1..Len(L)
        BY <4>1, <3>3, FormalFacts
      <4>4. \A i \in 1..L[1].size : w[OffsetOf(L, 1) + i] = Write(L[1], m.body[L[1].name])[i]
        BY <4>2, <4>3, FieldsWritten
      <4>5. L[1].size = 1 /\ L[1].name = "AuthCodeLen" /\ L[1].kind = "byte"
        BY <3>3 DEF Byte, F
      <4>6. OffsetOf(L, 1) = 0
        <5>1. SubSeq(L, 1, 1 - 1) = <<>>
          OBVIOUS
        <5> QED
          BY <5>1, SizeEmpty DEF OffsetOf
      <4>7. Write(L[1], m.body["AuthCodeLen"]) = <<m.body["AuthCodeLen"]>>
        BY <4>5 DEF Write
      <4> HIDE DEF w
      <4>8. w[1] = m.body["AuthCodeLen"]
        <5>1. 1 \in 1..L[1].size /\ OffsetOf(L, 1) + 1 = 1
          BY <4>5, <4>6
        <5>2. w[1] = Write(L[1], m.body["AuthCodeLen"])[1]
          BY <4>4, <4>5, <5>1
        <5> QED
          BY <4>7, <5>2
      <4>9. rest \in Seq(Octet) /\ w \o rest = s.mem
        <5>1. rest \in Seq(Octet) /\ WriteBody(m) \o rest = s.mem
          BY Zenon DEF Faced
        <5> QED
          BY <4>1, <5>1
      <4>10. Len(w) >= 1
        <5>1. Len(w) = SizeOf(L)
          BY <4>2, FieldsWritten DEF w
        <5>2. OffsetOf(L, 1) + L[1].size <= SizeOf(L)
          BY <4>2, <4>3, FieldsWritten
        <5> QED
          BY <4>5, <4>6, <5>1, <5>2
      <4>11. s.mem[1] = w[1]
        <5>1. \A j \in 1..Len(w) : s.mem[j] = w[j]
          BY <4>1, <4>9, Behind
        <5>2. Len(w) \in Nat
          BY <4>1, LenProperties
        <5> QED
          BY <4>10, <5>1, <5>2
      <4> QED
        BY <1>5, <2>2, <4>8, <4>11
    <3> QED
      BY <1>3, <2>2, <3>4, <3>5 DEF AuthenticationRead, L
  <2> QED
    BY <2>1, <2>2
<1>8. SameLayout(m, h, s)
  BY <1>2, <1>6, <1>7, Zenon DEF SameLayout
<1>9. NamesAlone(m)
  BY <1>2 DEF NamesAlone, HasList
<1> QED
  BY <1>1, <1>8, <1>9, WholeRead

LEMMA WithList ==
    ASSUME NEW names, NEW b, NEW field
    PROVE  WithIt(names, b, field)
BY DEF With, WithIt

LEMMA SettingBodied ==
    ASSUME NEW m, IsSetting(m.header), HoldAll(FieldsOf(m), m.body),
           HoldsLists(m.header.MsgID, m.header, m.body)
    PROVE  Bodied(m, ListOctets(m.body.Parameters))
<1> DEFINE b == m.body
           list == m.body.Parameters
           tail == ListOctets(list)
           L == FieldsOf(m)
           n == Len(list)
           w == WriteAll(L, b)
           body == WriteBody(m)
<1>1. L = ParamsSetting /\ body = WriteParams(list) /\ NamesOf(m) = Names(L) \cup {"Parameters"}
  BY ParamsSettingKind DEF IsSetting
<1>2. b["ParamCnt"] = n /\ HoldsParams(list) /\ b["Parameters"] = list
  BY DEF HoldsLists, IsSetting
<1>3. HoldAll(L, b)
  OBVIOUS
<1> HIDE DEF L, b, list, n, body
<1>5. Formal(L) /\ HoldAll(ParamsSetting, b) /\ "ParamCnt" \in Names(L)
  BY <1>1, <1>3, ParamsSettingFormal
<1>6. w = <<b["ParamCnt"]>>
  <2>0. HoldAll(ParamsSetting, b)
    BY <1>5
  <2>1. WriteAll(ParamsSetting, b) = <<b.ParamCnt>>
    BY <2>0, CountWritten
  <2> QED
    BY <1>1, <2>1
<1>7. tail \in Seq(Octet) /\ WriteParams(list) = <<n>> \o tail
  <2>1. HoldsParams(list)
    BY <1>2
  <2> QED
    BY <2>1, ListWritten DEF n
<1> HIDE DEF tail, w
<1>8. body = w \o tail
  <2>1. <<n>> = <<b["ParamCnt"]>>
    BY <1>2
  <2> QED
    BY <1>1, <1>6, <1>7, <2>1
<1>9. Bodied(m, tail)
  <2>1. Formal(FieldsOf(m)) /\ HoldAll(FieldsOf(m), m.body)
    BY <1>3, <1>5 DEF L, b
  <2>2. WriteBody(m) = WriteAll(FieldsOf(m), m.body) \o tail
    BY <1>8 DEF body, w, L, b
  <2>3. tail \in Seq(Octet)
    BY <1>7
  <2> QED
    BY <2>1, <2>2, <2>3, BodiedIs
<1> QED
  BY <1>9 DEF tail, list

LEMMA SettingReads ==
    ASSUME NEW m, IsSetting(m.header), HoldAll(FieldsOf(m), m.body),
           HoldsLists(m.header.MsgID, m.header, m.body),
           NEW h, NEW s, NEW rest, Faced(m, h, s, rest)
    PROVE  ReadsMessage(m, h, s)
<1> DEFINE b == m.body
           list == m.body.Parameters
           tail == ListOctets(list)
           L == FieldsOf(m)
           n == Len(list)
           w == WriteAll(L, b)
           body == WriteBody(m)
           t == From(s, SizeOf(L))
           read == ReadAll(s, L)
<1>1. L = ParamsSetting /\ body = WriteParams(list) /\ NamesOf(m) = Names(L) \cup {"Parameters"}
  BY ParamsSettingKind DEF IsSetting
<1>2. b["ParamCnt"] = n /\ HoldsParams(list) /\ b["Parameters"] = list
  BY DEF HoldsLists, IsSetting
<1>3. HoldAll(L, b)
  OBVIOUS
<1>4. IsSetting(h)
  BY DEF Faced, IsSetting
<1> HIDE DEF L, b, list, n, body, read
<1>5. Formal(L) /\ HoldAll(ParamsSetting, b) /\ "ParamCnt" \in Names(L)
  BY <1>1, <1>3, ParamsSettingFormal
<1> HIDE DEF tail
<1>9. Bodied(m, tail)
  BY SettingBodied DEF tail, list
<1>10. FieldsFound(m, s, tail)
  BY <1>9, FieldsRead
<1>11. Readable(s, L) /\ read = [x \in Names(L) |-> b[x]] /\ Ahead(t, tail)
  BY <1>10 DEF FieldsFound, L, b, read
<1>12. BodyLayout(h, s) = L
  BY <1>1, <1>4, SMT DEF BodyLayout, IsSetting
<1> HIDE DEF t
<1>13. ReadParams(t, n) = [panic |-> FALSE, idx |-> Len(tail), params |-> list]
  BY <1>2, <1>11, ListRead DEF tail, n
<1>14. read["ParamCnt"] = n
  BY <1>2, <1>5, <1>11
<1>15. LET r == ReadParams(t, n) IN ReadBody(h, s) = Got(r.panic, With(read, "Parameters", r.params))
  <2>1. h.MsgID \in {\h0104, \h8103} /\ (h.MsgID = \h0104 => read.AnswerParamCnt = n)
        /\ (h.MsgID = \h8103 => read.ParamCnt = n)
    BY <1>4, <1>14 DEF IsSetting
  <2> QED
    BY <1>11, <1>12, <2>1, ListIs DEF read, t
<1>16. ReadBody(h, s) = Got(FALSE, With(read, "Parameters", list))
  <2> DEFINE r == ReadParams(t, n)
  <2>1. r.panic = FALSE /\ r.params = list
    BY <1>13
  <2>2. ReadBody(h, s) = Got(r.panic, With(read, "Parameters", r.params))
    BY <1>15
  <2> HIDE DEF r
  <2> HIDE DEF list
  <2>3. ReadBody(h, s) = Got(FALSE, With(read, "Parameters", list))
    BY <2>1, <2>2, Zenon
  <2> QED
    BY <2>3
<1>17. With(read, "Parameters", list) = [x \in NamesOf(m) |-> b[x]]
  <2>1. WithIt(Names(L), b, "Parameters")
    BY WithList
  <2>2. With([x \in Names(L) |-> b[x]], "Parameters", b["Parameters"]) = [x \in Names(L) \cup {"Parameters"} |-> b[x]]
    BY <2>1 DEF WithIt
  <2> QED
    BY <1>1, <1>2, <1>11, <2>2
<1>18. ReadsMessage(m, h, s)
  <2>1. ReadBody(h, s) = Got(FALSE, [x \in NamesOf(m) |-> b[x]])
    BY <1>16, <1>17
  <2> QED
    BY <2>1 DEF ReadsMessage, b
<1> QED
  BY <1>18 DEF tail, list

LEMMA AnswerCount ==
    ASSUME NEW b, HoldAll(ParamsAnswer, b)
    PROVE  /\ WriteAll(ParamsAnswer, b) = WriteWord(b.AnswerSerialNumber) \o <<b.AnswerParamCnt>>
           /\ WriteWord(b.AnswerSerialNumber) \in Seq(Octet) /\ <<b.AnswerParamCnt>> \in Seq(Octet)
BY CountWritten, Zenon

LEMMA SettingsAnswerBodied ==
    ASSUME NEW m, m.header.MsgID = \h0104, HoldAll(FieldsOf(m), m.body),
           HoldsLists(m.header.MsgID, m.header, m.body)
    PROVE  Bodied(m, ListOctets(m.body.Parameters))
<1> DEFINE b == m.body
           list == m.body.Parameters
           tail == ListOctets(list)
           L == FieldsOf(m)
           n == Len(list)
           w == WriteAll(L, b)
           body == WriteBody(m)
           u == WriteWord(b.AnswerSerialNumber)
           c == <<b.AnswerParamCnt>>
<1>1. L = ParamsAnswer /\ body = u \o WriteParams(list) /\ NamesOf(m) = Names(L) \cup {"Parameters"}
  BY ParamsAnswerKind
<1>2. b["AnswerParamCnt"] = n /\ HoldsParams(list) /\ b["Parameters"] = list
  BY DEF HoldsLists
<1>3. HoldAll(L, b)
  OBVIOUS
<1> HIDE DEF L, b, list, n, body, u, c
<1>5. Formal(L) /\ HoldAll(ParamsAnswer, b) /\ "AnswerParamCnt" \in Names(L)
  BY <1>1, <1>3, ParamsAnswerFormal
<1>6. w = u \o c /\ u \in Seq(Octet) /\ c \in Seq(Octet)
  <2>0. HoldAll(ParamsAnswer, b)
    BY <1>5
  <2>1. WriteAll(ParamsAnswer, b) = u \o c /\ u \in Seq(Octet) /\ c \in Seq(Octet)
    BY <2>0, AnswerCount DEF u, c
  <2> QED
    BY <1>1, <2>1
<1>7. tail \in Seq(Octet) /\ WriteParams(list) = <<n>> \o tail
  <2>1. HoldsParams(list)
    BY <1>2
  <2> QED
    BY <2>1, ListWritten DEF n
<1> HIDE DEF tail, w
<1>8. body = w \o tail
  <2>1. <<n>> = c
    BY <1>2 DEF c
  <2>2. (u \o c) \o tail = u \o (c \o tail)
    BY <1>6, <1>7, ConcatAssociative
  <2> QED
    BY <1>1, <1>6, <1>7, <2>1, <2>2, Zenon
<1>9. Bodied(m, tail)
  <2>1. Formal(FieldsOf(m)) /\ HoldAll(FieldsOf(m), m.body)
    BY <1>3, <1>5 DEF L, b
  <2>2. WriteBody(m) = WriteAll(FieldsOf(m), m.body) \o tail
    BY <1>8 DEF body, w, L, b
  <2>3. tail \in Seq(Octet)
    BY <1>7
  <2> QED
    BY <2>1, <2>2, <2>3, BodiedIs
<1> QED
  BY <1>9 DEF tail, list

LEMMA SettingsAnswerReads ==
    ASSUME NEW m, m.header.MsgID = \h0104, HoldAll(FieldsOf(m), m.body),
           HoldsLists(m.header.MsgID, m.header, m.body),
           NEW h, NEW s, NEW rest, Faced(m, h, s, rest)
    PROVE  ReadsMessage(m, h, s)
<1> DEFINE b == m.body
           list == m.body.Parameters
           tail == ListOctets(list)
           L == FieldsOf(m)
           n == Len(list)
           w == WriteAll(L, b)
           body == WriteBody(m)
           t == From(s, SizeOf(L))
           read == ReadAll(s, L)
           u == WriteWord(b.AnswerSerialNumber)
           c == <<b.AnswerParamCnt>>
<1>1. L = ParamsAnswer /\ body = u \o WriteParams(list) /\ NamesOf(m) = Names(L) \cup {"Parameters"}
  BY ParamsAnswerKind
<1>2. b["AnswerParamCnt"] = n /\ HoldsParams(list) /\ b["Parameters"] = list
  BY DEF HoldsLists
<1>3. HoldAll(L, b)
  OBVIOUS
<1>4. h.MsgID = \h0104
  BY DEF Faced
<1> HIDE DEF L, b, list, n, body, read, u, c
<1>5. Formal(L) /\ HoldAll(ParamsAnswer, b) /\ "AnswerParamCnt" \in Names(L)
  BY <1>1, <1>3, ParamsAnswerFormal
<1> HIDE DEF tail
<1>9. Bodied(m, tail)
  BY SettingsAnswerBodied DEF tail, list
<1>10. FieldsFound(m, s, tail)
  BY <1>9, FieldsRead
<1>11. Readable(s, L) /\ read = [x \in Names(L) |-> b[x]] /\ Ahead(t, tail)
  BY <1>10 DEF FieldsFound, L, b, read
<1>12. BodyLayout(h, s) = L
  BY <1>1, <1>4, SMT DEF BodyLayout
<1> HIDE DEF t
<1>13. ReadParams(t, n) = [panic |-> FALSE, idx |-> Len(tail), params |-> list]
  BY <1>2, <1>11, ListRead DEF tail, n
<1>14. read["AnswerParamCnt"] = n
  BY <1>2, <1>5, <1>11
<1>15. LET r == ReadParams(t, n) IN ReadBody(h, s) = Got(r.panic, With(read, "Parameters", r.params))
  <2>1. h.MsgID \in {\h0104, \h8103} /\ (h.MsgID = \h0104 => read.AnswerParamCnt = n)
        /\ (h.MsgID = \h8103 => read.ParamCnt = n)
    BY <1>4, <1>14
  <2> QED
    BY <1>11, <1>12, <2>1, ListIs DEF read, t
<1>16. ReadBody(h, s) = Got(FALSE, With(read, "Parameters", list))
  <2> DEFINE r == ReadParams(t, n)
  <2>1. r.panic = FALSE /\ r.params = list
    BY <1>13
  <2>2. ReadBody(h, s) = Got(r.panic, With(read, "Parameters", r.params))
    BY <1>15
  <2> HIDE DEF r
  <2> HIDE DEF list
  <2>3. ReadBody(h, s) = Got(FALSE, With(read, "Parameters", list))
    BY <2>1, <2>2, Zenon
  <2> QED
    BY <2>3
<1>17. With(read, "Parameters", list) = [x \in NamesOf(m) |-> b[x]]
  <2>1. WithIt(Names(L), b, "Parameters")
    BY WithList
  <2>2. With([x \in Names(L) |-> b[x]], "Parameters", b["Parameters"]) = [x \in Names(L) \cup {"Parameters"} |-> b[x]]
    BY <2>1 DEF WithIt
  <2> QED
    BY <1>1, <1>2, <1>11, <2>2
<1>18. ReadsMessage(m, h, s)
  <2>1. ReadBody(h, s) = Got(FALSE, [x \in NamesOf(m) |-> b[x]])
    BY <1>16, <1>17
  <2> QED
    BY <2>1 DEF ReadsMessage, b
<1> QED
  BY <1>18 DEF tail, list

LEMMA ReportBodied ==
    ASSUME NEW m, m.header.MsgID = \h0200, HoldAll(FieldsOf(m), m.body),
           HoldsLists(m.header.MsgID, m.header, m.body)
    PROVE  Bodied(m, WriteExtras(m.body.Extra))
<1> DEFINE b == m.body
           list == m.body.Extra
           tail == WriteExtras(list)
           L == FieldsOf(m)
           w == WriteAll(L, b)
<1>1. L = Position /\ WriteBody(m) = WriteAll(Position, b) \o tail /\ NamesOf(m) = Names(L) \cup {"Extra"}
  BY PositionKind
<1>2. HoldsExtras(list)
  BY DEF HoldsLists, HoldsExtras
<1>3. Formal(L) /\ HoldAll(L, b)
  BY <1>1, PositionFormal
<1>5. tail \in Seq(Octet)
  BY <1>2, ExtrasWritten
<1>6. WriteBody(m) = w \o tail
  <2> HIDE DEF tail, list, b, L
  <2> QED
    BY <1>1 DEF w
<1>7. Bodied(m, tail)
  <2> HIDE DEF tail
  <2> QED
    BY <1>3, <1>5, <1>6, BodiedIs
<1> QED
  BY <1>7 DEF tail, list

LEMMA ReportReads ==
    ASSUME NEW m, m.header.MsgID = \h0200, HoldAll(FieldsOf(m), m.body),
           HoldsLists(m.header.MsgID, m.header, m.body),
           NEW h, NEW s, NEW rest, Faced(m, h, s, rest)
    PROVE  ReadsMessage(m, h, s)
<1> DEFINE b == m.body
           list == m.body.Extra
           tail == WriteExtras(list)
           L == FieldsOf(m)
           w == WriteAll(L, b)
<1>1. L = Position /\ WriteBody(m) = WriteAll(Position, b) \o tail /\ NamesOf(m) = Names(L) \cup {"Extra"}
  BY PositionKind
<1>2. HoldsExtras(list)
  BY DEF HoldsLists, HoldsExtras
<1>3. Formal(L) /\ HoldAll(L, b)
  BY <1>1, PositionFormal
<1>6. WriteBody(m) = w \o tail
  <2> HIDE DEF tail, list, b, L
  <2> QED
    BY <1>1 DEF w
<1>7. Bodied(m, tail)
  BY ReportBodied DEF tail, list
<1>8. FieldsFound(m, s, tail)
  BY <1>7, FieldsRead
<1>9. Readable(s, L) /\ ReadAll(s, L) = [x \in Names(L) |-> b[x]]
  BY <1>8, Zenon DEF FieldsFound
<1>10. h.MsgID = \h0200
  BY DEF Faced
<1>11. BodyLayout(h, s) = L
  BY <1>1, <1>10, SMT DEF BodyLayout
<1>12. ReadExtras(s, h) = Found(FALSE, list)
  <2>1. w \in Seq(Octet) /\ Len(w) = SizeOf(L)
    BY <1>3, HeldRead
  <2> HIDE DEF w, tail, L
  <2>2. /\ h.BodyLength = Len(WriteBody(m))
        /\ rest \in Seq(Octet) /\ WriteBody(m) \o rest = s.mem
        /\ s.len \in Int /\ s.len <= Len(s.mem)
        /\ s.len = h.BodyLength \/ s.len > h.BodyLength + 1
    BY DEF Faced
  <2>3. ItemsAhead(s, h, w, list, rest)
    <3> DEFINE all == WriteBody(m)
    <3>1. w \o WriteExtras(list) = all
      BY <1>6 DEF tail
    <3>2. Len(w) = SizeOf(Position)
      BY <1>1, <2>1
    <3> HIDE DEF all
    <3>3. (w \o WriteExtras(list)) \o rest = s.mem /\ h.BodyLength = Len(w \o WriteExtras(list))
      <4>1. all \o rest = s.mem /\ h.BodyLength = Len(all)
        BY <2>2 DEF all
      <4> QED
        BY <3>1, <4>1
    <3> QED
      BY <2>1, <2>2, <3>2, <3>3 DEF ItemsAhead
  <2>4. HoldsExtras(list)
    BY <1>2
  <2> HIDE DEF list
  <2> QED
    BY <2>3, <2>4, ExtrasRead
<1> HIDE DEF L, list, tail, b
<1>15. ReadBody(h, s) = Got(FALSE, With(ReadAll(s, L), "Extra", list))
  <2>1. ReadBody(h, s) = Got(ReadExtras(s, h).panic, With(ReadAll(s, L), "Extra", ReadExtras(s, h).extras))
    BY <1>9, <1>10, <1>11, ReportIs
  <2> DEFINE r == ReadExtras(s, h)
  <2>2. r.panic = FALSE /\ r.extras = list
    BY <1>12 DEF Found
  <2>3. ReadBody(h, s) = Got(r.panic, With(ReadAll(s, L), "Extra", r.extras))
    BY <2>1
  <2> HIDE DEF r
  <2> QED
    BY <2>2, <2>3
<1>16. With(ReadAll(s, L), "Extra", list) = [x \in NamesOf(m) |-> b[x]]
  <2>3. WithIt(Names(L), b, "Extra")
    BY WithList
  <2>1. With([x \in Names(L) |-> b[x]], "Extra", b["Extra"]) = [x \in Names(L) \cup {"Extra"} |-> b[x]]
    BY <2>3 DEF WithIt
  <2>2. list = b["Extra"]
    BY DEF list, b
  <2> QED
    BY <1>1, <1>9, <2>1, <2>2
<1>17. ReadsMessage(m, h, s)
  BY <1>15, <1>16 DEF ReadsMessage, b
<1> QED
  BY <1>17 DEF tail, list

LEMMA WrittenIs ==
    ASSUME NEW m, Written(m)
    PROVE  /\ HoldAll(FieldsOf(m), m.body) /\ NamesOf(m) \subseteq DOMAIN m.body
           /\ HoldsLists(m.header.MsgID, m.header, m.body)
           /\ m.header.VersionDesc \in {Version2013, Version2019}
           /\ Whole(m.header)
BY DEF Written, Writable, Whole

LEMMA MessageWritten ==
    ASSUME NEW m, Written(m)
    PROVE  WriteBody(m) \in Seq(Octet)
<1> DEFINE id == m.header.MsgID
<1>1. /\ HoldAll(FieldsOf(m), m.body) /\ NamesOf(m) \subseteq DOMAIN m.body
      /\ HoldsLists(m.header.MsgID, m.header, m.body)
      /\ m.header.VersionDesc \in {Version2013, Version2019}
  BY WrittenIs
<1>2. \E tail : Bodied(m, tail)
  <2>1. CASE id \notin Special
    BY <1>1, <2>1, PlainBodied
  <2>2. CASE id = \h0100
    BY <1>1, <2>2, RegistrationBodied
  <2>3. CASE id = \h0102
    BY <1>1, <2>3, AuthenticationBodied
  <2>4. CASE id = \h0104
    BY <1>1, <2>4, SettingsAnswerBodied
  <2>5. CASE id = \h0200
    BY <1>1, <2>5, ReportBodied
  <2>6. CASE id = \h8100
    BY <1>1, <2>6, RegistrationAnswerBodied
  <2>7. CASE id = \h8103
    BY <1>1, <2>7, SettingBodied DEF IsSetting
  <2> QED
    BY <2>1, <2>2, <2>3, <2>4, <2>5, <2>6, <2>7 DEF Special
<1>3. PICK tail : Bodied(m, tail)
  BY <1>2
<1> QED
  BY <1>3, Zenon DEF Bodied

\* A message is read as it was written, by a reader that knows its kind, its version
\* and the length of its body: the Decode of every message undoes its Encode.
THEOREM MessageKept ==
    ASSUME NEW m, Written(m), NEW h, NEW s, NEW rest, Faced(m, h, s, rest)
    PROVE  ReadsMessage(m, h, s)
<1> DEFINE id == m.header.MsgID
<1>1. /\ HoldAll(FieldsOf(m), m.body) /\ NamesOf(m) \subseteq DOMAIN m.body
      /\ HoldsLists(m.header.MsgID, m.header, m.body)
      /\ m.header.VersionDesc \in {Version2013, Version2019}
  BY WrittenIs
<1>2. CASE id \notin Special
  BY <1>1, <1>2, PlainReads
<1>3. CASE id = \h0100
  BY <1>1, <1>3, RegistrationReads
<1>4. CASE id = \h0102
  BY <1>1, <1>4, AuthenticationReads
<1>5. CASE id = \h0104
  BY <1>1, <1>5, SettingsAnswerReads
<1>6. CASE id = \h0200
  BY <1>1, <1>6, ReportReads
<1>7. CASE id = \h8100
  BY <1>1, <1>7, RegistrationAnswerReads
<1>8. CASE id = \h8103
  BY <1>1, <1>8, SettingReads DEF IsSetting
<1> QED
  BY <1>2, <1>3, <1>4, <1>5, <1>6, <1>7, <1>8 DEF Special

-----------------------------------------------------------------------------
(* Sequences of sequences, joined.                                         *)

LEMMA JoinStepsExist ==
    ASSUME NEW X, NEW ps \in Seq(Seq(X))
    PROVE  \E f : JoinSteps(X, ps, f)
<1>1. PICK f \in [0..Len(ps) -> Seq(X)] :
             /\ f[0] = <<>>
             /\ \A i \in 1..Len(ps) : f[i] = f[i - 1] \o ps[i]
             /\ FlattenSeq(ps) = f[Len(ps)]
  BY FlattenSteps
<1>2. JoinSteps(X, ps, f)
  BY <1>1, Zenon DEF JoinSteps
<1> QED
  BY <1>2

LEMMA FlattenTyped ==
    ASSUME NEW X, NEW ps \in Seq(Seq(X))
    PROVE  FlattenSeq(ps) \in Seq(X)
<1>1. PICK f : JoinSteps(X, ps, f)
  BY JoinStepsExist
<1>2. Len(ps) \in 0..Len(ps)
  <2>1. Len(ps) \in Nat
    BY LenProperties
  <2> QED
    BY <2>1
<1> QED
  BY <1>1, <1>2 DEF JoinSteps

LEMMA FlattenJoined ==
    ASSUME NEW X, NEW a \in Seq(Seq(X)), NEW b \in Seq(Seq(X)), NEW c, c = a \o b
    PROVE  FlattenedBoth(a, b, c)
<1> DEFINE k == Len(a)
           n == Len(b)
<1>1. /\ c \in Seq(Seq(X)) /\ Len(c) = k + n
      /\ \A j \in 1..k : c[j] = a[j]
      /\ \A j \in 1..n : c[k + j] = b[j]
  <2> DEFINE Y == Seq(X)
  <2>1. a \in Seq(Y) /\ b \in Seq(Y)
    OBVIOUS
  <2> HIDE DEF Y
  <2>2. /\ c \in Seq(Y) /\ Len(c) = k + n
        /\ \A j \in 1..k : c[j] = a[j]
        /\ \A j \in 1..n : c[k + j] = b[j]
    BY <2>1, Behind
  <2> QED
    BY <2>2 DEF Y
<1>2. k \in Nat /\ n \in Nat /\ \A j \in 1..n : b[j] \in Seq(X)
  BY LenProperties, ElementOfSeq
<1>3. PICK f : JoinSteps(X, a, f)
  BY JoinStepsExist
<1>4. PICK g : JoinSteps(X, b, g)
  BY JoinStepsExist
<1>5. PICK h : JoinSteps(X, c, h)
  BY <1>1, JoinStepsExist
<1>6. /\ f[0] = <<>> /\ \A i \in 1..k : f[i] = f[i - 1] \o a[i]
      /\ FlattenSeq(a) = f[k] /\ \A i \in 0..k : f[i] \in Seq(X)
  BY <1>3 DEF JoinSteps
<1>7. /\ g[0] = <<>> /\ \A i \in 1..n : g[i] = g[i - 1] \o b[i]
      /\ FlattenSeq(b) = g[n] /\ \A i \in 0..n : g[i] \in Seq(X)
  BY <1>4 DEF JoinSteps
<1>8. /\ h[0] = <<>> /\ \A i \in 1..k + n : h[i] = h[i - 1] \o c[i]
      /\ FlattenSeq(c) = h[k + n]
  <2>1. Len(c) = k + n
    BY <1>1
  <2> HIDE DEF k, n
  <2> QED
    BY <1>5, <2>1 DEF JoinSteps
<1> HIDE DEF k, n
<1>9. \A i \in 0..k : h[i] = f[i]
  <2> DEFINE S == {i \in 0..k : h[i] = f[i]}
  <2>1. 0 \in S /\ S \in SUBSET (0..k)
    BY <1>2, <1>6, <1>8
  <2>2. ASSUME NEW i \in 1..k, i - 1 \in S PROVE i \in S
    <3>1. h[i] = h[i - 1] \o c[i] /\ c[i] = a[i] /\ f[i] = f[i - 1] \o a[i] /\ h[i - 1] = f[i - 1]
      <4>1. i \in 1..k + n
        BY <1>2
      <4> QED
        BY <1>1, <1>6, <1>8, <2>2, <4>1
    <3>2. h[i] = f[i]
      BY <3>1, Zenon
    <3> QED
      BY <3>2
  <2> HIDE DEF S
  <2>3. \A i \in 0..k : i \in S
    BY <1>2, <2>1, <2>2, UpTo
  <2> QED
    BY <2>3 DEF S
<1>10. k \in 0..k /\ f[k] \in Seq(X) /\ h[k] = f[k]
  BY <1>2, <1>6, <1>9
<1>11. \A j \in 0..n : h[k + j] = f[k] \o g[j]
  <2> DEFINE P(j) == h[k + j] = f[k] \o g[j]
             S == {j \in 0..n : P(j)}
  <2>1. P(0)
    <3>1. f[k] \o <<>> = f[k]
      BY <1>10, ConcatEmptySeq
    <3>2. k + 0 = k
      BY <1>2
    <3> QED
      BY <1>7, <1>10, <3>1, <3>2, Zenon
  <2>2. ASSUME NEW j \in 1..n, P(j - 1) PROVE P(j)
    <3> DEFINE u == f[k]
               v == g[j - 1]
               w == b[j]
    <3>1. k + j \in 1..k + n /\ (k + j) - 1 = k + (j - 1) /\ j - 1 \in 0..n
      BY <1>2
    <3>2. h[k + j] = h[(k + j) - 1] \o c[k + j]
      BY <1>8, <3>1
    <3>3. c[k + j] = w
      BY <1>1
    <3>4. g[j] = v \o w
      BY <1>7
    <3>5. u \in Seq(X) /\ v \in Seq(X) /\ w \in Seq(X)
      BY <1>2, <1>7, <1>10, <3>1
    <3>6. h[k + (j - 1)] = u \o v
      BY <2>2
    <3> HIDE DEF u, v, w
    <3>7. (u \o v) \o w = u \o (v \o w)
      BY <3>5, Regroup DEF Assoc
    <3>8. h[k + j] = u \o g[j]
      BY <3>1, <3>2, <3>3, <3>4, <3>6, <3>7, Zenon
    <3> QED
      BY <3>8 DEF u
  <2> HIDE DEF P
  <2>3. 0 \in S /\ S \in SUBSET (0..n) /\ \A j \in 1..n : j - 1 \in S => j \in S
    BY <1>2, <2>1, <2>2
  <2> HIDE DEF S
  <2>4. \A j \in 0..n : j \in S
    BY <1>2, <2>3, UpTo
  <2> QED
    BY <2>4 DEF S, P
<1>12. h[k + n] = f[k] \o g[n]
  <2>1. n \in 0..n
    BY <1>2
  <2> QED
    BY <1>11, <2>1
<1> QED
  BY <1>6, <1>7, <1>8, <1>12, Zenon DEF FlattenedBoth

-----------------------------------------------------------------------------
(* Frames that stuck together in one read.                                 *)

LEMMA UnescapedAlike ==
    ASSUME NEW src, Len(src) \in Nat, NEW i \in Int, NEW t, Len(t) \in Nat, NEW k \in Int, Alike(src, i, t, k)
    PROVE  Unescaped(src, i) = Unescaped(t, k)
<1>1. /\ Pair(src, i) => Unescaped(src, i) = <<IF src[i + 1] = 2 THEN boundaryMark ELSE escapeMark>>
      /\ ~Pair(src, i) /\ Pair(src, i - 1) => Unescaped(src, i) = <<>>
      /\ ~Pair(src, i) /\ ~Pair(src, i - 1) => Unescaped(src, i) = <<src[i]>>
  BY UnescapedOctet
<1>2. /\ Pair(t, k) => Unescaped(t, k) = <<IF t[k + 1] = 2 THEN boundaryMark ELSE escapeMark>>
      /\ ~Pair(t, k) /\ Pair(t, k - 1) => Unescaped(t, k) = <<>>
      /\ ~Pair(t, k) /\ ~Pair(t, k - 1) => Unescaped(t, k) = <<t[k]>>
  BY UnescapedOctet
<1> DEFINE u == Unescaped(src, i)
           v == Unescaped(t, k)
<1> HIDE DEF u, v
<1>3. CASE Pair(src, i)
  <2>1. Pair(t, k) /\ src[i + 1] = t[k + 1]
    BY <1>3, Zenon DEF Alike
  <2>2. u = <<IF src[i + 1] = 2 THEN boundaryMark ELSE escapeMark>>
    BY <1>1, <1>3 DEF u
  <2>3. v = <<IF t[k + 1] = 2 THEN boundaryMark ELSE escapeMark>>
    BY <1>2, <2>1 DEF v
  <2>4. u = v
    BY <2>1, <2>2, <2>3, Zenon
  <2> QED
    BY <2>4 DEF u, v
<1>4. CASE ~Pair(src, i) /\ Pair(src, i - 1)
  <2>1. ~Pair(t, k) /\ Pair(t, k - 1)
    BY <1>4, Zenon DEF Alike
  <2> QED
    BY <1>1, <1>2, <1>4, <2>1, Zenon
<1>5. CASE ~Pair(src, i) /\ ~Pair(src, i - 1)
  <2>1. ~Pair(t, k) /\ ~Pair(t, k - 1) /\ src[i] = t[k]
    BY <1>5, Zenon DEF Alike
  <2> QED
    BY <1>1, <1>2, <1>5, <2>1, Zenon
<1> QED
  BY <1>3, <1>4, <1>5, Zenon

LEMMA UndoingsAre ==
    ASSUME NEW src, Edged(src)
    PROVE  /\ Undoings(src) \in Seq(Seq(Octet)) /\ Len(Undoings(src)) = Len(src) - 2
           /\ unescape(src) = FlattenSeq(Undoings(src)) /\ unescape(src) \in Seq(Octet)
           /\ \A i \in 1..Len(src) - 2 : Undoings(src)[i] = Unescaped(src, i + 1)
<1> DEFINE n == Len(src) - 2
           p == Undoings(src)
<1>1. src \in Seq(Octet) /\ Len(src) \in Nat /\ n \in Nat
  BY LenProperties DEF Edged
<1>2. \A i \in 1..n : Unescaped(src, i + 1) \in Seq(Octet)
  BY <1>1, ShortUnescaped
<1>3. p = [i \in 1..n |-> Unescaped(src, i + 1)]
  BY Zenon DEF Undoings
<1>4. unescape(src) = FlattenSeq(p)
  BY <1>3, Zenon DEF unescape
<1> HIDE DEF n, p
<1>5. p \in Seq(Seq(Octet)) /\ Len(p) = n /\ \A i \in 1..n : p[i] = Unescaped(src, i + 1)
  <2> DEFINE Y == Seq(Octet)
  <2>1. \A i \in 1..n : Unescaped(src, i + 1) \in Y
    BY <1>2
  <2> HIDE DEF Y
  <2>2. p \in Seq(Y) /\ Len(p) = n /\ \A i \in 1..n : p[i] = Unescaped(src, i + 1)
    BY <1>1, <1>3, <2>1
  <2> QED
    BY <2>2 DEF Y
<1>6. FlattenSeq(p) \in Seq(Octet)
  BY <1>5, FlattenTyped
<1> QED
  BY <1>4, <1>5, <1>6 DEF n, p

LEMMA EdgesJoined ==
    ASSUME NEW a, Edged(a), NEW b, Edged(b), NEW c, c = a \o b
    PROVE  JoinedWell(a, b, c)
<1> DEFINE k == Len(a)
           n == Len(b)
<1>1. a \in Seq(Octet) /\ b \in Seq(Octet) /\ k \in Nat /\ n \in Nat /\ k >= 2 /\ n >= 2
      /\ a[1] = boundaryMark /\ b[n] = boundaryMark
  BY LenProperties DEF Edged
<1>2. /\ c \in Seq(Octet) /\ Len(c) = k + n
      /\ \A j \in 1..k : c[j] = a[j]
      /\ \A j \in 1..n : c[k + j] = b[j]
  BY <1>1, Behind
<1> HIDE DEF k, n
<1>3. c[1] = boundaryMark /\ c[k + n] = boundaryMark
  <2>1. 1 \in 1..k /\ n \in 1..n
    BY <1>1
  <2> QED
    BY <1>1, <1>2, <2>1
<1>4. Edged(c)
  BY <1>1, <1>2, <1>3 DEF Edged
<1> QED
  BY <1>2, <1>4 DEF JoinedWell, k, n

LEMMA JoinedAlike ==
    ASSUME NEW a, Edged(a), NEW b, Edged(b), NEW c, JoinedWell(a, b, c)
    PROVE  AlikeBoth(a, b, c)
<1> DEFINE k == Len(a)
           n == Len(b)
           l == Len(c)
<1>1. /\ k \in Nat /\ n \in Nat /\ k >= 2 /\ n >= 2 /\ l = k + n
      /\ a[1] = boundaryMark /\ a[k] = boundaryMark
      /\ b[1] = boundaryMark /\ b[n] = boundaryMark
      /\ \A j \in 1..k : c[j] = a[j]
      /\ \A j \in 1..n : c[k + j] = b[j]
  BY LenProperties DEF Edged, JoinedWell
<1>2. boundaryMark # escapeMark /\ boundaryMark \notin {1, 2}
  BY DEF boundaryMark, escapeMark
<1>3. /\ \A i \in Int : Pair(a, i) <=> i \in 2..k - 2 /\ a[i] = escapeMark /\ a[i + 1] \in {1, 2}
      /\ \A i \in Int : Pair(b, i) <=> i \in 2..n - 2 /\ b[i] = escapeMark /\ b[i + 1] \in {1, 2}
      /\ \A i \in Int : Pair(c, i) <=> i \in 2..l - 2 /\ c[i] = escapeMark /\ c[i + 1] \in {1, 2}
  BY DEF Pair
<1>4. Len(a) \in Nat /\ Len(b) \in Nat /\ Len(c) \in Nat
  BY <1>1
<1> HIDE DEF k, n, l
<1>5. ASSUME NEW i \in 1..k - 1
      PROVE  /\ Pair(c, i) <=> Pair(a, i)
             /\ c[i] = a[i] /\ c[i + 1] = a[i + 1]
  <2>1. i \in 1..k /\ i + 1 \in 1..k
    BY <1>1
  <2>2. c[i] = a[i] /\ c[i + 1] = a[i + 1]
    BY <1>1, <2>1
  <2>3. CASE i = k - 1
    <3>1. c[i + 1] = boundaryMark /\ a[i + 1] = boundaryMark
      BY <1>1, <2>2, <2>3
    <3> QED
      BY <1>2, <1>3, <2>2, <3>1
  <2>4. CASE i # k - 1
    <3>1. i \in 2..k - 2 <=> i \in 2..l - 2
      BY <1>1, <2>4
    <3> QED
      BY <1>3, <2>2, <3>1
  <2> QED
    BY <2>2, <2>3, <2>4
<1>6. c[k] = boundaryMark /\ c[k + 1] = boundaryMark
  <2>1. k \in 1..k /\ 1 \in 1..n
    BY <1>1
  <2> QED
    BY <1>1, <2>1
<1>7. ~Pair(c, k - 1) /\ ~Pair(c, k) /\ ~Pair(c, k + 1)
  <2>1. (k - 1) + 1 = k /\ k - 1 \in Int /\ k \in Int /\ k + 1 \in Int
    BY <1>1
  <2> QED
    BY <1>2, <1>3, <1>6, <2>1
<1>8. ASSUME NEW i \in 2..n - 1
      PROVE  /\ Pair(c, k + i) <=> Pair(b, i)
             /\ c[k + i] = b[i] /\ c[(k + i) + 1] = b[i + 1]
  <2>1. i \in 1..n /\ i + 1 \in 1..n /\ (k + i) + 1 = k + (i + 1)
    BY <1>1
  <2>2. c[k + i] = b[i] /\ c[(k + i) + 1] = b[i + 1]
    BY <1>1, <2>1
  <2>3. i \in 2..n - 2 <=> k + i \in 2..l - 2
    BY <1>1
  <2>4. k + i \in Int /\ i \in Int
    BY <1>1
  <2>5. Pair(c, k + i) <=> (k + i \in 2..l - 2 /\ c[k + i] = escapeMark /\ c[(k + i) + 1] \in {1, 2})
    BY <1>3, <2>4
  <2>6. Pair(b, i) <=> (i \in 2..n - 2 /\ b[i] = escapeMark /\ b[i + 1] \in {1, 2})
    BY <1>3, <2>4
  <2> QED
    BY <2>2, <2>3, <2>5, <2>6, Zenon
<1>9. ~Pair(b, 1) /\ ~Pair(a, 1) /\ ~Pair(c, 1)
  BY <1>3
<1>10. ASSUME NEW i \in 1..k - 2 PROVE Unescaped(c, i + 1) = Unescaped(a, i + 1)
  <2>1. i \in 1..k - 1 /\ i + 1 \in 1..k - 1 /\ (i + 1) - 1 = i /\ i + 1 \in Int
    BY <1>1
  <2> DEFINE j == i + 1
  <2>2. /\ Pair(c, j) <=> Pair(a, j)
        /\ c[j] = a[j] /\ c[j + 1] = a[j + 1]
    BY <1>5, <2>1
  <2>3. Pair(c, j - 1) <=> Pair(a, j - 1)
    BY <1>5, <2>1
  <2>4. j \in Int
    BY <2>1
  <2> HIDE DEF j
  <2>5. Alike(c, j, a, j)
    BY <2>2, <2>3, Zenon DEF Alike
  <2>6. Unescaped(c, j) = Unescaped(a, j)
    BY <1>4, <2>4, <2>5, UnescapedAlike
  <2> QED
    BY <2>6 DEF j
<1>11. Unescaped(c, k) = <<boundaryMark>> /\ Unescaped(c, k + 1) = <<boundaryMark>>
  <2>1. Unescaped(c, k) = <<c[k]>>
    <3>1. ~Pair(c, k) /\ ~Pair(c, k - 1) /\ k \in Int
      BY <1>1, <1>7
    <3> QED
      BY <1>4, <3>1, UnescapedOctet
  <2>2. Unescaped(c, k + 1) = <<c[k + 1]>>
    <3> DEFINE j == k + 1
    <3>1. ~Pair(c, j) /\ ~Pair(c, j - 1) /\ j \in Int
      <4>1. j - 1 = k /\ j \in Int
        BY <1>1
      <4> QED
        BY <1>7, <4>1
    <3> HIDE DEF j
    <3>2. Unescaped(c, j) = <<c[j]>>
      BY <1>4, <3>1, UnescapedOctet
    <3> QED
      BY <3>2 DEF j
  <2> QED
    BY <1>6, <2>1, <2>2
<1>12. ASSUME NEW i \in 1..n - 2 PROVE Unescaped(c, k + (i + 1)) = Unescaped(b, i + 1)
  <2>1. i + 1 \in 2..n - 1 /\ (i + 1) - 1 = i /\ (k + (i + 1)) - 1 = k + i /\ k + (i + 1) \in Int /\ i + 1 \in Int
    BY <1>1
  <2> DEFINE j == i + 1
             x == k + j
  <2>2. /\ Pair(c, x) <=> Pair(b, j)
        /\ c[x] = b[j] /\ c[x + 1] = b[j + 1]
    BY <1>8, <2>1
  <2>3. Pair(c, x - 1) <=> Pair(b, j - 1)
    <3>1. CASE i = 1
      <4>1. x - 1 = k + 1 /\ j - 1 = 1
        BY <1>1, <3>1
      <4> QED
        BY <1>7, <1>9, <4>1
    <3>2. CASE i # 1
      <4>1. i \in 2..n - 1
        BY <1>1, <3>2
      <4> QED
        BY <1>8, <2>1, <4>1
    <3> QED
      BY <3>1, <3>2
  <2>4. j \in Int /\ x \in Int
    BY <2>1
  <2> HIDE DEF j, x
  <2>5. Alike(c, x, b, j)
    BY <2>2, <2>3, Zenon DEF Alike
  <2>6. Unescaped(c, x) = Unescaped(b, j)
    BY <1>4, <2>4, <2>5, UnescapedAlike
  <2> QED
    BY <2>6 DEF j, x
<1> QED
  BY <1>10, <1>11, <1>12 DEF k, n, AlikeBoth

\* Frames that stuck together come apart only at their marks: what is between the
\* first and the last one is what each carries, and two marks stay at each border.
LEMMA JoinOpened ==
    ASSUME NEW a, Edged(a), NEW b, Edged(b), NEW c, c = a \o b
    PROVE  OpenedBoth(a, b, c) /\ Edged(c)
<1> DEFINE Y == Seq(Octet)
           k == Len(a)
           n == Len(b)
           l == Len(c)
           m == <<boundaryMark>>
           mm == <<m, m>>
           p == Undoings(a)
           q == Undoings(b)
           r == Undoings(c)
           d == mm \o q
           e == p \o d
<1>1. JoinedWell(a, b, c)
  BY EdgesJoined
<1>2. Edged(c) /\ l = k + n /\ k \in Nat /\ n \in Nat /\ k >= 2 /\ n >= 2
  BY <1>1, LenProperties DEF JoinedWell, Edged
<1>3. /\ p \in Seq(Y) /\ Len(p) = k - 2 /\ unescape(a) = FlattenSeq(p) /\ unescape(a) \in Seq(Octet)
      /\ \A i \in 1..k - 2 : p[i] = Unescaped(a, i + 1)
  BY UndoingsAre
<1>4. /\ q \in Seq(Y) /\ Len(q) = n - 2 /\ unescape(b) = FlattenSeq(q) /\ unescape(b) \in Seq(Octet)
      /\ \A i \in 1..n - 2 : q[i] = Unescaped(b, i + 1)
  BY UndoingsAre
<1>5. /\ r \in Seq(Y) /\ Len(r) = l - 2 /\ unescape(c) = FlattenSeq(r)
      /\ \A i \in 1..l - 2 : r[i] = Unescaped(c, i + 1)
  BY <1>2, UndoingsAre
<1>6. /\ \A i \in 1..k - 2 : Unescaped(c, i + 1) = Unescaped(a, i + 1)
      /\ Unescaped(c, k) = m /\ Unescaped(c, k + 1) = m
      /\ \A i \in 1..n - 2 : Unescaped(c, k + (i + 1)) = Unescaped(b, i + 1)
  <2>1. AlikeBoth(a, b, c)
    BY <1>1, JoinedAlike
  <2> QED
    BY <2>1, Zenon DEF AlikeBoth
<1>7. m \in Y /\ boundaryMark \in Octet
  BY DEF boundaryMark, Octet
<1> HIDE DEF Y, p, q, r, m, k, n, l
<1>8. mm \in Seq(Y) /\ Len(mm) = 2 /\ mm[1] = m /\ mm[2] = m
  BY <1>7
<1> HIDE DEF mm
<1>20. d = mm \o q /\ e = p \o d
  OBVIOUS
<1>9. /\ d \in Seq(Y) /\ Len(d) = 2 + (n - 2)
      /\ d[1] = m /\ d[2] = m
      /\ \A j \in 1..n - 2 : d[2 + j] = q[j]
  <2>1. /\ d \in Seq(Y) /\ Len(d) = Len(mm) + Len(q)
        /\ \A j \in 1..Len(mm) : d[j] = mm[j]
        /\ \A j \in 1..Len(q) : d[Len(mm) + j] = q[j]
    <3> HIDE DEF d
    <3>1. d = mm \o q
      BY <1>20
    <3>2. mm \in Seq(Y) /\ q \in Seq(Y)
      BY <1>4, <1>8
    <3> QED
      BY <3>1, <3>2, Behind
  <2> HIDE DEF d
  <2>2. \A j \in 1..2 : d[j] = mm[j]
    BY <1>8, <2>1
  <2>3. d[1] = mm[1] /\ d[2] = mm[2]
    BY <2>2
  <2>4. \A j \in 1..n - 2 : d[2 + j] = q[j]
    BY <1>4, <1>8, <2>1
  <2> QED
    BY <1>4, <1>8, <2>1, <2>3, <2>4
<1> HIDE DEF d
<1>10. /\ e \in Seq(Y) /\ Len(e) = (k - 2) + (2 + (n - 2))
       /\ \A j \in 1..k - 2 : e[j] = p[j]
       /\ \A j \in 1..2 + (n - 2) : e[(k - 2) + j] = d[j]
  <2>1. /\ e \in Seq(Y) /\ Len(e) = Len(p) + Len(d)
        /\ \A j \in 1..Len(p) : e[j] = p[j]
        /\ \A j \in 1..Len(d) : e[Len(p) + j] = d[j]
    <3> HIDE DEF e
    <3>1. e = p \o d
      BY <1>20
    <3>2. p \in Seq(Y) /\ d \in Seq(Y)
      BY <1>3, <1>9
    <3> QED
      BY <3>1, <3>2, Behind
  <2> HIDE DEF e
  <2> QED
    BY <1>3, <1>9, <2>1
<1> HIDE DEF e
<1>11. ASSUME NEW i \in 1..l - 2 PROVE r[i] = e[i]
  <2>1. CASE i <= k - 2
    <3>1. i \in 1..k - 2
      BY <2>1
    <3> QED
      BY <1>3, <1>5, <1>6, <1>10, <3>1
  <2>2. CASE i = k - 1
    <3>1. 1 \in 1..2 + (n - 2) /\ i = (k - 2) + 1 /\ i + 1 = k
      BY <1>2, <2>2
    <3> QED
      BY <1>5, <1>6, <1>9, <1>10, <3>1
  <2>3. CASE i = k
    <3>1. 2 \in 1..2 + (n - 2) /\ i = (k - 2) + 2 /\ i + 1 = k + 1
      BY <1>2, <2>3
    <3> QED
      BY <1>5, <1>6, <1>9, <1>10, <3>1
  <2>4. CASE i > k
    <3> DEFINE j == i - k
    <3>1. j \in 1..n - 2 /\ 2 + j \in 1..2 + (n - 2) /\ i = (k - 2) + (2 + j) /\ i + 1 = k + (j + 1)
      BY <1>2, <2>4
    <3> HIDE DEF j
    <3>2. r[i] = Unescaped(c, k + (j + 1)) /\ Unescaped(c, k + (j + 1)) = Unescaped(b, j + 1)
      BY <1>5, <1>6, <3>1
    <3>3. e[i] = d[2 + j] /\ d[2 + j] = q[j] /\ q[j] = Unescaped(b, j + 1)
      BY <1>4, <1>9, <1>10, <3>1
    <3> QED
      BY <3>2, <3>3, Zenon
  <2> QED
    BY <1>2, <2>1, <2>2, <2>3, <2>4
<1>12. r = e
  <2>1. Len(r) = Len(e)
    BY <1>2, <1>5, <1>10
  <2>2. \A i \in 1..Len(r) : r[i] = e[i]
    BY <1>5, <1>11
  <2> QED
    BY <1>5, <1>10, <2>1, <2>2, SeqEqual
<1>13. FlattenedBoth(p, d, e)
  BY <1>3, <1>9, FlattenJoined DEF e, Y
<1>14. FlattenedBoth(mm, q, d)
  BY <1>4, <1>8, FlattenJoined DEF d, Y
<1>15. FlattenSeq(mm) = Marks
  <2>1. m \in Seq(Octet)
    BY <1>7 DEF Y
  <2>2. FlattenSeq(<<m, m>>) = m \o m
    BY <2>1, FlattenTwo
  <2>3. m \o m = Marks
    <3> DEFINE x == m \o m
    <3>1. x \in Seq(Octet) /\ Len(x) = Len(m) + Len(m) /\ \A j \in 1..Len(m) : x[j] = m[j] /\ x[Len(m) + j] = m[j]
      BY <2>1, Behind
    <3>2. Len(m) = 1 /\ m[1] = boundaryMark
      BY DEF m
    <3>3. Marks \in Seq(Octet) /\ Len(Marks) = 2 /\ Marks[1] = boundaryMark /\ Marks[2] = boundaryMark
      BY <1>7 DEF Marks
    <3> HIDE DEF x
    <3>4. x[1] = boundaryMark /\ x[2] = boundaryMark /\ Len(x) = 2
      BY <3>1, <3>2
    <3>5. \A i \in 1..Len(x) : x[i] = Marks[i]
      BY <3>3, <3>4
    <3>6. x = Marks
      BY <3>1, <3>3, <3>4, <3>5, SeqEqual
    <3> QED
      BY <3>6 DEF x
  <2> QED
    BY <2>2, <2>3 DEF mm
<1>16. FlattenSeq(r) = FlattenSeq(p) \o (Marks \o FlattenSeq(q))
  BY <1>12, <1>13, <1>14, <1>15, Zenon DEF FlattenedBoth
<1> QED
  BY <1>2, <1>3, <1>4, <1>5, <1>16, Zenon DEF OpenedBoth

-----------------------------------------------------------------------------
(* The check octet makes the number of octets with a bit even, for each    *)
(* bit; the octets of several frames have that too.                        *)

LEMMA WithBitIs ==
    ASSUME NEW s \in Seq(Octet), NEW bit
    PROVE  /\ IsFiniteSet(WithBit(s, bit)) /\ Cardinality(WithBit(s, bit)) \in Nat
           /\ Odd(s, bit) \in 0..1 /\ WithBit(s, bit) \in SUBSET (1..Len(s))
<1> DEFINE set == WithBit(s, bit)
<1>1. IsFiniteSet(1..Len(s))
  BY LenProperties, FS_Interval
<1>2. set \in SUBSET (1..Len(s))
  BY DEF WithBit
<1> HIDE DEF set
<1>3. IsFiniteSet(set)
  BY <1>1, <1>2, FS_Subset
<1>4. Cardinality(set) \in Nat
  BY <1>3, FS_CardinalityType
<1>5. Cardinality(set) % 2 \in 0..1
  BY <1>4
<1> QED
  BY <1>2, <1>3, <1>4, <1>5 DEF set, Odd

LEMMA BitIs ==
    ASSUME NEW v \in Octet, NEW bit \in Bits
    PROVE  BitOf(v, bit) \in 0..1
<1>1. /\ (v \div 1) % 2 \in 0..1 /\ (v \div 2) % 2 \in 0..1 /\ (v \div 4) % 2 \in 0..1 /\ (v \div 8) % 2 \in 0..1
      /\ (v \div 16) % 2 \in 0..1 /\ (v \div 32) % 2 \in 0..1 /\ (v \div 64) % 2 \in 0..1 /\ (v \div 128) % 2 \in 0..1
  BY DEF Octet
<1> QED
  BY <1>1 DEF Bits, BitOf

LEMMA OctetBits ==
    ASSUME NEW v \in Octet
    PROVE  v = Eight(BitOf(v, 1), BitOf(v, 2), BitOf(v, 4), BitOf(v, 8),
                     BitOf(v, 16), BitOf(v, 32), BitOf(v, 64), BitOf(v, 128))
<1> DEFINE v1 == v \div 2   v2 == v \div 4   v3 == v \div 8   v4 == v \div 16
           v5 == v \div 32  v6 == v \div 64  v7 == v \div 128
<1>1. /\ v \in 0..255 /\ v \div 1 = v
  BY DEF Octet
<1>2. v = 2 * v1 + (v % 2) /\ v1 = 2 * v2 + (v1 % 2) /\ v2 = 2 * v3 + (v2 % 2) /\ v3 = 2 * v4 + (v3 % 2)
  BY <1>1
<1>3. v4 = 2 * v5 + (v4 % 2) /\ v5 = 2 * v6 + (v5 % 2) /\ v6 = 2 * v7 + (v6 % 2) /\ v7 = v7 % 2
  BY <1>1
<1>4. /\ v1 \in Int /\ v2 \in Int /\ v3 \in Int /\ v4 \in Int /\ v5 \in Int /\ v6 \in Int /\ v7 \in Int
  BY <1>1
<1> HIDE DEF v1, v2, v3, v4, v5, v6, v7
<1> DEFINE b0 == v % 2   b1 == v1 % 2  b2 == v2 % 2  b3 == v3 % 2
           b4 == v4 % 2  b5 == v5 % 2  b6 == v6 % 2  b7 == v7 % 2
<1>5. /\ b0 \in Int /\ b1 \in Int /\ b2 \in Int /\ b3 \in Int /\ b4 \in Int /\ b5 \in Int /\ b6 \in Int /\ b7 \in Int
  BY <1>1, <1>4
<1>6. v = 2 * v1 + b0 /\ v1 = 2 * v2 + b1 /\ v2 = 2 * v3 + b2 /\ v3 = 2 * v4 + b3
      /\ v4 = 2 * v5 + b4 /\ v5 = 2 * v6 + b5 /\ v6 = 2 * v7 + b6 /\ v7 = b7
  BY <1>2, <1>3
<1> HIDE DEF b0, b1, b2, b3, b4, b5, b6, b7
<1>7. v = b0 + 2 * b1 + 4 * b2 + 8 * b3 + 16 * b4 + 32 * b5 + 64 * b6 + 128 * b7
  BY <1>1, <1>4, <1>5, <1>6
<1>8. /\ BitOf(v, 1) = b0 /\ BitOf(v, 2) = b1 /\ BitOf(v, 4) = b2 /\ BitOf(v, 8) = b3
      /\ BitOf(v, 16) = b4 /\ BitOf(v, 32) = b5 /\ BitOf(v, 64) = b6 /\ BitOf(v, 128) = b7
  BY <1>1 DEF BitOf, b0, b1, b2, b3, b4, b5, b6, b7, v1, v2, v3, v4, v5, v6, v7
<1> QED
  BY <1>7, <1>8 DEF Eight

LEMMA OddAppend ==
    ASSUME NEW s \in Seq(Octet), NEW v \in Octet, NEW bit \in Bits
    PROVE  Odd(Append(s, v), bit) = (Odd(s, bit) + BitOf(v, bit)) % 2
<1> DEFINE t == Append(s, v)
           n == Len(s)
           a == WithBit(s, bit)
           b == WithBit(t, bit)
           x == BitOf(v, bit)
<1>1. /\ t \in Seq(Octet) /\ Len(t) = n + 1 /\ t[n + 1] = v /\ \A i \in 1..n : t[i] = s[i]
      /\ n \in Nat
  BY AppendProperties, LenProperties
<1>2. IsFiniteSet(a) /\ Cardinality(a) \in Nat /\ a \in SUBSET (1..n)
  BY WithBitIs
<1>3. x \in 0..1
  BY BitIs
<1> HIDE DEF t, n, x
<1>4. \A i : i \in a <=> i \in 1..n /\ BitOf(s[i], bit) = 1
  BY DEF WithBit, n
<1>5. \A i : i \in b <=> i \in 1..n + 1 /\ BitOf(t[i], bit) = 1
  BY <1>1 DEF WithBit
<1>6. BitOf(t[n + 1], bit) = x
  BY <1>1 DEF x
<1> HIDE DEF a, b
<1>7. CASE x = 1
  <2>1. b = a \cup {n + 1}
    <3>1. ASSUME NEW i PROVE i \in b <=> i \in a \/ i = n + 1
      <4>1. i \in 1..n + 1 <=> i \in 1..n \/ i = n + 1
        BY <1>1
      <4>2. i \in 1..n => t[i] = s[i] /\ i # n + 1
        BY <1>1
      <4> QED
        BY <1>4, <1>5, <1>6, <1>7, <4>1, <4>2
    <3> QED
      BY <3>1
  <2>2. n + 1 \notin a
    BY <1>1, <1>2
  <2>3. Cardinality(b) = Cardinality(a) + 1
    BY <1>2, <2>1, <2>2, FS_AddElement
  <2> DEFINE k == Cardinality(a)
  <2>4. k \in Nat
    BY <1>2
  <2> HIDE DEF k
  <2>5. (k + 1) % 2 = ((k % 2) + 1) % 2
    BY <2>4
  <2> QED
    BY <1>7, <2>3, <2>5 DEF Odd, k, a, b, t, x
<1>8. CASE x = 0
  <2>1. b = a
    <3>1. ASSUME NEW i PROVE i \in b <=> i \in a
      <4>1. i \in 1..n + 1 <=> i \in 1..n \/ i = n + 1
        BY <1>1
      <4>2. i \in 1..n => t[i] = s[i] /\ i # n + 1
        BY <1>1
      <4> QED
        BY <1>4, <1>5, <1>6, <1>8, <4>1, <4>2
    <3> QED
      BY <3>1
  <2> DEFINE k == Cardinality(a)
  <2>4. k \in Nat
    BY <1>2
  <2> HIDE DEF k
  <2>5. k % 2 = ((k % 2) + 0) % 2
    BY <2>4
  <2> QED
    BY <1>8, <2>1, <2>5 DEF Odd, k, a, b, t, x
<1> QED
  BY <1>3, <1>7, <1>8

LEMMA OddJoined ==
    ASSUME NEW a \in Seq(Octet), NEW b \in Seq(Octet), NEW bit
    PROVE  Odd(a \o b, bit) = (Odd(a, bit) + Odd(b, bit)) % 2
<1> DEFINE c == a \o b
           k == Len(a)
           n == Len(b)
           A == WithBit(a, bit)
           B == WithBit(b, bit)
           C == WithBit(c, bit)
           T == {k + j : j \in B}
           f == [j \in B |-> k + j]
<1>0. c = a \o b
  OBVIOUS
<1> HIDE DEF c
<1>1. /\ c \in Seq(Octet) /\ Len(c) = k + n
      /\ \A j \in 1..k : c[j] = a[j]
      /\ \A j \in 1..n : c[k + j] = b[j]
  BY <1>0, Behind
<1>2. /\ IsFiniteSet(A) /\ Cardinality(A) \in Nat /\ A \in SUBSET (1..k)
      /\ IsFiniteSet(B) /\ Cardinality(B) \in Nat /\ B \in SUBSET (1..n)
  BY WithBitIs
<1>3. k \in Nat /\ n \in Nat
  BY LenProperties
<1>4. /\ \A i : i \in A <=> i \in 1..k /\ BitOf(a[i], bit) = 1
      /\ \A i : i \in B <=> i \in 1..n /\ BitOf(b[i], bit) = 1
  BY DEF WithBit
<1>5. \A i : i \in C <=> i \in 1..k + n /\ BitOf(c[i], bit) = 1
  BY <1>1 DEF WithBit
<1> HIDE DEF k, n, A, B, C
<1>6. IsFiniteSet(T) /\ Cardinality(T) = Cardinality(B)
  <2>1. \A x, y \in B : f[x] = f[y] => x = y
    BY <1>2, <1>3
  <2>2. f \in [B -> T] /\ \A t \in T : \E x \in B : f[x] = t
    OBVIOUS
  <2>3. DOMAIN f = B
    OBVIOUS
  <2> HIDE DEF f, T
  <2>4. f \in Bijection(B, T)
    BY <2>1, <2>2, <2>3 DEF Bijection, Injection, Surjection, IsInjective
  <2>5. ExistsBijection(B, T)
    BY <2>4 DEF ExistsBijection
  <2> QED
    BY <1>2, <2>5, FS_Bijection
<1>7. C = A \cup T
  <2>1. ASSUME NEW i PROVE i \in C <=> i \in A \/ i \in T
    <3>1. CASE i \in 1..k
      <4>1. i \notin T
        BY <1>2, <1>3, <3>1
      <4>2. i \in 1..k + n /\ c[i] = a[i]
        BY <1>1, <1>3, <3>1
      <4> HIDE DEF T
      <4> QED
        BY <1>4, <1>5, <3>1, <4>1, <4>2
    <3>2. CASE i \in 1..k + n /\ i \notin 1..k
      <4> DEFINE j == i - k
      <4>1. j \in 1..n /\ i = k + j
        BY <1>3, <3>2
      <4>2. i \in T <=> j \in B
        BY <1>2, <1>3, <4>1
      <4> HIDE DEF T, j
      <4>3. c[i] = b[j]
        BY <1>1, <4>1
      <4> QED
        BY <1>4, <1>5, <3>2, <4>1, <4>2, <4>3
    <3>3. CASE i \notin 1..k + n
      <4>1. i \notin T
        BY <1>2, <1>3, <3>3
      <4>2. i \notin 1..k
        BY <1>3, <3>3
      <4>3. i \notin A
        BY <1>4, <4>2
      <4> QED
        BY <1>5, <3>3, <4>1, <4>3
    <3> QED
      BY <3>1, <3>2, <3>3
  <2> HIDE DEF T
  <2> QED
    BY <2>1
<1>8. A \cap T = {}
  BY <1>2, <1>3
<1> HIDE DEF T
<1>9. Cardinality(C) = Cardinality(A) + Cardinality(B)
  <2>1. Cardinality(A \cup T) = Cardinality(A) + Cardinality(T) - Cardinality(A \cap T)
    BY <1>2, <1>6, FS_Union
  <2>2. Cardinality(A \cap T) = 0
    BY <1>8, FS_EmptySet
  <2> QED
    BY <1>2, <1>6, <1>7, <2>1, <2>2
<1> DEFINE x == Cardinality(A)
           y == Cardinality(B)
<1>10. x \in Nat /\ y \in Nat
  BY <1>2
<1> HIDE DEF x, y
<1>11. (x + y) % 2 = ((x % 2) + (y % 2)) % 2
  BY <1>10
<1> QED
  BY <1>9, <1>11 DEF Odd, x, y, A, B, C, c

LEMMA EvenJoined ==
    ASSUME NEW a \in Seq(Octet), Even(a), NEW b \in Seq(Octet), Even(b)
    PROVE  Even(a \o b)
<1>1. ASSUME NEW bit \in Bits PROVE Odd(a \o b, bit) = 0
  <2>1. Odd(a \o b, bit) = (Odd(a, bit) + Odd(b, bit)) % 2
    BY OddJoined
  <2>2. Odd(a, bit) = 0 /\ Odd(b, bit) = 0
    BY DEF Even
  <2> QED
    BY <2>1, <2>2
<1> QED
  BY <1>1 DEF Even

LEMMA CheckIs ==
    ASSUME NEW s
    PROVE  CheckOf(s) = Eight(Odd(s, 1), Odd(s, 2), Odd(s, 4), Odd(s, 8),
                              Odd(s, 16), Odd(s, 32), Odd(s, 64), Odd(s, 128))
BY Zenon DEF CheckOf, Eight, Odd, WithBit, BitOf

LEMMA CheckBits ==
    ASSUME NEW s \in Seq(Octet), NEW bit \in Bits
    PROVE  BitOf(CheckOf(s), bit) = Odd(s, bit)
<1> DEFINE a == Odd(s, 1)   b == Odd(s, 2)   c == Odd(s, 4)   d == Odd(s, 8)
           e == Odd(s, 16)  f == Odd(s, 32)  g == Odd(s, 64)  h == Odd(s, 128)
           v == CheckOf(s)
<1>1. v = Eight(a, b, c, d, e, f, g, h)
  BY CheckIs
<1>2. /\ a \in 0..1 /\ b \in 0..1 /\ c \in 0..1 /\ d \in 0..1
      /\ e \in 0..1 /\ f \in 0..1 /\ g \in 0..1 /\ h \in 0..1
  BY WithBitIs
<1> HIDE DEF a, b, c, d, e, f, g, h, v
<1> DEFINE v7 == h
           v6 == g + 2 * v7
           v5 == f + 2 * v6
           v4 == e + 2 * v5
           v3 == d + 2 * v4
           v2 == c + 2 * v3
           v1 == b + 2 * v2
<1>3. v = a + 2 * v1 /\ v1 \in Nat
  BY <1>1, <1>2 DEF Eight
<1>4. v \div 1 = v /\ v \div 2 = v1 /\ v \div 4 = v2 /\ v \div 8 = v3
  BY <1>2, <1>3
<1>5. v \div 16 = v4 /\ v \div 32 = v5 /\ v \div 64 = v6 /\ v \div 128 = v7
  BY <1>2, <1>3
<1>6. v % 2 = a /\ v1 % 2 = b /\ v2 % 2 = c /\ v3 % 2 = d /\ v4 % 2 = e /\ v5 % 2 = f /\ v6 % 2 = g /\ v7 % 2 = h
  BY <1>2, <1>3
<1> HIDE DEF v1, v2, v3, v4, v5, v6, v7
<1>7. /\ BitOf(v, 1) = a /\ BitOf(v, 2) = b /\ BitOf(v, 4) = c /\ BitOf(v, 8) = d
      /\ BitOf(v, 16) = e /\ BitOf(v, 32) = f /\ BitOf(v, 64) = g /\ BitOf(v, 128) = h
  BY <1>4, <1>5, <1>6 DEF BitOf
<1> QED
  BY <1>7 DEF Bits, a, b, c, d, e, f, g, h, v

LEMMA CheckEven ==
    ASSUME NEW s \in Seq(Octet)
    PROVE  Even(genVerifier(s))
<1>1. CheckOf(s) \in Octet
  BY CheckIsOctet
<1> DEFINE v == CheckOf(s)
<1>2. ASSUME NEW bit \in Bits PROVE Odd(Append(s, v), bit) = 0
  <2> DEFINE x == Odd(s, bit)
  <2>1. x \in 0..1
    BY WithBitIs
  <2>2. BitOf(v, bit) = x
    BY CheckBits
  <2>3. Odd(Append(s, v), bit) = (x + BitOf(v, bit)) % 2
    BY <1>1, OddAppend
  <2> HIDE DEF x, v
  <2> QED
    BY <2>1, <2>2, <2>3
<1> QED
  BY <1>2 DEF Even, genVerifier

\* Octets in which each bit is even pass for verified.
LEMMA EvenVerified ==
    ASSUME NEW pkt \in Seq(Octet), Len(pkt) >= 1, Even(pkt)
    PROVE  Verified(pkt)
<1> DEFINE s == Front(pkt)
           v == Last(pkt)
           n == Len(pkt)
<1>1. n \in Nat /\ v \in Octet /\ s \in Seq(Octet) /\ pkt = Append(s, v)
  <2>1. n \in Nat /\ n - 1 \in 0..n
    BY LenProperties
  <2>2. v \in Octet
    BY <2>1, ElementOfSeq DEF Last
  <2>3. s \in Seq(Octet) /\ Len(s) = n - 1 /\ \A i \in 1..n - 1 : s[i] = pkt[i]
    <3> DEFINE k == n - 1
               q == SubSeq(pkt, 1, k)
    <3>1. s = q
      BY DEF Front
    <3>2. k \in 0..Len(pkt) /\ n = Len(pkt)
      BY <2>1
    <3> HIDE DEF s, n, v
    <3> HIDE DEF k
    <3>3. q \in Seq(Octet) /\ Len(q) = k /\ \A i \in 1..k : q[i] = pkt[i]
      <4> DEFINE z == Len(pkt)
      <4>1. z \in Nat /\ 1 \in 1..z + 1 /\ k \in (1 - 1)..z
        BY <3>2, LenProperties
      <4>2. 1 \in 1..Len(pkt) + 1 /\ k \in (1 - 1)..Len(pkt)
        BY <4>1
      <4> HIDE DEF z
      <4>3. /\ q \in Seq(Octet)
            /\ Len(q) = IF 1 <= k THEN k - 1 + 1 ELSE 0
            /\ \A i \in 1..k - 1 + 1 : q[i] = pkt[1 + i - 1]
        BY <4>2, SubSeqProperties DEF q
      <4> QED
        BY <4>1, <4>3
    <3> HIDE DEF q
    <3> QED
      BY <3>1, <3>3 DEF k
  <2> HIDE DEF s, v, n
  <2> DEFINE t == Append(s, v)
  <2>4. t \in Seq(Octet) /\ Len(t) = Len(s) + 1 /\ t[Len(s) + 1] = v /\ \A i \in 1..Len(s) : t[i] = s[i]
    BY <2>2, <2>3, AppendProperties
  <2> HIDE DEF t
  <2>5. Len(t) = n /\ t[n] = v /\ \A i \in 1..n - 1 : t[i] = pkt[i]
    BY <2>1, <2>3, <2>4
  <2>6. pkt[n] = v
    BY DEF v, n, Last
  <2>7. Len(pkt) = Len(t) /\ \A i \in 1..Len(pkt) : pkt[i] = t[i]
    BY <2>1, <2>5, <2>6 DEF n
  <2>8. pkt = t
    BY <2>4, <2>7, SeqEqual
  <2> QED
    BY <2>1, <2>2, <2>3, <2>8 DEF t
<1> HIDE DEF s, v, n
<1>2. ASSUME NEW bit \in Bits PROVE Odd(s, bit) = BitOf(v, bit)
  <2> DEFINE x == Odd(s, bit)
             y == BitOf(v, bit)
  <2>1. x \in 0..1 /\ y \in 0..1
    BY <1>1, WithBitIs, BitIs
  <2>2. Odd(pkt, bit) = 0
    BY DEF Even
  <2>3. Odd(pkt, bit) = (x + y) % 2
    BY <1>1, OddAppend
  <2> HIDE DEF x, y
  <2>4. x = y
    BY <2>1, <2>2, <2>3
  <2> QED
    BY <2>4 DEF x, y
<1>3. CheckOf(s) = v
  <2>1. /\ Odd(s, 1) = BitOf(v, 1) /\ Odd(s, 2) = BitOf(v, 2) /\ Odd(s, 4) = BitOf(v, 4)
        /\ Odd(s, 8) = BitOf(v, 8) /\ Odd(s, 16) = BitOf(v, 16) /\ Odd(s, 32) = BitOf(v, 32)
        /\ Odd(s, 64) = BitOf(v, 64) /\ Odd(s, 128) = BitOf(v, 128)
    BY <1>2 DEF Bits
  <2>2. v = Eight(BitOf(v, 1), BitOf(v, 2), BitOf(v, 4), BitOf(v, 8),
                  BitOf(v, 16), BitOf(v, 32), BitOf(v, 64), BitOf(v, 128))
    BY <1>1, OctetBits
  <2>3. CheckOf(s) = Eight(Odd(s, 1), Odd(s, 2), Odd(s, 4), Odd(s, 8),
                           Odd(s, 16), Odd(s, 32), Odd(s, 64), Odd(s, 128))
    BY CheckIs
  <2> QED
    BY <2>1, <2>2, <2>3
<1> QED
  BY <1>3 DEF Verified, s, v

LEMMA MarksEven == Marks \in Seq(Octet) /\ Len(Marks) = 2 /\ Even(Marks)
<1> DEFINE m == <<boundaryMark>>
<1>1. boundaryMark \in Octet
  BY DEF boundaryMark, Octet
<1>2. m \in Seq(Octet) /\ m \o m = Marks
  <2>1. m \in Seq(Octet)
    BY <1>1
  <2> DEFINE x == m \o m
  <2>2. x \in Seq(Octet) /\ Len(x) = Len(m) + Len(m) /\ \A j \in 1..Len(m) : x[j] = m[j] /\ x[Len(m) + j] = m[j]
    BY <2>1, Behind
  <2>3. Len(m) = 1 /\ m[1] = boundaryMark
    BY DEF m
  <2>4. Marks \in Seq(Octet) /\ Len(Marks) = 2 /\ Marks[1] = boundaryMark /\ Marks[2] = boundaryMark
    BY <1>1 DEF Marks
  <2> HIDE DEF x
  <2>5. x[1] = boundaryMark /\ x[2] = boundaryMark /\ Len(x) = 2
    BY <2>2, <2>3
  <2>6. x = Marks
    <3>1. \A i \in 1..Len(x) : x[i] = Marks[i]
      BY <2>4, <2>5
    <3> QED
      BY <2>2, <2>4, <2>5, <3>1, SeqEqual
  <2> QED
    BY <2>1, <2>6 DEF x
<1>3. Len(Marks) = 2 /\ Marks \in Seq(Octet)
  BY <1>1 DEF Marks
<1> HIDE DEF m
<1>4. ASSUME NEW bit \in Bits PROVE Odd(Marks, bit) = 0
  <2> DEFINE x == Odd(m, bit)
  <2>1. x \in 0..1
    BY <1>2, WithBitIs
  <2>2. Odd(m \o m, bit) = (x + x) % 2
    BY <1>2, OddJoined
  <2> HIDE DEF x
  <2>3. (x + x) % 2 = 0
    BY <2>1
  <2> QED
    BY <1>2, <2>2, <2>3, Zenon
<1> QED
  BY <1>3, <1>4 DEF Even

LEMMA MeasuredIs ==
    ASSUME NEW m, Sendable(m), Whole(m.header), m = [header |-> m.header, body |-> m.body]
    PROVE  /\ Measured(m).header.BodyLength = Len(WriteBody(m))
           /\ \A n \in (CommonItems \cup OptionalItems) \ {"BodyLength"} :
                Measured(m).header[n] = m.header[n]
           /\ Measured(m).body = m.body
           /\ Measured(m) = [header |-> [m.header EXCEPT !.BodyLength = Len(WriteBody(m))], body |-> m.body]
<1> DEFINE k == Len(WriteBody(m))
           h == m.header
           b == m.body
           c == k % 2^16
<1>1. k \in Nat /\ k < 1024
  <2>1. k \in Nat
    BY LenProperties DEF Sendable
  <2>2. k < 2^10
    BY DEF Sendable
  <2> HIDE DEF k
  <2> QED
    BY <2>1, <2>2
<1>2. Measured(m) = [m EXCEPT !.header.BodyLength = c]
  BY Zenon DEF Measured
<1> HIDE DEF k
<1>3. c = k
  <2>1. 2^16 = 65536
    BY SMT
  <2> QED
    BY <1>1, <2>1
<1> HIDE DEF c
<1> DEFINE g == [h EXCEPT !.BodyLength = k]
<1>4. Measured(m) = [m EXCEPT !.header = g]
  BY <1>2, <1>3, Zenon
<1>5. CommonItems \cup OptionalItems \subseteq DOMAIN h
  BY Zenon DEF Whole
<1>6. "BodyLength" \in CommonItems
  BY DEF CommonItems
<1>7. g["BodyLength"] = k /\ \A n \in (CommonItems \cup OptionalItems) \ {"BodyLength"} : g[n] = h[n]
  <2> HIDE DEF h
  <2> QED
    BY <1>5, <1>6, Zenon
<1> HIDE DEF g
<1>8. [m EXCEPT !.header = g] = [header |-> g, body |-> b]
  <2> HIDE DEF b
  <2>1. m = [header |-> h, body |-> b]
    BY DEF b
  <2> HIDE DEF h
  <2>2. \A x : [[header |-> h, body |-> b] EXCEPT !.header = x] = [header |-> x, body |-> b]
    BY SMT
  <2> QED
    BY <2>1, <2>2, Zenon
<1>9. Measured(m).header = g /\ Measured(m).body = b
  BY <1>4, <1>8
<1>10. Measured(m) = [header |-> g, body |-> b]
  BY <1>4, <1>8, Zenon
<1> QED
  BY <1>7, <1>9, <1>10, Zenon DEF g, h, b, k

\* Such a slice is decoded to the header of the message, as far as it is written, and to
\* a body that begins with the message's.
LEMMA PacketDecoded ==
    ASSUME NEW m, Sendable(m), m.header.MsgID = Measured(m).header.MsgID,
           m.header.VersionDesc = Measured(m).header.VersionDesc,
           Measured(m).header.BodyLength = Len(WriteBody(m)),
           NEW s, NEW rest, Carries(s, m, rest)
    PROVE  Decoded(DecodeVerified(s), m, rest)
<1> DEFINE h == Measured(m).header
           b == WriteBody(m)
           L == HeaderLayout(h.VersionDesc, h.Frag)
           w == WithAttr(h)
           g == WriteAll(L, w)
           i == SizeOf(L)
           e == Encode(m)
           r == ReadHeader(s)
           p == DecodeVerified(s)
           tail == b \o rest
<1>1. Whole(h) /\ b \in Seq(Octet)
  BY Zenon DEF Sendable
<1>2. Suits(L, w)
  BY <1>1, HeaderSuits, Zenon
<1>3. h.Frag \in BOOLEAN
  BY <1>1, Zenon DEF Whole
<1>4. e = g \o b
  BY Zenon DEF Encode, WriteHeader, WithAttr
<1>5. m.header.MsgID = h.MsgID /\ m.header.VersionDesc = h.VersionDesc /\ h.BodyLength = Len(b)
  OBVIOUS
<1>6. g \in Seq(Octet) /\ Len(g) = i
  BY <1>2, FieldsWritten, Zenon
<1>7. i \in 0..70
  BY <1>3, HeaderShort, Zenon
<1>8. Len(b) \in Nat
  BY <1>1, LenProperties
<1>9. /\ rest \in Seq(Octet) /\ e \o rest = s.mem
      /\ s.len \in Int /\ s.len <= Len(s.mem)
      /\ s.len = Len(e) \/ s.len > Len(e) + 1
  BY Zenon DEF Carries
<1> HIDE DEF h, b, w, g, i, e, p
<1>10. e \in Seq(Octet) /\ Len(e) = i + Len(b)
  <2>1. e \in Seq(Octet) /\ Len(e) = Len(g) + Len(b)
    <3>1. g \in Seq(Octet) /\ b \in Seq(Octet)
      BY <1>1, <1>6
    <3> QED
      BY <1>4, <3>1, Behind
  <2> QED
    BY <1>6, <2>1
<1> HIDE DEF L
<1>11. s.mem = g \o tail /\ tail \in Seq(Octet) /\ Len(s.mem) = i + Len(tail) /\ Len(tail) \in Nat
  <2>1. (g \o b) \o rest = g \o tail /\ tail \in Seq(Octet)
    <3>1. g \in Seq(Octet) /\ b \in Seq(Octet) /\ rest \in Seq(Octet)
      BY <1>1, <1>6, <1>9
    <3> QED
      BY <3>1, Regroup DEF Assoc
  <2>2. s.mem = g \o tail
    BY <1>4, <1>9, <2>1, Zenon
  <2> HIDE DEF tail
  <2> DEFINE x == g \o tail
  <2>3. Len(x) = Len(g) + Len(tail)
    BY <1>6, <2>1, ConcatProperties
  <2> HIDE DEF x
  <2>4. s.mem = x
    BY <2>2 DEF x
  <2> QED
    BY <1>6, <2>1, <2>2, <2>3, <2>4, LenProperties
<1> HIDE DEF tail
<1>12. i <= s.len /\ (s.len - i = Len(b) \/ s.len - i > Len(b) + 1) /\ s.len - i \in Int /\ s.len - i <= Len(tail)
  <2> DEFINE x == s.len
             y == Len(tail)
             z == Len(b)
  <2>1. x \in Int /\ y \in Nat /\ z \in Nat /\ i \in Nat /\ x <= i + y
    BY <1>7, <1>8, <1>9, <1>11
  <2>2. x = i + z \/ x > (i + z) + 1
    BY <1>9, <1>10
  <2> HIDE DEF x, y, z
  <2>3. i <= x /\ (x - i = z \/ x - i > z + 1) /\ x - i \in Int /\ x - i <= y
    BY <2>1, <2>2
  <2> QED
    BY <2>3 DEF x, y, z
<1>13. Begins(s, L, w)
  BY <1>9, <1>11, <1>12, Zenon DEF Begins, g, i
<1>14. /\ ~r.panic /\ r.Idx = i
       /\ \A n \in CommonItems \cup Carried(h) : r.header[n] = h[n]
       /\ r.header = [n \in CommonItems \cup OptionalItems |-> r.header[n]]
       /\ \A n \in OptionalItems \ Carried(h) : r.header[n] = 0
  <2>1. HeaderRead(r, h)
    BY <1>1, <1>13, HeaderReads, Zenon DEF L, w
  <2> HIDE DEF r
  <2> QED
    BY <2>1, Zenon DEF HeaderRead, i, L
<1> HIDE DEF r
<1>15. p = [err |-> NoError, header |-> r.header, body |-> From(s, i)]
  <2>1. p = IF r.panic \/ r.Idx > s.len
            THEN [err |-> Panic]
            ELSE [err |-> NoError, header |-> r.header, body |-> From(s, r.Idx)]
    BY Zenon DEF p, DecodeVerified, NoError, r
  <2>2. ~(r.Idx > s.len)
    BY <1>7, <1>9, <1>12, <1>14
  <2> QED
    BY <1>14, <2>1, <2>2, Zenon
<1>16. From(s, i).len = s.len - i /\ From(s, i).mem = tail
  <2>1. From(s, i).len = s.len - i /\ From(s, i).mem = Others(s.mem, i)
    BY DEF From, Others
  <2>2. Others(g \o tail, Len(g)) = tail
    BY <1>6, <1>11, Behindhand
  <2> QED
    BY <1>6, <1>11, <2>1, <2>2, Zenon
<1> DEFINE body == From(s, i)
           x == s.len - i
<1> HIDE DEF body
<1>17. p.err = NoError /\ p.header = r.header /\ p.body = body
  BY <1>15 DEF body
<1>18. body.len = x /\ body.mem = tail
  BY <1>16 DEF body
<1>19. x \in Int /\ x <= Len(tail) /\ (x = Len(b) \/ x > Len(b) + 1)
  BY <1>12
<1> HIDE DEF x
<1>20. body.len \in Int /\ body.len <= Len(body.mem) /\ (body.len = Len(b) \/ body.len > Len(b) + 1)
  BY <1>18, <1>19
<1>21. r.header["MsgID"] = h["MsgID"] /\ r.header["VersionDesc"] = h["VersionDesc"] /\ r.header["BodyLength"] = h["BodyLength"]
  <2>1. "MsgID" \in CommonItems /\ "VersionDesc" \in CommonItems /\ "BodyLength" \in CommonItems
    BY DEF CommonItems
  <2> QED
    BY <1>14, <2>1, Zenon
<1>22. b \o rest = body.mem
  BY <1>18, Zenon DEF tail
<1>23. /\ r.header.MsgID = m.header.MsgID /\ r.header.VersionDesc = m.header.VersionDesc
       /\ r.header.BodyLength = Len(b)
  <2>1. r.header.MsgID = h.MsgID /\ r.header.VersionDesc = h.VersionDesc /\ r.header.BodyLength = h.BodyLength
    BY <1>21
  <2> QED
    BY <1>5, <2>1, Zenon
<1>24. Faced(m, r.header, body, rest)
  BY <1>9, <1>20, <1>22, <1>23, Zenon DEF Faced, b
<1>25. Decoded(p, m, rest)
  BY <1>14, <1>17, <1>24, Zenon DEF Decoded, h
<1> QED
  BY <1>25, Zenon DEF p

\* What is written of a message is octets, and no array is too short for them.
LEMMA EncodeShort ==
    ASSUME NEW m, Sendable(m)
    PROVE  Encode(m) \in Seq(Octet) /\ Len(Encode(m)) < LongestArray
<1> DEFINE h == Measured(m).header
           L == HeaderLayout(h.VersionDesc, h.Frag)
           g == WriteHeader(h)
           b == WriteBody(m)
           e == Encode(m)
<1>1. Whole(h) /\ b \in Seq(Octet) /\ Len(b) < 1024
  <2>1. 2^10 = 1024
    BY SMT
  <2> QED
    BY <2>1, Zenon DEF Sendable
<1>2. g = WriteAll(L, WithAttr(h)) /\ Suits(L, WithAttr(h))
  BY <1>1, HeaderSuits, Zenon DEF WriteHeader, WithAttr
<1>3. g \in Seq(Octet) /\ Len(g) = SizeOf(L)
  BY <1>2, FieldsWritten, Zenon
<1>4. SizeOf(L) \in 0..70
  <2>1. h.Frag \in BOOLEAN
    BY <1>1, Zenon DEF Whole
  <2> QED
    BY <2>1, HeaderShort, Zenon
<1>5. e = g \o b
  BY Zenon DEF Encode
<1> HIDE DEF L, g, b, e
<1>6. g \o b \in Seq(Octet) /\ Len(g \o b) = Len(g) + Len(b) /\ Len(b) \in Nat
  BY <1>1, <1>3, ConcatProperties, LenProperties
<1>7. e \in Seq(Octet) /\ Len(e) < LongestArray
  <2>1. e \in Seq(Octet) /\ Len(e) = Len(g) + Len(b)
    BY <1>5, <1>6, Zenon
  <2>2. Len(b) \in Nat /\ Len(b) < 1024 /\ Len(g) \in 0..70
    BY <1>1, <1>3, <1>4, <1>6, Zenon
  <2> DEFINE i == Len(g)
             k == Len(b)
             n == Len(e)
  <2>3. n = i + k /\ k \in Nat /\ k < 1024 /\ i \in 0..70
    BY <2>1, <2>2, Zenon
  <2> HIDE DEF i, k, n
  <2>4. n < LongestArray
    BY <2>3 DEF LongestArray
  <2> QED
    BY <2>1, <2>4, Zenon DEF n
<1> QED
  BY <1>7 DEF e

\* A message and its header, once its length is in it
LEMMA SentAlike ==
    ASSUME NEW m, Sendable(m), Whole(m.header), Paired(m)
    PROVE  /\ m.header.MsgID = Measured(m).header.MsgID
           /\ m.header.VersionDesc = Measured(m).header.VersionDesc
           /\ Measured(m).header.BodyLength = Len(WriteBody(m))
<1>1. /\ Measured(m).header.BodyLength = Len(WriteBody(m))
      /\ \A n \in (CommonItems \cup OptionalItems) \ {"BodyLength"} : Measured(m).header[n] = m.header[n]
  BY MeasuredIs, Zenon DEF Paired
<1>2. {"MsgID", "VersionDesc"} \subseteq (CommonItems \cup OptionalItems) \ {"BodyLength"}
  BY DEF CommonItems
<1>3. m.header["MsgID"] = Measured(m).header["MsgID"]
      /\ m.header["VersionDesc"] = Measured(m).header["VersionDesc"]
  BY <1>1, <1>2, Zenon
<1> QED
  BY <1>1, <1>3

LEMMA ExactIs ==
    ASSUME NEW m, Exact(m)
    PROVE  Headed(m.header) /\ Paired(m) /\ m.body = [n \in NamesOf(m) |-> m.body[n]]
<1> DEFINE h == m.header
           x == [n \in CommonItems \cup OptionalItems |-> h[n]]
           y == [n \in NamesOf(m) |-> m.body[n]]
<1>1. /\ m = [header |-> x, body |-> y]
      /\ ~h.Frag /\ h.Total = 0 /\ h.Index = 0
      /\ h.VersionDesc = Version2013 => h.ProtocolVersion = 0
  BY Zenon DEF Exact
<1> HIDE DEF x, y
<1>2. m.header = x /\ m.body = y
  BY <1>1
<1>3. m = [header |-> m.header, body |-> m.body]
  BY <1>1, <1>2, Zenon
<1> QED
  BY <1>1, <1>2, <1>3, Zenon DEF Headed, Paired, x, y

LEMMA WrittenSendable ==
    ASSUME NEW m, Written(m), Headed(m.header), Paired(m)
    PROVE  Sendable(m) /\ Whole(m.header)
<1> DEFINE h == m.header
           b == WriteBody(m)
           k == Len(b)
<1>1. Whole(h) /\ b \in Seq(Octet)
  BY WrittenIs, MessageWritten, Zenon
<1>2. k \in Nat /\ k < 1024
  <2>1. k < 2^10
    BY Zenon DEF Written, Writable
  <2>2. k \in Nat
    BY <1>1, LenProperties
  <2> HIDE DEF k
  <2>3. 2^10 = 1024
    BY SMT
  <2> QED
    BY <2>1, <2>2, <2>3
<1>3. Whole(Measured(m).header)
  <2> DEFINE g == Measured(m).header
             c == k % 2^16
  <2>1. Measured(m) = [m EXCEPT !.header.BodyLength = c]
    BY Zenon DEF Measured
  <2>2. c = k
    <3> HIDE DEF k
    <3>1. 2^16 = 65536
      BY SMT
    <3> QED
      BY <1>2, <3>1
  <2> HIDE DEF c
  <2> DEFINE f == [h EXCEPT !.BodyLength = k]
  <2>3. Measured(m) = [m EXCEPT !.header = f]
    BY <2>1, <2>2, Zenon
  <2>4. g = f
    <3> HIDE DEF f, h
    <3>1. \A x, z, y : [[header |-> x, body |-> z] EXCEPT !.header = y].header = y
      BY SMT
    <3>2. m = [header |-> h, body |-> m.body]
      BY Zenon DEF Paired, h
    <3>3. [m EXCEPT !.header = f].header = f
      BY <3>1, <3>2, Zenon
    <3> QED
      BY <2>3, <3>3, Zenon
  <2>5. AWord(h["MsgID"]) /\ h["MsgID"] = h.MsgID
    BY Zenon, <1>1 DEF Whole
  <2>6. k \in 0..2^10 - 1
    <3> HIDE DEF k
    <3>1. 2^10 = 1024
      BY SMT
    <3> QED
      BY <1>2, <3>1
  <2> HIDE DEF k, h, g
  <2>7. Whole([[h EXCEPT !.MsgID = h.MsgID] EXCEPT !.BodyLength = k])
    BY <1>1, <2>5, <2>6, WholeAnswer, Zenon
  <2>8. [h EXCEPT !.MsgID = h.MsgID] = h
    <3>1. h = [n \in CommonItems \cup OptionalItems |-> h[n]]
      BY Zenon DEF Headed, h
    <3> QED
      BY <3>1
  <2>9. Whole(f)
    BY <2>7, <2>8, Zenon
  <2> QED
    BY <2>4, <2>9, Zenon DEF g
<1> QED
  <2>1. k < 2^10
    BY Zenon DEF Written, Writable
  <2> QED
    BY <1>1, <1>3, <2>1, Zenon DEF Sendable

\* So a message whose values fit is read with the header and the body that it had.
LEMMA MessageSeen ==
    ASSUME NEW m, Written(m), Headed(m.header), Paired(m),
           NEW s, NEW rest, Carries(s, m, rest)
    PROVE  /\ Seen(DecodeVerified(s), m)
           /\ Measured(m) = [header |-> Measured(m).header, body |-> m.body]
           /\ \A n \in (CommonItems \cup OptionalItems) \ {"BodyLength"} :
                Measured(m).header[n] = m.header[n]
<1> DEFINE p == DecodeVerified(s)
           h == m.header
           g == Measured(m).header
           q == p.header
           C == CommonItems \cup OptionalItems
<1>1. /\ Sendable(m) /\ Whole(h) /\ h.MsgID = g.MsgID /\ h.VersionDesc = g.VersionDesc
      /\ g.BodyLength = Len(WriteBody(m))
      /\ m = [header |-> h, body |-> m.body]
      /\ h = [n \in C |-> h[n]]
  BY WrittenSendable, SentAlike, Zenon DEF Headed, Paired
<1>2. Decoded(p, m, rest)
  BY <1>1, PacketDecoded, Zenon
<1>3. /\ p.err = NoError
      /\ \A n \in CommonItems \cup Carried(g) : q[n] = g[n]
      /\ q = [n \in C |-> q[n]]
      /\ \A n \in OptionalItems \ Carried(g) : q[n] = 0
      /\ Faced(m, q, p.body, rest)
  BY <1>2, Zenon DEF Decoded
<1>4. ReadsMessage(m, q, p.body)
  BY <1>3, MessageKept, Zenon
<1>5. /\ \A n \in C \ {"BodyLength"} : g[n] = h[n]
      /\ Measured(m) = [header |-> [h EXCEPT !.BodyLength = Len(WriteBody(m))], body |-> m.body]
  BY <1>1, MeasuredIs, Zenon
<1> DEFINE f == [h EXCEPT !.BodyLength = Len(WriteBody(m))]
<1>6. g = f
  <2>1. \A x, y : [header |-> x, body |-> y].header = x
    BY SMT
  <2> HIDE DEF f
  <2>2. Measured(m) = [header |-> f, body |-> m.body]
    BY <1>5 DEF f
  <2> QED
    BY <2>1, <2>2
<1>7. DOMAIN g = C /\ f = [n \in C |-> f[n]]
  <2> HIDE DEF h, C, g
  <2>1. h = [n \in C |-> h[n]]
    BY <1>1
  <2>2. DOMAIN h = C
    BY <2>1, Zenon
  <2>3. DOMAIN f = DOMAIN h /\ f = [n \in DOMAIN h |-> f[n]]
    BY Zenon
  <2> QED
    BY <1>6, <2>2, <2>3, Zenon
<1>8. /\ ~h.Frag /\ h.Total = 0 /\ h.Index = 0
      /\ h.VersionDesc = Version2013 => h.ProtocolVersion = 0
      /\ h.VersionDesc \in {Version2013, Version2019}
  BY <1>1, Zenon DEF Headed, Whole
<1>9. g["Total"] = 0 /\ g["Index"] = 0 /\ g["Frag"] = h.Frag
      /\ (h.VersionDesc = Version2013 => g["ProtocolVersion"] = 0)
  <2>1. {"Total", "Index", "Frag", "ProtocolVersion"} \subseteq C \ {"BodyLength"}
    BY DEF CommonItems, OptionalItems
  <2>2. g["Total"] = h["Total"] /\ g["Index"] = h["Index"] /\ g["Frag"] = h["Frag"]
        /\ g["ProtocolVersion"] = h["ProtocolVersion"]
    BY <1>5, <2>1, Zenon
  <2> QED
    BY <1>8, <2>2
<1>10. \A n \in OptionalItems \ Carried(g) : g[n] = 0
  <2> TAKE n \in OptionalItems \ Carried(g)
  <2>1. n \in {"Total", "Index"} \/ (n = "ProtocolVersion" /\ g.VersionDesc # Version2019)
    BY DEF OptionalItems, Carried
  <2>2. g.VersionDesc # Version2019 => h.VersionDesc = Version2013
    BY <1>1, <1>8, Zenon
  <2> HIDE DEF g, h
  <2> QED
    BY <1>9, <2>1, <2>2, Zenon
<1>11. \A n \in C : q[n] = g[n]
  <2> TAKE n \in C
  <2>1. n \in CommonItems \cup Carried(g) \/ n \in OptionalItems \ Carried(g)
    OBVIOUS
  <2> HIDE DEF g, q
  <2> QED
    BY <1>3, <1>10, <2>1, Zenon
<1>12. q["Frag"] = h.Frag
  <2>1. "Frag" \in C
    BY DEF CommonItems
  <2> QED
    BY <1>9, <1>11, <2>1, Zenon
<1>13. q = g
  <2>1. g = [n \in C |-> g[n]]
    BY <1>6, <1>7, Zenon
  <2>2. q = [n \in C |-> q[n]]
    BY <1>3
  <2> HIDE DEF q, g, C
  <2>3. [n \in C |-> q[n]] = [n \in C |-> g[n]]
    BY <1>11
  <2> QED
    BY <2>1, <2>2, <2>3, Zenon
<1>14. Seen(p, m)
  <2>1. ~p.header.Frag
    BY <1>8, <1>12
  <2>2. ReadBody(q, p.body) = Got(FALSE, [n \in NamesOf(m) |-> m.body[n]])
    BY <1>4, Zenon DEF ReadsMessage
  <2> QED
    BY <1>3, <1>13, <2>1, <2>2, Zenon DEF Seen
<1> QED
  BY <1>5, <1>6, <1>14, Zenon

LEMMA FrameOpens ==
    ASSUME NEW x \in Seq(Octet)
    PROVE  Opens(escape(genVerifier(x)), genVerifier(x))
<1> DEFINE t == genVerifier(x)
<1>1. t \in Seq(Octet) /\ Even(t)
  BY CheckIsVerified, CheckEven
<1> HIDE DEF t
<1>2. Edged(escape(t)) /\ unescape(escape(t)) = t
  BY <1>1, EscapeEdged, EscapeUndone
<1>3. Opens(escape(t), t)
  BY <1>1, <1>2, Zenon DEF Opens
<1> QED
  BY <1>3 DEF t

LEMMA JoinOpens ==
    ASSUME NEW a, NEW t \in Seq(Octet), Opens(a, t), NEW b, NEW u, Opens(b, u), NEW c, c = a \o b
    PROVE  Opens(c, t)
<1> DEFINE x == unescape(a)
           y == unescape(b)
           z == Marks \o y
           w == unescape(c)
<1>1. Edged(a) /\ Edged(b) /\ x \in Seq(Octet) /\ y \in Seq(Octet) /\ Even(x) /\ Even(y)
  BY Zenon DEF Opens
<1>2. w = x \o z /\ Edged(c)
  <2>1. OpenedBoth(a, b, c) /\ Edged(c)
    BY <1>1, JoinOpened
  <2> QED
    BY <2>1, Zenon DEF OpenedBoth
<1>3. x = t \/ \E rest \in Seq(Octet) : Len(rest) >= 2 /\ x = t \o rest
  BY Zenon DEF Opens
<1> HIDE DEF w, x, y
<1>4. z \in Seq(Octet) /\ Even(z) /\ Len(z) >= 2
  <2>1. Marks \in Seq(Octet) /\ Len(Marks) = 2 /\ Even(Marks)
    BY MarksEven
  <2>2. Len(z) = Len(Marks) + Len(y) /\ z \in Seq(Octet) /\ Len(y) \in Nat
    BY <1>1, <2>1, ConcatProperties, LenProperties
  <2>3. Even(z)
    BY <1>1, <2>1, EvenJoined
  <2> HIDE DEF z
  <2> QED
    BY <2>1, <2>2, <2>3
<1> HIDE DEF z
<1>5. w \in Seq(Octet) /\ Even(w)
  <2>1. x \o z \in Seq(Octet)
    BY <1>1, <1>4, ConcatProperties
  <2>2. Even(x \o z)
    BY <1>1, <1>4, EvenJoined
  <2> QED
    BY <1>2, <2>1, <2>2, Zenon
<1>6. \E rest \in Seq(Octet) : Len(rest) >= 2 /\ w = t \o rest
  <2>1. CASE x = t
    BY <1>2, <1>4, <2>1, Zenon
  <2>2. CASE \E rest \in Seq(Octet) : Len(rest) >= 2 /\ x = t \o rest
    <3>1. PICK rest \in Seq(Octet) : Len(rest) >= 2 /\ x = t \o rest
      BY <2>2
    <3> DEFINE more == rest \o z
    <3>2. more \in Seq(Octet) /\ Len(more) = Len(rest) + Len(z)
      BY <1>4, ConcatProperties
    <3>3. (t \o rest) \o z = t \o more
      BY <1>4, ConcatAssociative
    <3>4. w = t \o more
      BY <1>2, <3>1, <3>3, Zenon
    <3> HIDE DEF more
    <3>5. Len(more) >= 2
      BY <1>4, <3>1, <3>2, LenProperties
    <3> QED
      BY <3>2, <3>4, <3>5, Zenon
  <2> QED
    BY <1>3, <2>1, <2>2
<1> QED
  BY <1>2, <1>5, <1>6, Zenon DEF Opens, w

\* Any number of frames in one read
LEMMA FramesOpen ==
    ASSUME NEW ps \in Seq(Seq(Octet)), Len(ps) >= 1, NEW t \in Seq(Octet), Opens(ps[1], t),
           \A k \in 1..Len(ps) : \E u : Opens(ps[k], u)
    PROVE  Opens(FlattenSeq(ps), t)
<1> DEFINE n == Len(ps)
<1>1. n \in Nat /\ n >= 1
  BY LenProperties
<1>2. PICK f : JoinSteps(Octet, ps, f)
  BY JoinStepsExist
<1>3. f[0] = <<>> /\ FlattenSeq(ps) = f[n] /\ \A i \in 1..n : f[i] = f[i - 1] \o ps[i]
  BY <1>2, Zenon DEF JoinSteps
<1>4. ps[1] \in Seq(Octet)
  <2>1. 1 \in 1..Len(ps)
    BY <1>1
  <2> DEFINE Y == Seq(Octet)
  <2>2. ps \in Seq(Y)
    OBVIOUS
  <2> HIDE DEF Y
  <2>3. ps[1] \in Y
    BY <2>1, <2>2, ElementOfSeq
  <2> QED
    BY <2>3 DEF Y
<1> HIDE DEF n
<1> DEFINE S == {i \in 0..n : i = 0 \/ Opens(f[i], t)}
<1>5. 0 \in S /\ S \in SUBSET (0..n)
  BY <1>1
<1>6. ASSUME NEW i \in 1..n, i - 1 \in S PROVE i \in S
  <2>1. f[i] = f[i - 1] \o ps[i]
    BY <1>3
  <2>2. CASE i = 1
    <3>1. f[1] = <<>> \o ps[1]
      <4>1. i - 1 = 0
        BY <2>2
      <4> QED
        BY <1>3, <2>1, <2>2, <4>1, Zenon
    <3>2. f[1] = ps[1]
      BY <1>4, <3>1, ConcatEmptySeq
    <3> QED
      BY <2>2, <3>2
  <2>3. CASE i # 1
    <3>1. Opens(f[i - 1], t)
      <4>1. i - 1 # 0
        BY <1>1, <2>3
      <4> QED
        BY <1>6, <4>1, Zenon
    <3>2. PICK u : Opens(ps[i], u)
      BY DEF n
    <3> HIDE DEF S
    <3>3. Opens(f[i], t)
      BY <2>1, <3>1, <3>2, JoinOpens
    <3> QED
      BY <3>3 DEF S
  <2> QED
    BY <2>2, <2>3
<1>7. \A i \in 0..n : i \in S
  <2> HIDE DEF S
  <2> QED
    BY <1>1, <1>5, <1>6, UpTo
<1>8. n \in 0..n /\ n # 0
  BY <1>1
<1>9. Opens(f[n], t)
  BY <1>7, <1>8, Zenon
<1> QED
  BY <1>3, <1>9, Zenon

\* What a verified packet is a part of
LEMMA VerifyHolds ==
    ASSUME NEW pkt \in Seq(Octet), Len(pkt) <= LongestArray
    PROVE  /\ \E z \in Seq(Octet) : verify(pkt).mem = pkt \o z
           /\ verify(pkt).len = Len(pkt) - 1
           /\ verify(pkt).mem \in Seq(Octet) /\ Len(pkt) <= Len(verify(pkt).mem)
<1> DEFINE k == IF Len(pkt) < Capacity(Len(pkt)) THEN Capacity(Len(pkt)) - Len(pkt) ELSE 0
           z == Zeros(k)
<1>1. /\ verify(pkt).mem \in Seq(Octet) /\ Len(pkt) <= Len(verify(pkt).mem)
      /\ verify(pkt).len = Len(pkt) - 1
  BY VerifyTyped
<1>2. verify(pkt).mem = pkt \o z
  BY Zenon DEF verify, FillTo
<1>3. k \in Nat
  <2>1. Capacity(Len(pkt)) \in Nat /\ Len(pkt) \in Nat
    BY RoomEnough, LenProperties
  <2> QED
    BY <2>1
<1> HIDE DEF k
<1>4. z \in Seq(Octet)
  BY <1>3 DEF Zeros, Octet
<1> HIDE DEF z
<1> QED
  BY <1>1, <1>2, <1>4, Zenon

LEMMA Foremost ==
    ASSUME NEW X, NEW a \in Seq(X), NEW b \in Seq(X)
    PROVE  First(a \o b, Len(a)) = a
<1> DEFINE c == a \o b
           k == Len(a)
           q == First(c, k)
<1>0. c = a \o b
  OBVIOUS
<1> HIDE DEF c
<1>1. c \in Seq(X) /\ Len(c) = k + Len(b) /\ \A j \in 1..k : c[j] = a[j]
  BY <1>0, Behind
<1>2. k \in Nat /\ Len(b) \in Nat
  BY LenProperties
<1>3. k \in 0..Len(c) /\ k \in Int
  BY <1>1, <1>2
<1>4. \A i \in 1..k : c[i] \in X
  BY <1>1, <1>2, ElementOfSeq
<1>5. /\ q \in Seq(X) /\ Len(q) = (IF 1 <= k THEN k - 1 + 1 ELSE 0)
      /\ \A i \in 1..k - 1 + 1 : q[i] = c[1 + i - 1]
  BY <1>3, <1>4, SubSeqProperties DEF First
<1> HIDE DEF q
<1>6. Len(q) = k /\ \A i \in 1..k : q[i] = a[i]
  BY <1>1, <1>2, <1>5
<1>7. q = a
  BY <1>5, <1>6, SeqEqual
<1> QED
  BY <1>7 DEF q, c

LEMMA OthersJoined ==
    ASSUME NEW X, NEW a \in Seq(X), NEW b \in Seq(X), NEW k \in 0..Len(a)
    PROVE  Others(a \o b, k) = Others(a, k) \o b
<1> DEFINE f == First(a, k)
           r == Others(a, k)
           t == r \o b
<1>1. f \in Seq(X) /\ Len(f) = k /\ r \in Seq(X) /\ a = f \o r
  BY Split
<1> HIDE DEF f, r
<1>2. t \in Seq(X)
  BY <1>1, ConcatProperties
<1>3. (f \o r) \o b = f \o t
  BY <1>1, ConcatAssociative
<1> HIDE DEF t
<1>4. Others(f \o t, Len(f)) = t
  BY <1>1, <1>2, Behindhand
<1>5. a \o b = f \o t
  BY <1>1, <1>3, Zenon
<1>6. Others(a \o b, k) = t
  BY <1>1, <1>4, <1>5, Zenon
<1> QED
  BY <1>6 DEF t, r

LEMMA OthersBehind ==
    ASSUME NEW X, NEW a \in Seq(X), NEW b \in Seq(X), NEW k \in 0..Len(b)
    PROVE  Others(a \o b, Len(a) + k) = Others(b, k)
<1> DEFINE f == First(b, k)
           r == Others(b, k)
           t == a \o f
<1>1. f \in Seq(X) /\ Len(f) = k /\ r \in Seq(X) /\ b = f \o r
  BY Split
<1> HIDE DEF f, r
<1>2. t \in Seq(X) /\ Len(t) = Len(a) + Len(f)
  BY <1>1, ConcatProperties
<1>3. (a \o f) \o r = a \o (f \o r)
  BY <1>1, ConcatAssociative
<1>4. a \o b = t \o r
  BY <1>1, <1>3, Zenon
<1> HIDE DEF t
<1>5. Others(t \o r, Len(t)) = r
  BY <1>1, <1>2, Behindhand
<1>6. Others(a \o b, Len(a) + k) = r
  BY <1>1, <1>2, <1>4, <1>5, Zenon
<1> QED
  BY <1>6 DEF r
=============================================================================
