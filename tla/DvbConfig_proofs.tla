--------------------------- MODULE DvbConfig_proofs ---------------------------
(***************************************************************************)
(* Lemmas about the operators on sequences that the DVB modules and the    *)
(* media server are built from: what Picked, Flat and Map return. And the  *)
(* round trip of the file: what Device writes is what it reads back        *)
(* (DeviceIsKept), with the map of the services (ServiceMapIsKept).        *)
(***************************************************************************)
EXTENDS DvbConfig, FiniteSetTheorems, FunctionTheorems, SequenceTheorems,
        WellFoundedInduction, TLAPS

-------------------------------------------------------------------------------
(* Least elements and sequences *)
\* A set of natural numbers that is not empty has a least one
LEMMA LeastNatural ==
  ASSUME NEW T \in SUBSET Nat, T # {}
  PROVE  \E n \in T : \A k \in T : n <= k
<1>1. PICK x \in T : \A y \in T : <<y, x>> \notin OpToRel(<, Nat)
  BY NatLessThanWellFounded, WFMin
<1>2. \A y \in T : ~(y < x)
  BY <1>1 DEF OpToRel
<1> QED
  BY <1>2

\* Induction up to N, for the set of the numbers that break a property
LEMMA Upwards ==
  ASSUME NEW N \in Nat, NEW T \in SUBSET (0 .. N), 0 \notin T,
         \A n \in 1 .. N : n \in T => n - 1 \in T
  PROVE  T = {}
<1> SUFFICES ASSUME T # {} PROVE FALSE
  OBVIOUS
<1>1. T \in SUBSET Nat
  OBVIOUS
<1>2. PICK n \in T : \A k \in T : n <= k
  BY <1>1, LeastNatural
<1>3. n \in 1 .. N /\ n - 1 \in T
  BY <1>2
<1> QED
  BY <1>1, <1>2, <1>3

\* Length and domain of a sequence
LEMMA SeqIs ==
  ASSUME NEW s, IsSeq(s)
  PROVE  Len(s) \in Nat /\ DOMAIN s = 1 .. Len(s) /\ (s = <<>> <=> Len(s) = 0)
  BY EmptySeq DEF IsSeq, ToSet

\* A sequence of a set is one of its own elements
LEMMA ToSetSeq ==
  ASSUME NEW S, NEW s \in Seq(S)
  PROVE  IsSeq(s)
<1>1. DOMAIN s = 1 .. Len(s) /\ Len(s) \in Nat /\ s \in [1 .. Len(s) -> S]
  BY LenProperties
<1>2. s \in [1 .. Len(s) -> ToSet(s)]
  BY <1>1 DEF ToSet
<1> QED
  BY <1>1, <1>2, SeqDef DEF IsSeq

\* The empty sequence
LEMMA EmptyIsSeq == IsSeq(<<>>)
  BY EmptySeq DEF IsSeq

\* The elements behind Append
LEMMA AppendIs ==
  ASSUME NEW s, IsSeq(s), NEW e
  PROVE  /\ IsSeq(Append(s, e)) /\ Len(Append(s, e)) = Len(s) + 1
         /\ \A k \in DOMAIN s : Append(s, e)[k] = s[k]
         /\ Append(s, e)[Len(s) + 1] = e
<1> DEFINE S == ToSet(s) \cup {e}
<1>1. s \in Seq(S)
  BY SeqMonotonic DEF IsSeq
<1>2. DOMAIN s = 1 .. Len(s) /\ Len(s) \in Nat
  BY SeqIs
<1>3. /\ Append(s, e) \in Seq(S) /\ Len(Append(s, e)) = Len(s) + 1
      /\ \A k \in 1 .. Len(s) : Append(s, e)[k] = s[k]
      /\ Append(s, e)[Len(s) + 1] = e
  BY <1>1, AppendProperties
<1>7. IsSeq(Append(s, e))
  BY <1>3, ToSetSeq
<1> QED
  BY <1>2, <1>3, <1>7

\* The elements of two sequences that are joined
LEMMA ConcatIs ==
  ASSUME NEW s, IsSeq(s), NEW t, IsSeq(t)
  PROVE  /\ IsSeq(s \o t) /\ Len(s \o t) = Len(s) + Len(t)
         /\ \A k \in DOMAIN s : (s \o t)[k] = s[k]
         /\ \A k \in DOMAIN t : (s \o t)[Len(s) + k] = t[k]
         /\ \A k \in DOMAIN (s \o t)  :
              k \in DOMAIN s \/ (k - Len(s) \in DOMAIN t /\ (s \o t)[k] = t[k - Len(s)])
<1> DEFINE S == ToSet(s) \cup ToSet(t)
<1>1. s \in Seq(S) /\ t \in Seq(S)
  BY SeqMonotonic DEF IsSeq
<1>2. /\ DOMAIN s = 1 .. Len(s) /\ Len(s) \in Nat
      /\ DOMAIN t = 1 .. Len(t) /\ Len(t) \in Nat
  BY SeqIs
<1>3. /\ s \o t \in Seq(S) /\ Len(s \o t) = Len(s) + Len(t)
      /\ \A i \in 1 .. Len(s) + Len(t) :
           (s \o t)[i] = IF i <= Len(s) THEN s[i] ELSE t[i - Len(s)]
  BY <1>1, ConcatProperties
<1>4. DOMAIN (s \o t) = 1 .. Len(s) + Len(t)
  BY <1>3, LenProperties
<1>7. IsSeq(s \o t)
  BY <1>3, ToSetSeq
<1>8. \A k \in DOMAIN s : (s \o t)[k] = s[k]
  BY <1>2, <1>3
<1>9. \A k \in DOMAIN t : (s \o t)[Len(s) + k] = t[k]
  BY <1>2, <1>3
<1>10. ASSUME NEW k \in DOMAIN (s \o t)
       PROVE  k \in DOMAIN s \/ (k - Len(s) \in DOMAIN t /\ (s \o t)[k] = t[k - Len(s)])
  BY <1>2, <1>3, <1>4
<1> QED
  BY <1>3, <1>7, <1>8, <1>9, <1>10

\* A function over the domain of a sequence is a sequence
LEMMA FunIs ==
  ASSUME NEW s, IsSeq(s), NEW f, f = [k \in DOMAIN s |-> f[k]]
  PROVE  IsSeq(f) /\ Len(f) = Len(s) /\ DOMAIN f = DOMAIN s /\ <<>> \o f = f
<1>1. DOMAIN s = 1 .. Len(s) /\ Len(s) \in Nat
  BY SeqIs
<1>2. f \in Seq(ToSet(f))
  <2>1. \A k \in 1 .. Len(s) : f[k] \in ToSet(f)
    BY <1>1 DEF ToSet
  <2> QED
    BY <1>1, <2>1, IsASeq
<1>3. IsSeq(f) /\ DOMAIN f = 1 .. Len(f) /\ Len(f) \in Nat
  BY <1>2, SeqIs DEF IsSeq
<1>4. Len(f) = Len(s)
  BY <1>1, <1>2, LenProperties
<1>5. <<>> \o f = f
  BY <1>2, ConcatEmptySeq
<1> QED
  BY <1>1, <1>3, <1>4, <1>5

\* Two sequences are equal when their elements are
LEMMA SameSeq ==
  ASSUME NEW s, IsSeq(s), NEW t, IsSeq(t), Len(s) = Len(t), \A k \in DOMAIN s : s[k] = t[k]
  PROVE  s = t
<1> DEFINE S == ToSet(s) \cup ToSet(t)
<1>1. s \in Seq(S) /\ t \in Seq(S)
  BY SeqMonotonic DEF IsSeq
<1>2. DOMAIN s = 1 .. Len(s)
  BY SeqIs
<1> QED
  BY <1>1, <1>2, SeqEqual

-------------------------------------------------------------------------------
(* What Picked returns *)
\* The loop of Picked up to the place k
IsPick(g, s, K, n) ==
  /\ DOMAIN g = 0 .. n /\ g[0] = <<>>
  /\ \A k \in 1 .. n : g[k] = IF k \in K THEN Append(g[k - 1], s[k]) ELSE g[k - 1]

\* The equation of Picked has a solution
LEMMA PickedEquation ==
  ASSUME NEW s, Len(s) \in Nat, NEW K
  PROVE  \E g : IsPick(g, s, K, Len(s)) /\ Picked(s, K) = g[Len(s)]
<1> DEFINE Has(n) == \E g : IsPick(g, s, K, n)
           T == {n \in 0 .. Len(s) : ~Has(n)}
<1>1. Has(0)
  <2>1. IsPick([k \in 0 .. 0 |-> <<>>], s, K, 0)
    BY DEF IsPick
  <2> QED
    BY <2>1
<1>2. ASSUME NEW n \in 1 .. Len(s), Has(n - 1) PROVE Has(n)
  <2>1. PICK g : IsPick(g, s, K, n - 1)
    BY <1>2
  <2> DEFINE h == [k \in 0 .. n |-> IF k = n
                     THEN (IF n \in K THEN Append(g[n - 1], s[n]) ELSE g[n - 1]) ELSE g[k]]
  <2>2. DOMAIN h = 0 .. n /\ h[0] = <<>> /\ h[n - 1] = g[n - 1]
    BY <2>1 DEF IsPick
  <2>3. h[n] = IF n \in K THEN Append(h[n - 1], s[n]) ELSE h[n - 1]
    BY <2>2
  <2>4. ASSUME NEW k \in 1 .. n - 1
        PROVE  h[k] = IF k \in K THEN Append(h[k - 1], s[k]) ELSE h[k - 1]
    BY <2>1 DEF IsPick
  <2> HIDE DEF h
  <2>5. \A k \in 1 .. n : k = n \/ k \in 1 .. n - 1
    OBVIOUS
  <2>6. IsPick(h, s, K, n)
    BY <2>2, <2>3, <2>4, <2>5 DEF IsPick
  <2> QED
    BY <2>6
<1> HIDE DEF Has
<1>3. T = {}
  <2>1. T \in SUBSET (0 .. Len(s)) /\ 0 \notin T
    BY <1>1
  <2>2. \A n \in 1 .. Len(s) : n \in T => n - 1 \in T
    BY <1>2
  <2> HIDE DEF T
  <2> QED
    BY <2>1, <2>2, Upwards
<1>4. PICK g : IsPick(g, s, K, Len(s))
  BY <1>3 DEF T, Has
<1> DEFINE step(h) == [k \in 0 .. Len(s) |->
             IF k = 0 THEN <<>> ELSE IF k \in K THEN Append(h[k - 1], s[k]) ELSE h[k - 1]]
<1> DEFINE r == [k \in 0 .. Len(s) |-> g[k]]
<1>5. r = step(r)
  <2>0. r[0] = <<>> /\ \A k \in 1 .. Len(s) : r[k] = g[k] /\ r[k - 1] = g[k - 1]
    BY <1>4 DEF IsPick
  <2>1. ASSUME NEW k \in 0 .. Len(s)
        PROVE  r[k] = IF k = 0 THEN <<>> ELSE IF k \in K THEN Append(r[k - 1], s[k]) ELSE r[k - 1]
    <3> HIDE DEF r
    <3>1. CASE k = 0
      BY <2>0, <3>1
    <3>2. CASE k # 0
      <4>1. k \in 1 .. Len(s)
        BY <3>2
      <4> QED
        BY <2>0, <4>1, <3>2, <1>4 DEF IsPick
    <3> QED
      BY <3>1, <3>2
  <2> QED
    BY <2>1
<1> DEFINE picked == CHOOSE h : h = step(h)
<1>6. picked = step(picked)
  BY <1>5
<1>7. Picked(s, K) = picked[Len(s)]
  BY DEF Picked
<1> HIDE DEF picked
<1>8. IsPick(picked, s, K, Len(s))
  <2>1. DOMAIN picked = 0 .. Len(s)
    BY <1>6
  <2>2. \A k \in 0 .. Len(s) : picked[k] =
          IF k = 0 THEN <<>> ELSE IF k \in K THEN Append(picked[k - 1], s[k]) ELSE picked[k - 1]
    BY <1>6
  <2>3. 0 \in 0 .. Len(s) /\ \A k \in 1 .. Len(s) : k \in 0 .. Len(s) /\ k # 0
    OBVIOUS
  <2>4. picked[0] = <<>>
    BY <2>2, <2>3
  <2>5. \A k \in 1 .. Len(s) : picked[k] =
          IF k \in K THEN Append(picked[k - 1], s[k]) ELSE picked[k - 1]
    BY <2>2, <2>3
  <2> QED
    BY <2>1, <2>4, <2>5 DEF IsPick
<1> QED
  BY <1>7, <1>8

\* Picked returns the elements at the places of K, each once
LEMMA PickedIs ==
  ASSUME NEW s, IsSeq(s), NEW K
  PROVE  /\ IsSeq(Picked(s, K))
         /\ \E f \in Bijection(DOMAIN Picked(s, K), K \cap DOMAIN s) :
              \A j \in DOMAIN Picked(s, K) : Picked(s, K)[j] = s[f[j]]
<1>1. DOMAIN s = 1 .. Len(s) /\ Len(s) \in Nat
  BY SeqIs
<1>2. PICK g : IsPick(g, s, K, Len(s)) /\ Picked(s, K) = g[Len(s)]
  BY <1>1, PickedEquation
<1> DEFINE Good(n) == IsSeq(g[n]) /\ \E f \in Bijection(DOMAIN g[n], K \cap 1 .. n) :
                                       \A j \in DOMAIN g[n] : g[n][j] = s[f[j]]
           T == {n \in 0 .. Len(s) : ~Good(n)}
<1>3. Good(0)
  <2>1. g[0] = <<>> /\ IsSeq(<<>>) /\ DOMAIN <<>> = {}
    BY <1>2, EmptyIsSeq, SeqIs DEF IsPick
  <2> DEFINE none == [j \in {} |-> j]
  <2>2. none \in [{} -> K \cap 1 .. 0] /\ K \cap 1 .. 0 = {}
    OBVIOUS
  <2>3. none \in Bijection({}, K \cap 1 .. 0)
    BY <2>2, Fun_IsBij
  <2> QED
    BY <2>1, <2>3
<1>4. ASSUME NEW n \in 1 .. Len(s), Good(n - 1) PROVE Good(n)
  <2>1. PICK f \in Bijection(DOMAIN g[n - 1], K \cap 1 .. (n - 1)) :
          \A j \in DOMAIN g[n - 1] : g[n - 1][j] = s[f[j]]
    BY <1>4
  <2>2. g[n] = IF n \in K THEN Append(g[n - 1], s[n]) ELSE g[n - 1]
    BY <1>2 DEF IsPick
  <2>3. CASE n \notin K
    <3>1. K \cap 1 .. n = K \cap 1 .. (n - 1)
      BY <2>3
    <3>2. g[n] = g[n - 1]
      BY <2>2, <2>3
    <3> QED
      BY <1>4, <3>1, <3>2
  <2>4. CASE n \in K
    <3> DEFINE old == g[n - 1]
               m == Len(old)
    <3>1. IsSeq(old) /\ DOMAIN old = 1 .. m /\ m \in Nat
      BY <1>4, SeqIs
    <3>2. /\ g[n] = Append(old, s[n]) /\ IsSeq(g[n]) /\ Len(g[n]) = m + 1
          /\ \A k \in DOMAIN old : g[n][k] = old[k]
          /\ g[n][m + 1] = s[n]
      BY <2>2, <2>4, <3>1, AppendIs
    <3>3. DOMAIN g[n] = 1 .. (m + 1)
      BY <3>2, SeqIs
    <3>4. /\ f \in [DOMAIN old -> K \cap 1 .. (n - 1)]
          /\ \A a, b \in DOMAIN old : f[a] = f[b] => a = b
          /\ \A t \in K \cap 1 .. (n - 1) : \E a \in DOMAIN old : f[a] = t
      BY <2>1, Fun_BijectionProperties
    <3> HIDE DEF old, m
    <3> DEFINE h == [j \in 1 .. (m + 1) |-> IF j = m + 1 THEN n ELSE f[j]]
    <3>5. h \in [1 .. (m + 1) -> K \cap 1 .. n]
      BY <2>4, <3>1, <3>4
    <3>6. \A a, b \in 1 .. (m + 1) : h[a] = h[b] => a = b
      <4>1. \A a \in 1 .. m : f[a] \in 1 .. (n - 1) /\ f[a] # n
        BY <3>1, <3>4
      <4>2. \A a \in 1 .. (m + 1) : a = m + 1 \/ a \in DOMAIN old
        BY <3>1
      <4> QED
        BY <3>1, <3>4, <4>1, <4>2
    <3>7. ASSUME NEW t \in K \cap 1 .. n PROVE \E a \in 1 .. (m + 1) : h[a] = t
      <4>1. CASE t = n
        <5>1. m + 1 \in 1 .. (m + 1)
          BY <3>1
        <5> QED
          BY <4>1, <5>1
      <4>2. CASE t # n
        <5>1. t \in K \cap 1 .. (n - 1)
          BY <4>2
        <5>2. PICK a \in DOMAIN old : f[a] = t
          BY <3>4, <5>1
        <5>3. a \in 1 .. (m + 1) /\ a # m + 1
          BY <3>1
        <5> QED
          BY <5>2, <5>3
      <4> QED
        BY <4>1, <4>2
    <3>8. h \in Bijection(1 .. (m + 1), K \cap 1 .. n)
      BY <3>5, <3>6, <3>7, Fun_IsBij
    <3>9. ASSUME NEW j \in 1 .. (m + 1) PROVE g[n][j] = s[h[j]]
      <4>1. CASE j = m + 1
        BY <3>2, <4>1
      <4>2. CASE j # m + 1
        <5>1. j \in DOMAIN old
          BY <3>1, <4>2
        <5>2. g[n][j] = old[j] /\ old[j] = s[f[j]] /\ h[j] = f[j]
          BY <2>1, <3>2, <4>2, <5>1 DEF old
        <5> QED
          BY <5>2
      <4> QED
        BY <4>1, <4>2
    <3> HIDE DEF h
    <3> QED
      BY <3>2, <3>3, <3>8, <3>9
  <2> QED
    BY <2>3, <2>4
<1> HIDE DEF Good
<1>5. T = {}
  <2>1. T \in SUBSET (0 .. Len(s)) /\ 0 \notin T
    BY <1>3
  <2>2. \A n \in 1 .. Len(s) : n \in T => n - 1 \in T
    BY <1>4
  <2> HIDE DEF T
  <2> QED
    BY <1>1, <2>1, <2>2, Upwards
<1>6. Good(Len(s))
  BY <1>1, <1>5
<1> QED
  BY <1>1, <1>2, <1>6 DEF Good

\* The places of K are those behind lo up to hi.
Between(s, K, lo, hi) ==
  lo \in Nat /\ hi \in Nat /\ lo <= hi /\ hi <= Len(s) /\ K \cap DOMAIN s = (lo + 1) .. hi

\* Then it returns the elements between
LEMMA PickedInterval ==
  ASSUME NEW s, IsSeq(s), NEW K, NEW lo, NEW hi, Between(s, K, lo, hi)
  PROVE  /\ IsSeq(Picked(s, K)) /\ Len(Picked(s, K)) = hi - lo
         /\ \A j \in 1 .. (hi - lo) : Picked(s, K)[j] = s[lo + j]
<1>0. lo \in Nat /\ hi \in Nat /\ lo <= hi /\ hi <= Len(s) /\ K \cap DOMAIN s = (lo + 1) .. hi
  BY DEF Between
<1>1. DOMAIN s = 1 .. Len(s) /\ Len(s) \in Nat
  BY SeqIs
<1>2. PICK g : IsPick(g, s, K, Len(s)) /\ Picked(s, K) = g[Len(s)]
  BY <1>0, <1>1, PickedEquation
<1> DEFINE taken(n) == IF n <= lo THEN 0 ELSE IF n <= hi THEN n - lo ELSE hi - lo
           Good(n) == IsSeq(g[n]) /\ Len(g[n]) = taken(n)
                      /\ \A j \in 1 .. taken(n) : g[n][j] = s[lo + j]
           T == {n \in 0 .. Len(s) : ~Good(n)}
<1>3. Good(0)
  <2>1. g[0] = <<>> /\ IsSeq(<<>>) /\ Len(<<>>) = 0
    BY <1>0, <1>2, EmptyIsSeq, SeqIs DEF IsPick
  <2> QED
    BY <1>0, <2>1
<1>4. ASSUME NEW n \in 1 .. Len(s), Good(n - 1) PROVE Good(n)
  <2>1. g[n] = IF n \in K THEN Append(g[n - 1], s[n]) ELSE g[n - 1]
    BY <1>0, <1>2 DEF IsPick
  <2>2. n \in K <=> n > lo /\ n <= hi
    BY <1>0, <1>1
  <2>3. CASE n \notin K
    <3>1. taken(n) = taken(n - 1)
      BY <1>0, <2>2, <2>3
    <3> QED
      BY <1>0, <1>4, <2>1, <2>3, <3>1
  <2>4. CASE n \in K
    <3>1. taken(n) = n - lo /\ taken(n - 1) = n - lo - 1
      BY <1>0, <2>2, <2>4
    <3> DEFINE old == g[n - 1]
    <3>2. IsSeq(old) /\ Len(old) = n - lo - 1 /\ \A j \in 1 .. (n - lo - 1) : old[j] = s[lo + j]
      BY <1>0, <1>4, <3>1
    <3>3. DOMAIN old = 1 .. (n - lo - 1)
      BY <1>0, <3>2, SeqIs
    <3> HIDE DEF old
    <3>4. /\ g[n] = Append(old, s[n]) /\ IsSeq(g[n]) /\ Len(g[n]) = n - lo
          /\ \A k \in 1 .. (n - lo - 1) : g[n][k] = old[k]
          /\ g[n][n - lo] = s[n]
      <4>1. g[n] = Append(old, s[n])
        BY <1>0, <2>1, <2>4 DEF old
      <4>2. n - lo - 1 + 1 = n - lo
        BY <1>0
      <4> QED
        BY <1>0, <3>2, <3>3, <4>1, <4>2, AppendIs
    <3>5. \A j \in 1 .. (n - lo) : j = n - lo \/ j \in 1 .. (n - lo - 1)
      BY <1>0, <2>2, <2>4
    <3>6. lo + (n - lo) = n
      BY <1>0
    <3>7. \A j \in 1 .. (n - lo) : g[n][j] = s[lo + j]
      BY <1>0, <3>2, <3>4, <3>5, <3>6
    <3> QED
      BY <1>0, <3>1, <3>4, <3>7
  <2> QED
    BY <1>0, <2>3, <2>4
<1> HIDE DEF Good
<1>5. T = {}
  <2>1. T \in SUBSET (0 .. Len(s)) /\ 0 \notin T
    BY <1>0, <1>3
  <2>2. \A n \in 1 .. Len(s) : n \in T => n - 1 \in T
    BY <1>0, <1>4
  <2> HIDE DEF T
  <2> QED
    BY <1>0, <1>1, <2>1, <2>2, Upwards
<1>6. Good(Len(s))
  BY <1>0, <1>1, <1>5
<1>7. taken(Len(s)) = hi - lo
  <2>1. CASE Len(s) <= lo
    <3>1. hi - lo = 0
      BY <1>0, <1>1, <2>1
    <3> QED
      BY <1>0, <2>1, <3>1
  <2>2. CASE ~(Len(s) <= lo) /\ Len(s) <= hi
    <3> DEFINE len == Len(s)
    <3>1. len \in Nat /\ hi <= len /\ len <= hi
      BY <1>0, <1>1, <2>2
    <3> HIDE DEF len
    <3>2. hi = len
      BY <1>0, <3>1
    <3>3. hi = Len(s)
      BY <1>0, <3>2 DEF len
    <3> QED
      BY <1>0, <2>2, <3>3
  <2> QED
    BY <1>0, <2>1, <2>2
<1> QED
  BY <1>0, <1>2, <1>6, <1>7 DEF Good

-------------------------------------------------------------------------------
(* What FlattenSeq returns *)
\* The loop of FlattenSeq up to the sequence n, and the places of the elements
IsFlat(g, ss, n) ==
  /\ DOMAIN g = 1 .. n
  /\ \A k \in 1 .. n : g[k] = IF k = 1 THEN ss[k] ELSE g[k - 1] \o ss[k]
PairsTo(ss, n) == UNION {{<<i, j>> : j \in DOMAIN ss[i]} : i \in 1 .. n}

\* The equation of FlattenSeq has a solution
LEMMA FlattenEquation ==
  ASSUME NEW ss, Len(ss) \in Nat, Len(ss) # 0
  PROVE  \E g : IsFlat(g, ss, Len(ss)) /\ FlattenSeq(ss) = g[Len(ss)]
<1> DEFINE Has(n) == \E g : IsFlat(g, ss, n)
           T == {n \in 0 .. Len(ss) : ~Has(n)}
<1>1. Has(0)
  <2>1. IsFlat([k \in 1 .. 0 |-> ss[k]], ss, 0)
    BY DEF IsFlat
  <2> QED
    BY <2>1
<1>2. ASSUME NEW n \in 1 .. Len(ss), Has(n - 1) PROVE Has(n)
  <2>1. PICK g : IsFlat(g, ss, n - 1)
    BY <1>2
  <2> DEFINE h == [k \in 1 .. n |-> IF k = n
                     THEN (IF n = 1 THEN ss[n] ELSE g[n - 1] \o ss[n]) ELSE g[k]]
  <2>2. DOMAIN h = 1 .. n /\ (n # 1 => h[n - 1] = g[n - 1])
    OBVIOUS
  <2>3. h[n] = IF n = 1 THEN ss[n] ELSE h[n - 1] \o ss[n]
    BY <2>2
  <2>4. ASSUME NEW k \in 1 .. n - 1
        PROVE  h[k] = IF k = 1 THEN ss[k] ELSE h[k - 1] \o ss[k]
    <3>1. h[k] = g[k] /\ (k # 1 => h[k - 1] = g[k - 1])
      OBVIOUS
    <3> QED
      BY <2>1, <3>1 DEF IsFlat
  <2> HIDE DEF h
  <2>5. \A k \in 1 .. n : k = n \/ k \in 1 .. n - 1
    OBVIOUS
  <2>6. IsFlat(h, ss, n)
    BY <2>2, <2>3, <2>4, <2>5 DEF IsFlat
  <2> QED
    BY <2>6
<1> HIDE DEF Has
<1>3. T = {}
  <2>1. T \in SUBSET (0 .. Len(ss)) /\ 0 \notin T
    BY <1>1
  <2>2. \A n \in 1 .. Len(ss) : n \in T => n - 1 \in T
    BY <1>2
  <2> HIDE DEF T
  <2> QED
    BY <2>1, <2>2, Upwards
<1>4. PICK g : IsFlat(g, ss, Len(ss))
  BY <1>3 DEF T, Has
<1> DEFINE step(h) == [k \in 1 .. Len(ss) |-> IF k = 1 THEN ss[k] ELSE h[k - 1] \o ss[k]]
           r == [k \in 1 .. Len(ss) |-> g[k]]
<1>5. r = step(r)
  <2>1. \A k \in 1 .. Len(ss) : r[k] = g[k] /\ (k # 1 => r[k - 1] = g[k - 1])
    OBVIOUS
  <2>2. ASSUME NEW k \in 1 .. Len(ss)
        PROVE  r[k] = IF k = 1 THEN ss[k] ELSE r[k - 1] \o ss[k]
    <3> HIDE DEF r
    <3> QED
      BY <1>4, <2>1 DEF IsFlat
  <2> QED
    BY <2>2
<1> DEFINE flatten == CHOOSE h : h = step(h)
<1>6. flatten = step(flatten)
  BY <1>5
<1>7. FlattenSeq(ss) = flatten[Len(ss)]
  BY DEF FlattenSeq
<1> HIDE DEF flatten
<1>8. IsFlat(flatten, ss, Len(ss))
  BY <1>6 DEF IsFlat
<1> QED
  BY <1>7, <1>8

\* FlattenSeq returns the elements of all sequences, each once
LEMMA FlattenIs ==
  ASSUME NEW ss, IsSeq(ss), \A i \in DOMAIN ss : IsSeq(ss[i])
  PROVE  /\ IsSeq(FlattenSeq(ss))
         /\ \E f \in Bijection(DOMAIN FlattenSeq(ss), PairsTo(ss, Len(ss))) :
              \A j \in DOMAIN FlattenSeq(ss) : FlattenSeq(ss)[j] = ss[f[j][1]][f[j][2]]
<1>1. DOMAIN ss = 1 .. Len(ss) /\ Len(ss) \in Nat
  BY SeqIs
<1>2. CASE Len(ss) = 0
  <2>1. FlattenSeq(ss) = <<>> /\ IsSeq(<<>>) /\ DOMAIN <<>> = {}
    BY <1>2, SeqIs, EmptyIsSeq DEF FlattenSeq
  <2>2. PairsTo(ss, Len(ss)) = {}
    BY <1>2 DEF PairsTo
  <2> DEFINE none == [j \in {} |-> j]
  <2>3. none \in Bijection({}, {})
    <3>1. none \in [{} -> {}]
      OBVIOUS
    <3> QED
      BY <3>1, Fun_IsBij
  <2> QED
    BY <2>1, <2>2, <2>3
<1>3. CASE Len(ss) # 0
  <2>1. PICK g : IsFlat(g, ss, Len(ss)) /\ FlattenSeq(ss) = g[Len(ss)]
    BY <1>1, <1>3, FlattenEquation
  <2> DEFINE Good(n) == IsSeq(g[n]) /\ \E f \in Bijection(DOMAIN g[n], PairsTo(ss, n)) :
                                         \A j \in DOMAIN g[n] : g[n][j] = ss[f[j][1]][f[j][2]]
             T == {n \in 0 .. Len(ss) : n # 0 /\ ~Good(n)}
  <2>2. ASSUME NEW n \in 1 .. Len(ss), n # 1 => Good(n - 1) PROVE Good(n)
    <3> DEFINE last == ss[n]
               m == Len(last)
    <3>1. IsSeq(last) /\ DOMAIN last = 1 .. m /\ m \in Nat
      BY <1>1, SeqIs
    <3>2. CASE n = 1
      <4>1. g[n] = last
        BY <2>1, <3>2 DEF IsFlat
      <4>2. PairsTo(ss, n) = {<<1, j>> : j \in 1 .. m}
        BY <3>1, <3>2 DEF PairsTo
      <4> HIDE DEF m, last
      <4> DEFINE h == [j \in 1 .. m |-> <<1, j>>]
      <4>3. h \in Bijection(1 .. m, {<<1, j>> : j \in 1 .. m})
        <5>1. h \in [1 .. m -> {<<1, j>> : j \in 1 .. m}]
          OBVIOUS
        <5>2. \A a, b \in 1 .. m : h[a] = h[b] => a = b
          OBVIOUS
        <5>3. \A t \in {<<1, j>> : j \in 1 .. m} : \E a \in 1 .. m : h[a] = t
          OBVIOUS
        <5> HIDE DEF h
        <5> QED
          BY <5>1, <5>2, <5>3, Fun_IsBij
      <4>4. \A j \in 1 .. m : last[j] = ss[h[j][1]][h[j][2]]
        BY <3>2 DEF last
      <4> QED
        BY <3>1, <4>1, <4>2, <4>3, <4>4
    <3>3. CASE n # 1
      <4> DEFINE old == g[n - 1]
                 l == Len(old)
      <4>1. IsSeq(old) /\ DOMAIN old = 1 .. l /\ l \in Nat
        BY <2>2, <3>3, SeqIs
      <4>2. g[n] = old \o last
        BY <2>1, <3>3 DEF IsFlat
      <4>3. PICK f \in Bijection(DOMAIN old, PairsTo(ss, n - 1)) :
              \A j \in DOMAIN old : old[j] = ss[f[j][1]][f[j][2]]
        BY <2>2, <3>3
      <4>4. /\ f \in [DOMAIN old -> PairsTo(ss, n - 1)]
            /\ \A a, b \in DOMAIN old : f[a] = f[b] => a = b
            /\ \A t \in PairsTo(ss, n - 1) : \E a \in DOMAIN old : f[a] = t
        BY <4>3, Fun_BijectionProperties
      <4>5. PairsTo(ss, n) = PairsTo(ss, n - 1) \cup {<<n, j>> : j \in 1 .. m}
        <5>1. 1 .. n = 1 .. (n - 1) \cup {n}
          BY <3>3
        <5>2. DOMAIN ss[n] = 1 .. m
          BY <3>1
        <5> HIDE DEF m
        <5>3. ASSUME NEW t \in PairsTo(ss, n)
              PROVE  t \in PairsTo(ss, n - 1) \cup {<<n, j>> : j \in 1 .. m}
          <6>1. PICK i \in 1 .. n : t \in {<<i, j>> : j \in DOMAIN ss[i]}
            BY DEF PairsTo
          <6>2. CASE i = n
            BY <5>2, <6>1, <6>2
          <6>3. CASE i # n
            <7>1. i \in 1 .. (n - 1)
              BY <6>3
            <7> QED
              BY <6>1, <7>1 DEF PairsTo
          <6> QED
            BY <6>2, <6>3
        <5>4. ASSUME NEW t \in PairsTo(ss, n - 1) PROVE t \in PairsTo(ss, n)
          <6>1. PICK i \in 1 .. (n - 1) : t \in {<<i, j>> : j \in DOMAIN ss[i]}
            BY DEF PairsTo
          <6> QED
            BY <5>1, <6>1 DEF PairsTo
        <5>5. ASSUME NEW t \in {<<n, j>> : j \in 1 .. m} PROVE t \in PairsTo(ss, n)
          <6>1. t \in {<<n, j>> : j \in DOMAIN ss[n]} /\ n \in 1 .. n
            BY <5>2
          <6> QED
            BY <6>1 DEF PairsTo
        <5> QED
          BY <5>3, <5>4, <5>5
      <4>6. \A t \in PairsTo(ss, n - 1) : t[1] # n
        BY DEF PairsTo
      <4> HIDE DEF old, l, last, m
      <4>7. /\ IsSeq(old \o last) /\ Len(old \o last) = l + m
            /\ \A k \in 1 .. l : (old \o last)[k] = old[k]
            /\ \A k \in 1 .. m : (old \o last)[l + k] = last[k]
        BY <3>1, <4>1, ConcatIs DEF l, m
      <4>8. DOMAIN (old \o last) = 1 .. (l + m)
        BY <4>7, SeqIs
      <4> DEFINE h == [j \in 1 .. (l + m) |-> IF j <= l THEN f[j] ELSE <<n, j - l>>]
      <4>9. \A j \in 1 .. (l + m) : (j <= l /\ j \in 1 .. l) \/ (~(j <= l) /\ j - l \in 1 .. m)
        BY <3>1, <4>1
      <4>10. h \in [1 .. (l + m) -> PairsTo(ss, n)]
        BY <4>1, <4>4, <4>5, <4>9
      <4>11. ASSUME NEW a \in 1 .. (l + m), NEW b \in 1 .. (l + m), h[a] = h[b] PROVE a = b
        <5>1. CASE a <= l /\ b <= l
          BY <4>1, <4>4, <4>9, <4>11, <5>1
        <5>2. CASE ~(a <= l) /\ ~(b <= l)
          <6>1. <<n, a - l>> = <<n, b - l>>
            BY <4>11, <5>2
          <6>2. a - l = b - l
            BY <6>1
          <6> QED
            BY <4>1, <6>2
        <5>3. CASE a <= l /\ ~(b <= l)
          <6>1. h[a] \in PairsTo(ss, n - 1) /\ h[b] = <<n, b - l>>
            BY <4>1, <4>4, <4>9, <5>3
          <6> QED
            BY <4>6, <4>11, <6>1
        <5>4. CASE ~(a <= l) /\ b <= l
          <6>1. h[b] \in PairsTo(ss, n - 1) /\ h[a] = <<n, a - l>>
            BY <4>1, <4>4, <4>9, <5>4
          <6> QED
            BY <4>6, <4>11, <6>1
        <5> QED
          BY <5>1, <5>2, <5>3, <5>4
      <4>12. ASSUME NEW t \in PairsTo(ss, n) PROVE \E a \in 1 .. (l + m) : h[a] = t
        <5>1. CASE t \in PairsTo(ss, n - 1)
          <6>1. PICK a \in 1 .. l : f[a] = t
            BY <4>1, <4>4, <5>1
          <6>2. a \in 1 .. (l + m) /\ a <= l
            BY <3>1, <4>1
          <6> QED
            BY <6>1, <6>2
        <5>2. CASE t \in {<<n, j>> : j \in 1 .. m}
          <6>1. PICK j \in 1 .. m : t = <<n, j>>
            BY <5>2
          <6>2. l + j \in 1 .. (l + m) /\ ~(l + j <= l) /\ (l + j) - l = j
            BY <3>1, <4>1
          <6>3. h[l + j] = t
            BY <6>1, <6>2
          <6> QED
            BY <6>2, <6>3
        <5> QED
          BY <4>5, <5>1, <5>2
      <4>13. h \in Bijection(1 .. (l + m), PairsTo(ss, n))
        <5> HIDE DEF h
        <5> QED
          BY <4>10, <4>11, <4>12, Fun_IsBij
      <4>14. ASSUME NEW j \in 1 .. (l + m) PROVE (old \o last)[j] = ss[h[j][1]][h[j][2]]
        <5>1. CASE j <= l
          <6>1. j \in 1 .. l /\ h[j] = f[j]
            BY <4>9, <5>1
          <6> QED
            BY <4>1, <4>3, <4>7, <6>1
        <5>2. CASE ~(j <= l)
          <6>1. j - l \in 1 .. m /\ h[j] = <<n, j - l>> /\ l + (j - l) = j
            BY <4>1, <4>9, <5>2
          <6>2. (old \o last)[j] = last[j - l]
            BY <4>7, <6>1
          <6>3. h[j][1] = n /\ h[j][2] = j - l
            BY <6>1
          <6> HIDE DEF h
          <6> QED
            BY <6>2, <6>3 DEF last
        <5> QED
          BY <5>1, <5>2
      <4> HIDE DEF h
      <4>15. /\ IsSeq(g[n]) /\ DOMAIN g[n] = 1 .. (l + m)
             /\ \A j \in 1 .. (l + m) : g[n][j] = ss[h[j][1]][h[j][2]]
        BY <4>2, <4>7, <4>8, <4>14
      <4> QED
        BY <4>13, <4>15
    <3> QED
      BY <3>2, <3>3
  <2> HIDE DEF Good
  <2>3. T = {}
    <3>1. T \in SUBSET (0 .. Len(ss)) /\ 0 \notin T
      OBVIOUS
    <3>2. \A n \in 1 .. Len(ss) : n \in T => n - 1 \in T
      BY <2>2
    <3> HIDE DEF T
    <3> QED
      BY <1>1, <3>1, <3>2, Upwards
  <2>4. Good(Len(ss))
    BY <1>1, <1>3, <2>3
  <2> QED
    BY <2>1, <2>4 DEF Good
<1> QED
  BY <1>2, <1>3


\* The sequence of one element
LEMMA OneIs ==
  ASSUME NEW e
  PROVE  /\ IsSeq(<<e>>) /\ Len(<<e>>) = 1 /\ DOMAIN <<e>> = {1} /\ <<e>>[1] = e
         /\ <<e>> # <<>> /\ Last(<<e>>) = e
<1>1. <<e>> \in Seq({e})
  OBVIOUS
<1>2. Len(<<e>>) = 1 /\ <<e>>[1] = e
  OBVIOUS
<1>3. IsSeq(<<e>>)
  BY <1>1, ToSetSeq
<1>4. DOMAIN <<e>> = 1 .. 1
  BY <1>2, <1>3, SeqIs
<1>5. Last(<<e>>) = e
  BY <1>2 DEF Last
<1> QED
  BY <1>2, <1>3, <1>4, <1>5, SeqIs

\* A sequence with one element
LEMMA IsOne ==
  ASSUME NEW s, IsSeq(s), Len(s) = 1
  PROVE  s = <<s[1]>> /\ 1 \in DOMAIN s
<1> DEFINE t == <<s[1]>>
<1>1. IsSeq(t) /\ Len(t) = 1 /\ t[1] = s[1]
  BY OneIs
<1>2. DOMAIN s = 1 .. 1
  BY SeqIs
<1> HIDE DEF t
<1>3. \A k \in DOMAIN s : s[k] = t[k]
  BY <1>1, <1>2
<1>4. s = t
  BY <1>1, <1>3, SameSeq
<1> QED
  BY <1>2, <1>4 DEF t

\* All places are picked
LEMMA PickedAll ==
  ASSUME NEW s, IsSeq(s), NEW K, DOMAIN s \subseteq K
  PROVE  Picked(s, K) = s
<1>1. DOMAIN s = 1 .. Len(s) /\ Len(s) \in Nat
  BY SeqIs
<1> DEFINE p == Picked(s, K)
           len == Len(s)
           lo == 0
<1>2. K \cap DOMAIN s = (lo + 1) .. len
  BY <1>1
<1>3. lo \in Nat /\ lo <= len /\ len <= Len(s) /\ len \in Nat
  BY <1>1
<1>4. IsSeq(p) /\ Len(p) = len - lo /\ \A j \in 1 .. (len - lo) : p[j] = s[lo + j]
  <2> HIDE DEF len, lo
  <2>1. Between(s, K, lo, len)
    BY <1>2, <1>3 DEF Between
  <2> QED
    BY <2>1, PickedInterval
<1> HIDE DEF p
<1>5. Len(p) = Len(s) /\ \A j \in DOMAIN s : p[j] = s[j]
  BY <1>1, <1>4
<1> QED
  BY <1>4, <1>5, SameSeq DEF p

\* One place is picked
LEMMA PickedOne ==
  ASSUME NEW s, IsSeq(s), NEW K, NEW k \in DOMAIN s, K \cap DOMAIN s = {k}
  PROVE  Picked(s, K) = <<s[k]>>
<1>1. DOMAIN s = 1 .. Len(s) /\ Len(s) \in Nat
  BY SeqIs
<1> DEFINE lo == k - 1
           p == Picked(s, K)
<1>2. lo \in Nat /\ k \in Nat /\ lo <= k /\ k <= Len(s) /\ k - lo = 1 /\ lo + 1 = k
  BY <1>1
<1>3. K \cap DOMAIN s = (lo + 1) .. k
  <2>1. k .. k = {k}
    BY <1>2
  <2> HIDE DEF lo
  <2> QED
    BY <1>2, <2>1
<1>4. IsSeq(p) /\ Len(p) = k - lo /\ \A j \in 1 .. (k - lo) : p[j] = s[lo + j]
  <2> HIDE DEF lo
  <2>1. Between(s, K, lo, k)
    BY <1>2, <1>3 DEF Between
  <2> QED
    BY <2>1, PickedInterval
<1> HIDE DEF p
<1>5. Len(p) = 1 /\ p[1] = s[k]
  <2>1. 1 \in 1 .. (k - lo)
    BY <1>2
  <2>2. p[1] = s[lo + 1]
    BY <1>4, <2>1
  <2> QED
    BY <1>2, <1>4, <2>2
<1> QED
  BY <1>4, <1>5, IsOne DEF p

\* The only sequence of a sequence
LEMMA FlatOne ==
  ASSUME NEW s, IsSeq(s), Len(s) = 1, IsSeq(s[1])
  PROVE  Flat(s) = s[1]
<1>1. DOMAIN s = {1}
  BY SeqIs
<1>2. Len(s) \in Nat /\ Len(s) # 0
  OBVIOUS
<1>3. PICK g : IsFlat(g, s, Len(s)) /\ FlattenSeq(s) = g[Len(s)]
  BY <1>2, FlattenEquation
<1>4. g[1] = s[1]
  BY <1>3 DEF IsFlat
<1> QED
  BY <1>3, <1>4 DEF Flat

\* The elements of a set of a sequence
LEMMA ToSetIs ==
  ASSUME NEW s, IsSeq(s), NEW k \in DOMAIN s
  PROVE  s[k] \in ToSet(s)
  BY DEF ToSet

\* The elements of a sequence behind Append and in front of others
LEMMA AppendSet ==
  ASSUME NEW s, IsSeq(s), NEW e
  PROVE  IsSeq(Append(s, e)) /\ ToSet(Append(s, e)) = ToSet(s) \cup {e}
<1>1. /\ IsSeq(Append(s, e)) /\ Len(Append(s, e)) = Len(s) + 1
      /\ \A k \in DOMAIN s : Append(s, e)[k] = s[k]
      /\ Append(s, e)[Len(s) + 1] = e
  BY AppendIs
<1>2. Len(s) \in Nat /\ DOMAIN s = 1 .. Len(s) /\ DOMAIN Append(s, e) = 1 .. (Len(s) + 1)
  BY <1>1, SeqIs
<1>3. ASSUME NEW x \in ToSet(Append(s, e)) PROVE x \in ToSet(s) \cup {e}
  <2>1. PICK k \in DOMAIN Append(s, e) : Append(s, e)[k] = x
    BY DEF ToSet
  <2> QED
    BY <1>1, <1>2, <2>1 DEF ToSet
<1>4. ASSUME NEW x \in ToSet(s) PROVE x \in ToSet(Append(s, e))
  <2>1. PICK k \in DOMAIN s : s[k] = x
    BY DEF ToSet
  <2> QED
    BY <1>1, <1>2, <2>1 DEF ToSet
<1>5. e \in ToSet(Append(s, e))
  <2>1. Len(s) + 1 \in DOMAIN Append(s, e)
    BY <1>2
  <2> QED
    BY <1>1, <2>1 DEF ToSet
<1> QED
  BY <1>1, <1>3, <1>4, <1>5

\* The elements of two sequences that are joined
LEMMA ConcatSet ==
  ASSUME NEW s, IsSeq(s), NEW t, IsSeq(t)
  PROVE  IsSeq(s \o t) /\ ToSet(s \o t) \subseteq ToSet(s) \cup ToSet(t)
<1>1. /\ IsSeq(s \o t)
      /\ \A k \in DOMAIN (s \o t) :
           k \in DOMAIN s \/ (k - Len(s) \in DOMAIN t /\ (s \o t)[k] = t[k - Len(s)])
      /\ \A k \in DOMAIN s : (s \o t)[k] = s[k]
  BY ConcatIs
<1>2. ASSUME NEW x \in ToSet(s \o t) PROVE x \in ToSet(s) \cup ToSet(t)
  <2>1. PICK k \in DOMAIN (s \o t) : (s \o t)[k] = x
    BY DEF ToSet
  <2>2. CASE k \in DOMAIN s
    BY <1>1, <2>1, <2>2 DEF ToSet
  <2>3. CASE k - Len(s) \in DOMAIN t /\ (s \o t)[k] = t[k - Len(s)]
    BY <2>1, <2>3 DEF ToSet
  <2> QED
    BY <1>1, <2>1, <2>2, <2>3
<1> QED
  BY <1>1, <1>2

\* What Tail leaves
LEMMA TailIs ==
  ASSUME NEW s, IsSeq(s), s # <<>>
  PROVE  /\ IsSeq(Tail(s)) /\ Len(Tail(s)) = Len(s) - 1 /\ ToSet(Tail(s)) \subseteq ToSet(s)
         /\ \A k \in DOMAIN Tail(s) : k + 1 \in DOMAIN s /\ Tail(s)[k] = s[k + 1]
         /\ Head(s) = s[1] /\ 1 \in DOMAIN s
<1>1. s \in Seq(ToSet(s)) /\ Len(s) \in Nat /\ DOMAIN s = 1 .. Len(s) /\ Len(s) # 0
  BY SeqIs DEF IsSeq
<1>2. /\ Tail(s) \in Seq(ToSet(s)) /\ Len(Tail(s)) = Len(s) - 1
      /\ \A i \in 1 .. Len(Tail(s)) : Tail(s)[i] = s[i + 1]
      /\ Head(s) = s[1]
  BY <1>1, HeadTailProperties
<1>3. IsSeq(Tail(s)) /\ DOMAIN Tail(s) = 1 .. Len(Tail(s))
  BY <1>2, ToSetSeq, SeqIs
<1>4. ToSet(Tail(s)) \subseteq ToSet(s)
  BY <1>1, <1>2, <1>3 DEF ToSet
<1> QED
  BY <1>1, <1>2, <1>3, <1>4

\* The first elements of a sequence
LEMMA FirstsAre ==
  ASSUME NEW s, IsSeq(s), NEW n \in Nat, n <= Len(s)
  PROVE  /\ IsSeq(SubSeq(s, 1, n)) /\ Len(SubSeq(s, 1, n)) = n
         /\ \A k \in 1 .. n : k \in DOMAIN s /\ SubSeq(s, 1, n)[k] = s[k]
<1>1. s \in Seq(ToSet(s)) /\ Len(s) \in Nat /\ DOMAIN s = 1 .. Len(s)
  BY SeqIs DEF IsSeq
<1>2. \A i \in 1 .. n : s[i] \in ToSet(s)
  BY <1>1 DEF ToSet
<1>3. /\ SubSeq(s, 1, n) \in Seq(ToSet(s))
      /\ Len(SubSeq(s, 1, n)) = n
      /\ \A i \in 1 .. n : SubSeq(s, 1, n)[i] = s[1 + i - 1]
  BY <1>1, <1>2, SubSeqProperties
<1>4. IsSeq(SubSeq(s, 1, n))
  BY <1>3, ToSetSeq
<1> QED
  BY <1>1, <1>3, <1>4

\* The elements of sequences that are joined
LEMMA FlatElements ==
  ASSUME NEW ss, IsSeq(ss), \A i \in DOMAIN ss : IsSeq(ss[i])
  PROVE  /\ IsSeq(Flat(ss))
         /\ \A j \in DOMAIN Flat(ss) :
              \E i \in DOMAIN ss : \E k \in DOMAIN ss[i] : Flat(ss)[j] = ss[i][k]
<1> DEFINE S == DOMAIN FlattenSeq(ss)
           T == PairsTo(ss, Len(ss))
<1>1. Flat(ss) = FlattenSeq(ss)
  BY DEF Flat
<1>2. IsSeq(FlattenSeq(ss))
  BY FlattenIs
<1>3. PICK f \in Bijection(S, T) : \A j \in S : FlattenSeq(ss)[j] = ss[f[j][1]][f[j][2]]
  BY FlattenIs
<1>4. f \in [S -> T]
  <2> HIDE DEF S, T
  <2> QED
    BY <1>3, Fun_BijectionProperties
<1>5. Len(ss) \in Nat /\ DOMAIN ss = 1 .. Len(ss)
  BY SeqIs
<1>6. ASSUME NEW j \in S
      PROVE  \E i \in DOMAIN ss : \E k \in DOMAIN ss[i] : FlattenSeq(ss)[j] = ss[i][k]
  <2>1. f[j] \in T
    BY <1>4
  <2>2. f[j][1] \in DOMAIN ss /\ f[j][2] \in DOMAIN ss[f[j][1]]
    BY <1>5, <2>1 DEF PairsTo
  <2> QED
    BY <1>3, <2>2
<1> QED
  BY <1>1, <1>2, <1>6

-------------------------------------------------------------------------------
(* Sequences one behind the other *)

\* No place is picked
LEMMA PickedNone ==
  ASSUME NEW s, IsSeq(s), NEW K, K \cap DOMAIN s = {}
  PROVE  Picked(s, K) = <<>>
<1> DEFINE p == Picked(s, K)
           zero == 0
<1>1. Len(s) \in Nat
  BY SeqIs
<1>2. Between(s, K, zero, zero)
  BY <1>1 DEF Between
<1>3. IsSeq(p) /\ Len(p) = zero - zero
  <2> HIDE DEF zero
  <2> QED
    BY <1>2, PickedInterval
<1> HIDE DEF p
<1>4. IsSeq(p) /\ Len(p) = 0
  BY <1>3
<1>5. p = <<>>
  BY <1>4, SeqIs
<1> QED
  BY <1>5 DEF p

\* The places of two sequences
Joined(s, a, b) ==
  /\ IsSeq(s) /\ Len(s) = Len(a) + Len(b) /\ Len(a) \in Nat /\ Len(b) \in Nat
  /\ DOMAIN s = 1 .. (Len(a) + Len(b))
  /\ DOMAIN a = 1 .. Len(a) /\ DOMAIN b = 1 .. Len(b)
  /\ \A k \in DOMAIN a : s[k] = a[k]
  /\ \A k \in DOMAIN b : s[Len(a) + k] = b[k]

\* A concatenation is joined of its parts
LEMMA JoinedIs ==
  ASSUME NEW a, IsSeq(a), NEW b, IsSeq(b)
  PROVE  Joined(a \o b, a, b)
<1> DEFINE s == a \o b
<1>4. IsSeq(s) /\ Len(s) = Len(a) + Len(b)
  BY ConcatIs
<1>5. \A k \in DOMAIN a : s[k] = a[k]
  BY ConcatIs
<1>6. \A k \in DOMAIN b : s[Len(a) + k] = b[k]
  <2>1. s = a \o b
    OBVIOUS
  <2>2. Len(a) \in Nat /\ DOMAIN b = 1 .. Len(b) /\ Len(b) \in Nat
    BY SeqIs
  <2> HIDE DEF s
  <2> QED
    BY <2>1, <2>2, ConcatIs
<1>1. /\ IsSeq(s) /\ Len(s) = Len(a) + Len(b)
      /\ \A k \in DOMAIN a : s[k] = a[k]
      /\ \A k \in DOMAIN b : s[Len(a) + k] = b[k]
  BY <1>4, <1>5, <1>6
<1> HIDE DEF s
<1>2. DOMAIN s = 1 .. Len(s) /\ Len(a) \in Nat /\ Len(b) \in Nat
      /\ DOMAIN a = 1 .. Len(a) /\ DOMAIN b = 1 .. Len(b)
  BY <1>1, SeqIs
<1>3. Joined(s, a, b)
  BY <1>1, <1>2 DEF Joined
<1> QED
  BY <1>3 DEF s

\* The first or the last places are picked
LEMMA PickedFirst ==
  ASSUME NEW a, IsSeq(a), NEW b, IsSeq(b), NEW K,
         DOMAIN a \subseteq K, \A k \in DOMAIN b : Len(a) + k \notin K
  PROVE  Picked(a \o b, K) = a
<1> DEFINE s == a \o b
           p == Picked(s, K)
           lo == 0
           hi == Len(a)
<1>0. Joined(s, a, b)
  BY JoinedIs
<1>1. /\ IsSeq(s) /\ Len(s) = Len(a) + Len(b) /\ \A k \in DOMAIN a : s[k] = a[k]
  BY <1>0 DEF Joined
<1>2. /\ DOMAIN a = 1 .. Len(a) /\ Len(a) \in Nat /\ DOMAIN b = 1 .. Len(b) /\ Len(b) \in Nat
      /\ DOMAIN s = 1 .. Len(s)
  BY <1>0 DEF Joined
<1>3. K \cap DOMAIN s = (lo + 1) .. hi
  <2>1. ASSUME NEW k \in K, k \in DOMAIN s PROVE k \in 1 .. Len(a)
    <3>1. k \in 1 .. (Len(a) + Len(b))
      BY <1>1, <1>2, <2>1
    <3>2. k - Len(a) \notin DOMAIN b
      <4>1. k - Len(a) \in DOMAIN b => Len(a) + (k - Len(a)) \notin K
        OBVIOUS
      <4>2. Len(a) + (k - Len(a)) = k
        BY <1>2, <3>1
      <4> QED
        BY <4>1, <4>2
    <3> QED
      BY <1>2, <3>1, <3>2
  <2>2. ASSUME NEW k \in 1 .. Len(a) PROVE k \in K /\ k \in DOMAIN s
    BY <1>1, <1>2
  <2> QED
    BY <2>1, <2>2
<1>4. lo \in Nat /\ hi \in Nat /\ lo <= hi /\ hi <= Len(s) /\ hi - lo = hi
  BY <1>1, <1>2
<1> HIDE DEF s
<1>5. IsSeq(p) /\ Len(p) = hi - lo /\ \A j \in 1 .. (hi - lo) : p[j] = s[lo + j]
  <2> HIDE DEF lo, hi
  <2>1. Between(s, K, lo, hi)
    BY <1>3, <1>4 DEF Between
  <2> QED
    BY <1>1, <2>1, PickedInterval
<1> HIDE DEF p
<1>6. Len(p) = Len(a) /\ \A j \in DOMAIN a : p[j] = a[j]
  BY <1>1, <1>2, <1>4, <1>5
<1>7. p = a
  BY <1>5, <1>6, SameSeq
<1> QED
  BY <1>7 DEF p, s

\* ... and those that are the second of two sequences
LEMMA PickedLast ==
  ASSUME NEW a, IsSeq(a), NEW b, IsSeq(b), NEW K,
         DOMAIN a \cap K = {}, \A k \in DOMAIN b : Len(a) + k \in K
  PROVE  Picked(a \o b, K) = b
<1> DEFINE s == a \o b
           p == Picked(s, K)
           lo == Len(a)
           hi == Len(a) + Len(b)
<1>0. Joined(s, a, b)
  BY JoinedIs
<1>1. /\ IsSeq(s) /\ Len(s) = Len(a) + Len(b) /\ \A k \in DOMAIN b : s[Len(a) + k] = b[k]
  BY <1>0 DEF Joined
<1>2. /\ DOMAIN a = 1 .. Len(a) /\ Len(a) \in Nat /\ DOMAIN b = 1 .. Len(b) /\ Len(b) \in Nat
      /\ DOMAIN s = 1 .. Len(s)
  BY <1>0 DEF Joined
<1>3. K \cap DOMAIN s = (lo + 1) .. hi
  <2>1. ASSUME NEW k \in K, k \in DOMAIN s PROVE k \in (lo + 1) .. hi
    <3>1. k \in 1 .. (Len(a) + Len(b)) /\ k \notin 1 .. Len(a)
      BY <1>1, <1>2, <2>1
    <3> QED
      BY <1>2, <3>1
  <2>2. ASSUME NEW k \in (lo + 1) .. hi PROVE k \in K /\ k \in DOMAIN s
    <3>1. k - Len(a) \in DOMAIN b /\ Len(a) + (k - Len(a)) = k /\ k \in 1 .. (Len(a) + Len(b))
      BY <1>2
    <3>2. Len(a) + (k - Len(a)) \in K
      BY <3>1
    <3> QED
      BY <1>1, <1>2, <3>1, <3>2
  <2> QED
    BY <2>1, <2>2
<1>4. lo \in Nat /\ hi \in Nat /\ lo <= hi /\ hi <= Len(s) /\ hi - lo = Len(b)
  BY <1>1, <1>2
<1> HIDE DEF s
<1>5. IsSeq(p) /\ Len(p) = hi - lo /\ \A j \in 1 .. (hi - lo) : p[j] = s[lo + j]
  <2> HIDE DEF lo, hi
  <2>1. Between(s, K, lo, hi)
    BY <1>3, <1>4 DEF Between
  <2> QED
    BY <1>1, <2>1, PickedInterval
<1> HIDE DEF p
<1>6. Len(p) = Len(b)
  BY <1>4, <1>5
<1>8. \A j \in DOMAIN p : p[j] = b[j]
  <2>1. DOMAIN p = 1 .. Len(b)
    BY <1>5, <1>6, SeqIs
  <2> QED
    BY <1>1, <1>2, <1>4, <1>5, <2>1
<1>7. p = b
  BY <1>5, <1>6, <1>8, SameSeq
<1> QED
  BY <1>7 DEF p, s

-------------------------------------------------------------------------------
(* Reading what is written *)

\* All elements have a tag, or none has
AllTag(s, tag) == \A k \in DOMAIN s : s[k].tag = tag
NoTag(s, tag) == \A k \in DOMAIN s : s[k].tag # tag

\* The children of a tag
LEMMA TaggedFirst ==
  ASSUME NEW a, IsSeq(a), NEW b, IsSeq(b), NEW tag, AllTag(a, tag), NoTag(b, tag)
  PROVE  Tagged(a \o b, tag) = a
<1> DEFINE s == a \o b
           K == {k \in DOMAIN s : s[k].tag = tag}
<1>1. Tagged(s, tag) = Picked(s, K)
  BY DEF Tagged, Those
<1>3. Joined(s, a, b)
  BY JoinedIs
<1> HIDE DEF s
<1>2. DOMAIN a \subseteq K /\ \A k \in DOMAIN b : Len(a) + k \notin K
  BY <1>3 DEF Joined, AllTag, NoTag
<1> HIDE DEF K
<1> QED
  BY <1>1, <1>2, PickedFirst DEF s

\* ... and those behind the children of other tags
LEMMA TaggedLast ==
  ASSUME NEW a, IsSeq(a), NEW b, IsSeq(b), NEW tag, NoTag(a, tag), AllTag(b, tag)
  PROVE  Tagged(a \o b, tag) = b
<1> DEFINE s == a \o b
           K == {k \in DOMAIN s : s[k].tag = tag}
<1>1. Tagged(s, tag) = Picked(s, K)
  BY DEF Tagged, Those
<1>3. Joined(s, a, b)
  BY JoinedIs
<1> HIDE DEF s
<1>2. DOMAIN a \cap K = {} /\ \A k \in DOMAIN b : Len(a) + k \in K
  <2>1. ASSUME NEW k \in DOMAIN b PROVE Len(a) + k \in K
    <3>1. Len(a) + k \in DOMAIN s
      BY <1>3 DEF Joined
    <3>2. s[Len(a) + k].tag = tag
      BY <1>3 DEF Joined, AllTag
    <3> QED
      BY <3>1, <3>2
  <2> QED
    BY <1>3, <2>1 DEF Joined, NoTag
<1> HIDE DEF K
<1> QED
  BY <1>1, <1>2, PickedLast DEF s

\* The children up to the first of another tag
LEMMA LeadingIs ==
  ASSUME NEW a, IsSeq(a), NEW b, IsSeq(b), NEW tag, AllTag(a, tag), NoTag(b, tag)
  PROVE  Leading(a \o b, tag) = a
<1> DEFINE s == a \o b
           stop == {k \in DOMAIN s : s[k].tag # tag}
           n == Len(a)
           end == IF stop = {} THEN Len(s) ELSE (CHOOSE k \in stop : \A j \in stop : k <= j) - 1
           t == SubSeq(s, 1, n)
<1>0. Joined(s, a, b)
  BY JoinedIs
<1>1. Leading(s, tag) = SubSeq(s, 1, end)
  BY DEF Leading
<1>2. /\ IsSeq(s) /\ Len(s) = n + Len(b) /\ n \in Nat /\ Len(b) \in Nat
      /\ DOMAIN s = 1 .. (n + Len(b)) /\ DOMAIN a = 1 .. n /\ DOMAIN b = 1 .. Len(b)
      /\ \A k \in DOMAIN a : s[k] = a[k]
      /\ \A k \in DOMAIN b : s[n + k] = b[k]
  <2> HIDE DEF s
  <2> QED
    BY <1>0 DEF Joined
<1> HIDE DEF s, n
<1>3. stop = (n + 1) .. (n + Len(b))
  <2>1. ASSUME NEW k \in stop PROVE k \in (n + 1) .. (n + Len(b))
    BY <1>2 DEF AllTag
  <2>2. ASSUME NEW k \in (n + 1) .. (n + Len(b)) PROVE k \in stop
    <3>1. k - n \in DOMAIN b /\ n + (k - n) = k /\ k \in DOMAIN s
      BY <1>2
    <3>2. s[n + (k - n)] = b[k - n]
      BY <1>2, <3>1
    <3> QED
      BY <3>1, <3>2 DEF NoTag
  <2> QED
    BY <2>1, <2>2
<1>4. end = n
  <2>1. CASE Len(b) = 0
    BY <1>2, <1>3, <2>1
  <2>2. CASE Len(b) # 0
    <3>1. n + 1 \in stop /\ \A j \in stop : n + 1 <= j
      BY <1>2, <1>3, <2>2
    <3>2. \A k \in stop : k \in Int
      BY <1>2, <1>3
    <3> DEFINE first == CHOOSE k \in stop : \A j \in stop : k <= j
    <3>3. first \in stop /\ \A j \in stop : first <= j
      BY <3>1
    <3>4. end = first - 1
      BY <3>1
    <3> HIDE DEF stop, first, end
    <3> QED
      BY <1>2, <3>1, <3>2, <3>3, <3>4
  <2> QED
    BY <1>2, <2>1, <2>2
<1>5. IsSeq(t) /\ Len(t) = n /\ \A k \in 1 .. n : t[k] = s[k]
  BY <1>2, FirstsAre
<1> HIDE DEF t
<1>6. t = a
  BY <1>2, <1>5, SameSeq DEF n
<1> QED
  BY <1>1, <1>4, <1>6 DEF t, s

\* One element only has the tag
OnlyAt(s, tag, k) == k \in DOMAIN s /\ \A j \in DOMAIN s : s[j].tag = tag <=> j = k

\* The text of the only child of a tag
LEMMA TextIs ==
  ASSUME NEW a, IsSeq(a), NEW b, IsSeq(b), NEW tag, NEW default, NoTag(a, tag),
         NEW k, OnlyAt(b, tag, k)
  PROVE  Text(a \o b, tag, default) = IF b[k].kids = <<>> THEN default ELSE b[k].kids[1]
<1> DEFINE s == a \o b
           n == Len(a)
           K == {i \in DOMAIN s : s[i].tag = tag /\ s[i].kids # <<>>}
           given == Picked(s, K)
<1>7. k \in DOMAIN b /\ \A j \in DOMAIN b : b[j].tag = tag <=> j = k
  BY DEF OnlyAt
<1>0. Joined(s, a, b)
  BY JoinedIs
<1>1. Text(s, tag, default) = IF given = <<>> THEN default ELSE Last(given).kids[1]
  BY DEF Text, Those
<1>2. /\ IsSeq(s) /\ n \in Nat /\ Len(b) \in Nat
      /\ DOMAIN s = 1 .. (n + Len(b)) /\ DOMAIN a = 1 .. n /\ DOMAIN b = 1 .. Len(b)
      /\ \A i \in DOMAIN a : s[i] = a[i]
      /\ \A i \in DOMAIN b : s[n + i] = b[i]
  <2> HIDE DEF s
  <2> QED
    BY <1>0 DEF Joined
<1> HIDE DEF s, n
<1>3. \A i \in DOMAIN s : s[i].tag = tag <=> i = n + k
  <2> SUFFICES ASSUME NEW i \in DOMAIN s PROVE s[i].tag = tag <=> i = n + k
    OBVIOUS
  <2>1. CASE i \in DOMAIN a
    BY <1>2, <1>7, <2>1 DEF NoTag
  <2>2. CASE i \notin DOMAIN a
    <3>1. i - n \in DOMAIN b /\ n + (i - n) = i
      BY <1>2, <2>2
    <3>2. s[i] = b[i - n]
      BY <1>2, <3>1
    <3>3. (i - n = k) <=> (i = n + k)
      BY <1>2, <1>7, <2>2
    <3> QED
      BY <1>7, <3>1, <3>2, <3>3
  <2> QED
    BY <2>1, <2>2
<1>4. n + k \in DOMAIN s /\ s[n + k] = b[k]
  BY <1>2, <1>7
<1>5. CASE b[k].kids = <<>>
  <2>1. K = {} /\ K \cap DOMAIN s = {}
    BY <1>3, <1>4, <1>5
  <2>2. given = <<>>
    BY <1>2, <2>1, PickedNone
  <2> QED
    BY <1>1, <1>5, <2>2 DEF s
<1>6. CASE b[k].kids # <<>>
  <2> DEFINE m == n + k
  <2>1. m \in DOMAIN s /\ K \cap DOMAIN s = {m}
    BY <1>3, <1>4, <1>6
  <2> HIDE DEF m, K
  <2>2. given = <<s[m]>>
    BY <1>2, <2>1, PickedOne
  <2>3. given # <<>> /\ Last(given) = b[k]
    BY <1>4, <2>2, OneIs DEF m
  <2> QED
    BY <1>1, <1>6, <2>3 DEF s
<1> QED
  BY <1>5, <1>6

-------------------------------------------------------------------------------
(* The texts of the enumerations *)

\* A table gives a text to one value only
Injective(table) == \A v, w \in DOMAIN table : table[v] = table[w] => v = w

\* Every text of an enumeration is that of one value
LEMMA TablesAreInjective ==
  /\ Injective(bandwidthToString) /\ Injective(coderateToString)
  /\ Injective(modulationToString) /\ Injective(transmitModeToString)
  /\ Injective(guard_intervalToString) /\ Injective(hierarchyToString)
<1>1. Injective(bandwidthToString)
  BY DEF Injective, bandwidthToString
<1>2. Injective(coderateToString)
  BY DEF Injective, coderateToString
<1>3. Injective(modulationToString)
  BY DEF Injective, modulationToString
<1>4. Injective(transmitModeToString)
  BY DEF Injective, transmitModeToString
<1>5. Injective(guard_intervalToString)
  BY DEF Injective, guard_intervalToString
<1>6. Injective(hierarchyToString)
  BY DEF Injective, hierarchyToString
<1> QED
  BY <1>1, <1>2, <1>3, <1>4, <1>5, <1>6

\* The text of a value is that of no other
LEMMA FromTo ==
  ASSUME NEW table, Injective(table), NEW v \in DOMAIN table
  PROVE  FromString(table, table[v]) = v
<1>1. \A w \in DOMAIN table : table[w] = table[v] => w = v
  BY DEF Injective
<1> QED
  BY <1>1 DEF FromString

-------------------------------------------------------------------------------
(* Elements *)

\* The fields of an element
LEMMA ElementIs ==
  ASSUME NEW tag, NEW attr, NEW kids
  PROVE  /\ Element(tag, attr, kids).tag = tag /\ Element(tag, attr, kids).attr = attr
         /\ Element(tag, attr, kids).kids = kids
  BY DEF Element

\* The text of a child that holds a text, and that of one which holds a number
LEMMA LeafIs ==
  ASSUME NEW tag, NEW text
  PROVE  /\ Leaf(tag, text).tag = tag
         /\ (IF Leaf(tag, text).kids = <<>> THEN "" ELSE Leaf(tag, text).kids[1]) = text
         /\ text # "" => Leaf(tag, text).kids # <<>> /\ Leaf(tag, text).kids[1] = text
<1> DEFINE kids == IF text = "" THEN <<>> ELSE <<text>>
           attr == <<>>
<1>0. Leaf(tag, text) = Element(tag, attr, kids)
  BY DEF Leaf
<1>1. Leaf(tag, text).tag = tag /\ Leaf(tag, text).kids = kids
  <2> HIDE DEF kids, attr
  <2> QED
    BY <1>0, ElementIs
<1>2. <<text>> # <<>> /\ <<text>>[1] = text
  BY OneIs
<1> QED
  BY <1>1, <1>2

\* ... and that of one which holds a number
LEMMA NumberLeafIs ==
  ASSUME NEW tag, NEW n
  PROVE  /\ NumberLeaf(tag, n).tag = tag
         /\ NumberLeaf(tag, n).kids # <<>> /\ NumberLeaf(tag, n).kids[1] = n
<1>1. NumberLeaf(tag, n).tag = tag /\ NumberLeaf(tag, n).kids = <<n>>
  BY ElementIs DEF NumberLeaf
<1>2. <<n>> # <<>> /\ <<n>>[1] = n
  BY OneIs
<1> QED
  BY <1>1, <1>2

-------------------------------------------------------------------------------
(* Services *)

WellStream(s) == s = [type |-> s.type, pid |-> s.pid]
WellService(s) ==
  /\ s = [name |-> s.name, sid |-> s.sid, pmtid |-> s.pmtid, streams |-> s.streams, pcr |-> s.pcr,
          status |-> s.status, scrambled |-> s.scrambled, provider |-> s.provider, type |-> s.type]
  /\ IsSeq(s.streams) /\ \A k \in DOMAIN s.streams : WellStream(s.streams[k])
  /\ s.scrambled \in BOOLEAN

\* A service with the name that its readers see
Renamed(s, tsid) ==
  [name |-> getName(s, tsid), sid |-> s.sid, pmtid |-> s.pmtid, streams |-> s.streams, pcr |-> s.pcr,
   status |-> s.status, scrambled |-> s.scrambled, provider |-> s.provider, type |-> s.type]

\* What the five elements behind the streams of a service are
LEMMA FiveAre ==
  ASSUME NEW a, NEW b, NEW c, NEW d, NEW e
  PROVE  /\ IsSeq(<<a, b, c, d, e>>) /\ DOMAIN <<a, b, c, d, e>> = 1 .. 5
         /\ <<a, b, c, d, e>>[1] = a /\ <<a, b, c, d, e>>[2] = b /\ <<a, b, c, d, e>>[3] = c
         /\ <<a, b, c, d, e>>[4] = d /\ <<a, b, c, d, e>>[5] = e
<1>1. <<a, b, c, d, e>> \in Seq({a, b, c, d, e})
  OBVIOUS
<1>2. IsSeq(<<a, b, c, d, e>>)
  BY <1>1, ToSetSeq
<1> QED
  BY <1>2

\* The streams of a service are read back
LEMMA StreamsAreKept ==
  ASSUME NEW streams, IsSeq(streams), \A k \in DOMAIN streams : WellStream(streams[k])
  PROVE  /\ IsSeq(Map(StreamWriteXml, streams)) /\ AllTag(Map(StreamWriteXml, streams), "stream")
         /\ LET of(k) == [type |-> k.attr.type, pid |-> k.attr.pid]
            IN Map(of, Map(StreamWriteXml, streams)) = streams
<1> DEFINE of(k) == [type |-> k.attr.type, pid |-> k.attr.pid]
           w == [k \in DOMAIN streams |-> StreamWriteXml(streams[k])]
           r == [k \in DOMAIN streams |-> of(w[k])]
<1>1. IsSeq(w) /\ <<>> \o w = w /\ DOMAIN w = DOMAIN streams
  <2>1. w = [k \in DOMAIN streams |-> w[k]]
    OBVIOUS
  <2> HIDE DEF w
  <2> QED
    BY <2>1, FunIs
<1>2. Map(StreamWriteXml, streams) = w
  BY <1>1 DEF Map
<1>3. ASSUME NEW k \in DOMAIN streams PROVE w[k].tag = "stream" /\ of(w[k]) = streams[k]
  <2> DEFINE x == streams[k]
             attr == [type |-> x.type, pid |-> x.pid]
             none == <<>>
  <2>1. w[k] = Element("stream", attr, none)
    BY DEF StreamWriteXml
  <2>2. x = [type |-> x.type, pid |-> x.pid]
    BY DEF WellStream
  <2> HIDE DEF w, none, x
  <2>3. w[k].tag = "stream" /\ w[k].attr = attr
    BY <2>1, ElementIs
  <2>4. of(w[k]) = x
    BY <2>2, <2>3
  <2> QED
    BY <2>3, <2>4 DEF x
<1> HIDE DEF w
<1>4. IsSeq(r) /\ <<>> \o r = r /\ DOMAIN r = DOMAIN streams /\ Len(r) = Len(streams)
  <2>1. r = [k \in DOMAIN streams |-> r[k]]
    OBVIOUS
  <2> HIDE DEF r
  <2> QED
    BY <2>1, FunIs
<1>5. Map(of, w) = r
  BY <1>1, <1>4 DEF Map
<1>6. r = streams
  <2>1. \A k \in DOMAIN streams : r[k] = streams[k]
    BY <1>3
  <2> HIDE DEF r
  <2> QED
    BY <1>4, <2>1, SameSeq
<1>7. AllTag(w, "stream")
  BY <1>1, <1>3 DEF AllTag
<1> QED
  BY <1>1, <1>2, <1>5, <1>6, <1>7

\* A service is read back, with its name
LEMMA ServiceIsKept ==
  ASSUME NEW s, WellService(s), NEW tsid
  PROVE  ServiceReadXml(ServiceWriteXml(s, tsid)) = Renamed(s, tsid)
<1> DEFINE a == Map(StreamWriteXml, s.streams)
           attr == [name |-> getName(s, tsid), sid |-> s.sid, pmtid |-> s.pmtid]
           flag == IF s.scrambled THEN "true" ELSE "false"
           b1 == NumberLeaf("programClockPid", s.pcr)
           b2 == Leaf("status", s.status)
           b3 == Leaf("scrambled", flag)
           b4 == Leaf("providerName", s.provider)
           b5 == Leaf("type", s.type)
           b == <<b1, b2, b3, b4, b5>>
           kids == a \o b
           e == ServiceWriteXml(s, tsid)
           of(k) == [type |-> k.attr.type, pid |-> k.attr.pid]
<1>1. e = Element("service", attr, kids)
  BY DEF ServiceWriteXml
<1>2. e.attr = attr /\ e.kids = kids
  <2> HIDE DEF e, attr, kids
  <2> QED
    BY <1>1, ElementIs
<1>3. IsSeq(a) /\ AllTag(a, "stream") /\ Map(of, a) = s.streams
  BY StreamsAreKept DEF WellService
<1>4. /\ IsSeq(b) /\ DOMAIN b = 1 .. 5
      /\ b[1] = b1 /\ b[2] = b2 /\ b[3] = b3 /\ b[4] = b4 /\ b[5] = b5
  <2> HIDE DEF b1, b2, b3, b4, b5
  <2> QED
    BY FiveAre
<1>5. /\ b1.tag = "programClockPid" /\ b1.kids # <<>> /\ b1.kids[1] = s.pcr
      /\ b2.tag = "status" /\ (IF b2.kids = <<>> THEN "" ELSE b2.kids[1]) = s.status
      /\ b3.tag = "scrambled" /\ b3.kids # <<>> /\ b3.kids[1] = flag
      /\ b4.tag = "providerName" /\ (IF b4.kids = <<>> THEN "" ELSE b4.kids[1]) = s.provider
      /\ b5.tag = "type" /\ (IF b5.kids = <<>> THEN "" ELSE b5.kids[1]) = s.type
  <2>1. flag # ""
    OBVIOUS
  <2> HIDE DEF flag
  <2>2. b1.tag = "programClockPid" /\ b1.kids # <<>> /\ b1.kids[1] = s.pcr
    BY NumberLeafIs
  <2>3. b2.tag = "status" /\ (IF b2.kids = <<>> THEN "" ELSE b2.kids[1]) = s.status
    BY LeafIs
  <2>4. b3.tag = "scrambled" /\ b3.kids # <<>> /\ b3.kids[1] = flag
    BY <2>1, LeafIs
  <2>5. b4.tag = "providerName" /\ (IF b4.kids = <<>> THEN "" ELSE b4.kids[1]) = s.provider
    BY LeafIs
  <2>6. b5.tag = "type" /\ (IF b5.kids = <<>> THEN "" ELSE b5.kids[1]) = s.type
    BY LeafIs
  <2> QED
    BY <2>2, <2>3, <2>4, <2>5, <2>6
<1> HIDE DEF b1, b2, b3, b4, b5, b, a, flag
<1>6. /\ b[1].tag = "programClockPid" /\ b[2].tag = "status" /\ b[3].tag = "scrambled"
      /\ b[4].tag = "providerName" /\ b[5].tag = "type"
  BY <1>4, <1>5
<1>7. \A j \in DOMAIN b : j = 1 \/ j = 2 \/ j = 3 \/ j = 4 \/ j = 5
  BY <1>4
<1>8. /\ NoTag(a, "programClockPid") /\ NoTag(a, "status") /\ NoTag(a, "scrambled")
      /\ NoTag(a, "providerName") /\ NoTag(a, "type") /\ NoTag(b, "stream")
  BY <1>3, <1>6, <1>7 DEF AllTag, NoTag
<1>9. Tagged(kids, "stream") = a
  BY <1>3, <1>4, <1>8, TaggedFirst
<1>10. Text(kids, "programClockPid", 0) = s.pcr
  <2>1. OnlyAt(b, "programClockPid", 1)
    BY <1>4, <1>6, <1>7 DEF OnlyAt
  <2> DEFINE tag == "programClockPid"
             k == 1
             default == 0
             r == IF b[k].kids = <<>> THEN default ELSE b[k].kids[1]
  <2>2. IsSeq(a) /\ IsSeq(b) /\ NoTag(a, tag) /\ OnlyAt(b, tag, k)
    BY <1>3, <1>4, <1>8, <2>1
  <2>3. Text(kids, tag, default) = r
    <3> HIDE DEF tag, k, default
    <3> QED
      BY <2>2, TextIs
  <2> QED
    BY <1>4, <1>5, <2>3
<1>11. Text(kids, "status", "") = s.status
  <2>1. OnlyAt(b, "status", 2)
    BY <1>4, <1>6, <1>7 DEF OnlyAt
  <2> DEFINE tag == "status"
             k == 2
             default == ""
             r == IF b[k].kids = <<>> THEN default ELSE b[k].kids[1]
  <2>2. IsSeq(a) /\ IsSeq(b) /\ NoTag(a, tag) /\ OnlyAt(b, tag, k)
    BY <1>3, <1>4, <1>8, <2>1
  <2>3. Text(kids, tag, default) = r
    <3> HIDE DEF tag, k, default
    <3> QED
      BY <2>2, TextIs
  <2> QED
    BY <1>4, <1>5, <2>3
<1>12. Text(kids, "scrambled", "false") = flag
  <2>1. OnlyAt(b, "scrambled", 3)
    BY <1>4, <1>6, <1>7 DEF OnlyAt
  <2> DEFINE tag == "scrambled"
             k == 3
             default == "false"
             r == IF b[k].kids = <<>> THEN default ELSE b[k].kids[1]
  <2>2. IsSeq(a) /\ IsSeq(b) /\ NoTag(a, tag) /\ OnlyAt(b, tag, k)
    BY <1>3, <1>4, <1>8, <2>1
  <2>3. Text(kids, tag, default) = r
    <3> HIDE DEF tag, k, default
    <3> QED
      BY <2>2, TextIs
  <2> QED
    BY <1>4, <1>5, <2>3
<1>13. Text(kids, "providerName", "") = s.provider
  <2>1. OnlyAt(b, "providerName", 4)
    BY <1>4, <1>6, <1>7 DEF OnlyAt
  <2> DEFINE tag == "providerName"
             k == 4
             default == ""
             r == IF b[k].kids = <<>> THEN default ELSE b[k].kids[1]
  <2>2. IsSeq(a) /\ IsSeq(b) /\ NoTag(a, tag) /\ OnlyAt(b, tag, k)
    BY <1>3, <1>4, <1>8, <2>1
  <2>3. Text(kids, tag, default) = r
    <3> HIDE DEF tag, k, default
    <3> QED
      BY <2>2, TextIs
  <2> QED
    BY <1>4, <1>5, <2>3
<1>14. Text(kids, "type", "") = s.type
  <2>1. OnlyAt(b, "type", 5)
    BY <1>4, <1>6, <1>7 DEF OnlyAt
  <2> DEFINE tag == "type"
             k == 5
             default == ""
             r == IF b[k].kids = <<>> THEN default ELSE b[k].kids[1]
  <2>2. IsSeq(a) /\ IsSeq(b) /\ NoTag(a, tag) /\ OnlyAt(b, tag, k)
    BY <1>3, <1>4, <1>8, <2>1
  <2>3. Text(kids, tag, default) = r
    <3> HIDE DEF tag, k, default
    <3> QED
      BY <2>2, TextIs
  <2> QED
    BY <1>4, <1>5, <2>3
<1>15. (flag = "true") = s.scrambled
  BY DEF flag, WellService
<1>16. attr.name = getName(s, tsid) /\ attr.sid = s.sid /\ attr.pmtid = s.pmtid
  OBVIOUS
<1> HIDE DEF kids, attr, e
<1>17. ServiceReadXml(e) =
         [name |-> attr.name, sid |-> attr.sid, pmtid |-> attr.pmtid, streams |-> Map(of, a),
          pcr |-> s.pcr, status |-> s.status, scrambled |-> (flag = "true"), provider |-> s.provider,
          type |-> s.type]
  BY <1>2, <1>9, <1>10, <1>11, <1>12, <1>13, <1>14 DEF ServiceReadXml
<1> QED
  BY <1>3, <1>15, <1>16, <1>17 DEF Renamed, e

\* The text or the number of the only child of a tag
LEMMA LeafText ==
  ASSUME NEW a, IsSeq(a), NEW b, IsSeq(b), NEW tag, NoTag(a, tag), NEW k, OnlyAt(b, tag, k),
         NEW text, b[k] = Leaf(tag, text)
  PROVE  Text(a \o b, tag, "") = text
<1> DEFINE default == ""
<1>1. Text(a \o b, tag, default) = IF b[k].kids = <<>> THEN default ELSE b[k].kids[1]
  <2> HIDE DEF default
  <2> QED
    BY TextIs
<1>2. (IF b[k].kids = <<>> THEN "" ELSE b[k].kids[1]) = text
  <2>1. (IF Leaf(tag, text).kids = <<>> THEN "" ELSE Leaf(tag, text).kids[1]) = text
    BY LeafIs
  <2> QED
    BY <2>1
<1> QED
  BY <1>1, <1>2

\* ... and that of a number
LEMMA LeafNumber ==
  ASSUME NEW a, IsSeq(a), NEW b, IsSeq(b), NEW tag, NoTag(a, tag), NEW k, OnlyAt(b, tag, k),
         NEW n, b[k] = NumberLeaf(tag, n), NEW default
  PROVE  Text(a \o b, tag, default) = n
<1>1. Text(a \o b, tag, default) = IF b[k].kids = <<>> THEN default ELSE b[k].kids[1]
  BY TextIs
<1>2. b[k].kids # <<>> /\ b[k].kids[1] = n
  BY NumberLeafIs
<1> QED
  BY <1>1, <1>2

-------------------------------------------------------------------------------
(* Transponders *)

\* The parameters of satellite and terrestrial transponders
WellSat(g) ==
  g = [satPosition |-> g.satPosition, satNum |-> g.satNum, symbolRate |-> g.symbolRate,
       polarization |-> g.polarization]
WellTerrestrial(g) ==
  /\ g = [bandwidth |-> g.bandwidth, code_rate_HP |-> g.code_rate_HP, code_rate_LP |-> g.code_rate_LP,
          constellation |-> g.constellation, transmission_mode |-> g.transmission_mode,
          guard_interval |-> g.guard_interval, hierarchy_information |-> g.hierarchy_information]
  /\ g.bandwidth \in DOMAIN bandwidthToString
  /\ g.code_rate_HP \in DOMAIN coderateToString /\ g.code_rate_LP \in DOMAIN coderateToString
  /\ g.constellation \in DOMAIN modulationToString
  /\ g.transmission_mode \in DOMAIN transmitModeToString
  /\ g.guard_interval \in DOMAIN guard_intervalToString
  /\ g.hierarchy_information \in DOMAIN hierarchyToString

\* Three and seven elements
LEMMA ThreeAre ==
  ASSUME NEW a, NEW b, NEW c
  PROVE  /\ IsSeq(<<a, b, c>>) /\ DOMAIN <<a, b, c>> = 1 .. 3
         /\ <<a, b, c>>[1] = a /\ <<a, b, c>>[2] = b /\ <<a, b, c>>[3] = c
<1>1. <<a, b, c>> \in Seq({a, b, c})
  OBVIOUS
<1>2. IsSeq(<<a, b, c>>)
  BY <1>1, ToSetSeq
<1> QED
  BY <1>2

\* Seven elements
LEMMA SevenAre ==
  ASSUME NEW a, NEW b, NEW c, NEW d, NEW e, NEW f, NEW g
  PROVE  /\ IsSeq(<<a, b, c, d, e, f, g>>) /\ DOMAIN <<a, b, c, d, e, f, g>> = 1 .. 7
         /\ <<a, b, c, d, e, f, g>>[1] = a /\ <<a, b, c, d, e, f, g>>[2] = b
         /\ <<a, b, c, d, e, f, g>>[3] = c /\ <<a, b, c, d, e, f, g>>[4] = d
         /\ <<a, b, c, d, e, f, g>>[5] = e /\ <<a, b, c, d, e, f, g>>[6] = f
         /\ <<a, b, c, d, e, f, g>>[7] = g
<1>1. <<a, b, c, d, e, f, g>> \in Seq({a, b, c, d, e, f, g})
  OBVIOUS
<1>2. IsSeq(<<a, b, c, d, e, f, g>>)
  BY <1>1, ToSetSeq
<1> QED
  BY <1>2

\* The parameters of a satellite transponder are read back but for the position
LEMMA SatIsKept ==
  ASSUME NEW g, NEW a, IsSeq(a), AllTag(a, "service"), NEW e,
         e.kids = a \o <<NumberLeaf("satNum", g.satNum), NumberLeaf("symbolRate", g.symbolRate),
                         Leaf("polarization", g.polarization)>>
  PROVE  SatReadXml(e) = [satPosition |-> "", satNum |-> g.satNum, symbolRate |-> g.symbolRate,
                          polarization |-> g.polarization]
<1> DEFINE b1 == NumberLeaf("satNum", g.satNum)
           b2 == NumberLeaf("symbolRate", g.symbolRate)
           b3 == Leaf("polarization", g.polarization)
           b == <<b1, b2, b3>>
<1>1. IsSeq(b) /\ DOMAIN b = 1 .. 3 /\ b[1] = b1 /\ b[2] = b2 /\ b[3] = b3
  <2> HIDE DEF b1, b2, b3
  <2> QED
    BY ThreeAre
<1>2. b1.tag = "satNum" /\ b2.tag = "symbolRate" /\ b3.tag = "polarization"
  BY LeafIs, NumberLeafIs
<1>3. e.kids = a \o b
  OBVIOUS
<1> HIDE DEF b
<1>4. b[1].tag = "satNum" /\ b[2].tag = "symbolRate" /\ b[3].tag = "polarization"
  BY <1>1, <1>2
<1>5. /\ OnlyAt(b, "satNum", 1) /\ OnlyAt(b, "symbolRate", 2) /\ OnlyAt(b, "polarization", 3)
      /\ NoTag(a, "satNum") /\ NoTag(a, "symbolRate") /\ NoTag(a, "polarization")
  BY <1>1, <1>4 DEF OnlyAt, AllTag, NoTag
<1>6. Text(a \o b, "satNum", InvalidSatNum) = g.satNum
  BY <1>1, <1>5, LeafNumber
<1>7. Text(a \o b, "symbolRate", 0) = g.symbolRate
  BY <1>1, <1>5, LeafNumber
<1>8. Text(a \o b, "polarization", NoPolarization) = g.polarization
  <2> DEFINE tag == "polarization"
             k == 3
             text == g.polarization
  <2>1. IsSeq(b) /\ NoTag(a, tag) /\ OnlyAt(b, tag, k) /\ b[k] = Leaf(tag, text)
    BY <1>1, <1>5
  <2>2. Text(a \o b, tag, "") = text
    <3> HIDE DEF tag, k, text
    <3> QED
      BY <2>1, LeafText
  <2> QED
    BY <2>2 DEF NoPolarization
<1> QED
  BY <1>3, <1>6, <1>7, <1>8 DEF SatReadXml

\* The parameters of a terrestrial transponder are read back
LEMMA TerrestrialIsKept ==
  ASSUME NEW g, WellTerrestrial(g), NEW a, IsSeq(a), AllTag(a, "service"), NEW e,
         e.kids = a \o
           <<Leaf("bandwidth", bandwidthToString[g.bandwidth]),
             Leaf("codeRateHP", coderateToString[g.code_rate_HP]),
             Leaf("codeRateLP", coderateToString[g.code_rate_LP]),
             Leaf("constellation", modulationToString[g.constellation]),
             Leaf("transmissionMode", transmitModeToString[g.transmission_mode]),
             Leaf("guardInterval", guard_intervalToString[g.guard_interval]),
             Leaf("hierarchyInformation", hierarchyToString[g.hierarchy_information])>>
  PROVE  TerrestrialReadXml(e) = g
<1> DEFINE b1 == Leaf("bandwidth", bandwidthToString[g.bandwidth])
           b2 == Leaf("codeRateHP", coderateToString[g.code_rate_HP])
           b3 == Leaf("codeRateLP", coderateToString[g.code_rate_LP])
           b4 == Leaf("constellation", modulationToString[g.constellation])
           b5 == Leaf("transmissionMode", transmitModeToString[g.transmission_mode])
           b6 == Leaf("guardInterval", guard_intervalToString[g.guard_interval])
           b7 == Leaf("hierarchyInformation", hierarchyToString[g.hierarchy_information])
           b == <<b1, b2, b3, b4, b5, b6, b7>>
<1>1. /\ IsSeq(b) /\ DOMAIN b = 1 .. 7
      /\ b[1] = b1 /\ b[2] = b2 /\ b[3] = b3 /\ b[4] = b4 /\ b[5] = b5 /\ b[6] = b6 /\ b[7] = b7
  <2> HIDE DEF b1, b2, b3, b4, b5, b6, b7
  <2> QED
    BY SevenAre
<1>2. /\ b1.tag = "bandwidth"
      /\ b2.tag = "codeRateHP"
      /\ b3.tag = "codeRateLP"
      /\ b4.tag = "constellation"
      /\ b5.tag = "transmissionMode"
      /\ b6.tag = "guardInterval"
      /\ b7.tag = "hierarchyInformation"
  BY LeafIs
<1>3. e.kids = a \o b
  OBVIOUS
<1> HIDE DEF b
<1>4. /\ b[1].tag = "bandwidth"
      /\ b[2].tag = "codeRateHP"
      /\ b[3].tag = "codeRateLP"
      /\ b[4].tag = "constellation"
      /\ b[5].tag = "transmissionMode"
      /\ b[6].tag = "guardInterval"
      /\ b[7].tag = "hierarchyInformation"
  BY <1>1, <1>2
<1>5. \A j \in DOMAIN b : j = 1 \/ j = 2 \/ j = 3 \/ j = 4 \/ j = 5 \/ j = 6 \/ j = 7
  BY <1>1
<1>6. bandwidthFromString(Text(a \o b, "bandwidth", "")) = g.bandwidth
  <2> DEFINE tag == "bandwidth"
             k == 1
             v == g.bandwidth
             text == bandwidthToString[v]
  <2>1. OnlyAt(b, tag, k) /\ NoTag(a, tag)
    BY <1>1, <1>4, <1>5 DEF OnlyAt, AllTag, NoTag
  <2>2. IsSeq(b) /\ b[k] = Leaf(tag, text)
    BY <1>1
  <2>3. Text(a \o b, tag, "") = text
    <3> HIDE DEF tag, k, text
    <3> QED
      BY <2>1, <2>2, LeafText
  <2>4. FromString(bandwidthToString, text) = v
    BY TablesAreInjective, FromTo DEF WellTerrestrial
  <2> QED
    BY <2>3, <2>4 DEF bandwidthFromString
<1>7. coderateFromString(Text(a \o b, "codeRateHP", "")) = g.code_rate_HP
  <2> DEFINE tag == "codeRateHP"
             k == 2
             v == g.code_rate_HP
             text == coderateToString[v]
  <2>1. OnlyAt(b, tag, k) /\ NoTag(a, tag)
    BY <1>1, <1>4, <1>5 DEF OnlyAt, AllTag, NoTag
  <2>2. IsSeq(b) /\ b[k] = Leaf(tag, text)
    BY <1>1
  <2>3. Text(a \o b, tag, "") = text
    <3> HIDE DEF tag, k, text
    <3> QED
      BY <2>1, <2>2, LeafText
  <2>4. FromString(coderateToString, text) = v
    BY TablesAreInjective, FromTo DEF WellTerrestrial
  <2> QED
    BY <2>3, <2>4 DEF coderateFromString
<1>8. coderateFromString(Text(a \o b, "codeRateLP", "")) = g.code_rate_LP
  <2> DEFINE tag == "codeRateLP"
             k == 3
             v == g.code_rate_LP
             text == coderateToString[v]
  <2>1. OnlyAt(b, tag, k) /\ NoTag(a, tag)
    BY <1>1, <1>4, <1>5 DEF OnlyAt, AllTag, NoTag
  <2>2. IsSeq(b) /\ b[k] = Leaf(tag, text)
    BY <1>1
  <2>3. Text(a \o b, tag, "") = text
    <3> HIDE DEF tag, k, text
    <3> QED
      BY <2>1, <2>2, LeafText
  <2>4. FromString(coderateToString, text) = v
    BY TablesAreInjective, FromTo DEF WellTerrestrial
  <2> QED
    BY <2>3, <2>4 DEF coderateFromString
<1>9. modulationFromString(Text(a \o b, "constellation", "")) = g.constellation
  <2> DEFINE tag == "constellation"
             k == 4
             v == g.constellation
             text == modulationToString[v]
  <2>1. OnlyAt(b, tag, k) /\ NoTag(a, tag)
    BY <1>1, <1>4, <1>5 DEF OnlyAt, AllTag, NoTag
  <2>2. IsSeq(b) /\ b[k] = Leaf(tag, text)
    BY <1>1
  <2>3. Text(a \o b, tag, "") = text
    <3> HIDE DEF tag, k, text
    <3> QED
      BY <2>1, <2>2, LeafText
  <2>4. FromString(modulationToString, text) = v
    BY TablesAreInjective, FromTo DEF WellTerrestrial
  <2> QED
    BY <2>3, <2>4 DEF modulationFromString
<1>10. transmitModeFromString(Text(a \o b, "transmissionMode", "")) = g.transmission_mode
  <2> DEFINE tag == "transmissionMode"
             k == 5
             v == g.transmission_mode
             text == transmitModeToString[v]
  <2>1. OnlyAt(b, tag, k) /\ NoTag(a, tag)
    BY <1>1, <1>4, <1>5 DEF OnlyAt, AllTag, NoTag
  <2>2. IsSeq(b) /\ b[k] = Leaf(tag, text)
    BY <1>1
  <2>3. Text(a \o b, tag, "") = text
    <3> HIDE DEF tag, k, text
    <3> QED
      BY <2>1, <2>2, LeafText
  <2>4. FromString(transmitModeToString, text) = v
    BY TablesAreInjective, FromTo DEF WellTerrestrial
  <2> QED
    BY <2>3, <2>4 DEF transmitModeFromString
<1>11. guard_intervalFromString(Text(a \o b, "guardInterval", "")) = g.guard_interval
  <2> DEFINE tag == "guardInterval"
             k == 6
             v == g.guard_interval
             text == guard_intervalToString[v]
  <2>1. OnlyAt(b, tag, k) /\ NoTag(a, tag)
    BY <1>1, <1>4, <1>5 DEF OnlyAt, AllTag, NoTag
  <2>2. IsSeq(b) /\ b[k] = Leaf(tag, text)
    BY <1>1
  <2>3. Text(a \o b, tag, "") = text
    <3> HIDE DEF tag, k, text
    <3> QED
      BY <2>1, <2>2, LeafText
  <2>4. FromString(guard_intervalToString, text) = v
    BY TablesAreInjective, FromTo DEF WellTerrestrial
  <2> QED
    BY <2>3, <2>4 DEF guard_intervalFromString
<1>12. hierarchyFromString(Text(a \o b, "hierarchyInformation", "")) = g.hierarchy_information
  <2> DEFINE tag == "hierarchyInformation"
             k == 7
             v == g.hierarchy_information
             text == hierarchyToString[v]
  <2>1. OnlyAt(b, tag, k) /\ NoTag(a, tag)
    BY <1>1, <1>4, <1>5 DEF OnlyAt, AllTag, NoTag
  <2>2. IsSeq(b) /\ b[k] = Leaf(tag, text)
    BY <1>1
  <2>3. Text(a \o b, tag, "") = text
    <3> HIDE DEF tag, k, text
    <3> QED
      BY <2>1, <2>2, LeafText
  <2>4. FromString(hierarchyToString, text) = v
    BY TablesAreInjective, FromTo DEF WellTerrestrial
  <2> QED
    BY <2>3, <2>4 DEF hierarchyFromString
<1> HIDE DEF b1, b2, b3, b4, b5, b6, b7
<1>13. TerrestrialReadXml(e) =
         [bandwidth |-> g.bandwidth,
          code_rate_HP |-> g.code_rate_HP,
          code_rate_LP |-> g.code_rate_LP,
          constellation |-> g.constellation,
          transmission_mode |-> g.transmission_mode,
          guard_interval |-> g.guard_interval,
          hierarchy_information |-> g.hierarchy_information]
  BY <1>3, <1>6, <1>7, <1>8, <1>9, <1>10, <1>11, <1>12 DEF TerrestrialReadXml
<1> QED
  BY <1>13 DEF WellTerrestrial

WellServices(services) ==
  IsSeq(services) /\ \A k \in DOMAIN services : WellService(services[k])
WellTransponder(type, t) ==
  /\ t = [freq |-> t.freq, tsid |-> t.tsid, services |-> t.services, tuning |-> t.tuning]
  /\ WellServices(t.services)
  /\ IF type = DVBS THEN WellSat(t.tuning) ELSE WellTerrestrial(t.tuning)

\* A transponder as its readers see it
NamedServices(services, tsid) == [k \in DOMAIN services |-> Renamed(services[k], tsid)]
Seen(type, t) ==
  [freq |-> t.freq, tsid |-> t.tsid, services |-> NamedServices(t.services, t.tsid),
   tuning |-> IF type = DVBS
              THEN [satPosition |-> "", satNum |-> t.tuning.satNum,
                    symbolRate |-> t.tuning.symbolRate, polarization |-> t.tuning.polarization]
              ELSE t.tuning]

\* The services of a transponder as they are written
Written(services, tsid) == LET write(s) == ServiceWriteXml(s, tsid) IN Map(write, services)

\* The services of a transponder are read back
LEMMA ServicesAreKept ==
  ASSUME NEW services, WellServices(services), NEW tsid,
         NEW params, IsSeq(params), NoTag(params, "service"), NEW e,
         e.kids = Written(services, tsid) \o params
  PROVE  /\ ReadServices(e) = NamedServices(services, tsid)
         /\ IsSeq(Written(services, tsid)) /\ AllTag(Written(services, tsid), "service")
<1> DEFINE write(s) == ServiceWriteXml(s, tsid)
           w == [k \in DOMAIN services |-> write(services[k])]
           r == [k \in DOMAIN services |-> ServiceReadXml(w[k])]
<1>0. IsSeq(services)
  BY DEF WellServices
<1>1. IsSeq(w) /\ <<>> \o w = w /\ DOMAIN w = DOMAIN services
  <2>1. w = [k \in DOMAIN services |-> w[k]]
    OBVIOUS
  <2> HIDE DEF w
  <2> QED
    BY <1>0, <2>1, FunIs
<1>2. Written(services, tsid) = w
  <2>1. Written(services, tsid) = <<>> \o w
    BY DEF Written, Map
  <2> HIDE DEF w
  <2> QED
    BY <1>1, <2>1
<1>3. ASSUME NEW k \in DOMAIN services
      PROVE  w[k].tag = "service" /\ ServiceReadXml(w[k]) = Renamed(services[k], tsid)
  <2>1. w[k] = ServiceWriteXml(services[k], tsid)
    OBVIOUS
  <2>2. ServiceWriteXml(services[k], tsid).tag = "service"
    BY DEF ServiceWriteXml, Element
  <2>3. WellService(services[k])
    BY DEF WellServices
  <2> HIDE DEF w
  <2> QED
    BY <2>1, <2>2, <2>3, ServiceIsKept
<1> HIDE DEF w
<1>4. AllTag(w, "service")
  BY <1>1, <1>3 DEF AllTag
<1>5. Leading(w \o params, "service") = w
  BY <1>1, <1>4, LeadingIs
<1>6. <<>> \o r = r
  <2>1. r = [k \in DOMAIN services |-> r[k]]
    OBVIOUS
  <2> HIDE DEF r
  <2> QED
    BY <1>0, <2>1, FunIs
<1>7. Map(ServiceReadXml, w) = r
  BY <1>1, <1>6 DEF Map
<1>8. r = NamedServices(services, tsid)
  BY <1>3 DEF NamedServices
<1> QED
  BY <1>1, <1>2, <1>4, <1>5, <1>7, <1>8 DEF ReadServices

\* A transponder is read back
LEMMA TransponderIsKept ==
  ASSUME NEW type, NEW t, WellTransponder(type, t)
  PROVE  /\ TransponderWriteXml(type, t).tag = "transponder"
         /\ TransponderReadXml(type, TransponderWriteXml(type, t)) = Seen(type, t)
<1> DEFINE a == Written(t.services, t.tsid)
           attr == [frequency |-> t.freq, tsid |-> t.tsid]
           g == t.tuning
           sat == <<NumberLeaf("satNum", g.satNum), NumberLeaf("symbolRate", g.symbolRate),
                    Leaf("polarization", g.polarization)>>
           ter == <<Leaf("bandwidth", bandwidthToString[g.bandwidth]),
                    Leaf("codeRateHP", coderateToString[g.code_rate_HP]),
                    Leaf("codeRateLP", coderateToString[g.code_rate_LP]),
                    Leaf("constellation", modulationToString[g.constellation]),
                    Leaf("transmissionMode", transmitModeToString[g.transmission_mode]),
                    Leaf("guardInterval", guard_intervalToString[g.guard_interval]),
                    Leaf("hierarchyInformation", hierarchyToString[g.hierarchy_information])>>
           params == IF type = DVBS THEN sat ELSE ter
           e == TransponderWriteXml(type, t)
           tuning == IF type = DVBS THEN SatReadXml(e) ELSE TerrestrialReadXml(e)
           services == NamedServices(t.services, t.tsid)
<1>1. e = Element("transponder", attr, a \o params)
  BY DEF TransponderWriteXml, SatWriteXml, TerrestrialWriteXml, TransponderElement, Written
<1>2. IsSeq(sat) /\ NoTag(sat, "service")
  <2> DEFINE b1 == NumberLeaf("satNum", g.satNum)
             b2 == NumberLeaf("symbolRate", g.symbolRate)
             b3 == Leaf("polarization", g.polarization)
             b == <<b1, b2, b3>>
  <2>1. b1.tag = "satNum" /\ b2.tag = "symbolRate" /\ b3.tag = "polarization"
    BY LeafIs, NumberLeafIs
  <2>2. IsSeq(b) /\ DOMAIN b = 1 .. 3 /\ b[1] = b1 /\ b[2] = b2 /\ b[3] = b3
    <3> HIDE DEF b1, b2, b3
    <3> QED
      BY ThreeAre
  <2>3. sat = b
    OBVIOUS
  <2> HIDE DEF b, b1, b2, b3
  <2>4. NoTag(b, "service")
    BY <2>1, <2>2 DEF NoTag
  <2> HIDE DEF sat
  <2> QED
    BY <2>2, <2>3, <2>4
<1>3. IsSeq(ter) /\ NoTag(ter, "service")
  <2> DEFINE b1 == Leaf("bandwidth", bandwidthToString[g.bandwidth])
             b2 == Leaf("codeRateHP", coderateToString[g.code_rate_HP])
             b3 == Leaf("codeRateLP", coderateToString[g.code_rate_LP])
             b4 == Leaf("constellation", modulationToString[g.constellation])
             b5 == Leaf("transmissionMode", transmitModeToString[g.transmission_mode])
             b6 == Leaf("guardInterval", guard_intervalToString[g.guard_interval])
             b7 == Leaf("hierarchyInformation", hierarchyToString[g.hierarchy_information])
             b == <<b1, b2, b3, b4, b5, b6, b7>>
  <2>1. /\ b1.tag = "bandwidth" /\ b2.tag = "codeRateHP" /\ b3.tag = "codeRateLP"
        /\ b4.tag = "constellation" /\ b5.tag = "transmissionMode" /\ b6.tag = "guardInterval"
        /\ b7.tag = "hierarchyInformation"
    BY LeafIs
  <2>2. /\ IsSeq(b) /\ DOMAIN b = 1 .. 7 /\ b[1] = b1 /\ b[2] = b2 /\ b[3] = b3 /\ b[4] = b4
        /\ b[5] = b5 /\ b[6] = b6 /\ b[7] = b7
    <3> HIDE DEF b1, b2, b3, b4, b5, b6, b7
    <3> QED
      BY SevenAre
  <2>3. ter = b
    OBVIOUS
  <2> HIDE DEF b, b1, b2, b3, b4, b5, b6, b7
  <2>5. \A j \in DOMAIN b : j = 1 \/ j = 2 \/ j = 3 \/ j = 4 \/ j = 5 \/ j = 6 \/ j = 7
    BY <2>2
  <2>4. NoTag(b, "service")
    BY <2>1, <2>2, <2>5 DEF NoTag
  <2> HIDE DEF ter
  <2> QED
    BY <2>2, <2>3, <2>4
<1>4. IsSeq(params) /\ NoTag(params, "service")
  <2> HIDE DEF sat, ter
  <2> QED
    BY <1>2, <1>3
<1>5. e.tag = "transponder" /\ e.attr = attr /\ e.kids = a \o params
  <2> DEFINE kids == a \o params
  <2>1. e = Element("transponder", attr, kids)
    BY <1>1
  <2> HIDE DEF e, attr, kids
  <2>2. e.tag = "transponder" /\ e.attr = attr /\ e.kids = kids
    BY <2>1, ElementIs
  <2> QED
    BY <2>2 DEF kids
<1>6. ReadServices(e) = services /\ IsSeq(a) /\ AllTag(a, "service")
  <2> HIDE DEF e, params
  <2>1. e.kids = Written(t.services, t.tsid) \o params
    BY <1>5
  <2>2. WellServices(t.services)
    BY DEF WellTransponder
  <2> QED
    BY <1>4, <2>1, <2>2, ServicesAreKept
<1>7. tuning = Seen(type, t).tuning
  <2>1. CASE type = DVBS
    <3>1. e.kids = a \o sat
      BY <1>5, <2>1
    <3> HIDE DEF e, a
    <3>2. SatReadXml(e) = [satPosition |-> "", satNum |-> g.satNum, symbolRate |-> g.symbolRate,
                           polarization |-> g.polarization]
      BY <1>6, <3>1, SatIsKept
    <3> QED
      BY <2>1, <3>2 DEF Seen
  <2>2. CASE type # DVBS
    <3>1. e.kids = a \o ter
      BY <1>5, <2>2
    <3>2. WellTerrestrial(g)
      BY <2>2 DEF WellTransponder
    <3> HIDE DEF e, a
    <3>3. TerrestrialReadXml(e) = g
      BY <1>6, <3>1, <3>2, TerrestrialIsKept
    <3> QED
      BY <2>2, <3>3 DEF Seen
  <2> QED
    BY <2>1, <2>2
<1>8. attr.frequency = t.freq /\ attr.tsid = t.tsid
  OBVIOUS
<1> HIDE DEF e, attr, tuning, services
<1>9. TransponderReadXml(type, e) =
        [freq |-> t.freq, tsid |-> t.tsid, services |-> services, tuning |-> tuning]
  BY <1>5, <1>6, <1>8 DEF TransponderReadXml, tuning
<1>10. Seen(type, t) = [freq |-> t.freq, tsid |-> t.tsid, services |-> services,
                        tuning |-> Seen(type, t).tuning]
  BY DEF Seen, services
<1> QED
  BY <1>5, <1>7, <1>9, <1>10 DEF e

-------------------------------------------------------------------------------
(* The frontends *)

WellSatellite(s) == s = [pos |-> s.pos, num |-> s.num]
WellFrontend(f) ==
  /\ f = [type |-> f.type, name |-> f.name, transponders |-> f.transponders, sats |-> f.sats]
  /\ IsSeq(f.transponders)
  /\ \A k \in DOMAIN f.transponders : WellTransponder(f.type, f.transponders[k])
  /\ IsSeq(f.sats) /\ \A k \in DOMAIN f.sats : WellSatellite(f.sats[k])
  /\ f.type # DVBS => f.sats = <<>>

\* Two elements
LEMMA TwoAre ==
  ASSUME NEW a, NEW b
  PROVE  /\ IsSeq(<<a, b>>) /\ DOMAIN <<a, b>> = 1 .. 2
         /\ <<a, b>>[1] = a /\ <<a, b>>[2] = b
<1>1. <<a, b>> \in Seq({a, b})
  OBVIOUS
<1>2. IsSeq(<<a, b>>)
  BY <1>1, ToSetSeq
<1> QED
  BY <1>2

\* Nothing in front of a sequence, or behind it
LEMMA NothingAdded ==
  ASSUME NEW s, IsSeq(s)
  PROVE  <<>> \o s = s /\ s \o <<>> = s
<1> DEFINE e == <<>>
<1>1. IsSeq(e) /\ Len(e) = 0
  BY EmptyIsSeq
<1> HIDE DEF e
<1>2. Joined(e \o s, e, s) /\ Joined(s \o e, s, e)
  BY <1>1, JoinedIs
<1>3. e \o s = s
  <2> DEFINE l == e \o s
  <2>1. Joined(l, e, s)
    BY <1>2
  <2> HIDE DEF l
  <2>2. IsSeq(l) /\ Len(l) = Len(s) /\ DOMAIN l = 1 .. Len(s) /\ DOMAIN s = 1 .. Len(s)
        /\ Len(s) \in Nat
    BY <1>1, <2>1 DEF Joined
  <2>3. ASSUME NEW k \in DOMAIN l PROVE l[k] = s[k]
    <3>1. k \in DOMAIN s /\ Len(e) + k = k
      BY <1>1, <2>2
    <3>2. l[Len(e) + k] = s[k]
      BY <2>1, <3>1 DEF Joined
    <3> QED
      BY <3>1, <3>2
  <2> QED
    BY <2>2, <2>3, SameSeq DEF l
<1>4. s \o e = s
  <2> DEFINE l == s \o e
  <2>1. Joined(l, s, e)
    BY <1>2
  <2> HIDE DEF l
  <2>2. IsSeq(l) /\ Len(l) = Len(s) /\ DOMAIN l = DOMAIN s
    BY <1>1, <2>1 DEF Joined
  <2>3. \A k \in DOMAIN l : l[k] = s[k]
    BY <2>1, <2>2 DEF Joined
  <2> QED
    BY <2>2, <2>3, SameSeq DEF l
<1> QED
  BY <1>3, <1>4 DEF e

\* A satellite is read back
LEMMA SatelliteIsKept ==
  ASSUME NEW s, WellSatellite(s)
  PROVE  /\ SatelliteElement(s).tag = "satellite"
         /\ [pos |-> Text(SatelliteElement(s).kids, "orbitalPosition", ""),
             num |-> Text(SatelliteElement(s).kids, "index", InvalidSatNum)] = s
<1> DEFINE b1 == Leaf("orbitalPosition", s.pos)
           b2 == NumberLeaf("index", s.num)
           b == <<b1, b2>>
           none == <<>>
           e == SatelliteElement(s)
<1>1. e.tag = "satellite" /\ e.kids = b
  <2>1. e = Element("satellite", none, b)
    BY DEF SatelliteElement
  <2> HIDE DEF e, none, b
  <2> QED
    BY <2>1, ElementIs
<1>2. IsSeq(b) /\ DOMAIN b = 1 .. 2 /\ b[1] = b1 /\ b[2] = b2
  <2> HIDE DEF b1, b2
  <2> QED
    BY TwoAre
<1>3. b1.tag = "orbitalPosition" /\ b2.tag = "index"
  BY LeafIs, NumberLeafIs
<1> HIDE DEF b
<1>4. b[1].tag = "orbitalPosition" /\ b[2].tag = "index"
  BY <1>2, <1>3
<1>5. IsSeq(none) /\ none \o b = b /\ DOMAIN none = {}
  BY <1>2, NothingAdded, EmptyIsSeq, SeqIs
<1> HIDE DEF none
<1>6. /\ OnlyAt(b, "orbitalPosition", 1) /\ OnlyAt(b, "index", 2)
      /\ NoTag(none, "orbitalPosition") /\ NoTag(none, "index")
  BY <1>2, <1>4, <1>5 DEF OnlyAt, NoTag
<1>7. Text(none \o b, "orbitalPosition", "") = s.pos
  <2> DEFINE tag == "orbitalPosition"
             k == 1
             text == s.pos
  <2>1. IsSeq(b) /\ NoTag(none, tag) /\ OnlyAt(b, tag, k) /\ b[k] = Leaf(tag, text)
    BY <1>2, <1>6
  <2> HIDE DEF tag, k, text
  <2>2. Text(none \o b, tag, "") = text
    BY <1>5, <2>1, LeafText
  <2> QED
    BY <2>2 DEF tag, text
<1>8. Text(none \o b, "index", InvalidSatNum) = s.num
  <2> DEFINE tag == "index"
             k == 2
             n == s.num
             default == InvalidSatNum
  <2>1. IsSeq(b) /\ NoTag(none, tag) /\ OnlyAt(b, tag, k) /\ b[k] = NumberLeaf(tag, n)
    BY <1>2, <1>6
  <2> HIDE DEF tag, k, n, default
  <2>2. IsSeq(none)
    BY <1>5
  <2>3. Text(none \o b, tag, default) = IF b[k].kids = <<>> THEN default ELSE b[k].kids[1]
    BY <2>1, <2>2, TextIs
  <2>4. b[k].kids # <<>> /\ b[k].kids[1] = n
    BY <2>1, NumberLeafIs
  <2>5. Text(none \o b, tag, default) = n
    BY <2>3, <2>4
  <2> QED
    BY <2>5 DEF tag, n, default
<1> HIDE DEF e
<1>9. Text(e.kids, "orbitalPosition", "") = s.pos /\ Text(e.kids, "index", InvalidSatNum) = s.num
  BY <1>1, <1>5, <1>7, <1>8
<1>10. s = [pos |-> s.pos, num |-> s.num]
  BY DEF WellSatellite
<1> QED
  BY <1>1, <1>9, <1>10 DEF e

\* What the readers of a frontend see
SeenTransponders(type, ts) == [k \in DOMAIN ts |-> Seen(type, ts[k])]
SeenFrontend(f) ==
  [type |-> f.type, name |-> f.name, transponders |-> SeenTransponders(f.type, f.transponders),
   sats |-> f.sats]

\* The children of a frontend
WrittenTransponders(type, ts) == LET write(t) == TransponderWriteXml(type, t) IN Map(write, ts)
ReadTransponders(type, kids) == LET read(k) == TransponderReadXml(type, k) IN Map(read, kids)
WrittenSats(sats) == Map(SatelliteElement, sats)
ReadSats(kids) ==
  LET sat(k) == [pos |-> Text(k.kids, "orbitalPosition", ""),
                 num |-> Text(k.kids, "index", InvalidSatNum)]
  IN Map(sat, kids)

\* The transponders of a frontend are read back
LEMMA TranspondersAreKept ==
  ASSUME NEW type, NEW ts, IsSeq(ts), \A k \in DOMAIN ts : WellTransponder(type, ts[k])
  PROVE  LET a == WrittenTransponders(type, ts)
         IN /\ IsSeq(a) /\ AllTag(a, "transponder") /\ IsSeq(ReadTransponders(type, a))
            /\ ReadTransponders(type, a) = SeenTransponders(type, ts)
<1> DEFINE w == [k \in DOMAIN ts |-> TransponderWriteXml(type, ts[k])]
           r == [k \in DOMAIN ts |-> TransponderReadXml(type, w[k])]
<1>1. IsSeq(w) /\ <<>> \o w = w /\ DOMAIN w = DOMAIN ts
  <2>1. w = [k \in DOMAIN ts |-> w[k]]
    OBVIOUS
  <2> HIDE DEF w
  <2> QED
    BY <2>1, FunIs
<1>2. WrittenTransponders(type, ts) = w
  <2>1. WrittenTransponders(type, ts) = <<>> \o w
    BY DEF WrittenTransponders, Map
  <2> HIDE DEF w
  <2> QED
    BY <1>1, <2>1
<1>3. ASSUME NEW k \in DOMAIN ts
      PROVE  w[k].tag = "transponder" /\ TransponderReadXml(type, w[k]) = Seen(type, ts[k])
  <2>1. w[k] = TransponderWriteXml(type, ts[k])
    OBVIOUS
  <2> HIDE DEF w
  <2> QED
    BY <2>1, TransponderIsKept
<1> HIDE DEF w
<1>4. IsSeq(r) /\ <<>> \o r = r
  <2>1. r = [k \in DOMAIN ts |-> r[k]]
    OBVIOUS
  <2> HIDE DEF r
  <2> QED
    BY <2>1, FunIs
<1>5. ReadTransponders(type, w) = r
  <2>1. ReadTransponders(type, w) = <<>> \o [k \in DOMAIN w |-> TransponderReadXml(type, w[k])]
    BY DEF ReadTransponders, Map
  <2>2. [k \in DOMAIN w |-> TransponderReadXml(type, w[k])] = r
    BY <1>1
  <2> HIDE DEF r
  <2> QED
    BY <1>4, <2>1, <2>2
<1>6. r = SeenTransponders(type, ts)
  BY <1>3 DEF SeenTransponders
<1>7. AllTag(w, "transponder")
  BY <1>1, <1>3 DEF AllTag
<1> HIDE DEF r
<1> QED
  BY <1>1, <1>2, <1>4, <1>5, <1>6, <1>7

\* The map of the satellites is read back
LEMMA SatsAreKept ==
  ASSUME NEW sats, IsSeq(sats), \A k \in DOMAIN sats : WellSatellite(sats[k])
  PROVE  LET b == WrittenSats(sats)
         IN IsSeq(b) /\ AllTag(b, "satellite") /\ ReadSats(b) = sats
<1> DEFINE sat(k) == [pos |-> Text(k.kids, "orbitalPosition", ""),
                      num |-> Text(k.kids, "index", InvalidSatNum)]
           w == [k \in DOMAIN sats |-> SatelliteElement(sats[k])]
           r == [k \in DOMAIN sats |-> sat(w[k])]
<1>1. IsSeq(w) /\ <<>> \o w = w /\ DOMAIN w = DOMAIN sats
  <2>1. w = [k \in DOMAIN sats |-> w[k]]
    OBVIOUS
  <2> HIDE DEF w
  <2> QED
    BY <2>1, FunIs
<1>2. WrittenSats(sats) = w
  <2>1. WrittenSats(sats) = <<>> \o w
    BY DEF WrittenSats, Map
  <2> HIDE DEF w
  <2> QED
    BY <1>1, <2>1
<1>3. ASSUME NEW k \in DOMAIN sats PROVE w[k].tag = "satellite" /\ sat(w[k]) = sats[k]
  <2>1. w[k] = SatelliteElement(sats[k])
    OBVIOUS
  <2> HIDE DEF w
  <2> QED
    BY <2>1, SatelliteIsKept
<1> HIDE DEF w
<1>4. IsSeq(r) /\ <<>> \o r = r /\ Len(r) = Len(sats) /\ DOMAIN r = DOMAIN sats
  <2>1. r = [k \in DOMAIN sats |-> r[k]]
    OBVIOUS
  <2> HIDE DEF r
  <2> QED
    BY <2>1, FunIs
<1>5. ReadSats(w) = r
  <2>1. ReadSats(w) = <<>> \o [k \in DOMAIN w |-> sat(w[k])]
    BY DEF ReadSats, Map
  <2> HIDE DEF sat
  <2>2. [k \in DOMAIN w |-> sat(w[k])] = r
    BY <1>1
  <2> HIDE DEF r
  <2> QED
    BY <1>4, <2>1, <2>2
<1>6. \A k \in DOMAIN r : r[k] = sats[k]
  <2> HIDE DEF sat
  <2> QED
    BY <1>3
<1> HIDE DEF r
<1>7. r = sats
  BY <1>4, <1>6, SameSeq
<1>8. AllTag(w, "satellite")
  BY <1>1, <1>3 DEF AllTag
<1> QED
  BY <1>1, <1>2, <1>5, <1>7, <1>8

\* A frontend is read back by one that has nothing yet
LEMMA FrontendIsKept ==
  ASSUME NEW f, WellFrontend(f), NEW f0, f0.transponders = <<>>
  PROVE  /\ FrontendWriteXml(f).tag = "frontend"
         /\ FrontendWriteXml(f).attr.type = f.type /\ FrontendWriteXml(f).attr.name = f.name
         /\ FrontendReadXml(f0, FrontendWriteXml(f)) = SeenFrontend(f)
<1> DEFINE a == WrittenTransponders(f.type, f.transponders)
           b == IF f.type = DVBS THEN WrittenSats(f.sats) ELSE <<>>
           attr == [type |-> f.type, name |-> f.name]
           kids == a \o b
           e == FrontendWriteXml(f)
           seen == SeenTransponders(f.type, f.transponders)
<1>1. e = Element("frontend", attr, kids)
  BY DEF FrontendWriteXml, WrittenTransponders, WrittenSats
<1>2. e.tag = "frontend" /\ e.attr = attr /\ e.kids = kids
  <2> HIDE DEF e, attr, kids
  <2> QED
    BY <1>1, ElementIs
<1>3. /\ IsSeq(a) /\ AllTag(a, "transponder")
      /\ IsSeq(ReadTransponders(f.type, a)) /\ ReadTransponders(f.type, a) = seen
  BY TranspondersAreKept DEF WellFrontend
<1>4. IsSeq(b) /\ AllTag(b, "satellite") /\ (f.type = DVBS => ReadSats(b) = f.sats)
  <2>1. CASE f.type = DVBS
    BY <2>1, SatsAreKept DEF WellFrontend
  <2>2. CASE f.type # DVBS
    <3>1. b = <<>> /\ DOMAIN <<>> = {} /\ IsSeq(<<>>)
      BY <2>2, EmptyIsSeq, SeqIs
    <3> HIDE DEF b
    <3> QED
      BY <2>2, <3>1 DEF AllTag
  <2> QED
    BY <2>1, <2>2
<1>5. attr.type = f.type /\ attr.name = f.name
  OBVIOUS
<1> HIDE DEF a, b, e, attr, seen
<1>6. NoTag(b, "transponder") /\ NoTag(a, "satellite")
  BY <1>3, <1>4 DEF AllTag, NoTag
<1>7. Leading(kids, "transponder") = a
  BY <1>3, <1>4, <1>6, LeadingIs
<1>8. Tagged(kids, "satellite") = b
  BY <1>3, <1>4, <1>6, TaggedLast
<1> HIDE DEF kids
<1>9. FrontendReadXml(f0, e) =
        [type |-> e.attr.type, name |-> e.attr.name,
         transponders |-> f0.transponders \o ReadTransponders(e.attr.type, Leading(e.kids, "transponder")),
         sats |-> IF e.attr.type = DVBS THEN ReadSats(Tagged(e.kids, "satellite")) ELSE <<>>]
  BY DEF FrontendReadXml, ReadTransponders, ReadSats
<1>10. f0.transponders \o ReadTransponders(f.type, a) = seen
  BY <1>3, NothingAdded
<1>11. (IF f.type = DVBS THEN ReadSats(b) ELSE <<>>) = f.sats
  BY <1>4 DEF WellFrontend
<1>12. FrontendReadXml(f0, e) = [type |-> f.type, name |-> f.name, transponders |-> seen, sats |-> f.sats]
  BY <1>2, <1>5, <1>7, <1>8, <1>9, <1>10, <1>11
<1> QED
  BY <1>2, <1>5, <1>12 DEF SeenFrontend, seen, e

\* An adapter as it is written
WellAdapter(a) ==
  /\ a = [id |-> a.id, frontends |-> a.frontends]
  /\ IsSeq(a.frontends) /\ \A k \in DOMAIN a.frontends : WellFrontend(a.frontends[k])
\* The adapter of a reader that has nothing yet
Blank(b, a) ==
  /\ b = [id |-> a.id, frontends |-> b.frontends]
  /\ IsSeq(b.frontends) /\ Len(b.frontends) = Len(a.frontends)
  /\ \A k \in DOMAIN a.frontends :
       /\ b.frontends[k].type = a.frontends[k].type /\ b.frontends[k].name = a.frontends[k].name
       /\ b.frontends[k].transponders = <<>>
SeenFrontends(frontends) == [k \in DOMAIN frontends |-> SeenFrontend(frontends[k])]
SeenAdapter(a) == [id |-> a.id, frontends |-> SeenFrontends(a.frontends)]

\* The children of an adapter
WrittenFrontends(frontends) == Map(FrontendWriteXml, frontends)
ReadFrontends(frontends, wanted) ==
  LET fits(k) == /\ k <= Len(frontends)
                 /\ wanted[k].attr.type = frontends[k].type
                 /\ wanted[k].attr.name = frontends[k].name
      read(k) == k <= Len(wanted) /\ \A j \in 1 .. k : fits(j)
      next(k) == IF read(k) THEN FrontendReadXml(frontends[k], wanted[k]) ELSE frontends[k]
  IN Map(next, [k \in DOMAIN frontends |-> k])

\* What is written of the frontends
LEMMA FrontendsAreWritten ==
  ASSUME NEW frontends, IsSeq(frontends)
  PROVE  LET w == WrittenFrontends(frontends)
         IN /\ IsSeq(w) /\ Len(w) = Len(frontends) /\ DOMAIN w = DOMAIN frontends
            /\ \A k \in DOMAIN frontends : w[k] = FrontendWriteXml(frontends[k])
<1> DEFINE w == [k \in DOMAIN frontends |-> FrontendWriteXml(frontends[k])]
<1>1. IsSeq(w) /\ <<>> \o w = w /\ Len(w) = Len(frontends) /\ DOMAIN w = DOMAIN frontends
  <2>1. w = [k \in DOMAIN frontends |-> w[k]]
    OBVIOUS
  <2> HIDE DEF w
  <2> QED
    BY <2>1, FunIs
<1>2. WrittenFrontends(frontends) = w
  <2>1. WrittenFrontends(frontends) = <<>> \o w
    BY DEF WrittenFrontends, Map
  <2> HIDE DEF w
  <2> QED
    BY <1>1, <2>1
<1>3. \A k \in DOMAIN frontends : w[k] = FrontendWriteXml(frontends[k])
  OBVIOUS
<1> HIDE DEF w
<1> QED
  BY <1>1, <1>2, <1>3

\* The frontends are read back into those of an adapter that fit
LEMMA FrontendsAreKept ==
  ASSUME NEW a, WellAdapter(a), NEW b, Blank(b, a)
  PROVE  /\ AllTag(WrittenFrontends(a.frontends), "frontend")
         /\ ReadFrontends(b.frontends, WrittenFrontends(a.frontends)) = SeenFrontends(a.frontends)
<1> DEFINE fs == a.frontends
           gs == b.frontends
           w == WrittenFrontends(fs)
           fits(k) == /\ k <= Len(gs)
                      /\ w[k].attr.type = gs[k].type
                      /\ w[k].attr.name = gs[k].name
           read(k) == k <= Len(w) /\ \A j \in 1 .. k : fits(j)
           next(k) == IF read(k) THEN FrontendReadXml(gs[k], w[k]) ELSE gs[k]
           is == [k \in DOMAIN gs |-> k]
           r == [k \in DOMAIN is |-> next(is[k])]
<1>1. /\ IsSeq(w) /\ Len(w) = Len(fs) /\ DOMAIN w = DOMAIN fs
      /\ \A k \in DOMAIN fs : w[k] = FrontendWriteXml(fs[k])
  BY FrontendsAreWritten DEF WellAdapter
<1>2. /\ DOMAIN fs = 1 .. Len(fs) /\ Len(fs) \in Nat
      /\ DOMAIN gs = DOMAIN fs /\ Len(gs) = Len(fs) /\ IsSeq(gs)
  <2>1. IsSeq(fs)
    BY DEF WellAdapter
  <2>2. IsSeq(gs) /\ Len(gs) = Len(fs)
    BY DEF Blank
  <2> QED
    BY <2>1, <2>2, SeqIs
<1>3. ASSUME NEW k \in DOMAIN fs
      PROVE  w[k].tag = "frontend" /\ fits(k) /\ FrontendReadXml(gs[k], w[k]) = SeenFrontend(fs[k])
  <2> DEFINE f == fs[k]
             g == gs[k]
  <2>1. WellFrontend(f) /\ g.transponders = <<>> /\ g.type = f.type /\ g.name = f.name
    BY DEF WellAdapter, Blank
  <2>2. w[k] = FrontendWriteXml(f) /\ k <= Len(gs)
    BY <1>1, <1>2
  <2> HIDE DEF f, g
  <2>3. /\ FrontendWriteXml(f).tag = "frontend"
        /\ FrontendWriteXml(f).attr.type = f.type /\ FrontendWriteXml(f).attr.name = f.name
        /\ FrontendReadXml(g, FrontendWriteXml(f)) = SeenFrontend(f)
    BY <2>1, FrontendIsKept
  <2>4. /\ w[k].tag = "frontend" /\ w[k].attr.type = g.type /\ w[k].attr.name = g.name
        /\ FrontendReadXml(g, w[k]) = SeenFrontend(f)
    BY <2>1, <2>2, <2>3
  <2> QED
    BY <2>2, <2>4 DEF f, g
<1> HIDE DEF w, fs, gs
<1>4. ASSUME NEW k \in DOMAIN fs PROVE next(k) = SeenFrontend(fs[k])
  <2> HIDE DEF fits
  <2>1. read(k)
    BY <1>1, <1>2, <1>3
  <2> QED
    BY <1>3, <2>1
<1>5. IsSeq(r) /\ <<>> \o r = r /\ DOMAIN is = DOMAIN gs /\ DOMAIN r = DOMAIN gs
  <2> HIDE DEF next
  <2>1. DOMAIN is = DOMAIN gs
    OBVIOUS
  <2>2. r = [k \in DOMAIN gs |-> r[k]]
    BY <2>1
  <2> HIDE DEF r
  <2> QED
    BY <1>2, <2>1, <2>2, FunIs
<1>6. ReadFrontends(gs, w) = r
  <2>1. ReadFrontends(gs, w) = <<>> \o r
    BY DEF ReadFrontends, Map
  <2> HIDE DEF r
  <2> QED
    BY <1>5, <2>1
<1>7. \A k \in DOMAIN fs : r[k] = next(k)
  <2> HIDE DEF next
  <2> QED
    BY <1>2
<1>8. r = [k \in DOMAIN fs |-> r[k]]
  <2> HIDE DEF next
  <2>1. DOMAIN is = DOMAIN fs
    BY <1>2
  <2> HIDE DEF is
  <2> QED
    BY <2>1
<1> HIDE DEF r, next
<1>9. r = SeenFrontends(fs)
  BY <1>4, <1>7, <1>8 DEF SeenFrontends
<1>10. AllTag(w, "frontend")
  BY <1>1, <1>3 DEF AllTag
<1> QED
  BY <1>6, <1>9, <1>10 DEF w, fs, gs

\* An adapter is read back
LEMMA AdapterIsKept ==
  ASSUME NEW a, WellAdapter(a), NEW b, Blank(b, a)
  PROVE  /\ AdapterWriteXml(a).tag = "adapter" /\ AdapterWriteXml(a).attr.id = a.id
         /\ AdapterReadXml(b, AdapterWriteXml(a)) = SeenAdapter(a)
<1> DEFINE w == WrittenFrontends(a.frontends)
           attr == [id |-> a.id]
           e == AdapterWriteXml(a)
           none == <<>>
<1>1. e = Element("adapter", attr, w) /\ attr.id = a.id
  BY DEF AdapterWriteXml, WrittenFrontends
<1>2. /\ AllTag(w, "frontend") /\ IsSeq(w)
      /\ ReadFrontends(b.frontends, w) = SeenFrontends(a.frontends)
  BY FrontendsAreKept, FrontendsAreWritten DEF WellAdapter
<1> HIDE DEF w, e, attr
<1>3. e.tag = "adapter" /\ e.attr = attr /\ e.kids = w
  BY <1>1, ElementIs
<1>4. Leading(w, "frontend") = w
  <2>1. IsSeq(none) /\ DOMAIN none = {}
    BY EmptyIsSeq, SeqIs
  <2> HIDE DEF none
  <2>2. NoTag(none, "frontend")
    BY <2>1 DEF NoTag
  <2>3. Leading(w \o none, "frontend") = w
    BY <1>2, <2>1, <2>2, LeadingIs
  <2>4. w \o none = w
    BY <1>2, NothingAdded DEF none
  <2> QED
    BY <2>3, <2>4
<1>5. AdapterReadXml(b, e) = [b EXCEPT !.frontends = ReadFrontends(b.frontends, Leading(e.kids, "frontend"))]
  BY DEF AdapterReadXml, ReadFrontends
<1>6. AdapterReadXml(b, e) = [b EXCEPT !.frontends = SeenFrontends(a.frontends)]
  BY <1>2, <1>3, <1>4, <1>5
<1>7. b = [id |-> a.id, frontends |-> b.frontends]
  BY DEF Blank
<1>8. AdapterReadXml(b, e) = SeenAdapter(a)
  BY <1>6, <1>7 DEF SeenAdapter
<1> QED
  BY <1>1, <1>3, <1>8 DEF e

-------------------------------------------------------------------------------
(* The device *)

\* The place of the only adapter of an id
IdOnlyAt(s, id, i) == i \in DOMAIN s /\ \A k \in DOMAIN s : s[k].attr.id = id <=> k = i

\* The reading of one adapter
ReadAdapter(a, given) ==
  LET of == Those(given, LAMBDA k : k.attr.id = a.id)
      upto[k \in 0 .. Len(of)] == IF k = 0 THEN a ELSE AdapterReadXml(upto[k - 1], of[k])
  IN upto[Len(of)]

\* An adapter reads the only element of its id
LEMMA ReadOne ==
  ASSUME NEW b, NEW given, IsSeq(given), NEW i, IdOnlyAt(given, b.id, i)
  PROVE  ReadAdapter(b, given) = AdapterReadXml(b, given[i])
<1> DEFINE K == {k \in DOMAIN given : given[k].attr.id = b.id}
           of == Those(given, LAMBDA k : k.attr.id = b.id)
           e == given[i]
           r == AdapterReadXml(b, e)
<1>1. of = Picked(given, K)
  BY DEF Those
<1>2. i \in DOMAIN given /\ K \cap DOMAIN given = {i}
  BY DEF IdOnlyAt
<1> HIDE DEF of, K
<1>3. Picked(given, K) = <<given[i]>>
  BY <1>2, PickedOne
<1>4. of = <<e>>
  BY <1>1, <1>3
<1> HIDE DEF e
<1>5. Len(of) = 1 /\ of[1] = e
  BY <1>4, OneIs
<1> DEFINE step(h) == [k \in 0 .. Len(of) |-> IF k = 0 THEN b ELSE AdapterReadXml(h[k - 1], of[k])]
           g == [k \in 0 .. 1 |-> IF k = 0 THEN b ELSE r]
<1>6. g = step(g)
  <2> HIDE DEF r
  <2>1. \A k \in 0 .. 1 : k = 0 \/ k = 1
    OBVIOUS
  <2>2. g[0] = b /\ g[1] = r
    OBVIOUS
  <2>3. DOMAIN g = 0 .. 1 /\ g = [k \in 0 .. 1 |-> g[k]]
    OBVIOUS
  <2> HIDE DEF g
  <2>4. \A k \in 0 .. 1 : g[k] = IF k = 0 THEN b ELSE AdapterReadXml(g[k - 1], of[k])
    <3>1. 1 - 1 = 0 /\ 1 # 0
      OBVIOUS
    <3>2. AdapterReadXml(g[1 - 1], of[1]) = r
      BY <1>5, <2>2, <3>1 DEF r
    <3> QED
      BY <2>1, <2>2, <3>1, <3>2
  <2>5. 0 .. Len(of) = 0 .. 1
    BY <1>5
  <2> QED
    BY <2>3, <2>4, <2>5
<1> DEFINE upto == CHOOSE h : h = step(h)
<1>7. upto = step(upto)
  <2> HIDE DEF g, step
  <2> QED
    BY <1>6
<1>8. ReadAdapter(b, given) = upto[Len(of)]
  BY DEF ReadAdapter, of
<1> HIDE DEF upto
<1>9. upto[0] = b
  BY <1>5, <1>7
<1>10. upto[1] = AdapterReadXml(upto[0], of[1])
  BY <1>5, <1>7
<1> QED
  BY <1>5, <1>8, <1>9, <1>10 DEF e

\* A device as it is written, that of a reader, and what it sees
WellDevice(d) ==
  /\ IsSeq(d) /\ \A k \in DOMAIN d : WellAdapter(d[k])
  /\ \A j, k \in DOMAIN d : d[j].id = d[k].id => j = k
BlankDevice(b, d) ==
  IsSeq(b) /\ Len(b) = Len(d) /\ \A k \in DOMAIN d : Blank(b[k], d[k])
SeenDevice(d) == [k \in DOMAIN d |-> SeenAdapter(d[k])]
WrittenAdapters(d) == Map(AdapterWriteXml, d)

\* The children of the device
LEMMA AdaptersAreWritten ==
  ASSUME NEW d, WellDevice(d)
  PROVE  LET w == WrittenAdapters(d)
         IN /\ IsSeq(w) /\ DOMAIN w = DOMAIN d /\ AllTag(w, "adapter")
            /\ \A k \in DOMAIN d : w[k] = AdapterWriteXml(d[k])
            /\ \A k \in DOMAIN d : IdOnlyAt(w, d[k].id, k)
<1> DEFINE w == [k \in DOMAIN d |-> AdapterWriteXml(d[k])]
<1>1. IsSeq(w) /\ <<>> \o w = w /\ DOMAIN w = DOMAIN d
  <2>1. w = [k \in DOMAIN d |-> w[k]]
    OBVIOUS
  <2>2. IsSeq(d)
    BY DEF WellDevice
  <2> HIDE DEF w
  <2> QED
    BY <2>1, <2>2, FunIs
<1>2. WrittenAdapters(d) = w
  <2>1. WrittenAdapters(d) = <<>> \o w
    BY DEF WrittenAdapters, Map
  <2> HIDE DEF w
  <2> QED
    BY <1>1, <2>1
<1>3. \A k \in DOMAIN d : w[k] = AdapterWriteXml(d[k])
  OBVIOUS
<1> HIDE DEF w
<1>4. ASSUME NEW k \in DOMAIN d PROVE w[k].tag = "adapter" /\ w[k].attr.id = d[k].id
  <2> DEFINE a == d[k]
             e == AdapterWriteXml(a)
             attr == [id |-> a.id]
             kids == Map(FrontendWriteXml, a.frontends)
  <2>1. e = Element("adapter", attr, kids) /\ attr.id = a.id
    BY DEF AdapterWriteXml
  <2>2. w[k] = e
    BY <1>3
  <2> HIDE DEF a, e, attr, kids
  <2>3. e.tag = "adapter" /\ e.attr = attr
    BY <2>1, ElementIs
  <2> QED
    BY <2>1, <2>2, <2>3 DEF a
<1>5. AllTag(w, "adapter")
  BY <1>1, <1>4 DEF AllTag
<1>6. ASSUME NEW k \in DOMAIN d PROVE IdOnlyAt(w, d[k].id, k)
  BY <1>1, <1>4 DEF IdOnlyAt, WellDevice
<1> QED
  BY <1>1, <1>2, <1>3, <1>5, <1>6

\* A device is read back
LEMMA DeviceIsKept ==
  ASSUME NEW d, WellDevice(d), NEW b, BlankDevice(b, d)
  PROVE  DeviceReadXml(b, DeviceWriteXml(d)) = SeenDevice(d)
<1> DEFINE w == WrittenAdapters(d)
           e == DeviceWriteXml(d)
           none == <<>>
           r == [k \in DOMAIN b |-> ReadAdapter(b[k], w)]
<1>1. e = Element("device", none, w)
  BY DEF DeviceWriteXml, WrittenAdapters
<1>2. /\ IsSeq(w) /\ DOMAIN w = DOMAIN d /\ AllTag(w, "adapter")
      /\ \A k \in DOMAIN d : w[k] = AdapterWriteXml(d[k])
      /\ \A k \in DOMAIN d : IdOnlyAt(w, d[k].id, k)
  BY AdaptersAreWritten
<1> HIDE DEF w, e, none
<1>3. e.kids = w
  BY <1>1, ElementIs
<1>4. Leading(w, "adapter") = w
  <2>1. IsSeq(none) /\ DOMAIN none = {}
    BY EmptyIsSeq, SeqIs DEF none
  <2>2. NoTag(none, "adapter")
    BY <2>1 DEF NoTag
  <2>3. Leading(w \o none, "adapter") = w
    BY <1>2, <2>1, <2>2, LeadingIs
  <2>4. w \o none = w
    BY <1>2, NothingAdded DEF none
  <2> QED
    BY <2>3, <2>4
<1>5. DOMAIN b = DOMAIN d /\ IsSeq(b)
  <2>1. IsSeq(d) /\ IsSeq(b) /\ Len(b) = Len(d)
    BY DEF WellDevice, BlankDevice
  <2> QED
    BY <2>1, SeqIs
<1>6. ASSUME NEW k \in DOMAIN d PROVE ReadAdapter(b[k], w) = SeenAdapter(d[k])
  <2> DEFINE a == d[k]
             a0 == b[k]
  <2>1. WellAdapter(a) /\ Blank(a0, a)
    BY DEF WellDevice, BlankDevice
  <2>2. IdOnlyAt(w, a.id, k) /\ w[k] = AdapterWriteXml(a)
    BY <1>2
  <2> HIDE DEF a, a0
  <2>3. a0.id = a.id
    BY <2>1 DEF Blank
  <2>4. ReadAdapter(a0, w) = AdapterReadXml(a0, w[k])
    BY <1>2, <2>2, <2>3, ReadOne
  <2>5. AdapterReadXml(a0, AdapterWriteXml(a)) = SeenAdapter(a)
    BY <2>1, AdapterIsKept
  <2>6. ReadAdapter(a0, w) = SeenAdapter(a)
    BY <2>2, <2>4, <2>5
  <2> QED
    BY <2>6 DEF a, a0
<1>7. IsSeq(r) /\ <<>> \o r = r
  <2>1. r = [k \in DOMAIN b |-> r[k]]
    OBVIOUS
  <2> HIDE DEF r
  <2> QED
    BY <1>5, <2>1, FunIs
<1>8. DeviceReadXml(b, e) = <<>> \o [k \in DOMAIN b |-> ReadAdapter(b[k], Leading(e.kids, "adapter"))]
  BY DEF DeviceReadXml, ReadAdapter, Map
<1>9. DeviceReadXml(b, e) = r
  BY <1>3, <1>4, <1>7, <1>8
<1>10. r = SeenDevice(d)
  BY <1>5, <1>6 DEF SeenDevice
<1> QED
  BY <1>9, <1>10 DEF e

-------------------------------------------------------------------------------
(* The service map *)

\* How much Picked returns depends on the places only
LEMMA PickedDomain ==
  ASSUME NEW s, IsSeq(s), NEW t, IsSeq(t), DOMAIN s = DOMAIN t, NEW K
  PROVE  DOMAIN Picked(s, K) = DOMAIN Picked(t, K)
<1> DEFINE p == Picked(s, K)
           q == Picked(t, K)
           S == K \cap DOMAIN s
<1>1. IsSeq(p) /\ ExistsBijection(DOMAIN p, S)
  <2> DEFINE D == DOMAIN Picked(s, K)
             T == K \cap DOMAIN s
  <2>1. IsSeq(p) /\ S = T
    <3>1. IsSeq(Picked(s, K))
      BY PickedIs
    <3> QED
      BY <3>1
  <2>2. PICK f \in Bijection(D, T) : \A j \in D : Picked(s, K)[j] = s[f[j]]
    BY PickedIs
  <2> QED
    BY <2>1, <2>2 DEF ExistsBijection
<1>2. IsSeq(q) /\ ExistsBijection(DOMAIN q, S)
  <2> DEFINE D == DOMAIN Picked(t, K)
             T == K \cap DOMAIN t
  <2>1. IsSeq(q) /\ S = T
    <3>1. IsSeq(Picked(t, K))
      BY PickedIs
    <3> QED
      BY <3>1
  <2>2. PICK f \in Bijection(D, T) : \A j \in D : Picked(t, K)[j] = t[f[j]]
    BY PickedIs
  <2> QED
    BY <2>1, <2>2 DEF ExistsBijection
<1> HIDE DEF p, q, S
<1>3. /\ DOMAIN p = 1 .. Len(p) /\ Len(p) \in Nat
      /\ DOMAIN q = 1 .. Len(q) /\ Len(q) \in Nat
  BY <1>1, <1>2, SeqIs
<1>4. ExistsBijection(1 .. Len(p), S) /\ ExistsBijection(1 .. Len(q), S)
  BY <1>1, <1>2, <1>3
<1>5. Cardinality(S) = Len(p) /\ Cardinality(S) = Len(q)
  BY <1>3, <1>4, FS_CountingElements
<1> QED
  BY <1>3, <1>5 DEF p, q

\* A service keeps the name that its readers see
LEMMA NameIsKept ==
  ASSUME NEW s, NEW tsid
  PROVE  getName(Renamed(s, tsid), tsid) = getName(s, tsid)
<1> DEFINE name == getName(s, tsid)
           given == <<"Service", s.sid, tsid>>
<1>1. name \notin {<<>>, <<".">>}
  <2>1. Len(given) = 3 /\ Len(<<>>) = 0 /\ Len(<<".">>) = 1
    OBVIOUS
  <2>2. given \notin {<<>>, <<".">>}
    <3> HIDE DEF given
    <3>1. given # <<>>
      BY <2>1
    <3>2. given # <<".">>
      BY <2>1
    <3> QED
      BY <3>1, <3>2
  <2>3. name = IF s.name \in {<<>>, <<".">>} THEN given ELSE s.name
    BY DEF getName
  <2> HIDE DEF name, given
  <2> QED
    BY <2>2, <2>3
<1>2. Renamed(s, tsid).name = name
  BY DEF Renamed
<1> HIDE DEF name
<1>3. getName(Renamed(s, tsid), tsid) = name
  BY <1>1, <1>2 DEF getName
<1> QED
  BY <1>3 DEF name

\* As many services of a name in what the readers see
Called(services, tsid, name) == {k \in DOMAIN services : getName(services[k], tsid) = name}
CalledServices(services, tsid, name) == Those(services, LAMBDA s : getName(s, tsid) = name)

\* As many services have a name before and after
LEMMA CalledAre ==
  ASSUME NEW services, IsSeq(services), NEW tsid, NEW name
  PROVE  DOMAIN CalledServices(NamedServices(services, tsid), tsid, name)
           = DOMAIN CalledServices(services, tsid, name)
<1> DEFINE seen == NamedServices(services, tsid)
           K == Called(services, tsid, name)
<1>1. IsSeq(seen) /\ DOMAIN seen = DOMAIN services
  <2>1. seen = [k \in DOMAIN services |-> seen[k]]
    BY DEF NamedServices
  <2> HIDE DEF seen
  <2> QED
    BY <2>1, FunIs
<1>2. \A k \in DOMAIN services : getName(seen[k], tsid) = getName(services[k], tsid)
  BY NameIsKept DEF NamedServices
<1> HIDE DEF seen
<1>3. Called(seen, tsid, name) = K
  BY <1>1, <1>2 DEF Called
<1>4. CalledServices(services, tsid, name) = Picked(services, K)
  BY DEF CalledServices, Called, Those
<1>5. CalledServices(seen, tsid, name) = Picked(seen, Called(seen, tsid, name))
  BY DEF CalledServices, Called, Those
<1> HIDE DEF K
<1>6. DOMAIN Picked(seen, K) = DOMAIN Picked(services, K)
  BY <1>1, PickedDomain
<1> QED
  BY <1>3, <1>4, <1>5, <1>6 DEF seen

\* The transponders of a frontend, and of an adapter, in the loops over all
PlacesIn(d, a, f) == [t \in DOMAIN d[a].frontends[f].transponders |-> <<a, f, t>>]
PlacesOf(d, a) == FlattenSeq([f \in DOMAIN d[a].frontends |-> PlacesIn(d, a, f)])

\* The places of a device are those of its adapters
LEMMA PlacesOfDevice ==
  ASSUME NEW d
  PROVE  TransponderPlaces(d) = FlattenSeq([a \in DOMAIN d |-> PlacesOf(d, a)])
  BY DEF TransponderPlaces, PlacesOf, PlacesIn

\* What a device that is seen has at its places
LEMMA SeenPlaces ==
  ASSUME NEW d, NEW a \in DOMAIN d
  PROVE  /\ DOMAIN SeenDevice(d) = DOMAIN d
         /\ DOMAIN SeenDevice(d)[a].frontends = DOMAIN d[a].frontends
         /\ \A f \in DOMAIN d[a].frontends :
              LET fe == d[a].frontends[f]
              IN /\ SeenDevice(d)[a].frontends[f] = SeenFrontend(fe)
                 /\ DOMAIN SeenFrontend(fe).transponders = DOMAIN fe.transponders
                 /\ \A t \in DOMAIN fe.transponders :
                      SeenFrontend(fe).transponders[t] = Seen(fe.type, fe.transponders[t])
<1>1. DOMAIN SeenDevice(d) = DOMAIN d /\ SeenDevice(d)[a] = SeenAdapter(d[a])
  BY DEF SeenDevice
<1>2. SeenAdapter(d[a]).frontends = SeenFrontends(d[a].frontends)
  BY DEF SeenAdapter
<1>3. /\ DOMAIN SeenFrontends(d[a].frontends) = DOMAIN d[a].frontends
      /\ \A f \in DOMAIN d[a].frontends :
           SeenFrontends(d[a].frontends)[f] = SeenFrontend(d[a].frontends[f])
  BY DEF SeenFrontends
<1>4. ASSUME NEW fe
      PROVE  /\ DOMAIN SeenFrontend(fe).transponders = DOMAIN fe.transponders
             /\ \A t \in DOMAIN fe.transponders :
                  SeenFrontend(fe).transponders[t] = Seen(fe.type, fe.transponders[t])
  <2>1. SeenFrontend(fe).transponders = SeenTransponders(fe.type, fe.transponders)
    BY DEF SeenFrontend
  <2> QED
    BY <2>1 DEF SeenTransponders
<1> QED
  BY <1>1, <1>2, <1>3, <1>4

\* The places are the same
LEMMA PlacesAreKept ==
  ASSUME NEW d
  PROVE  TransponderPlaces(SeenDevice(d)) = TransponderPlaces(d)
<1> DEFINE v == SeenDevice(d)
<1>1. ASSUME NEW a \in DOMAIN d PROVE PlacesOf(v, a) = PlacesOf(d, a)
  <2>1. DOMAIN v[a].frontends = DOMAIN d[a].frontends
    BY SeenPlaces
  <2>2. ASSUME NEW f \in DOMAIN d[a].frontends PROVE PlacesIn(v, a, f) = PlacesIn(d, a, f)
    BY SeenPlaces DEF PlacesIn
  <2> HIDE DEF v
  <2>3. [f \in DOMAIN v[a].frontends |-> PlacesIn(v, a, f)]
          = [f \in DOMAIN d[a].frontends |-> PlacesIn(d, a, f)]
    BY <2>1, <2>2
  <2> QED
    BY <2>3 DEF PlacesOf
<1>2. DOMAIN v = DOMAIN d
  BY DEF SeenDevice
<1> HIDE DEF v
<1>3. [a \in DOMAIN v |-> PlacesOf(v, a)] = [a \in DOMAIN d |-> PlacesOf(d, a)]
  BY <1>1, <1>2
<1>4. TransponderPlaces(v) = TransponderPlaces(d)
  BY <1>3, PlacesOfDevice
<1> QED
  BY <1>4 DEF v

\* A function over the domain of a sequence whose values are sequences, flattened
LEMMA FlatFun ==
  ASSUME NEW s, IsSeq(s), NEW F, F = [k \in DOMAIN s |-> F[k]], \A k \in DOMAIN s : IsSeq(F[k])
  PROVE  /\ IsSeq(FlattenSeq(F))
         /\ \A j \in DOMAIN FlattenSeq(F) :
              \E i \in DOMAIN s : \E k \in DOMAIN F[i] : FlattenSeq(F)[j] = F[i][k]
<1>1. IsSeq(F) /\ DOMAIN F = DOMAIN s
  BY FunIs
<1>2. /\ IsSeq(Flat(F))
      /\ \A j \in DOMAIN Flat(F) : \E i \in DOMAIN F : \E k \in DOMAIN F[i] : Flat(F)[j] = F[i][k]
  BY <1>1, FlatElements
<1>3. Flat(F) = FlattenSeq(F)
  BY DEF Flat
<1> QED
  BY <1>1, <1>2, <1>3

\* A transponder of the device
Valid(d, p) ==
  \E a \in DOMAIN d : \E f \in DOMAIN d[a].frontends :
    \E t \in DOMAIN d[a].frontends[f].transponders : p = <<a, f, t>>

\* The places are those of transponders
LEMMA PlacesAreValid ==
  ASSUME NEW d, WellDevice(d)
  PROVE  /\ IsSeq(TransponderPlaces(d))
         /\ \A j \in DOMAIN TransponderPlaces(d) : Valid(d, TransponderPlaces(d)[j])
<1>1. ASSUME NEW a \in DOMAIN d, NEW f \in DOMAIN d[a].frontends
      PROVE  /\ IsSeq(PlacesIn(d, a, f)) /\ DOMAIN PlacesIn(d, a, f) = DOMAIN d[a].frontends[f].transponders
             /\ \A t \in DOMAIN PlacesIn(d, a, f) : PlacesIn(d, a, f)[t] = <<a, f, t>>
  <2> DEFINE ts == d[a].frontends[f].transponders
             p == PlacesIn(d, a, f)
  <2>1. IsSeq(ts)
    <3>1. WellAdapter(d[a])
      BY DEF WellDevice
    <3>2. WellFrontend(d[a].frontends[f])
      BY <3>1 DEF WellAdapter
    <3> QED
      BY <3>2 DEF WellFrontend
  <2>2. p = [t \in DOMAIN ts |-> p[t]] /\ \A t \in DOMAIN p : p[t] = <<a, f, t>>
    BY DEF PlacesIn
  <2> HIDE DEF p, ts
  <2>3. IsSeq(p) /\ DOMAIN p = DOMAIN ts
    BY <2>1, <2>2, FunIs
  <2> QED
    BY <2>2, <2>3 DEF p, ts
<1>2. ASSUME NEW a \in DOMAIN d
      PROVE  /\ IsSeq(PlacesOf(d, a))
             /\ \A j \in DOMAIN PlacesOf(d, a) : Valid(d, PlacesOf(d, a)[j])
  <2> DEFINE fs == d[a].frontends
             F == [f \in DOMAIN fs |-> PlacesIn(d, a, f)]
  <2>1. IsSeq(fs)
    <3>1. WellAdapter(d[a])
      BY DEF WellDevice
    <3> QED
      BY <3>1 DEF WellAdapter
  <2>2. F = [f \in DOMAIN fs |-> F[f]] /\ \A f \in DOMAIN fs : F[f] = PlacesIn(d, a, f)
    OBVIOUS
  <2>3. PlacesOf(d, a) = FlattenSeq(F)
    BY DEF PlacesOf
  <2> HIDE DEF F
  <2>4. \A f \in DOMAIN fs : IsSeq(F[f])
    BY <1>1, <2>2
  <2> HIDE DEF fs
  <2>5. /\ IsSeq(FlattenSeq(F))
        /\ \A j \in DOMAIN FlattenSeq(F) :
             \E i \in DOMAIN fs : \E k \in DOMAIN F[i] : FlattenSeq(F)[j] = F[i][k]
    BY <2>1, <2>2, <2>4, FlatFun
  <2>6. ASSUME NEW j \in DOMAIN PlacesOf(d, a) PROVE Valid(d, PlacesOf(d, a)[j])
    <3>1. PICK f \in DOMAIN fs : \E t \in DOMAIN F[f] : PlacesOf(d, a)[j] = F[f][t]
      BY <2>3, <2>5
    <3>2. PICK t \in DOMAIN F[f] : PlacesOf(d, a)[j] = F[f][t]
      BY <3>1
    <3>3. t \in DOMAIN d[a].frontends[f].transponders /\ F[f][t] = <<a, f, t>>
      BY <1>1, <2>2, <3>2 DEF fs
    <3> QED
      BY <3>2, <3>3 DEF Valid, fs
  <2> QED
    BY <2>3, <2>5, <2>6
<1> DEFINE G == [a \in DOMAIN d |-> PlacesOf(d, a)]
<1>3. G = [a \in DOMAIN d |-> G[a]] /\ \A a \in DOMAIN d : G[a] = PlacesOf(d, a)
  OBVIOUS
<1>4. TransponderPlaces(d) = FlattenSeq(G)
  BY PlacesOfDevice
<1> HIDE DEF G
<1>5. IsSeq(d) /\ \A a \in DOMAIN d : IsSeq(G[a])
  BY <1>2, <1>3 DEF WellDevice
<1>6. /\ IsSeq(FlattenSeq(G))
      /\ \A j \in DOMAIN FlattenSeq(G) :
           \E i \in DOMAIN d : \E k \in DOMAIN G[i] : FlattenSeq(G)[j] = G[i][k]
  BY <1>3, <1>5, FlatFun
<1>7. ASSUME NEW j \in DOMAIN TransponderPlaces(d) PROVE Valid(d, TransponderPlaces(d)[j])
  <2>1. PICK a \in DOMAIN d : \E k \in DOMAIN G[a] : TransponderPlaces(d)[j] = G[a][k]
    BY <1>4, <1>6
  <2>2. PICK k \in DOMAIN G[a] : TransponderPlaces(d)[j] = G[a][k]
    BY <2>1
  <2>3. Valid(d, PlacesOf(d, a)[k])
    BY <1>2, <1>3, <2>2
  <2> QED
    BY <1>3, <2>2, <2>3
<1> QED
  BY <1>4, <1>6, <1>7

\* The transponder of a place, and what is seen of it
LEMMA AtIsKept ==
  ASSUME NEW d, WellDevice(d), NEW p, Valid(d, p)
  PROVE  /\ IsSeq(At(d, p).services)
         /\ At(SeenDevice(d), p).tsid = At(d, p).tsid
         /\ At(SeenDevice(d), p).services = NamedServices(At(d, p).services, At(d, p).tsid)
<1>1. PICK a \in DOMAIN d : \E f \in DOMAIN d[a].frontends :
        \E t \in DOMAIN d[a].frontends[f].transponders : p = <<a, f, t>>
  BY DEF Valid
<1>2. PICK f \in DOMAIN d[a].frontends : \E t \in DOMAIN d[a].frontends[f].transponders : p = <<a, f, t>>
  BY <1>1
<1>3. PICK t \in DOMAIN d[a].frontends[f].transponders : p = <<a, f, t>>
  BY <1>2
<1>4. p[1] = a /\ p[2] = f /\ p[3] = t
  BY <1>3
<1> DEFINE fe == d[a].frontends[f]
           tr == fe.transponders[t]
<1>5. At(d, p) = tr
  BY <1>4 DEF At
<1>6. WellTransponder(fe.type, tr)
  <2>1. WellAdapter(d[a])
    BY DEF WellDevice
  <2>2. WellFrontend(fe)
    BY <2>1 DEF WellAdapter
  <2> QED
    BY <2>2 DEF WellFrontend
<1>7. At(SeenDevice(d), p) = Seen(fe.type, tr)
  <2>1. At(SeenDevice(d), p) = SeenDevice(d)[a].frontends[f].transponders[t]
    BY <1>4 DEF At
  <2>2. SeenDevice(d)[a].frontends[f] = SeenFrontend(fe)
    BY SeenPlaces
  <2>3. SeenFrontend(fe).transponders[t] = Seen(fe.type, tr)
    <3> HIDE DEF fe
    <3>1. SeenFrontend(fe).transponders = SeenTransponders(fe.type, fe.transponders)
      BY DEF SeenFrontend
    <3>2. t \in DOMAIN fe.transponders
      BY DEF fe
    <3> QED
      BY <3>1, <3>2 DEF SeenTransponders
  <2> QED
    BY <2>1, <2>2, <2>3
<1> HIDE DEF tr, fe
<1>8. Seen(fe.type, tr).tsid = tr.tsid /\ Seen(fe.type, tr).services = NamedServices(tr.services, tr.tsid)
  BY DEF Seen
<1>9. IsSeq(tr.services)
  BY <1>6 DEF WellTransponder, WellServices
<1> QED
  BY <1>5, <1>7, <1>8, <1>9

\* The map of services is that of the device
Copies(d, p, name) == [j \in DOMAIN CalledServices(At(d, p).services, At(d, p).tsid, name) |-> p]

\* The service map is that of the device which was written
LEMMA ServiceMapIsKept ==
  ASSUME NEW d, WellDevice(d), NEW name
  PROVE  serviceMap(SeenDevice(d), name) = serviceMap(d, name)
<1> DEFINE v == SeenDevice(d)
           ps == TransponderPlaces(d)
<1>1. TransponderPlaces(v) = ps
  BY PlacesAreKept
<1>2. ASSUME NEW k \in DOMAIN ps PROVE Copies(v, ps[k], name) = Copies(d, ps[k], name)
  <2> DEFINE p == ps[k]
  <2>1. Valid(d, p)
    BY PlacesAreValid
  <2> HIDE DEF p
  <2> DEFINE ss == At(d, p).services
             tsid == At(d, p).tsid
  <2>2. IsSeq(ss) /\ At(v, p).tsid = tsid /\ At(v, p).services = NamedServices(ss, tsid)
    BY <2>1, AtIsKept
  <2> HIDE DEF ss, tsid, v
  <2>3. DOMAIN CalledServices(NamedServices(ss, tsid), tsid, name) = DOMAIN CalledServices(ss, tsid, name)
    BY <2>2, CalledAre
  <2>4. At(d, p).services = ss /\ At(d, p).tsid = tsid
    BY DEF ss, tsid
  <2>5. Copies(v, p, name) = Copies(d, p, name)
    BY <2>2, <2>3, <2>4 DEF Copies
  <2> QED
    BY <2>5 DEF p
<1>3. ASSUME NEW u
      PROVE  serviceMap(u, name) = FlattenSeq([k \in DOMAIN TransponderPlaces(u) |->
                                     Copies(u, TransponderPlaces(u)[k], name)])
  BY DEF serviceMap, Copies, CalledServices
<1> HIDE DEF v, ps
<1>4. [k \in DOMAIN ps |-> Copies(v, ps[k], name)] = [k \in DOMAIN ps |-> Copies(d, ps[k], name)]
  BY <1>2
<1>5. serviceMap(v, name) = FlattenSeq([k \in DOMAIN ps |-> Copies(v, ps[k], name)])
  BY <1>1, <1>3
<1>6. serviceMap(d, name) = FlattenSeq([k \in DOMAIN ps |-> Copies(d, ps[k], name)])
  BY <1>3 DEF ps
<1>7. serviceMap(v, name) = serviceMap(d, name)
  BY <1>4, <1>5, <1>6
<1> QED
  BY <1>7 DEF v

=============================================================================
