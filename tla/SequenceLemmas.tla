--------------------------- MODULE SequenceLemmas ---------------------------
(***************************************************************************)
(* What the proofs need of the operators that the modules take from the    *)
(* community modules: least elements, one list after another, FlattenSeq,  *)
(* how often something is in a list, and sums of the sizes of parts.       *)
(***************************************************************************)
EXTENDS SequencesExt, SequenceTheorems, FiniteSetTheorems, WellFoundedInduction, TLAPS

\* Every set of numbers that is not empty has a least element.
LEMMA Least ==
  ASSUME NEW S, S \subseteq Nat, S # {}
  PROVE  Min(S) \in S /\ \A y \in S : Min(S) <= y
<1>. DEFINE R == OpToRel(<, Nat)
<1>1. IsWellFoundedOn(R, Nat)
  BY NatLessThanWellFounded
<1>2. \E x \in S : \A y \in S : ~(<<y, x>> \in R)
  <2>. HIDE DEF R
  <2>. QED BY <1>1, WFMin
<1>3. \A x, y \in Nat : x < y => <<x, y>> \in R
  BY DEF OpToRel
<1>4. PICK x \in S : \A y \in S : ~(y < x)
  BY <1>2, <1>3
<1>5. \A y \in S : x <= y
  BY <1>4
<1>. QED BY <1>5 DEF Min

-----------------------------------------------------------------------------
(* One list after another.                                                 *)

\* Of two elements of s, the one that comes first is in R to the other.
Ordered(R, s) == \A j, k \in DOMAIN s : j < k => <<s[j], s[k]>> \in R

\* A list after another.
LEMMA RangeOfConcat ==
  ASSUME NEW S, NEW s \in Seq(S), NEW t \in Seq(S)
  PROVE  s \o t \in Seq(S) /\ Range(s \o t) = Range(s) \cup Range(t)
<1>. DEFINE m == Len(s)
            n == Len(t)
<1>1. /\ m \in Nat /\ n \in Nat /\ DOMAIN s = 1 .. m /\ DOMAIN t = 1 .. n
      /\ s \o t \in Seq(S) /\ DOMAIN (s \o t) = 1 .. m + n
      /\ \A i \in 1 .. m : (s \o t)[i] = s[i]
      /\ \A i \in 1 .. n : (s \o t)[m + i] = t[i]
  OBVIOUS
<1>2. PICK u : u = s \o t
  OBVIOUS
<1>. HIDE DEF m, n
<1>3. \A i \in 1 .. m + n : i \in 1 .. m \/ (i - m \in 1 .. n /\ i = m + (i - m))
  BY <1>1
<1>4. \A i \in 1 .. n : m + i \in 1 .. m + n
  BY <1>1
<1>5. \A i \in 1 .. m : i \in 1 .. m + n
  BY <1>1
<1>6. Range(u) \subseteq Range(s) \cup Range(t)
  <2>. SUFFICES ASSUME NEW i \in 1 .. m + n PROVE u[i] \in Range(s) \cup Range(t)
    BY <1>1, <1>2 DEF Range
  <2>1. CASE i \in 1 .. m
    BY <1>1, <1>2, <2>1 DEF Range
  <2>2. CASE i - m \in 1 .. n /\ i = m + (i - m)
    <3>1. PICK j \in 1 .. n : i = m + j
      BY <2>2
    <3>2. u[i] = t[j]
      BY <1>1, <1>2, <3>1
    <3>. QED BY <1>1, <3>2 DEF Range
  <2>. QED BY <1>3, <2>1, <2>2
<1>7. Range(s) \subseteq Range(u)
  BY <1>1, <1>2, <1>5 DEF Range
<1>8. Range(t) \subseteq Range(u)
  <2>. SUFFICES ASSUME NEW i \in 1 .. n PROVE t[i] \in Range(u)
    BY <1>1 DEF Range
  <2>1. t[i] = u[m + i] /\ m + i \in DOMAIN u
    BY <1>1, <1>2, <1>4
  <2>. QED BY <2>1 DEF Range
<1>. QED BY <1>1, <1>2, <1>6, <1>7, <1>8

LEMMA OrderOfConcat ==
  ASSUME NEW S, NEW R, NEW s \in Seq(S), NEW t \in Seq(S), Ordered(R, s), Ordered(R, t),
         \A x \in Range(s), y \in Range(t) : <<x, y>> \in R
  PROVE  Ordered(R, s \o t)
<1>. DEFINE m == Len(s)
            n == Len(t)
<1>1. /\ m \in Nat /\ n \in Nat /\ DOMAIN s = 1 .. m /\ DOMAIN t = 1 .. n
      /\ DOMAIN (s \o t) = 1 .. m + n
      /\ \A i \in 1 .. m : (s \o t)[i] = s[i]
      /\ \A i \in 1 .. n : (s \o t)[m + i] = t[i]
  OBVIOUS
<1>2. PICK u : u = s \o t
  OBVIOUS
<1>. HIDE DEF m, n
<1>3. \A i \in 1 .. m + n : i \in 1 .. m \/ \E k \in 1 .. n : i = m + k
  <2>1. \A i \in 1 .. m + n : i \in 1 .. m \/ (i - m \in 1 .. n /\ i = m + (i - m))
    BY <1>1
  <2>. QED BY <2>1
<1>4. ASSUME NEW j \in 1 .. m + n, NEW k \in 1 .. m + n, j < k
      PROVE  <<u[j], u[k]>> \in R
  <2>1. CASE j \in 1 .. m /\ k \in 1 .. m
    BY <1>1, <1>2, <1>4, <2>1 DEF Ordered
  <2>2. CASE j \in 1 .. m /\ \E i \in 1 .. n : k = m + i
    <3>1. PICK i \in 1 .. n : k = m + i
      BY <2>2
    <3>2. u[j] = s[j] /\ u[k] = t[i] /\ s[j] \in Range(s) /\ t[i] \in Range(t)
      BY <1>1, <1>2, <2>2, <3>1 DEF Range
    <3>. QED BY <3>2
  <2>3. CASE k \in 1 .. m /\ \E i \in 1 .. n : j = m + i
    BY <1>1, <1>4, <2>3
  <2>4. CASE (\E i \in 1 .. n : j = m + i) /\ \E i \in 1 .. n : k = m + i
    <3>1. PICK a \in 1 .. n, b \in 1 .. n : j = m + a /\ k = m + b
      BY <2>4
    <3>2. a < b
      BY <1>1, <1>4, <3>1
    <3>3. u[j] = t[a] /\ u[k] = t[b]
      BY <1>1, <1>2, <3>1
    <3>. QED BY <1>1, <3>2, <3>3 DEF Ordered
  <2>. QED BY <1>3, <2>1, <2>2, <2>3, <2>4
<1>. QED BY <1>1, <1>2, <1>4 DEF Ordered

-----------------------------------------------------------------------------
(* FlattenSeq.                                                             *)

\* f is what the first n of some lists make, one after the other.
IsJoined(f, seqs, n) ==
  f = [i \in 1 .. n |-> IF i = 1 THEN seqs[i] ELSE f[i - 1] \o seqs[i]]

LEMMA JoinedExists == ASSUME NEW seqs PROVE \A n \in Nat : \E f : IsJoined(f, seqs, n)
<1>. DEFINE S == {n \in Nat : ~\E f : IsJoined(f, seqs, n)}
<1>. SUFFICES ASSUME S # {} PROVE FALSE
  OBVIOUS
<1>1. PICK m \in Nat : m \in S /\ \A n \in Nat : n < m => n \notin S
  <2>1. S \subseteq Nat
    OBVIOUS
  <2>. HIDE DEF S
  <2>2. PICK m : m = Min(S)
    OBVIOUS
  <2>3. m \in S /\ \A n \in S : m <= n
    BY <2>1, <2>2, Least
  <2>. QED BY <2>1, <2>3
<1>2. m # 0
  <2>. DEFINE f == [i \in 1 .. 0 |-> seqs[i]]
  <2>1. f = [i \in 1 .. 0 |-> IF i = 1 THEN seqs[i] ELSE f[i - 1] \o seqs[i]]
    OBVIOUS
  <2>2. IsJoined(f, seqs, 0)
    BY <2>1 DEF IsJoined
  <2>. QED BY <1>1, <2>2
<1>3. PICK g : IsJoined(g, seqs, m - 1)
  BY <1>1, <1>2
<1>. DEFINE f == [i \in 1 .. m |-> IF i = 1 THEN seqs[i] ELSE g[i - 1] \o seqs[i]]
<1>4. \A i \in 1 .. m - 1 : f[i] = g[i]
  <2>1. \A i \in 1 .. m - 1 : g[i] = IF i = 1 THEN seqs[i] ELSE g[i - 1] \o seqs[i]
    BY <1>3 DEF IsJoined
  <2>. QED BY <2>1
<1>5. \A i \in 1 .. m : i # 1 => f[i - 1] = g[i - 1]
  <2>1. \A i \in 1 .. m : i # 1 => i - 1 \in 1 .. m - 1
    OBVIOUS
  <2>. HIDE DEF f
  <2>. QED BY <1>4, <2>1
<1>6. f = [i \in 1 .. m |-> IF i = 1 THEN seqs[i] ELSE f[i - 1] \o seqs[i]]
  <2>. HIDE DEF f
  <2>1. f = [i \in 1 .. m |-> IF i = 1 THEN seqs[i] ELSE g[i - 1] \o seqs[i]]
    BY DEF f
  <2>. QED BY <1>5, <2>1
<1>. QED BY <1>1, <1>6 DEF IsJoined

\* FlattenSeq loses nothing and invents nothing, and it puts its lists in order.
LEMMA Flattened ==
  ASSUME NEW S, NEW seqs \in Seq(Seq(S)), NEW R,
         \A j \in DOMAIN seqs : Ordered(R, seqs[j]),
         \A i, j \in DOMAIN seqs :
           i < j => \A x \in Range(seqs[i]), y \in Range(seqs[j]) : <<x, y>> \in R
  PROVE  /\ FlattenSeq(seqs) \in Seq(S)
         /\ Range(FlattenSeq(seqs)) = UNION {Range(seqs[j]) : j \in DOMAIN seqs}
         /\ Ordered(R, FlattenSeq(seqs))
<1>. DEFINE N == Len(seqs)
            all == FlattenSeq(seqs)
<1>1. N \in Nat /\ DOMAIN seqs = 1 .. N /\ \A j \in 1 .. N : seqs[j] \in Seq(S)
  OBVIOUS
<1>2. CASE N = 0
  <2>1. seqs \in Seq(S) /\ DOMAIN seqs = {}
    BY <1>2
  <2>2. all = seqs
    BY <1>2 DEF FlattenSeq
  <2>. QED BY <2>1, <2>2 DEF Range, Ordered
<1>3. CASE N # 0
  <2>1. PICK f : f = CHOOSE g : IsJoined(g, seqs, N)
    OBVIOUS
  <2>2. IsJoined(f, seqs, N)
    BY <1>1, <2>1, JoinedExists
  <2>3. all = f[N]
    BY <1>3, <2>1 DEF FlattenSeq, IsJoined
  <2>. HIDE DEF N, all
  <2>4. \A i \in 1 .. N : f[i] = IF i = 1 THEN seqs[i] ELSE f[i - 1] \o seqs[i]
    BY <2>2 DEF IsJoined
  <2>. DEFINE Parts(i) == UNION {Range(seqs[j]) : j \in 1 .. i}
              Good(i) == f[i] \in Seq(S) /\ Range(f[i]) = Parts(i) /\ Ordered(R, f[i])
              B == {i \in 1 .. N : ~Good(i)}
  <2>5. B = {}
    <3>. SUFFICES ASSUME B # {} PROVE FALSE
      OBVIOUS
    <3>1. B \subseteq Nat /\ B \subseteq 1 .. N
      BY <1>1
    <3>2. PICK i : i = Min(B)
      OBVIOUS
    <3>3. i \in B /\ \A k \in B : i <= k
      <4>. HIDE DEF B
      <4>. QED BY <3>1, <3>2, Least
    <3>4. i \in 1 .. N /\ ~Good(i)
      BY <3>3
    <3>5. CASE i = 1
      <4>1. Parts(1) = Range(seqs[1])
        <5>1. 1 .. 1 = {1}
          OBVIOUS
        <5>. QED BY <5>1
      <4>2. f[1] = seqs[1] /\ 1 \in 1 .. N
        BY <1>1, <2>4, <3>4, <3>5
      <4>. QED BY <1>1, <3>4, <3>5, <4>1, <4>2
    <3>6. CASE i # 1
      <4>1. PICK k \in 1 .. N : k = i - 1
        BY <1>1, <3>4, <3>6
      <4>2. Good(k)
        <5>1. k \in Nat /\ i \in Nat /\ ~(i <= k)
          BY <1>1, <3>4, <4>1
        <5>. QED BY <3>3, <5>1
      <4>3. f[i] = f[k] \o seqs[i] /\ seqs[i] \in Seq(S)
        BY <1>1, <2>4, <3>4, <3>6, <4>1
      <4>4. f[i] \in Seq(S) /\ Range(f[i]) = Range(f[k]) \cup Range(seqs[i])
        BY <4>2, <4>3, RangeOfConcat
      <4>5. 1 .. i = (1 .. k) \cup {i} /\ \A j \in 1 .. k : j < i /\ j \in 1 .. N
        BY <1>1, <3>4, <4>1
      <4>6. Parts(i) = Parts(k) \cup Range(seqs[i])
        BY <4>5
      <4>7. \A x \in Range(f[k]), y \in Range(seqs[i]) : <<x, y>> \in R
        <5>1. PICK tail : tail = Range(seqs[i])
          OBVIOUS
        <5>2. \A j \in 1 .. k : \A x \in Range(seqs[j]), y \in tail : <<x, y>> \in R
          BY <1>1, <3>4, <4>5, <5>1
        <5>3. Range(f[k]) = UNION {Range(seqs[j]) : j \in 1 .. k}
          BY <4>2
        <5>. QED BY <5>1, <5>2, <5>3
      <4>8. Ordered(R, f[i])
        <5>1. PICK a, b : a = f[k] /\ b = seqs[i]
          OBVIOUS
        <5>2. a \in Seq(S) /\ b \in Seq(S) /\ Ordered(R, a) /\ f[i] = a \o b
          BY <4>2, <4>3, <5>1
        <5>3. Ordered(R, b)
          BY <1>1, <3>4, <5>1
        <5>4. \A x \in Range(a), y \in Range(b) : <<x, y>> \in R
          BY <4>7, <5>1
        <5>. HIDE DEF Good, Parts, B
        <5>5. Ordered(R, a \o b)
          BY <5>2, <5>3, <5>4, OrderOfConcat
        <5>. QED BY <5>2, <5>5
      <4>. QED BY <3>4, <4>2, <4>4, <4>6, <4>8
    <3>. QED BY <3>5, <3>6
  <2>6. N \in 1 .. N
    BY <1>1, <1>3 DEF N
  <2>7. Good(N)
    BY <2>5, <2>6
  <2>. QED BY <1>1, <2>3, <2>7 DEF all
<1>. QED BY <1>2, <1>3

-----------------------------------------------------------------------------
(* FlattenSeq, part by part.                                               *)

\* Up to n, s and t are alike.
BeginAlike(s, t, n) == \A i \in 1 .. n : s[i] = t[i]

\* Lists that begin alike make the same beginning.
LEMMA JoinedAlike ==
  ASSUME NEW seqs, NEW parts, NEW n \in Nat, NEW m \in 0 .. n, NEW f, NEW g,
         IsJoined(f, seqs, n), IsJoined(g, parts, m),
         BeginAlike(parts, seqs, m)
  PROVE  BeginAlike(g, f, m)
<1>. USE DEF BeginAlike
<1>1. /\ \A i \in 1 .. n : f[i] = IF i = 1 THEN seqs[i] ELSE f[i - 1] \o seqs[i]
      /\ \A i \in 1 .. m : g[i] = IF i = 1 THEN parts[i] ELSE g[i - 1] \o parts[i]
  BY DEF IsJoined
<1>. DEFINE B == {i \in 1 .. m : g[i] # f[i]}
<1>. SUFFICES ASSUME B # {} PROVE FALSE
  OBVIOUS
<1>2. PICK i \in 1 .. m : g[i] # f[i] /\ \A k \in 1 .. m : k < i => g[k] = f[k]
  <2>1. B \subseteq Nat
    OBVIOUS
  <2>. HIDE DEF B
  <2>2. PICK i : i = Min(B)
    OBVIOUS
  <2>3. i \in B /\ \A k \in B : i <= k
    BY <2>1, <2>2, Least
  <2>. QED BY <2>1, <2>3 DEF B
<1>3. i # 1
  BY <1>1, <1>2
<1>4. PICK k \in 1 .. m : k = i - 1
  BY <1>2, <1>3
<1>5. g[k] = f[k]
  BY <1>2, <1>4
<1>6. i \in 1 .. n
  BY <1>2
<1>. QED BY <1>1, <1>2, <1>3, <1>4, <1>5, <1>6

LEMMA FlattenType ==
  ASSUME NEW S, NEW seqs \in Seq(Seq(S))
  PROVE  FlattenSeq(seqs) \in Seq(S) /\ FlattenSeq(<<>>) = <<>>
<1>. DEFINE R == S \X S
<1>1. \A s \in Seq(S) : Ordered(R, s) /\ Range(s) \subseteq S
  BY DEF Ordered, Range
<1>2. \A j \in DOMAIN seqs : seqs[j] \in Seq(S)
  OBVIOUS
<1>3. \A i, j \in DOMAIN seqs :
        i < j => \A x \in Range(seqs[i]), y \in Range(seqs[j]) : <<x, y>> \in R
  BY <1>1, <1>2
<1>4. \A j \in DOMAIN seqs : Ordered(R, seqs[j])
  BY <1>1, <1>2
<1>. HIDE DEF R
<1>5. FlattenSeq(seqs) \in Seq(S)
  BY <1>3, <1>4, Flattened
<1>6. FlattenSeq(<<>>) = <<>>
  BY DEF FlattenSeq
<1>. QED BY <1>5, <1>6

\* The last list comes last.
LEMMA FlattenLast ==
  ASSUME NEW S, NEW seqs \in Seq(Seq(S)), NEW n \in Nat, NEW m, m = n + 1, Len(seqs) = m
  PROVE  FlattenSeq(seqs) = FlattenSeq(SubSeq(seqs, 1, n)) \o seqs[m]
<1>2. PICK parts : parts = SubSeq(seqs, 1, n)
  OBVIOUS
<1>3. /\ parts \in Seq(Seq(S)) /\ Len(parts) = n /\ \A i \in 1 .. n : parts[i] = seqs[i]
      /\ m \in Nat /\ m # 0 /\ n \in 0 .. m /\ seqs[m] \in Seq(S)
  BY <1>2
<1>4. PICK f : f = CHOOSE h : IsJoined(h, seqs, m)
  OBVIOUS
<1>5. IsJoined(f, seqs, m)
  BY <1>3, <1>4, JoinedExists
<1>6. FlattenSeq(seqs) = f[m]
  BY <1>3, <1>4 DEF FlattenSeq, IsJoined
<1>7. f[m] = IF m = 1 THEN seqs[m] ELSE f[m - 1] \o seqs[m]
  <2>1. \A i \in 1 .. m : f[i] = IF i = 1 THEN seqs[i] ELSE f[i - 1] \o seqs[i]
    BY <1>5 DEF IsJoined
  <2>2. m \in 1 .. m
    BY <1>3
  <2>. QED BY <2>1, <2>2
<1>8. CASE n = 0
  <2>1. FlattenSeq(parts) = <<>>
    BY <1>3, <1>8 DEF FlattenSeq
  <2>2. <<>> \o seqs[m] = seqs[m]
    BY <1>3, ConcatEmptySeq
  <2>. QED BY <1>2, <1>3, <1>6, <1>7, <1>8, <2>1, <2>2
<1>9. CASE n # 0
  <2>1. PICK g : g = CHOOSE h : IsJoined(h, parts, n)
    OBVIOUS
  <2>2. IsJoined(g, parts, n)
    BY <1>3, <2>1, JoinedExists
  <2>3. FlattenSeq(parts) = g[n]
    BY <1>3, <1>9, <2>1 DEF FlattenSeq, IsJoined
  <2>4. n \in 1 .. n /\ m - 1 = n /\ m # 1
    BY <1>3, <1>9
  <2>5. \A i \in 1 .. n : g[i] = f[i]
    <3>1. m \in Nat /\ n \in 0 .. m /\ BeginAlike(parts, seqs, n)
      BY <1>3 DEF BeginAlike
    <3>2. BeginAlike(g, f, n)
      BY <1>5, <2>2, <3>1, JoinedAlike
    <3>. QED BY <3>2 DEF BeginAlike
  <2>6. f[m] = f[n] \o seqs[m]
    BY <1>7, <2>4
  <2>. QED BY <1>2, <1>6, <2>3, <2>4, <2>5, <2>6
<1>. QED BY <1>8, <1>9

\* What the first k lists make comes before what the others make.
LEMMA FlattenSplit ==
  ASSUME NEW S, NEW seqs \in Seq(Seq(S)), NEW k \in 0 .. Len(seqs)
  PROVE  FlattenSeq(seqs) = FlattenSeq(SubSeq(seqs, 1, k))
                              \o FlattenSeq(SubSeq(seqs, k + 1, Len(seqs)))
<1>. DEFINE F(n) == FlattenSeq(SubSeq(seqs, 1, n))
            G(n) == FlattenSeq(SubSeq(seqs, k + 1, n))
            B == {n \in k .. Len(seqs) : F(n) # F(k) \o G(n)}
<1>1. PICK N \in Nat : N = Len(seqs)
  OBVIOUS
<1>2. \A n \in k .. N : /\ SubSeq(seqs, 1, n) \in Seq(Seq(S)) /\ Len(SubSeq(seqs, 1, n)) = n
                        /\ SubSeq(seqs, k + 1, n) \in Seq(Seq(S))
                        /\ Len(SubSeq(seqs, k + 1, n)) = n - k
  BY <1>1
<1>3. \A n \in k .. N : F(n) \in Seq(S) /\ G(n) \in Seq(S)
  BY <1>2, FlattenType
<1>4. B = {}
  <2>. SUFFICES ASSUME B # {} PROVE FALSE
    OBVIOUS
  <2>1. PICK n \in k .. N : F(n) # F(k) \o G(n) /\ \A m \in k .. N : m < n => F(m) = F(k) \o G(m)
    <3>1. B \subseteq Nat
      BY <1>1
    <3>. HIDE DEF B
    <3>2. PICK n : n = Min(B)
      OBVIOUS
    <3>3. n \in B /\ \A m \in B : n <= m
      BY <3>1, <3>2, Least
    <3>4. n \in k .. N /\ F(n) # F(k) \o G(n)
      BY <1>1, <3>3 DEF B
    <3>5. ASSUME NEW m \in k .. N, m < n PROVE F(m) = F(k) \o G(m)
      <4>1. m \notin B
        BY <3>3, <3>4, <3>5
      <4>. QED BY <1>1, <4>1 DEF B
    <3>. QED BY <3>4, <3>5
  <2>2. n # k
    <3>1. SubSeq(seqs, k + 1, k) = <<>>
      OBVIOUS
    <3>2. G(k) = <<>>
      BY <3>1, FlattenType
    <3>3. k \in k .. N
      BY <1>1
    <3>. QED BY <1>3, <2>1, <3>2, <3>3, ConcatEmptySeq
  <2>3. PICK m \in k .. N : m = n - 1
    BY <1>1, <2>1, <2>2
  <2>4. n \in 1 .. N /\ seqs[n] \in Seq(S) /\ m < n
    BY <1>1, <2>1, <2>2, <2>3
  <2>5. F(n) = F(m) \o seqs[n]
    <3>1. PICK s : s = SubSeq(seqs, 1, n)
      OBVIOUS
    <3>2. s \in Seq(Seq(S)) /\ Len(s) = n /\ s[n] = seqs[n] /\ SubSeq(s, 1, m) = SubSeq(seqs, 1, m)
          /\ m \in Nat /\ n = m + 1
      BY <1>1, <2>3, <2>4, <3>1
    <3>3. FlattenSeq(s) = FlattenSeq(SubSeq(s, 1, m)) \o s[n]
      BY <3>2, FlattenLast
    <3>. QED BY <3>1, <3>2, <3>3
  <2>6. G(n) = G(m) \o seqs[n]
    <3>1. PICK s : s = SubSeq(seqs, k + 1, n)
      OBVIOUS
    <3>2. PICK l \in Nat, h \in Nat : l = n - k /\ h = m - k
      BY <2>1
    <3>3. s \in Seq(Seq(S)) /\ Len(s) = l /\ l = h + 1
      BY <1>1, <1>2, <2>1, <2>2, <2>3, <3>1, <3>2
    <3>4. s[l] = seqs[n]
      <4>1. \A i \in 1 .. l : s[i] = seqs[k + i]
        BY <1>1, <2>1, <3>1, <3>2
      <4>2. l \in 1 .. l /\ k + l = n
        BY <1>1, <2>1, <3>2, <3>3
      <4>. QED BY <4>1, <4>2
    <3>5. SubSeq(s, 1, h) = SubSeq(seqs, k + 1, m)
      BY <1>1, <2>1, <2>2, <2>3, <3>1, <3>2
    <3>6. FlattenSeq(s) = FlattenSeq(SubSeq(s, 1, h)) \o s[l]
      BY <3>2, <3>3, FlattenLast
    <3>. QED BY <3>1, <3>4, <3>5, <3>6
  <2>7. F(m) = F(k) \o G(m)
    BY <2>1, <2>3, <2>4
  <2>8. (F(k) \o G(m)) \o seqs[n] = F(k) \o (G(m) \o seqs[n])
    <3>1. PICK a \in Seq(S), b \in Seq(S), c \in Seq(S) : a = F(k) /\ b = G(m) /\ c = seqs[n]
      <4>1. k \in k .. N
        BY <1>1
      <4>. QED BY <1>3, <2>3, <2>4, <4>1
    <3>2. (a \o b) \o c = a \o (b \o c)
      BY ConcatAssociative, SMTT(60)
    <3>. QED BY <3>1, <3>2
  <2>. QED BY <2>1, <2>5, <2>6, <2>7, <2>8
<1>5. F(N) = F(k) \o G(N)
  <2>1. N \in k .. N
    BY <1>1
  <2>. QED BY <1>1, <1>4, <2>1
<1>6. SubSeq(seqs, 1, N) = seqs
  BY <1>1, SubSeqFull
<1>. QED BY <1>1, <1>5, <1>6

\* One of the lists, between those before it and those behind it.
LEMMA FlattenAt ==
  ASSUME NEW S, NEW seqs \in Seq(Seq(S)), NEW k \in 1 .. Len(seqs)
  PROVE  /\ FlattenSeq(SubSeq(seqs, 1, k)) = FlattenSeq(SubSeq(seqs, 1, k - 1)) \o seqs[k]
         /\ FlattenSeq(seqs) = FlattenSeq(SubSeq(seqs, 1, k - 1)) \o seqs[k]
                                 \o FlattenSeq(SubSeq(seqs, k + 1, Len(seqs)))
<1>0. PICK h \in Nat : h = k - 1
  OBVIOUS
<1>1. PICK s : s = SubSeq(seqs, 1, k)
  OBVIOUS
<1>2. s \in Seq(Seq(S)) /\ Len(s) = k /\ k = h + 1 /\ s[k] = seqs[k] /\ SubSeq(s, 1, h) = SubSeq(seqs, 1, h)
  BY <1>0, <1>1
<1>3. FlattenSeq(s) = FlattenSeq(SubSeq(s, 1, h)) \o s[k]
  BY <1>2, FlattenLast
<1>4. FlattenSeq(seqs) = FlattenSeq(SubSeq(seqs, 1, k)) \o FlattenSeq(SubSeq(seqs, k + 1, Len(seqs)))
  BY FlattenSplit
<1>. QED BY <1>0, <1>1, <1>2, <1>3, <1>4

-----------------------------------------------------------------------------
(* Sizes.                                                                  *)

\* A set of positions, with one more.
LEMMA OneMorePosition ==
  ASSUME NEW n \in Nat, NEW S, S \subseteq 1 .. n - 1
  PROVE  /\ IsFiniteSet(S) /\ Cardinality(S) \in Nat /\ Cardinality({}) = 0
         /\ Cardinality(S \cup {n}) = Cardinality(S) + 1
<1>1. IsFiniteSet(1 .. n - 1)
  <2>1. PICK m \in Int : m = n - 1
    OBVIOUS
  <2>2. IsFiniteSet(1 .. m)
    BY FS_Interval
  <2>. QED BY <2>1, <2>2
<1>2. IsFiniteSet(S) /\ n \notin S
  <2>1. n \notin 1 .. n - 1
    OBVIOUS
  <2>. QED BY <1>1, <2>1, FS_Subset
<1>. QED BY <1>2, FS_CardinalityType, FS_AddElement, FS_EmptySet

\* Where something is in a list.
Positions(x, s) == {i \in DOMAIN s : s[i] = x}

\* It is in the one and in the other.
LEMMA CountOfConcat ==
  ASSUME NEW S, NEW s \in Seq(S), NEW t \in Seq(S), NEW x
  PROVE  /\ Cardinality(Positions(x, s \o t)) = Cardinality(Positions(x, s)) + Cardinality(Positions(x, t))
         /\ Cardinality(Positions(x, s)) \in Nat /\ Cardinality(Positions(x, t)) \in Nat
         /\ x \notin Range(s) => Cardinality(Positions(x, s)) = 0
         /\ x \notin Range(t) => Cardinality(Positions(x, t)) = 0
<1>. DEFINE m == Len(s)
            n == Len(t)
            A == Positions(x, s)
            B == Positions(x, t)
            C == {m + i : i \in B}
<1>1. /\ m \in Nat /\ n \in Nat /\ DOMAIN s = 1 .. m /\ DOMAIN t = 1 .. n
      /\ DOMAIN (s \o t) = 1 .. m + n
      /\ \A i \in 1 .. m : (s \o t)[i] = s[i]
      /\ \A i \in 1 .. n : (s \o t)[m + i] = t[i]
  OBVIOUS
<1>2. PICK u : u = s \o t
  OBVIOUS
<1>3. A \subseteq 1 .. m /\ B \subseteq 1 .. n
  BY <1>1 DEF Positions
<1>. HIDE DEF m, n
<1>4. IsFiniteSet(A) /\ IsFiniteSet(B)
  <2>1. IsFiniteSet(1 .. m) /\ IsFiniteSet(1 .. n)
    BY <1>1, FS_Interval
  <2>. QED BY <1>3, <2>1, FS_Subset
<1>5. Positions(x, u) = A \cup C
  <2>1. ASSUME NEW i \in Positions(x, u) PROVE i \in A \cup C
    <3>1. i \in 1 .. m + n /\ u[i] = x
      BY <1>1, <1>2, <2>1 DEF Positions
    <3>2. CASE i \in 1 .. m
      BY <1>1, <1>2, <3>1, <3>2 DEF Positions
    <3>3. CASE i \notin 1 .. m
      <4>1. PICK j \in 1 .. n : i = m + j
        <5>1. i - m \in 1 .. n /\ i = m + (i - m)
          BY <1>1, <3>1, <3>3
        <5>. QED BY <5>1
      <4>2. j \in B
        BY <1>1, <1>2, <3>1, <4>1 DEF Positions
      <4>. QED BY <4>1, <4>2
    <3>. QED BY <3>2, <3>3
  <2>2. ASSUME NEW i \in A PROVE i \in Positions(x, u)
    <3>1. i \in 1 .. m /\ s[i] = x /\ i \in 1 .. m + n
      BY <1>1, <1>3, <2>2 DEF Positions
    <3>. QED BY <1>1, <1>2, <3>1 DEF Positions
  <2>3. ASSUME NEW i \in B PROVE m + i \in Positions(x, u)
    <3>1. i \in 1 .. n /\ t[i] = x /\ m + i \in 1 .. m + n
      BY <1>1, <1>3, <2>3 DEF Positions
    <3>. QED BY <1>1, <1>2, <3>1 DEF Positions
  <2>. QED BY <2>1, <2>2, <2>3
<1>6. IsFiniteSet(C) /\ Cardinality(C) = Cardinality(B)
  <2>. DEFINE f == [i \in B |-> m + i]
  <2>1. f \in Bijection(B, C)
    <3>1. \A i, j \in B : m + i = m + j => i = j
      BY <1>1, <1>3
    <3>. HIDE DEF A, B
    <3>. QED BY <3>1 DEF Bijection, Injection, Surjection, IsInjective
  <2>. QED BY <1>4, <2>1, FS_Bijection DEF ExistsBijection
<1>7. A \cap C = {}
  BY <1>1, <1>3
<1>8. Cardinality(A) \in Nat /\ Cardinality(B) \in Nat
  BY <1>4, FS_CardinalityType
<1>9. Cardinality(A \cup C) = Cardinality(A) + Cardinality(C)
  <2>. HIDE DEF A, B, C
  <2>1. Cardinality(A \cup C) = Cardinality(A) + Cardinality(C) - Cardinality(A \cap C)
    BY <1>4, <1>6, FS_Union
  <2>2. Cardinality(A \cap C) = 0
    BY <1>7, FS_EmptySet
  <2>. QED BY <1>6, <1>8, <2>1, <2>2
<1>10. (x \notin Range(s) => A = {}) /\ (x \notin Range(t) => B = {})
  BY DEF Range, Positions
<1>. QED BY <1>2, <1>5, <1>6, <1>8, <1>9, <1>10, FS_EmptySet

\* A list without repetitions is as long as the set of its elements is large.
LEMMA LengthOfDistinct ==
  ASSUME NEW S, NEW s \in Seq(S), \A j, k \in DOMAIN s : j < k => s[j] # s[k]
  PROVE  /\ IsFiniteSet(Range(s)) /\ Cardinality(Range(s)) = Len(s)
         /\ Cardinality(DOMAIN s) = Len(s) /\ IsFiniteSet(DOMAIN s)
<1>1. Len(s) \in Nat /\ DOMAIN s = 1 .. Len(s)
  OBVIOUS
<1>2. PICK n \in Nat : n = Len(s)
  BY <1>1
<1>3. IsFiniteSet(1 .. n) /\ Cardinality(1 .. n) = n
  BY FS_Interval
<1>4. s \in Bijection(1 .. n, Range(s))
  <2>1. \A j, k \in 1 .. n : s[j] = s[k] => j = k
    BY <1>1, <1>2
  <2>2. s \in [1 .. n -> Range(s)]
    BY <1>1, <1>2 DEF Range
  <2>. QED BY <1>1, <1>2, <2>1, <2>2
           DEF Bijection, Injection, Surjection, IsInjective, Range
<1>5. ExistsBijection(1 .. n, Range(s))
  BY <1>4 DEF ExistsBijection
<1>6. IsFiniteSet(Range(s)) /\ Cardinality(Range(s)) = Cardinality(1 .. n)
  BY <1>3, <1>5, FS_Bijection
<1>. QED BY <1>1, <1>2, <1>3, <1>6

\* size tells the sum of f over each subset of T, in the order that the fold takes.
IsSum(size, f, T) ==
  size = [s \in SUBSET T |->
            IF s = {} THEN 0
            ELSE f[CHOOSE x \in s : TRUE] + size[s \ {CHOOSE x \in s : TRUE}]]

LEMMA SumUnfolds ==
  ASSUME NEW f
  PROVE  SumFunction(f) = (CHOOSE size : IsSum(size, f, DOMAIN f))[DOMAIN f]
  BY DEF SumFunction, SumFunctionOnSet, FoldFunctionOnSet, MapThenFoldSet, IsSum

\* The sum of the sizes of disjoint sets is the size of their union.
LEMMA SumOfParts ==
  ASSUME NEW T, IsFiniteSet(T), NEW f, DOMAIN f = T, NEW A,
         \A x \in T : IsFiniteSet(A[x]) /\ f[x] = Cardinality(A[x]),
         \A x, y \in T : x # y => A[x] \cap A[y] = {}
  PROVE  SumFunction(f) = Cardinality(UNION {A[x] : x \in T})
<1>. DEFINE part(s) == UNION {A[x] : x \in s}
            some(s) == CHOOSE x \in s : TRUE
<1>1. ASSUME NEW s \in SUBSET T
      PROVE  /\ IsFiniteSet(s) /\ IsFiniteSet(part(s))
             /\ Cardinality(s) \in Nat /\ Cardinality(part(s)) \in Nat
  <2>1. IsFiniteSet(s)
    BY FS_Subset
  <2>. DEFINE image == {A[x] : x \in s}
              map == [x \in s |-> A[x]]
  <2>2. map \in Surjection(s, image)
    BY DEF Surjection
  <2>3. IsFiniteSet(image)
    <3>. HIDE DEF image, map
    <3>. QED BY <2>1, <2>2, FS_Surjection
  <2>4. IsFiniteSet(UNION image)
    <3>1. \A u \in image : IsFiniteSet(u)
      OBVIOUS
    <3>. HIDE DEF image
    <3>. QED BY <2>3, <3>1, FS_UNION
  <2>. QED BY <2>1, <2>4, FS_CardinalityType
<1>2. part({}) = {} /\ Cardinality({}) = 0
  BY FS_EmptySet
<1>3. ASSUME NEW s \in SUBSET T, s # {}
      PROVE  /\ some(s) \in s /\ s \ {some(s)} \in SUBSET T
             /\ Cardinality(s \ {some(s)}) = Cardinality(s) - 1
             /\ Cardinality(part(s)) = f[some(s)] + Cardinality(part(s \ {some(s)}))
  <2>1. PICK x : x = some(s)
    OBVIOUS
  <2>2. x \in s
    BY <1>3, <2>1
  <2>. HIDE DEF some
  <2>3. PICK rest \in SUBSET T : rest = s \ {x}
    OBVIOUS
  <2>4. part(s) = A[x] \cup part(rest) /\ A[x] \cap part(rest) = {}
    BY <2>2, <2>3
  <2>5. Cardinality(s \ {x}) = Cardinality(s) - 1
    BY <1>1, <2>2, FS_RemoveElement
  <2>. HIDE DEF part
  <2>6. Cardinality(A[x] \cup part(rest))
          = Cardinality(A[x]) + Cardinality(part(rest)) - Cardinality(A[x] \cap part(rest))
    BY <1>1, <2>2, FS_Union
  <2>7. Cardinality(A[x]) \in Nat /\ Cardinality(part(rest)) \in Nat
    BY <1>1, <2>2, FS_CardinalityType
  <2>8. Cardinality(part(s)) = f[x] + Cardinality(part(rest))
    <3>1. f[x] = Cardinality(A[x]) /\ Cardinality(A[x] \cap part(rest)) = 0
      BY <1>2, <2>2, <2>4
    <3>2. Cardinality(part(s)) = Cardinality(A[x]) + Cardinality(part(rest)) - 0
      BY <2>4, <2>6, <3>1
    <3>. QED BY <2>7, <3>1, <3>2
  <2>. QED BY <2>1, <2>2, <2>3, <2>5, <2>8
<1>. HIDE DEF some
<1>4. \E size : IsSum(size, f, T)
  <2>. DEFINE size == [s \in SUBSET T |-> Cardinality(part(s))]
  <2>. HIDE DEF part
  <2>1. ASSUME NEW s \in SUBSET T
        PROVE  Cardinality(part(s))
                 = IF s = {} THEN 0 ELSE f[some(s)] + size[s \ {some(s)}]
    <3>1. CASE s = {}
      BY <1>2, <3>1
    <3>2. CASE s # {}
      BY <1>3, <3>2
    <3>. QED BY <3>1, <3>2
  <2>2. size = [s \in SUBSET T |->
                  IF s = {} THEN 0 ELSE f[some(s)] + size[s \ {some(s)}]]
    <3>1. PICK own : own = size
      OBVIOUS
    <3>2. own = [s \in SUBSET T |->
                   IF s = {} THEN 0 ELSE f[some(s)] + own[s \ {some(s)}]]
      BY <2>1, <3>1
    <3>. QED BY <3>1, <3>2
  <2>. HIDE DEF size
  <2>3. IsSum(size, f, T)
    BY <2>2 DEF IsSum, some
  <2>. QED BY <2>3
<1>5. ASSUME NEW size, IsSum(size, f, T)
      PROVE  \A s \in SUBSET T : size[s] = Cardinality(part(s))
  <2>1. \A s \in SUBSET T :
          size[s] = IF s = {} THEN 0 ELSE f[some(s)] + size[s \ {some(s)}]
    BY <1>5 DEF IsSum, some
  <2>. HIDE DEF part
  <2>. DEFINE Bad == {s \in SUBSET T : size[s] # Cardinality(part(s))}
              B == {Cardinality(s) : s \in Bad}
  <2>2. Bad = {}
    <3>. SUFFICES ASSUME Bad # {} PROVE FALSE
      OBVIOUS
    <3>1. B \subseteq Nat /\ B # {}
      BY <1>1
    <3>2. PICK n \in B : \A m \in B : n <= m
      <4>. HIDE DEF B
      <4>. QED BY <3>1, Least
    <3>3. PICK s \in Bad : Cardinality(s) = n
      BY <3>2
    <3>4. s \in SUBSET T /\ size[s] # Cardinality(part(s)) /\ Cardinality(s) \in Nat
      BY <1>1
    <3>5. s # {}
      BY <1>2, <2>1, <3>4
    <3>6. s \ {some(s)} \notin Bad
      <4>1. PICK r : r = s \ {some(s)}
        OBVIOUS
      <4>2. Cardinality(r) = n - 1 /\ n \in Nat
        BY <1>3, <3>3, <3>4, <3>5, <4>1
      <4>3. ~(n <= Cardinality(r))
        BY <4>2
      <4>4. r \in Bad => Cardinality(r) \in B
        OBVIOUS
      <4>. HIDE DEF B, Bad
      <4>. QED BY <3>2, <4>1, <4>3, <4>4
    <3>7. PICK r \in SUBSET T : r = s \ {some(s)}
      BY <1>3, <3>4, <3>5
    <3>8. size[r] = Cardinality(part(r))
      BY <3>6, <3>7
    <3>9. Cardinality(part(s)) = f[some(s)] + Cardinality(part(r))
      BY <1>3, <3>4, <3>5, <3>7
    <3>10. size[s] = f[some(s)] + size[r]
      BY <2>1, <3>4, <3>5, <3>7
    <3>. QED BY <3>4, <3>8, <3>9, <3>10
  <2>. QED BY <2>2
<1>6. PICK size : size = CHOOSE g : IsSum(g, f, T)
  OBVIOUS
<1>7. SumFunction(f) = size[T]
  BY <1>6, SumUnfolds
<1>8. IsSum(size, f, T)
  BY <1>4, <1>6
<1>. QED BY <1>5, <1>7, <1>8
=============================================================================
