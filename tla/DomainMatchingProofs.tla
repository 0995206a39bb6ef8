------------------------ MODULE DomainMatchingProofs ------------------------
(***************************************************************************)
(* Proofs about DomainMatching, for every alphabet, every set of labels,   *)
(* names and rules of any number of labels, every table of applications    *)
(* and every spelling: what the code does with characters is what the      *)
(* labels say.                                                             *)
(*                                                                         *)
(* Three facts carry it: the last dot of a text is where its last label    *)
(* begins, so texts end alike only where their labels do (EndsByLabels);   *)
(* the labels of a text are what stands between its dots (LabelsStand);    *)
(* and normalise undoes what a spelling did to a text (SpelledIsRead).     *)
(* Each is an induction on the number of labels (AppendInduction).         *)
(***************************************************************************)
EXTENDS DomainMatching, SequenceLemmas

-----------------------------------------------------------------------------
(* Least and greatest numbers.                                             *)

\* The least of a set of numbers is what is in it and below the rest.
LEMMA LeastIs ==
  ASSUME NEW S, S \subseteq Nat, NEW m \in S, \A y \in S : m <= y
  PROVE  Min(S) = m
<1>1. PICK k : k = Min(S)
  OBVIOUS
<1>2. k \in S /\ k <= m /\ m <= k
  BY <1>1, Least
<1>3. k \in Nat /\ m \in Nat
  BY <1>2
<1>. QED BY <1>1, <1>2, <1>3

\* The same of the greatest.
LEMMA GreatestIs ==
  ASSUME NEW S, S \subseteq Nat, NEW m \in S, \A y \in S : y <= m
  PROVE  Max(S) = m
<1>1. \E x \in S : \A y \in S : x >= y
  OBVIOUS
<1>2. PICK k : k = Max(S)
  OBVIOUS
<1>3. k \in S /\ \A y \in S : k >= y
  BY <1>1, <1>2, Zenon DEF Max
<1>4. k \in Nat /\ m \in Nat /\ k >= m /\ k <= m
  BY <1>3
<1>. QED BY <1>2, <1>4

-----------------------------------------------------------------------------
(* Suffixes.                                                               *)

\* a is s, of n elements, from behind.
Mirrors(a, s, n) == \A i \in 1 .. n : a[i] = s[n - i + 1]

\* The end of t, of n elements, is s, of m elements.
EndAlike(s, m, t, n) == \A i \in 1 .. m : s[i] = t[n - m + i]

\* Sequences end alike just when their mirrors begin alike.
LEMMA Mirrored ==
  ASSUME NEW m \in Nat, NEW n \in Nat, m <= n, NEW a, NEW b, NEW s, NEW t,
         Mirrors(a, s, m), Mirrors(b, t, n)
  PROVE  BeginAlike(a, b, m) <=> EndAlike(s, m, t, n)
<1>. USE DEF Mirrors, BeginAlike, EndAlike
<1>1. ASSUME \A i \in 1 .. m : a[i] = b[i], NEW i \in 1 .. m PROVE s[i] = t[n - m + i]
  <2>1. PICK j : j = m - i + 1
    OBVIOUS
  <2>2. j \in 1 .. m /\ j \in 1 .. n /\ m - j + 1 = i /\ n - j + 1 = n - m + i
    BY <2>1
  <2>3. a[j] = s[i] /\ b[j] = t[n - m + i] /\ a[j] = b[j]
    BY <1>1, <2>2
  <2>. QED BY <2>3
<1>2. ASSUME \A i \in 1 .. m : s[i] = t[n - m + i], NEW i \in 1 .. m PROVE a[i] = b[i]
  <2>1. PICK j : j = m - i + 1
    OBVIOUS
  <2>2. j \in 1 .. m /\ i \in 1 .. n /\ m - i + 1 = j /\ n - i + 1 = n - m + j
    BY <2>1
  <2>3. a[i] = s[j] /\ b[i] = t[n - m + j] /\ s[j] = t[n - m + j]
    BY <1>2, <2>2
  <2>. QED BY <2>3
<1>. QED BY <1>1, <1>2

\* A beginning is equal to a beginning when they are alike.
LEMMA SubSeqAlike ==
  ASSUME NEW S, NEW a \in Seq(S), NEW b \in Seq(S), NEW m \in Nat, Len(a) = m, m <= Len(b)
  PROVE  SubSeq(a, 1, m) = SubSeq(b, 1, m) <=> BeginAlike(a, b, m)
<1>1. PICK c, d : c = SubSeq(a, 1, m) /\ d = SubSeq(b, 1, m)
  OBVIOUS
<1>2. /\ c \in Seq(S) /\ Len(c) = m /\ \A i \in 1 .. m : c[i] = a[i]
      /\ d \in Seq(S) /\ Len(d) = m /\ \A i \in 1 .. m : d[i] = b[i]
  BY <1>1
<1>3. c = d <=> \A i \in 1 .. m : c[i] = d[i]
  BY <1>2
<1>. QED BY <1>1, <1>2, <1>3 DEF BeginAlike

\* u is s and then t, element by element.
IsConcat(u, s, t) ==
  /\ Len(u) = Len(s) + Len(t)
  /\ \A i \in 1 .. Len(s) : u[i] = s[i]
  /\ \A i \in 1 .. Len(t) : u[Len(s) + i] = t[i]

\* The elements of a concatenation.
LEMMA ConcatAt ==
  ASSUME NEW S, NEW s \in Seq(S), NEW t \in Seq(S)
  PROVE  s \o t \in Seq(S) /\ IsConcat(s \o t, s, t)
BY DEF IsConcat

\* A suffix, from its first element to its last.
LEMMA SuffixAt ==
  ASSUME NEW S, NEW s \in Seq(S), NEW t \in Seq(S)
  PROVE  IsSuffix(s, t) <=> Len(s) <= Len(t) /\ EndAlike(s, Len(s), t, Len(t))
<1>1. PICK m, n : m = Len(s) /\ n = Len(t)
  OBVIOUS
<1>2. PICK a, b : a = Reverse(s) /\ b = Reverse(t)
  OBVIOUS
<1>3. m \in Nat /\ n \in Nat
  BY <1>1
<1>4. /\ a \in Seq(S) /\ Len(a) = m /\ Mirrors(a, s, m)
      /\ b \in Seq(S) /\ Len(b) = n /\ Mirrors(b, t, n)
  BY <1>1, <1>2 DEF Reverse, Mirrors
<1>5. IsSuffix(s, t) <=> m <= n /\ SubSeq(a, 1, m) = SubSeq(b, 1, m)
  BY <1>2, <1>4 DEF IsSuffix, IsPrefix
<1>6. m <= n => (SubSeq(a, 1, m) = SubSeq(b, 1, m) <=> BeginAlike(a, b, m))
  BY <1>3, <1>4, SubSeqAlike
<1>7. m <= n => (BeginAlike(a, b, m) <=> EndAlike(s, m, t, n))
  BY <1>3, <1>4, Mirrored
<1>8. IsSuffix(s, t) <=> m <= n /\ EndAlike(s, m, t, n)
  BY <1>5, <1>6, <1>7
<1>. QED BY <1>1, <1>8, Zenon

\* What has a suffix is something and then the suffix.
LEMMA SuffixSplits ==
  ASSUME NEW S, NEW s \in Seq(S), NEW t \in Seq(S)
  PROVE  IsSuffix(s, t) <=> \E p \in Seq(S) : t = p \o s
<1>1. PICK m, n : m = Len(s) /\ n = Len(t)
  OBVIOUS
<1>2. m \in Nat /\ n \in Nat
  BY <1>1
<1>3. ASSUME IsSuffix(s, t) PROVE \E p \in Seq(S) : t = p \o s
  <2>1. m <= n /\ \A i \in 1 .. m : s[i] = t[n - m + i]
    <3>1. m <= n /\ EndAlike(s, m, t, n)
      BY <1>1, <1>3, SuffixAt
    <3>. QED BY <3>1 DEF EndAlike
  <2>2. PICK k : k = n - m
    OBVIOUS
  <2>3. PICK p : p = SubSeq(t, 1, k)
    OBVIOUS
  <2>4. k \in Nat /\ p \in Seq(S) /\ Len(p) = k /\ \A i \in 1 .. k : p[i] = t[i]
    BY <1>1, <1>2, <2>1, <2>2, <2>3
  <2>5. PICK u : u = p \o s
    OBVIOUS
  <2>6. /\ u \in Seq(S) /\ Len(u) = k + m
        /\ \A i \in 1 .. k : u[i] = p[i]
        /\ \A i \in 1 .. m : u[k + i] = s[i]
    <3>1. u \in Seq(S) /\ IsConcat(u, p, s)
      BY <2>4, <2>5, ConcatAt
    <3>. QED BY <1>1, <2>4, <3>1 DEF IsConcat
  <2>7. ASSUME NEW i \in 1 .. n PROVE u[i] = t[i]
    <3>1. CASE i <= k
      BY <2>4, <2>6, <3>1
    <3>2. CASE i > k
      <4>1. PICK j : j = i - k
        OBVIOUS
      <4>2. j \in 1 .. m /\ i = k + j
        BY <1>2, <2>1, <2>2, <2>4, <3>2, <4>1
      <4>. QED BY <2>1, <2>2, <2>6, <4>2
    <3>. QED BY <2>4, <3>1, <3>2
  <2>8. Len(u) = n
    BY <1>2, <2>1, <2>2, <2>4, <2>6
  <2>9. u = t
    BY <1>1, <2>6, <2>7, <2>8, SeqEqual
  <2>. QED BY <2>4, <2>5, <2>9
<1>4. ASSUME NEW p \in Seq(S), t = p \o s PROVE IsSuffix(s, t)
  <2>1. PICK k : k = Len(p)
    OBVIOUS
  <2>2. n = k + m /\ \A i \in 1 .. m : t[k + i] = s[i]
    <3>1. IsConcat(t, p, s)
      BY <1>4, ConcatAt
    <3>. QED BY <1>1, <2>1, <3>1 DEF IsConcat
  <2>3. k \in Nat /\ m <= n /\ n - m = k
    BY <1>2, <2>1, <2>2
  <2>4. m <= n /\ EndAlike(s, m, t, n)
    BY <2>2, <2>3 DEF EndAlike
  <2>. QED BY <1>1, <2>4, SuffixAt
<1>. QED BY <1>3, <1>4

-----------------------------------------------------------------------------
(* Labels, and dots between them.                                          *)

\* Nothing that normalise changes or that ends a label.
IsLetter(c) == c \in Char /\ c # Dot /\ c # Space /\ c \notin DOMAIN lower_of

\* A label is written in letters.
LEMMA LabelsAreLetters ==
  ASSUME NEW l \in Label
  PROVE  l \in Seq(Char) /\ l # <<>> /\ \A i \in 1 .. Len(l) : IsLetter(l[i])
<1>1. PICK S : S = Char \ ({Dot, Space} \cup DOMAIN lower_of)
  OBVIOUS
<1>2. l \in Seq(S) /\ l # <<>>
  BY <1>1, MatchingAssumption
<1>3. \A i \in 1 .. Len(l) : l[i] \in S
  BY <1>2
<1>4. l \in Seq(Char)
  BY <1>1, <1>2
<1>. QED BY <1>1, <1>2, <1>3, <1>4 DEF IsLetter

\* One more label of a name.
Then(text, l) == text \o (<<Dot>> \o l)

\* u is x, of n characters, a dot, and l, of m characters.
IsThen(u, x, n, l, m) ==
  /\ Len(u) = n + 1 + m
  /\ \A i \in 1 .. n : u[i] = x[i]
  /\ u[n + 1] = Dot
  /\ \A i \in 1 .. m : u[n + 1 + i] = l[i]

\* The characters of one more label.
LEMMA ThenAt ==
  ASSUME NEW x \in Seq(Char), NEW l \in Label
  PROVE  Then(x, l) \in Seq(Char) /\ IsThen(Then(x, l), x, Len(x), l, Len(l))
<1>1. Dot \in Char /\ l \in Seq(Char)
  BY RuleAssumption, LabelsAreLetters
<1>2. PICK d, u : d = <<Dot>> \o l /\ u = Then(x, l)
  OBVIOUS
<1>3. /\ d \in Seq(Char) /\ Len(d) = 1 + Len(l) /\ d[1] = Dot
      /\ \A i \in 1 .. Len(l) : d[1 + i] = l[i]
  BY <1>1, <1>2
<1>4. u = x \o d
  BY <1>2 DEF Then
<1>5. u \in Seq(Char) /\ IsConcat(u, x, d)
  BY <1>3, <1>4, ConcatAt
<1>. USE DEF IsConcat
<1>6. Len(x) \in Nat /\ Len(l) \in Nat
  BY <1>1
<1>7. u[Len(x) + 1] = Dot
  BY <1>3, <1>5, <1>6
<1>8. ASSUME NEW i \in 1 .. Len(l) PROVE u[Len(x) + 1 + i] = l[i]
  <2>1. 1 + i \in 1 .. Len(d) /\ Len(x) + 1 + i = Len(x) + (1 + i)
    BY <1>3, <1>6
  <2>. QED BY <1>3, <1>5, <2>1
<1>9. IsThen(u, x, Len(x), l, Len(l))
  BY <1>3, <1>5, <1>6, <1>7, <1>8 DEF IsThen
<1>. QED BY <1>2, <1>5, <1>9

\* Dotted, label by label.
LEMMA DottedThen ==
  /\ Dotted(<<>>) = <<>>
  /\ \A ls \in Seq(Label) : Dotted(ls) \in Seq(Char)
  /\ \A ls \in Seq(Label), l \in Label : Dotted(Append(ls, l)) = Then(Dotted(ls), l)
<1>. DEFINE Parts(ls) == [k \in DOMAIN ls |-> <<Dot>> \o ls[k]]
<1>1. ASSUME NEW ls \in Seq(Label)
      PROVE  /\ Parts(ls) \in Seq(Seq(Char)) /\ Len(Parts(ls)) = Len(ls)
             /\ \A k \in 1 .. Len(ls) : Parts(ls)[k] = <<Dot>> \o ls[k]
  <2>1. ASSUME NEW k \in DOMAIN ls PROVE <<Dot>> \o ls[k] \in Seq(Char)
    <3>1. ls[k] \in Seq(Char) /\ Dot \in Char
      BY RuleAssumption, LabelsAreLetters
    <3>. QED BY <3>1
  <2>2. Len(ls) \in Nat /\ DOMAIN ls = 1 .. Len(ls)
    OBVIOUS
  <2>. QED BY <2>1, <2>2
<1>2. Dotted(<<>>) = <<>>
  <2>1. Parts(<<>>) = <<>>
    OBVIOUS
  <2>2. FlattenSeq(<<>>) = <<>>
    <3>1. <<>> \in Seq(Seq(Char))
      OBVIOUS
    <3>. QED BY <3>1, FlattenType
  <2>. QED BY <2>1, <2>2 DEF Dotted
<1>3. ASSUME NEW ls \in Seq(Label) PROVE Dotted(ls) \in Seq(Char)
  BY <1>1, FlattenType DEF Dotted
<1>4. ASSUME NEW ls \in Seq(Label), NEW l \in Label
      PROVE  Dotted(Append(ls, l)) = Then(Dotted(ls), l)
  <2>1. PICK n : n = Len(ls)
    OBVIOUS
  <2>2. PICK m : m = n + 1
    OBVIOUS
  <2>3. PICK longer : longer = Append(ls, l)
    OBVIOUS
  <2>4. /\ n \in Nat /\ longer \in Seq(Label) /\ Len(longer) = m
        /\ \A k \in 1 .. n : longer[k] = ls[k]
        /\ longer[m] = l /\ m \in 1 .. m
    BY <2>1, <2>2, <2>3
  <2>5. PICK a, b : a = Parts(ls) /\ b = Parts(longer)
    OBVIOUS
  <2>6. /\ a \in Seq(Seq(Char)) /\ Len(a) = n /\ \A k \in 1 .. n : a[k] = <<Dot>> \o ls[k]
        /\ b \in Seq(Seq(Char)) /\ Len(b) = m /\ \A k \in 1 .. m : b[k] = <<Dot>> \o longer[k]
    BY <1>1, <2>1, <2>4, <2>5
  <2>7. SubSeq(b, 1, n) = a
    <3>1. PICK c : c = SubSeq(b, 1, n)
      OBVIOUS
    <3>2. c \in Seq(Seq(Char)) /\ Len(c) = n /\ \A k \in 1 .. n : c[k] = b[k]
      BY <2>2, <2>4, <2>6, <3>1
    <3>3. ASSUME NEW k \in 1 .. n PROVE b[k] = a[k]
      <4>1. k \in 1 .. m
        BY <2>2, <2>4
      <4>. QED BY <2>4, <2>6, <4>1
    <3>4. c = a
      BY <2>6, <3>2, <3>3, SeqEqual
    <3>. QED BY <3>1, <3>4
  <2>8. FlattenSeq(b) = FlattenSeq(SubSeq(b, 1, n)) \o b[m]
    <3>1. b \in Seq(Seq(Char)) /\ n \in Nat /\ Len(b) = n + 1
      BY <2>2, <2>4, <2>6
    <3>2. FlattenSeq(b) = FlattenSeq(SubSeq(b, 1, n)) \o b[n + 1]
      BY <3>1, FlattenLast
    <3>. QED BY <2>2, <3>2
  <2>9. FlattenSeq(b) = FlattenSeq(a) \o (<<Dot>> \o l)
    BY <2>4, <2>6, <2>7, <2>8
  <2>. QED BY <2>3, <2>5, <2>9 DEF Dotted, Then
<1>. QED BY <1>2, <1>3, <1>4

\* The last dot of a text is where its last label begins.
LEMMA LastDot ==
  ASSUME NEW x \in Seq(Char), NEW y \in Seq(Char), NEW l \in Label, NEW m \in Label,
         Then(x, l) = Then(y, m)
  PROVE  x = y /\ l = m
<1>1. PICK u : u = Then(x, l)
  OBVIOUS
<1>2. PICK a, b, c, d : a = Len(x) /\ b = Len(y) /\ c = Len(l) /\ d = Len(m)
  OBVIOUS
<1>3. /\ a \in Nat /\ b \in Nat /\ c \in Nat /\ d \in Nat
      /\ l \in Seq(Char) /\ m \in Seq(Char)
      /\ \A i \in 1 .. c : l[i] # Dot
      /\ \A i \in 1 .. d : m[i] # Dot
  BY <1>2, LabelsAreLetters DEF IsLetter
<1>4. IsThen(u, x, a, l, c)
  BY <1>1, <1>2, ThenAt
<1>5. IsThen(u, y, b, m, d)
  BY <1>1, <1>2, ThenAt
<1>. USE DEF IsThen
<1>6. ~(a < b)
  <2>. SUFFICES ASSUME a < b PROVE FALSE
    OBVIOUS
  <2>1. PICK i : i = b - a
    OBVIOUS
  <2>2. i \in 1 .. c /\ a + 1 + i = b + 1
    BY <1>3, <1>4, <1>5, <2>1
  <2>3. u[a + 1 + i] = l[i]
    BY <1>4, <2>2
  <2>. QED BY <1>3, <1>5, <2>2, <2>3
<1>7. ~(b < a)
  <2>. SUFFICES ASSUME b < a PROVE FALSE
    OBVIOUS
  <2>1. PICK i : i = a - b
    OBVIOUS
  <2>2. i \in 1 .. d /\ b + 1 + i = a + 1
    BY <1>3, <1>4, <1>5, <2>1
  <2>3. u[b + 1 + i] = m[i]
    BY <1>5, <2>2
  <2>. QED BY <1>3, <1>4, <2>2, <2>3
<1>8. a = b /\ c = d
  BY <1>3, <1>4, <1>5, <1>6, <1>7
<1>9. x = y
  BY <1>2, <1>4, <1>5, <1>8, SeqEqual
<1>10. l = m
  <2>1. \A i \in 1 .. c : l[i] = m[i]
    BY <1>4, <1>5, <1>8
  <2>. QED BY <1>2, <1>3, <1>8, <2>1, SeqEqual
<1>. QED BY <1>9, <1>10

\* A list of n + 1 elements is one of n and a last element.
HasLast(s, S, n) == \E t \in Seq(S), x \in S : s = Append(t, x) /\ Len(t) = n

\* What is not empty has a last element.
LEMMA LastElement ==
  ASSUME NEW S, NEW s \in Seq(S), NEW n \in Nat, Len(s) = n + 1
  PROVE  HasLast(s, S, n)
<1>1. PICK t, x : t = SubSeq(s, 1, n) /\ x = s[n + 1]
  OBVIOUS
<1>2. t \in Seq(S) /\ x \in S /\ Len(t) = n /\ \A i \in 1 .. n : t[i] = s[i]
  BY <1>1
<1>3. PICK u : u = Append(t, x)
  OBVIOUS
<1>4. u \in Seq(S) /\ Len(u) = n + 1 /\ u[n + 1] = x /\ \A i \in 1 .. n : u[i] = t[i]
  BY <1>2, <1>3
<1>5. \A i \in 1 .. n + 1 : u[i] = s[i]
  BY <1>1, <1>2, <1>4
<1>6. u = s
  BY <1>4, <1>5, SeqEqual
<1>. QED BY <1>2, <1>3, <1>6 DEF HasLast

\* It does not matter which two of three are put together first.
Associates(s, t, u) == (s \o t) \o u = s \o (t \o u)

\* It does not, of sequences.
LEMMA Joined ==
  ASSUME NEW S, NEW s \in Seq(S), NEW t \in Seq(S), NEW u \in Seq(S)
  PROVE  Associates(s, t, u)
BY ConcatAssociative, SMTT(60) DEF Associates

\* One more element behind s and t is one more behind t.
EndsAlike(s, t, x) == Append(s \o t, x) = s \o Append(t, x)

\* Appending goes to the end of a concatenation.
LEMMA AppendToEnd ==
  ASSUME NEW S, NEW s \in Seq(S), NEW t \in Seq(S), NEW x \in S
  PROVE  EndsAlike(s, t, x)
<1>0. PICK e : e = <<x>>
  OBVIOUS
<1>1. e \in Seq(S) /\ e = <<x>>
  BY <1>0
<1>2. s \o t \in Seq(S)
  OBVIOUS
<1>3. Append(s \o t, x) = (s \o t) \o e /\ Append(t, x) = t \o e
  BY <1>1, <1>2, AppendIsConcat
<1>4. (s \o t) \o e = s \o (t \o e)
  <2>1. Associates(s, t, e)
    BY <1>1, Joined
  <2>. QED BY <2>1 DEF Associates
<1>. QED BY <1>3, <1>4 DEF EndsAlike

\* Induction over lists, by the last element.
LEMMA AppendInduction ==
  ASSUME NEW S, NEW P, <<>> \in P,
         \A s \in Seq(S), x \in S : s \in P => Append(s, x) \in P
  PROVE  Seq(S) \subseteq P
<1>. DEFINE B == {n \in Nat : \E s \in Seq(S) : Len(s) = n /\ s \notin P}
<1>. SUFFICES ASSUME B # {} PROVE FALSE
  <2>1. \A s \in Seq(S) : Len(s) \in Nat
    OBVIOUS
  <2>. QED BY <2>1
<1>1. PICK n \in Nat : n \in B /\ \A k \in Nat : k < n => k \notin B
  <2>1. B \subseteq Nat
    OBVIOUS
  <2>. HIDE DEF B
  <2>2. PICK n : n = Min(B)
    OBVIOUS
  <2>3. n \in B /\ \A k \in B : n <= k
    BY <2>1, <2>2, Least
  <2>. QED BY <2>1, <2>3
<1>2. PICK s \in Seq(S) : Len(s) = n /\ s \notin P
  BY <1>1
<1>3. n # 0
  BY <1>2
<1>4. PICK k : k = n - 1
  OBVIOUS
<1>5. k \in Nat /\ k < n /\ n = k + 1
  BY <1>1, <1>3, <1>4
<1>6. PICK t \in Seq(S), x \in S : s = Append(t, x) /\ Len(t) = k
  <2>1. HasLast(s, S, k)
    BY <1>2, <1>5, LastElement
  <2>. QED BY <2>1 DEF HasLast
<1>7. t \in P
  BY <1>1, <1>5, <1>6
<1>. QED BY <1>2, <1>6, <1>7

\* p and the labels of b make the labels of a.
Ends(a, b, p) == Dotted(a) = p \o Dotted(b)

\* A name whose text ends with the text of b, dot included, ends with the labels of b.
LEMMA EndsByLabels ==
  ASSUME NEW b \in Seq(Label), NEW a \in Seq(Label), NEW p \in Seq(Char), Ends(a, b, p)
  PROVE  \E u \in Seq(Label) : a = u \o b
<1>. DEFINE Holds(s) == \A t \in Seq(Label), q \in Seq(Char) :
                          Ends(t, s, q) => \E u \in Seq(Label) : t = u \o s
            P == {s \in Seq(Label) : Holds(s)}
<1>1. <<>> \in P
  <2>1. \A t \in Seq(Label) : t = t \o <<>>
    OBVIOUS
  <2>. QED BY <2>1
<1>2. ASSUME NEW c \in Seq(Label), NEW m \in Label, Holds(c) PROVE Holds(Append(c, m))
  <2>. SUFFICES ASSUME NEW t \in Seq(Label), NEW r \in Seq(Char), Ends(t, Append(c, m), r)
                PROVE  \E u \in Seq(Label) : t = u \o Append(c, m)
    OBVIOUS
  <2>1. Dotted(t) = r \o Then(Dotted(c), m) /\ Dotted(c) \in Seq(Char) /\ Dotted(t) \in Seq(Char)
    BY DottedThen DEF Ends
  <2>2. PICK q : q = r \o Dotted(c)
    OBVIOUS
  <2>3. q \in Seq(Char) /\ Dotted(t) = Then(q, m)
    <3>1. PICK x \in Seq(Char), y \in Seq(Char) : x = Dotted(c) /\ y = <<Dot>> \o m
      <4>1. <<Dot>> \o m \in Seq(Char)
        BY RuleAssumption, LabelsAreLetters
      <4>. QED BY <2>1, <4>1
    <3>2. r \o (x \o y) = (r \o x) \o y
      <4>1. Associates(r, x, y)
        BY Joined
      <4>. QED BY <4>1 DEF Associates
    <3>3. r \o x \in Seq(Char)
      OBVIOUS
    <3>. QED BY <2>1, <2>2, <3>1, <3>2, <3>3 DEF Then
  <2>4. t # <<>>
    <3>. SUFFICES ASSUME t = <<>> PROVE FALSE
      OBVIOUS
    <3>1. Len(Then(q, m)) = Len(q) + 1 + Len(m)
      BY <2>3, ThenAt DEF IsThen
    <3>2. Len(q) \in Nat /\ Len(m) \in Nat
      BY <2>3, LabelsAreLetters
    <3>3. Then(q, m) = <<>>
      BY <2>3, DottedThen
    <3>. QED BY <3>1, <3>2, <3>3
  <2>5. PICK d \in Seq(Label), l \in Label : t = Append(d, l)
    <3>1. PICK h : h = Len(t) - 1
      OBVIOUS
    <3>2. h \in Nat /\ Len(t) = h + 1
      BY <2>4, <3>1
    <3>3. HasLast(t, Label, h)
      BY <3>2, LastElement
    <3>. QED BY <3>3 DEF HasLast
  <2>6. Then(Dotted(d), l) = Then(q, m) /\ Dotted(d) \in Seq(Char)
    BY <2>3, <2>5, DottedThen
  <2>7. Dotted(d) = q /\ l = m
    BY <2>3, <2>6, LastDot
  <2>8. PICK u \in Seq(Label) : d = u \o c
    <3>1. Ends(d, c, r)
      BY <2>2, <2>7 DEF Ends
    <3>. QED BY <1>2, <3>1
  <2>9. Append(u \o c, m) = u \o Append(c, m)
    <3>1. EndsAlike(u, c, m)
      BY AppendToEnd
    <3>. QED BY <3>1 DEF EndsAlike
  <2>. QED BY <2>5, <2>7, <2>8, <2>9
<1>3. \A s \in Seq(Label), x \in Label : s \in P => Append(s, x) \in P
  <2>1. \A s \in Seq(Label), x \in Label : Append(s, x) \in Seq(Label)
    OBVIOUS
  <2>. HIDE DEF Holds
  <2>. QED BY <1>2, <2>1
<1>4. Seq(Label) \subseteq P
  <2>. HIDE DEF P
  <2>. QED BY <1>1, <1>3, AppendInduction
<1>5. Holds(b)
  <2>. HIDE DEF Holds
  <2>. QED BY <1>4
<1>. QED BY <1>5

-----------------------------------------------------------------------------
(* Texts.                                                                  *)

\* A dot first, a letter last, and nothing but dots and letters.
Shaped(d) ==
  /\ d[1] = Dot /\ Len(d) > 1 /\ IsLetter(d[Len(d)])
  /\ \A i \in 1 .. Len(d) : d[i] = Dot \/ IsLetter(d[i])

\* One more label keeps that shape,
LEMMA ThenShaped ==
  ASSUME NEW x \in Seq(Char), NEW l \in Label, x = <<>> \/ Shaped(x)
  PROVE  Shaped(Then(x, l))
<1>1. PICK u, n, m : u = Then(x, l) /\ n = Len(x) /\ m = Len(l)
  OBVIOUS
<1>2. n \in Nat /\ m \in Nat /\ m > 0 /\ IsThen(u, x, n, l, m)
  BY <1>1, ThenAt, LabelsAreLetters
<1>3. \A i \in 1 .. m : IsLetter(l[i])
  BY <1>1, LabelsAreLetters
<1>4. /\ Len(u) = n + 1 + m /\ u[n + 1] = Dot
      /\ \A i \in 1 .. n : u[i] = x[i]
      /\ \A i \in 1 .. m : u[n + 1 + i] = l[i]
  BY <1>2 DEF IsThen
<1>5. u[1] = Dot
  BY <1>1, <1>2, <1>4 DEF Shaped
<1>6. IsLetter(u[Len(u)])
  BY <1>2, <1>3, <1>4
<1>7. ASSUME NEW i \in 1 .. Len(u) PROVE u[i] = Dot \/ IsLetter(u[i])
  <2>1. CASE i \in 1 .. n
    BY <1>1, <1>4, <2>1 DEF Shaped
  <2>2. CASE i > n + 1
    <3>1. PICK j : j = i - (n + 1)
      OBVIOUS
    <3>2. j \in 1 .. m /\ i = n + 1 + j
      BY <1>2, <1>4, <2>2, <3>1
    <3>. QED BY <1>3, <1>4, <3>2
  <2>. QED BY <1>2, <1>4, <2>1, <2>2
<1>. QED BY <1>1, <1>2, <1>4, <1>5, <1>6, <1>7 DEF Shaped

\* so every name has it.
LEMMA DottedShaped ==
  ASSUME NEW a \in Seq(Label)
  PROVE  a = <<>> \/ Shaped(Dotted(a))
<1>. DEFINE P == {s \in Seq(Label) : Dotted(s) = <<>> \/ Shaped(Dotted(s))}
<1>1. <<>> \in P
  BY DottedThen
<1>2. ASSUME NEW s \in Seq(Label), NEW l \in Label, s \in P
      PROVE  Append(s, l) \in Seq(Label) /\ Shaped(Dotted(Append(s, l)))
  BY <1>2, DottedThen, ThenShaped
<1>3. Seq(Label) \subseteq P
  <2>1. \A s \in Seq(Label), l \in Label : s \in P => Append(s, l) \in P
    BY <1>2
  <2>. HIDE DEF P
  <2>. QED BY <1>1, <2>1, AppendInduction
<1>4. CASE a # <<>>
  <2>1. PICK h : h = Len(a) - 1
    OBVIOUS
  <2>2. h \in Nat /\ Len(a) = h + 1
    BY <1>4, <2>1
  <2>3. HasLast(a, Label, h)
    BY <2>2, LastElement
  <2>4. PICK d \in Seq(Label), l \in Label : a = Append(d, l)
    BY <2>3 DEF HasLast
  <2>. HIDE DEF P
  <2>. QED BY <1>2, <1>3, <2>4
<1>. QED BY <1>4

\* A text is what stands behind the first dot.
LEMMA TextShaped ==
  ASSUME NEW a \in Seq(Label), a # <<>>, NEW d, d = Dotted(a), NEW t, t = Text(a)
  PROVE  /\ d \in Seq(Char) /\ Shaped(d) /\ t \in Seq(Char) /\ d = <<Dot>> \o t
         /\ Len(d) = Len(t) + 1 /\ \A i \in 1 .. Len(t) : t[i] = d[i + 1]
<1>1. d \in Seq(Char) /\ Shaped(d)
  BY DottedThen, DottedShaped
<1>2. t = Tail(d)
  BY DEF Text
<1>3. d # <<>> /\ d[1] = Dot
  BY <1>1 DEF Shaped
<1>4. t \in Seq(Char) /\ Len(d) = Len(t) + 1 /\ \A i \in 1 .. Len(t) : t[i] = d[i + 1]
  BY <1>1, <1>2, <1>3
<1>5. d = <<Dot>> \o t
  <2>1. PICK e : e = <<Dot>> \o t
    OBVIOUS
  <2>2. /\ e \in Seq(Char) /\ Len(e) = Len(t) + 1 /\ e[1] = Dot
        /\ \A i \in 1 .. Len(t) : e[1 + i] = t[i]
    BY <1>4, <2>1, RuleAssumption
  <2>3. ASSUME NEW i \in 1 .. Len(d) PROVE e[i] = d[i]
    <3>1. CASE i = 1
      BY <1>3, <2>2, <3>1
    <3>2. CASE i # 1
      <4>1. PICK j : j = i - 1
        OBVIOUS
      <4>2. j \in 1 .. Len(t) /\ i = 1 + j /\ i = j + 1
        BY <1>4, <3>2, <4>1
      <4>3. e[i] = t[j] /\ t[j] = d[i]
        BY <1>4, <2>2, <4>2
      <4>. QED BY <4>3
    <3>. QED BY <3>1, <3>2
  <2>4. e = d
    BY <1>1, <1>4, <2>2, <2>3, SeqEqual
  <2>. QED BY <2>1, <2>4
<1>. QED BY <1>1, <1>4, <1>5

\* The labels of a and of b are written one after the other.
LEMMA DottedOfConcat ==
  ASSUME NEW a \in Seq(Label), NEW b \in Seq(Label)
  PROVE  Ends(a \o b, b, Dotted(a))
<1>. DEFINE P == {s \in Seq(Label) : Ends(a \o s, s, Dotted(a))}
<1>1. <<>> \in P
  <2>1. a \o <<>> = a /\ Dotted(a) \in Seq(Char) /\ Dotted(<<>>) = <<>>
    BY DottedThen
  <2>2. Dotted(a) \o <<>> = Dotted(a)
    BY <2>1
  <2>. QED BY <2>1, <2>2 DEF Ends
<1>2. ASSUME NEW s \in Seq(Label), NEW l \in Label, s \in P PROVE Append(s, l) \in P
  <2>1. Append(a \o s, l) = a \o Append(s, l)
    <3>1. EndsAlike(a, s, l)
      BY AppendToEnd
    <3>. QED BY <3>1 DEF EndsAlike
  <2>2. a \o s \in Seq(Label) /\ Append(s, l) \in Seq(Label)
    OBVIOUS
  <2>3. Dotted(Append(a \o s, l)) = Then(Dotted(a) \o Dotted(s), l)
    BY <1>2, <2>2, DottedThen DEF Ends
  <2>4. PICK x \in Seq(Char), y \in Seq(Char), z \in Seq(Char) :
          x = Dotted(a) /\ y = Dotted(s) /\ z = <<Dot>> \o l
    <3>1. <<Dot>> \o l \in Seq(Char)
      BY RuleAssumption, LabelsAreLetters
    <3>. QED BY <3>1, DottedThen
  <2>5. (x \o y) \o z = x \o (y \o z)
    <3>1. Associates(x, y, z)
      BY Joined
    <3>. QED BY <3>1 DEF Associates
  <2>6. Dotted(Append(s, l)) = y \o z
    BY <2>4, DottedThen DEF Then
  <2>7. Dotted(a \o Append(s, l)) = x \o (y \o z)
    BY <2>1, <2>3, <2>4, <2>5 DEF Then
  <2>. QED BY <2>2, <2>4, <2>6, <2>7 DEF Ends
<1>3. Seq(Label) \subseteq P
  <2>1. \A s \in Seq(Label), l \in Label : s \in P => Append(s, l) \in P
    BY <1>2
  <2>. HIDE DEF P
  <2>. QED BY <1>1, <2>1, AppendInduction
<1>. QED BY <1>3

-----------------------------------------------------------------------------
(* One label among others.                                                 *)

\* Behind position i of u, of n characters, stands l, of m characters, and then
\* nothing or a dot.
StandsBehind(i, u, n, l, m) ==
  /\ u[i] = Dot /\ i + m <= n
  /\ \A j \in 1 .. m : u[i + j] = l[j]
  /\ i + m = n \/ u[i + m + 1] = Dot

Stands(u, n, l, m) == \E i \in 1 .. n : StandsBehind(i, u, n, l, m)

\* Two labels of m and of c characters, and a label without a dot.
Same(k, m, l, c) == m = c /\ \A i \in 1 .. m : k[i] = l[i]

NoDot(l, c) == \A i \in 1 .. c : l[i] # Dot

\* A label stands in one more label if it is that label, or in what was there.
LEMMA OneMoreLabel ==
  ASSUME NEW u, NEW x, NEW n \in Nat, NEW k, NEW m \in Nat, IsThen(u, x, n, k, m),
         NEW l, NEW c \in Nat, NoDot(k, m), NoDot(l, c)
  PROVE  Stands(u, n + 1 + m, l, c) <=> Stands(x, n, l, c) \/ Same(k, m, l, c)
<1>. USE DEF NoDot
<1>. PICK N : N = n + 1 + m
  OBVIOUS
<1>1. /\ u[n + 1] = Dot /\ \A i \in 1 .. n : u[i] = x[i]
      /\ \A i \in 1 .. m : u[n + 1 + i] = k[i]
  BY DEF IsThen
<1>2. ASSUME NEW i \in 1 .. n, StandsBehind(i, x, n, l, c) PROVE StandsBehind(i, u, N, l, c)
  <2>1. x[i] = Dot /\ i + c <= n /\ (i + c = n \/ x[i + c + 1] = Dot)
    BY <1>2 DEF StandsBehind
  <2>2. u[i] = Dot /\ i + c <= N
    BY <1>1, <2>1
  <2>3. u[i + c + 1] = Dot
    BY <1>1, <2>1
  <2>4. ASSUME NEW j \in 1 .. c PROVE u[i + j] = l[j]
    <3>1. i + j \in 1 .. n /\ x[i + j] = l[j]
      BY <1>2, <2>1 DEF StandsBehind
    <3>. QED BY <1>1, <3>1
  <2>. QED BY <2>2, <2>3, <2>4 DEF StandsBehind
<1>3. ASSUME m = c, \A i \in 1 .. m : k[i] = l[i] PROVE StandsBehind(n + 1, u, N, l, c)
  <2>1. \A j \in 1 .. c : u[n + 1 + j] = l[j]
    BY <1>1, <1>3
  <2>. QED BY <1>1, <1>3, <2>1 DEF StandsBehind
<1>4. ASSUME NEW i \in 1 .. N, StandsBehind(i, u, N, l, c)
      PROVE  (i \in 1 .. n /\ StandsBehind(i, x, n, l, c))
               \/ (m = c /\ \A j \in 1 .. m : k[j] = l[j])
  <2>1. /\ u[i] = Dot /\ i + c <= N /\ (i + c = N \/ u[i + c + 1] = Dot)
        /\ \A j \in 1 .. c : u[i + j] = l[j]
    BY <1>4 DEF StandsBehind
  <2>2. ~(i > n + 1)
    <3>. SUFFICES ASSUME i > n + 1 PROVE FALSE
      OBVIOUS
    <3>1. PICK j : j = i - (n + 1)
      OBVIOUS
    <3>2. j \in 1 .. m /\ i = n + 1 + j
      BY <3>1
    <3>3. u[n + 1 + j] = k[j] /\ k[j] # Dot
      BY <1>1, <3>2
    <3>. QED BY <2>1, <3>2, <3>3
  <2>3. CASE i = n + 1
    <3>1. c = m
      <4>. SUFFICES ASSUME c < m PROVE FALSE
        BY <2>1, <2>3
      <4>1. PICK j : j = c + 1
        OBVIOUS
      <4>2. j \in 1 .. m /\ i + c + 1 = n + 1 + j /\ i + c # N
        BY <2>3, <4>1
      <4>3. u[n + 1 + j] = k[j] /\ k[j] # Dot
        BY <1>1, <4>2
      <4>. QED BY <2>1, <4>2, <4>3
    <3>2. ASSUME NEW j \in 1 .. m PROVE k[j] = l[j]
      BY <1>1, <2>1, <2>3, <3>1
    <3>. QED BY <3>1, <3>2
  <2>4. CASE i <= n
    <3>1. i + c <= n
      <4>. SUFFICES ASSUME i + c > n PROVE FALSE
        OBVIOUS
      <4>1. PICK j : j = n + 1 - i
        OBVIOUS
      <4>2. j \in 1 .. c /\ i + j = n + 1
        BY <2>4, <4>1
      <4>3. u[i + j] = l[j] /\ l[j] # Dot
        BY <2>1, <4>2
      <4>. QED BY <1>1, <4>2, <4>3
    <3>2. x[i] = Dot /\ (i + c = n \/ x[i + c + 1] = Dot)
      <4>1. i + c # N /\ (i + c = n \/ i + c + 1 \in 1 .. n)
        BY <2>4, <3>1
      <4>. QED BY <1>1, <2>1, <2>4, <4>1
    <3>3. ASSUME NEW j \in 1 .. c PROVE x[i + j] = l[j]
      <4>1. i + j \in 1 .. n
        BY <2>4, <3>1
      <4>. QED BY <1>1, <2>1, <4>1
    <3>. QED BY <2>4, <3>1, <3>2, <3>3 DEF StandsBehind
  <2>. QED BY <2>2, <2>3, <2>4
<1>5. \A i \in 1 .. n : i \in 1 .. N
  OBVIOUS
<1>6. n + 1 \in 1 .. N
  OBVIOUS
<1>7. Stands(x, n, l, c) => Stands(u, N, l, c)
  BY <1>2, <1>5, Zenon DEF Stands
<1>8. m = c /\ (\A i \in 1 .. m : k[i] = l[i]) => Stands(u, N, l, c)
  BY <1>3, <1>6, Zenon DEF Stands
<1>9. Stands(u, N, l, c) => Stands(x, n, l, c) \/ (m = c /\ \A i \in 1 .. m : k[i] = l[i])
  BY <1>4, Zenon DEF Stands
<1>. QED BY <1>7, <1>8, <1>9 DEF Same

\* The labels that stand in a text, dots around them, are the labels of the name.
LEMMA LabelsStand ==
  ASSUME NEW a \in Seq(Label), NEW l \in Label
  PROVE  Stands(Dotted(a), Len(Dotted(a)), l, Len(l)) <=> Contains(a, l)
<1>. DEFINE Agrees(s) == Stands(Dotted(s), Len(Dotted(s)), l, Len(l)) <=> Contains(s, l)
            P == {s \in Seq(Label) : Agrees(s)}
<1>1. <<>> \in P
  <2>1. ~Contains(<<>>, l)
    BY DEF Contains
  <2>2. ~Stands(<<>>, Len(<<>>), l, Len(l))
    BY DEF Stands
  <2>. QED BY <2>1, <2>2, DottedThen
<1>2. ASSUME NEW s \in Seq(Label), NEW k \in Label, Agrees(s) PROVE Agrees(Append(s, k))
  <2>1. PICK u, x : u = Then(Dotted(s), k) /\ x = Dotted(s)
    OBVIOUS
  <2>2. PICK n, m, c : n = Len(x) /\ m = Len(k) /\ c = Len(l)
    OBVIOUS
  <2>3. x \in Seq(Char) /\ k \in Seq(Char) /\ l \in Seq(Char)
        /\ NoDot(k, m) /\ NoDot(l, c)
    BY <2>1, <2>2, DottedThen, LabelsAreLetters DEF IsLetter, NoDot
  <2>4. n \in Nat /\ m \in Nat /\ c \in Nat
    BY <2>2, <2>3
  <2>5. IsThen(u, x, n, k, m) /\ Len(u) = n + 1 + m
    <3>1. IsThen(u, x, n, k, m)
      BY <2>1, <2>2, <2>3, ThenAt
    <3>. QED BY <3>1 DEF IsThen
  <2>6. Stands(u, n + 1 + m, l, c) <=> Stands(x, n, l, c) \/ Same(k, m, l, c)
    BY <2>3, <2>4, <2>5, OneMoreLabel
  <2>7. Same(k, m, l, c) <=> k = l
    <3>1. m = c /\ (\A i \in 1 .. m : k[i] = l[i]) => k = l
      BY <2>2, <2>3, SeqEqual
    <3>2. k = l => m = c /\ \A i \in 1 .. m : k[i] = l[i]
      BY <2>2
    <3>. QED BY <3>1, <3>2 DEF Same
  <2>8. Contains(Append(s, k), l) <=> Contains(s, l) \/ k = l
    <3>1. PICK h, t : h = Len(s) /\ t = Append(s, k)
      OBVIOUS
    <3>2. /\ h \in Nat /\ Len(t) = h + 1 /\ t[h + 1] = k
          /\ \A i \in 1 .. h : t[i] = s[i]
      BY <3>1
    <3>3. (\E i \in 1 .. h + 1 : t[i] = l) <=> (\E i \in 1 .. h : s[i] = l) \/ k = l
      BY <3>2
    <3>. QED BY <3>1, <3>2, <3>3 DEF Contains
  <2>9. Dotted(Append(s, k)) = u
    BY <2>1, DottedThen
  <2>10. Stands(u, Len(u), l, c) <=> Contains(Append(s, k), l)
    <3>1. Stands(x, n, l, c) <=> Contains(s, l)
      BY <1>2, <2>1, <2>2
    <3>. QED BY <2>5, <2>6, <2>7, <2>8, <3>1
  <2>. QED BY <2>2, <2>9, <2>10
<1>3. Seq(Label) \subseteq P
  <2>1. \A s \in Seq(Label), k \in Label : s \in P => Append(s, k) \in P
    <3>1. \A s \in Seq(Label), k \in Label : Append(s, k) \in Seq(Label)
      OBVIOUS
    <3>. HIDE DEF Agrees
    <3>. QED BY <1>2, <3>1
  <2>. HIDE DEF P
  <2>. QED BY <1>1, <2>1, AppendInduction
<1>. QED BY <1>3

\* label in domain.split("."): one of the labels (rule_manager.py:120).
LEMMA LabelOfText ==
  ASSUME NEW a \in Seq(Label), a # <<>>, NEW l \in Label
  PROVE  IsLabelOf(l, Text(a)) <=> Contains(a, l)
<1>1. PICK d, t : d = Dotted(a) /\ t = Text(a)
  OBVIOUS
<1>2. /\ t \in Seq(Char) /\ Len(d) = Len(t) + 1 /\ \A i \in 1 .. Len(t) : t[i] = d[i + 1]
      /\ d[1] = Dot /\ l \in Seq(Char)
  BY <1>1, TextShaped, LabelsAreLetters DEF Shaped
<1>3. PICK n, c : n = Len(t) /\ c = Len(l)
  OBVIOUS
<1>4. n \in Nat /\ c \in Nat /\ Len(d) = n + 1
  BY <1>2, <1>3
<1>5. ASSUME NEW i \in 1 .. n + 1
      PROVE  (/\ i + c - 1 <= n /\ SubSeq(t, i, i + c - 1) = l
              /\ i = 1 \/ t[i - 1] = Dot
              /\ i + c - 1 = n \/ t[i + c - 1 + 1] = Dot)
             <=> StandsBehind(i, d, n + 1, l, c)
  <2>1. i = 1 \/ t[i - 1] = Dot <=> d[i] = Dot
    <3>1. CASE i = 1
      BY <1>2, <3>1
    <3>2. CASE i # 1
      <4>1. PICK j : j = i - 1
        OBVIOUS
      <4>2. j \in 1 .. n /\ i = j + 1
        BY <1>4, <3>2, <4>1
      <4>. QED BY <1>2, <1>3, <3>2, <4>1, <4>2
    <3>. QED BY <3>1, <3>2
  <2>2. i + c - 1 <= n <=> i + c <= n + 1
    BY <1>4
  <2>3. ASSUME i + c <= n + 1
        PROVE  SubSeq(t, i, i + c - 1) = l <=> \A j \in 1 .. c : d[i + j] = l[j]
    <3>1. PICK s : s = SubSeq(t, i, i + c - 1)
      OBVIOUS
    <3>2. s \in Seq(Char) /\ Len(s) = c /\ \A j \in 1 .. c : s[j] = t[i + j - 1]
      BY <1>2, <1>3, <1>4, <2>3, <3>1
    <3>3. \A j \in 1 .. c : s[j] = d[i + j]
      <4>. SUFFICES ASSUME NEW j \in 1 .. c PROVE s[j] = d[i + j]
        OBVIOUS
      <4>1. PICK h : h = i + j - 1
        OBVIOUS
      <4>2. h \in 1 .. n /\ h + 1 = i + j
        BY <1>4, <2>3, <4>1
      <4>3. s[j] = t[h] /\ t[h] = d[h + 1]
        BY <1>2, <1>3, <3>2, <4>1, <4>2
      <4>. QED BY <4>2, <4>3
    <3>4. s = l <=> \A j \in 1 .. c : s[j] = l[j]
      <4>1. (\A j \in 1 .. c : s[j] = l[j]) => s = l
        BY <1>2, <1>3, <3>2, SeqEqual
      <4>. QED BY <4>1
    <3>. QED BY <3>1, <3>3, <3>4
  <2>4. ASSUME i + c <= n + 1
        PROVE  (i + c - 1 = n \/ t[i + c - 1 + 1] = Dot) <=> (i + c = n + 1 \/ d[i + c + 1] = Dot)
    <3>1. PICK h : h = i + c
      OBVIOUS
    <3>2. i + c - 1 + 1 = h /\ (i + c - 1 = n <=> h = n + 1) /\ (h # n + 1 => h \in 1 .. n)
      BY <1>4, <2>4, <3>1
    <3>3. h # n + 1 => t[h] = d[h + 1]
      BY <1>2, <1>3, <3>2
    <3>. QED BY <3>1, <3>2, <3>3
  <2>. QED BY <2>1, <2>2, <2>3, <2>4 DEF StandsBehind
<1>6. IsLabelOf(l, t) <=>
        \E i \in 1 .. n + 1 : /\ i + c - 1 <= n /\ SubSeq(t, i, i + c - 1) = l
                              /\ i = 1 \/ t[i - 1] = Dot
                              /\ i + c - 1 = n \/ t[i + c - 1 + 1] = Dot
  BY <1>3 DEF IsLabelOf
<1>7. IsLabelOf(l, t) <=> Stands(d, n + 1, l, c)
  BY <1>5, <1>6 DEF Stands
<1>. QED BY <1>1, <1>3, <1>4, <1>7, LabelsStand

\* The text of one label is the label.
LEMMA TextOfOne ==
  ASSUME NEW l \in Label
  PROVE  Text(<<l>>) = l
<1>1. l \in Seq(Char) /\ Dot \in Char /\ <<>> \in Seq(Label) /\ <<l>> = Append(<<>>, l)
  BY RuleAssumption, LabelsAreLetters
<1>2. Dotted(<<l>>) = Then(<<>>, l)
  BY <1>1, DottedThen
<1>3. Then(<<>>, l) = <<Dot>> \o l
  BY <1>1 DEF Then
<1>4. PICK e : e = <<Dot>> \o l
  OBVIOUS
<1>5. e \in Seq(Char) /\ Len(e) = 1 + Len(l) /\ \A i \in 1 .. Len(l) : e[1 + i] = l[i]
  BY <1>1, <1>4
<1>6. PICK t : t = Tail(e)
  OBVIOUS
<1>7. t \in Seq(Char) /\ Len(t) = Len(l) /\ \A i \in 1 .. Len(l) : t[i] = e[i + 1]
  BY <1>1, <1>5, <1>6
<1>8. \A i \in 1 .. Len(l) : t[i] = l[i]
  BY <1>1, <1>5, <1>7
<1>9. t = l
  BY <1>1, <1>7, <1>8, SeqEqual
<1>. QED BY <1>2, <1>3, <1>4, <1>6, <1>9 DEF Text

\* "." in rule: there is more than one label (rule_manager.py:119).
LEMMA DotInText ==
  ASSUME NEW a \in Seq(Label), a # <<>>
  PROVE  Contains(Text(a), Dot) <=> Len(a) # 1
<1>1. CASE Len(a) = 1
  <2>1. PICK l : l = a[1]
    OBVIOUS
  <2>2. l \in Label /\ a = <<l>>
    BY <1>1, <2>1
  <2>3. Text(a) = l
    BY <2>2, TextOfOne
  <2>4. \A i \in 1 .. Len(l) : l[i] # Dot
    BY <2>2, LabelsAreLetters DEF IsLetter
  <2>. QED BY <1>1, <2>3, <2>4 DEF Contains
<1>2. CASE Len(a) # 1
  <2>1. PICK h : h = Len(a) - 1
    OBVIOUS
  <2>2. h \in Nat /\ h # 0 /\ Len(a) = h + 1
    BY <1>2, <2>1
  <2>3. HasLast(a, Label, h)
    BY <2>2, LastElement
  <2>4. PICK b \in Seq(Label), l \in Label : a = Append(b, l) /\ Len(b) = h
    BY <2>3 DEF HasLast
  <2>5. PICK x, d, t : x = Dotted(b) /\ d = Dotted(a) /\ t = Text(a)
    OBVIOUS
  <2>6. b # <<>>
    BY <2>2, <2>4
  <2>7. x \in Seq(Char) /\ Shaped(x)
    BY <2>5, <2>6, DottedThen, DottedShaped
  <2>8. d = Then(x, l)
    BY <2>4, <2>5, DottedThen
  <2>9. PICK n : n = Len(x)
    OBVIOUS
  <2>10. n \in Nat /\ n > 1 /\ d[n + 1] = Dot /\ Len(d) >= n + 1
    <3>1. IsThen(d, x, n, l, Len(l)) /\ Len(l) \in Nat
      BY <2>7, <2>8, <2>9, ThenAt, LabelsAreLetters
    <3>. QED BY <2>7, <2>9, <3>1 DEF IsThen, Shaped
  <2>11. t \in Seq(Char) /\ Len(d) = Len(t) + 1 /\ \A i \in 1 .. Len(t) : t[i] = d[i + 1]
    BY <2>5, TextShaped
  <2>12. n \in 1 .. Len(t) /\ t[n] = Dot
    BY <2>10, <2>11
  <2>. QED BY <1>2, <2>5, <2>12 DEF Contains
<1>. QED BY <1>1, <1>2

\* What is behind the first element.
LEMMA TailOfConcat ==
  ASSUME NEW S, NEW e \in Seq(S), Len(e) = 1, NEW s \in Seq(S)
  PROVE  Tail(e \o s) = s
<1>1. PICK u, t : u = e \o s /\ t = Tail(u)
  OBVIOUS
<1>2. u \in Seq(S) /\ IsConcat(u, e, s)
  BY <1>1, ConcatAt
<1>. USE DEF IsConcat
<1>3. t \in Seq(S) /\ Len(t) = Len(s) /\ \A i \in 1 .. Len(s) : t[i] = u[i + 1]
  BY <1>1, <1>2
<1>4. \A i \in 1 .. Len(s) : t[i] = s[i]
  BY <1>2, <1>3
<1>5. t = s
  BY <1>3, <1>4, SeqEqual
<1>. QED BY <1>1, <1>5

\* domain == rule or domain.endswith("." + rule): the labels of rule end those of
\* domain (rule_manager.py:89, 125).
LEMMA UnderByLabels ==
  ASSUME NEW a \in Seq(Label), a # <<>>, NEW b \in Seq(Label), b # <<>>
  PROVE  IsOrIsUnder(Text(a), Text(b)) <=> IsSuffix(b, a)
<1>1. PICK s, t, x, y : s = Text(a) /\ t = Text(b) /\ x = Dotted(a) /\ y = Dotted(b)
  OBVIOUS
<1>2. /\ s \in Seq(Char) /\ t \in Seq(Char) /\ x \in Seq(Char) /\ y \in Seq(Char)
      /\ x = <<Dot>> \o s /\ y = <<Dot>> \o t
  BY <1>1, TextShaped
<1>3. PICK e : e = <<Dot>>
  OBVIOUS
<1>4. e \in Seq(Char) /\ x = e \o s /\ y = e \o t
  BY <1>2, <1>3, RuleAssumption
<1>5. IsOrIsUnder(s, t) <=> s = t \/ \E p \in Seq(Char) : s = p \o y
  <2>1. IsSuffix(y, s) <=> \E p \in Seq(Char) : s = p \o y
    <3>1. s \in Seq(Char) /\ y \in Seq(Char)
      BY <1>2
    <3>. QED BY <3>1, SuffixSplits, Zenon
  <2>. QED BY <1>2, <2>1 DEF IsOrIsUnder, endswith
<1>6. IsSuffix(b, a) <=> \E u \in Seq(Label) : a = u \o b
  BY SuffixSplits
<1>7. ASSUME s = t PROVE \E u \in Seq(Label) : a = u \o b
  <2>1. x = <<>> \o y /\ <<>> \in Seq(Char)
    BY <1>2, <1>7
  <2>2. Ends(a, b, <<>>)
    BY <1>1, <2>1 DEF Ends
  <2>. QED BY <2>1, <2>2, EndsByLabels
<1>8. ASSUME NEW p \in Seq(Char), s = p \o y PROVE \E u \in Seq(Label) : a = u \o b
  <2>1. e \o (p \o y) = (e \o p) \o y
    <3>1. Associates(e, p, y)
      BY <1>2, <1>4, Joined
    <3>. QED BY <3>1 DEF Associates
  <2>2. e \o p \in Seq(Char) /\ Ends(a, b, e \o p)
    BY <1>1, <1>4, <1>8, <2>1 DEF Ends
  <2>. QED BY <2>2, EndsByLabels
<1>9. ASSUME NEW u \in Seq(Label), a = u \o b PROVE s = t \/ \E p \in Seq(Char) : s = p \o y
  <2>1. CASE u = <<>>
    BY <1>1, <1>9, <2>1
  <2>2. CASE u # <<>>
    <3>1. PICK v, w : v = Text(u) /\ w = Dotted(u)
      OBVIOUS
    <3>2. v \in Seq(Char) /\ w \in Seq(Char) /\ w = e \o v
      BY <1>3, <2>2, <3>1, TextShaped
    <3>3. x = w \o y
      BY <1>1, <1>9, <3>1, DottedOfConcat DEF Ends
    <3>4. (e \o v) \o y = e \o (v \o y)
      <4>1. Associates(e, v, y)
        BY <1>2, <1>4, <3>2, Joined
      <4>. QED BY <4>1 DEF Associates
    <3>5. PICK q : q = v \o y
      OBVIOUS
    <3>6. q \in Seq(Char) /\ e \o s = e \o q
      BY <1>2, <1>4, <3>2, <3>3, <3>4, <3>5
    <3>7. s = q
      <4>1. Len(e) = 1
        BY <1>3
      <4>2. Tail(e \o s) = s /\ Tail(e \o q) = q
        BY <1>2, <1>4, <3>6, <4>1, TailOfConcat
      <4>. QED BY <3>6, <4>2
    <3>. QED BY <3>2, <3>5, <3>7
  <2>. QED BY <2>1, <2>2
<1>10. s = t \/ (\E p \in Seq(Char) : s = p \o y) <=> \E u \in Seq(Label) : a = u \o b
  BY <1>7, <1>8, <1>9
<1>. QED BY <1>1, <1>5, <1>6, <1>10

\* A text that normalise leaves alone.
Plain(t) ==
  /\ t \in Seq(Char) /\ t # <<>> /\ t[Len(t)] # Dot
  /\ \A i \in 1 .. Len(t) : t[i] # Space /\ t[i] \notin DOMAIN lower_of

\* The text of a name is one.
LEMMA TextsArePlain ==
  ASSUME NEW a \in Seq(Label), a # <<>>
  PROVE  Plain(Text(a))
<1>1. PICK d, t : d = Dotted(a) /\ t = Text(a)
  OBVIOUS
<1>2. /\ Shaped(d) /\ t \in Seq(Char)
      /\ Len(d) = Len(t) + 1 /\ \A i \in 1 .. Len(t) : t[i] = d[i + 1]
  BY <1>1, TextShaped
<1>3. Len(t) \in Nat /\ Len(t) # 0 /\ t[Len(t)] = d[Len(d)]
  BY <1>2 DEF Shaped
<1>4. IsLetter(t[Len(t)]) /\ \A i \in 1 .. Len(t) : t[i] = Dot \/ IsLetter(t[i])
  BY <1>2, <1>3 DEF Shaped
<1>5. Dot # Space /\ Dot \notin DOMAIN lower_of
  BY RuleAssumption
<1>. QED BY <1>1, <1>2, <1>3, <1>4, <1>5 DEF Plain, IsLetter

\* lower undoes capitals, and leaves a text without them alone (rule_manager.py:83).
LEMMA Lowered ==
  ASSUME NEW t, Plain(t)
  PROVE  /\ lower(t) = t
         /\ lower([k \in DOMAIN t |-> Capital(t[k])]) = t
<1>1. t \in Seq(Char) /\ DOMAIN t = 1 .. Len(t)
  BY DEF Plain
<1>2. \A k \in DOMAIN t : t[k] \notin DOMAIN lower_of
  BY <1>1 DEF Plain
<1>3. lower(t) = t
  BY <1>1, <1>2 DEF lower
<1>4. ASSUME NEW k \in DOMAIN t
      PROVE  (IF Capital(t[k]) \in DOMAIN lower_of THEN lower_of[Capital(t[k])]
                                                   ELSE Capital(t[k])) = t[k]
  BY <1>2 DEF Capital
<1>5. PICK u : u = [k \in DOMAIN t |-> Capital(t[k])]
  OBVIOUS
<1>6. DOMAIN u = DOMAIN t /\ \A k \in DOMAIN t : u[k] = Capital(t[k])
  BY <1>5
<1>7. lower(u) = [k \in DOMAIN t |-> t[k]]
  BY <1>4, <1>6 DEF lower
<1>8. t = [k \in DOMAIN t |-> t[k]]
  BY <1>1
<1>. QED BY <1>3, <1>5, <1>7, <1>8

\* Without blanks around it there is nothing to strip.
LEMMA Stripped ==
  ASSUME NEW t \in Seq(Char), t # <<>>, \A i \in 1 .. Len(t) : t[i] # Space
  PROVE  strip(t) = t
<1>1. PICK n : n = Len(t)
  OBVIOUS
<1>2. n \in Nat /\ n >= 1
  BY <1>1
<1>3. Keeps(t, Space) = 1 .. n
  BY <1>1 DEF Keeps
<1>4. Min(1 .. n) = 1 /\ Max(1 .. n) = n
  <2>1. 1 \in 1 .. n /\ n \in 1 .. n /\ 1 .. n \subseteq Nat
    BY <1>2
  <2>2. \A k \in 1 .. n : 1 <= k /\ k <= n
    BY <1>2
  <2>. QED BY <2>1, <2>2, LeastIs, GreatestIs
<1>5. SubSeq(t, 1, n) = t
  BY <1>1, SubSeqFull
<1>. QED BY <1>2, <1>3, <1>4, <1>5 DEF strip

\* A final dot is taken away, and only a final one.
LEMMA RightStripped ==
  ASSUME NEW t, Plain(t)
  PROVE  rstrip(t) = t /\ rstrip(Append(t, Dot)) = t
<1>1. PICK n : n = Len(t)
  OBVIOUS
<1>2. t \in Seq(Char) /\ n \in Nat /\ n >= 1 /\ t[n] # Dot /\ Dot \in Char
  BY <1>1, RuleAssumption DEF Plain
<1>3. ASSUME NEW u \in Seq(Char), Len(u) = n \/ Len(u) = n + 1,
             \A i \in 1 .. n : u[i] = t[i],
             \A i \in 1 .. Len(u) : i > n => u[i] = Dot
      PROVE  rstrip(u) = t
  <2>1. Keeps(u, Dot) \cup {0} \subseteq 0 .. n
    BY <1>2, <1>3 DEF Keeps
  <2>2. n \in Keeps(u, Dot) \cup {0}
    BY <1>2, <1>3 DEF Keeps
  <2>3. PICK K : K = Keeps(u, Dot) \cup {0}
    OBVIOUS
  <2>4. Max(K) = n
    <3>1. K \subseteq Nat /\ n \in K /\ \A k \in K : k <= n
      BY <1>2, <2>1, <2>2, <2>3
    <3>. QED BY <3>1, GreatestIs
  <2>5. PICK v : v = SubSeq(u, 1, n)
    OBVIOUS
  <2>6. v \in Seq(Char) /\ Len(v) = n /\ \A i \in 1 .. n : v[i] = u[i]
    BY <1>2, <1>3, <2>5
  <2>7. v = t
    BY <1>1, <1>2, <1>3, <2>6, SeqEqual
  <2>. QED BY <2>3, <2>4, <2>5, <2>7 DEF rstrip
<1>4. rstrip(t) = t
  BY <1>1, <1>2, <1>3
<1>5. rstrip(Append(t, Dot)) = t
  <2>1. PICK u : u = Append(t, Dot)
    OBVIOUS
  <2>2. u \in Seq(Char) /\ Len(u) = n + 1 /\ u[n + 1] = Dot /\ \A i \in 1 .. n : u[i] = t[i]
    BY <1>1, <1>2, <2>1
  <2>3. \A i \in 1 .. Len(u) : i > n => u[i] = Dot
    BY <1>2, <2>2
  <2>. QED BY <1>3, <2>1, <2>2, <2>3
<1>. QED BY <1>4, <1>5

\* A dot and a blank behind a text, a blank before it.
LEMMA Unpadded ==
  ASSUME NEW t, Plain(t), NEW u, u = <<Space>> \o t \o <<Dot, Space>>
  PROVE  lower(u) = u /\ strip(u) = Append(t, Dot)
<1>1. PICK n : n = Len(t)
  OBVIOUS
<1>2. /\ t \in Seq(Char) /\ n \in Nat /\ n >= 1 /\ {Dot, Space} \subseteq Char /\ Dot # Space
      /\ {Dot, Space} \cap DOMAIN lower_of = {}
  BY <1>1, RuleAssumption DEF Plain
<1>3. /\ u \in Seq(Char) /\ Len(u) = n + 3
      /\ u[1] = Space /\ u[n + 2] = Dot /\ u[n + 3] = Space
      /\ \A i \in 1 .. n : u[1 + i] = t[i]
  <2>1. PICK e, f, v : e = <<Space>> /\ f = <<Dot, Space>> /\ v = e \o t
    OBVIOUS
  <2>2. e \in Seq(Char) /\ Len(e) = 1 /\ e[1] = Space
        /\ f \in Seq(Char) /\ Len(f) = 2 /\ f[1] = Dot /\ f[2] = Space
    BY <1>2, <2>1
  <2>3. v \in Seq(Char) /\ Len(v) = n + 1 /\ v[1] = Space /\ \A i \in 1 .. n : v[1 + i] = t[i]
    BY <1>1, <1>2, <2>1, <2>2
  <2>4. u = v \o f
    BY <2>1
  <2>5. u \in Seq(Char) /\ IsConcat(u, v, f)
    BY <2>2, <2>3, <2>4, ConcatAt
  <2>. USE DEF IsConcat
  <2>6. u[n + 2] = Dot /\ u[n + 3] = Space
    <3>1. 1 \in 1 .. Len(f) /\ 2 \in 1 .. Len(f) /\ Len(v) + 1 = n + 2 /\ Len(v) + 2 = n + 3
      BY <1>2, <2>2, <2>3
    <3>. QED BY <2>2, <2>5, <3>1
  <2>. QED BY <1>2, <2>2, <2>3, <2>5, <2>6
<1>4. ASSUME NEW i \in 1 .. n + 3
      PROVE  i = 1 \/ i = n + 2 \/ i = n + 3 \/ \E j \in 1 .. n : i = 1 + j
  <2>1. PICK j : j = i - 1
    OBVIOUS
  <2>2. i = 1 \/ i = n + 2 \/ i = n + 3 \/ (j \in 1 .. n /\ i = 1 + j)
    BY <1>2, <2>1
  <2>. QED BY <2>2
<1>5. \A j \in 1 .. n : t[j] # Space /\ t[j] \notin DOMAIN lower_of
  BY <1>1 DEF Plain
<1>6. lower(u) = u
  <2>1. \A i \in 1 .. n + 3 : u[i] \notin DOMAIN lower_of
    BY <1>2, <1>3, <1>4, <1>5
  <2>2. DOMAIN u = 1 .. n + 3 /\ u = [i \in DOMAIN u |-> u[i]]
    BY <1>2, <1>3
  <2>. QED BY <2>1, <2>2 DEF lower
<1>7. Keeps(u, Space) = 2 .. n + 2
  <2>1. \A i \in 1 .. n + 3 : u[i] # Space <=> i \in 2 .. n + 2
    BY <1>2, <1>3, <1>4, <1>5
  <2>2. DOMAIN u = 1 .. n + 3 /\ 2 .. n + 2 \subseteq 1 .. n + 3
    BY <1>2, <1>3
  <2>. QED BY <2>1, <2>2 DEF Keeps
<1>8. Min(2 .. n + 2) = 2 /\ Max(2 .. n + 2) = n + 2
  <2>1. 2 \in 2 .. n + 2 /\ n + 2 \in 2 .. n + 2 /\ 2 .. n + 2 \subseteq Nat
    BY <1>2
  <2>2. \A k \in 2 .. n + 2 : 2 <= k /\ k <= n + 2
    BY <1>2
  <2>. QED BY <2>1, <2>2, LeastIs, GreatestIs
<1>9. SubSeq(u, 2, n + 2) = Append(t, Dot)
  <2>1. PICK v, w : v = SubSeq(u, 2, n + 2) /\ w = Append(t, Dot)
    OBVIOUS
  <2>2. v \in Seq(Char) /\ Len(v) = n + 1 /\ \A i \in 1 .. n + 1 : v[i] = u[1 + i]
    BY <1>2, <1>3, <2>1
  <2>3. w \in Seq(Char) /\ Len(w) = n + 1 /\ w[n + 1] = Dot /\ \A i \in 1 .. n : w[i] = t[i]
    BY <1>1, <1>2, <2>1
  <2>4. ASSUME NEW i \in 1 .. n + 1 PROVE v[i] = w[i]
    <3>1. CASE i = n + 1
      BY <1>2, <1>3, <2>2, <2>3, <3>1
    <3>2. CASE i \in 1 .. n
      BY <1>3, <2>2, <2>3, <3>2
    <3>. QED BY <1>2, <3>1, <3>2
  <2>. QED BY <2>1, <2>2, <2>3, <2>4, SeqEqual
<1>10. 2 .. n + 2 # {}
  <2>1. 2 \in 2 .. n + 2
    BY <1>2
  <2>. QED BY <2>1
<1>. QED BY <1>6, <1>7, <1>8, <1>9, <1>10 DEF strip

\* However a text is spelled, the rule manager reads it (rule_manager.py:83-87, 113-116).
LEMMA SpelledIsRead ==
  ASSUME NEW a \in Seq(Label), a # <<>>, NEW how \in Spelling
  PROVE  normalise(Spelled(Text(a), how)) = Text(a) /\ Spelled(Text(a), how) # <<>>
<1>1. PICK t : t = Text(a)
  OBVIOUS
<1>2. Plain(t)
  BY <1>1, TextsArePlain
<1>3. t \in Seq(Char) /\ t # <<>> /\ \A i \in 1 .. Len(t) : t[i] # Space
  BY <1>2 DEF Plain
<1>4. strip(t) = t /\ rstrip(t) = t /\ rstrip(Append(t, Dot)) = t
  BY <1>2, <1>3, Stripped, RightStripped
<1>5. CASE how = "plain"
  <2>1. Spelled(t, how) = t
    BY <1>5 DEF Spelled
  <2>. QED BY <1>1, <1>2, <1>3, <1>4, <2>1, Lowered DEF normalise
<1>6. CASE how = "capitals"
  <2>1. PICK u : u = [k \in DOMAIN t |-> Capital(t[k])]
    OBVIOUS
  <2>2. Spelled(t, how) = u /\ lower(u) = t
    BY <1>2, <1>6, <2>1, Lowered DEF Spelled
  <2>3. u # <<>>
    BY <1>3, <2>1
  <2>. QED BY <1>1, <1>4, <2>2, <2>3 DEF normalise
<1>7. CASE how = "rooted"
  <2>1. PICK u : u = Append(t, Dot)
    OBVIOUS
  <2>2. Spelled(t, how) = u
    BY <1>7, <2>1 DEF Spelled
  <2>3. /\ u \in Seq(Char) /\ u # <<>> /\ Len(u) = Len(t) + 1 /\ u[Len(t) + 1] = Dot
        /\ \A i \in 1 .. Len(t) : u[i] = t[i]
    <3>1. t \in Seq(Char) /\ Dot \in Char
      BY <1>3, RuleAssumption
    <3>. QED BY <2>1, <3>1
  <2>4. Dot # Space /\ Dot \notin DOMAIN lower_of
    BY RuleAssumption
  <2>5. \A i \in 1 .. Len(u) : u[i] # Space /\ u[i] \notin DOMAIN lower_of
    BY <1>2, <2>3, <2>4 DEF Plain
  <2>6. lower(u) = u
    BY <2>3, <2>5 DEF lower
  <2>7. strip(u) = u
    BY <2>3, <2>5, Stripped
  <2>. QED BY <1>1, <1>4, <2>1, <2>2, <2>3, <2>6, <2>7 DEF normalise
<1>8. CASE how = "padded"
  <2>1. PICK u : u = <<Space>> \o t \o <<Dot, Space>>
    OBVIOUS
  <2>2. Spelled(t, how) = u
    BY <1>8, <2>1 DEF Spelled
  <2>3. lower(u) = u /\ strip(u) = Append(t, Dot)
    BY <1>2, <2>1, Unpadded
  <2>4. u # <<>>
    <3>1. Len(<<Dot, Space>>) = 2 /\ <<Space>> \o t \in Seq(Char) /\ <<Dot, Space>> \in Seq(Char)
      BY <1>3, RuleAssumption
    <3>. QED BY <2>1, <3>1, ConcatEqualIffEmpty
  <2>. QED BY <1>1, <1>4, <2>2, <2>3, <2>4 DEF normalise
<1>. QED BY <1>5, <1>6, <1>7, <1>8 DEF Spelling

-----------------------------------------------------------------------------
(* The answers.                                                            *)

\* What the labels say of a name and a rule.
RuleMeets(a, b) == IF Len(b) = 1 THEN Contains(a, b[1]) ELSE IsSuffix(b, a)

\* The code asks just that of their texts (rule_manager.py:118-123),
LEMMA MatchesByLabels ==
  ASSUME NEW a \in Seq(Label), a # <<>>, NEW b \in Seq(Label), b # <<>>
  PROVE  MatchesRule(Text(a), Text(b)) <=> RuleMeets(a, b)
<1>1. CASE Len(b) = 1
  <2>1. PICK l : l = b[1]
    OBVIOUS
  <2>2. l \in Label /\ b = <<l>>
    BY <1>1, <2>1
  <2>3. Text(b) = l
    BY <2>2, TextOfOne
  <2>4. ~Contains(Text(b), Dot)
    BY <1>1, DotInText
  <2>5. IsLabelOf(l, Text(a)) <=> Contains(a, l)
    BY <2>2, LabelOfText
  <2>. QED BY <1>1, <2>1, <2>3, <2>4, <2>5 DEF MatchesRule, RuleMeets
<1>2. CASE Len(b) # 1
  <2>1. Contains(Text(b), Dot)
    BY <1>2, DotInText
  <2>. QED BY <1>2, <2>1, UnderByLabels DEF MatchesRule, RuleMeets
<1>. QED BY <1>1, <1>2

\* and of whatever spells them (rule_manager.py:107-127).
LEMMA BlocksByLabels ==
  ASSUME NEW a \in Seq(Label), a # <<>>, NEW b \in Name, b \in Seq(Label), b # <<>>,
         NEW how \in Spelling, NEW as \in Spelling
  PROVE  is_domain_blocked(New({}, {}, {Spelled(Text(b), as)}), Spelled(Text(a), how))
           <=> RuleMeets(a, b)
<1>1. PICK name, text, rm : /\ name = Spelled(Text(a), how) /\ text = Spelled(Text(b), as)
                            /\ rm = New({}, {}, {text})
  OBVIOUS
<1>2. name # <<>> /\ normalise(name) = Text(a) /\ normalise(text) = Text(b)
  BY <1>1, SpelledIsRead
<1>3. {text} # None
  BY <1>1, MatchingAssumption
<1>4. rm.blocked_domains = {text}
  BY <1>1, <1>3 DEF New, Given
<1>5. is_domain_blocked(rm, name) <=> MatchesRule(Text(a), Text(b))
  BY <1>2, <1>4 DEF is_domain_blocked
<1>. QED BY <1>1, <1>5, MatchesByLabels

\* What the labels say of a name and the table of applications.
AppOf(a) ==
  LET hits == {k \in DOMAIN Applications : IsSuffix(Applications[k].labels, a)}
  IN  IF hits = {} THEN UNKNOWN ELSE Applications[Min(hits)].app

\* The code finds just that, however the name is spelled (rule_manager.py:73-91).
LEMMA ClassifiesByLabels ==
  ASSUME NEW a \in Seq(Label), a # <<>>, NEW how \in Spelling
  PROVE  classify_domain(Spelled(Text(a), how)) = AppOf(a)
<1>1. PICK name : name = Spelled(Text(a), how)
  OBVIOUS
<1>2. name # <<>> /\ normalise(name) = Text(a)
  BY <1>1, SpelledIsRead
<1>. DEFINE found == {k \in DOMAIN domain_rules :
                        IsOrIsUnder(normalise(name), normalise(domain_rules[k].domain))}
            hits == {k \in DOMAIN Applications : IsSuffix(Applications[k].labels, a)}
<1>3. /\ DOMAIN domain_rules = DOMAIN Applications
      /\ \A k \in DOMAIN Applications : /\ domain_rules[k].domain = Text(Applications[k].labels)
                                        /\ domain_rules[k].app = Applications[k].app
  BY MatchingAssumption
<1>4. ASSUME NEW k \in DOMAIN Applications
      PROVE  Applications[k].labels \in Seq(Label) /\ Applications[k].labels # <<>>
  <2>1. PICK R : R = [labels : Seq(Label) \ {<<>>}, app : AppType]
    OBVIOUS
  <2>2. Applications \in Seq(R)
    BY <2>1, MatchingAssumption
  <2>3. Applications[k] \in R
    BY <2>2
  <2>. QED BY <2>1, <2>3
<1>5. ASSUME NEW k \in DOMAIN Applications
      PROVE  IsOrIsUnder(normalise(name), normalise(domain_rules[k].domain))
               <=> IsSuffix(Applications[k].labels, a)
  <2>1. PICK b : b = Applications[k].labels
    OBVIOUS
  <2>2. b \in Seq(Label) /\ b # <<>>
    BY <1>4, <2>1
  <2>3. normalise(Text(b)) = Text(b)
    <3>1. "plain" \in Spelling /\ Spelled(Text(b), "plain") = Text(b)
      BY DEF Spelling, Spelled
    <3>. QED BY <2>2, <3>1, SpelledIsRead
  <2>4. IsOrIsUnder(Text(a), Text(b)) <=> IsSuffix(b, a)
    BY <2>2, UnderByLabels
  <2>. QED BY <1>2, <1>3, <2>1, <2>3, <2>4
<1>6. found = hits
  BY <1>3, <1>5
<1>7. classify_domain(name) = IF found = {} THEN UNKNOWN ELSE domain_rules[Min(found)].app
  BY <1>2 DEF classify_domain
<1>8. AppOf(a) = IF hits = {} THEN UNKNOWN ELSE Applications[Min(hits)].app
  BY DEF AppOf
<1>9. hits # {} => Min(hits) \in DOMAIN Applications
  <2>1. hits \subseteq Nat /\ hits \subseteq DOMAIN Applications
    BY MatchingAssumption
  <2>. HIDE DEF hits
  <2>. QED BY <2>1, Least
<1>. HIDE DEF found, hits
<1>. QED BY <1>1, <1>3, <1>6, <1>7, <1>8, <1>9

-----------------------------------------------------------------------------
(* Theorems.                                                               *)

\* A question about one name and one rule, and the answer that the labels give.
Inv ==
  /\ labels \in Name /\ rule \in Name
  /\ name_spelling \in Spelling /\ rule_spelling \in Spelling
  /\ BlockedByLabels /\ ClassifiedByLabels

\* A name has labels, and at least one.
LEMMA NamesAreLists == \A a \in Name : a \in Seq(Label) /\ a # <<>>
<1>. SUFFICES ASSUME NEW a \in Name PROVE a \in Seq(Label) /\ a # <<>>
  OBVIOUS
<1>1. a # <<>> /\ a \in UNION {[1 .. m -> Label] : m \in 0 .. MaxLabels}
  BY DEF Name, BoundedSeq, SeqOf
<1>2. PICK m \in 0 .. MaxLabels : a \in [1 .. m -> Label]
  BY <1>1
<1>3. m \in Nat
  BY MatchingAssumption
<1>. QED BY <1>1, <1>2, <1>3

\* The one step that matters: asking.
LEMMA AskAnswers == Inv /\ Ask => Inv'
<1>. SUFFICES ASSUME Inv, Ask PROVE Inv'
  OBVIOUS
<1>1. /\ labels \in Name /\ rule \in Name
      /\ name_spelling \in Spelling /\ rule_spelling \in Spelling
      /\ labels \in Seq(Label) /\ labels # <<>> /\ rule \in Seq(Label) /\ rule # <<>>
  BY NamesAreLists DEF Inv
<1>2. PICK name, rm : /\ name = Spelled(Text(labels), name_spelling)
                      /\ rm = New({}, {}, {Spelled(Text(rule), rule_spelling)})
  OBVIOUS
<1>3. /\ answer' = [app |-> classify_domain(name), blocked |-> is_domain_blocked(rm, name)]
      /\ UNCHANGED <<labels, rule, name_spelling, rule_spelling>>
  BY <1>2 DEF Ask
<1>4. answer'.app = AppOf(labels)
  <2>1. classify_domain(name) = AppOf(labels)
    BY <1>1, <1>2, ClassifiesByLabels
  <2>. QED BY <1>3, <2>1
<1>5. answer'.blocked <=> RuleMeets(labels, rule)
  <2>1. is_domain_blocked(rm, name) <=> RuleMeets(labels, rule)
    BY <1>1, <1>2, BlocksByLabels
  <2>. QED BY <1>3, <2>1
<1>6. BlockedByLabels'
  BY <1>3, <1>5 DEF BlockedByLabels, RuleMeets
<1>7. ClassifiedByLabels'
  BY <1>3, <1>4 DEF ClassifiedByLabels, AppOf
<1>. QED BY <1>1, <1>3, <1>6, <1>7 DEF Inv

\* So it is in every state.
LEMMA Invariance == Spec => []Inv
<1>1. Init => Inv
  BY DEF Init, Inv, BlockedByLabels, ClassifiedByLabels
<1>2. Inv /\ [Next]_vars => Inv'
  <2>1. Inv /\ UNCHANGED vars => Inv'
    BY DEF vars, Inv, BlockedByLabels, ClassifiedByLabels
  <2>. QED BY <2>1, AskAnswers DEF Next, Asked
<1>. QED BY <1>1, <1>2, PTL DEF Spec

\* A blocked domain blocks itself and what is under it, a blocked label the names
\* that have it, and nothing else that merely shares letters with them, whatever
\* the case, the final dot and the blanks (rule_manager.py:107-127).
THEOREM Blocked == Spec => []BlockedByLabels
<1>1. Inv => BlockedByLabels
  BY DEF Inv
<1>. QED BY <1>1, Invariance, PTL

\* The application of a name is that of the first domain of the table that it is
\* or is under, and UNKNOWN without one (rule_manager.py:73-91).
THEOREM Classified == Spec => []ClassifiedByLabels
<1>1. Inv => ClassifiedByLabels
  BY DEF Inv
<1>. QED BY <1>1, Invariance, PTL
=============================================================================
