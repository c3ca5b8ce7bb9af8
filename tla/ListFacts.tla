------------------------------- MODULE ListFacts -------------------------------
(***************************************************************************)
(* What a filtered list is.  Everything follows from FilteredIndex, proved *)
(* by induction on the length of the list: Induct, in turn, follows from   *)
(* the well-foundedness of the natural numbers.                            *)
(***************************************************************************)
EXTENDS Lists, FiniteSets, Functions, FiniteSetTheorems, WellFoundedInduction, TLAPS

LEMMA Least ==
    ASSUME NEW T \in SUBSET Nat, T # {}
    PROVE  \E n \in T : \A m \in T : n <= m
<1> DEFINE R == {ss \in Nat \X Nat : ss[1] < ss[2]}
<1>1. IsWellFoundedOn(R, Nat)
  BY NatLessThanWellFounded DEF OpToRel
<1>2. \E x \in T : \A y \in T : ~(<<y, x>> \in R)
  <2> HIDE DEF R
  <2> QED
    BY <1>1, WFMin
<1>3. PICK x \in T : \A y \in T : ~(<<y, x>> \in R)
  BY <1>2
<1>4. ASSUME NEW y \in T
      PROVE  x <= y
  <2>1. x \in Nat /\ y \in Nat
    OBVIOUS
  <2>2. ~(y < x)
    BY <1>3, <2>1
  <2> QED
    BY <2>1, <2>2
<1> QED
  BY <1>4

LEMMA Induct ==
    ASSUME NEW S, 0 \in S, \A n \in Nat : n \in S => n + 1 \in S
    PROVE  Nat \subseteq S
<1> SUFFICES ASSUME Nat \ S # {} PROVE FALSE
  OBVIOUS
<1>1. PICK n \in Nat \ S : \A m \in Nat \ S : n <= m
  <2>1. Nat \ S \in SUBSET Nat
    OBVIOUS
  <2> QED
    BY <2>1, Least
<1>2. n # 0 /\ n - 1 \in Nat /\ (n - 1) + 1 = n
  OBVIOUS
<1>3. n - 1 \in S
  BY <1>1, <1>2
<1> QED
  BY <1>2, <1>3

-------------------------------------------------------------------------------
\* The function that Filtered evaluates, up to any position of the list.
Prefixes(s, kept) ==
    CHOOSE f : f = [k \in 0..Len(s) |->
        IF k = 0 THEN <<>>
        ELSE IF s[k] \in kept THEN Append(f[k - 1], s[k]) ELSE f[k - 1]]

LEMMA FilteredIsPrefix ==
    \A s, kept : Filtered(s, kept) = Prefixes(s, kept)[Len(s)]
BY DEF Filtered, Prefixes

\* h lists the positions of s, up to the n-th, whose elements are kept.
Picks(h, res, s, kept, n) ==
    /\ h \in [1..Len(res) -> 1..n]
    /\ \A i, j \in 1..Len(res) : i < j => h[i] < h[j]
    /\ \A i \in 1..Len(res) : res[i] = s[h[i]] /\ s[h[i]] \in kept
    /\ \A k \in 1..n : s[k] \in kept => \E i \in 1..Len(res) : h[i] = k

Longer(f, s, kept, k) ==
    f[k] = IF s[k] \in kept THEN Append(f[k - 1], s[k]) ELSE f[k - 1]

LEMMA PrefixesExist ==
    ASSUME NEW T, NEW s \in Seq(T), NEW kept
    PROVE  /\ Prefixes(s, kept) \in [0..Len(s) -> Seq(T)]
           /\ Prefixes(s, kept)[0] = <<>>
           /\ \A k \in 1..Len(s) : Longer(Prefixes(s, kept), s, kept, k)
<1> DEFINE Good(f, n) == /\ f \in [0..n -> Seq(T)] /\ f[0] = <<>>
                         /\ \A k \in 1..n : Longer(f, s, kept, k)
           S == {n \in Nat : n <= Len(s) => \E f : Good(f, n)}
<1>1. Len(s) \in Nat /\ \A k \in 1..Len(s) : s[k] \in T
  OBVIOUS
<1>2. 0 \in S
  <2> DEFINE f == [k \in {0} |-> <<>>]
  <2>1. 0..0 = {0} /\ 1..0 = {}
    OBVIOUS
  <2>2. f \in [0..0 -> Seq(T)] /\ f[0] = <<>>
    BY <2>1
  <2> HIDE DEF f
  <2>3. Good(f, 0)
    BY <2>1, <2>2
  <2> QED
    BY <2>3
<1>3. ASSUME NEW n \in Nat, \E f : Good(f, n), n + 1 <= Len(s)
      PROVE  \E g : Good(g, n + 1)
  <2>1. PICK f : Good(f, n)
    <3> HIDE DEF Good
    <3> QED
      BY <1>3
  <2>2. n + 1 \in 1..Len(s) /\ n \in 0..n
    BY <1>1, <1>3
  <2> DEFINE last == IF s[n + 1] \in kept THEN Append(f[n], s[n + 1]) ELSE f[n]
             g == [k \in 0..n + 1 |-> IF k = n + 1 THEN last ELSE f[k]]
  <2>3. last \in Seq(T)
    BY <1>1, <2>1, <2>2
  <2> HIDE DEF last
  <2>4. \A k \in 0..n + 1 : k = n + 1 \/ k \in 0..n
    OBVIOUS
  <2>5. g \in [0..n + 1 -> Seq(T)] /\ g[0] = <<>>
    BY <2>1, <2>3, <2>4
  <2>6. \A k \in 0..n : g[k] = f[k]
    OBVIOUS
  <2>7. g[n + 1] = last
    OBVIOUS
  <2> HIDE DEF g
  <2>8. ASSUME NEW k \in 1..n + 1
        PROVE  Longer(g, s, kept, k)
    <3>1. CASE k = n + 1
      <4>1. g[n] = f[n] /\ (n + 1) - 1 = n
        BY <2>6
      <4> QED
        BY <2>7, <3>1, <4>1 DEF Longer, last
    <3>2. CASE k # n + 1
      <4>1. k \in 1..n /\ k \in 0..n /\ k - 1 \in 0..n
        BY <3>2
      <4>2. Longer(f, s, kept, k) /\ g[k] = f[k] /\ g[k - 1] = f[k - 1]
        BY <2>1, <2>6, <4>1
      <4> QED
        BY <4>2 DEF Longer
    <3> QED
      BY <3>1, <3>2
  <2>9. Good(g, n + 1)
    BY <2>5, <2>8
  <2> QED
    BY <2>9
<1>4. ASSUME NEW n \in Nat, n \in S
      PROVE  n + 1 \in S
  <2> HIDE DEF Good
  <2>1. n + 1 <= Len(s) => n <= Len(s)
    BY <1>1
  <2> QED
    BY <1>3, <1>4, <2>1
<1>5. Len(s) \in S
  <2> HIDE DEF S
  <2>1. Nat \subseteq S
    BY <1>2, <1>4, Induct
  <2> QED
    BY <1>1, <2>1
<1>6. PICK f : Good(f, Len(s))
  BY <1>1, <1>5
<1> DEFINE Body(g) == [k \in 0..Len(s) |->
        IF k = 0 THEN <<>>
        ELSE IF s[k] \in kept THEN Append(g[k - 1], s[k]) ELSE g[k - 1]]
<1>7. f = Body(f)
  <2>1. f = [k \in 0..Len(s) |-> f[k]]
    BY <1>6
  <2>2. ASSUME NEW k \in 0..Len(s)
        PROVE  f[k] = Body(f)[k]
    <3>1. CASE k = 0
      BY <1>6, <3>1
    <3>2. CASE k # 0
      <4>1. k \in 1..Len(s)
        BY <1>1, <3>2
      <4>2. Longer(f, s, kept, k)
        BY <1>6, <4>1
      <4> QED
        BY <3>2, <4>2 DEF Longer
    <3> QED
      BY <3>1, <3>2
  <2>3. Body(f) = [k \in 0..Len(s) |-> Body(f)[k]]
    OBVIOUS
  <2> HIDE DEF Body
  <2> QED
    BY <2>1, <2>2, <2>3
<1> DEFINE p == Prefixes(s, kept)
<1>8. p = Body(p)
  BY <1>7 DEF Prefixes
<1>9. p[0] = <<>> /\ \A k \in 1..Len(s) : Longer(p, s, kept, k)
  <2>1. 0 \in 0..Len(s)
    BY <1>1
  <2>2. p[0] = Body(p)[0] /\ \A k \in 1..Len(s) : p[k] = Body(p)[k]
    BY <1>8
  <2> HIDE DEF p
  <2>3. Body(p)[0] = <<>>
    BY <2>1
  <2>4. ASSUME NEW k \in 1..Len(s)
        PROVE  Longer(p, s, kept, k)
    <3>1. k \in 0..Len(s) /\ k # 0
      BY <1>1
    <3> QED
      BY <2>2, <3>1 DEF Longer
  <2> QED
    BY <2>2, <2>3, <2>4
<1>10. p \in [0..Len(s) -> Seq(T)]
  <2> DEFINE U == {n \in Nat : n <= Len(s) => p[n] \in Seq(T)}
  <2>1. 0 \in U
    <3>1. p[0] \in Seq(T)
      BY <1>9
    <3> HIDE DEF p
    <3> QED
      BY <3>1
  <2>2. ASSUME NEW n \in Nat, n \in U
        PROVE  n + 1 \in U
    <3> SUFFICES ASSUME n + 1 <= Len(s) PROVE p[n + 1] \in Seq(T)
      OBVIOUS
    <3>1. n + 1 \in 1..Len(s) /\ (n + 1) - 1 = n /\ n <= Len(s)
      BY <1>1
    <3>2. p[n] \in Seq(T)
      BY <2>2, <3>1
    <3>3. Longer(p, s, kept, n + 1)
      BY <1>9, <3>1
    <3> HIDE DEF p
    <3> QED
      BY <1>1, <3>1, <3>2, <3>3 DEF Longer
  <2>3. Nat \subseteq U
    <3> HIDE DEF U
    <3> QED
      BY <2>1, <2>2, Induct
  <2>4. p = [k \in 0..Len(s) |-> p[k]]
    BY <1>8
  <2>5. \A k \in 0..Len(s) : k \in U
    BY <1>1, <2>3
  <2> HIDE DEF p
  <2> QED
    BY <1>1, <2>4, <2>5
<1> QED
  BY <1>9, <1>10

\* Which elements are kept, and in which order.
LEMMA FilteredIndex ==
    ASSUME NEW T, NEW s \in Seq(T), NEW kept
    PROVE  /\ Filtered(s, kept) \in Seq(T)
           /\ \E h : Picks(h, Filtered(s, kept), s, kept, Len(s))
<1> DEFINE p == Prefixes(s, kept)
           S == {n \in Nat : n <= Len(s) => \E h : Picks(h, p[n], s, kept, n)}
<1>1. Len(s) \in Nat /\ \A k \in 1..Len(s) : s[k] \in T
  OBVIOUS
<1>2. /\ p \in [0..Len(s) -> Seq(T)] /\ p[0] = <<>>
      /\ \A k \in 1..Len(s) : Longer(p, s, kept, k)
  BY PrefixesExist
<1> HIDE DEF p
<1>3. 0 \in S
  <2> DEFINE h == [i \in {} |-> 0]
  <2>1. 1..0 = {} /\ Len(p[0]) = 0
    BY <1>2
  <2>2. h \in [1..Len(p[0]) -> 1..0]
    BY <2>1
  <2> HIDE DEF h
  <2>3. Picks(h, p[0], s, kept, 0)
    BY <2>1, <2>2 DEF Picks
  <2> QED
    BY <2>3
<1>4. ASSUME NEW n \in Nat, n \in S
      PROVE  n + 1 \in S
  <2> SUFFICES ASSUME n + 1 <= Len(s) PROVE \E g : Picks(g, p[n + 1], s, kept, n + 1)
    OBVIOUS
  <2>1. PICK h : Picks(h, p[n], s, kept, n)
    <3>1. n <= Len(s)
      BY <1>1
    <3> QED
      BY <1>4, <3>1
  <2>2. n + 1 \in 1..Len(s) /\ n \in 0..Len(s) /\ (n + 1) - 1 = n
    BY <1>1
  <2>3. p[n] \in Seq(T) /\ Longer(p, s, kept, n + 1)
    BY <1>2, <2>2
  <2> DEFINE m == Len(p[n])
  <2>4. m \in Nat
    BY <2>3
  <2>5. CASE s[n + 1] \notin kept
    <3>1. p[n + 1] = p[n]
      BY <2>2, <2>3, <2>5 DEF Longer
    <3>2. \A k \in 1..n + 1 : s[k] \in kept => k \in 1..n
      BY <2>5
    <3>3. Picks(h, p[n], s, kept, n + 1)
      <4>1. 1..n \subseteq 1..n + 1
        OBVIOUS
      <4> QED
        BY <2>1, <3>2, <4>1 DEF Picks
    <3> QED
      BY <3>1, <3>3
  <2>6. CASE s[n + 1] \in kept
    <3>1. p[n + 1] = Append(p[n], s[n + 1])
      BY <2>2, <2>3, <2>6 DEF Longer
    <3>2. /\ Len(p[n + 1]) = m + 1 /\ p[n + 1][m + 1] = s[n + 1]
          /\ \A i \in 1..m : p[n + 1][i] = p[n][i]
      BY <1>1, <2>2, <2>3, <3>1
    <3> DEFINE g == [i \in 1..m + 1 |-> IF i = m + 1 THEN n + 1 ELSE h[i]]
    <3>3. \A i \in 1..m + 1 : i = m + 1 \/ i \in 1..m
      BY <2>4
    <3>4. /\ h \in [1..m -> 1..n]
          /\ \A i, j \in 1..m : i < j => h[i] < h[j]
          /\ \A i \in 1..m : p[n][i] = s[h[i]] /\ s[h[i]] \in kept
          /\ \A k \in 1..n : s[k] \in kept => \E i \in 1..m : h[i] = k
      BY <2>1 DEF Picks
    <3> HIDE DEF m
    <3>5. /\ g[m + 1] = n + 1
          /\ \A i \in 1..m : g[i] = h[i] /\ h[i] \in 1..n
      BY <2>4, <3>4
    <3>6. g \in [1..m + 1 -> 1..n + 1]
      BY <2>4, <3>3, <3>4
    <3> HIDE DEF g
    <3>7. ASSUME NEW i \in 1..m + 1, NEW j \in 1..m + 1, i < j
          PROVE  g[i] < g[j]
      <4>1. i \in 1..m
        BY <2>4, <3>7
      <4>2. CASE j = m + 1
        BY <3>5, <4>1, <4>2
      <4>3. CASE j \in 1..m
        BY <3>4, <3>5, <3>7, <4>1, <4>3
      <4> QED
        BY <3>3, <4>2, <4>3
    <3>8. ASSUME NEW i \in 1..m + 1
          PROVE  p[n + 1][i] = s[g[i]] /\ s[g[i]] \in kept
      <4>1. CASE i = m + 1
        BY <2>6, <3>2, <3>5, <4>1
      <4>2. CASE i \in 1..m
        BY <3>2, <3>4, <3>5, <4>2
      <4> QED
        BY <3>3, <4>1, <4>2
    <3>9. ASSUME NEW k \in 1..n + 1, s[k] \in kept
          PROVE  \E i \in 1..m + 1 : g[i] = k
      <4>1. CASE k = n + 1
        <5>1. m + 1 \in 1..m + 1
          BY <2>4
        <5> QED
          BY <3>5, <4>1, <5>1
      <4>2. CASE k # n + 1
        <5>1. k \in 1..n
          BY <4>2
        <5>2. PICK i \in 1..m : h[i] = k
          BY <3>4, <3>9, <5>1
        <5>3. i \in 1..m + 1 /\ g[i] = k
          BY <2>4, <3>5, <5>2
        <5> QED
          BY <5>3
      <4> QED
        BY <4>1, <4>2
    <3>10. Picks(g, p[n + 1], s, kept, n + 1)
      BY <3>2, <3>6, <3>7, <3>8, <3>9 DEF Picks
    <3> QED
      BY <3>10
  <2> QED
    BY <2>5, <2>6
<1>5. Len(s) \in S
  <2> HIDE DEF S
  <2>1. Nat \subseteq S
    BY <1>3, <1>4, Induct
  <2> QED
    BY <1>1, <2>1
<1>6. Filtered(s, kept) = p[Len(s)]
  BY FilteredIsPrefix DEF p
<1>7. Filtered(s, kept) \in Seq(T)
  BY <1>1, <1>2, <1>6
<1> QED
  BY <1>1, <1>5, <1>6, <1>7

-------------------------------------------------------------------------------
(* What follows for any list. *)

LEMMA NoneLeft ==
    ASSUME NEW kept
    PROVE  Len(Filtered(<<>>, kept)) = 0
<1>1. Len(<<>>) = 0 /\ <<>> \in Seq({})
  OBVIOUS
<1>2. Filtered(<<>>, kept) = Prefixes(<<>>, kept)[0]
  BY <1>1, FilteredIsPrefix
<1>3. Prefixes(<<>>, kept)[0] = <<>>
  BY <1>1, PrefixesExist
<1> QED
  BY <1>1, <1>2, <1>3

\* A filter keeps what it is told to, all of it, and nothing else.
LEMMA FilteredElements ==
    ASSUME NEW T, NEW s \in Seq(T), NEW kept
    PROVE  /\ Filtered(s, kept) \in Seq(T)
           /\ \A i \in 1..Len(Filtered(s, kept)) :
                 \E k \in 1..Len(s) : Filtered(s, kept)[i] = s[k] /\ s[k] \in kept
           /\ \A k \in 1..Len(s) :
                 s[k] \in kept => \E i \in 1..Len(Filtered(s, kept)) : Filtered(s, kept)[i] = s[k]
<1> DEFINE f == Filtered(s, kept)
<1>1. f \in Seq(T)
  BY FilteredIndex
<1>2. PICK h : Picks(h, f, s, kept, Len(s))
  BY FilteredIndex
<1> HIDE DEF f
<1>3. \A i \in 1..Len(f) : h[i] \in 1..Len(s) /\ f[i] = s[h[i]] /\ s[h[i]] \in kept
  BY <1>2 DEF Picks
<1>4. ASSUME NEW k \in 1..Len(s), s[k] \in kept
      PROVE  \E i \in 1..Len(f) : f[i] = s[k]
  BY <1>2, <1>3, <1>4 DEF Picks
<1> QED
  BY <1>1, <1>3, <1>4 DEF f

\* Elements at different places stay at different places.
LEMMA FilteredApart ==
    ASSUME NEW T, NEW s \in Seq(T), NEW kept,
           NEW i \in 1..Len(Filtered(s, kept)), NEW j \in 1..Len(Filtered(s, kept)), i # j
    PROVE  \E k, l \in 1..Len(s) :
              k # l /\ Filtered(s, kept)[i] = s[k] /\ Filtered(s, kept)[j] = s[l]
<1> DEFINE f == Filtered(s, kept)
<1>1. f \in Seq(T) /\ Len(s) \in Nat
  BY FilteredIndex
<1>2. PICK h : Picks(h, f, s, kept, Len(s))
  BY FilteredIndex
<1> HIDE DEF f
<1>3. /\ h[i] \in 1..Len(s) /\ h[j] \in 1..Len(s)
      /\ f[i] = s[h[i]] /\ f[j] = s[h[j]]
      /\ i < j => h[i] < h[j]
      /\ j < i => h[j] < h[i]
  BY <1>1, <1>2 DEF Picks, f
<1>4. h[i] # h[j]
  BY <1>1, <1>3 DEF f
<1> QED
  BY <1>3, <1>4 DEF f

LEMMA FilteredRange ==
    ASSUME NEW T, NEW s \in Seq(T), NEW kept
    PROVE  Range(Filtered(s, kept)) = Range(s) \cap kept
<1> DEFINE f == Filtered(s, kept)
<1>1. /\ f \in Seq(T)
      /\ \A i \in 1..Len(f) : \E k \in 1..Len(s) : f[i] = s[k] /\ s[k] \in kept
      /\ \A k \in 1..Len(s) : s[k] \in kept => \E i \in 1..Len(f) : f[i] = s[k]
  BY FilteredElements
<1> HIDE DEF f
<1>2. DOMAIN f = 1..Len(f) /\ DOMAIN s = 1..Len(s)
  BY <1>1
<1>3. ASSUME NEW x \in Range(f)
      PROVE  x \in Range(s) /\ x \in kept
  <2>1. PICK i \in 1..Len(f) : x = f[i]
    BY <1>2 DEF Range
  <2>2. PICK k \in 1..Len(s) : f[i] = s[k] /\ s[k] \in kept
    BY <1>1
  <2> QED
    BY <1>2, <2>1, <2>2 DEF Range
<1>4. ASSUME NEW x \in Range(s), x \in kept
      PROVE  x \in Range(f)
  <2>1. PICK k \in 1..Len(s) : x = s[k]
    BY <1>2 DEF Range
  <2>2. PICK i \in 1..Len(f) : f[i] = s[k]
    BY <1>1, <1>4, <2>1
  <2> QED
    BY <1>2, <2>1, <2>2 DEF Range
<1> QED
  BY <1>3, <1>4 DEF f

LEMMA AppendedRange ==
    ASSUME NEW T, NEW s \in Seq(T), NEW e \in T
    PROVE  /\ Append(s, e) \in Seq(T)
           /\ Range(Append(s, e)) = Range(s) \cup {e}
<1>1. /\ Append(s, e) \in Seq(T) /\ Len(Append(s, e)) = Len(s) + 1 /\ Len(s) \in Nat
      /\ \A i \in 1..Len(s) : Append(s, e)[i] = s[i]
      /\ Append(s, e)[Len(s) + 1] = e
  OBVIOUS
<1>2. /\ DOMAIN s = 1..Len(s) /\ DOMAIN Append(s, e) = 1..Len(s) + 1
      /\ 1..Len(s) + 1 = (1..Len(s)) \cup {Len(s) + 1}
  BY <1>1
<1> DEFINE t == Append(s, e)
           m == Len(s)
<1>3. \A x : x \in Range(t) <=> x \in Range(s) \cup {e}
  <2> HIDE DEF t, m
  <2> QED
    BY <1>1, <1>2 DEF Range, t, m
<1> QED
  BY <1>1, <1>3

-------------------------------------------------------------------------------
(* Lists without repetition, as sets. *)

LEMMA ListCount ==
    ASSUME NEW T, NEW s \in Seq(T), \A i, j \in 1..Len(s) : s[i] = s[j] => i = j
    PROVE  IsFiniteSet(Range(s)) /\ Cardinality(Range(s)) = Len(s)
<1>1. Len(s) \in Nat /\ DOMAIN s = 1..Len(s) /\ s = [i \in 1..Len(s) |-> s[i]]
  OBVIOUS
<1>2. s \in Bijection(1..Len(s), Range(s))
  BY <1>1 DEF Bijection, Injection, Surjection, IsInjective, Range
<1>3. ExistsBijection(1..Len(s), Range(s))
  BY <1>2 DEF ExistsBijection
<1> QED
  BY <1>1, <1>3, FS_CountingElements, FS_NatBijection

\* The filter of a list of images is the list of the images of what is filtered.
LEMMA FilteredImages ==
    ASSUME NEW T, NEW U, NEW g \in [T -> U], NEW s \in Seq(T), NEW m \in Seq(U),
           NEW kept, NEW image, Len(m) = Len(s),
           \A k \in 1..Len(s) : m[k] = g[s[k]] /\ (m[k] \in image <=> s[k] \in kept)
    PROVE  /\ Filtered(s, kept) \in Seq(T) /\ Filtered(m, image) \in Seq(U)
           /\ Len(Filtered(m, image)) = Len(Filtered(s, kept))
           /\ \A i \in 1..Len(Filtered(s, kept)) :
                 Filtered(m, image)[i] = g[Filtered(s, kept)[i]]
<1> DEFINE p == Prefixes(s, kept)
           q == Prefixes(m, image)
           Same(x, y) == Len(y) = Len(x) /\ \A i \in 1..Len(x) : y[i] = g[x[i]]
           S == {n \in Nat : n <= Len(s) => Same(p[n], q[n])}
<1>1. /\ p \in [0..Len(s) -> Seq(T)] /\ p[0] = <<>>
      /\ \A k \in 1..Len(s) : Longer(p, s, kept, k)
  BY PrefixesExist
<1>2. /\ q \in [0..Len(s) -> Seq(U)] /\ q[0] = <<>>
      /\ \A k \in 1..Len(s) : Longer(q, m, image, k)
  <2>1. /\ q \in [0..Len(m) -> Seq(U)] /\ q[0] = <<>>
        /\ \A k \in 1..Len(m) : Longer(q, m, image, k)
    BY PrefixesExist
  <2> HIDE DEF q
  <2> QED
    BY <2>1
<1> HIDE DEF p, q
<1>3. Len(s) \in Nat /\ \A k \in 1..Len(s) : s[k] \in T /\ m[k] \in U
  OBVIOUS
<1>4. 0 \in S
  <2>1. Len(p[0]) = 0 /\ Len(q[0]) = 0 /\ 1..0 = {}
    BY <1>1, <1>2
  <2>2. Same(p[0], q[0])
    BY <2>1
  <2> HIDE DEF Same
  <2> QED
    BY <2>2
<1>5. ASSUME NEW n \in Nat, n \in S
      PROVE  n + 1 \in S
  <2> SUFFICES ASSUME n + 1 <= Len(s)
               PROVE  Same(p[n + 1], q[n + 1])
    OBVIOUS
  <2>1. n + 1 \in 1..Len(s) /\ n \in 0..Len(s) /\ (n + 1) - 1 = n /\ n <= Len(s)
    BY <1>3
  <2>2. Same(p[n], q[n])
    <3> HIDE DEF Same
    <3> QED
      BY <1>5, <2>1
  <2>3. /\ p[n] \in Seq(T) /\ Longer(p, s, kept, n + 1)
        /\ q[n] \in Seq(U) /\ Longer(q, m, image, n + 1)
        /\ s[n + 1] \in T /\ m[n + 1] \in U
        /\ m[n + 1] = g[s[n + 1]] /\ (m[n + 1] \in image <=> s[n + 1] \in kept)
    BY <1>1, <1>2, <1>3, <2>1
  <2>4. CASE s[n + 1] \notin kept
    <3>1. p[n + 1] = p[n] /\ q[n + 1] = q[n]
      BY <2>1, <2>3, <2>4 DEF Longer
    <3> HIDE DEF Same
    <3> QED
      BY <2>2, <3>1
  <2>5. CASE s[n + 1] \in kept
    <3>1. p[n + 1] = Append(p[n], s[n + 1]) /\ q[n + 1] = Append(q[n], m[n + 1])
      BY <2>1, <2>3, <2>5 DEF Longer
    <3> DEFINE l == Len(p[n])
    <3>2. l \in Nat /\ Len(q[n]) = l
      BY <2>2, <2>3
    <3>3. /\ Len(p[n + 1]) = l + 1 /\ p[n + 1][l + 1] = s[n + 1]
          /\ \A i \in 1..l : p[n + 1][i] = p[n][i]
      BY <2>3, <3>1
    <3>4. /\ Len(q[n + 1]) = l + 1 /\ q[n + 1][l + 1] = m[n + 1]
          /\ \A i \in 1..l : q[n + 1][i] = q[n][i]
      BY <2>3, <3>1, <3>2
    <3>5. \A i \in 1..l : q[n][i] = g[p[n][i]]
      BY <2>2
    <3> HIDE DEF l
    <3>6. \A i \in 1..l + 1 : i = l + 1 \/ i \in 1..l
      BY <3>2
    <3>7. \A i \in 1..l + 1 : q[n + 1][i] = g[p[n + 1][i]]
      BY <2>3, <3>3, <3>4, <3>5, <3>6
    <3> QED
      BY <3>3, <3>4, <3>7
  <2> QED
    BY <2>4, <2>5
<1>6. Nat \subseteq S
  <2> HIDE DEF S
  <2> QED
    BY <1>4, <1>5, Induct
<1>7. Same(p[Len(s)], q[Len(s)])
  <2> HIDE DEF Same
  <2> QED
    BY <1>3, <1>6
<1>8. p[Len(s)] \in Seq(T) /\ q[Len(s)] \in Seq(U)
  BY <1>1, <1>2, <1>3
<1>9. Filtered(s, kept) = p[Len(s)] /\ Filtered(m, image) = q[Len(s)]
  BY FilteredIsPrefix DEF p, q
<1> QED
  BY <1>7, <1>8, <1>9

\* What is kept depends on the elements alone.
LEMMA FilteredSame ==
    ASSUME NEW T, NEW s \in Seq(T), NEW a, NEW b,
           \A k \in 1..Len(s) : s[k] \in a <=> s[k] \in b
    PROVE  Filtered(s, a) = Filtered(s, b)
<1> DEFINE id == [x \in T |-> x]
           f == Filtered(s, a)
           g == Filtered(s, b)
<1>1. id \in [T -> T] /\ \A k \in 1..Len(s) : s[k] \in T /\ id[s[k]] = s[k]
  OBVIOUS
<1> HIDE DEF id
<1>2. \A k \in 1..Len(s) : s[k] = id[s[k]] /\ (s[k] \in b <=> s[k] \in a)
  BY <1>1
<1>3. /\ f \in Seq(T) /\ g \in Seq(T) /\ Len(g) = Len(f)
      /\ \A i \in 1..Len(f) : g[i] = id[f[i]]
  BY <1>1, <1>2, FilteredImages
<1> HIDE DEF f, g
<1>4. \A i \in 1..Len(f) : f[i] \in T /\ id[f[i]] = f[i]
  BY <1>3 DEF id
<1>5. f = g
  BY <1>3, <1>4
<1> QED
  BY <1>5 DEF f, g

LEMMA Prepended ==
    ASSUME NEW T, NEW e \in T, NEW s \in Seq(T)
    PROVE  /\ <<e>> \o s \in Seq(T) /\ Len(<<e>> \o s) = Len(s) + 1 /\ Len(s) \in Nat
           /\ (<<e>> \o s)[1] = e
           /\ \A k \in 1..Len(s) : (<<e>> \o s)[k + 1] = s[k]
OBVIOUS

LEMMA FilteredPrepended ==
    ASSUME NEW T, NEW e \in T, NEW s \in Seq(T), NEW kept
    PROVE  Filtered(<<e>> \o s, kept) =
               IF e \in kept THEN <<e>> \o Filtered(s, kept) ELSE Filtered(s, kept)
<1> DEFINE t == <<e>> \o s
           p == Prefixes(s, kept)
           q == Prefixes(t, kept)
           first(x) == IF e \in kept THEN <<e>> \o x ELSE x
           S == {n \in Nat : n <= Len(s) => q[n + 1] = first(p[n])}
<1>1. /\ t \in Seq(T) /\ Len(t) = Len(s) + 1 /\ Len(s) \in Nat /\ t[1] = e
      /\ \A k \in 1..Len(s) : t[k + 1] = s[k]
  BY Prepended
<1> HIDE DEF t
<1>2. /\ p \in [0..Len(s) -> Seq(T)] /\ p[0] = <<>>
      /\ \A k \in 1..Len(s) : Longer(p, s, kept, k)
  BY PrefixesExist
<1>3. /\ q \in [0..Len(t) -> Seq(T)] /\ q[0] = <<>>
      /\ \A k \in 1..Len(t) : Longer(q, t, kept, k)
  BY <1>1, PrefixesExist
<1> HIDE DEF p, q
<1>4. 0 \in S
  <2>1. 1 \in 1..Len(t) /\ 1 - 1 = 0 /\ 0 + 1 = 1
    BY <1>1
  <2>2. q[1] = IF e \in kept THEN Append(<<>>, e) ELSE <<>>
    BY <1>1, <1>3, <2>1 DEF Longer
  <2>3. Append(<<>>, e) = <<e>> /\ <<e>> \o <<>> = <<e>>
    OBVIOUS
  <2>4. q[0 + 1] = first(p[0])
    BY <1>2, <2>1, <2>2, <2>3
  <2> HIDE DEF first
  <2> QED
    BY <2>4
<1>5. ASSUME NEW n \in Nat, n \in S
      PROVE  n + 1 \in S
  <2> SUFFICES ASSUME n + 1 <= Len(s)
               PROVE  q[n + 1 + 1] = first(p[n + 1])
    OBVIOUS
  <2>1. /\ n + 1 \in 1..Len(s) /\ n \in 0..Len(s) /\ (n + 1) - 1 = n /\ n <= Len(s)
        /\ n + 1 + 1 \in 1..Len(t) /\ (n + 1 + 1) - 1 = n + 1
    BY <1>1
  <2>2. q[n + 1] = first(p[n])
    <3> HIDE DEF first
    <3> QED
      BY <1>5, <2>1
  <2>3. /\ p[n] \in Seq(T) /\ Longer(p, s, kept, n + 1) /\ s[n + 1] \in T
        /\ Longer(q, t, kept, n + 1 + 1) /\ t[n + 1 + 1] = s[n + 1]
    <3>1. p[n] \in Seq(T) /\ Longer(p, s, kept, n + 1)
      BY <1>2, <2>1
    <3>2. Longer(q, t, kept, n + 1 + 1)
      BY <1>3, <2>1
    <3>3. s[n + 1] \in T
      BY <2>1
    <3>4. t[n + 1 + 1] = s[n + 1]
      BY <1>1, <2>1
    <3> QED
      BY <3>1, <3>2, <3>3, <3>4
  <2>4. <<e>> \o Append(p[n], s[n + 1]) = Append(<<e>> \o p[n], s[n + 1])
    BY <2>3
  <2> QED
    BY <2>1, <2>2, <2>3, <2>4 DEF Longer
<1>6. Nat \subseteq S
  <2> HIDE DEF S
  <2> QED
    BY <1>4, <1>5, Induct
<1>7. q[Len(s) + 1] = first(p[Len(s)])
  <2> HIDE DEF first
  <2> QED
    BY <1>1, <1>6
<1>8. Filtered(s, kept) = p[Len(s)] /\ Filtered(t, kept) = q[Len(s) + 1]
  BY <1>1, FilteredIsPrefix DEF p, q
<1> QED
  BY <1>7, <1>8 DEF t

\* The filter of the head of a list is a head of the filter of the list.
Heads(s, t) == Len(s) <= Len(t) /\ \A i \in 1..Len(s) : s[i] = t[i]

LEMMA HeadIs ==
    ASSUME NEW T, NEW s \in Seq(T), NEW n \in 0..Len(s)
    PROVE  /\ SubSeq(s, 1, n) \in Seq(T) /\ Len(SubSeq(s, 1, n)) = n
           /\ \A k \in 1..n : SubSeq(s, 1, n)[k] = s[k]
OBVIOUS

LEMMA FilteredHead ==
    ASSUME NEW T, NEW s \in Seq(T), NEW n \in 0..Len(s), NEW kept
    PROVE  Heads(Filtered(SubSeq(s, 1, n), kept), Filtered(s, kept))
<1> DEFINE t == SubSeq(s, 1, n)
           p == Prefixes(s, kept)
           q == Prefixes(t, kept)
           S == {k \in Nat : k <= n => q[k] = p[k]}
           U == {k \in Nat : n <= k /\ k <= Len(s) => Heads(p[n], p[k])}
<1>1. /\ t \in Seq(T) /\ Len(t) = n /\ Len(s) \in Nat /\ n \in Nat /\ n <= Len(s)
      /\ \A k \in 1..n : t[k] = s[k]
  BY HeadIs
<1> HIDE DEF t
<1>2. /\ p \in [0..Len(s) -> Seq(T)] /\ p[0] = <<>>
      /\ \A k \in 1..Len(s) : Longer(p, s, kept, k)
  BY PrefixesExist
<1>3. /\ q[0] = <<>> /\ \A k \in 1..n : Longer(q, t, kept, k)
  BY <1>1, PrefixesExist
<1> HIDE DEF p, q
<1>4. 0 \in S
  BY <1>2, <1>3
<1>5. ASSUME NEW k \in Nat, k \in S
      PROVE  k + 1 \in S
  <2> SUFFICES ASSUME k + 1 <= n
               PROVE  q[k + 1] = p[k + 1]
    OBVIOUS
  <2>1. k + 1 \in 1..n /\ k + 1 \in 1..Len(s) /\ (k + 1) - 1 = k /\ k <= n
    BY <1>1
  <2>2. q[k] = p[k]
    BY <1>5, <2>1
  <2> QED
    BY <1>1, <1>2, <1>3, <2>1, <2>2 DEF Longer
<1>6. 0 \in U
  BY <1>1 DEF Heads
<1>7. ASSUME NEW k \in Nat, k \in U
      PROVE  k + 1 \in U
  <2> SUFFICES ASSUME n <= k + 1, k + 1 <= Len(s)
               PROVE  Heads(p[n], p[k + 1])
    OBVIOUS
  <2>1. CASE n = k + 1
    <3>1. p[n] \in Seq(T)
      BY <1>1, <1>2
    <3> QED
      BY <2>1, <3>1 DEF Heads
  <2>2. CASE n # k + 1
    <3>1. n <= k /\ k <= Len(s) /\ k + 1 \in 1..Len(s) /\ k \in 0..Len(s) /\ (k + 1) - 1 = k
      BY <1>1, <2>2
    <3>2. Heads(p[n], p[k])
      BY <1>7, <3>1
    <3>3. /\ p[n] \in Seq(T) /\ p[k] \in Seq(T) /\ s[k + 1] \in T
          /\ Longer(p, s, kept, k + 1)
      BY <1>1, <1>2, <3>1
    <3>4. p[k + 1] = p[k] \/ p[k + 1] = Append(p[k], s[k + 1])
      BY <3>1, <3>3 DEF Longer
    <3> DEFINE x == p[n]
               y == p[k]
               z == Append(y, s[k + 1])
    <3>5. Heads(x, z)
      <4>1. x \in Seq(T) /\ y \in Seq(T) /\ Heads(x, y)
        BY <3>2, <3>3
      <4>2. Len(z) = Len(y) + 1 /\ Len(y) \in Nat /\ Len(x) \in Nat
            /\ \A i \in 1..Len(y) : z[i] = y[i]
        BY <3>3
      <4> HIDE DEF x, y, z
      <4> QED
        BY <4>1, <4>2 DEF Heads
    <3> QED
      BY <3>2, <3>4, <3>5
  <2> QED
    BY <2>1, <2>2
<1>8. Nat \subseteq S
  <2> HIDE DEF S
  <2> QED
    BY <1>4, <1>5, Induct
<1>9. Nat \subseteq U
  <2> HIDE DEF U
  <2> QED
    BY <1>6, <1>7, Induct
<1>10. q[n] = p[n]
  BY <1>1, <1>8
<1>11. Heads(p[n], p[Len(s)])
  BY <1>1, <1>9
<1>12. Filtered(s, kept) = p[Len(s)] /\ Filtered(t, kept) = q[n]
  BY <1>1, FilteredIsPrefix DEF p, q
<1> QED
  BY <1>10, <1>11, <1>12 DEF t
=============================================================================
