-------------------------- MODULE IgnoreRulesProofs --------------------------
(***************************************************************************)
(* Proofs about IgnoreRules: the order of the strings is total, bisecting a *)
(* sorted table finds what is in it, the tables are sorted, the chain of    *)
(* parents passes over tables only that reject nothing, and what is ignored *)
(* is what the lines in force say.                                          *)
(***************************************************************************)
EXTENDS IgnoreRules, SequenceTheorems, WellFoundedInduction, TLAPS

Strings == Seq(Token)

-----------------------------------------------------------------------------
(* Least and greatest elements                                              *)

\* A set of naturals that is not empty has a lowest element: a proof by
\* induction refutes the lowest counterexample.
LEMMA LowestExists ==
  ASSUME NEW S, S \subseteq Nat, S # {}
  PROVE  \E x \in S : \A y \in S : x <= y
<1> DEFINE Lower == {ss \in Nat \X Nat : ss[1] < ss[2]}
<1>1. IsWellFoundedOn(Lower, Nat)
  BY NatLessThanWellFounded DEF OpToRel
<1>2. PICK x \in S : \A y \in S : <<y, x>> \notin Lower
  <2> HIDE DEF Lower
  <2> QED  BY <1>1, WFMin
<1>3. \A y, z \in Nat : y < z => <<y, z>> \in Lower
  BY Zenon
<1>4. \A y \in S : x =< y
  <2> SUFFICES ASSUME NEW y \in S, ~(x =< y) PROVE FALSE  OBVIOUS
  <2>1. x \in Nat /\ y \in Nat  BY <1>2
  <2>2. y < x  BY <2>1
  <2> HIDE DEF Lower
  <2> QED  BY <1>2, <1>3, <2>1, <2>2
<1> QED  BY <1>2, <1>4

\* A set of naturals has a least element ...
LEMMA MinIs ==
  ASSUME NEW S, S # {}, S \subseteq Nat
  PROVE  Min(S) \in S /\ \A x \in S : Min(S) <= x
<1>1. PICK m \in S : \A x \in S : m <= x
  BY LowestExists
<1> QED
  BY <1>1 DEF Min

\* ... and a set of integers with an upper bound a greatest one.
LEMMA MaxIs ==
  ASSUME NEW S, S # {}, NEW b \in Int, \A x \in S : x \in Int /\ x <= b
  PROVE  Max(S) \in S /\ \A x \in S : x <= Max(S)
<1> DEFINE T == {b - x : x \in S}
<1>1. T \subseteq Nat /\ T # {}
  OBVIOUS
<1>2. PICK t \in T : \A u \in T : t <= u
  <2> HIDE DEF T
  <2> QED  BY <1>1, LowestExists
<1>3. PICK m \in S : t = b - m
  BY <1>2
<1>4. \A x \in S : x <= m
  <2> TAKE x \in S
  <2>1. t <= b - x  BY <1>2
  <2> QED  BY <2>1, <1>3
<1> QED
  BY <1>4 DEF Max

-----------------------------------------------------------------------------
(* The order of strings                                                     *)

\* The strings are the same before place k, and there s ends or is smaller.
SmallerAt(s, t, k) ==
  /\ k <= Len(s) + 1
  /\ \A j \in 1..(k - 1) : s[j] = t[j]
  /\ k = Len(s) + 1 \/ Rank[s[k]] < Rank[t[k]]

\* A string that is smaller is so at some place of the other.
LEMMA LessIs ==
  ASSUME NEW s \in Strings, NEW t \in Strings
  PROVE  Less(s, t) <=> \E k \in 1..Len(t) : SmallerAt(s, t, k)
<1>1. Min({Len(s), Len(t)}) = IF Len(s) <= Len(t) THEN Len(s) ELSE Len(t)
  <2>1. /\ Min({Len(s), Len(t)}) \in {Len(s), Len(t)}
        /\ \A x \in {Len(s), Len(t)} : Min({Len(s), Len(t)}) <= x
    <3>1. {Len(s), Len(t)} \subseteq Nat /\ {Len(s), Len(t)} # {}
      BY DEF Strings
    <3> QED  BY <3>1, MinIs
  <2> QED  BY <2>1 DEF Strings
<1>2. ASSUME IsStrictPrefix(s, t)
      PROVE  Len(s) + 1 \in 1..Len(t) /\ SmallerAt(s, t, Len(s) + 1)
  <2>1. Len(s) <= Len(t) /\ SubSeq(s, 1, Len(s)) = SubSeq(t, 1, Len(s)) /\ s # t
    BY <1>2 DEF IsStrictPrefix, IsPrefix
  <2>2. \A j \in 1..Len(s) : s[j] = t[j]
    BY <2>1 DEF Strings
  <2>3. Len(s) # Len(t)
    BY <2>1, <2>2 DEF Strings
  <2> QED  BY <2>1, <2>2, <2>3 DEF SmallerAt, Strings
<1>3. ASSUME Len(s) + 1 \in 1..Len(t), SmallerAt(s, t, Len(s) + 1)
      PROVE  IsStrictPrefix(s, t)
  <2>1. \A j \in 1..Len(s) : s[j] = t[j]
    BY <1>3 DEF SmallerAt, Strings
  <2>2. SubSeq(s, 1, Len(s)) = SubSeq(t, 1, Len(s))
    BY <2>1, <1>3 DEF Strings
  <2> QED  BY <1>3, <2>2 DEF IsStrictPrefix, IsPrefix, Strings
<1>4. ASSUME NEW k \in 1..Min({Len(s), Len(t)}),
             \A j \in 1..(k - 1) : s[j] = t[j], Rank[s[k]] < Rank[t[k]]
      PROVE  k \in 1..Len(t) /\ SmallerAt(s, t, k)
  BY <1>1, <1>4 DEF SmallerAt, Strings
<1>5. ASSUME NEW k \in 1..Len(t), SmallerAt(s, t, k), k # Len(s) + 1
      PROVE  /\ k \in 1..Min({Len(s), Len(t)})
             /\ \A j \in 1..(k - 1) : s[j] = t[j]
             /\ Rank[s[k]] < Rank[t[k]]
  BY <1>1, <1>5 DEF SmallerAt, Strings
<1> QED
  BY <1>2, <1>3, <1>4, <1>5 DEF Less

\* No string is smaller than itself.
LEMMA LessIrreflexive ==
  ASSUME NEW s \in Strings
  PROVE  ~Less(s, s)
<1>1. \A k \in 1..Len(s) : ~SmallerAt(s, s, k)
  <2> TAKE k \in 1..Len(s)
  <2>1. Rank[s[k]] \in Int
    BY IgnoreRulesAssumption DEF Strings
  <2> QED  BY <2>1 DEF SmallerAt, Strings
<1> QED
  BY <1>1, LessIs

\* The order is transitive.
LEMMA LessTransitive ==
  ASSUME NEW s \in Strings, NEW t \in Strings, NEW u \in Strings,
         Less(s, t), Less(t, u)
  PROVE  Less(s, u)
<1>1. PICK k \in 1..Len(t) : SmallerAt(s, t, k)
  BY LessIs
<1>2. PICK l \in 1..Len(u) : SmallerAt(t, u, l)
  BY LessIs
<1>3. \A x \in Token : Rank[x] \in Int
  BY IgnoreRulesAssumption
<1>4. /\ \A j \in 1..Len(s) : Rank[s[j]] \in Int
      /\ \A j \in 1..Len(t) : Rank[t[j]] \in Int
      /\ \A j \in 1..Len(u) : Rank[u[j]] \in Int
  BY <1>3 DEF Strings
<1>5. Len(s) \in Nat /\ Len(t) \in Nat /\ Len(u) \in Nat
  BY DEF Strings
<1>6. CASE k <= l
  <2>1. k \in 1..Len(u) /\ SmallerAt(s, u, k)
    BY <1>1, <1>2, <1>4, <1>5, <1>6, SMTT(30) DEF SmallerAt
  <2> QED  BY <2>1, LessIs
<1>7. CASE l < k
  <2>1. SmallerAt(s, u, l)
    BY <1>1, <1>2, <1>4, <1>5, <1>7, SMTT(30) DEF SmallerAt
  <2> QED  BY <2>1, LessIs
<1> QED
  BY <1>5, <1>6, <1>7

\* Of two strings that are not the same one is smaller.
LEMMA LessTotal ==
  ASSUME NEW s \in Strings, NEW t \in Strings
  PROVE  s = t \/ Less(s, t) \/ Less(t, s)
<1> DEFINE Apart(k) == k > Len(s) \/ k > Len(t) \/ s[k] # t[k]
           Places == {k \in Nat \ {0} : Apart(k)}
<1>1. Len(s) \in Nat /\ Len(t) \in Nat
  BY DEF Strings
<1>2. Len(s) + 1 \in Places
  BY <1>1
<1>3. PICK k \in Places : \A l \in Places : k <= l
  <2>1. Places \subseteq Nat /\ Places # {}  BY <1>2
  <2> HIDE DEF Places
  <2> QED  BY <2>1, LowestExists
<1>4. \A j \in 1..(k - 1) : j <= Len(s) /\ j <= Len(t) /\ s[j] = t[j]
  <2> TAKE j \in 1..(k - 1)
  <2>1. j \notin Places /\ j \in Nat \ {0}
    BY <1>3
  <2> QED  BY <1>1, <2>1
<1>5. k \in Nat \ {0} /\ k <= Len(s) + 1 /\ k <= Len(t) + 1
  <2>1. k <= Len(s) + 1  BY <1>2, <1>3
  <2>2. Len(t) + 1 \in Places  BY <1>1
  <2> QED  BY <1>3, <2>1, <2>2
<1>6. Apart(k)
  BY <1>3
<1> HIDE DEF Places
<1>7. CASE k > Len(s) /\ k > Len(t)
  BY <1>1, <1>4, <1>5, <1>7 DEF Strings
<1>8. CASE k > Len(s) /\ k <= Len(t)
  <2>1. k \in 1..Len(t) /\ SmallerAt(s, t, k)
    BY <1>1, <1>4, <1>5, <1>8 DEF SmallerAt
  <2> QED  BY <2>1, LessIs
<1>9. CASE k <= Len(s) /\ k > Len(t)
  <2>1. k \in 1..Len(s) /\ SmallerAt(t, s, k)
    BY <1>1, <1>4, <1>5, <1>9 DEF SmallerAt
  <2> QED  BY <2>1, LessIs
<1>10. CASE k <= Len(s) /\ k <= Len(t)
  <2>1. s[k] \in Token /\ t[k] \in Token /\ s[k] # t[k]
    BY <1>1, <1>5, <1>6, <1>10 DEF Strings
  <2>2. Rank[s[k]] < Rank[t[k]] \/ Rank[t[k]] < Rank[s[k]]
    BY <2>1, IgnoreRulesAssumption
  <2>3. k \in 1..Len(s) /\ k \in 1..Len(t)
    BY <1>1, <1>5, <1>10
  <2>4. SmallerAt(s, t, k) \/ SmallerAt(t, s, k)
    BY <1>1, <1>4, <1>5, <2>2 DEF SmallerAt
  <2> QED  BY <2>3, <2>4, LessIs
<1> QED
  BY <1>1, <1>5, <1>7, <1>8, <1>9, <1>10

-----------------------------------------------------------------------------
(* Sorted tables                                                            *)

\* No pattern is before a smaller one.
Sorted(patterns) ==
  \A j, k \in 1..Len(patterns) : j < k => ~Less(patterns[k], patterns[j])

\* The first of three strings is smaller than the last.
LEMMA LessThrough ==
  ASSUME NEW s \in Strings, NEW t \in Strings, NEW u \in Strings,
         \/ Less(s, t) /\ ~Less(u, t)
         \/ ~Less(t, s) /\ Less(t, u)
  PROVE  Less(s, u)
<1>1. CASE Less(s, t) /\ ~Less(u, t)
  BY <1>1, LessTotal, LessTransitive
<1>2. CASE ~Less(t, s) /\ Less(t, u)
  BY <1>2, LessTotal, LessTransitive
<1> QED
  BY <1>1, <1>2

Windows(n) == {w \in (0..n) \X (0..n) : w[1] <= w[2]}

Middle(w) == w[1] + (w[2] - w[1]) \div 2

\* One call of binary_search, when the deeper ones return what f says.
Bisects(f, needle, haystack, w) ==
  /\ w[1] # w[2]
  /\ \/ needle = haystack[Middle(w) + 1]
     \/ Less(needle, haystack[Middle(w) + 1]) /\ f[<<w[1], Middle(w)>>]
     \/ Less(haystack[Middle(w) + 1], needle) /\ f[<<Middle(w) + 1, w[2]>>]

\* The recursive calls are for smaller windows.
LEMMA WindowsShrink ==
  ASSUME NEW n \in Nat, NEW w \in Windows(n), w[1] # w[2]
  PROVE  /\ Middle(w) \in w[1]..(w[2] - 1)
         /\ <<w[1], Middle(w)>> \in Windows(n)
         /\ <<Middle(w) + 1, w[2]>> \in Windows(n)
         /\ w[1] \in 0..n /\ w[2] \in 0..n /\ w[1] < w[2]
<1>1. w[1] \in 0..n /\ w[2] \in 0..n /\ w[1] < w[2]
  BY DEF Windows
<1>2. Middle(w) \in w[1]..(w[2] - 1)
  <2> DEFINE d == w[2] - w[1]
  <2>1. d \in Nat /\ d >= 1  BY <1>1
  <2>2. d \div 2 \in 0..(d - 1)
    <3> HIDE DEF d
    <3> QED  BY <2>1
  <2>3. Middle(w) = w[1] + d \div 2  BY DEF Middle
  <2> HIDE DEF d
  <2>4. w[2] = w[1] + d  BY <1>1 DEF d
  <2> QED  BY <1>1, <2>1, <2>2, <2>3, <2>4
<1> HIDE DEF Middle
<1>3. <<w[1], Middle(w)>> \in Windows(n)
  BY <1>1, <1>2 DEF Windows
<1>4. <<Middle(w) + 1, w[2]>> \in Windows(n)
  BY <1>1, <1>2 DEF Windows
<1> QED
  BY <1>1, <1>2, <1>3, <1>4

\* Whether the needle is at a place that the window is over.
Within(needle, haystack, w) ==
  \E k \in (w[1] + 1)..w[2] : haystack[k] = needle

\* In a sorted table that is what a call returns, if the deeper ones do.
LEMMA BisectsWithin ==
  ASSUME NEW h \in Seq(Strings), Sorted(h), NEW needle \in Strings,
         NEW f, NEW w \in Windows(Len(h)),
         w[1] # w[2] =>
           /\ f[<<w[1], Middle(w)>>] = Within(needle, h, <<w[1], Middle(w)>>)
           /\ f[<<Middle(w) + 1, w[2]>>]
                = Within(needle, h, <<Middle(w) + 1, w[2]>>)
  PROVE  Bisects(f, needle, h, w) = Within(needle, h, w)
<1> DEFINE n == Len(h)
<1>1. n \in Nat
  OBVIOUS
<1>2. CASE w[1] = w[2]
  <2>1. w[1] \in Nat /\ w[2] \in Nat
    BY <1>1 DEF Windows
  <2>2. ~Within(needle, h, w)
    BY <1>2, <2>1 DEF Within
  <2>3. ~Bisects(f, needle, h, w)
    BY <1>2 DEF Bisects
  <2> QED  BY <2>2, <2>3 DEF Bisects, Within
<1>3. CASE w[1] # w[2]
  <2> DEFINE m == Middle(w)
  <2>1. /\ m \in w[1]..(w[2] - 1)
        /\ w[1] \in 0..n /\ w[2] \in 0..n /\ w[1] < w[2]
    BY <1>1, <1>3, WindowsShrink
  <2> HIDE DEF m
  <2>2. m \in Nat /\ m + 1 \in 1..n
    BY <1>1, <2>1
  <2>3. \A k \in 1..n : h[k] \in Strings
    OBVIOUS
  <2>4. ASSUME NEW k \in 1..n, h[k] = needle, Less(needle, h[m + 1])
        PROVE  k <= m
    <3> SUFFICES ASSUME ~(k <= m) PROVE FALSE  OBVIOUS
    <3>1. k = m + 1 \/ m + 1 < k  BY <2>2
    <3>2. k # m + 1  BY <2>2, <2>3, <2>4, LessIrreflexive
    <3> QED  BY <2>2, <2>4, <3>1, <3>2 DEF Sorted
  <2>5. ASSUME NEW k \in 1..n, h[k] = needle, Less(h[m + 1], needle)
        PROVE  k >= m + 2
    <3> SUFFICES ASSUME ~(k >= m + 2) PROVE FALSE  OBVIOUS
    <3>1. k = m + 1 \/ k < m + 1  BY <2>2
    <3>2. k # m + 1  BY <2>2, <2>3, <2>5, LessIrreflexive
    <3> QED  BY <2>2, <2>5, <3>1, <3>2 DEF Sorted
  <2>6. needle = h[m + 1] \/ Less(needle, h[m + 1]) \/ Less(h[m + 1], needle)
    BY <2>2, <2>3, LessTotal
  <2>7. /\ f[<<w[1], m>>] = (\E k \in (w[1] + 1)..m : h[k] = needle)
        /\ f[<<m + 1, w[2]>>] = (\E k \in (m + 2)..w[2] : h[k] = needle)
    <3>1. (m + 1) + 1 = m + 2  BY <2>2
    <3>2. <<w[1], m>>[1] = w[1] /\ <<w[1], m>>[2] = m
      OBVIOUS
    <3>3. <<m + 1, w[2]>>[1] = m + 1 /\ <<m + 1, w[2]>>[2] = w[2]
      OBVIOUS
    <3> QED  BY <1>3, <3>1, <3>2, <3>3 DEF Within, m
  <2>8. ASSUME Bisects(f, needle, h, w)
        PROVE  Within(needle, h, w)
    <3>1. \/ needle = h[m + 1]
          \/ \E k \in (w[1] + 1)..m : h[k] = needle
          \/ \E k \in (m + 2)..w[2] : h[k] = needle
      BY <2>7, <2>8 DEF Bisects, m
    <3> QED  BY <2>1, <2>2, <3>1 DEF Within
  <2>9. ASSUME Within(needle, h, w)
        PROVE  Bisects(f, needle, h, w)
    <3>1. PICK k \in (w[1] + 1)..w[2] : h[k] = needle
      BY <2>9 DEF Within
    <3>2. k \in 1..n  BY <2>1, <3>1
    <3>3. CASE needle = h[m + 1]
      BY <1>3, <3>3 DEF Bisects, m
    <3>4. CASE Less(needle, h[m + 1])
      <4>1. k <= m  BY <2>4, <3>1, <3>2, <3>4
      <4>2. k \in (w[1] + 1)..m  BY <2>1, <2>2, <4>1
      <4> QED  BY <1>3, <2>7, <3>1, <3>4, <4>2 DEF Bisects, m
    <3>5. CASE Less(h[m + 1], needle)
      <4>1. k >= m + 2  BY <2>5, <3>1, <3>2, <3>5
      <4>2. k \in (m + 2)..w[2]  BY <2>1, <2>2, <4>1
      <4> QED  BY <1>3, <2>7, <3>1, <3>5, <4>2 DEF Bisects, m
    <3> QED  BY <2>6, <3>3, <3>4, <3>5
  <2>10. Bisects(f, needle, h, w) <=> Within(needle, h, w)
    BY <2>8, <2>9
  <2> QED  BY <2>10 DEF Bisects, Within
<1> QED
  BY <1>2, <1>3

\* binary_search, named call by call.
LEMMA BinarySearchIs ==
  ASSUME NEW needle, NEW h
  PROVE  binary_search(needle, h)
           = (CHOOSE f : f = [w \in Windows(Len(h)) |-> Bisects(f, needle, h, w)])
               [<<0, Len(h)>>]
  BY DEF binary_search, Bisects, Middle, Windows

\* In a sorted table binary_search finds what is in it, and nothing else.
THEOREM BinarySearchFinds ==
  ASSUME NEW h \in Seq(Strings), Sorted(h), NEW needle \in Strings
  PROVE  binary_search(needle, h) <=> \E k \in 1..Len(h) : h[k] = needle
<1> DEFINE n == Len(h)
           Is(f) == f = [w \in Windows(n) |-> Bisects(f, needle, h, w)]
           e == [w \in Windows(n) |-> Within(needle, h, w)]
           g == CHOOSE f : Is(f)
<1>1. n \in Nat
  OBVIOUS
<1>2. Is(e)
  <2>1. ASSUME NEW w \in Windows(n)
        PROVE  Bisects(e, needle, h, w) = Within(needle, h, w)
    <3>1. w[1] # w[2] =>
            /\ e[<<w[1], Middle(w)>>] = Within(needle, h, <<w[1], Middle(w)>>)
            /\ e[<<Middle(w) + 1, w[2]>>]
                 = Within(needle, h, <<Middle(w) + 1, w[2]>>)
      BY <1>1, WindowsShrink
    <3> HIDE DEF e
    <3> QED  BY <2>1, <3>1, BisectsWithin
  <2> DEFINE b == [w \in Windows(n) |-> Bisects(e, needle, h, w)]
  <2>2. e = b  BY <2>1, Zenon
  <2> HIDE DEF e
  <2> QED  BY <2>2
<1>3. Is(g)
  <2> HIDE DEF Is, e
  <2> QED  BY <1>2
<1>4. \A w \in Windows(n) : g[w] = Bisects(g, needle, h, w)
  <2> DEFINE b == [w \in Windows(n) |-> Bisects(g, needle, h, w)]
  <2>1. g = b  BY <1>3
  <2>2. \A w \in Windows(n) : b[w] = Bisects(g, needle, h, w)  BY Zenon
  <2> HIDE DEF b
  <2> QED  BY <2>1, <2>2
<1> HIDE DEF g, Is, e
<1> DEFINE Wrong == {d \in Nat : \E w \in Windows(n) :
                       w[2] - w[1] = d /\ g[w] # Within(needle, h, w)}
<1>5. Wrong = {}
  <2> SUFFICES ASSUME Wrong # {} PROVE FALSE  OBVIOUS
  <2>1. PICK d \in Wrong : \A x \in Wrong : d <= x
    <3>1. Wrong \subseteq Nat  OBVIOUS
    <3> HIDE DEF Wrong
    <3> QED  BY <3>1, LowestExists
  <2>2. PICK w \in Windows(n) : w[2] - w[1] = d /\ g[w] # Within(needle, h, w)
    BY <2>1
  <2>3. ASSUME NEW v \in Windows(n), v[2] - v[1] < d
        PROVE  g[v] = Within(needle, h, v)
    <3>1. v[2] - v[1] \in Nat  BY <1>1 DEF Windows
    <3>2. v[2] - v[1] \notin Wrong
      <4>1. d \in Nat  BY <2>1
      <4> HIDE DEF Wrong
      <4> QED  BY <2>1, <2>3, <3>1, <4>1
    <3> QED  BY <3>1, <3>2
  <2>4. w[1] # w[2] =>
          /\ g[<<w[1], Middle(w)>>] = Within(needle, h, <<w[1], Middle(w)>>)
          /\ g[<<Middle(w) + 1, w[2]>>]
               = Within(needle, h, <<Middle(w) + 1, w[2]>>)
    <3> SUFFICES ASSUME w[1] # w[2]
                 PROVE  /\ g[<<w[1], Middle(w)>>]
                             = Within(needle, h, <<w[1], Middle(w)>>)
                        /\ g[<<Middle(w) + 1, w[2]>>]
                             = Within(needle, h, <<Middle(w) + 1, w[2]>>)
      OBVIOUS
    <3>1. /\ Middle(w) \in w[1]..(w[2] - 1)
          /\ <<w[1], Middle(w)>> \in Windows(n)
          /\ <<Middle(w) + 1, w[2]>> \in Windows(n)
          /\ w[1] \in 0..n /\ w[2] \in 0..n /\ w[1] < w[2]
      BY <1>1, WindowsShrink
    <3>2. /\ <<w[1], Middle(w)>>[2] - <<w[1], Middle(w)>>[1] < d
          /\ <<Middle(w) + 1, w[2]>>[2] - <<Middle(w) + 1, w[2]>>[1] < d
      BY <1>1, <2>2, <3>1
    <3> QED  BY <2>3, <3>1, <3>2
  <2>5. Bisects(g, needle, h, w) = Within(needle, h, w)
    BY <2>4, BisectsWithin
  <2> QED  BY <1>4, <2>2, <2>5
<1>6. <<0, n>> \in Windows(n)
  BY <1>1 DEF Windows
<1>7. g[<<0, n>>] = Within(needle, h, <<0, n>>)
  <2>1. n - 0 \notin Wrong  BY <1>5
  <2>2. n - 0 \in Nat /\ <<0, n>>[2] - <<0, n>>[1] = n - 0  BY <1>1
  <2> QED  BY <1>6, <2>1, <2>2
<1>8. binary_search(needle, h) = g[<<0, n>>]
  BY BinarySearchIs DEF g, Is
<1>9. Within(needle, h, <<0, n>>) <=> \E k \in 1..n : h[k] = needle
  BY <1>1 DEF Within
<1> QED
  BY <1>7, <1>8, <1>9

\* The new pattern goes between those that are smaller and the others.
LEMMA InsertedIs ==
  ASSUME NEW h \in Seq(Strings), Sorted(h), NEW p \in Strings
  PROVE  /\ Inserted(h, p) \in Seq(Strings)
         /\ Len(Inserted(h, p)) = Len(h) + 1
         /\ \E at \in 0..Len(h) :
              /\ \A k \in 1..at : Inserted(h, p)[k] = h[k] /\ Less(h[k], p)
              /\ Inserted(h, p)[at + 1] = p
              /\ \A k \in (at + 1)..Len(h) :
                   Inserted(h, p)[k + 1] = h[k] /\ ~Less(h[k], p)
<1> DEFINE n == Len(h)
           smaller == {0} \cup {k \in DOMAIN h : Less(h[k], p)}
           at == Max(smaller)
<1>1. n \in Nat /\ DOMAIN h = 1..n /\ \A k \in 1..n : h[k] \in Strings
  OBVIOUS
<1>2. at \in smaller /\ \A k \in smaller : k <= at
  <2>1. smaller # {} /\ \A k \in smaller : k \in Int /\ k <= n
    BY <1>1
  <2> HIDE DEF smaller, n
  <2> QED  BY <1>1, <2>1, MaxIs
<1> HIDE DEF at
<1>3. at \in 0..n
  BY <1>1, <1>2
<1>4. \A k \in 1..at : Less(h[k], p)
  <2> TAKE k \in 1..at
  <2>1. at \in smaller
    BY <1>2, <1>3
  <2>2. at \in 1..n /\ Less(h[at], p)
    BY <1>1, <2>1
  <2>3. CASE k = at
    BY <2>2, <2>3
  <2>4. CASE k # at
    <3>1. k \in 1..n /\ k < at  BY <1>3, <2>4
    <3>2. ~Less(h[at], h[k])  BY <1>1, <2>2, <3>1 DEF Sorted
    <3> QED  BY <1>1, <2>2, <3>1, <3>2, LessThrough
  <2> QED  BY <2>3, <2>4
<1>5. \A k \in (at + 1)..n : ~Less(h[k], p)
  <2> TAKE k \in (at + 1)..n
  <2>1. k \in 1..n /\ ~(k <= at)  BY <1>1, <1>3
  <2>2. k \notin smaller  BY <1>2, <2>1
  <2> QED  BY <1>1, <2>1, <2>2
<1>6. Inserted(h, p) = SubSeq(h, 1, at) \o <<p>> \o SubSeq(h, at + 1, n)
  <2>1. Inserted(h, p) = InsertAt(h, at + 1, p)
    BY Zenon DEF Inserted, at
  <2>2. InsertAt(h, at + 1, p)
          = SubSeq(h, 1, (at + 1) - 1) \o <<p>> \o SubSeq(h, at + 1, n)
    BY Zenon DEF InsertAt
  <2>3. (at + 1) - 1 = at
    BY <1>3
  <2> QED  BY <2>1, <2>2, <2>3
<1> DEFINE a == SubSeq(h, 1, at)
           b == SubSeq(h, at + 1, n)
<1>7. /\ a \in Seq(Strings) /\ Len(a) = at
      /\ \A k \in 1..at : a[k] = h[k]
  BY <1>1, <1>3
<1>8. /\ b \in Seq(Strings) /\ Len(b) = n - at
      /\ \A k \in 1..(n - at) : b[k] = h[at + k]
  <2>1. at + 1 \in 1..(n + 1)
    BY <1>1, <1>3
  <2>2. b \in Seq(Strings) /\ Len(b) = n - (at + 1) + 1
    BY <1>1, <2>1
  <2>3. \A k \in 1..(n - (at + 1) + 1) : b[k] = h[(at + 1) + k - 1]
    BY <1>1, <2>1
  <2>4. n - (at + 1) + 1 = n - at
    BY <1>1, <1>3
  <2>5. \A k \in 1..(n - at) : (at + 1) + k - 1 = at + k
    BY <1>3
  <2> HIDE DEF b
  <2> QED  BY <2>2, <2>3, <2>4, <2>5
<1> HIDE DEF a, b, n, smaller
<1> DEFINE c == a \o <<p>>
           r == c \o b
<1>9. /\ c \in Seq(Strings) /\ Len(c) = at + 1
      /\ \A k \in 1..at : c[k] = h[k]
      /\ c[at + 1] = p
  BY <1>3, <1>7
<1> HIDE DEF c
<1>10. /\ r \in Seq(Strings) /\ Len(r) = n + 1
       /\ \A k \in 1..(at + 1) : r[k] = c[k]
       /\ \A k \in 1..(n - at) : r[at + 1 + k] = b[k]
  <2>1. r \in Seq(Strings) /\ Len(r) = Len(c) + Len(b)
    BY <1>8, <1>9
  <2>2. \A k \in 1..Len(c) : r[k] = c[k]
    BY <1>8, <1>9
  <2>3. \A k \in 1..Len(b) : r[Len(c) + k] = b[k]
    <3> TAKE k \in 1..Len(b)
    <3>1. /\ Len(c) + k \in 1..(Len(c) + Len(b)) /\ ~(Len(c) + k <= Len(c))
          /\ Len(c) + k - Len(c) = k
      BY <1>3, <1>8, <1>9
    <3> QED  BY <1>8, <1>9, <3>1
  <2> HIDE DEF r
  <2> QED  BY <1>1, <1>3, <1>8, <1>9, <2>1, <2>2, <2>3
<1> HIDE DEF r
<1>11. \A k \in 1..at : r[k] = h[k]
  BY <1>3, <1>9, <1>10
<1>12. r[at + 1] = p
  BY <1>3, <1>9, <1>10
<1>13. \A k \in (at + 1)..n : r[k + 1] = h[k]
  <2> TAKE k \in (at + 1)..n
  <2>1. /\ k - at \in 1..(n - at) /\ at + 1 + (k - at) = k + 1
        /\ at + (k - at) = k
    BY <1>1, <1>3
  <2> QED  BY <1>8, <1>10, <2>1
<1>14. Inserted(h, p) = r
  BY <1>6 DEF r, c, a, b, n
<1> QED
  BY <1>3, <1>4, <1>5, <1>10, <1>11, <1>12, <1>13, <1>14 DEF n

\* The table stays sorted, and has the pattern besides those it had.
LEMMA InsertedSorted ==
  ASSUME NEW h \in Seq(Strings), Sorted(h), NEW p \in Strings
  PROVE  /\ Inserted(h, p) \in Seq(Strings)
         /\ Sorted(Inserted(h, p))
         /\ \A s : (\E k \in 1..Len(Inserted(h, p)) : Inserted(h, p)[k] = s)
                   <=> s = p \/ \E k \in 1..Len(h) : h[k] = s
<1> DEFINE r == Inserted(h, p)
           n == Len(h)
<1>1. r \in Seq(Strings) /\ Len(r) = n + 1 /\ n \in Nat
  BY InsertedIs
<1>2. PICK at \in 0..n :
        /\ \A k \in 1..at : r[k] = h[k] /\ Less(h[k], p)
        /\ r[at + 1] = p
        /\ \A k \in (at + 1)..n : r[k + 1] = h[k] /\ ~Less(h[k], p)
  BY InsertedIs
<1>3. \A k \in 1..n : h[k] \in Strings
  OBVIOUS
<1> HIDE DEF r, n
<1>4. \A k \in (at + 2)..(n + 1) : r[k] = h[k - 1] /\ ~Less(h[k - 1], p)
  <2> TAKE k \in (at + 2)..(n + 1)
  <2>1. k - 1 \in (at + 1)..n /\ (k - 1) + 1 = k  BY <1>1, <1>2
  <2> QED  BY <1>2, <2>1
<1>5. Sorted(r)
  <2> SUFFICES ASSUME NEW j \in 1..(n + 1), NEW k \in 1..(n + 1), j < k
               PROVE  ~Less(r[k], r[j])
    BY <1>1 DEF Sorted
  <2>1. CASE k <= at
    <3>1. k \in 1..at /\ j \in 1..at /\ k \in 1..n /\ j \in 1..n
      BY <1>1, <1>2, <2>1
    <3>2. ~Less(h[k], h[j])  BY <3>1 DEF Sorted, n
    <3> QED  BY <1>2, <3>1, <3>2
  <2>2. CASE k = at + 1
    <3>1. j \in 1..at /\ j \in 1..n  BY <1>1, <1>2, <2>2
    <3>2. r[j] = h[j] /\ Less(h[j], p) /\ r[k] = p  BY <1>2, <2>2, <3>1
    <3>3. ~Less(p, h[j])
      BY <1>3, <3>1, <3>2, LessTransitive, LessIrreflexive
    <3> QED  BY <3>2, <3>3
  <2>3. CASE k > at + 1
    <3>1. /\ k \in (at + 2)..(n + 1) /\ k - 1 \in 1..n
          /\ r[k] = h[k - 1] /\ ~Less(h[k - 1], p)
      BY <1>1, <1>2, <1>4, <2>3
    <3>2. CASE j <= at
      <4>1. j \in 1..at /\ j \in 1..n /\ j < k - 1  BY <1>1, <1>2, <2>3, <3>2
      <4>2. ~Less(h[k - 1], h[j])  BY <3>1, <4>1 DEF Sorted, n
      <4> QED  BY <1>2, <3>1, <4>1, <4>2
    <3>3. CASE j = at + 1
      BY <1>2, <3>1, <3>3
    <3>4. CASE j > at + 1
      <4>1. j \in (at + 2)..(n + 1) /\ j - 1 \in 1..n /\ j - 1 < k - 1
        BY <1>1, <1>2, <3>4
      <4>2. ~Less(h[k - 1], h[j - 1])  BY <3>1, <4>1 DEF Sorted, n
      <4> QED  BY <1>4, <3>1, <4>1, <4>2
    <3> QED  BY <1>2, <3>2, <3>3, <3>4
  <2> QED  BY <1>2, <2>1, <2>2, <2>3
<1>6. ASSUME NEW k \in 1..(n + 1)
      PROVE  r[k] = p \/ \E j \in 1..n : h[j] = r[k]
  <2>1. CASE k <= at
    <3>1. k \in 1..at /\ k \in 1..n  BY <1>1, <1>2, <2>1
    <3> QED  BY <1>2, <3>1
  <2>2. CASE k = at + 1
    BY <1>2, <2>2
  <2>3. CASE k > at + 1
    <3>1. k \in (at + 2)..(n + 1) /\ k - 1 \in 1..n  BY <1>1, <1>2, <2>3
    <3> QED  BY <1>4, <3>1
  <2> QED  BY <1>2, <2>1, <2>2, <2>3
<1>7. ASSUME NEW j \in 1..n
      PROVE  \E k \in 1..(n + 1) : r[k] = h[j]
  <2>1. CASE j <= at
    <3>1. j \in 1..at /\ j \in 1..(n + 1)  BY <1>1, <1>2, <2>1
    <3> QED  BY <1>2, <3>1
  <2>2. CASE j > at
    <3>1. j \in (at + 1)..n /\ j + 1 \in 1..(n + 1)  BY <1>1, <1>2, <2>2
    <3> QED  BY <1>2, <3>1
  <2> QED  BY <1>2, <2>1, <2>2
<1>8. at + 1 \in 1..(n + 1) /\ r[at + 1] = p
  BY <1>1, <1>2
<1>9. ASSUME NEW s
      PROVE  (\E k \in 1..(n + 1) : r[k] = s) <=> s = p \/ \E k \in 1..n : h[k] = s
  BY <1>6, <1>7, <1>8
<1> QED
  BY <1>1, <1>5, <1>9 DEF r, n

-----------------------------------------------------------------------------
(* Filling a table                                                          *)

Fields == Class \cup {"parent", "abs_path"}

\* The values struct ignores may have.
Ignores == {ig \in [Fields -> Seq(Strings) \cup Nat \cup Strings] :
              ig.abs_path \in Strings}

\* The lines of a class that add a pattern.
Adds(line, c) == ~Skipped(line) /\ class(line) = c

\* A table holds, sorted, the patterns of its lines.
HoldsLines(ig, lines) ==
  \A c \in Class :
    /\ ig[c] \in Seq(Strings) /\ Sorted(ig[c])
    /\ \A s : (\E j \in 1..Len(ig[c]) : ig[c][j] = s)
                <=> \E l \in lines : Adds(l, c) /\ pattern(l) = s

\* Every line has a class, and what it adds is a string.
LEMMA LineTypes ==
  ASSUME NEW line \in Lines
  PROVE  class(line) \in Class /\ pattern(line) \in Strings
<1>1. line \in Line
  BY IgnoreRulesAssumption
<1>2. line.text \in Strings
  BY <1>1 DEF Line, Strings
<1>3. class(line) \in Class
  BY DEF class, Class
<1>4. CASE IsExtension(line)
  <2>1. /\ line.lead = "" /\ Len(line.text) = 1
        /\ \E k \in DOMAIN line.text : line.text[k] \in Glob
    BY <1>4 DEF IsExtension, Wild
  <2>2. line.text[1] \in Glob
    <3>1. DOMAIN line.text = 1..1
      <4>1. DOMAIN line.text = 1..Len(line.text)
        BY <1>2 DEF Strings
      <4>2. Len(line.text) = 1
        BY <2>1
      <4> QED  BY <4>1, <4>2
    <3>2. PICK k \in 1..1 : line.text[k] \in Glob
      BY <2>1, <3>1
    <3>3. k = 1
      OBVIOUS
    <3> QED  BY <3>2, <3>3
  <2>3. Suffix[line.text[1]] \in Token
    BY <2>2 DEF Token
  <2> QED  BY <1>3, <1>4, <2>3 DEF pattern, Strings
<1>5. CASE ~IsExtension(line)
  BY <1>2, <1>3, <1>5 DEF pattern
<1> QED
  BY <1>4, <1>5

\* A line of an ignore file goes into the list of its class.
LEMMA AddKeeps ==
  ASSUME NEW ig \in Ignores, NEW lines, HoldsLines(ig, lines), NEW line \in Lines
  PROVE  /\ add_ignore_pattern(ig, line) \in Ignores
         /\ HoldsLines(add_ignore_pattern(ig, line), lines \cup {line})
         /\ add_ignore_pattern(ig, line).parent = ig.parent
         /\ add_ignore_pattern(ig, line).abs_path = ig.abs_path
<1>1. CASE Skipped(line)
  <2>1. add_ignore_pattern(ig, line) = ig
    BY <1>1 DEF add_ignore_pattern
  <2>2. \A c : ~Adds(line, c)
    BY <1>1 DEF Adds
  <2>3. HoldsLines(ig, lines \cup {line})
    <3> SUFFICES ASSUME NEW c \in Class, NEW s
                 PROVE  (\E l \in lines \cup {line} : Adds(l, c) /\ pattern(l) = s)
                          <=> \E l \in lines : Adds(l, c) /\ pattern(l) = s
      BY DEF HoldsLines
    <3> QED  BY <2>2
  <2> QED  BY <2>1, <2>3
<1>2. CASE ~Skipped(line)
  <2> DEFINE d == class(line)
             p == pattern(line)
             new == [ig EXCEPT ![d] = Inserted(ig[d], p)]
  <2>1. add_ignore_pattern(ig, line) = new
    BY <1>2 DEF add_ignore_pattern
  <2>2. d \in Class /\ p \in Strings
    BY LineTypes
  <2>3. \A c : Adds(line, c) <=> c = d
    BY <1>2 DEF Adds
  <2> HIDE DEF d
  <2>4. ig[d] \in Seq(Strings) /\ Sorted(ig[d])
    BY <2>2 DEF HoldsLines
  <2>5. /\ Inserted(ig[d], p) \in Seq(Strings)
        /\ Sorted(Inserted(ig[d], p))
        /\ \A s : (\E k \in 1..Len(Inserted(ig[d], p)) : Inserted(ig[d], p)[k] = s)
                    <=> s = p \/ \E k \in 1..Len(ig[d]) : ig[d][k] = s
    <3> HIDE DEF p
    <3> QED  BY <2>2, <2>4, InsertedSorted
  <2> HIDE DEF p
  <2>6. "parent" \notin Class /\ "abs_path" \notin Class
    BY DEF Class
  <2>7. DOMAIN ig = Fields /\ d \in Fields
    BY <2>2 DEF Ignores, Fields
  <2>8. /\ new \in [Fields -> Seq(Strings) \cup Nat \cup Strings]
        /\ new[d] = Inserted(ig[d], p)
        /\ \A f \in Fields : f # d => new[f] = ig[f]
    <3>1. Inserted(ig[d], p) \in Seq(Strings) \cup Nat \cup Strings
      BY <2>5
    <3> QED  BY <2>7, <3>1, Zenon DEF Ignores
  <2> HIDE DEF new
  <2>9. new.parent = ig.parent /\ new.abs_path = ig.abs_path
    <3>1. new["parent"] = ig["parent"] /\ new["abs_path"] = ig["abs_path"]
      BY <2>2, <2>6, <2>8, Zenon DEF Fields
    <3> QED  BY <3>1
  <2>10. new \in Ignores
    BY <2>8, <2>9 DEF Ignores
  <2>11. HoldsLines(new, lines \cup {line})
    <3> SUFFICES ASSUME NEW c \in Class
                 PROVE  /\ new[c] \in Seq(Strings) /\ Sorted(new[c])
                        /\ \A s : (\E j \in 1..Len(new[c]) : new[c][j] = s)
                             <=> \E l \in lines \cup {line} :
                                   Adds(l, c) /\ pattern(l) = s
      BY DEF HoldsLines
    <3>1. /\ ig[c] \in Seq(Strings) /\ Sorted(ig[c])
          /\ \A s : (\E j \in 1..Len(ig[c]) : ig[c][j] = s)
                      <=> \E l \in lines : Adds(l, c) /\ pattern(l) = s
      BY DEF HoldsLines
    <3>2. CASE c = d
      <4>1. \A s : (\E l \in lines \cup {line} : Adds(l, c) /\ pattern(l) = s)
                     <=> s = p \/ \E l \in lines : Adds(l, c) /\ pattern(l) = s
        <5>1. Adds(line, c) /\ pattern(line) = p
          BY <2>3, <3>2 DEF p
        <5> QED  BY <5>1
      <4>2. \A s : (\E j \in 1..Len(ig[d]) : ig[d][j] = s)
                     <=> \E l \in lines : Adds(l, c) /\ pattern(l) = s
        BY <3>1, <3>2
      <4>3. new[c] = Inserted(ig[d], p)
        BY <2>8, <3>2
      <4> QED  BY <2>5, <4>1, <4>2, <4>3
    <3>3. CASE c # d
      <4>1. \A s : (\E l \in lines \cup {line} : Adds(l, c) /\ pattern(l) = s)
                     <=> \E l \in lines : Adds(l, c) /\ pattern(l) = s
        BY <2>3, <3>3
      <4>2. new[c] = ig[c]
        BY <2>8, <3>3 DEF Fields
      <4> QED  BY <3>1, <4>1, <4>2
    <3> QED  BY <3>2, <3>3
  <2> QED  BY <2>1, <2>9, <2>10, <2>11
<1> QED
  BY <1>1, <1>2

\* A table without patterns.
NewTable(parent, abs_path) ==
  [extensions |-> <<>>, names |-> <<>>, slash_names |-> <<>>, regexes |-> <<>>,
   invert_regexes |-> <<>>, slash_regexes |-> <<>>,
   parent |-> parent, abs_path |-> abs_path]

LEMMA NewTableIs ==
  ASSUME NEW parent \in Nat, NEW abs_path \in Strings
  PROVE  /\ NewTable(parent, abs_path) \in Ignores
         /\ HoldsLines(NewTable(parent, abs_path), {})
         /\ NewTable(parent, abs_path).parent = parent
         /\ NewTable(parent, abs_path).abs_path = abs_path
<1> DEFINE ig == NewTable(parent, abs_path)
<1>1. ig.parent = parent /\ ig.abs_path = abs_path
  BY DEF NewTable
<1>2. \A c \in Class : ig[c] = <<>>
  BY DEF NewTable, Class
<1>3. ig = [f \in Fields |-> ig[f]]
  BY DEF NewTable, Fields, Class
<1> HIDE DEF ig
<1>4. <<>> \in Seq(Strings) /\ Sorted(<<>>)
  BY DEF Sorted
<1>5. HoldsLines(ig, {})
  <2> SUFFICES ASSUME NEW c \in Class
               PROVE  /\ ig[c] \in Seq(Strings) /\ Sorted(ig[c])
                      /\ \A s : ~\E j \in 1..Len(ig[c]) : ig[c][j] = s
    BY DEF HoldsLines
  <2>1. ig[c] = <<>> /\ 1..Len(<<>>) = {}
    BY <1>2
  <2> QED  BY <1>4, <2>1
<1>6. \A f \in Fields : ig[f] \in Seq(Strings) \cup Nat \cup Strings
  <2>1. ig["parent"] \in Nat /\ ig["abs_path"] \in Strings
    BY <1>1
  <2> QED  BY <1>2, <1>4, <2>1 DEF Fields
<1>7. ig \in Ignores
  <2>1. ig \in [Fields -> Seq(Strings) \cup Nat \cup Strings]
    BY <1>3, <1>6, Zenon
  <2> QED  BY <1>1, <2>1 DEF Ignores
<1> QED
  BY <1>1, <1>5, <1>7 DEF ig

-----------------------------------------------------------------------------
(* The tables of a walk                                                     *)

\* A table that is not passed over: it has rules, or is root_ignores.
Counts(ts, j) == j = 1 \/ ~is_empty(ts[j])

\* The parent of a table is the last one before it that counts.
Chained(ts) ==
  /\ ts[1].parent = 0
  /\ \A k \in 2..Len(ts) :
       /\ ts[k].parent \in 1..(k - 1)
       /\ Counts(ts, ts[k].parent)
       /\ \A j \in (ts[k].parent + 1)..(k - 1) : ~Counts(ts, j)

\* Tables ts for the lines ws that were read for each of them.
TablesHold(ts, ws) ==
  /\ ts \in Seq(Ignores) /\ ws \in Seq(SUBSET Lines)
  /\ Len(ts) >= 1 /\ Len(ws) = Len(ts)
  /\ \A k \in 1..Len(ts) : HoldsLines(ts[k], ws[k])
  /\ Chained(ts)

\* root_ignores alone.
LEMMA RootTable ==
  TablesHold(<<NewTable(0, <<>>)>>, <<{}>>)
<1> DEFINE ig == NewTable(0, <<>>)
<1>1. <<>> \in Strings
  BY DEF Strings
<1>2. ig \in Ignores /\ HoldsLines(ig, {}) /\ ig.parent = 0
  BY <1>1, NewTableIs
<1> HIDE DEF ig
<1>3. <<ig>> \in Seq(Ignores) /\ <<{}>> \in Seq(SUBSET Lines)
  BY <1>2
<1>4. Chained(<<ig>>)
  BY <1>2 DEF Chained
<1>5. /\ Len(<<ig>>) = 1 /\ Len(<<{}>>) = 1
      /\ \A k \in 1..1 : HoldsLines(<<ig>>[k], <<{}>>[k])
  BY <1>2
<1>6. TablesHold(<<ig>>, <<{}>>)
  BY <1>3, <1>4, <1>5 DEF TablesHold
<1> QED
  BY <1>6 DEF ig

\* Only the last table is filled: no table has it for a parent yet.
LEMMA LoadTables ==
  ASSUME NEW ts, NEW ws, TablesHold(ts, ws), NEW line \in Lines
  PROVE  TablesHold([ts EXCEPT ![Len(ts)] = add_ignore_pattern(@, line)],
                    [ws EXCEPT ![Len(ts)] = @ \cup {line}])
<1> DEFINE n == Len(ts)
           new == add_ignore_pattern(ts[n], line)
           us == [ts EXCEPT ![n] = new]
           vs == [ws EXCEPT ![n] = ws[n] \cup {line}]
<1>1. /\ ts \in Seq(Ignores) /\ ws \in Seq(SUBSET Lines) /\ n \in Nat
      /\ n >= 1 /\ Len(ws) = n /\ n \in 1..n
      /\ \A k \in 1..n : HoldsLines(ts[k], ws[k])
      /\ Chained(ts)
  BY DEF TablesHold
<1>2. /\ ts[n] \in Ignores /\ HoldsLines(ts[n], ws[n]) /\ ws[n] \subseteq Lines
  BY <1>1
<1>3. /\ new \in Ignores /\ HoldsLines(new, ws[n] \cup {line})
      /\ new.parent = ts[n].parent
  BY <1>2, AddKeeps
<1> HIDE DEF n, new
<1>4. /\ us \in Seq(Ignores) /\ Len(us) = n
      /\ us[n] = new /\ \A k \in 1..(n - 1) : us[k] = ts[k]
  BY <1>1, <1>3 DEF n
<1>5. /\ vs \in Seq(SUBSET Lines) /\ Len(vs) = n
      /\ vs[n] = ws[n] \cup {line} /\ \A k \in 1..(n - 1) : vs[k] = ws[k]
  <2>1. ws[n] \cup {line} \in SUBSET Lines
    BY <1>2
  <2> QED  BY <1>1, <2>1
<1> HIDE DEF us, vs
<1>6. \A k \in 1..n : HoldsLines(us[k], vs[k])
  <2> TAKE k \in 1..n
  <2>1. CASE k = n
    BY <1>3, <1>4, <1>5, <2>1
  <2>2. CASE k # n
    <3>1. k \in 1..(n - 1)  BY <1>1, <2>2
    <3> QED  BY <1>1, <1>4, <1>5, <3>1
  <2> QED  BY <2>1, <2>2
<1>7. \A k \in 1..n : us[k].parent = ts[k].parent
  <2> TAKE k \in 1..n
  <2>1. CASE k = n
    BY <1>3, <1>4, <2>1
  <2>2. CASE k # n
    <3>1. k \in 1..(n - 1)  BY <1>1, <2>2
    <3> QED  BY <1>4, <3>1
  <2> QED  BY <2>1, <2>2
<1>8. \A j \in 1..(n - 1) : Counts(us, j) <=> Counts(ts, j)
  BY <1>4 DEF Counts
<1>9. Chained(us)
  <2>1. us[1].parent = 0
    BY <1>1, <1>7 DEF Chained
  <2>2. ASSUME NEW k \in 2..n
        PROVE  /\ us[k].parent \in 1..(k - 1)
               /\ Counts(us, us[k].parent)
               /\ \A j \in (us[k].parent + 1)..(k - 1) : ~Counts(us, j)
    <3>1. us[k].parent = ts[k].parent
      BY <1>1, <1>7
    <3> DEFINE p == ts[k].parent
    <3>2. /\ p \in 1..(k - 1) /\ Counts(ts, p)
          /\ \A j \in (p + 1)..(k - 1) : ~Counts(ts, j)
      BY <1>1 DEF Chained, n
    <3> HIDE DEF p
    <3>3. p \in 1..(n - 1) /\ \A j \in (p + 1)..(k - 1) : j \in 1..(n - 1)
      BY <1>1, <3>2
    <3>4. us[k].parent = p
      BY <3>1 DEF p
    <3> QED  BY <1>8, <3>2, <3>3, <3>4
  <2> QED  BY <1>4, <2>1, <2>2 DEF Chained
<1>10. TablesHold(us, vs)
  BY <1>1, <1>4, <1>5, <1>6, <1>9 DEF TablesHold
<1> QED
  BY <1>10 DEF us, vs, n, new

\* A new table, under the last one that counts.
LEMMA PushTable ==
  ASSUME NEW ts, NEW ws, TablesHold(ts, ws),
         NEW parent \in 1..Len(ts), NEW abs_path \in Strings,
         Counts(ts, parent),
         \A j \in (parent + 1)..Len(ts) : ~Counts(ts, j)
  PROVE  /\ TablesHold(Append(ts, NewTable(parent, abs_path)), Append(ws, {}))
         /\ Len(Append(ts, NewTable(parent, abs_path))) = Len(ts) + 1
<1> DEFINE n == Len(ts)
           new == NewTable(parent, abs_path)
           us == Append(ts, new)
           vs == Append(ws, {})
<1>1. /\ ts \in Seq(Ignores) /\ ws \in Seq(SUBSET Lines) /\ n \in Nat
      /\ n >= 1 /\ Len(ws) = n
      /\ \A k \in 1..n : HoldsLines(ts[k], ws[k])
      /\ Chained(ts)
  BY DEF TablesHold
<1>2. parent \in Nat /\ parent \in 1..n
  BY <1>1
<1>3. new \in Ignores /\ HoldsLines(new, {}) /\ new.parent = parent
  BY <1>2, NewTableIs
<1> HIDE DEF n, new
<1>4. /\ us \in Seq(Ignores) /\ Len(us) = n + 1
      /\ us[n + 1] = new /\ \A k \in 1..n : us[k] = ts[k]
  BY <1>1, <1>3 DEF n
<1>5. /\ vs \in Seq(SUBSET Lines) /\ Len(vs) = n + 1
      /\ vs[n + 1] = {} /\ \A k \in 1..n : vs[k] = ws[k]
  BY <1>1
<1> HIDE DEF us, vs
<1>6. \A k \in 1..(n + 1) : HoldsLines(us[k], vs[k])
  <2> TAKE k \in 1..(n + 1)
  <2>1. CASE k = n + 1
    BY <1>3, <1>4, <1>5, <2>1
  <2>2. CASE k # n + 1
    <3>1. k \in 1..n  BY <1>1, <2>2
    <3> QED  BY <1>1, <1>4, <1>5, <3>1
  <2> QED  BY <2>1, <2>2
<1>7. \A j \in 1..n : Counts(us, j) <=> Counts(ts, j)
  BY <1>4 DEF Counts
<1>8. ASSUME NEW k \in 2..(n + 1)
      PROVE  /\ us[k].parent \in 1..(k - 1)
             /\ Counts(us, us[k].parent)
             /\ \A j \in (us[k].parent + 1)..(k - 1) : ~Counts(us, j)
  <2>1. CASE k = n + 1
    <3>1. us[k].parent = parent /\ k - 1 = n
      BY <1>1, <1>3, <1>4, <2>1
    <3>2. \A j \in (parent + 1)..n : j \in 1..n /\ ~Counts(ts, j)
      BY <1>2 DEF n
    <3> QED  BY <1>2, <1>7, <3>1, <3>2
  <2>2. CASE k # n + 1
    <3>1. k \in 2..n /\ k \in 1..n  BY <1>1, <2>2
    <3> DEFINE p == ts[k].parent
    <3>2. us[k].parent = p  BY <1>4, <3>1
    <3>3. /\ p \in 1..(k - 1) /\ Counts(ts, p)
          /\ \A j \in (p + 1)..(k - 1) : ~Counts(ts, j)
      BY <1>1, <3>1 DEF Chained, n
    <3> HIDE DEF p
    <3>4. p \in 1..n /\ \A j \in (p + 1)..(k - 1) : j \in 1..n
      BY <1>1, <3>1, <3>3
    <3> QED  BY <1>7, <3>2, <3>3, <3>4
  <2> QED  BY <2>1, <2>2
<1>9. us[1].parent = 0
  <2>1. 1 \in 1..n  BY <1>1
  <2> QED  BY <1>1, <1>4, <2>1 DEF Chained
<1>10. TablesHold(us, vs)
  BY <1>1, <1>4, <1>5, <1>6, <1>8, <1>9 DEF TablesHold, Chained
<1> QED
  BY <1>4, <1>10 DEF us, vs, new, n

\* Front leaves out the last element.
LEMMA FrontIs ==
  ASSUME NEW T, NEW s \in Seq(T), s # <<>>
  PROVE  Front(s) \in Seq(T) /\ Len(Front(s)) = Len(s) - 1
  BY DEF Front

\* The last table is dropped.
LEMMA PopTable ==
  ASSUME NEW ts, NEW ws, TablesHold(ts, ws), Len(ts) > 1
  PROVE  /\ TablesHold(Front(ts), Front(ws))
         /\ Len(Front(ts)) = Len(ts) - 1 /\ Len(Front(ws)) = Len(ts) - 1
<1> DEFINE n == Len(ts)
           us == Front(ts)
           vs == Front(ws)
<1>1. /\ ts \in Seq(Ignores) /\ ws \in Seq(SUBSET Lines) /\ n \in Nat
      /\ n > 1 /\ Len(ws) = n
      /\ \A k \in 1..n : HoldsLines(ts[k], ws[k])
      /\ Chained(ts)
  BY DEF TablesHold
<1>2. /\ us \in Seq(Ignores) /\ Len(us) = n - 1
      /\ \A k \in 1..(n - 1) : us[k] = ts[k]
  BY <1>1 DEF Front
<1>3. /\ vs \in Seq(SUBSET Lines) /\ Len(vs) = n - 1
      /\ \A k \in 1..(n - 1) : vs[k] = ws[k]
  <2> HIDE DEF n
  <2> QED  BY <1>1 DEF Front
<1> HIDE DEF us, vs
<1>4. \A k \in 1..(n - 1) : HoldsLines(us[k], vs[k])
  <2> TAKE k \in 1..(n - 1)
  <2>1. k \in 1..n  BY <1>1
  <2> QED  BY <1>1, <1>2, <1>3, <2>1
<1>5. \A j \in 1..(n - 1) : Counts(us, j) <=> Counts(ts, j)
  BY <1>2 DEF Counts
<1>6. ASSUME NEW k \in 2..(n - 1)
      PROVE  /\ us[k].parent \in 1..(k - 1)
             /\ Counts(us, us[k].parent)
             /\ \A j \in (us[k].parent + 1)..(k - 1) : ~Counts(us, j)
  <2>1. k \in 2..n /\ k \in 1..(n - 1)  BY <1>1
  <2> DEFINE p == ts[k].parent
  <2>2. us[k].parent = p  BY <1>2, <2>1
  <2>3. /\ p \in 1..(k - 1) /\ Counts(ts, p)
        /\ \A j \in (p + 1)..(k - 1) : ~Counts(ts, j)
    BY <1>1, <2>1 DEF Chained
  <2> HIDE DEF p, n
  <2>4. p \in 1..(n - 1) /\ \A j \in (p + 1)..(k - 1) : j \in 1..(n - 1)
    BY <1>1, <2>1, <2>3
  <2> QED  BY <1>5, <2>2, <2>3, <2>4
<1>7. us[1].parent = 0
  <2>1. 1 \in 1..(n - 1)  BY <1>1
  <2> QED  BY <1>1, <1>2, <2>1 DEF Chained
<1> HIDE DEF n
<1>8. TablesHold(us, vs)
  BY <1>1, <1>2, <1>3, <1>4, <1>6, <1>7 DEF TablesHold, Chained
<1> QED
  BY <1>2, <1>3, <1>8 DEF us, vs, n

-----------------------------------------------------------------------------
(* The invariant                                                            *)

TableInv ==
  /\ opts \in Options /\ argument \in {"dot", "relative", "absolute"}
  /\ dirs \in Seq(Dirs) /\ loading \in BOOLEAN
  /\ \/ Len(tables) = 1 /\ dirs = <<>>
     \/ Len(tables) = 2 + Len(dirs)
  /\ TablesHold(tables, written)

\* The walk starts with root_ignores.
LEMMA InvInit == Init => TableInv
<1> SUFFICES ASSUME Init PROVE TableInv
  OBVIOUS
<1>1. tables = <<NewTable(0, <<>>)>> /\ written = <<{}>>
  BY DEF Init, NewTable
<1>2. TablesHold(tables, written)
  BY <1>1, RootTable
<1>3. dirs = <<>> /\ Len(tables) = 1
  BY <1>1 DEF Init
<1> QED
  BY <1>2, <1>3 DEF Init, TableInv

\* init_ignore under the last table, or under root_ignores.
LEMMA InitIgnoreIs ==
  ASSUME TableInv, NEW dirname \in Strings
  PROVE  /\ TablesHold(Append(tables, init_ignore(Top, dirname)),
                       Append(written, {}))
         /\ Len(Append(tables, init_ignore(Top, dirname))) = Len(tables) + 1
<1> DEFINE n == Len(tables)
           skips == n # 0 /\ is_empty(tables[n]) /\ tables[n].parent # 0
           parent == IF skips THEN tables[n].parent ELSE n
           path == AbsPath(n, dirname)
<1>1. /\ TablesHold(tables, written) /\ n \in Nat /\ n >= 1 /\ n \in 1..n
      /\ tables \in Seq(Ignores) /\ Chained(tables)
  BY DEF TableInv, TablesHold
<1>2. init_ignore(n, dirname) = NewTable(parent, path)
  BY DEF init_ignore, NewTable
<1>3. /\ parent \in 1..n /\ Counts(tables, parent)
      /\ \A j \in (parent + 1)..n : ~Counts(tables, j)
  <2>1. CASE n = 1
    <3>1. tables[n].parent = 0  BY <1>1, <2>1 DEF Chained
    <3>2. parent = 1  BY <2>1, <3>1
    <3> QED  BY <2>1, <3>2 DEF Counts
  <2>2. CASE n # 1
    <3> DEFINE p == tables[n].parent
    <3>1. /\ p \in 1..(n - 1) /\ Counts(tables, p)
          /\ \A j \in (p + 1)..(n - 1) : ~Counts(tables, j)
      <4>1. n \in 2..n
        <5>1. n \in Nat /\ n >= 1 /\ n # 1
          BY <1>1, <2>2
        <5> HIDE DEF n
        <5> QED  BY <5>1
      <4> QED  BY <1>1, <4>1, Zenon DEF Chained
    <3>2. CASE is_empty(tables[n])
      <4>1. parent = p  BY <1>1, <3>1, <3>2
      <4>2. ~Counts(tables, n)  BY <2>2, <3>2 DEF Counts
      <4> HIDE DEF parent, p, n
      <4>3. \A j \in (p + 1)..n : j = n \/ j \in (p + 1)..(n - 1)
        BY <1>1, <3>1
      <4> QED  BY <1>1, <3>1, <4>1, <4>2, <4>3
    <3>3. CASE ~is_empty(tables[n])
      <4>1. parent = n  BY <3>3
      <4>2. Counts(tables, n)  BY <3>3 DEF Counts
      <4> HIDE DEF parent, n
      <4> QED  BY <1>1, <4>1, <4>2
    <3> QED  BY <3>2, <3>3
  <2> QED  BY <2>1, <2>2
<1>4. path \in Strings
  <2>1. CASE n # 0 /\ tables[n].abs_path # <<>>
    <3>1. tables[n] \in Ignores  BY <1>1
    <3>2. "/" \in Token  BY DEF Token
    <3>3. tables[n].abs_path \in Strings
      BY <3>1 DEF Ignores
    <3> QED  BY <2>1, <3>2, <3>3 DEF AbsPath, Strings
  <2>2. CASE ~(n # 0 /\ tables[n].abs_path # <<>>)
    BY <2>2 DEF AbsPath
  <2> QED  BY <2>1, <2>2
<1> HIDE DEF parent, path
<1> QED
  BY <1>1, <1>2, <1>3, <1>4, PushTable DEF Top

\* No step breaks the invariant.
LEMMA InvStep == TableInv /\ [Next]_vars => TableInv'
<1> SUFFICES ASSUME TableInv, [Next]_vars PROVE TableInv'
  OBVIOUS
<1>1. /\ opts \in Options /\ argument \in {"dot", "relative", "absolute"}
      /\ dirs \in Seq(Dirs) /\ loading \in BOOLEAN
      /\ \/ Len(tables) = 1 /\ dirs = <<>>
         \/ Len(tables) = 2 + Len(dirs)
      /\ TablesHold(tables, written)
  BY DEF TableInv
<1>2. /\ Len(tables) \in Nat /\ Len(tables) >= 1 /\ Len(dirs) \in Nat
      /\ tables \in Seq(Ignores) /\ written \in Seq(SUBSET Lines)
      /\ Len(written) = Len(tables)
  BY <1>1 DEF TablesHold
<1>3. ASSUME LoadLine
      PROVE  TableInv'
  <2>1. PICK line \in Lines \ written[Top] :
          /\ tables' = [tables EXCEPT ![Top] = add_ignore_pattern(@, line)]
          /\ written' = [written EXCEPT ![Top] = @ \cup {line}]
    BY <1>3 DEF LoadLine
  <2>2. TablesHold(tables', written')
    BY <1>1, <2>1, LoadTables DEF Top
  <2>3. Len(tables') = Len(tables)
    BY <1>2, <2>1
  <2>4. UNCHANGED <<opts, argument, dirs, loading>>
    BY <1>3 DEF LoadLine
  <2> QED  BY <1>1, <2>2, <2>3, <2>4 DEF TableInv
<1>4. ASSUME SearchArgument
      PROVE  TableInv'
  <2>1. /\ Top = 1 /\ argument' \in {"dot", "relative", "absolute"}
        /\ tables' = Append(tables, init_ignore(Top, <<>>))
        /\ written' = Append(written, {})
        /\ loading' = TRUE /\ UNCHANGED <<opts, dirs>>
    BY <1>4 DEF SearchArgument
  <2>2. <<>> \in Strings
    BY DEF Strings
  <2>3. TablesHold(tables', written') /\ Len(tables') = Len(tables) + 1
    BY <2>1, <2>2, InitIgnoreIs
  <2>4. Len(tables') = 2 /\ Len(dirs) = 0
    <3>1. Len(tables) = 1
      BY <2>1 DEF Top
    <3>2. dirs = <<>>
      BY <1>1, <1>2, <3>1
    <3> QED  BY <2>3, <3>1, <3>2
  <2> QED  BY <1>1, <2>1, <2>3, <2>4 DEF TableInv
<1>5. ASSUME EnterDir
      PROVE  TableInv'
  <2>1. PICK x \in Dirs : /\ dirs' = Append(dirs, x)
                          /\ tables' = Append(tables, init_ignore(Top, <<x>>))
    BY <1>5 DEF EnterDir
  <2>2. /\ Top > 1 /\ written' = Append(written, {})
        /\ loading' = TRUE /\ UNCHANGED <<opts, argument>>
    BY <1>5 DEF EnterDir
  <2>3. <<x>> \in Strings
    BY DEF Strings, Dirs, Token
  <2>4. TablesHold(tables', written') /\ Len(tables') = Len(tables) + 1
    BY <2>1, <2>2, <2>3, InitIgnoreIs
  <2>5. dirs' \in Seq(Dirs) /\ Len(tables') = 2 + Len(dirs')
    <3>1. Len(tables) > 1
      BY <2>2 DEF Top
    <3>2. Len(tables) = 2 + Len(dirs)
      BY <1>1, <1>2, <3>1
    <3>3. dirs' \in Seq(Dirs) /\ Len(dirs') = Len(dirs) + 1
      BY <1>1, <2>1
    <3> QED  BY <1>2, <2>4, <3>2, <3>3
  <2> QED  BY <1>1, <2>2, <2>4, <2>5 DEF TableInv
<1>6. ASSUME LeaveDir
      PROVE  TableInv'
  <2>1. /\ Top > 1
        /\ dirs' = (IF dirs = <<>> THEN dirs ELSE Front(dirs))
        /\ tables' = Front(tables) /\ written' = Front(written)
        /\ loading' = FALSE /\ UNCHANGED <<opts, argument>>
    BY <1>6 DEF LeaveDir
  <2>2. TablesHold(tables', written') /\ Len(tables') = Len(tables) - 1
    BY <1>1, <2>1, PopTable DEF Top
  <2>3. Len(tables) = 2 + Len(dirs)
    <3>1. Len(tables) > 1
      BY <2>1 DEF Top
    <3> QED  BY <1>1, <1>2, <3>1
  <2>4. CASE dirs = <<>>
    <3>1. dirs' = <<>> /\ Len(tables') = 1
      <4>1. dirs' = <<>> /\ Len(dirs) = 0
        BY <2>1, <2>4
      <4>2. Len(tables) = 2
        BY <2>3, <4>1
      <4>3. Len(tables') = 1
        BY <2>2, <4>2
      <4> QED  BY <4>1, <4>3
    <3>2. dirs' \in Seq(Dirs)
      BY <3>1
    <3> QED  BY <1>1, <2>1, <2>2, <3>1, <3>2 DEF TableInv
  <2>5. CASE dirs # <<>>
    <3>1. dirs' = Front(dirs)
      BY <2>1, <2>5
    <3>2. dirs' \in Seq(Dirs) /\ Len(dirs') = Len(dirs) - 1
      BY <1>1, <2>5, <3>1, FrontIs
    <3>3. Len(tables') = 2 + Len(dirs')
      BY <1>2, <2>2, <2>3, <3>2
    <3> QED  BY <1>1, <2>1, <2>2, <3>2, <3>3 DEF TableInv
  <2> QED  BY <2>4, <2>5
<1>7. ASSUME UNCHANGED vars
      PROVE  TableInv'
  BY <1>1, <1>7 DEF vars, TableInv
<1> QED
  BY <1>3, <1>4, <1>5, <1>6, <1>7 DEF Next

\* Then the tables are as they have to be.
LEMMA InvTypes == TableInv => TypeOK
<1> SUFFICES ASSUME TableInv PROVE TypeOK
  OBVIOUS
<1>1. /\ opts \in Options /\ argument \in {"dot", "relative", "absolute"}
      /\ dirs \in Seq(Dirs) /\ loading \in BOOLEAN
      /\ \/ Len(tables) = 1 /\ dirs = <<>>
         \/ Len(tables) = 2 + Len(dirs)
      /\ TablesHold(tables, written)
  BY DEF TableInv
<1>2. /\ Len(tables) \in Nat /\ Len(tables) >= 1
      /\ tables \in Seq(Ignores) /\ written \in Seq(SUBSET Lines)
      /\ Len(written) = Len(tables) /\ Chained(tables)
      /\ DOMAIN tables = 1..Len(tables)
      /\ \A k \in 1..Len(tables) : HoldsLines(tables[k], written[k])
  BY <1>1 DEF TablesHold
<1>3. ASSUME NEW k \in DOMAIN tables
      PROVE  tables[k].parent \in 0..(k - 1)
  BY <1>2, <1>3 DEF Chained
<1>4. ASSUME NEW k \in DOMAIN tables, NEW c \in Class
      PROVE  LET lines == {l \in written[k] : ~Skipped(l) /\ class(l) = c} IN
               /\ \A j \in 1..(Len(tables[k][c]) - 1) :
                    ~Less(tables[k][c][j + 1], tables[k][c][j])
               /\ {tables[k][c][j] : j \in DOMAIN tables[k][c]}
                    = {pattern(l) : l \in lines}
               /\ \A l \in lines : binary_search(pattern(l), tables[k][c])
  <2> DEFINE lines == {l \in written[k] : ~Skipped(l) /\ class(l) = c}
             t == tables[k][c]
  <2>1. HoldsLines(tables[k], written[k]) /\ written[k] \subseteq Lines
    BY <1>2, <1>4
  <2>2. /\ t \in Seq(Strings) /\ Sorted(t)
        /\ \A s : (\E j \in 1..Len(t) : t[j] = s)
                    <=> \E l \in written[k] : Adds(l, c) /\ pattern(l) = s
    BY <2>1 DEF HoldsLines
  <2>3. \A s : (\E l \in written[k] : Adds(l, c) /\ pattern(l) = s)
                 <=> \E l \in lines : pattern(l) = s
    BY DEF Adds
  <2> HIDE DEF t, lines
  <2>4. \A j \in 1..(Len(t) - 1) : ~Less(t[j + 1], t[j])
    <3> TAKE j \in 1..(Len(t) - 1)
    <3>1. j \in 1..Len(t) /\ j + 1 \in 1..Len(t) /\ j < j + 1
      BY <2>2
    <3> QED  BY <2>2, <3>1 DEF Sorted
  <2>5. {t[j] : j \in DOMAIN t} = {pattern(l) : l \in lines}
    <3>1. DOMAIN t = 1..Len(t)
      BY <2>2
    <3> QED  BY <2>2, <2>3, <3>1
  <2>6. \A l \in lines : binary_search(pattern(l), t)
    <3> TAKE l \in lines
    <3>1. pattern(l) \in Strings
      BY <2>1, LineTypes DEF lines
    <3>2. \E j \in 1..Len(t) : t[j] = pattern(l)
      BY <2>2, <2>3
    <3> QED  BY <2>2, <3>1, <3>2, BinarySearchFinds
  <2> QED  BY <2>4, <2>5, <2>6 DEF t, lines
<1>5. Len(tables) \in {1, 2 + Len(dirs)}
  BY <1>1
<1> QED
  BY <1>1, <1>2, <1>3, <1>4, <1>5, Zenon DEF TypeOK

\* The tables are chained upwards, stay sorted whatever lines are read in what
\* order, and bisecting them finds every pattern of those lines.
THEOREM TablesSorted == Spec => []TypeOK
<1> QED
  BY InvInit, InvStep, InvTypes, PTL DEF Spec

-----------------------------------------------------------------------------
(* Tables passed over                                                       *)

\* The tables asked about a file are those that count, and the last one.
LEMMA ChainIs ==
  ASSUME TableInv
  PROVE  Chain = {j \in 1..Top : j = Top \/ Counts(tables, j)}
<1> DEFINE n == Len(tables)
           Step(f, k) == IF k = 0 THEN {} ELSE {k} \cup f[tables[k].parent]
           Is(f) == f = [k \in 0..n |-> Step(f, k)]
           U(k) == IF k = 0 THEN {}
                   ELSE {j \in 1..k : j = k \/ Counts(tables, j)}
           e == [k \in 0..n |-> U(k)]
           g == CHOOSE f : Is(f)
<1>1. n \in Nat /\ n >= 1 /\ Chained(tables)
  BY DEF TableInv, TablesHold
<1>2. ASSUME NEW k \in 1..n
      PROVE  /\ tables[k].parent \in 0..(k - 1)
             /\ U(k) = {k} \cup U(tables[k].parent)
  <2> DEFINE p == tables[k].parent
  <2>1. CASE k = 1
    <3>1. p = 0  BY <1>1, <2>1 DEF Chained
    <3> QED  BY <2>1, <3>1
  <2>2. CASE k # 1
    <3>1. /\ p \in 1..(k - 1) /\ Counts(tables, p)
          /\ \A j \in (p + 1)..(k - 1) : ~Counts(tables, j)
      <4>1. k \in 2..n  BY <1>1, <2>2
      <4> QED  BY <1>1, <4>1, Zenon DEF Chained
    <3> HIDE DEF p, n
    <3>2. \A j : j \in U(k) <=> j \in {k} \cup U(p)
      <4> TAKE j
      <4>1. CASE j \in (p + 1)..(k - 1)
        BY <3>1, <4>1
      <4>2. CASE j \in 1..p
        BY <1>1, <3>1, <4>2
      <4>3. CASE j = k
        BY <1>1, <3>1, <4>3
      <4>4. CASE j \notin 1..k
        BY <1>1, <3>1, <4>4
      <4> QED  BY <1>1, <3>1, <4>1, <4>2, <4>3, <4>4
    <3> HIDE DEF U
    <3>3. U(k) = {k} \cup U(p)  BY <3>2
    <3> QED  BY <3>1, <3>3 DEF p
  <2> QED  BY <2>1, <2>2
<1>3. Is(e)
  <2>1. ASSUME NEW k \in 0..n PROVE Step(e, k) = U(k)
    <3>1. CASE k = 0
      BY <3>1
    <3>2. CASE k # 0
      <4>1. k \in 1..n  BY <3>2
      <4>2. tables[k].parent \in 0..n /\ U(k) = {k} \cup U(tables[k].parent)
        BY <1>1, <1>2, <4>1
      <4>3. e[tables[k].parent] = U(tables[k].parent)
        <5> HIDE DEF U
        <5> QED  BY <4>2
      <4> HIDE DEF U, e
      <4> QED  BY <3>2, <4>2, <4>3
    <3> QED  BY <3>1, <3>2
  <2> HIDE DEF Step, U
  <2> DEFINE b == [k \in 0..n |-> Step(e, k)]
  <2>2. e = b  BY <2>1, Zenon
  <2> HIDE DEF e
  <2> QED  BY <2>2
<1>4. Is(g)
  <2> HIDE DEF Is, e
  <2> QED  BY <1>3
<1>5. \A k \in 0..n : g[k] = Step(g, k)
  <2> HIDE DEF Step
  <2> DEFINE b == [k \in 0..n |-> Step(g, k)]
  <2>1. g = b  BY <1>4
  <2>2. \A k \in 0..n : b[k] = Step(g, k)  BY Zenon
  <2> HIDE DEF b
  <2> QED  BY <2>1, <2>2
<1>6. Chain = g[n]
  BY Zenon DEF Chain
<1> HIDE DEF g, Is, e
<1> DEFINE Wrong == {k \in 0..n : g[k] # U(k)}
<1>7. Wrong = {}
  <2> SUFFICES ASSUME Wrong # {} PROVE FALSE  OBVIOUS
  <2>1. PICK k \in Wrong : \A x \in Wrong : k <= x
    <3>1. Wrong \subseteq Nat  BY <1>1
    <3> HIDE DEF Wrong
    <3> QED  BY <3>1, LowestExists
  <2>2. k \in 0..n /\ g[k] # U(k)
    BY <2>1
  <2>3. k # 0
    <3>1. 0 \in 0..n /\ Step(g, 0) = {} /\ U(0) = {}
      BY <1>1
    <3> HIDE DEF Step, U
    <3> QED  BY <1>5, <2>2, <3>1
  <2> DEFINE p == tables[k].parent
  <2>4. /\ p \in 0..(k - 1) /\ U(k) = {k} \cup U(p)
    <3>1. k \in 1..n  BY <2>2, <2>3
    <3> HIDE DEF U
    <3> QED  BY <1>2, <3>1
  <2>5. g[k] = {k} \cup g[p]
    BY <1>5, <2>2, <2>3
  <2> HIDE DEF U, p
  <2>6. p \in 0..n /\ p < k
    BY <1>1, <2>2, <2>4
  <2>7. g[p] = U(p)
    <3>1. p \notin Wrong
      <4> HIDE DEF Wrong
      <4> QED  BY <1>1, <2>1, <2>2, <2>6
    <3> QED  BY <2>6, <3>1
  <2> QED  BY <2>2, <2>4, <2>5, <2>7
<1>8. g[n] = U(n)
  <2> HIDE DEF U
  <2> QED  BY <1>1, <1>7
<1>9. U(n) = {j \in 1..n : j = n \/ Counts(tables, j)}
  BY <1>1
<1> HIDE DEF U
<1> QED
  BY <1>6, <1>8, <1>9 DEF Top

\* Nothing is found in an empty table.
LEMMA NothingInEmpty ==
  ASSUME NEW needle
  PROVE  ~binary_search(needle, <<>>)
<1> DEFINE Is(f) == f = [w \in Windows(0) |-> Bisects(f, needle, <<>>, w)]
           e == [w \in Windows(0) |-> FALSE]
           g == CHOOSE f : Is(f)
<1>1. \A f, w : w \in Windows(0) => ~Bisects(f, needle, <<>>, w)
  BY DEF Windows, Bisects
<1>2. \A f, w : w \in Windows(0) => Bisects(f, needle, <<>>, w) = FALSE
  BY <1>1 DEF Bisects
<1>3. Is(e)
  <2> DEFINE b == [w \in Windows(0) |-> Bisects(e, needle, <<>>, w)]
  <2>1. e = b  BY <1>2, Zenon
  <2> HIDE DEF e
  <2> QED  BY <2>1
<1>4. Is(g)
  <2> HIDE DEF Is, e
  <2> QED  BY <1>3
<1>5. <<0, 0>> \in Windows(0)
  BY DEF Windows
<1>6. g[<<0, 0>>] = Bisects(g, needle, <<>>, <<0, 0>>)
  <2> DEFINE b == [w \in Windows(0) |-> Bisects(g, needle, <<>>, w)]
  <2>1. g = b  BY <1>4
  <2>2. b[<<0, 0>>] = Bisects(g, needle, <<>>, <<0, 0>>)  BY <1>5, Zenon
  <2> HIDE DEF b
  <2> QED  BY <2>1, <2>2
<1>7. Len(<<>>) = 0
  OBVIOUS
<1>8. binary_search(needle, <<>>) = g[<<0, 0>>]
  BY <1>7, BinarySearchIs DEF Is
<1> QED
  BY <1>2, <1>5, <1>6, <1>8

\* A table with nothing, or inverted rules alone, rejects nothing.
LEMMA EmptyRejectsNothing ==
  ASSUME NEW ig, is_empty(ig), NEW x
  PROVE  ~Rejects(ig, x)
<1>1. /\ ig.extensions = <<>> /\ ig.names = <<>> /\ ig.slash_names = <<>>
      /\ ig.regexes = <<>> /\ ig.slash_regexes = <<>>
  <2>1. \A c \in {"extensions", "names", "slash_names", "regexes",
                  "slash_regexes"} : ig[c] = <<>>
    BY DEF is_empty, Class
  <2> QED  BY <2>1
<1>2. \A needle : ~binary_search(needle, <<>>)
  BY NothingInEmpty
<1>3. DOMAIN <<>> = {}
  OBVIOUS
<1>4. ASSUME NEW filename
      PROVE  ~path_ignore_search(ig, filename)
  BY <1>1, <1>2, <1>3, Zenon DEF path_ignore_search
<1> QED
  BY <1>1, <1>2, <1>4 DEF Rejects

\* So it makes no difference whether such tables are passed over.
LEMMA InvSkips == TableInv => EmptyTablesSkipped
<1> SUFFICES ASSUME TableInv, NEW x \in Name
             PROVE  Ignored(x) <=> \E k \in DOMAIN tables : Rejects(tables[k], x)
  BY DEF EmptyTablesSkipped
<1>1. DOMAIN tables = 1..Top /\ Top \in Nat
  BY DEF TableInv, TablesHold, Top
<1>2. ASSUME NEW k \in 1..Top, Rejects(tables[k], x)
      PROVE  k \in Chain
  <2>1. ~is_empty(tables[k])
    BY <1>2, EmptyRejectsNothing
  <2>2. Counts(tables, k)
    BY <2>1 DEF Counts
  <2> QED  BY <2>2, ChainIs
<1>3. Chain \subseteq 1..Top
  BY ChainIs
<1> QED  BY <1>1, <1>2, <1>3 DEF Ignored

\* Whether the chain passes over such tables or not, the same is ignored: a
\* chain of parents that is shorter than the walk is deep loses no rule.
THEOREM EmptyTablesLoseNothing == Spec => []EmptyTablesSkipped
<1> QED
  BY InvInit, InvStep, InvSkips, PTL DEF Spec

-----------------------------------------------------------------------------
(* Names in paths                                                           *)

\* The first n characters of the names with slashes between and after them.
PathText(path, n) ==
  [k \in 1..n |-> IF k % 2 = 1 THEN path[(k + 1) \div 2] ELSE "/"]

\* What Components makes of a text.
PartsOf(text) == [k \in 1..((Len(text) + 1) \div 2) |-> text[2 * k - 1]]

\* The parts are found in the path from place k on.
PartsAt(path, parts, k) ==
  \A j \in 1..Len(parts) : path[k - 1 + j] = parts[j]

\* Odd places are names, even ones slashes.
LEMMA PathTextIs ==
  ASSUME NEW path \in Seq(Name), NEW n \in Nat, n <= 2 * Len(path)
  PROVE  /\ PathText(path, n) \in Strings /\ Len(PathText(path, n)) = n
         /\ \A k \in Nat : 2 * k + 1 <= n =>
              /\ PathText(path, n)[2 * k + 1] = path[k + 1]
              /\ PathText(path, n)[2 * k + 1] # "/"
         /\ \A k \in Nat \ {0} : 2 * k <= n => PathText(path, n)[2 * k] = "/"
<1> DEFINE P == PathText(path, n)
<1>1. Len(path) \in Nat /\ \A j \in 1..Len(path) : path[j] \in Name
  OBVIOUS
<1>2. \A x \in Name : x # "/" /\ x \in Token
  BY IgnoreRulesAssumption DEF Token
<1>3. "/" \in Token
  BY DEF Token
<1>4. ASSUME NEW k \in Nat, 2 * k + 1 <= n
      PROVE  P[2 * k + 1] = path[k + 1] /\ k + 1 \in 1..Len(path)
  <2>1. 2 * k + 1 \in 1..n /\ (2 * k + 1) % 2 = 1 /\ (2 * k + 1 + 1) \div 2 = k + 1
    BY <1>4
  <2>2. k + 1 \in 1..Len(path)
    BY <1>1, <1>4
  <2> QED  BY <2>1, <2>2 DEF PathText
<1>5. ASSUME NEW k \in Nat \ {0}, 2 * k <= n
      PROVE  P[2 * k] = "/"
  <2>1. 2 * k \in 1..n /\ (2 * k) % 2 = 0
    BY <1>5
  <2> QED  BY <2>1 DEF PathText
<1>6. \A k \in 1..n : P[k] \in Token
  <2> TAKE k \in 1..n
  <2>1. CASE k % 2 = 1
    <3>1. PICK i \in Nat : k = 2 * i + 1
      <4>1. (k \div 2) \in Nat /\ k = 2 * (k \div 2) + 1
        BY <2>1
      <4> QED  BY <4>1
    <3> QED  BY <1>1, <1>2, <1>4, <3>1
  <2>2. CASE k % 2 = 0
    <3>1. (k \div 2) \in Nat \ {0} /\ k = 2 * (k \div 2)
      BY <2>2
    <3>2. PICK i \in Nat \ {0} : k = 2 * i
      BY <3>1
    <3> QED  BY <1>3, <1>5, <3>2
  <2> QED  BY <2>1, <2>2
<1>7. P = [k \in 1..n |-> P[k]] /\ n \in Nat
  BY DEF PathText
<1> HIDE DEF P
<1>8. P \in Seq(Token) /\ Len(P) = n
  <2> DEFINE Q == [k \in 1..n |-> P[k]]
  <2>1. Q \in Seq(Token) /\ Len(Q) = n
    BY <1>6
  <2> QED  BY <1>7, <2>1
<1> QED
  BY <1>1, <1>2, <1>4, <1>5, <1>8 DEF P, Strings

\* Of a text with a slash after each name there are half as many parts.
LEMMA PartsIs ==
  ASSUME NEW text \in Strings
  PROVE  /\ Len(PartsOf(text)) \in Nat
         /\ Len(text) = 2 * Len(PartsOf(text)) \/ Len(text) = 2 * Len(PartsOf(text)) - 1
         /\ DOMAIN PartsOf(text) = 1..Len(PartsOf(text))
         /\ PartsOf(text) \in Seq(Token)
         /\ \A k \in 1..Len(PartsOf(text)) : PartsOf(text)[k] = text[2 * k - 1]
<1> DEFINE l == (Len(text) + 1) \div 2
<1>1. Len(text) \in Nat /\ \A j \in 1..Len(text) : text[j] \in Token
  BY DEF Strings
<1>2. l \in Nat /\ (Len(text) = 2 * l \/ Len(text) = 2 * l - 1)
  BY <1>1
<1>3. PartsOf(text) = [k \in 1..l |-> text[2 * k - 1]]
  BY DEF PartsOf
<1> HIDE DEF l
<1>4. \A k \in 1..l : text[2 * k - 1] \in Token
  BY <1>1, <1>2
<1>5. PartsOf(text) \in Seq(Token) /\ Len(PartsOf(text)) = l
  BY <1>2, <1>3, <1>4
<1>6. DOMAIN PartsOf(text) = 1..l /\ \A k \in 1..l : PartsOf(text)[k] = text[2 * k - 1]
  BY <1>3
<1> QED
  BY <1>2, <1>5, <1>6

\* A part of a string is another when it is so place by place.
LEMMA SubSeqIs ==
  ASSUME NEW T, NEW s \in Seq(T), NEW t \in Seq(T), NEW k \in Nat \ {0},
         k - 1 + Len(t) <= Len(s)
  PROVE  SubSeq(s, k, k + Len(t) - 1) = t <=> \A j \in 1..Len(t) : s[k - 1 + j] = t[j]
<1> DEFINE n == Len(t)
           u == SubSeq(s, k, k + n - 1)
<1>1. n \in Nat /\ Len(s) \in Nat
  OBVIOUS
<1>2. u \in Seq(T) /\ Len(u) = n /\ \A j \in 1..n : u[j] = s[k - 1 + j]
  <2>1. Len(u) = n
    BY <1>1
  <2>6. DOMAIN u = 1..n
    BY <1>1
  <2>7. \A j \in 1..n : u[j] = s[k - 1 + j]
    BY <1>1
  <2>2. \A j \in 1..n : s[k - 1 + j] \in T
    BY <1>1
  <2>3. u = [j \in 1..n |-> u[j]]
    BY <1>1
  <2> HIDE DEF u, n
  <2>4. \A j \in 1..n : u[j] \in T
    BY <2>2, <2>7
  <2> DEFINE v == [j \in 1..n |-> u[j]]
  <2>5. v \in Seq(T)
    BY <1>1, <2>4
  <2> QED  BY <2>1, <2>3, <2>5, <2>7
<1>3. u = t <=> \A j \in 1..n : u[j] = t[j]
  <2>1. t \in Seq(T) /\ Len(t) = n  OBVIOUS
  <2> HIDE DEF u, n
  <2> QED  BY <1>2, <2>1
<1> HIDE DEF u
<1> QED
  BY <1>2, <1>3 DEF u

\* A text is found in a path at the places of names only, where its parts are.
LEMMA TextInPath ==
  ASSUME NEW path \in Seq(Name), NEW L \in Nat, L <= 2 * Len(path),
         NEW text \in Strings, Slashed(text), Len(text) > 0,
         NEW p \in 1..(L - Len(text) + 1)
  PROVE  SubSeq(PathText(path, L), p, p + Len(text) - 1) = text
           <=> \E k \in 1..(Len(path) - Len(PartsOf(text)) + 1) :
                 p = 2 * k - 1 /\ PartsAt(path, PartsOf(text), k)
<1> DEFINE P == PathText(path, L)
           parts == PartsOf(text)
           n == Len(text)
           l == Len(parts)
           m == Len(path)
<1>1. /\ P \in Strings /\ Len(P) = L
      /\ \A k \in Nat : 2 * k + 1 <= L => P[2 * k + 1] = path[k + 1] /\ P[2 * k + 1] # "/"
      /\ \A k \in Nat \ {0} : 2 * k <= L => P[2 * k] = "/"
  BY PathTextIs
<1>2. /\ l \in Nat /\ (n = 2 * l \/ n = 2 * l - 1)
      /\ \A k \in 1..l : parts[k] = text[2 * k - 1]
  BY PartsIs
<1>3. /\ n \in Nat /\ m \in Nat /\ n >= 1
      /\ \A j \in 1..n : text[j] = "/" <=> j % 2 = 0
  BY DEF Strings, Slashed
<1>4. p \in Nat \ {0} /\ p - 1 + n <= L
  BY <1>3
<1>5. SubSeq(P, p, p + n - 1) = text <=> \A j \in 1..n : P[p - 1 + j] = text[j]
  <2>1. P \in Seq(Token) /\ text \in Seq(Token) /\ p - 1 + Len(text) <= Len(P)
    BY <1>1, <1>4 DEF Strings
  <2> HIDE DEF P
  <2> QED  BY <1>4, <2>1, SubSeqIs
<1> HIDE DEF P, parts, l
<1>6. CASE p % 2 = 0
  <2>1. PICK i \in Nat \ {0} : p = 2 * i
    <3>1. (p \div 2) \in Nat \ {0} /\ p = 2 * (p \div 2)
      BY <1>4, <1>6
    <3> QED  BY <3>1
  <2> HIDE DEF n, m
  <2>2. P[p - 1 + 1] = "/"
    <3>1. p - 1 + 1 = 2 * i /\ 2 * i <= L  BY <1>3, <1>4, <2>1
    <3> QED  BY <1>1, <3>1
  <2>3. text[1] # "/"
    <3>1. 1 \in 1..n /\ 1 % 2 = 1  BY <1>3
    <3> QED  BY <1>3, <3>1
  <2>4. 1 \in 1..n  BY <1>3
  <2>5. ~\E k \in 1..(m - l + 1) : p = 2 * k - 1
    BY <1>2, <1>3, <2>1
  <2> QED  BY <1>5, <2>2, <2>3, <2>4, <2>5 DEF P, parts, l, n, m
<1>7. CASE p % 2 = 1
  <2>1. PICK k \in Nat \ {0} : p = 2 * k - 1
    <3>1. ((p + 1) \div 2) \in Nat \ {0} /\ p = 2 * ((p + 1) \div 2) - 1
      BY <1>4, <1>7
    <3> QED  BY <3>1
  <2> HIDE DEF n, m
  <2>2. k \in 1..(m - l + 1)
    <3>1. L <= 2 * m  BY DEF m
    <3> QED  BY <1>2, <1>3, <1>4, <2>1, <3>1
  <2>3. ASSUME NEW j \in 1..l
        PROVE  2 * j - 1 \in 1..n /\ P[p - 1 + (2 * j - 1)] = path[k - 1 + j]
               /\ text[2 * j - 1] = parts[j]
    <3>1. 2 * j - 1 \in 1..n  BY <1>2
    <3>2. /\ p - 1 + (2 * j - 1) = 2 * (k + j - 2) + 1 /\ k + j - 2 \in Nat
          /\ (k + j - 2) + 1 = k - 1 + j /\ 2 * (k + j - 2) + 1 <= L
      BY <1>3, <1>4, <2>1, <3>1
    <3> QED  BY <1>1, <1>2, <3>1, <3>2
  <2>4. ASSUME NEW j \in 1..n, \A i \in 1..l : j # 2 * i - 1
        PROVE  P[p - 1 + j] = text[j]
    <3>1. j % 2 = 0
      <4> SUFFICES ASSUME j % 2 = 1 PROVE FALSE  OBVIOUS
      <4>1. ((j + 1) \div 2) \in 1..l /\ j = 2 * ((j + 1) \div 2) - 1
        BY <1>2, <1>3
      <4> QED  BY <2>4, <4>1
    <3>2. PICK i \in Nat \ {0} : j = 2 * i
      <4>1. (j \div 2) \in Nat \ {0} /\ j = 2 * (j \div 2)
        BY <3>1, <1>3
      <4> QED  BY <4>1
    <3>3. /\ p - 1 + j = 2 * (k - 1 + i) /\ k - 1 + i \in Nat \ {0}
          /\ 2 * (k - 1 + i) <= L
      BY <1>3, <1>4, <2>1, <3>2
    <3>4. P[p - 1 + j] = "/"  BY <1>1, <3>3
    <3> QED  BY <1>3, <3>1, <3>4
  <2>5. (\A j \in 1..n : P[p - 1 + j] = text[j]) <=> PartsAt(path, parts, k)
    <3>1. ASSUME \A j \in 1..n : P[p - 1 + j] = text[j], NEW j \in 1..l
          PROVE  path[k - 1 + j] = parts[j]
      BY <2>3, <3>1
    <3>2. ASSUME PartsAt(path, parts, k), NEW j \in 1..n
          PROVE  P[p - 1 + j] = text[j]
      <4>1. CASE \E i \in 1..l : j = 2 * i - 1
        <5>1. PICK i \in 1..l : j = 2 * i - 1  BY <4>1
        <5>2. path[k - 1 + i] = parts[i]  BY <3>2 DEF PartsAt, l
        <5> QED  BY <2>3, <5>1, <5>2
      <4>2. CASE \A i \in 1..l : j # 2 * i - 1
        BY <2>4, <4>2
      <4> QED  BY <4>1, <4>2
    <3> QED  BY <3>1, <3>2 DEF PartsAt, l
  <2>6. \A i \in 1..(m - l + 1) : p = 2 * i - 1 => i = k
    BY <1>2, <1>3, <2>1
  <2> QED  BY <1>5, <2>1, <2>2, <2>5, <2>6 DEF P, parts, l, n, m
<1>8. p % 2 = 0 \/ p % 2 = 1
  BY <1>4
<1> QED
  BY <1>6, <1>7, <1>8

\* One character more.
LEMMA TextAppend ==
  ASSUME NEW path, NEW n \in Nat
  PROVE  PathText(path, n + 1)
           = PathText(path, n) \o <<IF (n + 1) % 2 = 1 THEN path[(n + 2) \div 2] ELSE "/">>
<1> DEFINE P == PathText(path, n)
           c == IF (n + 1) % 2 = 1 THEN path[(n + 2) \div 2] ELSE "/"
           Q == P \o <<c>>
<1>1. Len(P) = n /\ \A k \in 1..n : P[k] = IF k % 2 = 1 THEN path[(k + 1) \div 2] ELSE "/"
  BY DEF PathText
<1>2. Q = [k \in 1..(n + 1) |-> IF k <= n THEN P[k] ELSE c]
  <2>1. Len(<<c>>) = 1 /\ <<c>>[1] = c
    OBVIOUS
  <2> HIDE DEF P, c
  <2> QED  BY <1>1, <2>1
<1>3. ASSUME NEW k \in 1..(n + 1)
      PROVE  (IF k <= n THEN P[k] ELSE c) = IF k % 2 = 1 THEN path[(k + 1) \div 2] ELSE "/"
  <2>1. CASE k <= n
    BY <1>1, <2>1
  <2>2. CASE k = n + 1
    <3>1. k + 1 = n + 2 /\ ~(k <= n)  BY <2>2
    <3> QED  BY <2>2, <3>1
  <2> QED  BY <1>3, <2>1, <2>2
<1> HIDE DEF P, c, Q
<1>4. Q = PathText(path, n + 1)
  <2> DEFINE R == [k \in 1..(n + 1) |-> IF k % 2 = 1 THEN path[(k + 1) \div 2] ELSE "/"]
  <2>1. R = PathText(path, n + 1)  BY DEF PathText
  <2>2. Q = R  BY <1>2, <1>3
  <2> QED  BY <2>1, <2>2
<1> QED
  BY <1>4 DEF P, c, Q

\* A longer path starts with the same characters.
LEMMA TextOfLonger ==
  ASSUME NEW p, NEW q, NEW n \in Nat, \A j \in 1..((n + 1) \div 2) : p[j] = q[j]
  PROVE  PathText(p, n) = PathText(q, n)
<1>1. ASSUME NEW k \in 1..n, k % 2 = 1
      PROVE  (k + 1) \div 2 \in 1..((n + 1) \div 2)
  BY <1>1
<1> QED
  BY <1>1 DEF PathText

\* Without the first j names and the slashes after them a path is that of the rest.
LEMMA TextOfRest ==
  ASSUME NEW path \in Seq(Name), NEW j \in Nat, j <= Len(path),
         NEW n \in Nat, n >= 2 * j, n <= 2 * Len(path)
  PROVE  SubSeq(PathText(path, n), 2 * j + 1, n)
           = PathText(SubSeq(path, j + 1, Len(path)), n - 2 * j)
<1> DEFINE P == PathText(path, n)
           rest == SubSeq(path, j + 1, Len(path))
           i == n - 2 * j
           s == SubSeq(P, 2 * j + 1, n)
<1>1. i \in Nat /\ Len(path) \in Nat
  OBVIOUS
<1>2. s = [k \in 1..i |-> P[2 * j + k]]
  <2>1. P \in Strings /\ Len(P) = n
    BY PathTextIs
  <2> HIDE DEF P
  <2>2. \A k \in 1..i : k + (2 * j + 1) - 1 = 2 * j + k
    OBVIOUS
  <2>3. n - (2 * j + 1) + 1 = i
    OBVIOUS
  <2> QED  BY <2>1, <2>2, <2>3 DEF Strings
<1>3. rest = [k \in 1..(Len(path) - j) |-> path[j + k]]
  BY <1>1
<1>4. ASSUME NEW k \in 1..i
      PROVE  P[2 * j + k] = IF k % 2 = 1 THEN rest[(k + 1) \div 2] ELSE "/"
  <2>1. 2 * j + k \in 1..n
    OBVIOUS
  <2>2. P[2 * j + k] = IF (2 * j + k) % 2 = 1 THEN path[(2 * j + k + 1) \div 2] ELSE "/"
    BY <2>1 DEF PathText
  <2>3. (2 * j + k) % 2 = k % 2
    OBVIOUS
  <2>4. ASSUME k % 2 = 1
        PROVE  rest[(k + 1) \div 2] = path[(2 * j + k + 1) \div 2]
    <3>1. (2 * j + k + 1) \div 2 = j + (k + 1) \div 2
      OBVIOUS
    <3>2. (k + 1) \div 2 \in 1..(Len(path) - j)
      BY <1>1, <2>4
    <3> QED  BY <1>3, <3>1, <3>2
  <2> HIDE DEF P, rest
  <2> QED  BY <2>2, <2>3, <2>4
<1> HIDE DEF P, rest, i, s
<1>5. s = PathText(rest, i)
  BY <1>2, <1>4 DEF PathText
<1> QED
  BY <1>5 DEF s, P, rest, i

\* Join puts slashes between the names.
LEMMA JoinIs ==
  ASSUME NEW path \in Seq(Name)
  PROVE  /\ path = <<>> => Join(path) = <<>>
         /\ path # <<>> => Join(path) = PathText(path, 2 * Len(path) - 1)
<1> DEFINE n == 2 * Len(path) - 1
<1>1. Max({0, n}) \in {0, n} /\ 0 <= Max({0, n}) /\ n <= Max({0, n})
  <2>1. \E b \in Int : \A x \in {0, n} : x \in Int /\ x <= b
    <3>1. \A x \in {0, n} : x \in Int /\ x <= 2 * Len(path)  OBVIOUS
    <3> QED  BY <3>1
  <2>2. {0, n} # {}  OBVIOUS
  <2> HIDE DEF n
  <2> QED  BY <2>1, <2>2, MaxIs
<1>2. Join(path) = PathText(path, Max({0, n}))
  BY DEF Join, PathText
<1>3. CASE path = <<>>
  <2>1. n = -1  BY <1>3
  <2>2. Max({0, n}) = 0  BY <1>1, <2>1
  <2>3. PathText(path, 0) = <<>>
    <3>1. 1..0 = {}  OBVIOUS
    <3>2. PathText(path, 0) = [k \in {} |-> IF k % 2 = 1 THEN path[(k + 1) \div 2] ELSE "/"]
      BY <3>1 DEF PathText
    <3> QED  BY <3>2
  <2> QED  BY <1>2, <1>3, <2>2, <2>3
<1>4. CASE path # <<>>
  <2>1. n >= 1  BY <1>4
  <2>2. Max({0, n}) = n  BY <1>1, <2>1
  <2> QED  BY <1>2, <1>4, <2>2
<1> QED
  BY <1>3, <1>4

\* strstr finds a text in a path first where its parts are, and then it stands
\* there for whole names; with a slash at its end only if it is the path's end.
LEMMA FoundIn ==
  ASSUME NEW path \in Seq(Name), path # <<>>,
         NEW L \in {2 * Len(path) - 1, 2 * Len(path)},
         NEW text \in Strings, Slashed(text), Len(text) > 0
  PROVE  LET l == Len(PartsOf(text))
             At == {k \in 1..(Len(path) - l + 1) : PartsAt(path, PartsOf(text), k)}
         IN  /\ Len(text) = 2 * l - 1 =>
                  (SomewhereIn(text, PathText(path, L)) <=> At # {})
             /\ Len(text) = 2 * l /\ L = 2 * Len(path) - 1 =>
                  ~SomewhereIn(text, PathText(path, L))
             /\ Len(text) = 2 * l /\ L = 2 * Len(path)
                  /\ (\A k \in At : k = Len(path) - l + 1) =>
                  (SomewhereIn(text, PathText(path, L)) <=> At # {})
<1> DEFINE P == PathText(path, L)
           parts == PartsOf(text)
           n == Len(text)
           l == Len(parts)
           m == Len(path)
           At == {k \in 1..(m - l + 1) : PartsAt(path, parts, k)}
           places == {p \in 1..(Len(P) - n + 1) : SubSeq(P, p, p + n - 1) = text}
           first == Min(places)
<1>1. m \in Nat /\ m >= 1 /\ L \in Nat /\ L <= 2 * m /\ (L = 2 * m - 1 \/ L = 2 * m)
  BY EmptySeq
<1>2. /\ P \in Strings /\ Len(P) = L
      /\ \A k \in Nat : 2 * k + 1 <= L => P[2 * k + 1] # "/"
      /\ \A k \in Nat \ {0} : 2 * k <= L => P[2 * k] = "/"
  BY <1>1, PathTextIs
<1>3. l \in Nat /\ n \in Nat /\ n >= 1 /\ (n = 2 * l \/ n = 2 * l - 1)
  BY PartsIs DEF Strings
<1>4. \A p : p \in places <=> p \in 1..(L - n + 1) /\ \E k \in At : p = 2 * k - 1
  <2> SUFFICES ASSUME NEW p \in 1..(L - n + 1)
               PROVE  SubSeq(P, p, p + n - 1) = text <=> \E k \in At : p = 2 * k - 1
    BY <1>2
  <2>1. SubSeq(P, p, p + n - 1) = text
          <=> \E k \in 1..(m - l + 1) : p = 2 * k - 1 /\ PartsAt(path, parts, k)
    BY <1>1, TextInPath
  <2> QED  BY <2>1
<1>5. places \subseteq Nat
  <2> HIDE DEF P
  <2> QED  BY <1>2, <1>3, <1>1
<1> HIDE DEF places
<1>6. places # {} => first \in places /\ \A p \in places : first <= p
  BY <1>5, MinIs
<1>7. SomewhereIn(text, P) <=>
        /\ places # {}
        /\ first = 1 \/ P[first - 1] = "/"
        /\ first + n > L \/ P[first + n] = "/"
  BY <1>2 DEF SomewhereIn, places
<1> HIDE DEF P, n, m, first
<1>8. ASSUME NEW k \in At, first = 2 * k - 1
      PROVE  first = 1 \/ P[first - 1] = "/"
  <2>1. k \in 1..(m - l + 1)  OBVIOUS
  <2>2. CASE k = 1
    BY <1>8, <2>2
  <2>3. CASE k # 1
    <3>1. k - 1 \in Nat \ {0} /\ first - 1 = 2 * (k - 1) /\ 2 * (k - 1) <= L
      BY <1>1, <1>3, <1>8, <2>1, <2>3
    <3> QED  BY <1>2, <3>1
  <2> QED  BY <2>2, <2>3
<1>9. ASSUME n = 2 * l - 1
      PROVE  SomewhereIn(text, P) <=> At # {}
  <2>1. ASSUME places # {}
        PROVE  SomewhereIn(text, P)
    <3>1. PICK k \in At : first = 2 * k - 1
      BY <1>4, <1>6, <2>1
    <3>2. k \in 1..(m - l + 1)  OBVIOUS
    <3>3. /\ k + l - 1 \in Nat \ {0} /\ first + n = 2 * (k + l - 1)
      BY <1>1, <1>3, <1>9, <3>1, <3>2
    <3>4. first + n > L \/ P[first + n] = "/"
      <4>1. ~(2 * (k + l - 1) > L) => 2 * (k + l - 1) <= L
        BY <1>1, <3>3
      <4> QED  BY <1>2, <3>3, <4>1
    <3> QED  BY <1>7, <1>8, <2>1, <3>1, <3>4
  <2>2. ASSUME NEW k \in At
        PROVE  2 * k - 1 \in places
    <3>1. k \in 1..(m - l + 1)  OBVIOUS
    <3>2. 2 * k - 1 \in 1..(L - n + 1)
      BY <1>1, <1>3, <1>9, <3>1
    <3> QED  BY <1>4, <3>2
  <2>3. SomewhereIn(text, P) => places # {}
    BY <1>7
  <2>4. places # {} => At # {}
    BY <1>4
  <2> QED  BY <2>1, <2>2, <2>3, <2>4
<1>10. ASSUME n = 2 * l, places # {}, SomewhereIn(text, P)
       PROVE  L = 2 * m /\ At # {}
  <2>1. PICK k \in At : first = 2 * k - 1 /\ first \in 1..(L - n + 1)
    BY <1>4, <1>6, <1>10
  <2>2. k \in 1..(m - l + 1)  OBVIOUS
  <2>3. k + l - 1 \in Nat /\ first + n = 2 * (k + l - 1) + 1
    BY <1>1, <1>3, <1>10, <2>1, <2>2
  <2>4. P[first + n] = "/" => first + n > L
    <3>1. ~(first + n > L) => 2 * (k + l - 1) + 1 <= L
      BY <1>1, <2>3
    <3> QED  BY <1>2, <2>3, <3>1
  <2>5. first + n > L
    BY <1>7, <1>10, <2>4
  <2>6. first + n <= L + 1
    BY <1>1, <1>3, <2>1
  <2>7. L = 2 * (k + l - 1)
    BY <1>1, <2>3, <2>5, <2>6
  <2> QED  BY <1>1, <2>1, <2>2, <2>7
<1>11. ASSUME n = 2 * l, L = 2 * m, \A k \in At : k = m - l + 1, NEW k \in At
       PROVE  SomewhereIn(text, P)
  <2>1. k \in 1..(m - l + 1) /\ k = m - l + 1
    BY <1>11
  <2>2. 2 * k - 1 \in 1..(L - n + 1)
    BY <1>1, <1>3, <1>11, <2>1
  <2>3. 2 * k - 1 \in places
    BY <1>4, <2>2
  <2>4. PICK j \in At : first = 2 * j - 1
    BY <1>4, <1>6, <2>3
  <2>5. j = k
    BY <1>11
  <2>6. first + n > L
    BY <1>1, <1>3, <1>11, <2>1, <2>4, <2>5
  <2> QED  BY <1>7, <1>8, <2>3, <2>4, <2>6
<1>12. SomewhereIn(text, P) => places # {}
  BY <1>7
<1>13. ~(2 * m - 1 = 2 * m)
  BY <1>1
<1> HIDE DEF At, l
<1>14. /\ n = 2 * l - 1 => (SomewhereIn(text, P) <=> At # {})
       /\ n = 2 * l /\ L = 2 * m - 1 => ~SomewhereIn(text, P)
       /\ n = 2 * l /\ L = 2 * m /\ (\A k \in At : k = m - l + 1) =>
            (SomewhereIn(text, P) <=> At # {})
  BY <1>9, <1>10, <1>11, <1>12, <1>13
<1> QED
  BY <1>14 DEF At, P, n, m, l, parts

\* A text is a whole path when its parts are the path.
LEMMA TextIsPath ==
  ASSUME NEW path \in Seq(Name), path # <<>>,
         NEW L \in {2 * Len(path) - 1, 2 * Len(path)},
         NEW text \in Strings, Slashed(text)
  PROVE  text = PathText(path, L) <=> Len(text) = L /\ PartsOf(text) = path
<1> DEFINE P == PathText(path, L)
           parts == PartsOf(text)
           m == Len(path)
<1>1. m \in Nat /\ m >= 1 /\ L \in Nat /\ L <= 2 * m /\ (L = 2 * m - 1 \/ L = 2 * m)
  BY EmptySeq
<1>2. P \in Strings /\ Len(P) = L
  BY <1>1, PathTextIs
<1>3. /\ Len(parts) \in Nat /\ Len(text) \in Nat
      /\ (Len(text) = 2 * Len(parts) \/ Len(text) = 2 * Len(parts) - 1)
      /\ parts \in Seq(Token)
  BY PartsIs DEF Strings
<1>4. ASSUME Len(text) = L
      PROVE  text = P <=> parts = path
  <2>1. Len(parts) = m
    BY <1>1, <1>3, <1>4
  <2>2. SubSeq(P, 1, 1 + L - 1) = P
    <3> HIDE DEF P
    <3> QED  BY <1>1, <1>2 DEF Strings
  <2>3. 1 \in 1..(L - Len(text) + 1) /\ Len(text) > 0
    BY <1>1, <1>4
  <2>4. P = text <=> \E k \in 1..(m - Len(parts) + 1) : 1 = 2 * k - 1 /\ PartsAt(path, parts, k)
    <3>1. SubSeq(P, 1, 1 + Len(text) - 1) = text
            <=> \E k \in 1..(m - Len(parts) + 1) : 1 = 2 * k - 1 /\ PartsAt(path, parts, k)
      BY <1>1, <2>3, TextInPath
    <3> QED  BY <1>4, <2>2, <3>1
  <2>5. P = text <=> PartsAt(path, parts, 1)
    <3> HIDE DEF P, parts, m
    <3> QED  BY <1>1, <2>1, <2>4
  <2>6. PartsAt(path, parts, 1) <=> parts = path
    <3>1. PartsAt(path, parts, 1) <=> \A j \in 1..m : path[j] = parts[j]
      <4>1. \A j \in 1..m : 1 - 1 + j = j  OBVIOUS
      <4> QED  BY <2>1, <4>1 DEF PartsAt
    <3>2. path \in Seq(Token)
      BY DEF Token
    <3> HIDE DEF parts
    <3> QED  BY <1>3, <2>1, <3>1, <3>2
  <2> QED  BY <2>5, <2>6
<1> QED
  BY <1>2, <1>4

-----------------------------------------------------------------------------
(* What a table is asked about                                              *)

\* temp and slash_filename of path_ignore_search.
Temp(filename) == PathStart \o <<"/">> \o filename

SlashName(abs_path, filename) ==
  LET below == SubSeq(Temp(filename), Len(abs_path) + 1, Len(Temp(filename)))
  IN  IF below # <<>> /\ below[1] = "/" THEN Tail(below) ELSE below

\* A table has the path of its directory, from the argument on.
AbsPaths ==
  \A t \in 1..Top :
    tables[t].abs_path = IF t <= 2 THEN <<>> ELSE PathText(dirs, 2 * (t - 2) - 1)

\* Paths are not taken for others.
PathsPlain ==
  /\ argument # "relative"
  /\ ~(argument = "absolute" /\ dirs # <<>> /\ dirs[1] \in Hidden)

\* The directories of the walk from that of a table on.
DirsFrom(t) == SubSeq(dirs, Max({1, t - 1}), Len(dirs))

\* The place of a table's directory in dirs.
LEMMA FirstIs ==
  ASSUME NEW t \in Nat \ {0}
  PROVE  Max({1, t - 1}) = IF t <= 2 THEN 1 ELSE t - 1
<1> DEFINE S == {1, t - 1}
<1>1. S # {} /\ t \in Int /\ \A i \in S : i \in Int /\ i <= t
  OBVIOUS
<1> HIDE DEF S
<1>2. Max(S) \in S /\ \A i \in S : i <= Max(S)
  BY <1>1, MaxIs
<1>3. (Max(S) = 1 \/ Max(S) = t - 1) /\ 1 <= Max(S) /\ t - 1 <= Max(S)
  BY <1>2 DEF S
<1> QED
  BY <1>3 DEF S

\* The first two tables are those of the argument, then there is one for each
\* directory.
LEMMA DirsFromIs ==
  ASSUME TableInv, Top > 1, NEW t \in 1..Top
  PROVE  /\ Top = Len(dirs) + 2
         /\ t <= 2 => DirsFrom(t) = dirs
         /\ t > 2 => /\ t - 2 \in 1..Len(dirs)
                     /\ DirsFrom(t) = SubSeq(dirs, (t - 2) + 1, Len(dirs))
         /\ DirsFrom(t) \in Seq(Name)
<1>1. /\ dirs \in Seq(Dirs) /\ dirs \in Seq(Name) /\ Len(dirs) \in Nat
      /\ Top = Len(dirs) + 2 /\ t \in Nat /\ t >= 1 /\ t <= Top
  <2>1. /\ dirs \in Seq(Dirs) /\ (Len(tables) = 1 \/ Len(tables) = 2 + Len(dirs))
    BY DEF TableInv
  <2>2. dirs \in Seq(Name) /\ Len(dirs) \in Nat
    BY <2>1 DEF Dirs
  <2>3. Top = Len(dirs) + 2
    <3>1. Len(tables) > 1
      BY DEF Top
    <3>2. Len(tables) # 1
      <4>1. Len(tables) \in Nat
        BY DEF TableInv, TablesHold
      <4>2. \A n \in Nat : n > 1 => n # 1
        OBVIOUS
      <4> QED  BY <3>1, <4>1, <4>2
    <3>3. Len(tables) = 2 + Len(dirs)
      BY <2>1, <3>2
    <3> QED  BY <2>2, <3>3 DEF Top
  <2>4. t \in Nat /\ t >= 1 /\ t <= Top
    BY <2>2, <2>3
  <2> QED  BY <2>1, <2>2, <2>3, <2>4
<1>2. Max({1, t - 1}) = IF t <= 2 THEN 1 ELSE t - 1
  BY <1>1, FirstIs
<1>3. t <= 2 => Max({1, t - 1}) = 1
  BY <1>2
<1>4. t > 2 => Max({1, t - 1}) = (t - 2) + 1
  BY <1>1, <1>2
<1>5. SubSeq(dirs, 1, Len(dirs)) = dirs
  BY <1>1
<1>6. ASSUME t > 2 PROVE SubSeq(dirs, (t - 2) + 1, Len(dirs)) \in Seq(Name)
  <2>1. (t - 2) + 1 \in Nat \ {0}  BY <1>1, <1>6
  <2> QED  BY <1>1, <2>1
<1>7. t <= 2 => DirsFrom(t) = dirs
  BY <1>3, <1>5 DEF DirsFrom
<1>8. t > 2 => DirsFrom(t) = SubSeq(dirs, (t - 2) + 1, Len(dirs))
  BY <1>4 DEF DirsFrom
<1>9. t > 2 => t - 2 \in 1..Len(dirs)
  BY <1>1
<1>10. DirsFrom(t) \in Seq(Name)
  <2>1. t <= 2 \/ t > 2  BY <1>1
  <2> QED  BY <1>1, <1>6, <1>7, <1>8, <2>1
<1> QED
  BY <1>1, <1>7, <1>8, <1>9, <1>10

\* The path a table is asked about.
LEMMA PathFromIs ==
  ASSUME TableInv, Top > 1, NEW t \in 1..Top, NEW x \in Name
  PROVE  /\ PathFrom(t, x) = DirsFrom(t) \o <<x>>
         /\ PathFrom(t, x) \in Seq(Name) /\ PathFrom(t, x) # <<>>
         /\ Len(PathFrom(t, x)) = Len(DirsFrom(t)) + 1
         /\ PathFrom(t, x)[Len(PathFrom(t, x))] = x
         /\ \A k \in 1..Len(DirsFrom(t)) : PathFrom(t, x)[k] = DirsFrom(t)[k]
<1>1. PathFrom(t, x) = DirsFrom(t) \o <<x>>
  BY DEF PathFrom, DirsFrom
<1>2. DirsFrom(t) \in Seq(Name)
  BY DirsFromIs
<1> QED
  BY <1>1, <1>2

\* The strings of the walk: an entry's path, after a slash for the argument ".".
LEMMA TempIs ==
  ASSUME TableInv, PathsPlain, NEW x \in Name, NEW filename \in {<<x>>, <<x, "/">>}
  PROVE  LET body == PathText(dirs \o <<x>>, 2 * Len(dirs) + Len(filename))
         IN  IF argument = "absolute" /\ dirs # <<>> THEN Temp(filename) = body
             ELSE Temp(filename) = <<"/">> \o body
<1> DEFINE d == Len(dirs)
           W == dirs \o <<x>>
           body == PathText(W, 2 * d + Len(filename))
<1>1. dirs \in Seq(Name) /\ d \in Nat
  BY DEF TableInv, Dirs
<1>2. /\ W \in Seq(Name) /\ Len(W) = d + 1 /\ W[d + 1] = x
      /\ \A j \in 1..d : W[j] = dirs[j]
  BY <1>1
<1>3. x \in Token /\ "/" \in Token
  BY DEF Token
<1>8. filename \in Seq(Token)
  <2>1. <<x>> \in Seq(Token) /\ <<x, "/">> \in Seq(Token)
    BY <1>3
  <2> QED  BY <2>1
<1>4. PathText(dirs, 2 * d) \in Strings /\ Len(PathText(dirs, 2 * d)) = 2 * d
  <2>1. 2 * d \in Nat /\ 2 * d <= 2 * d
    BY <1>1
  <2> QED  BY <1>1, <2>1, PathTextIs
<1>5. body = PathText(dirs, 2 * d) \o filename
  <2>1. PathText(W, 2 * d) = PathText(dirs, 2 * d)
    <3>1. (2 * d + 1) \div 2 = d  BY <1>1
    <3> HIDE DEF W
    <3> QED  BY <1>1, <1>2, <3>1, TextOfLonger
  <2>2. PathText(W, 2 * d + 1) = PathText(dirs, 2 * d) \o <<x>>
    <3>1. (2 * d + 1) % 2 = 1 /\ (2 * d + 2) \div 2 = d + 1 /\ 2 * d \in Nat
      BY <1>1
    <3> HIDE DEF W, d
    <3>2. PathText(W, 2 * d + 1) = PathText(W, 2 * d) \o <<W[d + 1]>>
      BY <3>1, TextAppend
    <3> QED  BY <1>2, <2>1, <3>2
  <2>3. PathText(W, 2 * d + 2) = PathText(dirs, 2 * d) \o <<x>> \o <<"/">>
    <3>1. ~((2 * d + 1 + 1) % 2 = 1) /\ 2 * d + 1 \in Nat /\ 2 * d + 1 + 1 = 2 * d + 2
      BY <1>1
    <3> HIDE DEF W, d
    <3>2. PathText(W, 2 * d + 1 + 1) = PathText(W, 2 * d + 1) \o <<"/">>
      BY <3>1, TextAppend
    <3> QED  BY <2>2, <3>1, <3>2
  <2>4. CASE filename = <<x>>
    <3>1. Len(filename) = 1  BY <2>4
    <3> QED  BY <2>2, <2>4, <3>1
  <2>5. CASE filename = <<x, "/">>
    <3>1. Len(filename) = 2  BY <2>5
    <3>2. PathText(dirs, 2 * d) \o <<x>> \o <<"/">> = PathText(dirs, 2 * d) \o <<x, "/">>
      <4> DEFINE u == PathText(dirs, 2 * d)
      <4>1. u \in Seq(Token)  BY <1>4 DEF Strings
      <4> HIDE DEF u
      <4>2. u \o <<x>> \o <<"/">> = u \o <<x, "/">>
        BY <1>3, <4>1
      <4> QED  BY <4>2 DEF u
    <3> QED  BY <2>3, <2>5, <3>1, <3>2
  <2> QED  BY <2>4, <2>5
<1>6. CASE dirs = <<>>
  <2>1. PathStart = <<>>
    BY <1>1, <1>6, JoinIs DEF PathStart, PathsPlain, TableInv
  <2>2. PathText(dirs, 2 * d) = <<>>
    <3>1. Len(PathText(dirs, 2 * d)) = 0
      <4>1. d = 0  BY <1>6
      <4> QED  BY <1>4, <4>1
    <3> HIDE DEF d
    <3> QED  BY <1>4, <3>1, EmptySeq DEF Strings
  <2>3. body = filename
    <3>1. <<>> \o filename = filename  BY <1>8
    <3> QED  BY <1>5, <2>2, <3>1
  <2>4. Temp(filename) = <<"/">> \o filename
    <3>1. <<>> \o <<"/">> = <<"/">>  OBVIOUS
    <3> QED  BY <2>1, <3>1 DEF Temp
  <2> QED  BY <1>6, <2>3, <2>4
<1>7. CASE dirs # <<>>
  <2>1. PathText(dirs, 2 * d) = Join(dirs) \o <<"/">> /\ Join(dirs) \in Strings
    <3>1. d >= 1  BY <1>1, <1>7, EmptySeq
    <3>2. 2 * d - 1 \in Nat /\ 2 * d - 1 + 1 = 2 * d /\ ~((2 * d) % 2 = 1)
          /\ 2 * d - 1 <= 2 * d
      BY <1>1, <3>1
    <3>3. Join(dirs) = PathText(dirs, 2 * d - 1)
      BY <1>1, <1>7, JoinIs
    <3> HIDE DEF d
    <3>4. PathText(dirs, 2 * d - 1 + 1) = PathText(dirs, 2 * d - 1) \o <<"/">>
      BY <3>2, TextAppend
    <3>5. PathText(dirs, 2 * d - 1) \in Strings
      BY <1>1, <3>2, PathTextIs DEF d
    <3> QED  BY <3>2, <3>3, <3>4, <3>5
  <2>2. body = Join(dirs) \o <<"/">> \o filename
    BY <1>5, <2>1
  <2>3. CASE argument = "absolute"
    <3>1. PathStart = Join(dirs)
      BY <1>7, <2>3 DEF PathStart, PathsPlain
    <3> QED  BY <1>7, <2>2, <2>3, <3>1 DEF Temp
  <2>4. CASE argument # "absolute"
    <3>1. PathStart = <<"/">> \o Join(dirs)
      BY <1>7, <2>4 DEF PathStart, PathsPlain, TableInv
    <3>3. <<"/">> \o Join(dirs) \o <<"/">> \o filename
            = <<"/">> \o (Join(dirs) \o <<"/">> \o filename)
      <4> DEFINE u == Join(dirs)
      <4>1. u \in Seq(Token)  BY <2>1 DEF Strings
      <4> HIDE DEF u
      <4> QED  BY <1>3, <1>8, <4>1 DEF u
    <3>4. Temp(filename) = <<"/">> \o body
      BY <2>2, <3>1, <3>3 DEF Temp
    <3> QED  BY <2>4, <3>4
  <2> QED  BY <2>3, <2>4
<1> QED
  BY <1>6, <1>7 DEF body, W, d


\* Tables see the paths below their directories where they are located, and
\* only there.
LEMMA SlashNameIs ==
  ASSUME TableInv, AbsPaths, PathsPlain, Top > 1, NEW t \in 1..Top,
         NEW x \in Name, NEW filename \in {<<x>>, <<x, "/">>}
  PROVE  /\ IsPrefix(tables[t].abs_path, Temp(filename)) <=> Located(t)
         /\ Located(t) =>
              SlashName(tables[t].abs_path, filename)
                = PathText(PathFrom(t, x), 2 * Len(PathFrom(t, x)) - 2 + Len(filename))
<1> DEFINE d == Len(dirs)
           e == Len(filename)
           W == dirs \o <<x>>
           body == PathText(W, 2 * d + e)
           temp == Temp(filename)
           abs == tables[t].abs_path
           path == PathFrom(t, x)
<1>1. dirs \in Seq(Name) /\ d \in Nat /\ Top = d + 2 /\ t \in Nat /\ t >= 1 /\ t <= Top
  <2>1. dirs \in Seq(Name) /\ d \in Nat
    BY DEF TableInv, Dirs
  <2>2. Top = d + 2
    BY DirsFromIs
  <2> HIDE DEF d
  <2> QED  BY <2>1, <2>2
<1>2. /\ W \in Seq(Name) /\ Len(W) = d + 1
      /\ \A j \in 1..d : W[j] = dirs[j]
  BY <1>1
<1>3. e = 1 \/ e = 2
  <2>1. Len(<<x>>) = 1 /\ Len(<<x, "/">>) = 2
    OBVIOUS
  <2> QED  BY <2>1
<1>4. IF argument = "absolute" /\ dirs # <<>> THEN temp = body
      ELSE temp = <<"/">> \o body
  BY TempIs
<1>5. abs = IF t <= 2 THEN <<>> ELSE PathText(dirs, 2 * (t - 2) - 1)
  BY DEF AbsPaths
<1>6. path = DirsFrom(t) \o <<x>>
  BY PathFromIs
<1>7. "/" \in Token /\ "/" \notin Name
  BY IgnoreRulesAssumption DEF Token
<1> HIDE DEF e, temp, abs, path
<1>8. /\ body \in Seq(Token) /\ Len(body) = 2 * d + e
      /\ body[1] # "/" /\ body[1] = W[1]
      /\ \A k \in Nat \ {0} : 2 * k <= 2 * d + e => body[2 * k] = "/"
  <2>1. 2 * d + e \in Nat /\ 2 * d + e <= 2 * Len(W) /\ 2 * 0 + 1 <= 2 * d + e
        /\ 2 * 0 + 1 = 1 /\ 0 + 1 = 1 /\ 0 \in Nat
    BY <1>1, <1>2, <1>3
  <2> HIDE DEF W, d
  <2>2. /\ body \in Strings /\ Len(body) = 2 * d + e
        /\ \A k \in Nat : 2 * k + 1 <= 2 * d + e =>
             body[2 * k + 1] = W[k + 1] /\ body[2 * k + 1] # "/"
        /\ \A k \in Nat \ {0} : 2 * k <= 2 * d + e => body[2 * k] = "/"
    BY <1>2, <2>1, PathTextIs
  <2>3. body[2 * 0 + 1] = W[0 + 1] /\ body[2 * 0 + 1] # "/"
    BY <2>1, <2>2
  <2> QED  BY <2>1, <2>2, <2>3 DEF Strings
<1>9. DOMAIN body = 1..(2 * d + e) /\ body # <<>> /\ \A k \in 1..(2 * d + e) : body[k] \in Token
  <2> HIDE DEF body, d
  <2>1. 2 * d + e > 0  BY <1>1, <1>3
  <2> QED  BY <1>8, <2>1
<1>10. ASSUME temp = <<"/">> \o body
       PROVE  /\ temp \in Seq(Token) /\ Len(temp) = 2 * d + e + 1 /\ temp[1] = "/"
              /\ Tail(temp) = body /\ temp # <<>>
  <2> DEFINE b == body
  <2>1. b \in Seq(Token) /\ Len(b) = 2 * d + e
    BY <1>8
  <2> DEFINE u == <<"/">> \o b
  <2>2. temp = u
    BY <1>10
  <2> HIDE DEF b, body
  <2>3. u \in Seq(Token) /\ Len(u) = Len(b) + 1 /\ u[1] = "/" /\ u # <<>> /\ Tail(u) = b
    BY <1>7, <2>1
  <2> HIDE DEF u, d
  <2>4. Len(b) + 1 = 2 * d + e + 1
    BY <2>1
  <2> QED  BY <2>2, <2>3, <2>4 DEF b
<1>11. CASE t <= 2
  <2>1. Located(t) /\ abs = <<>>
    BY <1>5, <1>11 DEF Located
  <2>2. path = W
    BY <1>6, <1>11, DirsFromIs
  <2>3. temp \in Seq(Token) /\ temp # <<>>
    BY <1>4, <1>8, <1>9, <1>10
  <2>4. IsPrefix(<<>>, temp)
    <3>1. Len(<<>>) = 0 /\ Len(temp) \in Nat /\ SubSeq(<<>>, 1, 0) = <<>>
      BY <2>3
    <3>2. SubSeq(temp, 1, 0) = <<>>
      BY <2>3
    <3>3. Len(<<>>) <= Len(temp)
      BY <3>1
    <3> QED  BY <3>1, <3>2, <3>3 DEF IsPrefix
  <2>5. SlashName(<<>>, filename) = IF temp[1] = "/" THEN Tail(temp) ELSE temp
    <3>1. Len(<<>>) + 1 = 1
      OBVIOUS
    <3>2. SubSeq(temp, 1, Len(temp)) = temp
      BY <2>3
    <3> QED  BY <2>3, <3>1, <3>2 DEF SlashName, temp
  <2>6. SlashName(<<>>, filename) = body
    <3>1. CASE temp = body
      <4>1. temp[1] # "/"
        BY <1>8, <3>1
      <4> QED  BY <2>5, <3>1, <4>1
    <3>2. CASE temp = <<"/">> \o body
      BY <1>10, <2>5, <3>2
    <3> QED  BY <1>4, <3>1, <3>2
  <2>7. 2 * Len(path) - 2 + e = 2 * d + e
    <3>1. Len(path) = d + 1  BY <1>2, <2>2
    <3> HIDE DEF d
    <3> QED  BY <1>1, <1>3, <3>1
  <2>8. body = PathText(path, 2 * Len(path) - 2 + e)
    BY <2>2, <2>7
  <2> QED  BY <2>1, <2>4, <2>6, <2>8 DEF temp, abs, path, e
<1>12. CASE t > 2
  <2> DEFINE j == t - 2
  <2>1. j \in Nat /\ j >= 1 /\ j <= d
    BY <1>1, <1>12
  <2>2. abs = PathText(dirs, 2 * j - 1)
    <3>1. ~(t <= 2)  BY <1>1, <1>12
    <3> QED  BY <1>5, <3>1
  <2>3. DirsFrom(t) = SubSeq(dirs, j + 1, d)
    BY <1>12, DirsFromIs
  <2>4. Located(t) <=> argument = "absolute"
    <3>1. ~(t <= 2)  BY <1>1, <1>12
    <3> QED  BY <3>1 DEF Located
  <2>5. dirs # <<>>
    BY <2>1
  <2> HIDE DEF j
  <2>6. path = SubSeq(W, j + 1, Len(W)) /\ Len(path) = d - j + 1
    <3> DEFINE u == SubSeq(dirs, j + 1, d) \o <<x>>
               v == SubSeq(W, j + 1, d + 1)
    <3>1. u \in Seq(Name) /\ Len(u) = d - j + 1
      BY <1>1, <2>1
    <3>2. v \in Seq(Name) /\ Len(v) = d - j + 1
      BY <1>1, <1>2, <2>1
    <3>3. \A k \in 1..(d - j + 1) : u[k] = v[k]
      BY <1>1, <1>2, <2>1
    <3>4. path = u
      BY <1>6, <2>3
    <3>5. v = SubSeq(W, j + 1, Len(W))
      BY <1>2
    <3> HIDE DEF u, v, d
    <3>6. u = v
      BY <3>1, <3>2, <3>3
    <3> QED  BY <3>1, <3>4, <3>5, <3>6
  <2>7. /\ abs \in Strings /\ Len(abs) = 2 * j - 1
        /\ abs[1] # "/"
        /\ abs = PathText(W, 2 * j - 1)
    <3>1. /\ 2 * j - 1 \in Nat /\ 2 * j - 1 <= 2 * Len(dirs) /\ 2 * 0 + 1 <= 2 * j - 1
          /\ 2 * 0 + 1 = 1 /\ 0 \in Nat /\ (2 * j - 1 + 1) \div 2 = j
      BY <1>1, <2>1
    <3>2. /\ abs \in Strings /\ Len(abs) = 2 * j - 1
          /\ \A k \in Nat : 2 * k + 1 <= 2 * j - 1 => abs[2 * k + 1] # "/"
      BY <1>1, <2>2, <3>1, PathTextIs
    <3>3. abs[2 * 0 + 1] # "/"
      BY <3>1, <3>2
    <3>4. \A i \in 1..j : dirs[i] = W[i]
      BY <1>1, <1>2, <2>1
    <3> HIDE DEF W
    <3>5. PathText(dirs, 2 * j - 1) = PathText(W, 2 * j - 1)
      BY <3>1, <3>4, TextOfLonger
    <3> QED  BY <2>2, <3>1, <3>2, <3>3, <3>5
  <2>8. CASE argument = "absolute"
    <3>1. temp = body
      BY <1>4, <2>5, <2>8
    <3>2. \A k \in 1..(2 * j - 1) : abs[k] = body[k] /\ k \in 1..(2 * d + e)
      <4> TAKE k \in 1..(2 * j - 1)
      <4>1. k \in 1..(2 * d + e)
        BY <1>1, <1>3, <2>1
      <4>2. abs[k] = IF k % 2 = 1 THEN W[(k + 1) \div 2] ELSE "/"
        BY <2>7 DEF PathText
      <4>3. body[k] = IF k % 2 = 1 THEN W[(k + 1) \div 2] ELSE "/"
        BY <4>1 DEF PathText
      <4> QED  BY <4>1, <4>2, <4>3
    <3> HIDE DEF body, d, W
    <3>3. IsPrefix(abs, body)
      <4>1. Len(abs) <= Len(body)
        BY <1>1, <1>3, <1>8, <2>1, <2>7
      <4>2. abs \in Seq(Token)
        BY <2>7 DEF Strings
      <4>3. SubSeq(abs, 1, Len(abs)) = abs
        BY <4>2
      <4>4. 1 - 1 + Len(abs) <= Len(body) /\ 1 + Len(abs) - 1 = Len(abs)
            /\ \A k \in 1..Len(abs) : body[1 - 1 + k] = abs[k]
        <5>1. \A k \in 1..Len(abs) : 1 - 1 + k = k  OBVIOUS
        <5>2. \A k \in 1..Len(abs) : body[k] = abs[k]
          BY <2>7, <3>2
        <5>3. Len(abs) \in Nat /\ Len(body) \in Nat
          BY <4>2, <1>8
        <5> QED  BY <4>1, <5>1, <5>2, <5>3
      <4>5. SubSeq(body, 1, 1 + Len(abs) - 1) = abs
        <5>1. 1 \in Nat \ {0}  OBVIOUS
        <5> QED  BY <1>8, <4>2, <4>4, <5>1, SubSeqIs
      <4> QED  BY <4>1, <4>3, <4>4, <4>5 DEF IsPrefix
    <3> DEFINE n == 2 * d + e
               below == SubSeq(body, 2 * j, n)
    <3>4. /\ below \in Seq(Token) /\ Len(below) = n - 2 * j + 1 /\ below # <<>>
          /\ below[1] = body[2 * j]
          /\ Tail(below) = SubSeq(body, 2 * j + 1, n)
      <4>1. n \in Nat /\ 2 * j \in Nat /\ 2 * j >= 1 /\ 2 * j < n
        BY <1>1, <1>3, <2>1
      <4>2. Len(body) = n
        BY <1>8
      <4> DEFINE i == 2 * j
      <4>3. /\ n \in Nat /\ i \in Nat /\ i >= 1 /\ i < n
        BY <4>1
      <4> HIDE DEF n, i
      <4> DEFINE u == SubSeq(body, i, n)
      <4>4. u \in Seq(Token) /\ Len(u) = n - i + 1 /\ u # <<>> /\ u[1] = body[i]
        BY <1>8, <4>2, <4>3
      <4>5. Tail(u) = SubSeq(body, i + 1, n)
        BY <1>8, <4>2, <4>3
      <4> QED  BY <4>4, <4>5 DEF i
    <3>5. body[2 * j] = "/"
      <4>1. j \in Nat \ {0} /\ 2 * j <= 2 * d + e
        BY <1>1, <1>3, <2>1
      <4> QED  BY <1>8, <4>1
    <3>6. SlashName(abs, filename) = SubSeq(body, 2 * j + 1, n)
      <4>1. Len(abs) + 1 = 2 * j /\ Len(body) = n
        <5> HIDE DEF n
        <5> QED  BY <1>8, <2>1, <2>7 DEF n
      <4>2. SubSeq(temp, Len(abs) + 1, Len(temp)) = below
        BY <3>1, <4>1
      <4>3. SlashName(abs, filename)
              = IF below # <<>> /\ below[1] = "/" THEN Tail(below) ELSE below
        BY <4>2 DEF SlashName, temp
      <4> HIDE DEF below
      <4> QED  BY <3>4, <3>5, <4>3
    <3>7. SubSeq(body, 2 * j + 1, n) = PathText(path, n - 2 * j)
      <4>1. n \in Nat /\ n >= 2 * j /\ n <= 2 * Len(W) /\ j <= Len(W)
        BY <1>1, <1>2, <1>3, <2>1
      <4> HIDE DEF n
      <4>2. SubSeq(PathText(W, n), 2 * j + 1, n)
              = PathText(SubSeq(W, j + 1, Len(W)), n - 2 * j)
        BY <1>2, <2>1, <4>1, TextOfRest
      <4>3. body = PathText(W, n)
        BY DEF body, n
      <4>4. SubSeq(body, 2 * j + 1, n) = PathText(path, n - 2 * j)
        BY <2>6, <4>2, <4>3, Zenon
      <4> QED  BY <4>4
    <3>8. n - 2 * j = 2 * Len(path) - 2 + e
      <4>1. Len(path) = d - j + 1
        BY <2>6
      <4> QED  BY <1>1, <1>3, <2>1, <4>1
    <3>9. IsPrefix(abs, temp)
      BY <3>1, <3>3
    <3> QED  BY <2>4, <2>8, <3>6, <3>7, <3>8, <3>9 DEF temp, abs, path, e
  <2>9. CASE argument # "absolute"
    <3>1. temp = <<"/">> \o body
      BY <1>4, <2>9
    <3>2. temp \in Seq(Token) /\ temp[1] = "/"
      BY <1>10, <3>1
    <3>3. ~IsPrefix(abs, temp)
      <4> SUFFICES ASSUME IsPrefix(abs, temp) PROVE FALSE  OBVIOUS
      <4> HIDE DEF body
      <4>1. Len(abs) >= 1 /\ Len(abs) \in Nat
        BY <2>1, <2>7
      <4>2. Len(abs) <= Len(temp) /\ SubSeq(abs, 1, Len(abs)) = SubSeq(temp, 1, Len(abs))
        BY DEF IsPrefix
      <4>3. SubSeq(abs, 1, Len(abs))[1] = abs[1]
        BY <2>7, <4>1 DEF Strings
      <4>4. SubSeq(temp, 1, Len(abs))[1] = temp[1]
        BY <3>2, <4>1, <4>2
      <4> QED  BY <2>7, <3>2, <4>2, <4>3, <4>4
    <3> QED  BY <2>4, <2>9, <3>3 DEF temp, abs
  <2> QED  BY <2>8, <2>9
<1>13. t <= 2 \/ t > 2
  BY <1>1
<1> QED
  BY <1>11, <1>12, <1>13


\* What the class of a line says of it.
LEMMA ClassIs ==
  ASSUME NEW line \in Lines
  PROVE  /\ class(line) = "extensions" <=> IsExtension(line)
         /\ class(line) = "slash_regexes" <=> Wild(line) /\ line.lead \in {"/", "./"}
         /\ class(line) = "invert_regexes" <=> line.lead = "!"
         /\ class(line) = "regexes" <=> Wild(line) /\ line.lead = "" /\ ~IsExtension(line)
         /\ class(line) = "slash_names" <=> ~Wild(line) /\ line.lead \in {"/", "./"}
         /\ ~Skipped(line) => (class(line) = "names" <=> ~Wild(line) /\ line.lead = "")
         /\ ~IsExtension(line) => pattern(line) = line.text
         /\ IsExtension(line) => /\ pattern(line) = <<Suffix[line.text[1]]>>
                                 /\ Suffix[line.text[1]] # ""
<1>1. line.lead \in {"", "./", "/", "!", "#"}
  BY IgnoreRulesAssumption DEF Line
<1>2. line.lead = "!" => Wild(line)
  BY DEF Wild
<1>3. IsExtension(line) => Wild(line) /\ line.lead = "" /\ Suffix[line.text[1]] # ""
  BY DEF IsExtension
<1>4. CASE line.lead = "" /\ IsExtension(line)
  <2>1. class(line) = "extensions"
    BY <1>3, <1>4 DEF class
  <2> QED  BY <1>3, <1>4, <2>1 DEF pattern
<1>5. CASE line.lead = "" /\ ~IsExtension(line) /\ Wild(line)
  <2>1. class(line) = "regexes"
    BY <1>5 DEF class
  <2> QED  BY <1>5, <2>1 DEF pattern
<1>6. CASE line.lead = "" /\ ~IsExtension(line) /\ ~Wild(line)
  <2>1. class(line) = "names"
    BY <1>6 DEF class
  <2> QED  BY <1>6, <2>1 DEF pattern
<1>7. CASE line.lead \in {"/", "./"} /\ Wild(line)
  <2>1. class(line) = "slash_regexes"
    BY <1>3, <1>7 DEF class
  <2> QED  BY <1>3, <1>7, <2>1 DEF pattern
<1>8. CASE line.lead \in {"/", "./"} /\ ~Wild(line)
  <2>1. class(line) = "slash_names"
    BY <1>3, <1>8 DEF class
  <2> QED  BY <1>3, <1>8, <2>1 DEF pattern
<1>9. CASE line.lead = "!"
  <2>1. class(line) = "invert_regexes"
    BY <1>2, <1>3, <1>9 DEF class
  <2> QED  BY <1>2, <1>3, <1>9, <2>1 DEF pattern
<1>10. CASE line.lead = "#"
  <2>1. class(line) = "names"
    BY <1>3, <1>10 DEF class
  <2>2. Skipped(line)
    BY <1>10 DEF Skipped
  <2> QED  BY <1>3, <1>10, <2>1, <2>2 DEF pattern
<1> QED
  BY <1>1, <1>4, <1>5, <1>6, <1>7, <1>8, <1>9, <1>10

\* A list of a table has the patterns of its class, and finds them.
LEMMA HeldPatterns ==
  ASSUME TableInv, NEW t \in 1..Top, NEW c \in Class
  PROVE  /\ {tables[t][c][k] : k \in DOMAIN tables[t][c]}
              = {pattern(l) : l \in {l \in written[t] : Adds(l, c)}}
         /\ \A s \in Strings : binary_search(s, tables[t][c])
              <=> \E l \in written[t] : Adds(l, c) /\ pattern(l) = s
         /\ written[t] \subseteq Lines
<1> DEFINE h == tables[t][c]
<1>1. /\ HoldsLines(tables[t], written[t]) /\ written[t] \subseteq Lines
  <2>1. TablesHold(tables, written)
    BY DEF TableInv
  <2> QED  BY <2>1 DEF TablesHold, Top
<1>2. /\ h \in Seq(Strings) /\ Sorted(h)
      /\ \A s : (\E j \in 1..Len(h) : h[j] = s)
                  <=> \E l \in written[t] : Adds(l, c) /\ pattern(l) = s
  BY <1>1 DEF HoldsLines
<1> HIDE DEF h
<1>3. DOMAIN h = 1..Len(h)
  BY <1>2
<1>4. {h[k] : k \in DOMAIN h} = {pattern(l) : l \in {l \in written[t] : Adds(l, c)}}
  BY <1>2, <1>3
<1>5. \A s \in Strings : binary_search(s, h)
        <=> \E l \in written[t] : Adds(l, c) /\ pattern(l) = s
  BY <1>2, BinarySearchFinds
<1> QED
  BY <1>1, <1>4, <1>5 DEF h

\* The path from a table to an entry, as it is asked about: with a slash after a
\* directory, too.
Path(t, x, filename) ==
  PathText(PathFrom(t, x), 2 * Len(PathFrom(t, x)) - 2 + Len(filename))

\* What a line makes path_ignore_search find.
Finds(t, line, x, filename) ==
  \/ /\ Adds(line, "names")
     /\ line.text = filename
          \/ (Located(t) /\ SomewhereIn(line.text, Path(t, x, filename)))
  \/ Adds(line, "slash_names") /\ Located(t) /\ line.text = Path(t, x, filename)
  \/ /\ Adds(line, "slash_regexes") /\ Located(t)
     /\ Path(t, x, filename) \in fnmatch[line.text[1]]
  \/ /\ Adds(line, "regexes") /\ filename \in fnmatch[line.text[1]]
     /\ \A l \in written[t] : l.lead = "!" => filename \notin fnmatch[l.text[1]]

\* A path is a string.
LEMMA PathIs ==
  ASSUME TableInv, Top > 1, NEW t \in 1..Top, NEW x \in Name,
         NEW filename \in {<<x>>, <<x, "/">>}
  PROVE  LET m == Len(PathFrom(t, x))
             L == 2 * m - 2 + Len(filename)
         IN  /\ L \in Nat /\ L > 0 /\ L <= 2 * m
             /\ filename = <<x>> => L = 2 * m - 1
             /\ filename = <<x, "/">> => L = 2 * m
             /\ Path(t, x, filename) \in Strings
             /\ Len(Path(t, x, filename)) = L
             /\ filename \in Strings
<1> DEFINE path == PathFrom(t, x)
           m == Len(path)
           L == 2 * m - 2 + Len(filename)
<1>1. path \in Seq(Name) /\ path # <<>>
  BY PathFromIs
<1>2. m \in Nat /\ m >= 1
  <2> HIDE DEF path
  <2> QED  BY <1>1, EmptySeq
<1>3. /\ filename = <<x>> => Len(filename) = 1
      /\ filename = <<x, "/">> => Len(filename) = 2
  OBVIOUS
<1> HIDE DEF m
<1>4. /\ L \in Nat /\ L > 0 /\ L <= 2 * m
      /\ filename = <<x>> => L = 2 * m - 1
      /\ filename = <<x, "/">> => L = 2 * m
  <2> DEFINE e == Len(filename)
  <2>1. /\ filename = <<x>> \/ filename = <<x, "/">>
        /\ filename = <<x>> => e = 1
        /\ filename = <<x, "/">> => e = 2
    BY <1>3
  <2>2. L = 2 * m - 2 + e
    OBVIOUS
  <2> HIDE DEF e, L
  <2>3. CASE e = 1
    BY <1>2, <2>1, <2>2, <2>3
  <2>4. CASE e = 2
    BY <1>2, <2>1, <2>2, <2>4
  <2> QED  BY <2>1, <2>3, <2>4
<1>5. Path(t, x, filename) = PathText(path, L)
  BY DEF Path, m
<1>6. PathText(path, L) \in Strings /\ Len(PathText(path, L)) = L
  <2> HIDE DEF path, L
  <2> QED  BY <1>1, <1>4, PathTextIs DEF m
<1>7. <<x>> \in Strings /\ <<x, "/">> \in Strings
  BY DEF Strings, Token
<1> HIDE DEF L
<1> QED
  BY <1>4, <1>5, <1>6, <1>7 DEF m, L, path

\* A string is in itself.
LEMMA WholeIsSomewhere ==
  ASSUME NEW s \in Strings, Len(s) > 0
  PROVE  SomewhereIn(s, s)
<1> DEFINE places == {k \in 1..(Len(s) - Len(s) + 1) : SubSeq(s, k, k + Len(s) - 1) = s}
<1>1. Len(s) \in Nat /\ SubSeq(s, 1, Len(s)) = s
  BY DEF Strings
<1>2. places = {1}
  <2>1. Len(s) - Len(s) + 1 = 1 /\ 1 + Len(s) - 1 = Len(s) /\ 1..1 = {1}
    BY <1>1
  <2>2. places = {k \in {1} : SubSeq(s, k, k + Len(s) - 1) = s}
    BY <2>1
  <2>3. SubSeq(s, 1, 1 + Len(s) - 1) = s
    BY <1>1, <2>1
  <2> QED  BY <2>2, <2>3
<1>3. Min(places) = 1 /\ places # {}
  <2>1. places \subseteq Nat /\ places # {}
    BY <1>2
  <2> HIDE DEF places
  <2>2. Min(places) \in places
    BY <2>1, MinIs
  <2> QED  BY <1>2, <2>1, <2>2
<1>4. 1 + Len(s) > Len(s)
  BY <1>1
<1> HIDE DEF places
<1> QED
  BY <1>3, <1>4 DEF SomewhereIn, places

\* path_ignore_search finds what a line of the table makes it find.
LEMMA SearchFinds ==
  ASSUME TableInv, AbsPaths, PathsPlain, Top > 1, NEW t \in 1..Top, NEW x \in Name,
         NEW filename \in {<<x>>, <<x, "/">>}
  PROVE  path_ignore_search(tables[t], filename)
           <=> \E line \in written[t] : Finds(t, line, x, filename)
<1> DEFINE ig == tables[t]
           P == Path(t, x, filename)
           ls == written[t]
<1>1. /\ IsPrefix(ig.abs_path, Temp(filename)) <=> Located(t)
      /\ Located(t) => SlashName(ig.abs_path, filename) = P
  BY SlashNameIs DEF Path
<1>2. P \in Strings /\ Len(P) > 0 /\ filename \in Strings
  BY PathIs
<1>3. path_ignore_search(ig, filename) <=>
        \/ binary_search(filename, ig.names)
        \/ /\ IsPrefix(ig.abs_path, Temp(filename))
           /\ \/ binary_search(SlashName(ig.abs_path, filename), ig.names)
              \/ binary_search(SlashName(ig.abs_path, filename), ig.slash_names)
              \/ \E k \in DOMAIN ig.names :
                   SomewhereIn(ig.names[k], SlashName(ig.abs_path, filename))
              \/ \E k \in DOMAIN ig.slash_regexes :
                   SlashName(ig.abs_path, filename) \in fnmatch[ig.slash_regexes[k][1]]
        \/ /\ ~\E k \in DOMAIN ig.invert_regexes :
                 filename \in fnmatch[ig.invert_regexes[k][1]]
           /\ \E k \in DOMAIN ig.regexes : filename \in fnmatch[ig.regexes[k][1]]
  BY Zenon DEF path_ignore_search, Temp, SlashName
<1> HIDE DEF ig, P
<1>4. path_ignore_search(ig, filename) <=>
        \/ binary_search(filename, ig.names)
        \/ /\ Located(t)
           /\ \/ binary_search(P, ig.names)
              \/ binary_search(P, ig.slash_names)
              \/ \E k \in DOMAIN ig.names : SomewhereIn(ig.names[k], P)
              \/ \E k \in DOMAIN ig.slash_regexes : P \in fnmatch[ig.slash_regexes[k][1]]
        \/ /\ ~\E k \in DOMAIN ig.invert_regexes :
                 filename \in fnmatch[ig.invert_regexes[k][1]]
           /\ \E k \in DOMAIN ig.regexes : filename \in fnmatch[ig.regexes[k][1]]
  BY <1>1, <1>3
<1> DEFINE Of(c) == {pattern(l) : l \in {l \in ls : Adds(l, c)}}
<1>5. \A c \in Class : {ig[c][k] : k \in DOMAIN ig[c]} = Of(c)
  BY HeldPatterns DEF ig
<1>6. \A c \in Class, s \in Strings : binary_search(s, ig[c])
        <=> \E l \in ls : Adds(l, c) /\ pattern(l) = s
  BY HeldPatterns DEF ig
<1>7. ls \subseteq Lines
  <2>1. "names" \in Class  BY DEF Class
  <2> QED  BY <2>1, HeldPatterns
<1>8. \A l \in ls : \A c \in Class \ {"extensions"} : Adds(l, c) => pattern(l) = l.text
  BY <1>7, ClassIs DEF Adds
<1>9. {"names", "slash_names", "slash_regexes", "regexes", "invert_regexes"}
        \subseteq Class \ {"extensions"}
  BY DEF Class
<1> HIDE DEF ls
<1>10. binary_search(filename, ig.names)
         <=> \E l \in ls : Adds(l, "names") /\ l.text = filename
  BY <1>2, <1>6, <1>8, <1>9
<1>11. binary_search(P, ig.names) <=> \E l \in ls : Adds(l, "names") /\ l.text = P
  BY <1>2, <1>6, <1>8, <1>9
<1>12. binary_search(P, ig.slash_names)
         <=> \E l \in ls : Adds(l, "slash_names") /\ l.text = P
  BY <1>2, <1>6, <1>8, <1>9
<1>13. (\E k \in DOMAIN ig.names : SomewhereIn(ig.names[k], P))
         <=> \E l \in ls : Adds(l, "names") /\ SomewhereIn(l.text, P)
  <2>1. {ig.names[k] : k \in DOMAIN ig.names} = Of("names")
    BY <1>5, <1>9
  <2>2. (\E k \in DOMAIN ig.names : SomewhereIn(ig.names[k], P))
          <=> \E s \in {ig.names[k] : k \in DOMAIN ig.names} : SomewhereIn(s, P)
    OBVIOUS
  <2>3. (\E s \in Of("names") : SomewhereIn(s, P))
          <=> \E l \in ls : Adds(l, "names") /\ SomewhereIn(pattern(l), P)
    OBVIOUS
  <2> HIDE DEF Of
  <2>4. \A l \in ls : Adds(l, "names") => pattern(l) = l.text
    BY <1>8, <1>9
  <2> QED  BY <2>1, <2>2, <2>3, <2>4, Zenon
<1>14. ASSUME NEW c \in {"slash_regexes", "regexes", "invert_regexes"}, NEW s
       PROVE  (\E k \in DOMAIN ig[c] : s \in fnmatch[ig[c][k][1]])
                <=> \E l \in ls : Adds(l, c) /\ s \in fnmatch[l.text[1]]
  <2>1. {ig[c][k] : k \in DOMAIN ig[c]} = Of(c)
    BY <1>5, <1>9
  <2>2. (\E k \in DOMAIN ig[c] : s \in fnmatch[ig[c][k][1]])
          <=> \E p \in {ig[c][k] : k \in DOMAIN ig[c]} : s \in fnmatch[p[1]]
    OBVIOUS
  <2>3. (\E p \in Of(c) : s \in fnmatch[p[1]])
          <=> \E l \in ls : Adds(l, c) /\ s \in fnmatch[pattern(l)[1]]
    OBVIOUS
  <2> HIDE DEF Of
  <2>4. \A l \in ls : Adds(l, c) => pattern(l) = l.text
    <3>1. c \in Class \ {"extensions"}  BY <1>9
    <3> QED  BY <1>8, <3>1
  <2> QED  BY <2>1, <2>2, <2>3, <2>4, Zenon
<1>15. /\ (\E k \in DOMAIN ig.slash_regexes : P \in fnmatch[ig.slash_regexes[k][1]])
             <=> \E l \in ls : Adds(l, "slash_regexes") /\ P \in fnmatch[l.text[1]]
       /\ (\E k \in DOMAIN ig.regexes : filename \in fnmatch[ig.regexes[k][1]])
             <=> \E l \in ls : Adds(l, "regexes") /\ filename \in fnmatch[l.text[1]]
       /\ (\E k \in DOMAIN ig.invert_regexes : filename \in fnmatch[ig.invert_regexes[k][1]])
             <=> \E l \in ls : Adds(l, "invert_regexes") /\ filename \in fnmatch[l.text[1]]
  <2>1. \A c \in {"slash_regexes", "regexes", "invert_regexes"} : \A s :
          (\E k \in DOMAIN ig[c] : s \in fnmatch[ig[c][k][1]])
             <=> \E l \in ls : Adds(l, c) /\ s \in fnmatch[l.text[1]]
    BY <1>14
  <2> QED  BY <2>1
<1>16. \A l \in ls : Adds(l, "invert_regexes") <=> l.lead = "!"
  <2> TAKE l \in ls
  <2>1. l \in Lines  BY <1>7
  <2>2. class(l) = "invert_regexes" <=> l.lead = "!"  BY <2>1, ClassIs
  <2>3. l.lead = "!" => ~Skipped(l)  BY DEF Skipped
  <2> QED  BY <2>2, <2>3 DEF Adds
<1>17. \A l \in ls : l.text = P => SomewhereIn(l.text, P)
  BY <1>2, WholeIsSomewhere
<1>18. path_ignore_search(ig, filename) <=>
         \/ \E l \in ls : Adds(l, "names") /\ l.text = filename
         \/ /\ Located(t)
            /\ \/ \E l \in ls : Adds(l, "names") /\ l.text = P
               \/ \E l \in ls : Adds(l, "slash_names") /\ l.text = P
               \/ \E l \in ls : Adds(l, "names") /\ SomewhereIn(l.text, P)
               \/ \E l \in ls : Adds(l, "slash_regexes") /\ P \in fnmatch[l.text[1]]
         \/ /\ ~\E l \in ls : Adds(l, "invert_regexes") /\ filename \in fnmatch[l.text[1]]
            /\ \E l \in ls : Adds(l, "regexes") /\ filename \in fnmatch[l.text[1]]
  BY <1>4, <1>10, <1>11, <1>12, <1>13, <1>15
<1>19. (~\E l \in ls : Adds(l, "invert_regexes") /\ filename \in fnmatch[l.text[1]])
         <=> \A l \in ls : l.lead = "!" => filename \notin fnmatch[l.text[1]]
  BY <1>16
<1>20. (\E line \in ls : Finds(t, line, x, filename)) <=>
         \/ \E l \in ls : Adds(l, "names") /\ l.text = filename
         \/ /\ Located(t)
            /\ \/ \E l \in ls : Adds(l, "slash_names") /\ l.text = P
               \/ \E l \in ls : Adds(l, "names") /\ SomewhereIn(l.text, P)
               \/ \E l \in ls : Adds(l, "slash_regexes") /\ P \in fnmatch[l.text[1]]
         \/ /\ \A l \in ls : l.lead = "!" => filename \notin fnmatch[l.text[1]]
            /\ \E l \in ls : Adds(l, "regexes") /\ filename \in fnmatch[l.text[1]]
  BY DEF Finds, P, ls
<1>21. (\E l \in ls : Adds(l, "names") /\ l.text = P)
         => \E l \in ls : Adds(l, "names") /\ SomewhereIn(l.text, P)
  BY <1>17
<1>22. path_ignore_search(ig, filename) <=> \E line \in ls : Finds(t, line, x, filename)
  BY <1>18, <1>19, <1>20, <1>21
<1> QED
  BY <1>22 DEF ig, ls


-----------------------------------------------------------------------------
(* What is ignored                                                          *)

\* Entries are asked about at all.
RulesCount == ~(opts.search_all_files /\ ~opts.path_to_ignore)

\* The parts are nowhere in the path.
Nowhere(path, parts) ==
  \A k \in 1..(Len(path) - Len(parts) + 1) : ~PartsAt(path, parts, k)

\* The walk is not in a directory that a line with a slash at its end names: it
\* would have been passed over.  strstr only finds the first place of a name.
NotPruned ==
  PathsPlain /\ RulesCount =>
    \A t \in 1..Top : Located(t) =>
      \A line \in written[t] : Adds(line, "names") /\ EndsInSlash(line) =>
        Nowhere(DirsFrom(t), PartsOf(line.text))

\* What a line of an ignore file says of an entry.
LineRejects(t, line, x) ==
  IF Wild(line) THEN PatternRejects(t, line, x) ELSE NameRejects(t, line, x)

\* Not wild lines that are not skipped are names with slashes.
LEMMA PlainLine ==
  ASSUME NEW line \in Lines, ~Wild(line)
  PROVE  /\ line.text \in Strings /\ Slashed(line.text)
         /\ Components(line) = PartsOf(line.text)
         /\ LET l == Len(Components(line)) IN
              /\ l \in Nat /\ Len(line.text) \in Nat
              /\ Len(line.text) = 2 * l \/ Len(line.text) = 2 * l - 1
              /\ l > 0 => (EndsInSlash(line) <=> Len(line.text) = 2 * l)
<1> DEFINE n == Len(line.text)
           l == Len(Components(line))
<1>1. line.text \in Strings /\ Slashed(line.text)
  <2>1. \A k \in DOMAIN line.text : line.text[k] \notin Glob
    BY DEF Wild
  <2> QED  BY <2>1, IgnoreRulesAssumption DEF Line, Strings
<1>2. Components(line) = PartsOf(line.text)
  BY DEF Components, PartsOf
<1>3. l \in Nat /\ n \in Nat /\ (n = 2 * l \/ n = 2 * l - 1)
  <2> DEFINE k == Len(PartsOf(line.text))
  <2>1. k \in Nat /\ (n = 2 * k \/ n = 2 * k - 1)
    BY <1>1, PartsIs
  <2>2. n \in Nat
    BY <1>1 DEF Strings
  <2>3. k = l
    BY <1>2
  <2> HIDE DEF k, l, n
  <2> QED  BY <2>1, <2>2, <2>3
<1>4. DOMAIN line.text = 1..n
  BY <1>1 DEF Strings
<1>5. l > 0 => n \in DOMAIN line.text
  <2> HIDE DEF l, n
  <2> QED  BY <1>3, <1>4
<1>6. l > 0 => (line.text[n] = "/" <=> n % 2 = 0)
  BY <1>1, <1>5 DEF Slashed
<1> HIDE DEF l, n
<1>7. n % 2 = 0 <=> n = 2 * l
  BY <1>3
<1> QED
  BY <1>1, <1>2, <1>3, <1>6, <1>7 DEF EndsInSlash, l, n

\* A line of the class names is found where it says.
LEMMA NamesReject ==
  ASSUME TableInv, NotPruned, PathsPlain, RulesCount, Top > 1,
         NEW t \in 1..Top, NEW x \in Name, NEW line \in written[t],
         line \in Lines, Adds(line, "names")
  PROVE  (\/ Finds(t, line, x, <<x>>)
          \/ x \in Dirs /\ Finds(t, line, x, <<x, "/">>))
           <=> LineRejects(t, line, x)
<1> DEFINE text == line.text
           parts == PartsOf(text)
           n == Len(text)
           l == Len(parts)
           path == PathFrom(t, x)
           m == Len(path)
           At == {k \in 1..(m - l + 1) : PartsAt(path, parts, k)}
           In(filename) == Located(t) /\ SomewhereIn(text, Path(t, x, filename))
<1>1. ~Skipped(line) /\ ~Wild(line) /\ line.lead = ""
  BY ClassIs DEF Adds
<1>2. /\ text \in Strings /\ Slashed(text) /\ Components(line) = parts
      /\ l \in Nat /\ n \in Nat /\ (n = 2 * l \/ n = 2 * l - 1)
      /\ l > 0 => (EndsInSlash(line) <=> n = 2 * l)
  BY <1>1, PlainLine
<1>3. n > 0 /\ l > 0
  <2>1. text # <<>>
    BY <1>1 DEF Skipped
  <2>2. n > 0
    BY <1>2, <2>1, EmptySeq DEF Strings
  <2> HIDE DEF n, l
  <2> QED  BY <1>2, <2>2
<1>4. path \in Seq(Name) /\ path # <<>> /\ m \in Nat /\ m >= 1 /\ path[m] = x
  <2>1. path \in Seq(Name) /\ path # <<>> /\ path[m] = x
    BY PathFromIs
  <2> HIDE DEF path
  <2> QED  BY <2>1, EmptySeq
<1>5. parts \in Seq(Token) /\ DOMAIN parts = 1..l
      /\ \A k \in 1..l : parts[k] = text[2 * k - 1]
  BY <1>2, PartsIs
<1>6. \A k \in 1..(m - l + 1) : SubSeq(path, k, k + l - 1) = parts <=> PartsAt(path, parts, k)
  <2> TAKE k \in 1..(m - l + 1)
  <2>1. k \in Nat \ {0} /\ k - 1 + l <= m
    <3> HIDE DEF l, m
    <3> QED  BY <1>2, <1>4
  <2>2. path \in Seq(Token)
    <3>1. Name \subseteq Token  BY DEF Token
    <3> HIDE DEF path
    <3> QED  BY <1>4, <3>1
  <2> HIDE DEF path, parts
  <2> QED  BY <1>5, <2>1, <2>2, SubSeqIs DEF PartsAt
<1>7. \A filename : Finds(t, line, x, filename) <=> text = filename \/ In(filename)
  <2>1. ~Adds(line, "slash_names") /\ ~Adds(line, "slash_regexes") /\ ~Adds(line, "regexes")
    BY DEF Adds
  <2> QED  BY <2>1 DEF Finds
<1>8. LineRejects(t, line, x) <=>
        /\ EndsInSlash(line) => x \in Dirs
        /\ \/ parts = <<x>>
           \/ Located(t) /\ \E k \in At : EndsInSlash(line) => k + l - 1 = m
  <2>1. LineRejects(t, line, x) <=> NameRejects(t, line, x)
    BY <1>1 DEF LineRejects
  <2>2. NameRejects(t, line, x) <=>
          /\ EndsInSlash(line) => x \in Dirs
          /\ \/ parts = <<x>>
             \/ Located(t) /\ \E k \in 1..(m - l + 1) :
                                /\ SubSeq(path, k, k + l - 1) = parts
                                /\ EndsInSlash(line) => k + l - 1 = m
    BY <1>1, <1>2, Zenon DEF NameRejects
  <2> QED  BY <1>6, <2>1, <2>2
<1>9. Path(t, x, <<x>>) = PathText(path, 2 * m - 1)
      /\ Path(t, x, <<x, "/">>) = PathText(path, 2 * m)
  <2>1. /\ Path(t, x, <<x>>) = PathText(path, 2 * m - 2 + Len(<<x>>))
        /\ Path(t, x, <<x, "/">>) = PathText(path, 2 * m - 2 + Len(<<x, "/">>))
    BY DEF Path
  <2> HIDE DEF m, path
  <2>2. 2 * m - 2 + Len(<<x>>) = 2 * m - 1 /\ 2 * m - 2 + Len(<<x, "/">>) = 2 * m
    BY <1>4
  <2> QED  BY <2>1, <2>2
<1>10. parts = <<x>> <=> l = 1 /\ text[1] = x
  <2>1. <<x>> \in Seq(Token) /\ Len(<<x>>) = 1 /\ <<x>>[1] = x
    BY DEF Token
  <2>2. l = 1 => parts[1] = text[1]
    <3>1. l = 1 => 1 \in 1..l  OBVIOUS
    <3>2. 2 * 1 - 1 = 1  OBVIOUS
    <3> QED  BY <1>5, <3>1, <3>2
  <2> HIDE DEF parts
  <2>3. parts = <<x>> <=> l = 1 /\ parts[1] = x
    BY <1>5, <2>1
  <2> QED  BY <2>2, <2>3
<1>11. /\ text = <<x>> <=> n = 1 /\ text[1] = x
       /\ text = <<x, "/">> <=> n = 2 /\ text[1] = x
  <2>1. /\ <<x>> \in Seq(Token) /\ Len(<<x>>) = 1 /\ <<x>>[1] = x
        /\ <<x, "/">> \in Seq(Token) /\ Len(<<x, "/">>) = 2 /\ <<x, "/">>[1] = x
        /\ <<x, "/">>[2] = "/"
    BY DEF Token
  <2>2. n = 2 => text[2] = "/"
    <3>1. n = 2 => 2 \in DOMAIN text
      BY <1>2 DEF Strings
    <3> QED  BY <1>2, <3>1 DEF Slashed
  <2>3. text \in Seq(Token)
    BY <1>2 DEF Strings
  <2> HIDE DEF text
  <2>4. text = <<x>> <=> n = 1 /\ text[1] = x
    BY <2>1, <2>3
  <2>5. text = <<x, "/">> <=> n = 2 /\ text[1] = x /\ text[2] = "/"
    BY <2>1, <2>3
  <2> QED  BY <2>2, <2>4, <2>5
<1> HIDE DEF path, m, parts, n, l
<1>12. \A L \in {2 * m - 1, 2 * m} :
         /\ n = 2 * l - 1 => (SomewhereIn(text, PathText(path, L)) <=> At # {})
         /\ n = 2 * l /\ L = 2 * m - 1 => ~SomewhereIn(text, PathText(path, L))
         /\ n = 2 * l /\ L = 2 * m /\ (\A k \in At : k = m - l + 1)
              => (SomewhereIn(text, PathText(path, L)) <=> At # {})
  BY <1>2, <1>3, <1>4, FoundIn DEF m, n, l, parts
<1>13. CASE n = 2 * l - 1
  <2>1. ~EndsInSlash(line)
    BY <1>2, <1>3, <1>13
  <2>2. \A filename \in {<<x>>, <<x, "/">>} : In(filename) <=> Located(t) /\ At # {}
    <3> HIDE DEF At
    <3>1. /\ SomewhereIn(text, PathText(path, 2 * m - 1)) <=> At # {}
          /\ SomewhereIn(text, PathText(path, 2 * m)) <=> At # {}
      BY <1>12, <1>13
    <3> QED  BY <1>9, <3>1
  <2>3. text = <<x>> <=> parts = <<x>>
    <3>1. n = 1 <=> l = 1  BY <1>2, <1>13
    <3> QED  BY <1>10, <1>11, <3>1
  <2>4. text # <<x, "/">>
    <3>1. n # 2  BY <1>2, <1>13
    <3> QED  BY <1>11, <3>1
  <2> HIDE DEF In, At, text
  <2> QED  BY <1>7, <1>8, <2>1, <2>2, <2>3, <2>4
<1>14. CASE n = 2 * l
  <2>1. EndsInSlash(line)
    BY <1>2, <1>3, <1>14
  <2>2. Located(t) => \A k \in At : k = m - l + 1
    <3> SUFFICES ASSUME Located(t), NEW k \in At, k # m - l + 1 PROVE FALSE
      OBVIOUS
    <3> DEFINE prefix == DirsFrom(t)
    <3>1. /\ prefix \in Seq(Name) /\ m = Len(prefix) + 1
          /\ \A i \in 1..Len(prefix) : path[i] = prefix[i]
      BY PathFromIs, DirsFromIs DEF path, m
    <3>2. Nowhere(prefix, parts)
      BY <2>1 DEF NotPruned, parts
    <3>3. Len(prefix) \in Nat
      BY <3>1
    <3> HIDE DEF prefix
    <3>4. k \in 1..(m - l + 1) /\ PartsAt(path, parts, k)
      OBVIOUS
    <3>5. k \in 1..(Len(prefix) - l + 1)
      BY <1>2, <1>4, <3>1, <3>3, <3>4
    <3>6. \A j \in 1..l : k - 1 + j \in 1..Len(prefix)
      BY <1>2, <3>3, <3>5
    <3>7. PartsAt(prefix, parts, k)
      BY <3>1, <3>4, <3>6 DEF PartsAt, l
    <3> QED  BY <3>2, <3>5, <3>7 DEF Nowhere, l
  <2>3. ~In(<<x>>)
    BY <1>9, <1>12, <1>14
  <2>4. In(<<x, "/">>) <=> Located(t) /\ At # {}
    <3> HIDE DEF At
    <3> QED  BY <1>9, <1>12, <1>14, <2>2
  <2>5. text # <<x>>
    <3>1. n # 1  BY <1>2, <1>14
    <3> QED  BY <1>11, <3>1
  <2>6. text = <<x, "/">> <=> parts = <<x>>
    <3>1. n = 2 <=> l = 1  BY <1>2, <1>14
    <3> QED  BY <1>10, <1>11, <3>1
  <2>7. \A k : k = m - l + 1 => k + l - 1 = m
    BY <1>2, <1>4
  <2>8. Located(t) => (At # {} <=> \E k \in At : k + l - 1 = m)
    <3> HIDE DEF At
    <3> QED  BY <2>2, <2>7
  <2> HIDE DEF In, At, text
  <2> QED  BY <1>7, <1>8, <2>1, <2>3, <2>4, <2>5, <2>6, <2>8
<1> QED
  BY <1>2, <1>13, <1>14


\* So is one that starts with a slash.
LEMMA SlashNamesReject ==
  ASSUME TableInv, Top > 1, NEW t \in 1..Top, NEW x \in Name, NEW line \in Lines,
         Adds(line, "slash_names")
  PROVE  (\/ Finds(t, line, x, <<x>>)
          \/ x \in Dirs /\ Finds(t, line, x, <<x, "/">>))
           <=> LineRejects(t, line, x)
<1> DEFINE text == line.text
           parts == PartsOf(text)
           n == Len(text)
           l == Len(parts)
           path == PathFrom(t, x)
           m == Len(path)
<1>1. ~Skipped(line) /\ ~Wild(line) /\ line.lead # ""
  <2>1. line.lead \in {"/", "./"} /\ ~Wild(line)
    BY ClassIs DEF Adds
  <2> QED  BY <2>1 DEF Adds
<1>2. /\ text \in Strings /\ Slashed(text) /\ Components(line) = parts
      /\ l \in Nat /\ n \in Nat /\ (n = 2 * l \/ n = 2 * l - 1)
      /\ l > 0 => (EndsInSlash(line) <=> n = 2 * l)
  BY <1>1, PlainLine
<1>3. path \in Seq(Name) /\ path # <<>> /\ m \in Nat /\ m >= 1
  <2>1. path \in Seq(Name) /\ path # <<>>
    BY PathFromIs
  <2> HIDE DEF path
  <2> QED  BY <2>1, EmptySeq
<1>4. \A filename : Finds(t, line, x, filename)
        <=> Located(t) /\ text = Path(t, x, filename)
  <2>1. ~Adds(line, "names") /\ ~Adds(line, "slash_regexes") /\ ~Adds(line, "regexes")
    BY DEF Adds
  <2> QED  BY <2>1 DEF Finds
<1>5. LineRejects(t, line, x) <=>
        (EndsInSlash(line) => x \in Dirs) /\ Located(t) /\ path = parts
  BY <1>1, <1>2 DEF LineRejects, NameRejects
<1>6. Path(t, x, <<x>>) = PathText(path, 2 * m - 1)
      /\ Path(t, x, <<x, "/">>) = PathText(path, 2 * m)
  <2>1. /\ Path(t, x, <<x>>) = PathText(path, 2 * m - 2 + Len(<<x>>))
        /\ Path(t, x, <<x, "/">>) = PathText(path, 2 * m - 2 + Len(<<x, "/">>))
    BY DEF Path
  <2> HIDE DEF m, path
  <2>2. 2 * m - 2 + Len(<<x>>) = 2 * m - 1 /\ 2 * m - 2 + Len(<<x, "/">>) = 2 * m
    BY <1>3
  <2> QED  BY <2>1, <2>2
<1>7. \A L \in {2 * m - 1, 2 * m} : text = PathText(path, L) <=> n = L /\ parts = path
  BY <1>2, <1>3, TextIsPath
<1>8. path = parts => l = m
  OBVIOUS
<1> HIDE DEF path, parts, m, n, l, text
<1>9. path = parts => (n = 2 * m <=> EndsInSlash(line)) /\ (n = 2 * m - 1 <=> ~EndsInSlash(line))
  BY <1>2, <1>3, <1>8
<1>10. /\ Finds(t, line, x, <<x>>) <=> Located(t) /\ n = 2 * m - 1 /\ parts = path
       /\ Finds(t, line, x, <<x, "/">>) <=> Located(t) /\ n = 2 * m /\ parts = path
  BY <1>4, <1>6, <1>7
<1> QED
  BY <1>5, <1>9, <1>10

\* A pattern matches what it says.
LEMMA PatternsReject ==
  ASSUME TableInv, Top > 1, NEW t \in 1..Top, NEW x \in Name, NEW line \in Lines,
         ~Skipped(line), Wild(line), ~IsExtension(line)
  PROVE  (\/ Finds(t, line, x, <<x>>)
          \/ x \in Dirs /\ Finds(t, line, x, <<x, "/">>))
           <=> LineRejects(t, line, x)
<1> DEFINE path == PathFrom(t, x)
           m == Len(path)
           M == fnmatch[line.text[1]]
<1>1. /\ class(line) # "names" /\ class(line) # "slash_names"
      /\ class(line) # "extensions"
  BY ClassIs
<1>2. LineRejects(t, line, x) <=> PatternRejects(t, line, x)
  BY DEF LineRejects
<1>3. \A s, form : form \in Forms(s, x) <=> form = s \/ (x \in Dirs /\ form = s \o <<"/">>)
  BY DEF Forms
<1>4. CASE class(line) = "slash_regexes"
  <2>1. PatternRejects(t, line, x)
          <=> Located(t) /\ Forms(Join(path), x) \cap M # {}
    BY <1>4 DEF PatternRejects
  <2>2. \A filename : Finds(t, line, x, filename)
          <=> Located(t) /\ Path(t, x, filename) \in M
    BY <1>4 DEF Finds, Adds
  <2>3. path \in Seq(Name) /\ path # <<>> /\ m \in Nat /\ m >= 1
    <3>1. path \in Seq(Name) /\ path # <<>>
      BY PathFromIs
    <3> HIDE DEF path
    <3> QED  BY <3>1, EmptySeq
  <2>4. Path(t, x, <<x>>) = Join(path) /\ Path(t, x, <<x, "/">>) = Join(path) \o <<"/">>
    <3>1. /\ Path(t, x, <<x>>) = PathText(path, 2 * m - 2 + Len(<<x>>))
          /\ Path(t, x, <<x, "/">>) = PathText(path, 2 * m - 2 + Len(<<x, "/">>))
      BY DEF Path
    <3>2. Join(path) = PathText(path, 2 * m - 1)
      BY <2>3, JoinIs
    <3> HIDE DEF m, path
    <3>3. /\ 2 * m - 2 + Len(<<x>>) = 2 * m - 1
          /\ 2 * m - 2 + Len(<<x, "/">>) = 2 * m - 1 + 1
          /\ 2 * m - 1 \in Nat /\ ~((2 * m - 1 + 1) % 2 = 1)
      BY <2>3
    <3>4. PathText(path, 2 * m - 1 + 1) = PathText(path, 2 * m - 1) \o <<"/">>
      BY <3>3, TextAppend
    <3> QED  BY <3>1, <3>2, <3>3, <3>4
  <2> HIDE DEF path, M
  <2>5. Forms(Join(path), x) \cap M # {}
          <=> \E form : form \in Forms(Join(path), x) /\ form \in M
    OBVIOUS
  <2>6. Forms(Join(path), x) \cap M # {}
          <=> Join(path) \in M \/ (x \in Dirs /\ Join(path) \o <<"/">> \in M)
    <3> DEFINE j == Join(path)
               js == Join(path) \o <<"/">>
               F == Forms(j, x)
    <3>1. \A form : form \in F <=> form = j \/ (x \in Dirs /\ form = js)
      BY <1>3
    <3>2. F \cap M # {} <=> \E form : form \in F /\ form \in M
      BY <2>5
    <3> HIDE DEF F, j, js
    <3>3. F \cap M # {} <=> j \in M \/ (x \in Dirs /\ js \in M)
      BY <3>1, <3>2
    <3> QED  BY <3>3 DEF F, j, js
  <2> QED  BY <1>2, <2>1, <2>2, <2>4, <2>6, Zenon
<1>5. CASE class(line) = "regexes"
  <2>1. PatternRejects(t, line, x) <=>
          \E form \in Forms(<<x>>, x) \cap M :
            \A l \in written[t] : l.lead = "!" => form \notin fnmatch[l.text[1]]
    BY <1>5 DEF PatternRejects
  <2>2. \A filename : Finds(t, line, x, filename) <=>
          /\ filename \in M
          /\ \A l \in written[t] : l.lead = "!" => filename \notin fnmatch[l.text[1]]
    BY <1>5 DEF Finds, Adds
  <2>3. <<x>> \o <<"/">> = <<x, "/">>
    <3> DEFINE u == <<x>> \o <<"/">>
               v == <<x, "/">>
    <3>1. x \in Token /\ "/" \in Token
      BY DEF Token
    <3>2. <<x>> \in Seq(Token) /\ <<"/">> \in Seq(Token) /\ v \in Seq(Token)
      BY <3>1
    <3>3. u \in Seq(Token) /\ Len(u) = 2 /\ u[1] = x /\ u[2] = "/"
      BY <3>2
    <3>4. Len(v) = 2 /\ v[1] = x /\ v[2] = "/"
      OBVIOUS
    <3> HIDE DEF u, v
    <3>5. u = v
      BY <3>2, <3>3, <3>4
    <3> QED  BY <3>5 DEF u, v
  <2> HIDE DEF M
  <2>4. PatternRejects(t, line, x) <=>
          \E form : /\ form = <<x>> \/ (x \in Dirs /\ form = <<x, "/">>)
                    /\ form \in M
                    /\ \A l \in written[t] : l.lead = "!" => form \notin fnmatch[l.text[1]]
    BY <1>3, <2>1, <2>3, Zenon
  <2> QED  BY <1>2, <2>2, <2>4, Zenon
<1>6. CASE class(line) \notin {"slash_regexes", "regexes"}
  <2>1. ~PatternRejects(t, line, x)
    BY <1>1, <1>6 DEF PatternRejects
  <2>2. \A filename : ~Finds(t, line, x, filename)
    BY <1>1, <1>6 DEF Finds, Adds
  <2> QED  BY <1>2, <2>1, <2>2
<1> QED
  BY <1>4, <1>5, <1>6

\* A table rejects what the lines read for it say.
LEMMA TableRejects ==
  ASSUME TableInv, AbsPaths, NotPruned, PathsPlain, RulesCount, Top > 1,
         NEW t \in 1..Top, NEW x \in Name
  PROVE  Rejects(tables[t], x)
           <=> \E line \in written[t] : ~Skipped(line) /\ LineRejects(t, line, x)
<1>1. written[t] \subseteq Lines
  <2>1. "names" \in Class  BY DEF Class
  <2> QED  BY <2>1, HeldPatterns
<1>2. Extension[x] # "" /\ binary_search(<<Extension[x]>>, tables[t].extensions)
        <=> \E line \in written[t] : Adds(line, "extensions")
                                       /\ Extension[x] = Suffix[line.text[1]]
  <2>1. <<Extension[x]>> \in Strings
    BY DEF Strings, Token
  <2>2. binary_search(<<Extension[x]>>, tables[t].extensions)
          <=> \E l \in written[t] : Adds(l, "extensions") /\ pattern(l) = <<Extension[x]>>
    <3>1. "extensions" \in Class  BY DEF Class
    <3> QED  BY <2>1, <3>1, HeldPatterns
  <2>3. \A l \in written[t] : Adds(l, "extensions") =>
          pattern(l) = <<Suffix[l.text[1]]>> /\ Suffix[l.text[1]] # ""
    BY <1>1, ClassIs DEF Adds
  <2>4. \A u, v : <<u>> = <<v>> <=> u = v
    <3>1. \A u : <<u>>[1] = u  OBVIOUS
    <3> QED  BY <3>1, Zenon
  <2>5. \A l \in written[t] : Adds(l, "extensions") =>
          (pattern(l) = <<Extension[x]>> <=> Extension[x] = Suffix[l.text[1]])
    BY <2>3, <2>4, Zenon
  <2> QED  BY <2>2, <2>3, <2>5, Zenon
<1>3. /\ path_ignore_search(tables[t], <<x>>)
           <=> \E line \in written[t] : Finds(t, line, x, <<x>>)
      /\ path_ignore_search(tables[t], <<x, "/">>)
           <=> \E line \in written[t] : Finds(t, line, x, <<x, "/">>)
  BY SearchFinds
<1>4. Rejects(tables[t], x) <=> \E line \in written[t] :
        \/ Adds(line, "extensions") /\ Extension[x] = Suffix[line.text[1]]
        \/ Finds(t, line, x, <<x>>)
        \/ x \in Dirs /\ Finds(t, line, x, <<x, "/">>)
  BY <1>2, <1>3 DEF Rejects
<1>5. ASSUME NEW line \in written[t]
      PROVE  (\/ Adds(line, "extensions") /\ Extension[x] = Suffix[line.text[1]]
              \/ Finds(t, line, x, <<x>>)
              \/ x \in Dirs /\ Finds(t, line, x, <<x, "/">>))
               <=> ~Skipped(line) /\ LineRejects(t, line, x)
  <2>1. line \in Lines
    BY <1>1
  <2>2. CASE Skipped(line)
    BY <2>2 DEF Finds, Adds
  <2>3. CASE ~Skipped(line) /\ IsExtension(line)
    <3>1. class(line) = "extensions" /\ Wild(line)
      BY <2>1, <2>3, ClassIs DEF IsExtension
    <3>2. \A filename : ~Finds(t, line, x, filename)
      BY <3>1 DEF Finds, Adds
    <3>3. LineRejects(t, line, x) <=> Extension[x] = Suffix[line.text[1]]
      BY <3>1 DEF LineRejects, PatternRejects
    <3> QED  BY <2>3, <3>1, <3>2, <3>3 DEF Adds
  <2>4. CASE ~Skipped(line) /\ ~IsExtension(line) /\ Wild(line)
    <3>1. class(line) # "extensions"
      BY <2>1, <2>4, ClassIs
    <3> QED  BY <2>1, <2>4, <3>1, PatternsReject DEF Adds
  <2>5. CASE ~Skipped(line) /\ ~Wild(line)
    <3>1. line.lead \in {"", "/", "./"} /\ class(line) # "extensions"
      <4>1. line.lead \in {"", "./", "/", "!", "#"}
        BY <2>1, IgnoreRulesAssumption DEF Line
      <4>2. line.lead # "#" /\ line.lead # "!"
        BY <2>5 DEF Skipped, Wild
      <4>3. ~IsExtension(line)
        BY <2>5 DEF IsExtension
      <4> QED  BY <2>1, <4>1, <4>2, <4>3, ClassIs
    <3>2. CASE line.lead = ""
      <4>1. Adds(line, "names")
        BY <2>1, <2>5, <3>2, ClassIs DEF Adds
      <4> QED  BY <2>1, <2>5, <3>1, <4>1, NamesReject DEF Adds
    <3>3. CASE line.lead \in {"/", "./"}
      <4>1. Adds(line, "slash_names")
        BY <2>1, <2>5, <3>3, ClassIs DEF Adds
      <4> QED  BY <2>1, <2>5, <3>1, <4>1, SlashNamesReject DEF Adds
    <3> QED  BY <3>1, <3>2, <3>3
  <2> QED  BY <2>2, <2>3, <2>4, <2>5
<1> QED
  BY <1>4, <1>5


\* What the lines say is what is ignored.
LEMMA IgnoredAsWritten ==
  ASSUME TableInv, AbsPaths, NotPruned, PathsPlain, RulesCount, Top > 1, NEW x \in Name
  PROVE  Ignored(x) <=> \E t \in 1..Top : \E line \in written[t] :
                          ~Skipped(line) /\ LineRejects(t, line, x)
<1>1. Ignored(x) <=> \E t \in DOMAIN tables : Rejects(tables[t], x)
  BY InvSkips DEF EmptyTablesSkipped
<1>2. DOMAIN tables = 1..Top
  BY DEF TableInv, TablesHold, Top
<1> QED
  BY <1>1, <1>2, TableRejects

-----------------------------------------------------------------------------
(* The walk                                                                 *)

WalkInv == TableInv /\ AbsPaths /\ NotPruned

\* Nothing is below an argument.
LEMMA NowhereInNone ==
  ASSUME NEW line \in Lines, Adds(line, "names"), NEW path, Len(path) = 0
  PROVE  Nowhere(path, PartsOf(line.text))
<1> DEFINE l == Len(PartsOf(line.text))
           n == Len(line.text)
<1>1. ~Skipped(line) /\ ~Wild(line) /\ line.lead = ""
  BY ClassIs DEF Adds
<1>2. line.text \in Strings /\ line.text # <<>>
  BY <1>1, PlainLine DEF Skipped
<1>3. n \in Nat \ {0} /\ l \in Nat /\ (n = 2 * l \/ n = 2 * l - 1)
  BY <1>2, PartsIs, EmptySeq DEF Strings
<1> HIDE DEF l, n
<1>4. l > 0
  BY <1>3
<1>5. 1..(0 - l + 1) = {}
  BY <1>3, <1>4
<1>6. \A k \in 1..(Len(path) - l + 1) : FALSE
  BY <1>5
<1> QED
  BY <1>6 DEF Nowhere, l

\* The walk starts with no path.
LEMMA WalkInit == Init => WalkInv
<1> SUFFICES ASSUME Init PROVE WalkInv
  OBVIOUS
<1>1. TableInv
  BY InvInit
<1>2. Top = 1 /\ tables[1].abs_path = <<>> /\ written[1] = {} /\ 1..1 = {1}
  BY DEF Init, Top
<1>3. AbsPaths
  BY <1>2 DEF AbsPaths
<1>4. NotPruned
  BY <1>2 DEF NotPruned
<1> QED
  BY <1>1, <1>3, <1>4 DEF WalkInv

\* The path of a new table is that of its directory.
LEMMA PathsStep ==
  ASSUME WalkInv, TableInv', [Next]_vars
  PROVE  AbsPaths'
<1>1. /\ TableInv /\ AbsPaths
      /\ tables \in Seq(Ignores) /\ Top \in Nat /\ Top >= 1
      /\ \A k \in 1..Top : HoldsLines(tables[k], written[k])
      /\ dirs \in Seq(Name) /\ Len(dirs) \in Nat
  BY SMTT(30) DEF WalkInv, TableInv, TablesHold, Top, Dirs
<1>2. \A t \in 1..Top : tables[t].abs_path = IF t <= 2 THEN <<>>
                                             ELSE PathText(dirs, 2 * (t - 2) - 1)
  BY <1>1 DEF AbsPaths
<1>3. Top > 1 => Top = Len(dirs) + 2
  <2>1. Top \in 1..Top
    BY <1>1
  <2> QED  BY <1>1, <2>1, DirsFromIs
<1>4. CASE LoadLine
  <2>1. PICK line \in Lines \ written[Top] :
          tables' = [tables EXCEPT ![Top] = add_ignore_pattern(@, line)]
    BY <1>4 DEF LoadLine
  <2>3. /\ add_ignore_pattern(tables[Top], line).abs_path = tables[Top].abs_path
        /\ add_ignore_pattern(tables[Top], line) \in Ignores
    <3>1. Top \in 1..Top /\ tables[Top] \in Ignores
      BY <1>1 DEF Top
    <3> QED  BY <1>1, <3>1, AddKeeps
  <2>2. dirs' = dirs /\ Top' = Top
    <3>1. tables' = [tables EXCEPT ![Top] = add_ignore_pattern(tables[Top], line)]
      BY <2>1
    <3>2. Len(tables') = Len(tables)
      BY <1>1, <2>3, <3>1
    <3> QED  BY <1>4, <3>2 DEF LoadLine, Top
  <2>4. \A t \in 1..Top : tables'[t].abs_path = tables[t].abs_path
    BY <1>1, <2>1, <2>3 DEF Top
  <2> QED  BY <1>2, <2>2, <2>4 DEF AbsPaths
<1>5. CASE SearchArgument
  <2>1. Top = 1 /\ tables' = Append(tables, init_ignore(1, <<>>)) /\ dirs' = dirs
    BY <1>5 DEF SearchArgument
  <2>2. tables[1].abs_path = <<>>
    <3>1. 1 \in 1..Top /\ 1 <= 2  BY <1>1
    <3> QED  BY <1>2, <3>1
  <2>3. init_ignore(1, <<>>).abs_path = <<>>
    BY <2>2 DEF init_ignore, AbsPath
  <2>4. Len(tables) = 1
    BY <2>1 DEF Top
  <2> DEFINE new == init_ignore(1, <<>>)
  <2>7. tables' = Append(tables, new) /\ Len(tables) + 1 = 2 /\ 1 \in 1..Len(tables)
    BY <2>1, <2>4
  <2> HIDE DEF new
  <2>8. /\ Len(tables') = Len(tables) + 1
        /\ tables'[Len(tables) + 1] = new /\ tables'[1] = tables[1]
    BY <1>1, <2>7
  <2>5. Top' = 2 /\ tables'[1] = tables[1] /\ tables'[2] = init_ignore(1, <<>>)
    BY <2>7, <2>8 DEF Top, new
  <2>6. \A t \in 1..2 : t <= 2 /\ (t = 1 \/ t = 2)
    OBVIOUS
  <2> QED  BY <2>2, <2>3, <2>5, <2>6 DEF AbsPaths
<1>6. CASE EnterDir
  <2>1. PICK x \in Dirs : /\ dirs' = Append(dirs, x)
                          /\ tables' = Append(tables, init_ignore(Top, <<x>>))
    BY <1>6 DEF EnterDir
  <2>2. Top > 1 /\ Top = Len(dirs) + 2
    BY <1>3, <1>6 DEF EnterDir
  <2> DEFINE d == Len(dirs)
  <2>3. /\ Top' = Top + 1 /\ tables'[Top + 1] = init_ignore(Top, <<x>>)
        /\ \A t \in 1..Top : tables'[t] = tables[t]
    BY <1>1, <2>1 DEF Top
  <2>4. /\ dirs' \in Seq(Name) /\ Len(dirs') = d + 1 /\ dirs'[d + 1] = x
        /\ \A k \in 1..d : dirs'[k] = dirs[k]
    BY <1>1, <2>1 DEF Dirs
  <2> HIDE DEF d
  <2>5. d \in Nat /\ Top = d + 2
    BY <1>1, <2>2 DEF d
  <2>6. init_ignore(Top, <<x>>).abs_path = PathText(dirs', 2 * (Top + 1 - 2) - 1)
    <3>1. init_ignore(Top, <<x>>).abs_path
            = IF tables[Top].abs_path # <<>>
              THEN tables[Top].abs_path \o <<"/">> \o <<x>> ELSE <<x>>
      <4>1. Top # 0  BY <2>5
      <4> QED  BY <4>1 DEF init_ignore, AbsPath
    <3>2. Top \in 1..Top
      BY <1>1
    <3>3. CASE d = 0
      <4>1. tables[Top].abs_path = <<>>
        BY <1>2, <2>5, <3>2, <3>3
      <4>2. 2 * (Top + 1 - 2) - 1 = 1
        BY <2>5, <3>3
      <4>3. PathText(dirs', 0 + 1) = PathText(dirs', 0) \o <<x>>
        <5>1. (0 + 1) % 2 = 1 /\ (0 + 2) \div 2 = d + 1 /\ 0 \in Nat
          BY <3>3
        <5>2. PathText(dirs', 0 + 1) = PathText(dirs', 0) \o <<dirs'[d + 1]>>
          BY <5>1, TextAppend
        <5> QED  BY <2>4, <5>2
      <4>4. PathText(dirs', 0) = <<>>
        <5>1. 0 \in Nat /\ 0 <= 2 * Len(dirs')
          BY <2>4, <2>5
        <5>2. PathText(dirs', 0) \in Strings /\ Len(PathText(dirs', 0)) = 0
          BY <2>4, <5>1, PathTextIs
        <5> QED  BY <5>2, EmptySeq DEF Strings
      <4>5. <<>> \o <<x>> = <<x>> /\ 0 + 1 = 1
        OBVIOUS
      <4> QED  BY <3>1, <4>1, <4>2, <4>3, <4>4, <4>5
    <3>4. CASE d # 0
      <4> DEFINE n == 2 * d - 1
      <4>1. n \in Nat /\ n >= 1 /\ n = 2 * (Top - 2) - 1 /\ ~(Top <= 2)
        BY <2>5, <3>4
      <4>2. 2 * (Top + 1 - 2) - 1 = n + 1 + 1 /\ n + 1 \in Nat
        BY <2>5, <4>1
      <4>3. ~((n + 1) % 2 = 1) /\ (n + 1 + 1) % 2 = 1 /\ (n + 1 + 2) \div 2 = d + 1
            /\ (n + 1) \div 2 = d /\ n <= 2 * d
        BY <2>5, <4>1
      <4> HIDE DEF n
      <4>4. tables[Top].abs_path = PathText(dirs, n)
        BY <1>2, <3>2, <4>1
      <4>5. PathText(dirs', n) = PathText(dirs, n)
        BY <2>4, <4>1, <4>3, TextOfLonger
      <4>6. PathText(dirs', n + 1) = PathText(dirs', n) \o <<"/">>
        BY <4>1, <4>3, TextAppend
      <4>7. PathText(dirs', n + 1 + 1) = PathText(dirs', n + 1) \o <<dirs'[d + 1]>>
        BY <4>2, <4>3, TextAppend
      <4>8. PathText(dirs, n) # <<>>
        <5>1. PathText(dirs, n) \in Strings /\ Len(PathText(dirs, n)) = n
          BY <1>1, <4>1, <4>3, PathTextIs DEF d
        <5>2. Len(<<>>) = 0  OBVIOUS
        <5> QED  BY <4>1, <5>1, <5>2
      <4> QED  BY <2>4, <3>1, <4>2, <4>4, <4>5, <4>6, <4>7, <4>8
    <3> QED  BY <3>3, <3>4
  <2>7. ASSUME NEW t \in 1..(Top + 1)
        PROVE  tables'[t].abs_path = IF t <= 2 THEN <<>>
                                     ELSE PathText(dirs', 2 * (t - 2) - 1)
    <3>1. CASE t = Top + 1
      <4>1. ~(t <= 2) /\ 2 * (t - 2) - 1 = 2 * (Top + 1 - 2) - 1
        BY <2>5, <3>1
      <4> QED  BY <2>3, <2>6, <3>1, <4>1
    <3>2. CASE t # Top + 1
      <4>1. t \in 1..Top
        BY <1>1, <3>2
      <4>2. CASE t <= 2
        BY <1>2, <2>3, <4>1, <4>2
      <4>3. CASE ~(t <= 2)
        <5>1. 2 * (t - 2) - 1 \in Nat /\ (2 * (t - 2) - 1 + 1) \div 2 = t - 2 /\ t - 2 <= d
          BY <2>5, <4>1, <4>3
        <5>2. \A k \in 1..(t - 2) : dirs[k] = dirs'[k]
          BY <2>4, <2>5, <4>1, <5>1
        <5>3. PathText(dirs, 2 * (t - 2) - 1) = PathText(dirs', 2 * (t - 2) - 1)
          BY <5>1, <5>2, TextOfLonger
        <5> QED  BY <1>2, <2>3, <4>1, <4>3, <5>3
      <4> QED  BY <4>2, <4>3
    <3> QED  BY <3>1, <3>2
  <2> QED  BY <2>3, <2>7 DEF AbsPaths
<1>7. CASE LeaveDir
  <2>1. Top > 1 /\ tables' = Front(tables)
        /\ dirs' = (IF dirs = <<>> THEN dirs ELSE Front(dirs))
    BY <1>7 DEF LeaveDir
  <2>2. Top = Len(dirs) + 2
    BY <1>3, <2>1
  <2>3. Top' = Top - 1 /\ \A t \in 1..(Top - 1) : tables'[t] = tables[t]
    BY <1>1, <2>1 DEF Top, Front
  <2>4. CASE dirs = <<>>
    <3>1. Top - 1 = 1 /\ 1 \in 1..Top /\ 1..1 = {1} /\ 1 <= 2
      BY <2>2, <2>4
    <3>2. tables[1].abs_path = <<>>
      BY <1>2, <3>1
    <3> QED  BY <2>3, <3>1, <3>2 DEF AbsPaths
  <2>5. CASE dirs # <<>>
    <3>1. Len(dirs') = Len(dirs) - 1 /\ \A k \in 1..(Len(dirs) - 1) : dirs'[k] = dirs[k]
      <4>1. dirs' = SubSeq(dirs, 1, Len(dirs) - 1)
        BY <2>1, <2>5 DEF Front
      <4>2. Len(dirs) >= 1
        BY <1>1, <2>5, EmptySeq
      <4> DEFINE n == Len(dirs) - 1
      <4>3. n \in Nat /\ n <= Len(dirs)
        BY <1>1, <4>2
      <4>4. dirs' = SubSeq(dirs, 1, n)
        BY <4>1
      <4> HIDE DEF n
      <4>5. Len(dirs') = n /\ \A k \in 1..n : dirs'[k] = dirs[k]
        BY <1>1, <4>3, <4>4
      <4> QED  BY <4>5 DEF n
    <3>2. ASSUME NEW t \in 1..(Top - 1)
          PROVE  tables'[t].abs_path = IF t <= 2 THEN <<>>
                                       ELSE PathText(dirs', 2 * (t - 2) - 1)
      <4>1. t \in 1..Top
        BY <1>1
      <4>2. CASE t <= 2
        BY <1>2, <2>3, <4>1, <4>2
      <4>3. CASE ~(t <= 2)
        <5>1. 2 * (t - 2) - 1 \in Nat /\ (2 * (t - 2) - 1 + 1) \div 2 = t - 2
              /\ t - 2 <= Len(dirs) - 1
          BY <1>1, <2>2, <4>1, <4>3
        <5>2. \A k \in 1..(t - 2) : dirs[k] = dirs'[k]
          BY <1>1, <3>1, <4>1, <5>1
        <5>3. PathText(dirs, 2 * (t - 2) - 1) = PathText(dirs', 2 * (t - 2) - 1)
          BY <5>1, <5>2, TextOfLonger
        <5> QED  BY <1>2, <2>3, <4>1, <4>3, <5>3
      <4> QED  BY <4>2, <4>3
    <3> QED  BY <2>3, <3>2 DEF AbsPaths
  <2> QED  BY <2>4, <2>5
<1>8. CASE UNCHANGED vars
  BY <1>1, <1>8 DEF AbsPaths, vars, Top
<1> QED
  BY <1>4, <1>5, <1>6, <1>7, <1>8 DEF Next


\* What is nowhere in a path is nowhere in the beginning of it.
LEMMA NowhereShorter ==
  ASSUME NEW p, NEW q, NEW parts, Len(p) \in Nat, Len(q) \in Nat, Len(parts) \in Nat,
         Len(p) <= Len(q), \A k \in 1..Len(p) : p[k] = q[k], Nowhere(q, parts)
  PROVE  Nowhere(p, parts)
<1> SUFFICES ASSUME NEW k \in 1..(Len(p) - Len(parts) + 1), PartsAt(p, parts, k)
             PROVE  FALSE
  BY DEF Nowhere
<1>1. k \in 1..(Len(q) - Len(parts) + 1)
  OBVIOUS
<1>2. \A j \in 1..Len(parts) : k - 1 + j \in 1..Len(p)
  OBVIOUS
<1>3. PartsAt(q, parts, k)
  BY <1>2 DEF PartsAt
<1> QED
  BY <1>1, <1>3 DEF Nowhere

\* A walk never enters a directory that a line names.
LEMMA PrunedStep ==
  ASSUME WalkInv, TableInv', [Next]_vars
  PROVE  NotPruned'
<1>1. /\ TableInv /\ AbsPaths /\ NotPruned
      /\ Top \in Nat /\ Top >= 1 /\ Len(tables) = Top
      /\ written \in Seq(SUBSET Lines) /\ Len(written) = Top
      /\ dirs \in Seq(Name) /\ Len(dirs) \in Nat
      /\ Top = 1 => dirs = <<>>
  <2>1. /\ TableInv /\ AbsPaths /\ NotPruned
        /\ Top \in Nat /\ Top >= 1 /\ Len(tables) = Top
        /\ written \in Seq(SUBSET Lines) /\ Len(written) = Top
        /\ dirs \in Seq(Name) /\ Len(dirs) \in Nat
    BY DEF WalkInv, TableInv, TablesHold, Top, Dirs
  <2>2. dirs = <<>> \/ Top = 2 + Len(dirs)
    BY DEF WalkInv, TableInv, Top
  <2>3. ~(1 = 2 + Len(dirs))
    BY <2>1
  <2> QED  BY <2>1, <2>2, <2>3
<1>2. Top > 1 => Top = Len(dirs) + 2
  <2>1. Top \in 1..Top
    BY <1>1
  <2> QED  BY <1>1, <2>1, DirsFromIs
<1>3. /\ written' \in Seq(SUBSET Lines) /\ Len(written') = Top' /\ Top' \in Nat
      /\ dirs' \in Seq(Name) /\ Len(dirs') \in Nat
  BY DEF TableInv, TablesHold, Top, Dirs
<1> SUFFICES ASSUME PathsPlain', RulesCount', NEW t \in 1..Top', Located(t)',
                    NEW line \in written'[t], Adds(line, "names"), EndsInSlash(line)
             PROVE  Nowhere(DirsFrom(t)', PartsOf(line.text))
  BY DEF NotPruned
<1> DEFINE i == Max({1, t - 1})
           parts == PartsOf(line.text)
           l == Len(parts)
<1>4. t \in Nat \ {0} /\ i = (IF t <= 2 THEN 1 ELSE t - 1) /\ i \in Nat \ {0}
  <2>1. t \in Nat \ {0}
    BY <1>3
  <2>2. i = (IF t <= 2 THEN 1 ELSE t - 1)
    BY <2>1, FirstIs
  <2> QED  BY <2>1, <2>2
<1>5. line \in Lines
  BY <1>3
<1>6. DirsFrom(t)' = SubSeq(dirs', i, Len(dirs')) /\ DirsFrom(t) = SubSeq(dirs, i, Len(dirs))
  BY DEF DirsFrom
<1>7. /\ ~Skipped(line) /\ ~Wild(line) /\ line.lead = ""
      /\ Components(line) = parts /\ l \in Nat
  <2>1. ~Skipped(line) /\ ~Wild(line) /\ line.lead = ""
    BY <1>5, ClassIs DEF Adds
  <2> QED  BY <1>5, <2>1, PlainLine
<1> HIDE DEF i, parts, l
<1>8. ASSUME Len(dirs') = 0 \/ i = Len(dirs') + 1
      PROVE  Nowhere(DirsFrom(t)', parts)
  <2>1. Len(SubSeq(dirs', i, Len(dirs'))) = 0
    BY <1>3, <1>4, <1>8
  <2> QED  BY <1>5, <1>6, <2>1, NowhereInNone DEF parts
<1>9. CASE LoadLine
  <2>1. PICK new \in Lines \ written[Top] :
          written' = [written EXCEPT ![Top] = @ \cup {new}]
    BY <1>9 DEF LoadLine
  <2>2. dirs' = dirs /\ opts' = opts /\ argument' = argument /\ Len(written') = Top
    BY <1>1, <1>9, <2>1 DEF LoadLine
  <2>3. CASE t = Top
    <3>1. Len(dirs') = 0 \/ i = Len(dirs') + 1
      <4>1. CASE Top = 1
        BY <1>1, <2>2, <4>1
      <4>2. CASE Top > 1
        BY <1>1, <1>2, <1>4, <2>2, <2>3, <4>2
      <4> QED  BY <1>1, <4>1, <4>2
    <3> QED  BY <1>8, <3>1 DEF parts
  <2>4. CASE t # Top
    <3>1. t \in 1..Top /\ written'[t] = written[t]
      BY <1>1, <1>3, <2>1, <2>2, <2>4
    <3>2. PathsPlain /\ RulesCount /\ Located(t)
      BY <2>2 DEF PathsPlain, RulesCount, Located
    <3>3. Nowhere(DirsFrom(t), parts)
      BY <1>1, <3>1, <3>2 DEF NotPruned, parts
    <3> QED  BY <1>6, <2>2, <3>3 DEF parts
  <2> QED  BY <2>3, <2>4
<1>10. CASE SearchArgument
  <2>1. Top = 1 /\ dirs' = dirs
    BY <1>10 DEF SearchArgument
  <2>2. Len(dirs') = 0
    BY <1>1, <2>1
  <2> QED  BY <1>8, <2>2 DEF parts
<1>11. CASE EnterDir
  <2>1. PICK x \in Dirs : filename_filter(x) /\ dirs' = Append(dirs, x)
    BY <1>11 DEF EnterDir
  <2>2. /\ Top > 1 /\ written' = Append(written, {})
        /\ opts' = opts /\ argument' = argument
    BY <1>11 DEF EnterDir
  <2>3. Top = Len(dirs) + 2 /\ Len(written') = Top + 1 /\ x \in Name
    BY <1>1, <1>2, <2>1, <2>2 DEF Dirs
  <2>4. t \in 1..Top /\ written'[t] = written[t]
    <3>1. CASE t = Top + 1
      <4>1. written'[t] = {}
        BY <1>1, <2>2, <3>1
      <4> QED  BY <4>1
    <3>2. CASE t # Top + 1
      <4>1. t \in 1..Top
        BY <1>1, <1>3, <2>3, <3>2
      <4> QED  BY <1>1, <2>2, <4>1
    <3> QED  BY <3>1, <3>2
  <2>5. PathsPlain /\ RulesCount /\ Located(t)
    <3>1. dirs # <<>> => dirs' # <<>> /\ dirs'[1] = dirs[1]
      <4>1. dirs # <<>> => Len(dirs) >= 1
        BY <1>1, EmptySeq
      <4> QED  BY <1>1, <2>1, <2>3, <4>1
    <3> QED  BY <2>2, <3>1 DEF PathsPlain, RulesCount, Located
  <2>6. Nowhere(DirsFrom(t), parts)
    BY <1>1, <2>4, <2>5 DEF NotPruned, parts
  <2>7. ~LineRejects(t, line, x)
    <3>1. ~Ignored(x)
      BY <2>1, <2>5 DEF filename_filter, Ignored, RulesCount
    <3> QED  BY <1>1, <1>7, <2>2, <2>3, <2>4, <2>5, <3>1, IgnoredAsWritten
  <2> DEFINE path == PathFrom(t, x)
             prefix == DirsFrom(t)
             m == Len(path)
  <2>8. /\ path \in Seq(Name) /\ path = prefix \o <<x>> /\ prefix \in Seq(Name)
        /\ m = Len(prefix) + 1
        /\ \A k \in 1..Len(prefix) : path[k] = prefix[k]
    BY <1>1, <2>2, <2>3, <2>4, PathFromIs, DirsFromIs
  <2>9. DirsFrom(t)' = path
    <3> DEFINE u == SubSeq(dirs, i, Len(dirs)) \o <<x>>
               v == SubSeq(dirs', i, Len(dirs'))
               n == Len(dirs)
    <3>1. n \in Nat /\ i <= n + 1
      BY <1>1, <1>4, <2>3, <2>4
    <3>2. Len(dirs') = n + 1 /\ dirs'[n + 1] = x /\ \A k \in 1..n : dirs'[k] = dirs[k]
      BY <1>1, <2>1
    <3>3. u \in Seq(Name) /\ Len(u) = n - i + 2
      BY <1>1, <1>4, <2>3, <3>1
    <3>4. v \in Seq(Name) /\ Len(v) = n - i + 2
      BY <1>3, <1>4, <3>1, <3>2
    <3>5. \A k \in 1..(n - i + 2) : u[k] = v[k]
      <4> TAKE k \in 1..(n - i + 2)
      <4>1. v[k] = dirs'[i + k - 1]
        BY <1>3, <1>4, <3>1, <3>2
      <4>2. CASE k <= n - i + 1
        <5>1. u[k] = dirs[i + k - 1] /\ i + k - 1 \in 1..n
          BY <1>1, <1>4, <2>3, <3>1, <4>2
        <5> QED  BY <3>2, <4>1, <5>1
      <4>3. CASE k = n - i + 2
        <5>1. u[k] = x
          <6> DEFINE w == SubSeq(dirs, i, n)
          <6>2. u = w \o <<x>>
            OBVIOUS
          <6>5. n = Len(dirs)
            OBVIOUS
          <6> HIDE DEF u, n
          <6>6. w \in Seq(Name)
            BY <1>1, <1>4, <3>1, <6>5
          <6>7. Len(w) = n - i + 1
            <7>1. u \in Seq(Name) /\ Len(u) = n - i + 2
              BY <3>3
            <7>2. Len(u) = Len(w) + 1
              <8> HIDE DEF w
              <8> QED  BY <2>3, <6>2, <6>6
            <7>3. Len(w) \in Nat
              BY <6>6
            <7> HIDE DEF w
            <7> QED  BY <1>4, <3>1, <7>1, <7>2, <7>3
          <6>1. w \in Seq(Name) /\ Len(w) = n - i + 1
            BY <6>6, <6>7
          <6> HIDE DEF w
          <6>3. (w \o <<x>>)[Len(w) + 1] = x
            BY <2>3, <6>1
          <6>4. Len(w) + 1 = k
            BY <1>4, <3>1, <4>3, <6>1
          <6> QED  BY <6>2, <6>3, <6>4
        <5>2. i + k - 1 = n + 1
          BY <1>4, <3>1, <4>3
        <5>3. dirs'[i + k - 1] = x
          BY <3>2, <5>2, Zenon
        <5> HIDE DEF u, v, n
        <5> QED  BY <4>1, <5>1, <5>3, Zenon
      <4> HIDE DEF u, v, n
      <4>4. k <= n - i + 1 \/ k = n - i + 2
        BY <1>4, <3>1
      <4> QED  BY <4>2, <4>3, <4>4
    <3>6. path = u
      BY <1>6, <2>8
    <3> HIDE DEF u, v, n
    <3>7. u = v
      BY <3>3, <3>4, <3>5
    <3> QED  BY <1>6, <3>6, <3>7 DEF v
  <2>10. Len(prefix) \in Nat
    BY <2>8
  <2> SUFFICES ASSUME NEW k \in 1..(m - l + 1), PartsAt(path, parts, k)
               PROVE  FALSE
    BY <2>9 DEF Nowhere, parts, l
  <2> DEFINE b == Len(prefix)
  <2>14. b \in Nat /\ m = b + 1 /\ l \in Nat
    BY <1>7, <2>8, <2>10
  <2> HIDE DEF path, prefix, m, b
  <2>15. k \in 1..(m - l + 1)
    OBVIOUS
  <2>16. b = Len(prefix)
    BY DEF b
  <2>11. CASE k <= Len(prefix) - l + 1
    <3>1. k \in 1..(Len(prefix) - l + 1)
      BY <2>11, <2>14, <2>15, <2>16
    <3>2. \A j \in 1..l : k - 1 + j \in 1..Len(prefix)
      BY <2>14, <2>16, <3>1
    <3>3. PartsAt(prefix, parts, k)
      BY <2>8, <3>2 DEF PartsAt, l
    <3> QED  BY <2>6, <3>1, <3>3 DEF Nowhere, l, prefix
  <2>12. CASE k > Len(prefix) - l + 1
    <3>1. k + l - 1 = m
      BY <2>12, <2>14, <2>15, <2>16
    <3>2. k \in Nat \ {0} /\ k - 1 + l <= m
      BY <2>14, <2>15
    <3>3. path \in Seq(Token)
      <4>1. Name \subseteq Token  BY DEF Token
      <4> QED  BY <2>8, <4>1
    <3>4. parts \in Seq(Token)
      BY <1>5, <1>7, PlainLine, PartsIs DEF parts
    <3>5. SubSeq(path, k, k + l - 1) = parts
      <4>1. \A j \in 1..l : path[k - 1 + j] = parts[j]
        BY DEF PartsAt, l
      <4> QED  BY <3>2, <3>3, <3>4, <4>1, SubSeqIs DEF l, m
    <3>6. NameRejects(t, line, x)
      BY <1>7, <2>1, <2>5, <3>1, <3>5, Zenon DEF NameRejects, path, m, l
    <3> QED  BY <1>7, <2>7, <3>6 DEF LineRejects
  <2>13. k <= Len(prefix) - l + 1 \/ k > Len(prefix) - l + 1
    BY <2>14, <2>15, <2>16
  <2> QED  BY <2>11, <2>12, <2>13
<1>12. CASE LeaveDir
  <2>1. /\ Top > 1 /\ written' = Front(written)
        /\ dirs' = (IF dirs = <<>> THEN dirs ELSE Front(dirs))
        /\ opts' = opts /\ argument' = argument
    BY <1>12 DEF LeaveDir
  <2>2. Len(written') = Top - 1 /\ \A s \in 1..(Top - 1) : written'[s] = written[s]
    BY <1>1, <2>1 DEF Front
  <2>3. t \in 1..Top /\ written'[t] = written[t]
    BY <1>1, <1>3, <2>2
  <2>4. CASE dirs = <<>>
    <3>1. Len(dirs') = 0
      BY <2>1, <2>4
    <3> QED  BY <1>8, <3>1 DEF parts
  <2>5. CASE dirs # <<>> /\ Len(dirs') # 0
    <3> DEFINE n == Len(dirs) - 1
    <3>1. n \in Nat /\ n <= Len(dirs) /\ Len(dirs) = n + 1
      <4>1. Len(dirs) >= 1
        BY <1>1, <2>5, EmptySeq
      <4> QED  BY <1>1, <4>1
    <3>2. dirs' = SubSeq(dirs, 1, n)
      BY <2>1, <2>5 DEF Front
    <3> HIDE DEF n
    <3>3. Len(dirs') = n /\ \A k \in 1..n : dirs'[k] = dirs[k]
      BY <1>1, <3>1, <3>2
    <3>4. PathsPlain /\ RulesCount /\ Located(t)
      <4>1. dirs' # <<>> /\ dirs'[1] = dirs[1]
        <5>1. Len(<<>>) = 0 /\ 1 \in 1..n
          BY <2>5, <3>1, <3>3
        <5> QED  BY <2>5, <3>3, <5>1
      <4> QED  BY <2>1, <4>1 DEF PathsPlain, RulesCount, Located
    <3>5. Nowhere(DirsFrom(t), parts)
      BY <1>1, <2>3, <3>4 DEF NotPruned, parts
    <3>6. i <= n + 1
      BY <1>1, <1>2, <1>3, <1>4, <2>1, <2>2, <3>1
    <3> DEFINE u == SubSeq(dirs', i, Len(dirs'))
               v == SubSeq(dirs, i, Len(dirs))
    <3>7. Len(u) = n - i + 1 /\ \A k \in 1..(n - i + 1) : u[k] = dirs'[i + k - 1]
      BY <1>3, <1>4, <3>1, <3>3, <3>6
    <3>8. Len(v) = n - i + 2 /\ \A k \in 1..(n - i + 2) : v[k] = dirs[i + k - 1]
      BY <1>1, <1>4, <3>1, <3>6
    <3>9. \A k \in 1..(n - i + 1) : i + k - 1 \in 1..n /\ k \in 1..(n - i + 2)
      BY <1>4, <3>1, <3>6
    <3>10. v = DirsFrom(t) /\ u = DirsFrom(t)'
      BY <1>6
    <3> HIDE DEF u, v
    <3>11. \A k \in 1..(n - i + 1) : u[k] = v[k]
      BY <3>3, <3>7, <3>8, <3>9
    <3>12. Len(u) \in Nat /\ Len(v) \in Nat /\ Len(u) <= Len(v)
      BY <1>4, <3>1, <3>6, <3>7, <3>8
    <3>13. Nowhere(u, parts)
      BY <1>7, <3>5, <3>7, <3>10, <3>11, <3>12, NowhereShorter DEF l
    <3> QED  BY <3>10, <3>13 DEF parts
  <2>6. CASE Len(dirs') = 0
    BY <1>8, <2>6 DEF parts
  <2> QED  BY <2>4, <2>5, <2>6
<1>13. CASE UNCHANGED vars
  <2>1. PathsPlain /\ RulesCount /\ Located(t) /\ t \in 1..Top /\ line \in written[t]
        /\ dirs' = dirs
    BY <1>13 DEF vars, PathsPlain, RulesCount, Located, Top
  <2> QED  BY <1>1, <1>6, <2>1 DEF NotPruned
<1> QED
  BY <1>9, <1>10, <1>11, <1>12, <1>13 DEF Next

\* No step breaks the invariant of the walk.
LEMMA WalkStep == WalkInv /\ [Next]_vars => WalkInv'
<1> SUFFICES ASSUME WalkInv, [Next]_vars PROVE WalkInv'
  OBVIOUS
<1>1. TableInv'
  BY InvStep DEF WalkInv
<1> QED
  BY <1>1, PathsStep, PrunedStep DEF WalkInv

\* What is ignored is what the lines of the ignore files of the directories of the
\* walk, and of the command line, say, whatever they are and in whatever order
\* they are read: binary_search, strstr, abs_path and the chain lose nothing.
THEOREM IgnoredIsAsWritten == Spec => []RejectsAsWritten
<1>1. WalkInv => RejectsAsWritten
  <2> SUFFICES ASSUME WalkInv, PathsPlain, RulesCount, Top > 1, NEW x \in Name
               PROVE  Ignored(x) <=> \E t \in DOMAIN written : \E line \in written[t] :
                        /\ ~Skipped(line)
                        /\ IF Wild(line) THEN PatternRejects(t, line, x)
                           ELSE NameRejects(t, line, x)
    BY DEF RejectsAsWritten, PathsPlain, RulesCount
  <2>1. DOMAIN written = 1..Top
    BY DEF WalkInv, TableInv, TablesHold, Top
  <2>2. Ignored(x) <=> \E t \in 1..Top : \E line \in written[t] :
                         ~Skipped(line) /\ LineRejects(t, line, x)
    BY IgnoredAsWritten DEF WalkInv
  <2> QED  BY <2>1, <2>2 DEF LineRejects
<1> QED
  BY WalkInit, WalkStep, <1>1, PTL DEF Spec
=============================================================================
