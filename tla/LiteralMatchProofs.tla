------------------------- MODULE LiteralMatchProofs -------------------------
(***************************************************************************)
(* Proofs about LiteralMatch: both searchers find the leftmost match, for   *)
(* every query, every buffer and every set of characters, and the loop of   *)
(* search_buf reports each match once and moves on.                         *)
(***************************************************************************)
EXTENDS LiteralMatch, FiniteSetTheorems, WellFoundedInduction, TLAPS

-----------------------------------------------------------------------------
(* Least and greatest elements                                              *)

\* A set of naturals that is not empty has a lowest element: proofs that go
\* on from a number to the next refute the lowest counterexample.
LEMMA LowestExists ==
  ASSUME NEW S, S \subseteq Nat, S # {}
  PROVE  \E x \in S : \A y \in S : x <= y
<1> DEFINE Before == {ss \in Nat \X Nat : ss[1] < ss[2]}
<1>1. IsWellFoundedOn(Before, Nat)
  BY NatLessThanWellFounded DEF OpToRel
<1>2. PICK x \in S : \A y \in S : <<y, x>> \notin Before
  <2> HIDE DEF Before
  <2> QED  BY <1>1, WFMin
<1>3. \A y, z \in Nat : y < z => <<y, z>> \in Before
  BY Zenon
<1>4. \A y \in S : x =< y
  <2> SUFFICES ASSUME NEW y \in S, ~(x =< y) PROVE FALSE  OBVIOUS
  <2>1. x \in Nat /\ y \in Nat  BY <1>2
  <2>2. y < x  BY <2>1
  <2> HIDE DEF Before
  <2> QED  BY <1>2, <1>3, <2>1, <2>2
<1> QED  BY <1>2, <1>4

\* A set of naturals has a least element ...
LEMMA MinIs ==
  ASSUME NEW S, S # {}, S \subseteq Nat
  PROVE  Min(S) \in S /\ \A x \in S : Min(S) <= x
<1>1. PICK m \in S : \A x \in S : m <= x
  BY LowestExists
<1> QED
  BY <1>1 DEF Min

\* ... and a set of integers with an upper bound a greatest one.
LEMMA MaxIs ==
  ASSUME NEW S, S # {}, NEW b \in Int, \A x \in S : x \in Int /\ x <= b
  PROVE  Max(S) \in S /\ \A x \in S : x <= Max(S)
<1> DEFINE T == {b - x : x \in S}
<1>1. T \subseteq Nat /\ T # {}
  OBVIOUS
<1>2. PICK t \in T : \A u \in T : t <= u
  <2> HIDE DEF T
  <2> QED  BY <1>1, LowestExists
<1>3. PICK m \in S : t = b - m
  BY <1>2
<1>4. \A x \in S : x <= m
  <2> TAKE x \in S
  <2>1. t <= b - x  BY <1>2
  <2> QED  BY <2>1, <1>3
<1> QED
  BY <1>4 DEF Max

-----------------------------------------------------------------------------
(* Strings                                                                  *)

IsText(s) == Size(s) \in Nat \ {0} /\ s \in [0..(Size(s) - 1) -> Char]

IsQuery(find) ==
  Size(find) \in Nat \ {0} /\ find \in [0..(Size(find) - 1) -> Int]

\* r is the leftmost match from offset on, or -1 if there is none.
IsLeftmost(r, s, offset, find, sensitive) ==
  IF r = -1
  THEN \A q \in Nat : q >= offset => ~MatchAt(s, find, sensitive, q)
  ELSE /\ r \in Nat /\ r >= offset
       /\ MatchAt(s, find, sensitive, r)
       /\ \A q \in Nat : offset <= q /\ q < r => ~MatchAt(s, find, sensitive, q)

\* There is such an r.
LEMMA LeftmostExists ==
  ASSUME NEW s, NEW find, NEW sensitive, NEW offset \in Nat
  PROVE  \E r \in Int : IsLeftmost(r, s, offset, find, sensitive)
<1> DEFINE S == {q \in Nat : q >= offset /\ MatchAt(s, find, sensitive, q)}
<1>1. CASE S = {}
  <2>1. IsLeftmost(-1, s, offset, find, sensitive)
    BY <1>1 DEF IsLeftmost
  <2> QED  BY <2>1
<1>2. CASE S # {}
  <2>1. PICK r \in S : \A q \in S : r <= q
    <3>1. S \subseteq Nat  OBVIOUS
    <3> HIDE DEF S
    <3> QED  BY <1>2, <3>1, LowestExists
  <2>2. IsLeftmost(r, s, offset, find, sensitive)
    BY <2>1 DEF IsLeftmost
  <2> QED  BY <2>1, <2>2
<1> QED  BY <1>1, <1>2

\* And only one.
LEMMA LeftmostUnique ==
  ASSUME NEW s, NEW find, NEW sensitive, NEW offset \in Nat,
         NEW r \in Int, IsLeftmost(r, s, offset, find, sensitive),
         NEW t \in Int, IsLeftmost(t, s, offset, find, sensitive)
  PROVE  r = t
<1> DEFINE M(q) == MatchAt(s, find, sensitive, q)
<1> HIDE DEF M
<1>1. /\ IF r = -1 THEN \A q \in Nat : q >= offset => ~M(q)
         ELSE r \in Nat /\ r >= offset /\ M(r)
              /\ \A q \in Nat : offset <= q /\ q < r => ~M(q)
      /\ IF t = -1 THEN \A q \in Nat : q >= offset => ~M(q)
         ELSE t \in Nat /\ t >= offset /\ M(t)
              /\ \A q \in Nat : offset <= q /\ q < t => ~M(q)
  BY DEF IsLeftmost, M
<1> QED
  BY <1>1

-----------------------------------------------------------------------------
(* The tables of boyer_moore_strnstr                                        *)

\* Every character of the query in any case is a spelling of it.
LEMMA Spelled ==
  ASSUME NEW c \in Int
  PROVE  c \in {tolower(tolower(c)), toupper(tolower(c))}
  BY DEF tolower, toupper, Upper, Lower

\* A character lets the query move up to its last place in it.
LEMMA AlphaSkip ==
  ASSUME NEW find, IsQuery(find), NEW sensitive \in BOOLEAN, NEW c \in Char
  PROVE  LET skip == generate_alpha_skip(find, sensitive)[c] IN
           /\ skip \in 1..Size(find)
           /\ \A x \in 0..(Size(find) - 2) :
                Fold(c, sensitive) = find[x] => skip <= Size(find) - 1 - x
<1> DEFINE last == Size(find) - 1
           Spellings(d) == IF sensitive THEN {d} ELSE {tolower(d), toupper(d)}
           Hits == {i \in 0..(last - 1) : c \in Spellings(find[i])}
           skip == IF Hits = {} THEN last + 1 ELSE last - Max(Hits)
<1>1. generate_alpha_skip(find, sensitive)[c] = skip
  BY DEF generate_alpha_skip
<1>2. last \in Nat
  BY DEF IsQuery
<1>3. \A x \in 0..(Size(find) - 2) : Fold(c, sensitive) = find[x] => x \in Hits
  <2> SUFFICES ASSUME NEW x \in 0..(Size(find) - 2), Fold(c, sensitive) = find[x]
               PROVE  c \in Spellings(find[x]) /\ x \in 0..(last - 1)
    OBVIOUS
  <2>1. c \in Int
    BY LiteralAssumption
  <2> QED
    BY <2>1, <1>2, Spelled DEF Fold, IsQuery
<1>4. CASE Hits = {}
  BY <1>1, <1>2, <1>3, <1>4 DEF IsQuery
<1>5. CASE Hits # {}
  <2> HIDE DEF Hits
  <2>1. \A x \in Hits : x \in Int /\ 0 <= x /\ x <= last - 1
    BY DEF Hits
  <2>2. Max(Hits) \in Hits /\ \A x \in Hits : x <= Max(Hits)
    BY <1>2, <1>5, <2>1, MaxIs
  <2> QED
    BY <1>1, <1>2, <1>3, <1>5, <2>1, <2>2 DEF IsQuery
<1> QED
  BY <1>4, <1>5

\* suffix_len is how far the end of the query is found back from pos, too.
LEMMA SuffixLen ==
  ASSUME NEW find, IsQuery(find), NEW pos \in 0..(Size(find) - 1)
  PROVE  LET len == suffix_len(find, pos) IN
           /\ len \in 0..pos
           /\ \A t \in 0..pos :
                /\ \A j \in 0..(t - 1) : find[pos - j] = find[Size(find) - 1 - j]
                /\ t = pos \/ find[pos - t] # find[Size(find) - 1 - t]
                => len = t
<1> DEFINE Ends == {i \in 0..pos : i = pos \/ find[pos - i] # find[Size(find) - i - 1]}
<1>1. suffix_len(find, pos) = Min(Ends)
  BY DEF suffix_len
<1>2. Size(find) \in Nat /\ pos \in Nat
  BY DEF IsQuery
<1>3. pos \in Ends
  BY <1>2
<1>4. Ends \subseteq Nat
  BY <1>2
<1>5. Min(Ends) \in Ends /\ \A i \in Ends : Min(Ends) <= i
  <2> HIDE DEF Ends
  <2> QED  BY <1>3, <1>4, MinIs
<1>6. ASSUME NEW t \in 0..pos,
             \A j \in 0..(t - 1) : find[pos - j] = find[Size(find) - 1 - j],
             t = pos \/ find[pos - t] # find[Size(find) - 1 - t]
      PROVE  Min(Ends) = t
  <2>1. Size(find) - t - 1 = Size(find) - 1 - t
    BY <1>2
  <2>2. t \in Ends
    BY <1>6, <2>1
  <2>3. ASSUME NEW j \in Ends, j < t PROVE FALSE
    <3>1. Size(find) - j - 1 = Size(find) - 1 - j /\ j \in 0..(t - 1) /\ j # pos
      BY <1>2, <2>3
    <3> QED  BY <1>6, <2>3, <3>1
  <2>4. ~(Min(Ends) < t)
    BY <1>5, <2>3
  <2> HIDE DEF Ends
  <2>5. PICK m \in Ends : m = Min(Ends)
    BY <1>5
  <2>6. m \in Int /\ t \in Int /\ m <= t /\ ~(m < t)
    BY <1>4, <1>5, <2>2, <2>4, <2>5
  <2> QED  BY <2>5, <2>6
<1>7. Min(Ends) \in 0..pos
  BY <1>5
<1> HIDE DEF Ends
<1> QED
  BY <1>1, <1>6, <1>7

\* The query moved by d agrees with itself after place i and not at i: what has
\* been compared before the place i was found to differ.
Agrees(find, i, d) ==
  /\ \A x \in (i + 1)..(Size(find) - 1) : x - d >= 0 => find[x - d] = find[x]
  /\ i - d >= 0 => find[i - d] # find[i]

\* A difference at i lets the query move on, but no further than to where it
\* agrees with itself.
LEMMA FindSkip ==
  ASSUME NEW find, IsQuery(find), NEW i \in 0..(Size(find) - 1)
  PROVE  LET skip == generate_find_skip(find)[i]
             last == Size(find) - 1
         IN  /\ skip \in Nat /\ skip > last - i
             /\ \A d \in Nat \ {0} : Agrees(find, i, d) => skip - (last - i) <= d
<1> DEFINE len == Size(find)
           last == len - 1
           Rests == {j \in (i + 1)..len : is_prefix(find, j)}
           Adjusting == {k \in 0..(len - 1) :
                           LET s_len == suffix_len(find, k) IN
                             /\ i = len - 1 - s_len
                             /\ find[k - s_len] # find[i]}
           a == Max(Adjusting)
           skip == IF Adjusting = {} THEN Min(Rests) + (len - (i + 1))
                   ELSE len - 1 - a + suffix_len(find, a)
<1>1. generate_find_skip(find)[i] = skip
  BY DEF generate_find_skip
<1>2. len \in Nat \ {0} /\ last \in Nat /\ i \in Nat /\ i <= last
  BY DEF IsQuery
<1>3. len \in Rests
  BY <1>2 DEF is_prefix
<1>4. /\ Min(Rests) \in Rests
      /\ \A j \in Rests : Min(Rests) <= j
  <2>1. Rests \subseteq Nat
    BY <1>2
  <2> HIDE DEF Rests
  <2> QED  BY <1>3, <2>1, MinIs
\* The query moved by d up to i ends where the same suffix precedes another
\* character.
<1>5. ASSUME NEW d \in Nat \ {0}, Agrees(find, i, d), d <= i
      PROVE  last - d \in Adjusting
  <2> DEFINE pos == last - d
             t == last - i
  <2>1. pos \in 0..last /\ t \in 0..pos /\ pos - t = i - d /\ last - t = i
    BY <1>2, <1>5
  <2>2. \A j \in 0..(t - 1) : find[pos - j] = find[last - j]
    <3> TAKE j \in 0..(t - 1)
    <3>1. /\ last - j \in (i + 1)..(Size(find) - 1)
          /\ (last - j) - d >= 0 /\ (last - j) - d = pos - j
      BY <1>2, <1>5
    <3> QED  BY <1>5, <3>1 DEF Agrees
  <2>3. find[pos - t] # find[last - t]
    BY <1>2, <1>5, <2>1 DEF Agrees
  <2>4. suffix_len(find, pos) = t
    BY <2>1, <2>2, <2>3, SuffixLen
  <2> QED
    BY <1>2, <2>1, <2>3, <2>4
\* Moved further than that, it agrees where it starts, that is with a suffix.
<1>6. ASSUME NEW d \in Nat \ {0}, Agrees(find, i, d), ~(d <= i), d <= len
      PROVE  d \in Rests
  <2>1. \A k \in 0..(len - 1 - d) : find[k] = find[k + d]
    <3> TAKE k \in 0..(len - 1 - d)
    <3>1. /\ k + d \in (i + 1)..(Size(find) - 1)
          /\ (k + d) - d >= 0 /\ (k + d) - d = k
      BY <1>2, <1>6
    <3> QED  BY <1>6, <3>1 DEF Agrees
  <2> QED
    BY <1>2, <1>6, <2>1 DEF is_prefix
<1>7. CASE Adjusting = {}
  <2>1. Min(Rests) \in (i + 1)..len
    BY <1>4
  <2>2. skip = Min(Rests) + (len - (i + 1))
    BY <1>7
  <2>3. ASSUME NEW d \in Nat \ {0}, Agrees(find, i, d) PROVE Min(Rests) <= d
    <3>1. ~(d <= i)
      BY <1>5, <1>7, <2>3
    <3>2. CASE d <= len
      BY <1>4, <1>6, <2>3, <3>1, <3>2
    <3>3. CASE ~(d <= len)
      <4> HIDE DEF Rests
      <4> QED  BY <1>2, <2>1, <3>3
    <3> QED  BY <3>2, <3>3
  <2> HIDE DEF Rests, skip
  <2>4. \A d \in Nat \ {0} : Agrees(find, i, d) => skip - (last - i) <= d
    BY <1>2, <2>1, <2>2, <2>3
  <2> QED
    BY <1>1, <1>2, <2>1, <2>2, <2>4
<1>8. CASE Adjusting # {}
  <2>1. PICK b \in Adjusting : b = a /\ \A k \in Adjusting : k <= b
    <3>1. \A k \in Adjusting : k \in Int /\ k <= last
      BY <1>2
    <3> HIDE DEF Adjusting
    <3> QED  BY <1>2, <1>8, <3>1, MaxIs
  <2>2. b \in 0..last /\ i = len - 1 - suffix_len(find, b)
        /\ find[b - suffix_len(find, b)] # find[i]
    BY <2>1
  <2>3. suffix_len(find, b) \in 0..b
    BY <2>2, SuffixLen
  <2> HIDE DEF Adjusting
  <2>4. suffix_len(find, b) = last - i
    BY <1>2, <2>2, <2>3
  <2>5. b # last
    <3> SUFFICES ASSUME b = last PROVE FALSE  OBVIOUS
    <3>1. suffix_len(find, last) = last
      BY <1>2, SuffixLen
    <3>2. i = 0 /\ b - suffix_len(find, b) = 0
      BY <1>2, <2>4, <3>1
    <3> QED  BY <2>2, <3>2
  <2>6. skip = last - b + (last - i)
    BY <1>2, <1>8, <2>1, <2>2, <2>4
  <2>7. ASSUME NEW d \in Nat \ {0}, Agrees(find, i, d) PROVE last - b <= d
    <3>1. CASE d <= i
      <4>1. last - d <= b
        BY <1>5, <2>1, <2>7, <3>1
      <4> QED  BY <1>2, <2>2, <4>1
    <3>2. CASE ~(d <= i)
      BY <1>2, <2>2, <2>3, <2>4, <3>2
    <3> QED  BY <3>1, <3>2
  <2> HIDE DEF skip, Adjusting
  <2>8. \A d \in Nat \ {0} : Agrees(find, i, d) => skip - (last - i) <= d
    BY <1>2, <2>2, <2>6, <2>7
  <2> QED
    BY <1>1, <1>2, <2>2, <2>5, <2>6, <2>8
<1> QED
  BY <1>7, <1>8

-----------------------------------------------------------------------------
(* boyer_moore_strnstr                                                      *)

\* After a comparison that has come down to a difference at i the query moves
\* on, and over no match.
LEMMA Jump ==
  ASSUME NEW s, IsText(s), NEW find, IsQuery(find), NEW sensitive \in BOOLEAN,
         NEW p \in Nat, p + (Size(find) - 1) < Size(s),
         NEW i \in 0..(Size(find) - 1), Fold(s[p + i], sensitive) # find[i],
         \A x \in (i + 1)..(Size(find) - 1) : Fold(s[p + x], sensitive) = find[x]
  PROVE  LET last == Size(find) - 1
             alpha_skip == generate_alpha_skip(find, sensitive)
             find_skip == generate_find_skip(find)
             q == p + i - last + Max({alpha_skip[s[p + i]], find_skip[i]})
         IN  /\ q \in Nat /\ q > p
             /\ \A r \in Nat : p <= r /\ r < q => ~MatchAt(s, find, sensitive, r)
<1> DEFINE last == Size(find) - 1
           a == generate_alpha_skip(find, sensitive)[s[p + i]]
           k == generate_find_skip(find)[i]
<1>1. Size(find) \in Nat \ {0} /\ last \in Nat /\ i \in Nat /\ i <= last
  BY DEF IsQuery
<1>2. p + i \in 0..(Size(s) - 1) /\ s[p + i] \in Char
  BY <1>1 DEF IsText
<1>3. /\ a \in 1..Size(find)
      /\ \A x \in 0..(Size(find) - 2) :
           Fold(s[p + i], sensitive) = find[x] => a <= last - x
  BY <1>2, AlphaSkip
<1>4. /\ k \in Nat /\ k > last - i
      /\ \A d \in Nat \ {0} : Agrees(find, i, d) => k - (last - i) <= d
  BY FindSkip
<1> HIDE DEF a, k
<1>5. PICK m \in {a, k} : m = Max({a, k}) /\ a <= m /\ k <= m
  <2>1. /\ {a, k} # {}
        /\ \A x \in {a, k} : x \in Int /\ x <= a + k
    BY <1>3, <1>4
  <2>2. a + k \in Int
    BY <1>3, <1>4
  <2>3. Max({a, k}) \in {a, k} /\ \A x \in {a, k} : x <= Max({a, k})
    BY <2>1, <2>2, MaxIs
  <2> QED  BY <2>3
<1> DEFINE q == p + i - last + m
<1>6. q \in Nat /\ q > p
  BY <1>1, <1>3, <1>4, <1>5
<1>7. ~MatchAt(s, find, sensitive, p)
  BY DEF MatchAt, IsQuery
<1>8. ASSUME NEW d \in Nat \ {0}, MatchAt(s, find, sensitive, p + d)
      PROVE  q <= p + d
  <2>1. \A x \in 0..last : Fold(s[p + d + x], sensitive) = find[x]
    BY <1>8 DEF MatchAt, IsQuery
  <2>2. Agrees(find, i, d)
    <3>1. ASSUME NEW x \in (i + 1)..(Size(find) - 1), x - d >= 0
          PROVE  find[x - d] = find[x]
      <4>1. x - d \in 0..last /\ p + d + (x - d) = p + x
        BY <1>1, <3>1
      <4> QED  BY <2>1, <3>1, <4>1
    <3>2. ASSUME i - d >= 0 PROVE find[i - d] # find[i]
      <4>1. i - d \in 0..last /\ p + d + (i - d) = p + i
        BY <1>1, <3>2
      <4> QED  BY <2>1, <4>1
    <3> QED  BY <3>1, <3>2 DEF Agrees
  <2>3. k - (last - i) <= d
    BY <1>4, <2>2
  <2>4. a - (last - i) <= d
    <3>1. CASE i - d >= 0
      <4>1. i - d \in 0..last /\ p + d + (i - d) = p + i
            /\ i - d \in 0..(Size(find) - 2)
        BY <1>1, <3>1
      <4>2. a <= last - (i - d)
        BY <1>3, <2>1, <4>1
      <4> QED  BY <1>1, <1>3, <4>2
    <3>2. CASE ~(i - d >= 0)
      BY <1>1, <1>3, <3>2
    <3> QED  BY <3>1, <3>2
  <2> QED
    BY <1>1, <1>3, <1>4, <1>5, <2>3, <2>4
<1>9. ASSUME NEW r \in Nat, p <= r, r < q
      PROVE  ~MatchAt(s, find, sensitive, r)
  <2>1. CASE r = p
    BY <1>7, <2>1
  <2>2. CASE r # p
    <3> DEFINE d == r - p
    <3>1. d \in Nat \ {0} /\ p + d = r
      BY <1>9, <2>2
    <3>2. ~(q <= p + d)
      BY <1>6, <1>9, <3>1
    <3> HIDE DEF d, q
    <3> QED  BY <1>8, <3>1, <3>2
  <2> QED  BY <2>1, <2>2
<1> QED
  BY <1>5, <1>6, <1>9 DEF a, k

\* Whatever the query and the buffer: boyer_moore_strnstr finds the leftmost
\* match from its offset on.
THEOREM BoyerMooreFinds ==
  ASSUME NEW s, IsText(s), NEW find, IsQuery(find), NEW sensitive \in BOOLEAN,
         NEW offset \in Nat
  PROVE  LET r == boyer_moore_strnstr(s, offset, find,
                    generate_alpha_skip(find, sensitive),
                    generate_find_skip(find), sensitive)
         IN  r \in Int /\ IsLeftmost(r, s, offset, find, sensitive)
<1> DEFINE last == Size(find) - 1
           alpha_skip == generate_alpha_skip(find, sensitive)
           find_skip == generate_find_skip(find)
           Differ(p) == {i \in DOMAIN find : Fold(s[p + i], sensitive) # find[i]}
           Jumped(p) == LET i == Max(Differ(p)) IN
                          p + i - last + Max({alpha_skip[s[p + i]], find_skip[i]})
           Step(f, p) == IF p + last >= Size(s) THEN -1
                         ELSE IF Differ(p) = {} THEN p
                         ELSE f[Jumped(p)]
           From == CHOOSE f : f = [p \in Nat |-> Step(f, p)]
           Best == [p \in Nat |-> CHOOSE r \in Int :
                                    IsLeftmost(r, s, p, find, sensitive)]
<1>1. boyer_moore_strnstr(s, offset, find, alpha_skip, find_skip, sensitive)
        = From[offset]
  BY DEF boyer_moore_strnstr
<1>2. /\ last \in Nat /\ Size(find) \in Nat /\ Size(s) \in Nat
      /\ DOMAIN find = 0..last
  BY DEF IsQuery, IsText
<1>3. \A p \in Nat : Best[p] \in Int /\ IsLeftmost(Best[p], s, p, find, sensitive)
  BY LeftmostExists
<1>4. ASSUME NEW p \in Nat, p + last >= Size(s) PROVE Best[p] = -1
  <2>1. \A q \in Nat : q >= p => ~MatchAt(s, find, sensitive, q)
    BY <1>2, <1>4 DEF MatchAt
  <2>2. IsLeftmost(-1, s, p, find, sensitive)
    BY <2>1 DEF IsLeftmost
  <2> QED
    BY <1>3, <2>2, LeftmostUnique
<1>5. ASSUME NEW p \in Nat, ~(p + last >= Size(s)), Differ(p) = {}
      PROVE  Best[p] = p
  <2>1. MatchAt(s, find, sensitive, p)
    BY <1>2, <1>5 DEF MatchAt
  <2>2. IsLeftmost(p, s, p, find, sensitive)
    BY <2>1 DEF IsLeftmost
  <2> QED
    BY <1>3, <2>2, LeftmostUnique
<1>6. ASSUME NEW p \in Nat, ~(p + last >= Size(s)), Differ(p) # {}
      PROVE  /\ Jumped(p) \in Nat /\ Jumped(p) > p
             /\ Best[p] = Best[Jumped(p)]
  <2> DEFINE i == Max(Differ(p))
  <2>1. i \in Differ(p) /\ \A x \in Differ(p) : x <= i
    <3>1. \A x \in Differ(p) : x \in Int /\ x <= last
      BY <1>2
    <3> HIDE DEF Differ, last
    <3> QED  BY <1>2, <1>6, <3>1, MaxIs
  <2>2. /\ i \in 0..last /\ Fold(s[p + i], sensitive) # find[i]
        /\ \A x \in (i + 1)..last : Fold(s[p + x], sensitive) = find[x]
    <3>1. i \in 0..last /\ Fold(s[p + i], sensitive) # find[i]
      BY <1>2, <2>1
    <3>2. ASSUME NEW x \in (i + 1)..last
          PROVE  Fold(s[p + x], sensitive) = find[x]
      <4>1. x \in DOMAIN find /\ ~(x <= i)
        <5> HIDE DEF i
        <5> QED  BY <1>2, <3>1
      <4>2. x \notin Differ(p)
        BY <2>1, <4>1
      <4> QED  BY <4>1, <4>2
    <3> QED  BY <3>1, <3>2
  <2>3. /\ Jumped(p) \in Nat /\ Jumped(p) > p
        /\ \A r \in Nat : p <= r /\ r < Jumped(p) => ~MatchAt(s, find, sensitive, r)
    <3>1. p + last < Size(s)
      BY <1>2, <1>6
    <3> HIDE DEF Differ
    <3> QED  BY <2>2, <3>1, Jump
  <2> HIDE DEF Jumped, Best
  <2>4. IsLeftmost(Best[Jumped(p)], s, p, find, sensitive)
    <3>1. IsLeftmost(Best[Jumped(p)], s, Jumped(p), find, sensitive)
      BY <1>3, <2>3
    <3> QED
      BY <2>3, <3>1 DEF IsLeftmost
  <2> QED
    BY <1>3, <2>3, <2>4, LeftmostUnique
<1> HIDE DEF last, Differ, Jumped, alpha_skip, find_skip
<1>7. Best = [p \in Nat |-> Step(Best, p)]
  <2>1. \A p \in Nat : Best[p] = Step(Best, p)
    BY <1>4, <1>5, <1>6
  <2> HIDE DEF Step
  <2> QED  BY <2>1
<1>8. From = [p \in Nat |-> Step(From, p)]
  <2> HIDE DEF Step, Best
  <2> QED  BY <1>7
<1> HIDE DEF From, Best
<1>9. ASSUME NEW p \in Nat, From[p] # Best[p] PROVE FALSE
  <2> DEFINE Bad == {n \in Nat : \E q \in Nat : q + n >= Size(s) /\ From[q] # Best[q]}
  <2>1. Size(s) \in Bad
    BY <1>2, <1>9
  <2>2. PICK n \in Bad : \A m \in Bad : n <= m
    <3>1. Bad \subseteq Nat  OBVIOUS
    <3> HIDE DEF Bad
    <3> QED  BY <2>1, <3>1, LowestExists
  <2>3. PICK q \in Nat : q + n >= Size(s) /\ From[q] # Best[q]
    BY <2>2
  <2>4. From[q] = Step(From, q)
    BY <1>8
  <2>5. ~(q + last >= Size(s)) /\ Differ(q) # {}
    BY <1>4, <1>5, <2>3, <2>4
  <2>6. From[Jumped(q)] # Best[Jumped(q)] /\ Jumped(q) \in Nat /\ Jumped(q) > q
    BY <1>6, <2>3, <2>4, <2>5
  <2>7. n # 0 /\ n \in Nat
    BY <1>2, <2>2, <2>3, <2>5
  <2>8. n - 1 \in Nat /\ Jumped(q) + (n - 1) >= Size(s) /\ ~(n <= n - 1)
    BY <1>2, <2>3, <2>6, <2>7
  <2>9. n - 1 \in Bad
    BY <2>6, <2>8
  <2> HIDE DEF Bad
  <2> QED  BY <2>2, <2>8, <2>9
<1> QED
  BY <1>1, <1>3, <1>9 DEF alpha_skip, find_skip

-----------------------------------------------------------------------------
(* The table of hash_strnstr                                                *)

\* Less than H_SIZE cells in a row are all different.
LEMMA CellsDiffer ==
  ASSUME NEW x \in Int, NEW y \in Int, x <= y, y - x < H_SIZE,
         x % H_SIZE = y % H_SIZE
  PROVE  x = y
<1>1. H_SIZE \in Nat \ {0}
  BY LiteralAssumption
<1>2. /\ x = H_SIZE * (x \div H_SIZE) + (x % H_SIZE)
      /\ y = H_SIZE * (y \div H_SIZE) + (y % H_SIZE)
      /\ x \div H_SIZE \in Int /\ y \div H_SIZE \in Int
  BY <1>1
<1> DEFINE d == y \div H_SIZE - x \div H_SIZE
<1>3. y - x = H_SIZE * d /\ d \in Int
  BY <1>1, <1>2
<1> HIDE DEF d
<1>4. d = 0
  BY <1>1, <1>3
<1> QED  BY <1>1, <1>3, <1>4

\* While the table is not full there is a free cell, and it is the first one
\* from the home cell on.
LEMMA FreeCellIs ==
  ASSUME NEW table, IsFiniteSet(DOMAIN table),
         Cardinality(DOMAIN table) < H_SIZE, NEW word \in Int
  PROVE  /\ FreeCell(table, word) \in Nat
         /\ (word + FreeCell(table, word)) % H_SIZE \notin DOMAIN table
         /\ \A j \in 0..(FreeCell(table, word) - 1) :
              (word + j) % H_SIZE \in DOMAIN table
<1> DEFINE n == Cardinality(DOMAIN table)
           cell(k) == (word + k) % H_SIZE
           Free == {k \in 0..n : cell(k) \notin DOMAIN table}
<1>1. n \in Nat /\ H_SIZE \in Nat \ {0} /\ n < H_SIZE
  BY FS_CardinalityType, LiteralAssumption
<1>2. Free # {}
  <2> SUFFICES ASSUME \A k \in 0..n : cell(k) \in DOMAIN table PROVE FALSE
    OBVIOUS
  <2> DEFINE f == [k \in 0..n |-> cell(k)]
  <2>1. f \in [0..n -> DOMAIN table]
    OBVIOUS
  <2>2. IsFiniteSet(0..n) /\ Cardinality(0..n) = n + 1
    BY <1>1, FS_Interval
  <2>3. n < n + 1
    BY <1>1
  <2>4. PICK x, y \in 0..n : x # y /\ f[x] = f[y]
    <3> HIDE DEF f, n
    <3> QED  BY <2>1, <2>2, <2>3, FS_PigeonHole DEF n
  <2>5. cell(x) = cell(y)
    BY <2>4
  <2>6. x \in Int /\ y \in Int /\ x # y
    BY <1>1, <2>4
  <2>7. CASE x <= y
    <3>1. word + x <= word + y /\ (word + y) - (word + x) < H_SIZE
      BY <1>1, <2>4, <2>7
    <3>2. word + x = word + y
      BY <2>5, <2>6, <3>1, CellsDiffer
    <3> QED  BY <2>6, <3>2
  <2>8. CASE y <= x
    <3>1. word + y <= word + x /\ (word + x) - (word + y) < H_SIZE
      BY <1>1, <2>4, <2>8
    <3>2. word + x = word + y
      BY <2>5, <2>6, <3>1, CellsDiffer
    <3> QED  BY <2>6, <3>2
  <2> QED  BY <2>6, <2>7, <2>8
<1>3. PICK k \in Free : \A j \in Free : k <= j
  <2>1. Free \subseteq Nat  BY <1>1
  <2> HIDE DEF Free
  <2> QED  BY <1>2, <2>1, LowestExists
<1>4. ASSUME NEW j \in 0..(k - 1) PROVE cell(j) \in DOMAIN table
  <2>1. k \in 0..n
    BY <1>3
  <2>2. j \in 0..n /\ ~(k <= j)
    <3> HIDE DEF n
    <3> QED  BY <1>1, <2>1
  <2> QED  BY <1>3, <2>2
<1>5. \E m \in 0..n : /\ ~(cell(m) \in DOMAIN table)
                      /\ \A j \in 0..(m - 1) : cell(j) \in DOMAIN table
  BY <1>3, <1>4
<1>6. /\ FreeCell(table, word) \in 0..n
      /\ ~(cell(FreeCell(table, word)) \in DOMAIN table)
      /\ \A j \in 0..(FreeCell(table, word) - 1) : cell(j) \in DOMAIN table
  <2> HIDE DEF cell
  <2>1. FreeCell(table, word) =
          CHOOSE m \in 0..n : /\ ~(cell(m) \in DOMAIN table)
                              /\ \A j \in 0..(m - 1) : cell(j) \in DOMAIN table
    BY DEF FreeCell, cell
  <2> QED  BY <1>5, <2>1
<1> QED
  BY <1>1, <1>6

\* The first n entries are in the table: each can be reached from its home cell
\* without a gap, and over no entry for a place before its own.
Placed(table, entries, n) ==
  /\ IsFiniteSet(DOMAIN table) /\ Cardinality(DOMAIN table) = n
  /\ \A c \in DOMAIN table : \E m \in 1..n : table[c] = entries[m].value
  /\ \A m \in 1..n : \E k \in Nat :
       /\ \A j \in 0..k : (entries[m].word + j) % H_SIZE \in DOMAIN table
       /\ table[(entries[m].word + k) % H_SIZE] = entries[m].value
       /\ \A j \in 0..(k - 1) :
            table[(entries[m].word + j) % H_SIZE] >= entries[m].value

\* Entries that come last place first.
Descending(entries, size) ==
  /\ \A m \in 1..size : entries[m].word \in Int /\ entries[m].value \in Nat
  /\ \A m, k \in 1..size : m <= k => entries[m].value >= entries[k].value

\* One more entry goes to the first free cell.
LEMMA AddEntryKeeps ==
  ASSUME NEW table, NEW entries, NEW size \in Nat, Descending(entries, size),
         NEW n \in Nat, n < size, n < H_SIZE, Placed(table, entries, n)
  PROVE  Placed(AddEntry(table, entries[n + 1]), entries, n + 1)
<1> DEFINE word == entries[n + 1].word
           f == FreeCell(table, word)
           h == (word + f) % H_SIZE
           new == AddEntry(table, entries[n + 1])
<1>1. word \in Int /\ n + 1 \in 1..size /\ entries[n + 1].value \in Nat
  BY DEF Descending
<1>2. /\ f \in Nat /\ h \notin DOMAIN table
      /\ \A j \in 0..(f - 1) : (word + j) % H_SIZE \in DOMAIN table
  BY <1>1, FreeCellIs DEF Placed
<1>3. /\ DOMAIN new = DOMAIN table \cup {h}
      /\ new[h] = entries[n + 1].value
      /\ \A c \in DOMAIN table : new[c] = table[c]
  BY <1>2 DEF AddEntry
<1> HIDE DEF new, h, f
<1>4. IsFiniteSet(DOMAIN new) /\ Cardinality(DOMAIN new) = n + 1
  BY <1>2, <1>3, FS_AddElement DEF Placed
<1>5. \A c \in DOMAIN new : \E m \in 1..(n + 1) : new[c] = entries[m].value
  <2> TAKE c \in DOMAIN new
  <2>1. CASE c \in DOMAIN table
    BY <1>3, <2>1 DEF Placed
  <2>2. CASE c = h
    BY <1>3, <2>2
  <2> QED  BY <1>3, <2>1, <2>2
<1>6. ASSUME NEW m \in 1..(n + 1)
      PROVE  \E k \in Nat :
        /\ \A j \in 0..k : (entries[m].word + j) % H_SIZE \in DOMAIN new
        /\ new[(entries[m].word + k) % H_SIZE] = entries[m].value
        /\ \A j \in 0..(k - 1) :
             new[(entries[m].word + j) % H_SIZE] >= entries[m].value
  <2>1. CASE m = n + 1
    <3>1. \A j \in 0..f : (word + j) % H_SIZE \in DOMAIN new
      BY <1>2, <1>3 DEF h
    <3>2. new[(word + f) % H_SIZE] = entries[n + 1].value
      BY <1>3 DEF h
    <3>3. ASSUME NEW j \in 0..(f - 1)
          PROVE  new[(word + j) % H_SIZE] >= entries[n + 1].value
      <4>1. PICK l \in 1..n : table[(word + j) % H_SIZE] = entries[l].value
        BY <1>2 DEF Placed
      <4>2. entries[l].value >= entries[n + 1].value
        BY <1>1, <4>1 DEF Descending
      <4> QED  BY <1>2, <1>3, <4>1, <4>2
    <3> QED  BY <1>2, <2>1, <3>1, <3>2, <3>3
  <2>2. CASE m # n + 1
    <3>1. m \in 1..n
      BY <2>2
    <3>2. PICK k \in Nat :
            /\ \A j \in 0..k : (entries[m].word + j) % H_SIZE \in DOMAIN table
            /\ table[(entries[m].word + k) % H_SIZE] = entries[m].value
            /\ \A j \in 0..(k - 1) :
                 table[(entries[m].word + j) % H_SIZE] >= entries[m].value
      BY <3>1 DEF Placed
    <3>3. \A j \in 0..(k - 1) : j \in 0..k
      OBVIOUS
    <3>4. k \in 0..k
      OBVIOUS
    <3> QED  BY <1>3, <3>2, <3>3, <3>4
  <2> QED  BY <2>1, <2>2
<1> QED
  BY <1>4, <1>5, <1>6 DEF Placed, new

\* The entries of a query come last place first, and there is one for each two
\* characters of a buffer that a place of the query matches.
LEMMA HashEntriesAre ==
  ASSUME NEW find, IsQuery(find), NEW sensitive \in BOOLEAN
  PROVE  LET entries == HashEntries(find, sensitive)
             size == (IF sensitive THEN 1 ELSE 4) * (Size(find) - 1)
         IN  /\ size \in Nat /\ Len(entries) = size
             /\ Descending(entries, size)
             /\ \A m \in 1..size : entries[m].value \in 1..(Size(find) - 1)
             /\ \A c0, c1 \in 0..127, x \in 0..(Size(find) - 2) :
                  /\ Fold(c0, sensitive) = find[x]
                  /\ Fold(c1, sensitive) = find[x + 1]
                  => \E m \in 1..size : /\ entries[m].word = Word(c0, c1)
                                        /\ entries[m].value = x + 1
<1> DEFINE caps == IF sensitive THEN 1 ELSE 4
           entries == HashEntries(find, sensitive)
           size == caps * (Size(find) - 1)
           Cap(c, on) == IF on THEN (c - 32) % 256 ELSE c
           place(n) == Size(find) - 2 - (n - 1) \div caps
           set(n) == (n - 1) % caps
           word(n) == Word(Cap(find[place(n)], set(n) % 2 = 1),
                           Cap(find[place(n) + 1], set(n) \div 2 = 1))
<1>1. Size(find) \in Nat \ {0} /\ size \in Nat /\ caps \in {1, 4}
      /\ find \in [0..(Size(find) - 1) -> Int]
  BY DEF IsQuery
<1>2. entries = [n \in 1..size |-> [word |-> word(n), value |-> place(n) + 1]]
  BY DEF HashEntries
<1>3. Len(entries) = size
  <2> HIDE DEF word, place, size, entries
  <2>1. entries \in Seq({[word |-> word(n), value |-> place(n) + 1] : n \in 1..size})
    BY <1>1, <1>2
  <2> QED  BY <1>1, <1>2, <2>1
<1>4. \A n \in 1..size :
        /\ place(n) \in 0..(Size(find) - 2)
        /\ set(n) \in 0..(caps - 1)
        /\ \A m \in 1..size : n <= m => place(n) >= place(m)
  <2>1. CASE sensitive
    BY <1>1, <2>1
  <2>2. CASE ~sensitive
    BY <1>1, <2>2
  <2> QED  BY <2>1, <2>2
<1>5. \A n \in 1..size : word(n) \in Int
  <2> TAKE n \in 1..size
  <2> DEFINE i == place(n)
  <2>1. find[i] \in Int /\ find[i + 1] \in Int
    <3>1. i \in 0..(Size(find) - 1) /\ i + 1 \in 0..(Size(find) - 1)
      <4>1. i \in 0..(Size(find) - 2)
        BY <1>4
      <4> HIDE DEF i
      <4> QED  BY <1>1, <4>1
    <3> HIDE DEF i
    <3> QED  BY <1>1, <3>1
  <2> HIDE DEF place, set
  <2> QED  BY <2>1 DEF Word
<1>6. ASSUME NEW c0 \in 0..127, NEW c1 \in 0..127, NEW x \in 0..(Size(find) - 2),
             Fold(c0, sensitive) = find[x], Fold(c1, sensitive) = find[x + 1]
      PROVE  \E n \in 1..size : word(n) = Word(c0, c1) /\ place(n) = x
  <2>1. CASE sensitive
    <3> DEFINE n == Size(find) - 1 - x
    <3>1. n \in 1..size /\ place(n) = x /\ set(n) = 0
      BY <1>1, <2>1
    <3>2. word(n) = Word(c0, c1)
      BY <1>6, <2>1, <3>1 DEF Fold
    <3> QED  BY <3>1, <3>2
  <2>2. CASE ~sensitive
    <3> DEFINE b0 == IF c0 = find[x] THEN 0 ELSE 1
               b1 == IF c1 = find[x + 1] THEN 0 ELSE 1
               n == 4 * (Size(find) - 2 - x) + b0 + 2 * b1 + 1
    <3> DEFINE y == Size(find) - 2 - x
               b == b0 + 2 * b1
    <3>5. b0 \in {0, 1} /\ b1 \in {0, 1} /\ b \in 0..3
      OBVIOUS
    <3>7. y \in 0..(Size(find) - 2) /\ x = Size(find) - 2 - y
      BY <1>1
    <3>1. n \in 1..size /\ place(n) = x /\ set(n) = b0 + 2 * b1
      <4> HIDE DEF b0, b1, b, y
      <4>1. n = 4 * y + b + 1
        BY <1>1, <3>5 DEF b, y
      <4> HIDE DEF n
      <4>2. n - 1 = 4 * y + b /\ (n - 1) \div 4 = y /\ (n - 1) % 4 = b
        BY <1>1, <3>5, <3>7, <4>1
      <4>3. n \in 1..(4 * (Size(find) - 1))
        BY <1>1, <3>5, <3>7, <4>1
      <4> QED  BY <1>1, <2>2, <3>7, <4>2, <4>3 DEF b
    <3>2. /\ (b0 + 2 * b1) % 2 = 1 <=> b0 = 1
          /\ (b0 + 2 * b1) \div 2 = 1 <=> b1 = 1
      OBVIOUS
    <3>3. Cap(find[x], b0 = 1) = c0 /\ Cap(find[x + 1], b1 = 1) = c1
      BY <1>6, <2>2 DEF Fold, tolower, Upper
    <3> HIDE DEF b0, b1, n, Cap
    <3>4. word(n) = Word(c0, c1)
      BY <3>1, <3>2, <3>3
    <3> QED  BY <3>1, <3>4
  <2> QED  BY <2>1, <2>2
<1> HIDE DEF word, place
<1>7. Descending(entries, size)
  BY <1>1, <1>2, <1>4, <1>5, SMTT(30) DEF Descending
<1>8. \A m \in 1..size : entries[m].value \in 1..(Size(find) - 1)
  BY <1>1, <1>2, <1>4
<1>9. \A c0, c1 \in 0..127, x \in 0..(Size(find) - 2) :
        /\ Fold(c0, sensitive) = find[x]
        /\ Fold(c1, sensitive) = find[x + 1]
        => \E m \in 1..size : /\ entries[m].word = Word(c0, c1)
                              /\ entries[m].value = x + 1
  <2> TAKE c0, c1 \in 0..127, x \in 0..(Size(find) - 2)
  <2> HAVE Fold(c0, sensitive) = find[x] /\ Fold(c1, sensitive) = find[x + 1]
  <2>1. PICK n \in 1..size : word(n) = Word(c0, c1) /\ place(n) = x
    BY <1>6
  <2>2. entries[n] = [word |-> word(n), value |-> place(n) + 1]
    BY <1>2
  <2> HIDE DEF entries, size
  <2>3. entries[n].word = Word(c0, c1) /\ entries[n].value = x + 1
    BY <2>1, <2>2
  <2> QED  BY <2>3
<1> QED
  BY <1>1, <1>3, <1>7, <1>8, <1>9, Zenon

\* The table of a query, made from an empty one that is large enough, holds all
\* of its entries.
LEMMA HashTable ==
  ASSUME NEW find, IsQuery(find), NEW sensitive \in BOOLEAN,
         4 * (Size(find) - 1) < H_SIZE
  PROVE  LET entries == HashEntries(find, sensitive) IN
           /\ Len(entries) \in Nat /\ Len(entries) < H_SIZE
           /\ Placed(generate_hash(find, <<>>, sensitive), entries, Len(entries))
<1> DEFINE entries == HashEntries(find, sensitive)
           size == Len(entries)
           Step(f, n) == IF n = 0 THEN <<>> ELSE AddEntry(f[n - 1], entries[n])
           After(f, n) == f = [k \in 0..n |-> Step(f, k)]
           after == CHOOSE f : After(f, size)
<1>1. generate_hash(find, <<>>, sensitive) = after[size]
  BY DEF generate_hash
<1>2. size \in Nat /\ size < H_SIZE /\ H_SIZE \in Nat /\ Descending(entries, size)
  <2>1. /\ size = (IF sensitive THEN 1 ELSE 4) * (Size(find) - 1)
        /\ size \in Nat /\ Descending(entries, size)
    BY HashEntriesAre, Zenon
  <2>2. Size(find) \in Nat \ {0} /\ H_SIZE \in Nat
    BY LiteralAssumption DEF IsQuery
  <2> HIDE DEF entries, size
  <2> QED  BY <2>1, <2>2
<1> HIDE DEF entries, size
<1>3. \E f : After(f, size)
  <2> DEFINE Bad == {n \in Nat : ~\E f : After(f, n)}
  <2> SUFFICES ASSUME Bad # {} PROVE FALSE
    BY <1>2
  <2>1. PICK n \in Bad : \A m \in Bad : n <= m
    <3>1. Bad \subseteq Nat  OBVIOUS
    <3> HIDE DEF Bad
    <3> QED  BY <3>1, LowestExists
  <2>2. CASE n = 0
    <3> DEFINE f == [k \in 0..0 |-> <<>>]
    <3>1. f = [k \in 0..0 |-> Step(f, k)]
      OBVIOUS
    <3>2. After(f, n)
      BY <2>2, <3>1
    <3> HIDE DEF f, After
    <3> QED  BY <2>1, <3>2
  <2>3. CASE n # 0
    <3>1. n \in Nat /\ n - 1 \in Nat /\ ~(n <= n - 1)
      BY <2>3
    <3>2. PICK g : After(g, n - 1)
      BY <2>1, <3>1
    <3> DEFINE f == [k \in 0..n |-> IF k = n THEN AddEntry(g[n - 1], entries[n])
                                    ELSE g[k]]
    <3>3. ASSUME NEW k \in 0..n PROVE f[k] = Step(f, k)
      <4>1. CASE k = n
        <5>1. f[n - 1] = g[n - 1]
          BY <3>1
        <5> QED  BY <3>1, <4>1, <5>1, <2>3
      <4>2. CASE k # n
        <5>1. k \in 0..(n - 1) /\ (k = 0 \/ k - 1 \in 0..(n - 1))
          BY <3>1, <4>2
        <5>2. f[k] = g[k] /\ (k # 0 => f[k - 1] = g[k - 1])
          BY <3>1, <4>2
        <5>3. g[k] = Step(g, k)
          BY <3>1, <3>2, <4>2
        <5> QED  BY <5>2, <5>3
      <4> QED  BY <4>1, <4>2
    <3>4. After(f, n)
      <4> HIDE DEF Step
      <4> QED  BY <3>3
    <3> HIDE DEF f, After
    <3> QED  BY <2>1, <3>4
  <2> QED  BY <2>2, <2>3
<1>4. \A n \in 0..size : after[n] = Step(after, n)
  <2>1. After(after, size)
    <3> HIDE DEF After
    <3> QED  BY <1>3
  <2> HIDE DEF after, Step
  <2> QED  BY <2>1
<1> HIDE DEF after
<1>5. ASSUME NEW p \in 0..size, ~Placed(after[p], entries, p)
      PROVE  FALSE
  <2> DEFINE Bad == {n \in 0..size : ~Placed(after[n], entries, n)}
  <2>1. PICK n \in Bad : \A m \in Bad : n <= m
    <3>1. Bad \subseteq Nat /\ p \in Bad  BY <1>2, <1>5
    <3> HIDE DEF Bad
    <3> QED  BY <3>1, LowestExists
  <2>2. CASE n = 0
    <3>1. after[0] = <<>> /\ DOMAIN <<>> = {}
      BY <1>2, <1>4
    <3>2. IsFiniteSet({}) /\ Cardinality({}) = 0
      BY FS_EmptySet
    <3>3. Placed(<<>>, entries, 0)
      BY <3>1, <3>2 DEF Placed
    <3> QED  BY <2>1, <2>2, <3>1, <3>3
  <2>3. CASE n # 0
    <3>1. n - 1 \in Nat /\ n - 1 \in 0..size /\ n - 1 < size /\ n - 1 < H_SIZE
          /\ (n - 1) + 1 = n /\ ~(n <= n - 1)
      BY <1>2, <2>3
    <3>2. Placed(after[n - 1], entries, n - 1)
      BY <2>1, <3>1
    <3>3. Placed(AddEntry(after[n - 1], entries[(n - 1) + 1]), entries, (n - 1) + 1)
      BY <1>2, <3>1, <3>2, AddEntryKeeps
    <3>4. after[n] = AddEntry(after[n - 1], entries[n])
      BY <1>4, <2>3
    <3> QED  BY <2>1, <3>1, <3>3, <3>4
  <2> QED  BY <2>2, <2>3
<1> QED
  BY <1>1, <1>2, <1>5 DEF entries, size

\* The cells that are looked at for a word: one of them stands for the place of
\* an entry of this word, and none before it for a place before that.
LEMMA ChainHas ==
  ASSUME NEW table, NEW entries, NEW size \in Nat, size < H_SIZE,
         Descending(entries, size), Placed(table, entries, size),
         NEW m \in 1..size
  PROVE  LET chain == Chain(table, entries[m].word)
             x == entries[m].value - 1
         IN  \E k \in DOMAIN chain :
               /\ chain[k] = x
               /\ \A j \in DOMAIN chain : j < k => chain[j] >= x
<1> DEFINE word == entries[m].word
           f == FreeCell(table, word)
           cell(j) == (word + j) % H_SIZE
<1>1. word \in Int /\ entries[m].value \in Nat
  BY DEF Descending
<1>2. f \in Nat /\ cell(f) \notin DOMAIN table
  BY <1>1, FreeCellIs DEF Placed
<1>3. PICK k \in Nat :
        /\ \A j \in 0..k : cell(j) \in DOMAIN table
        /\ table[cell(k)] = entries[m].value
        /\ \A j \in 0..(k - 1) : table[cell(j)] >= entries[m].value
  BY DEF Placed
<1>4. k < f
  <2> HIDE DEF f, cell
  <2> QED  BY <1>2, <1>3
<1> DEFINE chain == [j \in 1..f |-> table[(word + j - 1) % H_SIZE] - 1]
<1>5. Chain(table, word) = chain
  BY DEF Chain
<1>6. \A j \in 1..f : chain[j] = table[cell(j - 1)] - 1
  <2>1. \A j \in 1..f : word + j - 1 = word + (j - 1)
    BY <1>1, <1>2
  <2> QED  BY <2>1
<1> HIDE DEF f, word, cell
<1>7. k + 1 \in DOMAIN chain /\ chain[k + 1] = entries[m].value - 1
  <2>1. k + 1 \in 1..f /\ (k + 1) - 1 = k
    BY <1>2, <1>4
  <2>2. chain[k + 1] = table[cell(k)] - 1
    BY <1>6, <2>1
  <2> QED  BY <1>3, <2>1, <2>2
<1>8. \A c \in DOMAIN table : table[c] \in Int
  BY DEF Placed, Descending
<1>9. ASSUME NEW j \in DOMAIN chain, j < k + 1
      PROVE  chain[j] >= entries[m].value - 1
  <2>1. j \in 1..f /\ j - 1 \in 0..(k - 1) /\ j - 1 \in 0..k
    BY <1>2, <1>9
  <2>2. table[cell(j - 1)] \in Int /\ table[cell(j - 1)] >= entries[m].value
    BY <1>3, <1>8, <2>1
  <2>3. chain[j] = table[cell(j - 1)] - 1
    BY <1>6, <2>1
  <2> HIDE DEF chain
  <2> QED  BY <1>1, <2>2, <2>3
<1> HIDE DEF chain
<1> QED
  BY <1>5, <1>7, <1>9 DEF word

\* All of them stand for places of the query.
LEMMA ChainPlaces ==
  ASSUME NEW table, NEW entries, NEW size \in Nat, size < H_SIZE,
         Placed(table, entries, size), NEW last \in Nat,
         \A m \in 1..size : entries[m].value \in 1..(last + 1), NEW word \in Int
  PROVE  LET chain == Chain(table, word) IN
           /\ DOMAIN chain \subseteq Nat
           /\ \A k \in DOMAIN chain : chain[k] \in 0..last
<1> DEFINE f == FreeCell(table, word)
<1>1. /\ f \in Nat
      /\ \A j \in 0..(f - 1) : (word + j) % H_SIZE \in DOMAIN table
  BY FreeCellIs DEF Placed
<1>2. \A k \in 1..f : k - 1 \in 0..(f - 1) /\ word + k - 1 = word + (k - 1)
  BY <1>1
<1>3. \A k \in 1..f : table[(word + k - 1) % H_SIZE] \in 1..(last + 1)
  BY <1>1, <1>2 DEF Placed
<1> HIDE DEF f
<1>4. \A k \in 1..f : table[(word + k - 1) % H_SIZE] - 1 \in 0..last
  BY <1>3
<1> QED
  BY <1>1, <1>4 DEF Chain, f

-----------------------------------------------------------------------------
(* hash_strnstr                                                             *)

\* Windows of step characters follow one another.
LEMMA WindowsFollow ==
  ASSUME NEW step \in Nat \ {0}, NEW m \in Nat, NEW n \in Nat
  PROVE  /\ n * step \in Nat /\ m * step \in Nat
         /\ (n + 1) * step = n * step + step
         /\ m <= n => m * step <= n * step
         /\ m < n => m * step + step <= n * step
<1>1. n * step \in Nat /\ m * step \in Nat /\ (n + 1) * step = n * step + step
      /\ (m + 1) * step = m * step + step
  OBVIOUS
<1>2. ASSUME NEW a \in Nat, NEW b \in Nat, a <= b PROVE a * step <= b * step
  <2>1. b - a \in Nat /\ (b - a) * step \in Nat /\ b * step = a * step + (b - a) * step
    BY <1>2
  <2>2. a * step \in Nat
    OBVIOUS
  <2> QED  BY <2>1, <2>2
<1>3. m < n => m + 1 \in Nat /\ m + 1 <= n
  OBVIOUS
<1> QED
  BY <1>1, <1>2, <1>3

\* A place from an offset on is in a window.
LEMMA InWindow ==
  ASSUME NEW step \in Nat \ {0}, NEW y \in Nat
  PROVE  \E n \in Nat : n * step <= y /\ y < n * step + step
<1> DEFINE Bad == {n \in Nat : y < n * step + step}
<1>1. y \in Bad
  <2>1. y * step \in Nat /\ y * step >= y
    <3>1. y * step = y + y * (step - 1) /\ y * (step - 1) \in Nat
      OBVIOUS
    <3> QED  BY <3>1
  <2> QED  BY <2>1
<1>2. PICK n \in Bad : \A m \in Bad : n <= m
  <2>1. Bad \subseteq Nat  OBVIOUS
  <2> HIDE DEF Bad
  <2> QED  BY <1>1, <2>1, LowestExists
<1>3. CASE n = 0
  BY <1>2, <1>3
<1>4. CASE n # 0
  <2>1. n - 1 \in Nat /\ ~(n <= n - 1) /\ (n - 1) + 1 = n
    BY <1>4
  <2>2. ~(y < (n - 1) * step + step)
    BY <1>2, <2>1
  <2>3. (n - 1) * step + step = n * step
    BY <2>1, WindowsFollow
  <2> QED  BY <1>2, <2>2, <2>3
<1> QED  BY <1>3, <1>4

\* The windows that end in the buffer are the first ones.
LEMMA FirstWindows ==
  ASSUME NEW step \in Nat \ {0}, NEW first \in Nat,
         NEW last \in Int, NEW size \in Nat, last <= size,
         NEW Windows,
         \A n : n \in Windows <=> n \in 0..size /\ first + n * step <= last
  PROVE  /\ Cardinality(Windows) \in Nat
         /\ Windows = 0..(Cardinality(Windows) - 1)
<1> DEFINE Others == {n \in Nat : n \notin Windows}
<1>1. PICK k \in Others : \A n \in Others : k <= n
  <2>1. size + 1 \in Others /\ Others \subseteq Nat
    OBVIOUS
  <2> HIDE DEF Others
  <2> QED  BY <2>1, LowestExists
<1>2. \A n \in 0..(k - 1) : n \in Windows
  <2> TAKE n \in 0..(k - 1)
  <2>1. n \in Nat /\ ~(k <= n)
    BY <1>1
  <2>2. n \notin Others
    BY <1>1, <2>1
  <2> QED  BY <2>1, <2>2
<1>3. ASSUME NEW n \in Windows PROVE n \in 0..(k - 1)
  <2> SUFFICES ASSUME k <= n PROVE FALSE
    BY <1>1
  <2>1. n \in Nat /\ k \in Nat /\ n <= size /\ first + n * step <= last
    BY <1>1
  <2>2. k * step <= n * step /\ k * step \in Nat /\ n * step \in Nat
    BY <2>1, WindowsFollow
  <2>3. k \in 0..size /\ first + k * step <= last
    BY <2>1, <2>2
  <2>4. k \in Windows
    BY <2>3
  <2> QED  BY <1>1, <2>4
<1>4. Windows = 0..(k - 1)
  BY <1>2, <1>3
<1>5. Cardinality(0..(k - 1)) = k /\ k \in Nat
  BY <1>1, FS_Interval
<1> QED
  BY <1>4, <1>5

\* Whatever the query and the buffer, if the table was empty before and is large
\* enough: hash_strnstr finds the leftmost match from its offset on.
THEOREM HashFinds ==
  ASSUME NEW s, IsText(s), NEW find, IsQuery(find), Size(find) >= 3,
         NEW sensitive \in BOOLEAN, NEW offset \in Nat,
         4 * (Size(find) - 1) < H_SIZE
  PROVE  LET r == hash_strnstr(s, offset, find,
                    generate_hash(find, <<>>, sensitive), sensitive)
         IN  r \in Int /\ IsLeftmost(r, s, offset, find, sensitive)
<1> DEFINE table == generate_hash(find, <<>>, sensitive)
           entries == HashEntries(find, sensitive)
           size == Len(entries)
           len == Size(find)
           step == len - 1
           last == Size(s) - len
           M(q) == MatchAt(s, find, sensitive, q)
           At(s_i) == Chain(table, Word(s[s_i], s[s_i + 1]))
           Hits(s_i) == {k \in DOMAIN At(s_i) : M(s_i - At(s_i)[k])}
           Window(n) == offset + len - 2 + n * step
           Windows == {n \in 0..Size(s) : Window(n) <= last}
           Found == {n \in Windows : Hits(Window(n)) # {}}
           tail == offset + Cardinality(Windows) * step
           rest == {p \in tail..last : M(p)}
           r == IF last < offset THEN -1
                ELSE IF Found # {}
                THEN LET s_i == Window(Min(Found)) IN s_i - At(s_i)[Min(Hits(s_i))]
                ELSE FirstOr(rest, -1)
<1>1. hash_strnstr(s, offset, find, table, sensitive) = r
  BY DEF hash_strnstr
<1>2. /\ len \in Nat /\ len >= 3 /\ step \in Nat \ {0} /\ step = len - 1
      /\ Size(s) \in Nat /\ last \in Int /\ last <= Size(s) /\ last = Size(s) - len
      /\ s \in [0..(Size(s) - 1) -> 0..127]
  <2>1. len \in Nat /\ len >= 3
    BY DEF IsQuery
  <2>2. Size(s) \in Nat
    BY DEF IsText
  <2>3. s \in [0..(Size(s) - 1) -> 0..127]
    BY LiteralAssumption DEF IsText
  <2>4. step = len - 1 /\ last = Size(s) - len
    OBVIOUS
  <2> HIDE DEF len, step, last
  <2> QED  BY <2>1, <2>2, <2>3, <2>4
<1>3. \A i \in 0..(Size(s) - 1) : s[i] \in 0..127 /\ s[i] \in Int
  <2> TAKE i \in 0..(Size(s) - 1)
  <2>1. s \in [0..(Size(s) - 1) -> 0..127]
    BY <1>2, Zenon
  <2>2. s[i] \in 0..127
    BY <2>1, Zenon
  <2> QED  BY <2>2
<1>4. len \in Nat /\ step = len - 1 /\ len >= 3
  BY <1>2, Zenon
<1>5. /\ size \in Nat /\ size < H_SIZE
      /\ Placed(table, entries, size) /\ Descending(entries, size)
      /\ \A m \in 1..size : entries[m].value \in 1..(len - 1)
      /\ \A c0, c1 \in 0..127, x \in 0..(len - 2) :
           /\ Fold(c0, sensitive) = find[x]
           /\ Fold(c1, sensitive) = find[x + 1]
           => \E m \in 1..size : /\ entries[m].word = Word(c0, c1)
                                 /\ entries[m].value = x + 1
  <2> DEFINE all == (IF sensitive THEN 1 ELSE 4) * (len - 1)
  <2>1. /\ size \in Nat /\ size < H_SIZE /\ Placed(table, entries, size)
    BY HashTable, Zenon
  <2>2. /\ size = all /\ Descending(entries, all)
        /\ \A m \in 1..all : entries[m].value \in 1..(len - 1)
        /\ \A c0, c1 \in 0..127, x \in 0..(len - 2) :
             /\ Fold(c0, sensitive) = find[x]
             /\ Fold(c1, sensitive) = find[x + 1]
             => \E m \in 1..all : /\ entries[m].word = Word(c0, c1)
                                  /\ entries[m].value = x + 1
    BY HashEntriesAre, ZenonT(60)
  <2> HIDE DEF all, entries, size, table, len
  <2> QED  BY <2>1, <2>2, Zenon
<1>6. \A q \in Nat : M(q) => /\ q <= last
                             /\ \A i \in 0..(len - 1) : Fold(s[q + i], sensitive) = find[i]
  <2> TAKE q \in Nat
  <2> HAVE M(q)
  <2>1. q + len <= Size(s) /\ \A i \in DOMAIN find : Fold(s[q + i], sensitive) = find[i]
    BY DEF MatchAt
  <2>2. DOMAIN find = 0..(len - 1)
    BY DEF IsQuery
  <2> HIDE DEF len, last
  <2> QED  BY <1>2, <2>1, <2>2
<1>7. Cardinality(Windows) \in Nat /\ Windows = 0..(Cardinality(Windows) - 1)
  <2> DEFINE first == offset + len - 2
             W == {n \in 0..Size(s) : first + n * step <= last}
  <2> HIDE DEF step, last, len
  <2>1. first \in Nat
    BY <1>2
  <2> HIDE DEF first
  <2>2. Cardinality(W) \in Nat /\ W = 0..(Cardinality(W) - 1)
    <3>1. step \in Nat \ {0} /\ last \in Int /\ Size(s) \in Nat /\ last <= Size(s)
      BY <1>2
    <3>2. \A n : n \in W <=> n \in 0..Size(s) /\ first + n * step <= last
      OBVIOUS
    <3> HIDE DEF W
    <3> QED  BY <2>1, <3>1, <3>2, FirstWindows, Zenon
  <2> QED  BY <2>2 DEF first
<1> HIDE DEF table, entries, size, M
<1> DEFINE count == Cardinality(Windows)
           Start(n) == offset + n * step
<1>8. tail = Start(count) /\ tail \in Nat /\ tail >= offset
      /\ count \in Nat /\ Windows = 0..(count - 1)
  BY <1>2, <1>7, WindowsFollow
<1>9. \A n \in Nat : /\ Start(n) \in Nat /\ Start(n) >= offset
                      /\ Window(n) = Start(n) + step - 1
                      /\ Window(n) \in Nat
  <2> TAKE n \in Nat
  <2>1. n * step \in Nat
    BY <1>2, WindowsFollow
  <2> DEFINE a == n * step
  <2> HIDE DEF a
  <2>2. a \in Nat /\ Window(n) = offset + len - 2 + a /\ Start(n) = offset + a
    BY <2>1 DEF a
  <2> HIDE DEF Window, Start, len, step
  <2> QED  BY <1>2, <2>2
<1>10. \A m, n \in Nat : /\ m <= n => Start(m) <= Start(n)
                         /\ m < n => Start(m) + step <= Start(n)
  <2> TAKE m, n \in Nat
  <2> DEFINE a == m * step
             b == n * step
  <2>1. /\ a \in Nat /\ b \in Nat
        /\ m <= n => a <= b
        /\ m < n => a + step <= b
    BY <1>2, WindowsFollow
  <2>2. Start(m) = offset + a /\ Start(n) = offset + b
    OBVIOUS
  <2> HIDE DEF a, b, Start, step
  <2> QED  BY <1>2, <2>1, <2>2, SMTT(30)
<1>11. \A q \in Nat : q >= offset =>
         \E n \in Nat : Start(n) <= q /\ q < Start(n) + step
  <2> TAKE q \in Nat
  <2> HAVE q >= offset
  <2> HIDE DEF step
  <2>1. q - offset \in Nat
    OBVIOUS
  <2>2. PICK n \in Nat : n * step <= q - offset /\ q - offset < n * step + step
    BY <1>2, <2>1, InWindow
  <2> DEFINE a == n * step
  <2>3. a \in Nat /\ a <= q - offset /\ q - offset < a + step /\ Start(n) = offset + a
    BY <1>2, <2>2, WindowsFollow
  <2>4. step \in Nat
    BY <1>2
  <2> HIDE DEF a, Start, step
  <2>5. Start(n) <= q /\ q < Start(n) + step
    BY <2>3, <2>4
  <2> QED  BY <2>5
<1>12. \A n \in Windows : Window(n) <= last
  OBVIOUS
<1> HIDE DEF Start, Window, Windows, count, tail, step, last, len
\* What is looked up in a window are places of the query.
<1>13. ASSUME NEW n \in Windows
      PROVE  /\ n \in Nat /\ n < count /\ Start(n) \in Nat
             /\ Window(n) = Start(n) + step - 1
             /\ Window(n) \in Nat /\ Window(n) <= last
             /\ DOMAIN At(Window(n)) \subseteq Nat
             /\ \A k \in DOMAIN At(Window(n)) : At(Window(n))[k] \in 0..(len - 2)
  <2>1. n \in Nat /\ n < count
    BY <1>8
  <2>2. Start(n) \in Nat /\ Window(n) = Start(n) + step - 1 /\ Window(n) \in Nat
        /\ Window(n) <= last
    BY <1>9, <1>12, <2>1
  <2> DEFINE w == Window(n)
  <2> HIDE DEF w
  <2>3. w \in 0..(Size(s) - 1) /\ w + 1 \in 0..(Size(s) - 1)
    BY <1>2, <2>2 DEF w
  <2>4. Word(s[w], s[w + 1]) \in Int
    <3>1. s[w] \in Int /\ s[w + 1] \in Int
      BY <1>3, <2>3
    <3> QED  BY <3>1 DEF Word
  <2>5. len - 2 \in Nat /\ len - 2 + 1 = len - 1
    BY <1>2
  <2>6. /\ DOMAIN At(w) \subseteq Nat
        /\ \A k \in DOMAIN At(w) : At(w)[k] \in 0..(len - 2)
    BY <1>5, <2>4, <2>5, ChainPlaces
  <2> HIDE DEF At
  <2> QED  BY <2>1, <2>2, <2>6 DEF w
\* A match that starts in a window is found there, unless one before it is.
<1>14. ASSUME NEW n \in Windows, NEW q \in Nat, M(q),
             Start(n) <= q, q <= Window(n)
      PROVE  \E k \in Hits(Window(n)) :
               /\ At(Window(n))[k] = Window(n) - q
               /\ \A j \in Hits(Window(n)) :
                    j < k => At(Window(n))[j] >= Window(n) - q
  <2> DEFINE w == Window(n)
             x == w - q
  <2>1. /\ w \in Nat /\ w <= last /\ w = Start(n) + step - 1 /\ Start(n) \in Nat
        /\ Start(n) <= q /\ q <= w /\ x = w - q
    BY <1>13, <1>14
  <2> HIDE DEF w, x
  <2>2. x \in Nat /\ x <= len - 2
    BY <1>4, <2>1
  <2>3. q + x = w /\ q + (x + 1) = w + 1 /\ w - x = q
    BY <2>1
  <2>4. x \in 0..(len - 2) /\ x + 1 \in 0..(len - 1) /\ x \in 0..(len - 1)
    BY <1>4, <2>2
  <2>5. /\ w \in Nat /\ w <= last /\ x \in 0..(len - 2) /\ x + 1 \in 0..(len - 1)
        /\ x \in 0..(len - 1) /\ q + x = w /\ q + (x + 1) = w + 1 /\ w - x = q
    BY <2>1, <2>3, <2>4, Zenon
  <2>6. w \in 0..(Size(s) - 1) /\ w + 1 \in 0..(Size(s) - 1)
    BY <1>2, <2>5
  <2>7. Fold(s[w], sensitive) = find[x] /\ Fold(s[w + 1], sensitive) = find[x + 1]
    BY <1>6, <1>14, <2>5
  <2>8. s[w] \in 0..127 /\ s[w + 1] \in 0..127
    BY <1>3, <2>6
  <2>9. PICK m \in 1..size : /\ entries[m].word = Word(s[w], s[w + 1])
                             /\ entries[m].value = x + 1
    BY <1>5, <2>5, <2>7, <2>8
  <2> DEFINE chain == Chain(table, entries[m].word)
             place == entries[m].value - 1
  <2>10. \E k \in DOMAIN chain :
          /\ chain[k] = place
          /\ \A j \in DOMAIN chain : j < k => chain[j] >= place
    BY <1>5, ChainHas, Zenon
  <2>11. place = x /\ chain = At(w)
    BY <2>5, <2>9
  <2> HIDE DEF chain, place, At
  <2>12. PICK k \in DOMAIN At(w) :
          /\ At(w)[k] = x
          /\ \A j \in DOMAIN At(w) : j < k => At(w)[j] >= x
    BY <2>10, <2>11
  <2>13. k \in Hits(w) /\ \A j \in Hits(w) : j \in DOMAIN At(w)
    BY <1>14, <2>5, <2>12
  <2> HIDE DEF Hits
  <2>14. \E i \in Hits(w) :
          At(w)[i] = x /\ \A j \in Hits(w) : j < i => At(w)[j] >= x
    BY <2>12, <2>13
  <2> QED
    BY <2>14 DEF w, x
\* A match starts in a window or after all of them.
<1>15. ASSUME NEW q \in Nat, q >= offset, q < tail
      PROVE  \E n \in Windows : Start(n) <= q /\ q <= Window(n)
  <2>1. PICK n \in Nat : Start(n) <= q /\ q < Start(n) + step
    BY <1>11, <1>15
  <2>2. n < count
    <3> SUFFICES ASSUME count <= n PROVE FALSE
      BY <1>8
    <3>1. Start(count) <= Start(n) /\ Start(count) \in Nat /\ Start(n) \in Nat
      BY <1>8, <1>9, <1>10
    <3> QED  BY <1>8, <1>15, <2>1, <3>1
  <2>3. n \in Windows
    BY <1>8, <2>2
  <2>4. Window(n) = Start(n) + step - 1 /\ Start(n) \in Nat
    BY <1>9
  <2>5. q <= Window(n)
    BY <1>2, <2>1, <2>4
  <2> QED  BY <2>1, <2>3, <2>5
<1>16. CASE last < offset
  <2>1. \A q \in Nat : q >= offset => ~M(q)
    BY <1>2, <1>6, <1>16
  <2>2. r = -1
    BY <1>16
  <2> HIDE DEF r
  <2> QED  BY <1>1, <2>1, <2>2 DEF IsLeftmost, M, table
<1>17. CASE ~(last < offset) /\ Found = {}
  <2>1. r = FirstOr(rest, -1)
    BY <1>17
  <2>2. ASSUME NEW q \in Nat, q >= offset, M(q) PROVE q \in rest
    <3>1. q <= last
      BY <1>6, <2>2
    <3>2. q >= tail
      <4> SUFFICES ASSUME q < tail PROVE FALSE
        BY <1>8
      <4>1. PICK n \in Windows : Start(n) <= q /\ q <= Window(n)
        BY <1>15, <2>2
      <4>2. Hits(Window(n)) # {}
        BY <1>14, <2>2, <4>1
      <4> QED  BY <1>17, <4>2
    <3> QED  BY <1>2, <1>8, <2>2, <3>1, <3>2
  <2>3. rest \subseteq Nat /\ \A q \in rest : q >= offset /\ M(q)
    BY <1>2, <1>8
  <2> HIDE DEF r, rest
  <2>4. CASE rest = {}
    <3>1. r = -1
      BY <2>1, <2>4 DEF FirstOr
    <3> QED  BY <1>1, <2>2, <2>4, <3>1 DEF IsLeftmost, M, table
  <2>5. CASE rest # {}
    <3>1. r = Min(rest)
      BY <2>1, <2>5 DEF FirstOr
    <3>2. r \in rest /\ \A q \in rest : r <= q
      BY <2>3, <2>5, <3>1, MinIs
    <3>3. \A q \in Nat : offset <= q /\ q < r => ~M(q)
      BY <2>2, <2>3, <3>2
    <3>4. r \in Nat /\ r >= offset /\ M(r)
      BY <2>3, <3>2
    <3> QED  BY <1>1, <3>3, <3>4 DEF IsLeftmost, M, table
  <2> QED  BY <2>4, <2>5
<1>18. CASE ~(last < offset) /\ Found # {}
  <2> DEFINE n0 == Min(Found)
             w == Window(n0)
             k0 == Min(Hits(w))
  <2>1. r = w - At(w)[k0]
    BY <1>18
  <2>2. n0 \in Found /\ \A n \in Found : n0 <= n
    <3>1. Found \subseteq Nat
      BY <1>7
    <3> HIDE DEF Found
    <3> QED  BY <1>18, <3>1, MinIs
  <2>3. n0 \in Windows /\ Hits(w) # {}
    BY <2>2
  <2> HIDE DEF n0
  <2>4. /\ n0 \in Nat /\ n0 < count /\ Start(n0) \in Nat
        /\ w = Start(n0) + step - 1 /\ w \in Nat
        /\ DOMAIN At(w) \subseteq Nat
        /\ \A k \in DOMAIN At(w) : At(w)[k] \in 0..(len - 2)
    BY <1>13, <2>3
  <2>5. k0 \in Hits(w) /\ \A k \in Hits(w) : k0 <= k
    <3>1. Hits(w) \subseteq Nat
      BY <2>4
    <3> HIDE DEF Hits, w
    <3> QED  BY <2>3, <3>1, MinIs
  <2> HIDE DEF k0
  <2>6. M(w - At(w)[k0]) /\ At(w)[k0] \in 0..(len - 2)
    BY <2>4, <2>5
  <2> HIDE DEF r
  <2>7. r \in Nat /\ r >= Start(n0) /\ r >= offset /\ r <= w /\ M(r)
    <3> DEFINE x == At(w)[k0]
    <3>1. r = w - x /\ x \in 0..(len - 2) /\ M(w - x)
      BY <2>1, <2>6
    <3>2. Start(n0) >= offset
      BY <1>9, <2>4
    <3>3. w = Start(n0) + step - 1 /\ w \in Nat /\ Start(n0) \in Nat
      BY <2>4
    <3> HIDE DEF w, x
    <3>4. r \in Nat /\ r >= Start(n0) /\ r <= w
      BY <1>2, <3>1, <3>3
    <3> QED  BY <3>1, <3>2, <3>3, <3>4
  <2>8. ASSUME NEW q \in Nat, offset <= q, q < r, M(q) PROVE FALSE
    <3>1. Start(n0) + step <= tail
      BY <1>8, <1>10, <2>4
    <3>2. q < tail
      <4>1. w = Start(n0) + step - 1 /\ w \in Nat /\ Start(n0) \in Nat
        BY <2>4
      <4>2. q \in Nat /\ r \in Nat /\ q < r /\ r <= w
        BY <2>7, <2>8
      <4> HIDE DEF w
      <4> QED  BY <1>2, <1>8, <3>1, <4>1, <4>2, SMTT(30)
    <3>3. PICK n \in Windows : Start(n) <= q /\ q <= Window(n)
      BY <1>15, <2>8, <3>2
    <3>4. PICK k \in Hits(Window(n)) :
            /\ At(Window(n))[k] = Window(n) - q
            /\ \A j \in Hits(Window(n)) :
                 j < k => At(Window(n))[j] >= Window(n) - q
      BY <1>14, <2>8, <3>3
    <3>5. n \in Found
      BY <3>3, <3>4
    <3>6. n0 <= n /\ n \in Nat /\ Start(n) \in Nat
      BY <1>13, <2>2, <3>3, <3>5
    <3>7. ~(n0 < n)
      <4> SUFFICES ASSUME n0 < n PROVE FALSE  OBVIOUS
      <4>1. Start(n0) + step <= Start(n)
        BY <1>10, <2>4, <3>6
      <4>2. w = Start(n0) + step - 1 /\ w \in Nat /\ Start(n0) \in Nat
        BY <2>4
      <4> HIDE DEF w
      <4> QED  BY <1>2, <2>7, <2>8, <3>3, <3>6, <4>1, <4>2, SMTT(30)
    <3>8. n = n0
      BY <2>4, <3>6, <3>7
    <3>9. k \in Hits(w) /\ At(w)[k] = w - q
          /\ \A j \in Hits(w) : j < k => At(w)[j] >= w - q
      BY <3>4, <3>8
    <3>10. k0 <= k /\ k \in Nat /\ k0 \in Nat /\ k0 \in Hits(w)
      BY <2>4, <2>5, <3>9
    <3> DEFINE x == At(w)[k0]
    <3>11. x >= w - q
      <4>1. CASE k0 = k
        <5>1. x = w - q
          BY <3>9, <4>1
        <5> HIDE DEF w, x
        <5> QED  BY <2>4, <5>1
      <4>2. CASE k0 # k
        <5>1. k0 < k
          BY <3>10, <4>2
        <5> QED  BY <3>9, <3>10, <5>1
      <4> QED  BY <4>1, <4>2
    <3> HIDE DEF w, x
    <3>12. x \in Int /\ r = w - x
      BY <2>1, <2>6 DEF x
    <3> QED  BY <2>4, <2>8, <3>11, <3>12
  <2>9. \A q \in Nat : offset <= q /\ q < r => ~M(q)
    BY <2>8
  <2> HIDE DEF w
  <2> QED
    BY <1>1, <2>7, <2>9 DEF IsLeftmost, M, table
<1> QED
  BY <1>2, <1>16, <1>17, <1>18

-----------------------------------------------------------------------------
(* search_buf                                                               *)

\* The tables are those of a first search, or h_table is not looked at: the
\* program searches once, and ag_search of the library only looks at h_table
\* when built for x86, where a second search meets what the first has left.
TablesFit ==
  \/ Builds = {FALSE}
  \/ MaxSearches = 1 /\ H_SIZE > 4 * 253

Phases == {"idle", "ready", "matching", "done"}

\* From setup_search() on the tables are those of the query.
TablesInv ==
  /\ unaligned \in Builds
  /\ case_sensitive \in BOOLEAN
  /\ searches \in Nat
  /\ phase \in Phases
  /\ searches = 0 => h_table = <<>> /\ phase = "idle"
  /\ phase # "idle" =>
       /\ IsQuery(query)
       /\ alpha_skip_lookup = generate_alpha_skip(query, case_sensitive)
       /\ find_skip_lookup = generate_find_skip(query)
       /\ searches = 1 => h_table = generate_hash(query, <<>>, case_sensitive)
       /\ searches \in 1..MaxSearches

\* What the loop has found in the part of the buffer behind it.
MatchesInv ==
  phase \in {"matching", "done"} =>
    /\ IsText(buf)
    /\ buf_offset \in Nat
    /\ matches \in Seq(Nat)
    /\ \A k \in 1..Len(matches) :
         /\ matches[k] \in Occurrences
         /\ matches[k] + Size(query) <= buf_offset
    /\ \A k \in 2..Len(matches) : matches[k - 1] + Size(query) <= matches[k]
    /\ \A p \in Occurrences :
         p < buf_offset \/ (phase = "done" /\ ~TooMany(matches)) =>
           \E k \in 1..Len(matches) :
             matches[k] <= p /\ p < matches[k] + Size(query)

LiteralInv == TablesInv /\ MatchesInv

\* The strings of the assumption are texts, and a query with its case folded is
\* still a query.
LEMMA Texts ==
  ASSUME NEW s \in Queries \cup Buffers, NEW sensitive \in BOOLEAN
  PROVE  IsText(s) /\ IsQuery([i \in DOMAIN s |-> Fold(s[i], sensitive)])
<1> DEFINE find == [i \in DOMAIN s |-> Fold(s[i], sensitive)]
<1>1. IsFiniteSet(DOMAIN s) /\ s \in [0..(Size(s) - 1) -> Char] /\ DOMAIN s # {}
  BY LiteralAssumption
<1>2. Size(s) \in Nat \ {0}
  BY <1>1, FS_CardinalityType, FS_EmptySet DEF Size
<1>3. DOMAIN find = DOMAIN s /\ Size(find) = Size(s)
  BY DEF Size
<1>4. \A i \in DOMAIN s : find[i] \in Int
  <2> TAKE i \in DOMAIN s
  <2>1. s[i] \in Char /\ Char \subseteq 0..127
    BY <1>1, LiteralAssumption
  <2>2. s[i] \in Int
    <3>1. s[i] \in 0..127
      BY <2>1, Zenon
    <3> QED  BY <3>1
  <2> QED  BY <2>2 DEF Fold, tolower
<1>5. DOMAIN s = 0..(Size(s) - 1)
  BY <1>1
<1>6. find \in [0..(Size(find) - 1) -> Int]
  <2>1. find = [i \in DOMAIN s |-> find[i]]
    OBVIOUS
  <2> HIDE DEF find
  <2> QED  BY <1>3, <1>4, <1>5, <2>1
<1> HIDE DEF find
<1>7. IsQuery(find)
  BY <1>2, <1>3, <1>6 DEF IsQuery
<1>8. IsText(s)
  BY <1>1, <1>2 DEF IsText
<1> QED  BY <1>7, <1>8 DEF find

\* Whichever searcher is used, it finds the leftmost match from buf_offset on.
LEMMA NextIsLeftmost ==
  ASSUME TablesFit, TablesInv, MatchesInv, phase = "matching"
  PROVE  /\ NextMatch \in Int
         /\ IsLeftmost(NextMatch, buf, buf_offset, query, case_sensitive)
<1>1. /\ IsText(buf) /\ IsQuery(query) /\ buf_offset \in Nat
      /\ case_sensitive \in BOOLEAN /\ Size(query) \in Nat \ {0}
      /\ Size(buf) \in Nat
  BY DEF TablesInv, MatchesInv, IsText, IsQuery
<1>2. CASE buf_offset >= Size(buf)
  <2>1. NextMatch = -1
    BY <1>2 DEF NextMatch
  <2>2. ASSUME NEW q \in Nat, q >= buf_offset
        PROVE  ~MatchAt(buf, query, case_sensitive, q)
    BY <1>1, <1>2, <2>2 DEF MatchAt
  <2> QED  BY <2>1, <2>2 DEF IsLeftmost
<1>3. CASE ~(buf_offset >= Size(buf)) /\ UsesHash(query)
  <2>1. unaligned /\ Size(query) >= 3 /\ Size(query) < 255
    BY <1>3 DEF UsesHash
  <2>2. MaxSearches = 1 /\ H_SIZE > 4 * 253
    BY <2>1 DEF TablesFit, TablesInv
  <2>3. h_table = generate_hash(query, <<>>, case_sensitive)
    BY <2>2 DEF TablesInv
  <2>4. 4 * (Size(query) - 1) < H_SIZE
    BY <1>1, <2>1, <2>2, LiteralAssumption
  <2>5. NextMatch = hash_strnstr(buf, buf_offset, query,
                      generate_hash(query, <<>>, case_sensitive), case_sensitive)
    BY <1>3, <2>3 DEF NextMatch
  <2> QED
    BY <1>1, <2>1, <2>4, <2>5, HashFinds
<1>4. CASE ~(buf_offset >= Size(buf)) /\ ~UsesHash(query)
  <2>1. NextMatch = boyer_moore_strnstr(buf, buf_offset, query,
                      generate_alpha_skip(query, case_sensitive),
                      generate_find_skip(query), case_sensitive)
    BY <1>4 DEF NextMatch, TablesInv
  <2> QED
    BY <1>1, <2>1, BoyerMooreFinds
<1> QED  BY <1>2, <1>3, <1>4

\* After a match that is not a whole word the loop goes on further right, and
\* leaves no match out.
LEMMA SkipMisses ==
  ASSUME IsQuery(query), IsText(buf), case_sensitive \in BOOLEAN,
         find_skip_lookup = generate_find_skip(query),
         NEW p \in Nat, MatchAt(buf, query, case_sensitive, p)
  PROVE  LET next == p + find_skip_lookup[0] - Size(query) + 1 IN
           /\ next \in Nat /\ next > p
           /\ \A r \in Nat : MatchAt(buf, query, case_sensitive, r) /\ r > p
                             => next <= r
<1> DEFINE len == Size(query)
           skip == generate_find_skip(query)[0]
<1>1. len \in Nat \ {0} /\ 0 \in 0..(len - 1)
  BY DEF IsQuery
<1>2. /\ skip \in Nat /\ skip > len - 1 - 0
      /\ \A d \in Nat \ {0} : Agrees(query, 0, d) => skip - (len - 1 - 0) <= d
  BY <1>1, FindSkip
<1> HIDE DEF skip
<1>3. ASSUME NEW r \in Nat, MatchAt(buf, query, case_sensitive, r), r > p
      PROVE  Agrees(query, 0, r - p)
  <2> DEFINE d == r - p
  <2>1. d \in Nat \ {0}
    BY <1>3
  <2>2. /\ \A x \in 0..(len - 1) : Fold(buf[p + x], case_sensitive) = query[x]
        /\ \A x \in 0..(len - 1) : Fold(buf[r + x], case_sensitive) = query[x]
    <3>1. DOMAIN query = 0..(len - 1)
      BY DEF IsQuery
    <3> QED  BY <1>3, <3>1 DEF MatchAt
  <2>3. ASSUME NEW x \in (0 + 1)..(len - 1), x - d >= 0
        PROVE  query[x - d] = query[x]
    <3>1. x \in 0..(len - 1) /\ x - d \in 0..(len - 1) /\ r + (x - d) = p + x
      BY <1>1, <2>1, <2>3
    <3> QED  BY <2>2, <3>1
  <2>4. ~(0 - d >= 0)
    BY <2>1
  <2> HIDE DEF d
  <2>5. Agrees(query, 0, d)
    BY <2>3, <2>4 DEF Agrees
  <2> QED  BY <2>5 DEF d
<1>4. ASSUME NEW r \in Nat, MatchAt(buf, query, case_sensitive, r), r > p
      PROVE  p + skip - len + 1 <= r
  <2>1. r - p \in Nat \ {0}
    BY <1>4
  <2>2. skip - (len - 1 - 0) <= r - p
    BY <1>2, <1>3, <1>4, <2>1
  <2> HIDE DEF len
  <2> QED  BY <1>1, <1>2, <2>2
<1>5. p + skip - len + 1 \in Nat /\ p + skip - len + 1 > p
  <2> HIDE DEF len
  <2> QED  BY <1>1, <1>2
<1> QED
  BY <1>4, <1>5 DEF skip

\* The loop knows the matches of the part of the buffer behind it.
THEOREM LiteralInvariance ==
  ASSUME TablesFit
  PROVE  Spec => []LiteralInv
<1>1. Init => LiteralInv
  BY DEF Init, LiteralInv, TablesInv, MatchesInv, Phases
<1>2. LiteralInv /\ [Next]_vars => LiteralInv'
  <2> SUFFICES ASSUME LiteralInv, [Next]_vars PROVE LiteralInv'
    OBVIOUS
  <2>1. ASSUME NEW q \in Queries, NEW sensitive \in BOOLEAN, NEW words \in BOOLEAN,
               SetupSearch(q, sensitive, words)
        PROVE  LiteralInv'
    <3> DEFINE find == [i \in DOMAIN q |-> Fold(q[i], sensitive)]
    <3>1. IsQuery(find)
      BY Texts
    <3> HIDE DEF find
    <3>2. /\ query' = find /\ case_sensitive' = sensitive
          /\ alpha_skip_lookup' = generate_alpha_skip(find, sensitive)
          /\ find_skip_lookup' = generate_find_skip(find)
          /\ h_table' = generate_hash(find, h_table, sensitive)
          /\ phase' = "ready" /\ searches' = searches + 1 /\ searches < MaxSearches
          /\ unaligned' = unaligned
      BY <2>1 DEF SetupSearch, find
    <3>3. searches \in Nat /\ unaligned \in Builds /\ (searches = 0 => h_table = <<>>)
      BY DEF LiteralInv, TablesInv
    <3>4. searches' \in Nat \ {0} /\ searches' \in 1..MaxSearches
          /\ (searches' = 1 => searches = 0)
      BY <3>2, <3>3, LiteralAssumption
    <3>5. TablesInv'
      <4>1. searches' = 1 => h_table' = generate_hash(query', <<>>, case_sensitive')
        BY <3>2, <3>3, <3>4
      <4> QED
        BY <3>1, <3>2, <3>3, <3>4, <4>1 DEF TablesInv, Phases, IsQuery, Size
    <3>6. MatchesInv'
      BY <3>2 DEF MatchesInv
    <3> QED  BY <3>5, <3>6 DEF LiteralInv
  <2>2. ASSUME NEW s \in Buffers, SearchBuf(s) PROVE LiteralInv'
    <3>1. /\ buf' = s /\ buf_offset' = 0 /\ matches' = <<>> /\ phase' = "matching"
          /\ phase = "ready" /\ UNCHANGED setupVars
      BY <2>2 DEF SearchBuf
    <3>2. TablesInv'
      BY <3>1 DEF LiteralInv, TablesInv, Phases, setupVars, IsQuery, Size
    <3>3. IsText(s)
      BY Texts
    <3>4. \A p \in Occurrences' : p \in Nat
      BY <3>1, <3>3 DEF Occurrences, IsText
    <3>5. MatchesInv'
      <4>1. IsText(buf')
        BY <3>1, <3>3
      <4>2. \A p \in Occurrences' : ~(p < buf_offset')
        BY <3>1, <3>4
      <4> QED
        BY <3>1, <4>1, <4>2 DEF MatchesInv, IsText, Size
    <3> QED  BY <3>2, <3>5 DEF LiteralInv
  <2>3. ASSUME phase = "matching", NEW p \in {NextMatch},
               AddMatch(p) \/ SkipMatch(p) \/ EndSearchBuf(p)
        PROVE  LiteralInv'
    <3>1. UNCHANGED <<setupVars, buf>> /\ phase' \in {"matching", "done"}
      BY <2>3 DEF AddMatch, SkipMatch, EndSearchBuf
    <3>2. TablesInv'
      BY <2>3, <3>1 DEF LiteralInv, TablesInv, Phases, setupVars, IsQuery, Size
    <3>3. Occurrences' = Occurrences /\ Size(query)' = Size(query) /\ IsText(buf)'
          /\ buf_offset \in Nat /\ matches \in Seq(Nat)
      BY <2>3, <3>1 DEF Occurrences, MatchAt, OnWordBoundaries, Size, setupVars,
                        LiteralInv, MatchesInv, IsText
    <3>4. p \in Int /\ IsLeftmost(p, buf, buf_offset, query, case_sensitive)
      BY <2>3, NextIsLeftmost DEF LiteralInv
    <3>5. /\ IsQuery(query) /\ Size(query) \in Nat \ {0} /\ IsText(buf)
          /\ Size(buf) \in Nat \ {0} /\ case_sensitive \in BOOLEAN
          /\ find_skip_lookup = generate_find_skip(query)
          /\ DOMAIN buf = 0..(Size(buf) - 1)
      BY <2>3 DEF LiteralInv, TablesInv, MatchesInv, IsQuery, IsText
    <3>6. \A q \in Occurrences : /\ q \in Nat
                                 /\ MatchAt(buf, query, case_sensitive, q)
                                 /\ word_regexp => OnWordBoundaries(q)
      BY <3>5 DEF Occurrences
    <3>7. /\ \A k \in 1..Len(matches) :
               /\ matches[k] \in Occurrences
               /\ matches[k] + Size(query) <= buf_offset
          /\ \A k \in 2..Len(matches) : matches[k - 1] + Size(query) <= matches[k]
          /\ \A q \in Occurrences : q < buf_offset =>
               \E k \in 1..Len(matches) :
                 matches[k] <= q /\ q < matches[k] + Size(query)
      BY <2>3 DEF LiteralInv, MatchesInv
    <3>8. CASE AddMatch(p)
      <4>1. /\ p \in Nat /\ p >= buf_offset /\ MatchAt(buf, query, case_sensitive, p)
            /\ \A q \in Nat : buf_offset <= q /\ q < p
                              => ~MatchAt(buf, query, case_sensitive, q)
        BY <3>4, <3>8 DEF AddMatch, IsLeftmost
      <4>2. p \in Occurrences
        BY <3>5, <3>8, <4>1 DEF Occurrences, AddMatch, MatchAt
      <4>3. /\ matches' = Append(matches, p) /\ buf_offset' = p + Size(query)
            /\ phase' = IF TooMany(matches') THEN "done" ELSE "matching"
        BY <3>8 DEF AddMatch
      <4> DEFINE n == Len(matches)
      <4>4. /\ matches' \in Seq(Nat) /\ Len(matches') = n + 1 /\ matches'[n + 1] = p
            /\ \A k \in 1..n : matches'[k] = matches[k] /\ matches[k] \in Nat
            /\ n \in Nat
        BY <3>3, <4>1, <4>3
      <4> HIDE DEF n
      <4>5. \A k \in 1..(n + 1) : /\ matches'[k] \in Occurrences
                                  /\ matches'[k] + Size(query) <= buf_offset'
        <5> TAKE k \in 1..(n + 1)
        <5>1. CASE k = n + 1
          BY <3>5, <4>1, <4>2, <4>3, <4>4, <5>1
        <5>2. CASE k # n + 1
          <6>1. k \in 1..n
            BY <4>4, <5>2
          <6>2. matches[k] \in Occurrences /\ matches[k] + Size(query) <= buf_offset
            BY <3>7, <6>1 DEF n
          <6> QED  BY <3>3, <3>5, <4>1, <4>3, <4>4, <6>1, <6>2
        <5> QED  BY <5>1, <5>2
      <4>6. \A k \in 2..(n + 1) : matches'[k - 1] + Size(query) <= matches'[k]
        <5> TAKE k \in 2..(n + 1)
        <5>1. k - 1 \in 1..n
          BY <4>4
        <5>2. CASE k = n + 1
          <6>1. matches[k - 1] + Size(query) <= buf_offset
            BY <3>7, <5>1 DEF n
          <6> QED  BY <3>3, <3>5, <4>1, <4>4, <5>1, <5>2, <6>1
        <5>3. CASE k # n + 1
          <6>1. k \in 2..n /\ k \in 1..n
            BY <4>4, <5>3
          <6>2. matches[k - 1] + Size(query) <= matches[k]
            BY <3>7, <6>1 DEF n
          <6> QED  BY <4>4, <5>1, <6>1, <6>2
        <5> QED  BY <5>2, <5>3
      <4>7. ASSUME NEW q \in Occurrences, q < buf_offset'
            PROVE  \E k \in 1..(n + 1) :
                     matches'[k] <= q /\ q < matches'[k] + Size(query)
        <5>1. CASE q < buf_offset
          <6>1. PICK k \in 1..n : matches[k] <= q /\ q < matches[k] + Size(query)
            BY <3>7, <5>1 DEF n
          <6>2. k \in 1..(n + 1) /\ matches'[k] = matches[k]
            BY <4>4
          <6> QED  BY <6>1, <6>2
        <5>2. CASE ~(q < buf_offset)
          <6>1. q \in Nat /\ p <= q /\ q < p + Size(query)
            BY <3>3, <3>6, <4>1, <4>3, <4>7, <5>2
          <6>2. n + 1 \in 1..(n + 1)
            BY <4>4
          <6> QED  BY <4>4, <6>1, <6>2
        <5> QED  BY <5>1, <5>2
      <4>8. phase' = "done" => TooMany(matches')
        BY <4>3
      <4>9. buf_offset' \in Nat
        BY <3>5, <4>1, <4>3
      <4>10. MatchesInv'
        BY <3>3, <4>4, <4>5, <4>6, <4>7, <4>8, <4>9 DEF MatchesInv, TooMany
      <4> QED  BY <3>2, <4>10 DEF LiteralInv
    <3>9. CASE SkipMatch(p)
      <4>1. /\ p \in Nat /\ p >= buf_offset /\ MatchAt(buf, query, case_sensitive, p)
            /\ \A q \in Nat : buf_offset <= q /\ q < p
                              => ~MatchAt(buf, query, case_sensitive, q)
        BY <3>4, <3>9 DEF SkipMatch, IsLeftmost
      <4>2. /\ word_regexp /\ ~OnWordBoundaries(p) /\ matches' = matches
            /\ phase' = "matching"
            /\ buf_offset' = p + find_skip_lookup[0] - Size(query) + 1
        BY <2>3, <3>9 DEF SkipMatch
      <4>3. /\ buf_offset' \in Nat /\ buf_offset' > p
            /\ \A r \in Nat : MatchAt(buf, query, case_sensitive, r) /\ r > p
                              => buf_offset' <= r
        BY <3>5, <4>1, <4>2, SkipMisses
      <4>4. ASSUME NEW q \in Occurrences, q < buf_offset' PROVE q < buf_offset
        <5>1. q \in Nat /\ MatchAt(buf, query, case_sensitive, q) /\ q # p
          BY <3>6, <4>2
        <5>2. ~(q > p)
          BY <4>3, <4>4, <5>1
        <5>3. ~(buf_offset <= q /\ q < p)
          BY <4>1, <5>1
        <5> QED  BY <3>3, <4>1, <5>1, <5>2, <5>3
      <4>5. \A k \in 1..Len(matches) : matches[k] + Size(query) <= buf_offset'
        <5> TAKE k \in 1..Len(matches)
        <5>1. matches[k] \in Nat /\ matches[k] + Size(query) <= buf_offset
          BY <3>3, <3>7
        <5> QED  BY <3>3, <3>5, <4>1, <4>3, <5>1
      <4>6. MatchesInv'
        BY <3>3, <3>7, <4>2, <4>3, <4>4, <4>5 DEF MatchesInv
      <4> QED  BY <3>2, <4>6 DEF LiteralInv
    <3>10. CASE EndSearchBuf(p)
      <4>1. p = -1 /\ phase' = "done" /\ matches' = matches /\ buf_offset' = buf_offset
        BY <3>10 DEF EndSearchBuf
      <4>2. \A q \in Nat : q >= buf_offset => ~MatchAt(buf, query, case_sensitive, q)
        BY <3>4, <4>1 DEF IsLeftmost
      <4>3. \A q \in Occurrences : q < buf_offset
        BY <3>3, <3>6, <4>2
      <4>4. MatchesInv'
        BY <3>3, <3>7, <4>1, <4>3 DEF MatchesInv
      <4> QED  BY <3>2, <4>4 DEF LiteralInv
    <3> QED  BY <2>3, <3>8, <3>9, <3>10
  <2>4. CASE UNCHANGED vars
    <3>1. TablesInv'
      BY <2>4 DEF vars, setupVars, LiteralInv, TablesInv, IsQuery, Size
    <3>2. MatchesInv'
      BY <2>4 DEF vars, setupVars, LiteralInv, MatchesInv, IsText, Size,
                  Occurrences, MatchAt, OnWordBoundaries, TooMany
    <3> QED  BY <3>1, <3>2 DEF LiteralInv
  <2> QED  BY <2>1, <2>2, <2>3, <2>4 DEF Next
<1> QED  BY <1>1, <1>2, PTL DEF Spec

\* For every query, buffer and setting, the loop of search_buf reports leftmost
\* matches, without overlaps and without leaving one out (search.c, util.c).
THEOREM MatchesFound ==
  ASSUME TablesFit
  PROVE  Spec => []LeftmostMatches
<1>1. LiteralInv => LeftmostMatches
  <2> SUFFICES ASSUME LiteralInv, phase = "done"
               PROVE  /\ \A k \in DOMAIN matches : matches[k] \in Occurrences
                      /\ \A k \in DOMAIN matches \ {1} :
                           matches[k - 1] + Size(query) <= matches[k]
                      /\ \A p \in Occurrences :
                           p < buf_offset \/ ~TooMany(matches) =>
                             \E k \in DOMAIN matches :
                               matches[k] <= p /\ p < matches[k] + Size(query)
    BY DEF LeftmostMatches
  <2>1. /\ matches \in Seq(Nat)
        /\ \A k \in 1..Len(matches) : matches[k] \in Occurrences
        /\ \A k \in 2..Len(matches) : matches[k - 1] + Size(query) <= matches[k]
        /\ \A p \in Occurrences :
             p < buf_offset \/ ~TooMany(matches) =>
               \E k \in 1..Len(matches) :
                 matches[k] <= p /\ p < matches[k] + Size(query)
    BY DEF LiteralInv, MatchesInv
  <2>2. DOMAIN matches = 1..Len(matches) /\ Len(matches) \in Nat
    BY <2>1
  <2>3. \A k \in DOMAIN matches \ {1} : k \in 2..Len(matches)
    BY <2>2
  <2> QED  BY <2>1, <2>2, <2>3
<1> QED  BY <1>1, LiteralInvariance, PTL

\* Every iteration of that loop moves on in the buffer: the tables never take it
\* back, so it ends.
THEOREM LoopAdvances ==
  ASSUME TablesFit
  PROVE  Spec => OffsetAdvances
<1>1. LiteralInv /\ [Next]_vars =>
        [phase = "matching" /\ phase' = "matching" => buf_offset' > buf_offset]_vars
  <2> SUFFICES ASSUME LiteralInv, Next, phase = "matching", phase' = "matching"
               PROVE  buf_offset' > buf_offset
    OBVIOUS
  <2>1. PICK p \in {NextMatch} : AddMatch(p) \/ SkipMatch(p)
    BY DEF Next, SetupSearch, SearchBuf, EndSearchBuf
  <2>2. p \in Int /\ IsLeftmost(p, buf, buf_offset, query, case_sensitive)
    BY NextIsLeftmost DEF LiteralInv
  <2>3. p \in Nat /\ p >= buf_offset /\ MatchAt(buf, query, case_sensitive, p)
    BY <2>1, <2>2 DEF AddMatch, SkipMatch, IsLeftmost
  <2>4. /\ IsQuery(query) /\ Size(query) \in Nat \ {0} /\ IsText(buf)
        /\ case_sensitive \in BOOLEAN /\ buf_offset \in Nat
        /\ find_skip_lookup = generate_find_skip(query)
    BY DEF LiteralInv, TablesInv, MatchesInv, IsQuery
  <2>5. CASE AddMatch(p)
    BY <2>3, <2>4, <2>5 DEF AddMatch
  <2>6. CASE SkipMatch(p)
    <3>1. buf_offset' = p + find_skip_lookup[0] - Size(query) + 1
      BY <2>6 DEF SkipMatch
    <3>2. buf_offset' \in Nat /\ buf_offset' > p
      BY <2>3, <2>4, <3>1, SkipMisses
    <3> QED  BY <2>3, <2>4, <3>2
  <2> QED  BY <2>1, <2>5, <2>6
<1> QED  BY <1>1, LiteralInvariance, PTL DEF Spec, OffsetAdvances
=============================================================================
