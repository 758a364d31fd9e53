-------------------------- MODULE PrintFileProofs --------------------------
(***************************************************************************)
(* The matches of a buffer, and what is printed of it, for buffers,        *)
(* matches and formats of every size.                                      *)
(*                                                                         *)
(*   search_buf with a      the loops around pcre_exec leave the matches   *)
(*   regex, invert_matches  as they were found, or the lines without one   *)
(*   print_file_matches     what is printed is the lines with a match and  *)
(*                          those around them, each once, in order and     *)
(*                          with its text, in groups with a separator      *)
(*                          between them                                   *)
(*                                                                         *)
(* Both invariants say at every step how much is done: which lines have    *)
(* been told to have no match (Told), and which lines the matches before i *)
(* touch (TouchedUpTo), from which those printed so far follow (Wanted).   *)
(***************************************************************************)
EXTENDS PrintFile, SequenceTheorems, FiniteSetTheorems, WellFoundedInduction,
        TLAPS

-----------------------------------------------------------------------------
(* The invariant of the loops                                               *)

Pairs == [start : Nat, end : Nat]

\* The matches as they were found: for the query ".", the whole buffer.
AsFound == IF any_char THEN <<span(0, buf_len)>> ELSE found

StartsLine(nl, l) == l = 0 \/ l - 1 \in nl

BufferInv ==
  /\ buf_len \in 1..MaxLength
  /\ newlines \subseteq Places
  /\ multiline \in BOOLEAN /\ invert_match \in BOOLEAN /\ any_char \in BOOLEAN

\* The spans found are in the buffer and in order, none past the next.
FoundInv ==
  /\ found \in Seq(Span)
  /\ any_char => found = <<>>
  /\ \A k \in DOMAIN found :
       found[k].start <= found[k].end /\ found[k].end <= buf_len
  /\ \A j, k \in DOMAIN found : j < k => Past(found[j]) <= found[k].start

\* Where the loops around pcre_exec are.
LoopInv ==
  /\ phase = "search" =>
       /\ ~any_char
       /\ \A k \in DOMAIN found : Past(found[k]) <= buf_offset
       /\ ~multiline => StartsLine(newlines, buf_offset) \/ buf_offset = buf_len + 1
  /\ phase = "line" =>
       /\ ~any_char /\ ~multiline /\ buf_offset < buf_len
       /\ \A k \in DOMAIN found : Past(found[k]) <= buf_offset + line_offset
       /\ StartsLine(newlines, buf_offset)
       /\ line_offset <= line_len + 1
       /\ line_offset > 0 =>
            \E k \in DOMAIN found : /\ buf_offset <= found[k].start
                                    /\ found[k].end <= LineEnd(buf_offset)

\* A match is kept at the place where it was found, unless it lies behind the
\* last character or is not the first in its line.
Kept(k) == \/ matches[k] = AsFound[k]
           \/ AsFound[k].start >= buf_len /\ matches[k].start >= buf_len

NotFirstInLine(k) ==
  /\ ~multiline
  /\ \E j \in DOMAIN found : j # k /\ LinesOf(found[j]) = LinesOf(found[k])

Uninverted ==
  phase \in {"search", "line", "multiline_done"} \/ (phase = "done" /\ ~invert_match)

StoredInv ==
  /\ matches \in Seq(Pairs)
  /\ \A k \in DOMAIN matches : matches[k].start <= matches[k].end
  /\ Uninverted =>
       /\ Len(matches) = Len(AsFound)
       /\ \A k \in DOMAIN AsFound : Kept(k) \/ (~any_char /\ NotFirstInLine(k))

\* The variables of invert_matches: it writes behind the place it reads from,
\* and past the last match for the lines after all of them only.
Variables ==
  [i : Nat, read : Nat, count : Nat, start : Nat, last_line_end : Nat,
   in_inverted_match : BOOLEAN, next : Pairs]

InverseInv ==
  /\ inv \in Variables
  /\ phase \in {"search", "line", "multiline_done"} => inv = NotInverting
  /\ inv.count \in 0..Len(matches)
  /\ phase = "invert" =>
       /\ invert_match /\ AsFound # <<>>
       /\ inv.start <= inv.i /\ inv.last_line_end <= inv.i
       /\ inv.read <= Len(AsFound)
       /\ inv.next.start <= inv.next.end
       /\ Len(matches) \in Len(AsFound)..(Len(AsFound) + 1)
       /\ inv.i < buf_len =>
            /\ inv.count <= inv.read
            /\ Len(matches) = Len(AsFound)
            /\ inv.read = Len(AsFound) =>
                 \/ inv.next.start < inv.i
                 \/ inv.next.start = inv.i /\ ~inv.in_inverted_match

\* The lines without a match before place b.
Without(b) == {l \in AllLines \ MatchingLines : l < b}

\* What has been written so far.
Told == UNION {LinesFrom(matches[k].start, matches[k].end) : k \in 1..inv.count}

\* When the matches are ordinary, what is written is the lines without a match
\* up to a place: the start of the lines passed since the last line with one.
ReadingInv ==
  /\ \A k \in (inv.count + 1)..Len(AsFound) : Kept(k)
  /\ IF inv.read < Len(AsFound)
     THEN /\ inv.i <= AsFound[inv.read + 1].start
          /\ \/ inv.next = AsFound[inv.read + 1]
             \/ AsFound[inv.read + 1].start >= buf_len /\ inv.next.start >= buf_len
     ELSE inv.next = AsFound[inv.read]
  /\ \A k \in 1..inv.read : AsFound[k].end <= inv.i

LinesInv ==
  IF inv.in_inverted_match
  THEN /\ inv.last_line_end = LineOf(inv.i)
       /\ StartsLine(newlines, inv.start) /\ inv.start <= inv.last_line_end
       /\ Told = Without(inv.start)
       /\ \A k \in 1..inv.read : \A l \in LinesOf(AsFound[k]) : l < inv.start
  ELSE /\ Told = Without(inv.i)
       /\ LineOf(inv.i) \in MatchingLines

ToldInv ==
  phase = "invert" /\ Ordinary =>
    IF inv.i < buf_len THEN ReadingInv /\ LinesInv
    ELSE Told = AllLines \ MatchingLines

MatchInv ==
  /\ BufferInv /\ FoundInv /\ LoopInv /\ StoredInv /\ InverseInv /\ ToldInv
  /\ MatchTypeOK /\ ReportsTheLines

-----------------------------------------------------------------------------
(* Least and greatest elements                                              *)

\* A set of naturals that is not empty has a lowest element: a proof by
\* induction refutes the lowest counterexample.
LEMMA LowestExists ==
  ASSUME NEW S, S \subseteq Nat, S # {}
  PROVE  \E x \in S : \A y \in S : x <= y
<1> DEFINE Lower == {ss \in Nat \X Nat : ss[1] < ss[2]}
<1>1. IsWellFoundedOn(Lower, Nat)
  BY NatLessThanWellFounded DEF OpToRel
<1>2. PICK x \in S : \A y \in S : <<y, x>> \notin Lower
  <2> HIDE DEF Lower
  <2> QED  BY <1>1, WFMin
<1>3. \A y, z \in Nat : y < z => <<y, z>> \in Lower
  BY Zenon
<1>4. \A y \in S : x =< y
  <2> SUFFICES ASSUME NEW y \in S, ~(x =< y) PROVE FALSE  OBVIOUS
  <2>1. x \in Nat /\ y \in Nat  BY <1>2
  <2>2. y < x  BY <2>1
  <2> HIDE DEF Lower
  <2> QED  BY <1>2, <1>3, <2>1, <2>2
<1> QED  BY <1>2, <1>4

\* A set of naturals has a least element ...
LEMMA MinIs ==
  ASSUME NEW S, S # {}, S \subseteq Nat
  PROVE  Min(S) \in S /\ \A x \in S : Min(S) <= x
<1>1. PICK m \in S : \A x \in S : m <= x
  BY LowestExists
<1> QED
  BY <1>1 DEF Min

\* ... and a set of integers with an upper bound a greatest one.
LEMMA MaxIs ==
  ASSUME NEW S, S # {}, NEW b \in Int, \A x \in S : x \in Int /\ x <= b
  PROVE  Max(S) \in S /\ \A x \in S : x <= Max(S)
<1> DEFINE T == {b - x : x \in S}
<1>1. T \subseteq Nat /\ T # {}
  OBVIOUS
<1>2. PICK t \in T : \A u \in T : t <= u
  <2> HIDE DEF T
  <2> QED  BY <1>1, LowestExists
<1>3. PICK m \in S : t = b - m
  BY <1>2
<1>4. \A x \in S : x <= m
  <2> TAKE x \in S
  <2>1. t <= b - x  BY <1>2
  <2> QED  BY <2>1, <1>3
<1> QED
  BY <1>4 DEF Max

\* Of two numbers it is the greater one.
LEMMA MaxOfTwo ==
  ASSUME NEW a \in Int, NEW b \in Int
  PROVE  Max({a, b}) = IF a <= b THEN b ELSE a
<1> DEFINE S == {a, b}
           c == IF a <= b THEN b ELSE a
<1>1. S # {} /\ c \in Int /\ \A x \in S : x \in Int /\ x <= c
  OBVIOUS
<1>2. Max(S) \in S /\ \A x \in S : x <= Max(S)
  <2> HIDE DEF S, c
  <2> QED  BY <1>1, MaxIs
<1>3. Max(S) \in Int /\ Max(S) <= c /\ c <= Max(S)
  BY <1>1, <1>2
<1> HIDE DEF c
<1>4. Max(S) = c
  BY <1>1, <1>3
<1> QED  BY <1>4 DEF c

-----------------------------------------------------------------------------
(* Lines                                                                    *)

\* The line of a place, and the lines of a span, for given newlines.
LineAt(nl, p) == Max({0} \cup {n + 1 : n \in {n \in nl : n < p}})

LinesBetween(nl, len, s, e) == {LineAt(nl, p) : p \in (s..e) \cap (0..(len - 1))}

Starts(nl, len) == {l \in 0..(len - 1) : StartsLine(nl, l)}

\* No newline from s on before e.
NoneFrom(nl, s, e) == \A n \in nl : ~(s <= n /\ n < e)

\* The line of a place starts there or before, and no other starts in between.
LEMMA LineAtIs ==
  ASSUME NEW nl, nl \subseteq Nat, NEW p \in Nat
  PROVE  /\ LineAt(nl, p) \in 0..p
         /\ StartsLine(nl, LineAt(nl, p))
         /\ NoneFrom(nl, LineAt(nl, p), p)
<1> DEFINE C == {0} \cup {n + 1 : n \in {n \in nl : n < p}}
           l == LineAt(nl, p)
<1>1. C # {} /\ \A x \in C : x \in Int /\ x <= p /\ x >= 0
  OBVIOUS
<1>2. l \in C /\ \A x \in C : x <= l
  <2>1. l = Max(C)  BY DEF LineAt
  <2> HIDE DEF C, l
  <2> QED  BY <1>1, <2>1, MaxIs
<1>3. l \in 0..p
  BY <1>1, <1>2
<1>4. StartsLine(nl, l)
  BY <1>2 DEF StartsLine
<1>5. NoneFrom(nl, l, p)
  <2> SUFFICES ASSUME NEW n \in nl, l <= n, n < p  PROVE FALSE
    BY DEF NoneFrom
  <2>1. n + 1 \in C
    OBVIOUS
  <2>2. n + 1 <= l
    BY <2>1, <1>2
  <2> HIDE DEF l
  <2> QED  BY <2>2, <1>3
<1> QED  BY <1>3, <1>4, <1>5

\* There is no other such place.
LEMMA LineAtOnly ==
  ASSUME NEW nl, nl \subseteq Nat, NEW p \in Nat, NEW l \in 0..p,
         StartsLine(nl, l), NoneFrom(nl, l, p)
  PROVE  LineAt(nl, p) = l
<1> DEFINE m == LineAt(nl, p)
<1>1. m \in 0..p /\ StartsLine(nl, m) /\ NoneFrom(nl, m, p)
  BY LineAtIs
<1> HIDE DEF m
<1>2. ~(m < l)
  BY <1>1 DEF StartsLine, NoneFrom
<1>3. ~(l < m)
  BY <1>1 DEF StartsLine, NoneFrom
<1> QED  BY <1>1, <1>2, <1>3 DEF m

\* The next place is in the next line after a newline, and else in the same.
LEMMA LineAtNext ==
  ASSUME NEW nl, nl \subseteq Nat, NEW p \in Nat
  PROVE  LineAt(nl, p + 1) = IF p \in nl THEN p + 1 ELSE LineAt(nl, p)
<1>1. LineAt(nl, p) \in 0..p /\ StartsLine(nl, LineAt(nl, p))
      /\ NoneFrom(nl, LineAt(nl, p), p)
  BY LineAtIs
<1>2. CASE p \in nl
  <2>1. StartsLine(nl, p + 1) /\ NoneFrom(nl, p + 1, p + 1) /\ p + 1 \in 0..(p + 1)
    BY <1>2 DEF StartsLine, NoneFrom
  <2>2. p + 1 \in Nat
    OBVIOUS
  <2> QED  BY <2>1, <2>2, <1>2, LineAtOnly
<1>3. CASE p \notin nl
  <2>1. NoneFrom(nl, LineAt(nl, p), p + 1)
    BY <1>1, <1>3 DEF NoneFrom
  <2>2. p + 1 \in Nat /\ LineAt(nl, p) \in 0..(p + 1)
    BY <1>1
  <2> QED  BY <2>1, <2>2, <1>1, <1>3, LineAtOnly
<1> QED  BY <1>2, <1>3

\* The line of its first place is the line of a start.
LEMMA LineAtStart ==
  ASSUME NEW nl, nl \subseteq Nat, NEW p \in Nat, StartsLine(nl, p)
  PROVE  LineAt(nl, p) = p
<1>1. NoneFrom(nl, p, p) /\ p \in 0..p
  BY DEF NoneFrom
<1> QED  BY <1>1, LineAtOnly

\* Lines do not go back.
LEMMA LineAtMonotone ==
  ASSUME NEW nl, nl \subseteq Nat, NEW p \in Nat, NEW q \in Nat, p <= q
  PROVE  LineAt(nl, p) <= LineAt(nl, q)
<1>1. LineAt(nl, p) \in 0..p /\ StartsLine(nl, LineAt(nl, p))
  BY LineAtIs
<1>2. LineAt(nl, q) \in 0..q /\ NoneFrom(nl, LineAt(nl, q), q)
  BY LineAtIs
<1> QED  BY <1>1, <1>2 DEF StartsLine, NoneFrom

\* The lines of the places from s to e are those that start there, and the one
\* that s is in.
LEMMA LinesBetweenIs ==
  ASSUME NEW nl, nl \subseteq Nat, NEW len \in Nat,
         NEW s \in Nat, NEW e \in Nat, s <= e, e < len
  PROVE  \A l : l \in LinesBetween(nl, len, s, e) <=>
               l \in Starts(nl, len) /\ LineAt(nl, s) <= l /\ l <= e
<1>1. ASSUME NEW p \in (s..e) \cap (0..(len - 1))
      PROVE  LineAt(nl, p) \in Starts(nl, len) /\ LineAt(nl, s) <= LineAt(nl, p)
             /\ LineAt(nl, p) <= e
  <2>1. p \in Nat /\ s <= p /\ p <= e /\ p <= len - 1
    OBVIOUS
  <2>2. LineAt(nl, p) \in 0..p /\ StartsLine(nl, LineAt(nl, p))
    BY <2>1, LineAtIs
  <2>3. LineAt(nl, s) <= LineAt(nl, p)
    BY <2>1, LineAtMonotone
  <2> QED  BY <2>1, <2>2, <2>3 DEF Starts
<1>2. ASSUME NEW l \in Starts(nl, len), LineAt(nl, s) <= l, l <= e
      PROVE  \E p \in (s..e) \cap (0..(len - 1)) : LineAt(nl, p) = l
  <2>1. l \in 0..(len - 1) /\ StartsLine(nl, l) /\ l \in Nat
    BY DEF Starts
  <2>2. CASE s <= l
    <3>1. LineAt(nl, l) = l
      BY <2>1, LineAtStart
    <3> QED  BY <3>1, <2>1, <2>2, <1>2
  <2>3. CASE l < s
    <3>1. NoneFrom(nl, LineAt(nl, s), s) /\ LineAt(nl, s) \in 0..s
      BY LineAtIs
    <3>2. LineAt(nl, s) = l
      BY <3>1, <2>1, <2>3, <1>2 DEF StartsLine, NoneFrom
    <3> QED  BY <3>2
  <2> QED  BY <2>1, <2>2, <2>3
<1> QED
  BY <1>1, <1>2 DEF LinesBetween

LinesAt(nl, len, m) == LinesBetween(nl, len, m.start, Max({m.start, m.end - 1}))

\* A span that starts at a character is in the line of that character and in
\* those that start before its end; another one is in no line.
LEMMA LinesAtIs ==
  ASSUME NEW nl, nl \subseteq Nat, NEW len \in Nat, NEW m \in Pairs,
         m.start <= m.end, m.end <= len
  PROVE  \A l : l \in LinesAt(nl, len, m) <=>
               /\ m.start < len /\ l \in Starts(nl, len)
               /\ LineAt(nl, m.start) <= l
               /\ l <= m.start \/ l < m.end
<1> DEFINE s == m.start
           e == IF s <= m.end - 1 THEN m.end - 1 ELSE s
<1>1. s \in Nat /\ m.end \in Nat /\ m.end - 1 \in Int /\ e \in Nat /\ s <= e
  BY DEF Pairs
<1>2. LinesAt(nl, len, m) = LinesBetween(nl, len, s, e)
  BY <1>1, MaxOfTwo DEF LinesAt
<1>3. CASE s < len
  <2>1. e < len
    BY <1>1, <1>3
  <2>2. \A l : l \in LinesBetween(nl, len, s, e) <=>
              l \in Starts(nl, len) /\ LineAt(nl, s) <= l /\ l <= e
    <3> HIDE DEF s, e
    <3> QED  BY <1>1, <2>1, LinesBetweenIs
  <2>3. \A l \in Starts(nl, len) : l <= e <=> (l <= s \/ l < m.end)
    BY <1>1 DEF Starts
  <2> HIDE DEF e
  <2> QED  BY <1>2, <1>3, <2>2, <2>3
<1>4. CASE ~(s < len)
  <2>1. (s..e) \cap (0..(len - 1)) = {}
    BY <1>1, <1>4
  <2> QED  BY <1>2, <1>4, <2>1 DEF LinesBetween
<1> QED  BY <1>3, <1>4

\* The lines of a buffer are those that start in it.
LEMMA StartsIs ==
  ASSUME NEW nl, nl \subseteq Nat, NEW len \in Nat
  PROVE  {LineAt(nl, p) : p \in 0..(len - 1)} = Starts(nl, len)
<1>1. ASSUME NEW p \in 0..(len - 1)
      PROVE  LineAt(nl, p) \in Starts(nl, len)
  <2>1. p \in Nat
    OBVIOUS
  <2>2. LineAt(nl, p) \in 0..p /\ StartsLine(nl, LineAt(nl, p))
    BY <2>1, LineAtIs
  <2> QED  BY <2>1, <2>2 DEF Starts
<1>2. ASSUME NEW l \in Starts(nl, len)
      PROVE  \E p \in 0..(len - 1) : LineAt(nl, p) = l
  <2>1. l \in Nat /\ StartsLine(nl, l) /\ l \in 0..(len - 1)
    BY DEF Starts
  <2>2. LineAt(nl, l) = l
    BY <2>1, LineAtStart
  <2> QED  BY <2>1, <2>2
<1> QED  BY <1>1, <1>2

EndAt(nl, len, p) == Min({n \in nl : n >= p} \cup {len})

\* The line of a place ends at the next newline, or with the buffer.
LEMMA EndAtIs ==
  ASSUME NEW len \in Nat, NEW nl, nl \subseteq 0..(len - 1), NEW p \in 0..len
  PROVE  /\ EndAt(nl, len, p) \in p..len
         /\ EndAt(nl, len, p) = len \/ EndAt(nl, len, p) \in nl
         /\ NoneFrom(nl, p, EndAt(nl, len, p))
<1> DEFINE C == {n \in nl : n >= p} \cup {len}
<1>1. C # {} /\ C \subseteq Nat /\ len \in C /\ \A n \in C : n \in p..len
  <2>1. \A n \in nl : n \in Nat /\ n <= len - 1
    OBVIOUS
  <2>2. \A n \in C : n \in Nat /\ n \in p..len
    BY <2>1
  <2>3. len \in C
    OBVIOUS
  <2> HIDE DEF C
  <2> QED  BY <2>2, <2>3
<1>2. Min(C) \in C /\ \A n \in C : Min(C) <= n
  <2> HIDE DEF C
  <2> QED  BY <1>1, MinIs
<1>3. EndAt(nl, len, p) = Min(C)
  BY DEF EndAt
<1>4. NoneFrom(nl, p, Min(C))
  <2> SUFFICES ASSUME NEW n \in nl, p <= n, n < Min(C)  PROVE FALSE
    BY DEF NoneFrom
  <2>1. n \in C  BY Zenon
  <2>2. Min(C) <= n /\ n \in Nat /\ Min(C) \in Nat
    BY <1>1, <1>2, <2>1
  <2> HIDE DEF C
  <2> QED  BY <2>2
<1> QED  BY <1>1, <1>2, <1>3, <1>4

\* A span between the start of a line and its end is in that line.
LEMMA InOneLine ==
  ASSUME NEW len \in Nat, NEW nl, nl \subseteq 0..(len - 1),
         NEW l \in 0..(len - 1), StartsLine(nl, l), NEW m \in Pairs,
         l <= m.start, m.start <= m.end, m.end <= EndAt(nl, len, l), m.start < len
  PROVE  LinesAt(nl, len, m) = {l}
<1> DEFINE e == EndAt(nl, len, l)
<1>1. l \in Nat /\ l \in 0..len /\ m.start \in Nat /\ m.end \in Nat /\ nl \subseteq Nat
  BY DEF Pairs
<1>2. e \in l..len /\ NoneFrom(nl, l, e)
  BY <1>1, EndAtIs
<1> HIDE DEF e
<1>3. m.end <= e
  BY DEF e
<1>4. LineAt(nl, m.start) = l
  <2>1. NoneFrom(nl, l, m.start) /\ l \in 0..m.start
    BY <1>1, <1>2, <1>3 DEF NoneFrom
  <2> QED  BY <2>1, <1>1, LineAtOnly
<1>5. \A x : x \in LinesAt(nl, len, m) <=>
            x \in Starts(nl, len) /\ l <= x /\ (x <= m.start \/ x < m.end)
  <2>1. m.end <= len
    BY <1>1, <1>2, <1>3
  <2> QED  BY <1>1, <1>4, <2>1, LinesAtIs
<1>6. l \in Starts(nl, len)
  BY DEF Starts
<1>7. ASSUME NEW x \in Starts(nl, len), l <= x, x <= m.start \/ x < m.end
      PROVE  x = l
  <2>1. x \in 0..(len - 1) /\ StartsLine(nl, x)
    BY DEF Starts
  <2>2. ~(l < x)
    <3> SUFFICES ASSUME l < x  PROVE FALSE  OBVIOUS
    <3>1. x - 1 \in nl
      BY <2>1, <1>1 DEF StartsLine
    <3>2. l <= x - 1 /\ x - 1 < e
      BY <2>1, <1>1, <1>2, <1>3, <1>7
    <3> QED  BY <3>1, <3>2, <1>2 DEF NoneFrom
  <2> QED  BY <2>1, <2>2, <1>7
<1>8. LinesAt(nl, len, m) \subseteq {l}
  BY <1>5, <1>7
<1>9. l \in LinesAt(nl, len, m)
  BY <1>1, <1>5, <1>6
<1> QED  BY <1>8, <1>9

\* What the model calls these.
LEMMA Named ==
  ASSUME BufferInv
  PROVE  /\ \A p : LineOf(p) = LineAt(newlines, p)
         /\ \A m : LinesOf(m) = LinesAt(newlines, buf_len, m)
         /\ \A s, e : LinesFrom(s, e) = LinesBetween(newlines, buf_len, s, e)
         /\ \A p : LineEnd(p) = EndAt(newlines, buf_len, p)
         /\ AllLines = Starts(newlines, buf_len)
<1>1. \A p : LineOf(p) = LineAt(newlines, p)
  BY DEF LineOf, LineAt
<1>2. \A s, e : LinesFrom(s, e) = LinesBetween(newlines, buf_len, s, e)
  BY <1>1 DEF LinesFrom, LinesBetween, Places
<1>3. \A m : LinesOf(m) = LinesAt(newlines, buf_len, m)
  BY <1>2 DEF LinesOf, LinesAt
<1>4. \A p : LineEnd(p) = EndAt(newlines, buf_len, p)
  BY DEF LineEnd, EndAt
<1>5. AllLines = Starts(newlines, buf_len)
  <2>1. newlines \subseteq Nat /\ buf_len \in Nat
    BY DEF BufferInv, Places
  <2>2. AllLines = {LineAt(newlines, p) : p \in 0..(buf_len - 1)}
    BY <1>1 DEF AllLines, Places
  <2> QED  BY <2>1, <2>2, StartsIs
<1> QED  BY <1>1, <1>2, <1>3, <1>4, <1>5

\* The code looks for the end of a line as EndAt does.
LEMMA LineEndIs ==
  ASSUME BufferInv, NEW p \in 0..buf_len
  PROVE  /\ LineEnd(p) = EndAt(newlines, buf_len, p)
         /\ LineEnd(p) \in p..buf_len /\ LineEnd(p) \in Nat
         /\ LineEnd(p) = buf_len \/ LineEnd(p) \in newlines
<1>1. buf_len \in Nat /\ newlines \subseteq 0..(buf_len - 1) /\ p \in Nat
  BY DEF BufferInv, Places
<1>2. LineEnd(p) = EndAt(newlines, buf_len, p)
  BY Named
<1>3. /\ EndAt(newlines, buf_len, p) \in p..buf_len
      /\ EndAt(newlines, buf_len, p) = buf_len \/ EndAt(newlines, buf_len, p) \in newlines
  BY <1>1, EndAtIs
<1> QED  BY <1>1, <1>2, <1>3

\* They stay as they are while the buffer does.
LEMMA GivenKept ==
  ASSUME UNCHANGED given
  PROVE  /\ \A p : LineOf(p)' = LineOf(p)
         /\ \A m : LinesOf(m)' = LinesOf(m)
         /\ \A s, e : LinesFrom(s, e)' = LinesFrom(s, e)
         /\ \A p : LineEnd(p)' = LineEnd(p)
         /\ AllLines' = AllLines
<1>0. newlines' = newlines /\ buf_len' = buf_len
  BY DEF given
<1>1. \A p : LineOf(p)' = LineOf(p)
  BY <1>0 DEF LineOf
<1>2. \A s, e : LinesFrom(s, e)' = LinesFrom(s, e)
  BY <1>0 DEF LinesFrom, Places, LineOf
<1>3. \A m : LinesOf(m)' = LinesOf(m)
  BY <1>0 DEF LinesOf, LinesFrom, Places, LineOf
<1>4. \A p : LineEnd(p)' = LineEnd(p)
  BY <1>0 DEF LineEnd
<1>5. AllLines' = AllLines
  BY <1>0 DEF AllLines, Places, LineOf
<1> QED  BY <1>1, <1>2, <1>3, <1>4, <1>5

\* So do the places of the matches, and what the properties say of them.
LEMMA FoundKept ==
  ASSUME UNCHANGED <<given, found>>
  PROVE  /\ BufferInv => BufferInv'
         /\ FoundInv => FoundInv'
         /\ AsFound' = AsFound
         /\ \A k : NotFirstInLine(k)' <=> NotFirstInLine(k)
         /\ MatchingLines' = MatchingLines
         /\ Ordinary' <=> Ordinary
<1>0. /\ newlines' = newlines /\ buf_len' = buf_len /\ found' = found
      /\ multiline' = multiline /\ invert_match' = invert_match
      /\ any_char' = any_char
  BY DEF given
<1>1. \A m : LinesOf(m)' = LinesOf(m)
  BY GivenKept
<1>2. \A p : LineOf(p)' = LineOf(p)
  BY GivenKept
<1>3. AllLines' = AllLines
  BY GivenKept
<1>4. BufferInv => BufferInv'
  BY <1>0 DEF BufferInv, Places
<1>5. FoundInv => FoundInv'
  BY <1>0 DEF FoundInv
<1>6. AsFound' = AsFound
  BY <1>0 DEF AsFound
<1>7. \A k : NotFirstInLine(k)' <=> NotFirstInLine(k)
  BY <1>0, <1>1 DEF NotFirstInLine
<1>8. MatchingLines' = MatchingLines
  BY <1>0, <1>1, <1>2 DEF MatchingLines, Places
<1>9. Ordinary' <=> Ordinary
  BY <1>0, <1>1, <1>3, <1>8 DEF Ordinary, TakesNewline
<1> QED  BY <1>4, <1>5, <1>6, <1>7, <1>8, <1>9

\* Matches that are not touched stay where they are.
LEMMA StoredKept ==
  ASSUME StoredInv, UNCHANGED <<given, found, matches>>, Uninverted' => Uninverted
  PROVE  StoredInv'
<1>1. AsFound' = AsFound /\ \A k : NotFirstInLine(k)' <=> NotFirstInLine(k)
  BY FoundKept
<1>2. matches' = matches /\ buf_len' = buf_len /\ any_char' = any_char
  BY DEF given
<1>3. \A k : Kept(k)' <=> Kept(k)
  BY <1>1, <1>2 DEF Kept
<1> HIDE DEF Uninverted
<1> QED  BY <1>1, <1>2, <1>3 DEF StoredInv

\* The reported lines stay what they are.
LEMMA ReportKept ==
  ASSUME ReportsTheLines, UNCHANGED <<given, found, matches>>,
         phase' = "done" => phase = "done"
  PROVE  ReportsTheLines'
<1>1. MatchingLines' = MatchingLines /\ (Ordinary' <=> Ordinary)
  BY FoundKept
<1>2. AllLines' = AllLines /\ \A s, e : LinesFrom(s, e)' = LinesFrom(s, e)
  BY GivenKept
<1>3. \A m : LinesOf(m)' = LinesOf(m)
  BY GivenKept
<1>4. matches' = matches /\ invert_match' = invert_match
  BY DEF given
<1>5. ReportedLines' = ReportedLines
  BY <1>2, <1>3, <1>4 DEF ReportedLines
<1> QED  BY <1>1, <1>2, <1>4, <1>5 DEF ReportsTheLines

\* The match that a loop adds is kept where it is found, or behind the last
\* character, or is not the first in its line.
LEMMA MatchAdded ==
  ASSUME BufferInv, FoundInv, StoredInv, UNCHANGED given, ~any_char,
         phase \in {"search", "line"}, NEW m \in Span, NEW x \in Pairs,
         m.start <= m.end, m.end <= buf_len, x.start <= x.end,
         \A k \in DOMAIN found : Past(found[k]) <= m.start,
         found' = Append(found, m), matches' = Append(matches, x),
         \/ x = m
         \/ m.start >= buf_len /\ x.start >= buf_len
         \/ ~multiline /\ \E j \in DOMAIN found : LinesOf(found[j]) = LinesOf(m)
  PROVE  /\ BufferInv' /\ FoundInv' /\ StoredInv'
         /\ Len(matches') = Len(found') /\ Len(found') \in Nat
<1>0. /\ newlines' = newlines /\ buf_len' = buf_len /\ any_char' = any_char
      /\ multiline' = multiline
  BY DEF given
<1>1. BufferInv'
  BY DEF BufferInv, Places, given
<1>2. found \in Seq(Span) /\ matches \in Seq(Pairs) /\ Len(matches) = Len(found)
      /\ AsFound = found
  BY DEF FoundInv, StoredInv, Uninverted, AsFound
<1> DEFINE n == Len(found)
<1>3. n \in Nat /\ Len(matches) = n /\ DOMAIN found = 1..n /\ DOMAIN matches = 1..n
  BY <1>2
<1>4. /\ found' \in Seq(Span) /\ Len(found') = n + 1 /\ DOMAIN found' = 1..(n + 1)
      /\ \A k \in 1..n : found'[k] = found[k]
      /\ found'[n + 1] = m
  BY <1>2
<1>5. /\ matches' \in Seq(Pairs) /\ Len(matches') = n + 1
      /\ DOMAIN matches' = 1..(n + 1)
      /\ \A k \in 1..n : matches'[k] = matches[k]
      /\ matches'[n + 1] = x
  BY <1>2, <1>3
<1> HIDE DEF n
<1>6. \A k \in 1..(n + 1) : k \in 1..n \/ k = n + 1
  BY <1>3
<1>7. FoundInv'
  <2>1. \A k \in DOMAIN found' :
          found'[k].start <= found'[k].end /\ found'[k].end <= buf_len'
    BY <1>0, <1>3, <1>4, <1>6 DEF FoundInv
  <2>2. \A j, k \in DOMAIN found' : j < k => Past(found'[j]) <= found'[k].start
    <3> SUFFICES ASSUME NEW j \in 1..(n + 1), NEW k \in 1..(n + 1), j < k
                 PROVE  Past(found'[j]) <= found'[k].start
      BY <1>4
    <3>1. j \in 1..n /\ found'[j] = found[j]
      BY <1>3, <1>4
    <3>2. CASE k \in 1..n
      BY <3>1, <3>2, <1>3, <1>4 DEF FoundInv
    <3>3. CASE k = n + 1
      BY <3>1, <3>3, <1>3, <1>4
    <3> QED  BY <3>2, <3>3, <1>6
  <2> QED  BY <1>0, <1>4, <2>1, <2>2 DEF FoundInv
<1>8. StoredInv'
  <2>1. AsFound' = found'
    BY <1>0 DEF AsFound
  <2>2. \A k \in 1..(n + 1) : matches'[k].start <= matches'[k].end
    BY <1>3, <1>5, <1>6 DEF StoredInv
  <2>3. \A q : LinesOf(q)' = LinesOf(q)
    BY GivenKept
  <2>4. ASSUME NEW k \in 1..n
        PROVE  Kept(k)' \/ NotFirstInLine(k)'
    <3>1. Kept(k) \/ NotFirstInLine(k)
      BY <1>2, <1>3 DEF StoredInv, Uninverted
    <3>2. Kept(k) => Kept(k)'
      BY <1>0, <1>2, <1>4, <1>5, <2>1 DEF Kept
    <3>3. ASSUME NotFirstInLine(k)  PROVE NotFirstInLine(k)'
      <4>1. ~multiline  BY <3>3 DEF NotFirstInLine
      <4>2. PICK j \in DOMAIN found : j # k /\ LinesOf(found[j]) = LinesOf(found[k])
        BY <3>3 DEF NotFirstInLine
      <4>3. j \in DOMAIN found' /\ found'[j] = found[j] /\ found'[k] = found[k]
        BY <4>2, <1>3, <1>4
      <4> QED  BY <1>0, <2>3, <4>1, <4>2, <4>3 DEF NotFirstInLine
    <3> QED  BY <3>1, <3>2, <3>3
  <2>5. ASSUME NEW k, k = n + 1
        PROVE  Kept(k)' \/ NotFirstInLine(k)'
    <3>1. CASE x = m \/ (m.start >= buf_len /\ x.start >= buf_len)
      BY <3>1, <2>5, <1>0, <1>4, <1>5, <2>1 DEF Kept
    <3>2. CASE ~multiline /\ \E j \in DOMAIN found : LinesOf(found[j]) = LinesOf(m)
      <4>1. PICK j \in DOMAIN found : LinesOf(found[j]) = LinesOf(m)
        BY <3>2
      <4>2. j \in DOMAIN found' /\ found'[j] = found[j] /\ j # k
        BY <2>5, <4>1, <1>3, <1>4
      <4> QED  BY <2>5, <3>2, <1>0, <1>4, <2>3, <4>1, <4>2 DEF NotFirstInLine
    <3> QED  BY <3>1, <3>2
  <2>6. \A k \in 1..(n + 1) : Kept(k)' \/ NotFirstInLine(k)'
    BY <1>6, <2>4, <2>5
  <2> QED  BY <1>0, <1>3, <1>4, <1>5, <2>1, <2>2, <2>6 DEF StoredInv
<1> QED  BY <1>1, <1>3, <1>4, <1>5, <1>7, <1>8

-----------------------------------------------------------------------------
(* The steps of the loops around pcre_exec                                  *)

\* Nothing is inverted at first.
LEMMA NotInvertingIs == NotInverting \in Variables
<1>1. span(0, 0) \in Pairs
  BY DEF span, Pairs
<1> QED  BY <1>1 DEF NotInverting, Variables

\* While a loop around pcre_exec goes on there is no more to show.
LEMMA StillSearching ==
  ASSUME BufferInv', FoundInv', StoredInv', LoopInv', inv' = NotInverting,
         phase' \in {"search", "line", "multiline_done"},
         buf_offset' \in 0..(buf_len' + 1), line_offset' \in 0..(buf_len' + 1)
  PROVE  MatchInv'
<1>1. Len(matches') = Len(AsFound') /\ matches' \in Seq(Pairs)
  BY DEF StoredInv, Uninverted
<1>2. Len(matches') \in Nat
  BY <1>1
<1>3. inv'.i = 0 /\ inv'.count = 0
  BY DEF NotInverting
<1>4. InverseInv'
  BY <1>2, <1>3, NotInvertingIs DEF InverseInv
<1>5. Len(AsFound') = IF any_char' THEN 1 ELSE Len(found')
  BY DEF AsFound
<1>6. found' \in Seq(Span)
  BY DEF FoundInv
<1>7. MatchTypeOK'
  BY <1>1, <1>2, <1>3, <1>5, <1>6 DEF MatchTypeOK, Pairs
<1>8. ToldInv' /\ ReportsTheLines'
  BY DEF ToldInv, ReportsTheLines
<1> QED  BY <1>4, <1>7, <1>8 DEF MatchInv

\* The invariant holds of a buffer that is about to be searched.
LEMMA MatchInitInv == MatchInit => MatchInv
<1> SUFFICES ASSUME MatchInit  PROVE MatchInv
  OBVIOUS
<1>0. /\ buf_len \in 1..MaxLength /\ buf_len \in Nat /\ newlines \subseteq Places
      /\ inv = NotInverting /\ found = <<>> /\ buf_offset = 0 /\ line_offset = 0
  BY MatchLoopAssumption DEF MatchInit
<1>1. BufferInv
  BY <1>0 DEF MatchInit, BufferInv
<1>2. FoundInv
  BY <1>0 DEF FoundInv
<1>3. matches = AsFound
  BY DEF MatchInit, AsFound
<1>4. /\ matches \in Seq(Pairs)
      /\ \A k \in DOMAIN matches : matches[k].start <= matches[k].end
  <2>1. CASE any_char
    <3>1. matches = <<span(0, buf_len)>> /\ span(0, buf_len) \in Pairs
      BY <2>1, <1>0 DEF MatchInit, span, Pairs
    <3> QED  BY <3>1, <1>0 DEF span
  <2>2. CASE ~any_char
    BY <2>2 DEF MatchInit
  <2> QED  BY <2>1, <2>2
<1>5. StoredInv
  BY <1>3, <1>4 DEF StoredInv, Kept
<1>6. LoopInv
  BY <1>0 DEF LoopInv, MatchInit, StartsLine
<1>7. Len(matches) \in Nat /\ inv.count = 0 /\ inv.i = 0
  BY <1>0, <1>4 DEF NotInverting
<1>8. phase \in {"search", "multiline_done"}
  BY DEF MatchInit
<1>9. InverseInv
  BY <1>0, <1>7, <1>8, NotInvertingIs DEF InverseInv
<1>10. Len(matches) = IF any_char THEN 1 ELSE Len(found)
  BY <1>0, <1>3 DEF AsFound
<1>11. MatchTypeOK
  BY <1>0, <1>4, <1>7, <1>8, <1>10 DEF MatchTypeOK, Pairs
<1>12. ToldInv /\ ReportsTheLines
  BY <1>8 DEF ToldInv, ReportsTheLines
<1> QED
  BY <1>1, <1>2, <1>5, <1>6, <1>9, <1>11, <1>12 DEF MatchInv

\* A match found is a pair, and the loop goes on behind it.
LEMMA MatchFound ==
  ASSUME NEW o \in Nat, NEW last \in Nat, NEW m \in pcre_exec(o, last)
  PROVE  /\ m \in Span /\ m \in Pairs /\ o <= m.start /\ m.start <= m.end
         /\ m.end <= last /\ m.start \in Nat /\ m.end \in Nat
         /\ Past(m) \in Nat /\ m.start <= Past(m) /\ Past(m) <= last + 1
  BY MatchLoopAssumption DEF pcre_exec, Span, Pairs, Past

\* A step over the whole buffer, with multiline.
LEMMA ExecBufferKeeps == MatchInv /\ ExecBuffer => MatchInv'
<1> SUFFICES ASSUME MatchInv, ExecBuffer  PROVE MatchInv'
  OBVIOUS
<1> USE DEF MatchInv
<1>1. /\ phase = "search" /\ multiline /\ UNCHANGED <<given, line_offset, inv>>
      /\ phase' \in {"multiline_done", "search"}
  BY DEF ExecBuffer
<1>2. PICK m \in pcre_exec(buf_offset, buf_len) :
        /\ matches' = Append(matches, m) /\ buf_offset' = Past(m)
        /\ found' = Append(found, m)
  BY DEF ExecBuffer
<1>3. buf_offset \in Nat /\ buf_len \in Nat /\ line_offset \in 0..(buf_len + 1)
  BY MatchLoopAssumption DEF MatchTypeOK, BufferInv
<1>4. /\ m \in Span /\ m \in Pairs /\ buf_offset <= m.start /\ m.start <= m.end
      /\ m.end <= buf_len /\ m.start \in Nat /\ m.end \in Nat
      /\ Past(m) \in Nat /\ m.start <= Past(m) /\ Past(m) <= buf_len + 1
  BY <1>3, MatchFound
<1>5. ~any_char /\ \A k \in DOMAIN found : Past(found[k]) <= buf_offset
  BY <1>1 DEF LoopInv
<1>6. found \in Seq(Span) /\ \A k \in DOMAIN found : Past(found[k]) \in Nat
  <2>1. found \in Seq(Span)  BY DEF FoundInv
  <2>2. \A s \in Span : Past(s) \in Nat
    BY DEF Span, Past
  <2> QED  BY <2>1, <2>2
<1>7. \A k \in DOMAIN found : Past(found[k]) <= m.start
  BY <1>3, <1>4, <1>5, <1>6
<1>8. BufferInv' /\ FoundInv' /\ StoredInv'
  BY <1>1, <1>2, <1>4, <1>5, <1>7, MatchAdded
<1>9. LoopInv'
  <2>1. \A k \in DOMAIN found' : Past(found'[k]) <= buf_offset'
    <3> SUFFICES ASSUME NEW k \in DOMAIN found'
                 PROVE  Past(found'[k]) <= Past(m)
      BY <1>2
    <3>1. \/ k \in DOMAIN found /\ found'[k] = found[k]
          \/ found'[k] = m
      BY <1>2, <1>6
    <3>2. CASE k \in DOMAIN found /\ found'[k] = found[k]
      BY <3>2, <1>4, <1>6, <1>7
    <3> QED  BY <3>1, <3>2, <1>4
  <2> QED  BY <2>1, <1>1, <1>5 DEF LoopInv, given
<1>10. buf_offset' \in 0..(buf_len' + 1) /\ line_offset' \in 0..(buf_len' + 1)
  BY <1>1, <1>2, <1>3, <1>4 DEF given
<1>11. inv' = NotInverting
  BY <1>1 DEF InverseInv
<1> QED  BY <1>1, <1>8, <1>9, <1>10, <1>11, StillSearching

\* A step to the next line, without multiline.
LEMMA GetLineKeeps == MatchInv /\ GetLine => MatchInv'
<1> SUFFICES ASSUME MatchInv, GetLine  PROVE MatchInv'
  OBVIOUS
<1> USE DEF MatchInv
<1>1. /\ phase = "search" /\ ~multiline /\ buf_offset < buf_len
      /\ line_offset' = 0 /\ phase' = "line"
      /\ UNCHANGED <<given, buf_offset, matches, inv, found>>
  BY DEF GetLine
<1>2. BufferInv' /\ FoundInv'
  BY <1>1, FoundKept
<1>3. StoredInv'
  BY <1>1, StoredKept DEF Uninverted
<1>4. buf_offset \in Nat /\ buf_len \in Nat /\ newlines \subseteq 0..(buf_len - 1)
  BY MatchLoopAssumption DEF MatchTypeOK, BufferInv, Places
<1>5. line_len \in Nat
  <2>1. buf_offset \in 0..buf_len
    BY <1>1, <1>4
  <2>2. LineEnd(buf_offset) \in buf_offset..buf_len
    BY <2>1, LineEndIs
  <2> QED  BY <2>2, <1>4 DEF line_len
<1>6. line_len' = line_len
  BY <1>1 DEF line_len, LineEnd, given
<1>7. LoopInv'
  BY <1>1, <1>4, <1>5, <1>6 DEF LoopInv, given
<1>8. buf_offset' \in 0..(buf_len' + 1) /\ line_offset' \in 0..(buf_len' + 1)
  BY <1>1, <1>4 DEF given
<1>9. inv' = NotInverting
  BY <1>1 DEF InverseInv
<1> QED  BY <1>1, <1>2, <1>3, <1>7, <1>8, <1>9, StillSearching

\* A step within a line: the span stored is moved by line_offset.
LEMMA ExecLineKeeps == MatchInv /\ ExecLine => MatchInv'
<1> SUFFICES ASSUME MatchInv, ExecLine  PROVE MatchInv'
  OBVIOUS
<1> USE DEF MatchInv
<1> DEFINE e == LineEnd(buf_offset)
           o == buf_offset + line_offset
<1>1. /\ phase = "line" /\ line_offset < line_len
      /\ UNCHANGED <<given, buf_offset, inv>>
      /\ phase' \in {"multiline_done", "line"}
  BY DEF ExecLine
<1>2. /\ buf_offset \in Nat /\ line_offset \in Nat /\ o \in Nat /\ buf_len \in Nat
      /\ newlines \subseteq 0..(buf_len - 1)
  BY MatchLoopAssumption DEF MatchTypeOK, BufferInv, Places
<1>3. /\ ~any_char /\ ~multiline /\ buf_offset < buf_len
      /\ StartsLine(newlines, buf_offset)
      /\ \A k \in DOMAIN found : Past(found[k]) <= o
      /\ line_offset > 0 =>
           \E k \in DOMAIN found : buf_offset <= found[k].start /\ found[k].end <= e
  BY <1>1 DEF LoopInv
<1>4. e = EndAt(newlines, buf_len, buf_offset) /\ e \in buf_offset..buf_len /\ e \in Nat
  <2>1. buf_offset \in 0..buf_len
    BY <1>2, <1>3
  <2> QED  BY <2>1, LineEndIs
<1>5. line_len = e - buf_offset /\ buf_offset + line_len = e
  BY <1>2, <1>4 DEF line_len
<1>6. PICK m \in pcre_exec(o, e) :
        /\ matches' = Append(matches, span(m.start + line_offset, m.end + line_offset))
        /\ line_offset' = Past(m) - buf_offset
        /\ found' = Append(found, m)
  BY <1>5 DEF ExecLine
<1> HIDE DEF e, o
<1>7. /\ m \in Span /\ m \in Pairs /\ o <= m.start /\ m.start <= m.end
      /\ m.end <= e /\ m.start \in Nat /\ m.end \in Nat
      /\ Past(m) \in Nat /\ m.start <= Past(m) /\ Past(m) <= e + 1
  BY <1>2, <1>4, MatchFound
<1> DEFINE x == span(m.start + line_offset, m.end + line_offset)
<1>8. x \in Pairs /\ x.start = m.start + line_offset /\ x.start <= x.end
  BY <1>2, <1>7 DEF span, Pairs
<1>9. found \in Seq(Span) /\ \A k \in DOMAIN found : Past(found[k]) \in Nat
  <2>1. found \in Seq(Span)  BY DEF FoundInv
  <2>2. \A s \in Span : Past(s) \in Nat
    BY DEF Span, Past
  <2> QED  BY <2>1, <2>2
<1>10. \A k \in DOMAIN found : Past(found[k]) <= m.start
  BY <1>2, <1>3, <1>7, <1>9
<1>11. \/ x = m
       \/ m.start >= buf_len /\ x.start >= buf_len
       \/ ~multiline /\ \E j \in DOMAIN found : LinesOf(found[j]) = LinesOf(m)
  <2>1. CASE line_offset = 0
    <3>1. m = [start |-> m.start, end |-> m.end]
      BY <1>7 DEF Pairs
    <3> QED  BY <3>1, <2>1, <1>7 DEF span
  <2>2. CASE m.start >= buf_len
    BY <2>2, <1>2, <1>7, <1>8
  <2>3. CASE line_offset # 0 /\ ~(m.start >= buf_len)
    <3>1. PICK j \in DOMAIN found : buf_offset <= found[j].start /\ found[j].end <= e
      BY <2>3, <1>2, <1>3
    <3>2. /\ found[j] \in Pairs /\ found[j].start <= found[j].end
          /\ found[j].start \in Nat /\ found[j].end \in Nat
          /\ found[j].start <= Past(found[j])
      <4>1. found[j] \in Span /\ found[j].start <= found[j].end
        BY <1>9 DEF FoundInv
      <4> QED  BY <4>1, MatchLoopAssumption DEF Span, Pairs, Past
    <3>3. found[j].start < buf_len
      BY <3>2, <1>2, <1>3, <1>7, <2>3, <1>9, <1>10
    <3>4. buf_offset \in 0..(buf_len - 1)
      BY <1>2, <1>3
    <3>5. LinesAt(newlines, buf_len, found[j]) = {buf_offset}
      BY <3>1, <3>2, <3>3, <3>4, <1>2, <1>3, <1>4, InOneLine
    <3>6. LinesAt(newlines, buf_len, m) = {buf_offset}
      <4>1. buf_offset <= m.start /\ m.start < buf_len
        BY <1>2, <1>7, <2>3 DEF o
      <4> QED  BY <3>4, <4>1, <1>2, <1>3, <1>4, <1>7, InOneLine
    <3>7. LinesOf(found[j]) = LinesOf(m)
      BY <3>5, <3>6, Named
    <3> QED  BY <3>7, <1>3
  <2> QED  BY <2>1, <2>2, <2>3
<1> HIDE DEF x
<1>12. m.end <= buf_len
  BY <1>2, <1>4, <1>7
<1>13. matches' = Append(matches, x)
  BY <1>6 DEF x
<1>14. BufferInv' /\ FoundInv' /\ StoredInv'
  BY <1>1, <1>3, <1>6, <1>7, <1>8, <1>10, <1>11, <1>12, <1>13, MatchAdded
<1>15. LoopInv'
  <2>1. buf_offset' = buf_offset /\ buf_len' = buf_len /\ newlines' = newlines
        /\ any_char' = any_char /\ multiline' = multiline
    BY <1>1 DEF given
  <2>2. line_len' = line_len /\ LineEnd(buf_offset)' = e
    BY <2>1 DEF line_len, LineEnd, e
  <2>3. buf_offset + line_offset' = Past(m)
    BY <1>2, <1>6, <1>7
  <2>4. \A k \in DOMAIN found' : Past(found'[k]) <= buf_offset' + line_offset'
    <3> SUFFICES ASSUME NEW k \in DOMAIN found'
                 PROVE  Past(found'[k]) <= Past(m)
      BY <2>1, <2>3
    <3>1. \/ k \in DOMAIN found /\ found'[k] = found[k]
          \/ found'[k] = m
      BY <1>6, <1>9
    <3>2. CASE k \in DOMAIN found /\ found'[k] = found[k]
      BY <3>2, <1>7, <1>9, <1>10
    <3> QED  BY <3>1, <3>2, <1>7
  <2>5. line_offset' <= line_len + 1
    BY <1>2, <1>4, <1>5, <1>6, <1>7, SMTT(30)
  <2>6. \E k \in DOMAIN found' : buf_offset <= found'[k].start /\ found'[k].end <= e
    <3>1. Len(found) + 1 \in DOMAIN found' /\ found'[Len(found) + 1] = m
      BY <1>6, <1>9
    <3>2. buf_offset <= m.start
      BY <1>2, <1>7 DEF o
    <3> QED  BY <3>1, <3>2, <1>7
  <2> QED
    BY <1>1, <1>3, <2>1, <2>2, <2>4, <2>5, <2>6 DEF LoopInv
<1>16. buf_offset' \in 0..(buf_len' + 1) /\ line_offset' \in 0..(buf_len' + 1)
  <2>1. buf_offset' = buf_offset /\ buf_len' = buf_len
    BY <1>1 DEF given
  <2>2. Past(m) <= buf_len + 1 /\ buf_offset <= Past(m)
    <3>1. e <= buf_len
      BY <1>2, <1>4
    <3>2. buf_offset <= o
      BY <1>2 DEF o
    <3> QED
      BY <1>2, <1>4, <1>7, <3>1, <3>2
  <2>3. Past(m) - buf_offset \in 0..(buf_len + 1)
    BY <1>2, <1>7, <2>2
  <2> QED
    BY <1>2, <1>3, <1>6, <2>1, <2>3
<1>17. inv' = NotInverting
  BY <1>1 DEF InverseInv
<1> QED  BY <1>1, <1>14, <1>15, <1>16, <1>17, StillSearching

\* No match is left in the line.
LEMMA EndLineKeeps == MatchInv /\ EndLine => MatchInv'
<1> SUFFICES ASSUME MatchInv, EndLine  PROVE MatchInv'
  OBVIOUS
<1> USE DEF MatchInv
<1> DEFINE e == LineEnd(buf_offset)
<1>1. /\ phase = "line" /\ buf_offset' = AfterLine /\ phase' = "search"
      /\ UNCHANGED <<given, line_offset, matches, inv, found>>
  BY DEF EndLine
<1>2. /\ buf_offset \in Nat /\ line_offset \in Nat /\ buf_len \in Nat
      /\ newlines \subseteq 0..(buf_len - 1)
  BY MatchLoopAssumption DEF MatchTypeOK, BufferInv, Places
<1>3. /\ ~any_char /\ ~multiline /\ buf_offset < buf_len
      /\ \A k \in DOMAIN found : Past(found[k]) <= buf_offset + line_offset
      /\ line_offset <= line_len + 1
  BY <1>1 DEF LoopInv
<1>4. /\ e \in buf_offset..buf_len /\ e \in Nat
      /\ e = buf_len \/ e \in newlines
  <2>1. buf_offset \in 0..buf_len
    BY <1>2, <1>3
  <2> QED  BY <2>1, LineEndIs
<1>5. line_len = e - buf_offset /\ buf_offset' = e + 1
  BY <1>1, <1>2, <1>4 DEF line_len, AfterLine
<1> HIDE DEF e
<1>6. BufferInv' /\ FoundInv'
  BY <1>1, FoundKept
<1>7. StoredInv'
  BY <1>1, StoredKept DEF Uninverted
<1>8. LoopInv'
  <2>1. buf_len' = buf_len /\ newlines' = newlines /\ any_char' = any_char
        /\ multiline' = multiline /\ found' = found
    BY <1>1 DEF given
  <2>2. \A k \in DOMAIN found : Past(found[k]) <= e + 1
    <3> TAKE k \in DOMAIN found
    <3>1. Past(found[k]) \in Nat
      <4>1. found[k] \in Span
        BY DEF FoundInv
      <4> QED  BY <4>1 DEF Span, Past
    <3> QED  BY <3>1, <1>2, <1>3, <1>4, <1>5
  <2>3. StartsLine(newlines, e + 1) \/ e + 1 = buf_len + 1
    BY <1>4 DEF StartsLine
  <2> QED  BY <1>1, <1>3, <1>5, <2>1, <2>2, <2>3 DEF LoopInv
<1>9. buf_offset' \in 0..(buf_len' + 1) /\ line_offset' \in 0..(buf_len' + 1)
  BY <1>1, <1>2, <1>3, <1>4, <1>5 DEF given
<1>10. inv' = NotInverting
  BY <1>1 DEF InverseInv
<1> QED  BY <1>1, <1>6, <1>7, <1>8, <1>9, <1>10, StillSearching

\* The loops are over.
LEMMA EndSearchKeeps == MatchInv /\ EndSearch => MatchInv'
<1> SUFFICES ASSUME MatchInv, EndSearch  PROVE MatchInv'
  OBVIOUS
<1> USE DEF MatchInv
<1>1. /\ phase = "search" /\ phase' = "multiline_done"
      /\ UNCHANGED <<given, buf_offset, line_offset, matches, inv, found>>
  BY DEF EndSearch
<1>2. BufferInv' /\ FoundInv'
  BY <1>1, FoundKept
<1>3. StoredInv'
  BY <1>1, StoredKept DEF Uninverted
<1>4. LoopInv'
  BY <1>1 DEF LoopInv
<1>5. buf_offset' \in 0..(buf_len' + 1) /\ line_offset' \in 0..(buf_len' + 1)
  BY <1>1 DEF given, MatchTypeOK
<1>6. inv' = NotInverting
  BY <1>1 DEF InverseInv
<1> QED  BY <1>1, <1>2, <1>3, <1>4, <1>5, <1>6, StillSearching

-----------------------------------------------------------------------------
(* What is reported when nothing is inverted                                *)

\* A span behind the last character is in no line.
LEMMA LinesBehind ==
  ASSUME NEW nl, NEW len \in Nat, NEW m \in Pairs, m.start >= len
  PROVE  LinesAt(nl, len, m) = {}
<1> DEFINE s == m.start
           e == Max({m.start, m.end - 1})
<1>1. s \in Nat /\ s >= len
  BY DEF Pairs
<1> HIDE DEF e
<1>2. (s..e) \cap (0..(len - 1)) = {}
  BY <1>1
<1>3. LinesAt(nl, len, m) = LinesBetween(nl, len, s, e)
  BY DEF LinesAt, e
<1> QED  BY <1>2, <1>3 DEF LinesBetween

\* The matches as they were found are pairs in the buffer, in order.
LEMMA AsFoundIs ==
  ASSUME BufferInv, FoundInv
  PROVE  /\ AsFound \in Seq(Pairs) /\ Len(AsFound) \in Nat
         /\ Len(AsFound) = (IF any_char THEN 1 ELSE Len(found))
         /\ DOMAIN AsFound = 1..Len(AsFound)
         /\ \A k \in DOMAIN AsFound :
              /\ AsFound[k] \in Pairs
              /\ AsFound[k].start \in Nat /\ AsFound[k].end \in Nat
              /\ AsFound[k].start <= AsFound[k].end
              /\ AsFound[k].end <= buf_len
         /\ \A j, k \in DOMAIN AsFound : j < k => Past(AsFound[j]) <= AsFound[k].start
<1>0. buf_len \in Nat
  BY DEF BufferInv
<1>1. CASE any_char
  <2>1. AsFound = <<span(0, buf_len)>>
    BY <1>1 DEF AsFound
  <2>2. span(0, buf_len) \in Pairs /\ span(0, buf_len).start = 0
        /\ span(0, buf_len).end = buf_len
    BY <1>0 DEF span, Pairs
  <2>3. Len(AsFound) = 1 /\ DOMAIN AsFound = {1} /\ AsFound[1] = span(0, buf_len)
        /\ AsFound \in Seq(Pairs)
    BY <2>1, <2>2
  <2> QED  BY <1>0, <1>1, <2>2, <2>3
<1>2. CASE ~any_char
  <2>1. AsFound = found /\ found \in Seq(Span)
    BY <1>2 DEF AsFound, FoundInv
  <2>2. \A s \in Span : s \in Pairs /\ s.start \in Nat /\ s.end \in Nat
    BY MatchLoopAssumption DEF Span, Pairs
  <2>3. found \in Seq(Pairs)
    BY <2>1, <2>2
  <2>4. \A k \in DOMAIN found : found[k] \in Span
    BY <2>1
  <2>5. Len(found) \in Nat /\ DOMAIN found = 1..Len(found)
    BY <2>1
  <2> QED  BY <1>2, <2>1, <2>2, <2>3, <2>4, <2>5 DEF FoundInv
<1> QED  BY <1>1, <1>2

\* The lines with a match are those of the matches found.
LEMMA MatchingIs ==
  ASSUME BufferInv, FoundInv, Ordinary
  PROVE  \A l : l \in MatchingLines <=>
                \E k \in DOMAIN AsFound : l \in LinesOf(AsFound[k])
<1>0. buf_len \in Nat /\ 0 < buf_len /\ newlines \subseteq Nat
  BY DEF BufferInv, Places
<1>1. CASE any_char
  <2> DEFINE m == span(0, buf_len)
  <2>1. AsFound = <<m>>
    BY <1>1 DEF AsFound
  <2>2. MatchingLines = AllLines
    BY <1>1 DEF Ordinary
  <2>3. m \in Pairs /\ m.start = 0 /\ m.end = buf_len
    BY <1>0 DEF span, Pairs
  <2>4. LineAt(newlines, 0) = 0
    BY <1>0, LineAtStart DEF StartsLine
  <2>5. LinesOf(m) = LinesAt(newlines, buf_len, m)
    BY Named
  <2> HIDE DEF m
  <2>6. \A l : l \in LinesAt(newlines, buf_len, m) <=>
               /\ m.start < buf_len /\ l \in Starts(newlines, buf_len)
               /\ LineAt(newlines, m.start) <= l
               /\ l <= m.start \/ l < m.end
    <3>1. m.start <= m.end /\ m.end <= buf_len
      BY <1>0, <2>3
    <3> QED  BY <1>0, <2>3, <3>1, LinesAtIs
  <2>7. \A l \in Starts(newlines, buf_len) : 0 <= l /\ l < buf_len
    BY <1>0 DEF Starts
  <2>8. \A l : l \in LinesOf(m) <=> l \in Starts(newlines, buf_len)
    BY <1>0, <2>3, <2>4, <2>5, <2>6, <2>7
  <2>9. AllLines = Starts(newlines, buf_len)
    BY Named
  <2>10. DOMAIN AsFound = {1} /\ AsFound[1] = m
    BY <2>1
  <2> QED  BY <2>2, <2>8, <2>9, <2>10
<1>2. CASE ~any_char
  BY <1>2 DEF AsFound, MatchingLines
<1> QED  BY <1>1, <1>2

\* Ordinary matches are kept where they were found.
LEMMA AllKept ==
  ASSUME StoredInv, Uninverted, Ordinary
  PROVE  \A k \in DOMAIN AsFound : Kept(k)
<1> SUFFICES ASSUME NEW k \in DOMAIN AsFound, ~any_char, NotFirstInLine(k)
             PROVE  FALSE
  BY DEF StoredInv
<1>1. k \in DOMAIN found
  BY DEF AsFound
<1>2. ~multiline
  BY DEF NotFirstInLine
<1>3. PICK j \in DOMAIN found : j # k /\ LinesOf(found[j]) = LinesOf(found[k])
  BY DEF NotFirstInLine
<1> QED  BY <1>1, <1>2, <1>3 DEF Ordinary

\* So their lines are those of the matches found.
LEMMA KeptLines ==
  ASSUME BufferInv, FoundInv, NEW k \in DOMAIN AsFound, Kept(k), matches[k] \in Pairs
  PROVE  LinesOf(matches[k]) = LinesOf(AsFound[k])
<1>1. CASE matches[k] = AsFound[k]
  BY <1>1
<1>2. CASE AsFound[k].start >= buf_len /\ matches[k].start >= buf_len
  <2>1. AsFound[k] \in Pairs /\ buf_len \in Nat
    BY AsFoundIs DEF BufferInv
  <2>2. LinesAt(newlines, buf_len, AsFound[k]) = {}
    BY <1>2, <2>1, LinesBehind
  <2>3. LinesAt(newlines, buf_len, matches[k]) = {}
    BY <1>2, <2>1, LinesBehind
  <2> QED  BY <2>2, <2>3, Named
<1> QED  BY <1>1, <1>2 DEF Kept

\* When search_buf is done with the matches there is only the report to show.
LEMMA Finished ==
  ASSUME BufferInv', FoundInv', StoredInv', ReportsTheLines', phase' = "done",
         Len(matches') <= Len(AsFound') + 1, inv'.count \in 0..Len(matches'),
         inv' \in Variables,
         buf_offset' \in 0..(buf_len' + 1), line_offset' \in 0..(buf_len' + 1)
  PROVE  MatchInv'
<1>1. Len(AsFound') = IF any_char' THEN 1 ELSE Len(found')
  BY DEF AsFound
<1>2. matches' \in Seq(Pairs) /\ found' \in Seq(Span)
  BY DEF StoredInv, FoundInv
<1>3. MatchTypeOK'
  BY <1>1, <1>2 DEF MatchTypeOK, Pairs, Variables
<1>4. LoopInv' /\ InverseInv' /\ ToldInv'
  BY DEF LoopInv, InverseInv, ToldInv
<1> QED  BY <1>3, <1>4 DEF MatchInv

\* Without invert_match the matches stay what they are.
LEMMA KeepMatchesKeeps == MatchInv /\ KeepMatches => MatchInv'
<1> SUFFICES ASSUME MatchInv, KeepMatches  PROVE MatchInv'
  OBVIOUS
<1> USE DEF MatchInv
<1>1. /\ phase = "multiline_done" /\ ~invert_match /\ phase' = "done"
      /\ UNCHANGED <<given, buf_offset, line_offset, matches, inv, found>>
  BY DEF KeepMatches
<1>2. BufferInv' /\ FoundInv' /\ AsFound' = AsFound
      /\ MatchingLines' = MatchingLines /\ (Ordinary' <=> Ordinary)
  BY <1>1, FoundKept
<1>3. StoredInv'
  BY <1>1, StoredKept DEF Uninverted
<1>4. ASSUME Ordinary
      PROVE  ReportedLines' = MatchingLines
  <2>1. \A m : LinesOf(m)' = LinesOf(m)
    BY <1>1, GivenKept
  <2>2. matches' = matches /\ ~invert_match'
    BY <1>1 DEF given
  <2>3. ReportedLines' = UNION {LinesOf(matches[k]) : k \in DOMAIN matches}
    BY <2>1, <2>2 DEF ReportedLines
  <2>4. matches \in Seq(Pairs) /\ Len(matches) = Len(AsFound)
    BY <1>1 DEF StoredInv, Uninverted
  <2>5. DOMAIN matches = DOMAIN AsFound
    BY <2>4, AsFoundIs
  <2>6. \A k \in DOMAIN AsFound : Kept(k)
    BY <1>1, <1>4, AllKept DEF Uninverted
  <2>7. \A k \in DOMAIN AsFound : LinesOf(matches[k]) = LinesOf(AsFound[k])
    <3> TAKE k \in DOMAIN AsFound
    <3>1. matches[k] \in Pairs
      BY <2>4, <2>5
    <3> QED  BY <3>1, <2>6, KeptLines
  <2>8. \A l : l \in MatchingLines <=>
               \E k \in DOMAIN AsFound : l \in LinesOf(AsFound[k])
    BY <1>4, MatchingIs
  <2> QED  BY <2>3, <2>5, <2>7, <2>8
<1>5. ReportsTheLines'
  BY <1>1, <1>2, <1>4 DEF ReportsTheLines, given
<1>6. inv' = NotInverting /\ Len(matches') \in Nat /\ Len(matches') = Len(AsFound')
  BY <1>1, <1>2, AsFoundIs DEF InverseInv, StoredInv, Uninverted
<1>7. inv'.i = 0 /\ inv'.count = 0
  BY <1>6 DEF NotInverting
<1>8. buf_offset' \in 0..(buf_len' + 1) /\ line_offset' \in 0..(buf_len' + 1)
  BY <1>1 DEF given, MatchTypeOK
<1> QED  BY <1>1, <1>2, <1>3, <1>5, <1>6, <1>7, <1>8, Finished, NotInvertingIs

\* With no match all of the buffer is one.
LEMMA InvertNothingKeeps == MatchInv /\ InvertNothing => MatchInv'
<1> SUFFICES ASSUME MatchInv, InvertNothing  PROVE MatchInv'
  OBVIOUS
<1> USE DEF MatchInv
<1> DEFINE m == span(0, buf_len - 1)
<1>1. /\ phase = "multiline_done" /\ invert_match /\ phase' = "done"
      /\ matches = <<>> /\ matches' = <<m>>
      /\ UNCHANGED <<given, buf_offset, line_offset, inv, found>>
  BY DEF InvertNothing
<1>2. BufferInv' /\ FoundInv' /\ AsFound' = AsFound
      /\ MatchingLines' = MatchingLines /\ (Ordinary' <=> Ordinary)
  BY <1>1, FoundKept
<1>3. buf_len \in Nat /\ 0 < buf_len
  BY DEF BufferInv
<1>4. m \in Pairs /\ m.start = 0 /\ m.end = buf_len - 1
  BY <1>3 DEF span, Pairs
<1> HIDE DEF m
<1>5. matches' \in Seq(Pairs) /\ DOMAIN matches' = {1} /\ matches'[1] = m
      /\ Len(matches') = 1
  BY <1>1, <1>4
<1>6. invert_match'
  BY <1>1 DEF given
<1>7. StoredInv'
  BY <1>1, <1>3, <1>4, <1>5, <1>6 DEF StoredInv, Uninverted
<1>8. ~any_char /\ found = <<>>
  <2>1. Len(AsFound) = 0
    BY <1>1 DEF StoredInv, Uninverted
  <2>2. Len(AsFound) = IF any_char THEN 1 ELSE Len(found)
    BY AsFoundIs
  <2>3. found \in Seq(Span)
    BY DEF FoundInv
  <2> QED  BY <2>1, <2>2, <2>3
<1>9. ReportedLines' = AllLines
  <2>1. \A s, e : LinesFrom(s, e)' = LinesFrom(s, e)
    BY <1>1, GivenKept
  <2>2. ReportedLines' = LinesFrom(m.start, m.end)
    BY <1>5, <1>6, <2>1 DEF ReportedLines
  <2>3. LinesFrom(0, buf_len - 1) = AllLines
    BY DEF LinesFrom, AllLines, Places
  <2> QED  BY <2>2, <2>3, <1>4
<1>10. MatchingLines = {} /\ AllLines' = AllLines
  BY <1>1, <1>8, GivenKept DEF MatchingLines
<1>11. ReportsTheLines'
  BY <1>2, <1>6, <1>9, <1>10 DEF ReportsTheLines
<1>12. inv' = NotInverting
  BY <1>1 DEF InverseInv
<1>13. inv'.i = 0 /\ inv'.count = 0
  BY <1>12 DEF NotInverting
<1>14. buf_offset' \in 0..(buf_len' + 1) /\ line_offset' \in 0..(buf_len' + 1)
  BY <1>1 DEF given, MatchTypeOK
<1>15. Len(matches') <= Len(AsFound') + 1 /\ inv'.count \in 0..Len(matches')
  BY <1>2, <1>5, <1>13, AsFoundIs
<1> QED  BY <1>1, <1>2, <1>7, <1>11, <1>12, <1>14, <1>15, Finished, NotInvertingIs

-----------------------------------------------------------------------------
(* invert_matches                                                           *)

\* A span takes the line it starts in and those that start before its end; if it
\* does not take a newline with it, also the line it ends in.
LEMMA SpanLines ==
  ASSUME NEW nl, nl \subseteq Nat, NEW len \in Nat, NEW m \in Pairs,
         m.start <= m.end, m.end <= len, m.start < len
  PROVE  /\ \A l \in Starts(nl, len) :
              LineAt(nl, m.start) <= l /\ l < m.end => l \in LinesAt(nl, len, m)
         /\ LineAt(nl, m.start) \in LinesAt(nl, len, m)
         /\ m.end < len /\ (m.end = m.start \/ m.end - 1 \notin nl) =>
              LineAt(nl, m.end) \in LinesAt(nl, len, m)
<1>0. m.start \in Nat /\ m.end \in Nat
  BY DEF Pairs
<1>1. \A l : l \in LinesAt(nl, len, m) <=>
             /\ m.start < len /\ l \in Starts(nl, len)
             /\ LineAt(nl, m.start) <= l
             /\ l <= m.start \/ l < m.end
  BY LinesAtIs
<1>2. LineAt(nl, m.start) \in 0..m.start /\ StartsLine(nl, LineAt(nl, m.start))
  BY <1>0, LineAtIs
<1>3. LineAt(nl, m.start) \in Starts(nl, len)
  BY <1>0, <1>2 DEF Starts
<1>4. LineAt(nl, m.start) \in LinesAt(nl, len, m)
  BY <1>0, <1>1, <1>2, <1>3
<1>5. ASSUME m.end < len, m.end = m.start \/ m.end - 1 \notin nl
      PROVE  LineAt(nl, m.end) \in LinesAt(nl, len, m)
  <2>1. CASE m.end = m.start
    BY <2>1, <1>4
  <2>2. CASE m.end # m.start
    <3>1. m.end - 1 \in Nat /\ m.end - 1 \notin nl /\ m.end - 1 + 1 = m.end
          /\ m.start <= m.end - 1
      BY <2>2, <1>0, <1>5
    <3>2. LineAt(nl, m.end) = LineAt(nl, m.end - 1)
      BY <3>1, LineAtNext
    <3>3. LineAt(nl, m.end - 1) \in 0..(m.end - 1)
          /\ StartsLine(nl, LineAt(nl, m.end - 1))
      BY <3>1, LineAtIs
    <3>4. LineAt(nl, m.start) <= LineAt(nl, m.end - 1)
      BY <3>1, <2>2, <1>0, LineAtMonotone
    <3>5. LineAt(nl, m.end - 1) \in Starts(nl, len) /\ LineAt(nl, m.end - 1) < m.end
      BY <3>1, <3>3, <1>0 DEF Starts
    <3> QED  BY <3>2, <3>4, <3>5, <1>1
  <2> QED  BY <2>1, <2>2
<1> QED  BY <1>1, <1>4, <1>5

\* The places from the start of a line on are in the lines that start there.
LEMMA LinesFromStart ==
  ASSUME BufferInv, NEW s \in Nat, StartsLine(newlines, s), NEW e \in Nat,
         s <= e, e < buf_len
  PROVE  \A l : l \in LinesFrom(s, e) <=> l \in AllLines /\ s <= l /\ l <= e
<1>1. newlines \subseteq Nat /\ buf_len \in Nat
  BY DEF BufferInv, Places
<1>2. LineAt(newlines, s) = s
  BY <1>1, LineAtStart
<1>3. \A l : l \in LinesBetween(newlines, buf_len, s, e) <=>
             l \in Starts(newlines, buf_len) /\ LineAt(newlines, s) <= l /\ l <= e
  BY <1>1, LinesBetweenIs
<1> QED  BY <1>2, <1>3, Named

\* Inside invert_matches it remains to show where it is.
LEMMA StillInverting ==
  ASSUME BufferInv', FoundInv', StoredInv', InverseInv', ToldInv', phase' = "invert",
         buf_offset' \in 0..(buf_len' + 1), line_offset' \in 0..(buf_len' + 1)
  PROVE  MatchInv'
<1>1. Len(AsFound') = IF any_char' THEN 1 ELSE Len(found')
  BY DEF AsFound
<1>2. matches' \in Seq(Pairs) /\ found' \in Seq(Span)
  BY DEF StoredInv, FoundInv
<1>3. Len(matches') <= Len(AsFound') + 1
  <2>1. Len(AsFound') \in Nat
    <3>1. Len(found') \in Nat  BY <1>2
    <3> QED  BY <1>1, <3>1
  <2> QED  BY <2>1 DEF InverseInv
<1>4. inv'.i \in Nat /\ inv'.count \in 0..Len(matches')
  BY DEF InverseInv, Variables
<1>5. MatchTypeOK'
  BY <1>1, <1>2, <1>3, <1>4 DEF MatchTypeOK, Pairs
<1>6. LoopInv' /\ ReportsTheLines'
  BY DEF LoopInv, ReportsTheLines
<1> QED  BY <1>5, <1>6 DEF MatchInv

\* invert_matches starts, with what is not told yet as it was found.
LEMMA StartInvertKeeps == MatchInv /\ StartInvert => MatchInv'
<1> SUFFICES ASSUME MatchInv, StartInvert  PROVE MatchInv'
  OBVIOUS
<1> USE DEF MatchInv
<1>1. /\ phase = "multiline_done" /\ invert_match /\ matches # <<>>
      /\ inv' = [NotInverting EXCEPT !.next = matches[1]]
      /\ phase' = "invert"
      /\ UNCHANGED <<given, buf_offset, line_offset, matches, found>>
  BY DEF StartInvert
<1>2. BufferInv' /\ FoundInv' /\ AsFound' = AsFound
      /\ MatchingLines' = MatchingLines /\ (Ordinary' <=> Ordinary)
  BY <1>1, FoundKept
<1>3. StoredInv'
  BY <1>1, StoredKept DEF Uninverted
<1>4. matches \in Seq(Pairs) /\ Len(matches) = Len(AsFound) /\ Len(AsFound) \in Nat
      /\ DOMAIN AsFound = 1..Len(AsFound)
  BY <1>1, AsFoundIs DEF StoredInv, Uninverted
<1>5. Len(AsFound) > 0 /\ 1 \in DOMAIN AsFound /\ 1 \in DOMAIN matches
      /\ matches[1] \in Pairs /\ matches[1].start <= matches[1].end
  <2>1. Len(AsFound) > 0
    BY <1>1, <1>4
  <2>2. 1 \in DOMAIN matches
    BY <1>4, <2>1
  <2> QED  BY <1>4, <2>1, <2>2 DEF StoredInv
<1>6. /\ inv'.i = 0 /\ inv'.read = 0 /\ inv'.count = 0 /\ inv'.start = 0
      /\ inv'.last_line_end = 0 /\ inv'.in_inverted_match = TRUE
      /\ inv'.next = matches[1] /\ inv' \in Variables
  BY <1>1, <1>5, NotInvertingIs DEF NotInverting, Variables
<1>7. invert_match' /\ matches' = matches /\ buf_len' = buf_len /\ newlines' = newlines
  BY <1>1 DEF given
<1>8. buf_len \in Nat /\ 0 < buf_len /\ newlines \subseteq Nat
  BY DEF BufferInv, Places
<1>9. InverseInv'
  <2>1. AsFound # <<>>
    BY <1>5
  <2> QED  BY <1>1, <1>2, <1>4, <1>5, <1>6, <1>7, <2>1 DEF InverseInv
<1>10. ASSUME Ordinary
       PROVE  ReadingInv' /\ LinesInv'
  <2>1. \A k \in DOMAIN AsFound : Kept(k)
    BY <1>1, <1>10, AllKept DEF Uninverted
  <2>2. \A k : Kept(k)' <=> Kept(k)
    BY <1>2, <1>7 DEF Kept
  <2>3. AsFound[1].start \in Nat
    BY <1>5, AsFoundIs
  <2>4. ReadingInv'
    BY <1>2, <1>4, <1>5, <1>6, <1>7, <2>1, <2>2, <2>3 DEF ReadingInv, Kept
  <2>5. LineOf(0)' = 0
    <3>1. LineAt(newlines, 0) = 0
      BY <1>8, LineAtStart DEF StartsLine
    <3> QED  BY <1>1, <3>1, GivenKept, Named
  <2>6. Told' = {}
    BY <1>6 DEF Told
  <2>7. \A l \in AllLines' : ~(l < 0)
    <3>1. AllLines' = Starts(newlines, buf_len)
      BY <1>1, GivenKept, Named
    <3> QED  BY <3>1 DEF Starts
  <2>8. Without(0)' = {}
    BY <2>7 DEF Without
  <2> QED  BY <1>6, <2>4, <2>5, <2>6, <2>8 DEF LinesInv, StartsLine, Without
<1>11. ToldInv'
  BY <1>2, <1>6, <1>7, <1>8, <1>10 DEF ToldInv
<1>12. buf_offset' \in 0..(buf_len' + 1) /\ line_offset' \in 0..(buf_len' + 1)
  BY <1>1 DEF given, MatchTypeOK
<1> QED  BY <1>1, <1>2, <1>3, <1>9, <1>11, <1>12, StillInverting

\* What has been found of the matches that are still ahead, when they are
\* ordinary: they start at i or later.
LEMMA MatchesAhead ==
  ASSUME BufferInv, FoundInv, InverseInv, ReadingInv, phase = "invert"
  PROVE  /\ \A k \in (inv.read + 1)..Len(AsFound) :
              /\ k \in DOMAIN AsFound
              /\ inv.i <= AsFound[k].start
              /\ inv.i # inv.next.start /\ inv.i < buf_len => inv.i < AsFound[k].start
         /\ \A k \in 1..inv.read :
              /\ k \in DOMAIN AsFound
              /\ AsFound[k].start <= inv.i /\ AsFound[k].end <= inv.i
<1> DEFINE N == Len(AsFound)
           r == inv.read
<1>1. /\ N \in Nat /\ DOMAIN AsFound = 1..N
      /\ \A k \in DOMAIN AsFound :
           /\ AsFound[k] \in Pairs
           /\ AsFound[k].start \in Nat /\ AsFound[k].end \in Nat
           /\ AsFound[k].start <= AsFound[k].end
      /\ \A j, k \in DOMAIN AsFound : j < k => Past(AsFound[j]) <= AsFound[k].start
  BY AsFoundIs
<1>2. r \in Nat /\ r <= N /\ inv.i \in Nat /\ inv.next \in Pairs /\ buf_len \in Nat
      /\ inv.next.start \in Nat
  BY DEF InverseInv, Variables, BufferInv, Pairs
<1>3. \A p \in Pairs : p.start <= p.end => p.start <= Past(p) /\ Past(p) \in Nat
  BY DEF Pairs, Past
<1> HIDE DEF N, r
<1>4. ASSUME NEW k \in (r + 1)..N
      PROVE  /\ k \in DOMAIN AsFound /\ inv.i <= AsFound[k].start
             /\ inv.i # inv.next.start /\ inv.i < buf_len => inv.i < AsFound[k].start
  <2>1. r < N /\ r + 1 \in DOMAIN AsFound /\ k \in DOMAIN AsFound
    BY <1>1, <1>2
  <2>2. /\ inv.i <= AsFound[r + 1].start
        /\ \/ inv.next = AsFound[r + 1]
           \/ AsFound[r + 1].start >= buf_len /\ inv.next.start >= buf_len
    BY <2>1 DEF ReadingInv, N, r
  <2>3. AsFound[r + 1].start <= AsFound[k].start
    <3>1. CASE k = r + 1
      BY <3>1, <1>1, <2>1
    <3>2. CASE k # r + 1
      <4>1. Past(AsFound[r + 1]) <= AsFound[k].start
        BY <3>2, <1>1, <1>2, <2>1
      <4>2. AsFound[r + 1].start <= Past(AsFound[r + 1]) /\ Past(AsFound[r + 1]) \in Nat
        BY <1>1, <1>3, <2>1
      <4> QED  BY <4>1, <4>2, <1>1, <2>1
    <3> QED  BY <3>1, <3>2
  <2>4. AsFound[r + 1].start \in Nat /\ AsFound[k].start \in Nat
    BY <1>1, <2>1
  <2> QED  BY <2>1, <2>2, <2>3, <2>4, <1>2
<1>5. ASSUME NEW k \in 1..r
      PROVE  /\ k \in DOMAIN AsFound
             /\ AsFound[k].start <= inv.i /\ AsFound[k].end <= inv.i
  <2>1. k \in DOMAIN AsFound
    BY <1>1, <1>2
  <2>2. AsFound[k].end <= inv.i
    BY DEF ReadingInv, r
  <2> QED  BY <2>1, <2>2, <1>1, <1>2
<1> QED  BY <1>4, <1>5 DEF N, r

\* The lines of a match read are up to i.
LEMMA LinesBehindI ==
  ASSUME BufferInv, NEW m \in Pairs, m.start <= m.end, m.end <= buf_len,
         NEW b \in Nat, m.start <= b, m.end <= b
  PROVE  \A l \in LinesOf(m) : l <= b
<1>1. newlines \subseteq Nat /\ buf_len \in Nat /\ m.end \in Nat /\ m.start \in Nat
  BY DEF BufferInv, Places, Pairs
<1>2. \A l : l \in LinesAt(newlines, buf_len, m) <=>
             /\ m.start < buf_len /\ l \in Starts(newlines, buf_len)
             /\ LineAt(newlines, m.start) <= l
             /\ l <= m.start \/ l < m.end
  BY <1>1, LinesAtIs
<1>3. \A l \in Starts(newlines, buf_len) : l \in Nat
  BY DEF Starts
<1>4. \A l \in LinesAt(newlines, buf_len, m) : l <= b
  BY <1>1, <1>2, <1>3
<1> QED  BY <1>4, Named

\* Those of a match ahead start with the line of its first place.
LEMMA LinesAhead ==
  ASSUME BufferInv, NEW m \in Pairs, m.start <= m.end, m.end <= buf_len,
         NEW b \in Nat, b <= m.start
  PROVE  \A l \in LinesOf(m) : LineOf(b) <= l /\ m.start < buf_len
<1>1. newlines \subseteq Nat /\ buf_len \in Nat /\ m.end \in Nat /\ m.start \in Nat
  BY DEF BufferInv, Places, Pairs
<1>2. \A l : l \in LinesAt(newlines, buf_len, m) <=>
             /\ m.start < buf_len /\ l \in Starts(newlines, buf_len)
             /\ LineAt(newlines, m.start) <= l
             /\ l <= m.start \/ l < m.end
  BY <1>1, LinesAtIs
<1>3. LineAt(newlines, b) <= LineAt(newlines, m.start)
  BY <1>1, LineAtMonotone
<1>4. LineAt(newlines, b) \in 0..b /\ LineAt(newlines, m.start) \in 0..m.start
  BY <1>1, LineAtIs
<1>5. \A l \in Starts(newlines, buf_len) : l \in Nat
  BY DEF Starts
<1>6. \A l \in LinesAt(newlines, buf_len, m) :
        LineAt(newlines, b) <= l /\ m.start < buf_len
  BY <1>1, <1>2, <1>3, <1>4, <1>5
<1> QED  BY <1>6, Named

\* A write puts the lines of m on record.
LEMMA WriteTells ==
  ASSUME StoredInv, InverseInv, UNCHANGED given, NEW m \in Pairs, Write(m),
         m.start <= m.end, inv'.count = inv.count + 1
  PROVE  /\ matches' \in Seq(Pairs)
         /\ \A k \in DOMAIN matches' : matches'[k].start <= matches'[k].end
         /\ Len(matches') = (IF inv.count = Len(matches) THEN Len(matches) + 1
                             ELSE Len(matches))
         /\ \A k \in DOMAIN matches : k # inv.count + 1 => matches'[k] = matches[k]
         /\ Told' = Told \cup LinesFrom(m.start, m.end)
<1> DEFINE n == Len(matches)
           c == inv.count + 1
           last == IF inv.count = n THEN n + 1 ELSE n
<1>1. matches \in Seq(Pairs) /\ n \in Nat /\ DOMAIN matches = 1..n
  BY DEF StoredInv
<1>2. inv.count \in Nat /\ inv.count <= n
  BY <1>1 DEF InverseInv
<1>3. matches' = [k \in DOMAIN matches \cup {c} |-> IF k = c THEN m ELSE matches[k]]
  BY DEF Write
<1> HIDE DEF n
<1>4. DOMAIN matches \cup {c} = 1..last /\ last \in Nat
  BY <1>1, <1>2
<1>5. \A k \in 1..n : matches[k] \in Pairs /\ matches[k].start <= matches[k].end
  BY <1>1 DEF StoredInv
<1>6. \A k \in 1..last : k \in 1..n \/ k = c
  BY <1>1, <1>2
<1> HIDE DEF last, c
<1>7. \A k \in 1..last : matches'[k] = IF k = c THEN m ELSE matches[k]
  BY <1>3, <1>4
<1>8. DOMAIN matches' = 1..last
  BY <1>3, <1>4
<1>9. matches' \in [1..last -> Pairs]
  BY <1>3, <1>4, <1>5, <1>6
<1>10. matches' \in Seq(Pairs) /\ Len(matches') = last
  BY <1>4, <1>8, <1>9
<1>11. \A k \in DOMAIN matches' : matches'[k].start <= matches'[k].end
  BY <1>5, <1>6, <1>7, <1>8
<1>12. \A k \in DOMAIN matches : k # c => matches'[k] = matches[k]
  BY <1>1, <1>4, <1>7
<1>13. Told' = Told \cup LinesFrom(m.start, m.end)
  <2>1. \A s, e : LinesFrom(s, e)' = LinesFrom(s, e)
    BY GivenKept
  <2>2. Told' = UNION {LinesFrom(matches'[k].start, matches'[k].end) : k \in 1..c}
    BY <2>1 DEF Told, c
  <2>3. \A k \in 1..c : k \in 1..inv.count \/ k = c
    BY <1>2 DEF c
  <2>4. \A k \in 1..inv.count : k \in 1..c /\ k # c /\ k \in DOMAIN matches
    BY <1>1, <1>2 DEF c
  <2>5. \A k \in 1..inv.count : matches'[k] = matches[k]
    BY <2>4, <1>12
  <2>6. c \in 1..c /\ matches'[c] = m
    <3>1. c \in 1..last
      BY <1>4
    <3>2. c \in 1..c
      BY <1>2 DEF c
    <3> QED  BY <3>1, <3>2, <1>7
  <2>7. \A l : l \in Told' <=> l \in Told \/ l \in LinesFrom(m.start, m.end)
    BY <2>2, <2>3, <2>4, <2>5, <2>6 DEF Told
  <2> QED  BY <2>7
<1> QED  BY <1>10, <1>11, <1>12, <1>13 DEF last, c, n

\* Reaching a match: the lines before it are told, and the loop is in a line
\* with a match.
LEMMA TellsAtMatch ==
  ASSUME BufferInv, FoundInv, InverseInv, Ordinary, ReadingInv, LinesInv,
         phase = "invert", inv.i < buf_len, inv.read < Len(AsFound),
         inv.i = AsFound[inv.read + 1].start
  PROVE  LET a == AsFound[inv.read + 1] IN
           /\ inv.in_inverted_match =>
                Without(a.end) =
                  Told \cup {l \in AllLines : inv.start <= l /\ l < inv.last_line_end}
           /\ ~inv.in_inverted_match => Without(a.end) = Told
           /\ a.end < buf_len => LineOf(a.end) \in MatchingLines
<1> DEFINE a == AsFound[inv.read + 1]
           k1 == inv.read + 1
           i0 == inv.i
           S == Starts(newlines, buf_len)
<1>0. /\ newlines \subseteq Nat /\ buf_len \in Nat /\ i0 \in Nat
      /\ inv.read \in Nat /\ inv.start \in Nat /\ inv.last_line_end \in Nat
      /\ Len(AsFound) \in Nat /\ AllLines = S /\ \A l \in S : l \in Nat /\ l < buf_len
  <2>1. AllLines = S  BY Named
  <2>2. \A l \in S : l \in Nat /\ l < buf_len
    BY DEF Starts, BufferInv
  <2> QED  BY <2>1, <2>2, AsFoundIs DEF BufferInv, Places, InverseInv, Variables
<1>1. k1 \in DOMAIN AsFound
  BY <1>0, AsFoundIs
<1>2. /\ a \in Pairs /\ a.start \in Nat /\ a.end \in Nat /\ a.start <= a.end
      /\ a.end <= buf_len /\ a.start = i0 /\ a.start < buf_len
  BY <1>1, AsFoundIs
<1>3. \A l : l \in MatchingLines <=> \E k \in DOMAIN AsFound : l \in LinesOf(AsFound[k])
  BY MatchingIs
<1> HIDE DEF a, S
<1>4. /\ \A l \in S : LineOf(i0) <= l /\ l < a.end => l \in LinesOf(a)
      /\ LineOf(i0) \in LinesOf(a)
      /\ a.end < buf_len /\ (a.end = a.start \/ a.end - 1 \notin newlines) =>
           LineOf(a.end) \in LinesOf(a)
  <2>1. /\ \A l \in Starts(newlines, buf_len) :
              LineAt(newlines, a.start) <= l /\ l < a.end =>
                l \in LinesAt(newlines, buf_len, a)
        /\ LineAt(newlines, a.start) \in LinesAt(newlines, buf_len, a)
        /\ a.end < buf_len /\ (a.end = a.start \/ a.end - 1 \notin newlines) =>
             LineAt(newlines, a.end) \in LinesAt(newlines, buf_len, a)
    BY <1>0, <1>2, SpanLines
  <2> QED  BY <2>1, <1>2, Named DEF S
<1>5. \A l \in LinesOf(a) : l \in MatchingLines
  BY <1>1, <1>3 DEF a
<1>6. a.end < buf_len => LineOf(a.end) \in MatchingLines
  <2> SUFFICES ASSUME a.end < buf_len  PROVE a.end = a.start \/ a.end - 1 \notin newlines
    BY <1>4, <1>5
  <2>1. ~any_char
    BY <1>1, <1>2 DEF AsFound, a, span
  <2>2. a = found[k1] /\ k1 \in DOMAIN found
    BY <2>1, <1>1 DEF AsFound, a
  <2>3. ~TakesNewline(a)
    BY <2>2 DEF Ordinary, InverseInv
  <2> QED  BY <2>3 DEF TakesNewline, Empty
<1>7. ASSUME NEW l \in S, i0 <= l, l < a.end
      PROVE  l \in MatchingLines
  <2>1. LineAt(newlines, i0) \in 0..i0
    BY <1>0, LineAtIs
  <2>2. LineOf(i0) <= l
    BY <2>1, <1>0, <1>7, Named
  <2> QED  BY <2>2, <1>4, <1>5, <1>7
<1>8. CASE inv.in_inverted_match
  <2>1. /\ inv.last_line_end = LineOf(i0)
        /\ StartsLine(newlines, inv.start) /\ inv.start <= inv.last_line_end
        /\ Told = Without(inv.start)
        /\ \A k \in 1..inv.read : \A l \in LinesOf(AsFound[k]) : l < inv.start
    BY <1>8 DEF LinesInv
  <2>2. ASSUME NEW l \in S, inv.start <= l, l < inv.last_line_end
        PROVE  l \notin MatchingLines
    <3> SUFFICES ASSUME NEW k \in DOMAIN AsFound, l \in LinesOf(AsFound[k])
                 PROVE  FALSE
      BY <1>3
    <3>1. /\ k \in Nat /\ 1 <= k /\ k <= Len(AsFound) /\ AsFound[k] \in Pairs
          /\ AsFound[k].start <= AsFound[k].end /\ AsFound[k].end <= buf_len
      BY AsFoundIs
    <3>2. CASE k <= inv.read
      <4>1. k \in 1..inv.read
        BY <3>1, <3>2, <1>0
      <4>2. l < inv.start
        BY <4>1, <2>1
      <4>3. l \in Nat /\ inv.start \in Nat
        BY <1>0
      <4> QED  BY <4>2, <4>3, <2>2
    <3>3. CASE ~(k <= inv.read)
      <4>1. k \in (inv.read + 1)..Len(AsFound)
        BY <3>1, <3>3, <1>0
      <4>2. i0 <= AsFound[k].start
        BY <4>1, MatchesAhead
      <4>3. LineOf(i0) <= l
        BY <3>1, <4>2, <1>0, LinesAhead
      <4> QED  BY <4>3, <2>1, <2>2, <1>0
    <3> QED  BY <3>2, <3>3
  <2>3. ASSUME NEW l \in S, inv.last_line_end <= l, l < a.end
        PROVE  l \in MatchingLines
    BY <2>1, <2>3, <1>4, <1>5
  <2>4. LineOf(i0) <= i0 /\ LineOf(i0) \in Nat
    <3>1. LineAt(newlines, i0) \in 0..i0
      BY <1>0, LineAtIs
    <3> QED  BY <3>1, <1>0, Named
  <2>5. \A l \in S : /\ l < inv.start => l < a.end
                     /\ l < inv.last_line_end => l < a.end
                     /\ l < inv.start \/ inv.start <= l
                     /\ l < inv.last_line_end \/ inv.last_line_end <= l
    BY <1>0, <1>2, <2>1, <2>4
  <2>6. \A l : l \in Without(a.end) <=>
               l \in Told \/ l \in {l1 \in AllLines :
                                      inv.start <= l1 /\ l1 < inv.last_line_end}
    BY <1>0, <2>1, <2>2, <2>3, <2>5 DEF Without
  <2> QED  BY <1>6, <1>8, <2>6 DEF a
<1>9. CASE ~inv.in_inverted_match
  <2>1. Told = Without(i0)
    BY <1>9 DEF LinesInv
  <2>2. \A l \in S : (l < i0 => l < a.end) /\ (l < i0 \/ i0 <= l)
    BY <1>0, <1>2
  <2>3. \A l : l \in Without(a.end) <=> l \in Told
    BY <1>0, <1>7, <2>1, <2>2 DEF Without
  <2> QED  BY <1>6, <1>9, <2>3 DEF a
<1> QED  BY <1>8, <1>9

\* The lower of two numbers.
LEMMA MinOfTwo ==
  ASSUME NEW a \in Int, NEW b \in Int
  PROVE  Min({a, b}) = IF a <= b THEN a ELSE b
<1>1. CASE a <= b
  <2>1. \A x \in {a, b} : a <= x /\ ((\A y \in {a, b} : x <= y) => x = a)
    BY <1>1
  <2> QED  BY <1>1, <2>1 DEF Min
<1>2. CASE ~(a <= b)
  <2>1. \A x \in {a, b} : b <= x /\ ((\A y \in {a, b} : x <= y) => x = b)
    BY <1>2
  <2> QED  BY <1>2, <2>1 DEF Min
<1> QED  BY <1>1, <1>2

\* The places where invert_matches is, before a step of its loop.
LEMMA Inverting ==
  ASSUME MatchInv, InvertLoop
  PROVE  /\ phase = "invert" /\ phase' = "invert" /\ invert_match
         /\ UNCHANGED <<given, buf_offset, line_offset, found>>
         /\ BufferInv' /\ FoundInv' /\ AsFound' = AsFound
         /\ MatchingLines' = MatchingLines /\ (Ordinary' <=> Ordinary)
         /\ buf_offset' \in 0..(buf_len' + 1) /\ line_offset' \in 0..(buf_len' + 1)
         /\ buf_len \in Nat /\ buf_len' = buf_len /\ invert_match'
         /\ inv \in Variables /\ inv.i < buf_len
         /\ inv.i \in Nat /\ inv.read \in Nat /\ inv.count \in Nat
         /\ inv.start \in Nat /\ inv.last_line_end \in Nat
         /\ inv.start <= inv.i /\ inv.last_line_end <= inv.i
         /\ inv.next \in Pairs /\ inv.next.start \in Nat /\ inv.next.end \in Nat
         /\ inv.next.start <= inv.next.end
         /\ inv.in_inverted_match \in BOOLEAN
         /\ inv.read <= Len(AsFound) /\ inv.count <= inv.read
         /\ Len(matches) = Len(AsFound) /\ Len(AsFound) \in Nat /\ AsFound # <<>>
         /\ matches \in Seq(Pairs)
         /\ \A k \in DOMAIN matches : matches[k].start <= matches[k].end
         /\ inv.read = Len(AsFound) =>
                 \/ inv.next.start < inv.i
                 \/ inv.next.start = inv.i /\ ~inv.in_inverted_match
         /\ ~Uninverted'
<1> USE DEF MatchInv
<1>1. /\ phase = "invert" /\ inv.i < buf_len
      /\ UNCHANGED <<given, buf_offset, line_offset, phase, found>>
  BY DEF InvertLoop
<1>2. /\ BufferInv' /\ FoundInv' /\ AsFound' = AsFound
      /\ MatchingLines' = MatchingLines /\ (Ordinary' <=> Ordinary)
  BY <1>1, FoundKept
<1>3. buf_len' = buf_len /\ invert_match' = invert_match
  BY <1>1 DEF given
<1>4. buf_offset' \in 0..(buf_len' + 1) /\ line_offset' \in 0..(buf_len' + 1)
  BY <1>1, <1>3 DEF MatchTypeOK
<1>5. inv \in Variables /\ inv.next \in Pairs
  BY DEF InverseInv, Variables
<1>6. /\ inv.i \in Nat /\ inv.read \in Nat /\ inv.count \in Nat
      /\ inv.start \in Nat /\ inv.last_line_end \in Nat
      /\ inv.in_inverted_match \in BOOLEAN
      /\ inv.next.start \in Nat /\ inv.next.end \in Nat
  BY <1>5 DEF Variables, Pairs
<1>7. buf_len \in Nat /\ Len(AsFound) \in Nat
  BY AsFoundIs DEF BufferInv
<1>8. /\ invert_match /\ AsFound # <<>>
      /\ inv.start <= inv.i /\ inv.last_line_end <= inv.i
      /\ inv.read <= Len(AsFound)
      /\ inv.next.start <= inv.next.end
      /\ inv.count <= inv.read
      /\ Len(matches) = Len(AsFound)
      /\ inv.read = Len(AsFound) =>
           \/ inv.next.start < inv.i
           \/ inv.next.start = inv.i /\ ~inv.in_inverted_match
  BY <1>1 DEF InverseInv
<1>9. /\ matches \in Seq(Pairs)
      /\ \A k \in DOMAIN matches : matches[k].start <= matches[k].end
  BY DEF StoredInv
<1>10. ~Uninverted'
  BY <1>1 DEF Uninverted
<1> QED
  BY <1>1, <1>2, <1>3, <1>4, <1>5, <1>6, <1>7, <1>8, <1>9, <1>10

\* At the start of a match: the lines before it that have none become one.
LEMMA InvertAtMatchKeeps == MatchInv /\ InvertAtMatch => MatchInv'
<1> SUFFICES ASSUME MatchInv, InvertAtMatch  PROVE MatchInv'
  OBVIOUS
<1> DEFINE N == Len(AsFound)
           r == inv.read
           writes == inv.in_inverted_match /\ inv.last_line_end > inv.start
           m == span(inv.start, inv.last_line_end - 1)
<1>1. /\ InvertLoop /\ inv.i = inv.next.start
      /\ writes => Write(m)
      /\ ~writes => matches' = matches
      /\ inv' = [inv EXCEPT !.i = inv.next.end,
                            !.read = Min({@ + 1, Len(matches)}),
                            !.next = IF inv.read + 1 < Len(matches)
                                     THEN matches[inv.read + 2] ELSE @,
                            !.count = IF writes THEN @ + 1 ELSE @,
                            !.in_inverted_match = FALSE]
  BY DEF InvertAtMatch
<1>2. /\ phase = "invert" /\ phase' = "invert" /\ invert_match
      /\ UNCHANGED <<given, buf_offset, line_offset, found>>
      /\ BufferInv' /\ FoundInv' /\ AsFound' = AsFound
      /\ MatchingLines' = MatchingLines /\ (Ordinary' <=> Ordinary)
      /\ buf_offset' \in 0..(buf_len' + 1) /\ line_offset' \in 0..(buf_len' + 1)
      /\ buf_len \in Nat /\ buf_len' = buf_len /\ invert_match'
      /\ inv \in Variables /\ inv.i < buf_len
      /\ inv.i \in Nat /\ r \in Nat /\ inv.count \in Nat
      /\ inv.start \in Nat /\ inv.last_line_end \in Nat
      /\ inv.start <= inv.i /\ inv.last_line_end <= inv.i
      /\ inv.next \in Pairs /\ inv.next.start \in Nat /\ inv.next.end \in Nat
      /\ inv.next.start <= inv.next.end
      /\ inv.in_inverted_match \in BOOLEAN
      /\ r <= N /\ inv.count <= r
      /\ Len(matches) = N /\ N \in Nat /\ AsFound # <<>>
      /\ matches \in Seq(Pairs)
      /\ \A k \in DOMAIN matches : matches[k].start <= matches[k].end
      /\ r = N => \/ inv.next.start < inv.i
                  \/ inv.next.start = inv.i /\ ~inv.in_inverted_match
      /\ ~Uninverted'
  BY <1>1, Inverting
<1>3. Min({r + 1, N}) = IF r + 1 <= N THEN r + 1 ELSE N
  <2>1. r + 1 \in Nat /\ N \in Nat  BY <1>2
  <2> HIDE DEF N, r
  <2> QED  BY <2>1, MinOfTwo
<1>4. /\ inv'.i = inv.next.end
      /\ inv'.read = IF r + 1 <= N THEN r + 1 ELSE N
      /\ inv'.next = IF r + 1 < N THEN matches[r + 2] ELSE inv.next
      /\ inv'.count = IF writes THEN inv.count + 1 ELSE inv.count
      /\ inv'.start = inv.start /\ inv'.last_line_end = inv.last_line_end
      /\ inv'.in_inverted_match = FALSE
  <2> HIDE DEF writes
  <2> QED  BY <1>1, <1>2, <1>3 DEF Variables
<1>5. inv'.next \in Pairs /\ inv'.next.start <= inv'.next.end
  <2>1. r + 1 < N => r + 2 \in DOMAIN matches
    BY <1>2
  <2> QED  BY <2>1, <1>2, <1>4
<1>6. inv' \in Variables
  <2>1. inv' = [inv EXCEPT !.i = inv'.i, !.read = inv'.read, !.next = inv'.next,
                           !.count = inv'.count,
                           !.in_inverted_match = inv'.in_inverted_match]
    <3> HIDE DEF writes, N, r
    <3> QED  BY <1>1, <1>2 DEF Variables
  <2>2. inv'.i \in Nat /\ inv'.read \in Nat /\ inv'.count \in Nat
    BY <1>2, <1>4
  <2> QED  BY <1>2, <1>4, <1>5, <2>1, <2>2 DEF Variables
<1>7. writes => m \in Pairs /\ m.start = inv.start /\ m.end = inv.last_line_end - 1
                /\ m.start <= m.end
  BY <1>2 DEF span, Pairs
<1>8. /\ matches' \in Seq(Pairs)
      /\ \A k \in DOMAIN matches' : matches'[k].start <= matches'[k].end
      /\ Len(matches') = N
      /\ \A k \in DOMAIN matches : k # inv.count + 1 \/ ~writes => matches'[k] = matches[k]
      /\ Told' = IF writes THEN Told \cup LinesFrom(inv.start, inv.last_line_end - 1)
                 ELSE Told
  <2>1. CASE writes
    <3>1. StoredInv /\ InverseInv /\ Write(m) /\ m \in Pairs /\ m.start <= m.end
          /\ inv'.count = inv.count + 1 /\ UNCHANGED given
      BY <2>1, <1>1, <1>2, <1>4, <1>7 DEF MatchInv
    <3>2. /\ matches' \in Seq(Pairs)
          /\ \A k \in DOMAIN matches' : matches'[k].start <= matches'[k].end
          /\ Len(matches') = (IF inv.count = Len(matches) THEN Len(matches) + 1
                              ELSE Len(matches))
          /\ \A k \in DOMAIN matches : k # inv.count + 1 => matches'[k] = matches[k]
          /\ Told' = Told \cup LinesFrom(m.start, m.end)
      <4> HIDE DEF m, writes
      <4> QED  BY <3>1, WriteTells
    <3>3. r # N
      BY <2>1, <1>1, <1>2
    <3> QED  BY <2>1, <3>2, <3>3, <1>2, <1>7
  <2>2. CASE ~writes
    <3>1. matches' = matches
      BY <2>2, <1>1
    <3>2. Told' = Told
      <4>1. \A s, e : LinesFrom(s, e)' = LinesFrom(s, e)
        BY <1>2, GivenKept
      <4>2. inv'.count = inv.count
        BY <2>2, <1>4
      <4> QED  BY <3>1, <4>1, <4>2 DEF Told
    <3> QED  BY <2>2, <3>1, <3>2, <1>2
  <2> QED  BY <2>1, <2>2
<1>9. StoredInv'
  BY <1>2, <1>8 DEF StoredInv
<1>10. InverseInv'
  <2>1. inv'.start <= inv'.i /\ inv'.last_line_end <= inv'.i
    BY <1>1, <1>2, <1>4
  <2>2. inv'.read <= N
    BY <1>2, <1>4
  <2>3. inv'.count <= inv'.read /\ inv'.count \in Nat /\ inv'.read \in Nat
    <3>1. CASE writes
      <4>1. r # N /\ r + 1 <= N
        BY <3>1, <1>1, <1>2
      <4>2. inv'.count = inv.count + 1 /\ inv'.read = r + 1
        BY <3>1, <4>1, <1>4
      <4> HIDE DEF r
      <4> QED  BY <4>2, <1>2, SMTT(30)
    <3>2. CASE ~writes
      <4>1. inv'.count = inv.count
        BY <3>2, <1>4
      <4> HIDE DEF writes, r, N
      <4> QED  BY <4>1, <1>2, <1>4
    <3> QED  BY <3>1, <3>2
  <2>4. inv'.read = N =>
          \/ inv'.next.start < inv'.i
          \/ inv'.next.start = inv'.i /\ ~inv'.in_inverted_match
    BY <1>2, <1>4
  <2>5. inv'.count \in 0..Len(matches')
    <3> HIDE DEF writes, r, N
    <3> QED  BY <1>2, <1>8, <2>2, <2>3
  <2>6. AsFound' # <<>> /\ Len(AsFound') = N
    BY <1>2
  <2>7. phase' \notin {"search", "line", "multiline_done"}
    BY <1>2
  <2> HIDE DEF writes, r
  <2> QED
    BY <1>2, <1>5, <1>6, <1>8, <2>1, <2>2, <2>3, <2>4, <2>5, <2>6, <2>7 DEF InverseInv
<1>11. ASSUME Ordinary
       PROVE  IF inv'.i < buf_len THEN ReadingInv' /\ LinesInv'
              ELSE Told' = AllLines' \ MatchingLines'
  <2>1. ReadingInv /\ LinesInv /\ BufferInv /\ FoundInv /\ InverseInv
    BY <1>2, <1>11 DEF MatchInv, ToldInv
  <2>2. /\ DOMAIN AsFound = 1..N
        /\ \A k \in DOMAIN AsFound :
             /\ AsFound[k] \in Pairs
             /\ AsFound[k].start \in Nat /\ AsFound[k].end \in Nat
             /\ AsFound[k].start <= AsFound[k].end
             /\ AsFound[k].end <= buf_len
        /\ \A j, k \in DOMAIN AsFound : j < k => Past(AsFound[j]) <= AsFound[k].start
    BY <2>1, AsFoundIs
  <2>3. DOMAIN matches = 1..N
    BY <1>2
  <2>4. AllLines' = AllLines /\ \A p : LineOf(p)' = LineOf(p)
    BY <1>2, GivenKept
  <2>5. \A k \in 1..N : matches'[k] = matches[k] => (Kept(k)' <=> Kept(k))
    BY <1>2 DEF Kept
  <2>6. \A k \in (inv.count + 1)..N : Kept(k)
    BY <2>1 DEF ReadingInv
  <2>7. \A k \in (inv'.count + 1)..N : Kept(k)'
    <3> SUFFICES ASSUME NEW k \in (inv'.count + 1)..N  PROVE Kept(k)'
      OBVIOUS
    <3>1. k \in (inv.count + 1)..N /\ k \in 1..N /\ (k # inv.count + 1 \/ ~writes)
      <4> HIDE DEF N
      <4> QED  BY <1>2, <1>4
    <3>2. matches'[k] = matches[k]
      <4> HIDE DEF writes
      <4> QED  BY <3>1, <2>3, <1>8
    <3> QED  BY <3>1, <3>2, <2>5, <2>6
  <2>8. CASE r = N
    <3>1. inv.i = inv.next.start /\ ~inv.in_inverted_match
      BY <2>8, <1>1, <1>2
    <3>2. N > 0 /\ N \in 1..N /\ N \in 1..r
      <4>1. N # 0
        BY <1>2, AsFoundIs, <2>1
      <4> QED  BY <4>1, <1>2, <2>8
    <3>3. inv.next = AsFound[N]
      BY <2>1, <2>8 DEF ReadingInv
    <3>4. inv.next.end <= inv.i
      BY <2>1, <3>2, <3>3 DEF ReadingInv
    <3>5. inv'.i = inv.i /\ inv'.read = r /\ inv'.next = inv.next
      <4>1. inv.next.end = inv.i
        BY <3>1, <3>4, <1>2
      <4> HIDE DEF writes, N, r
      <4> QED  BY <4>1, <1>2, <1>4, <2>8
    <3>6. ReadingInv'
      <4>1. \A k \in 1..r : AsFound[k].end <= inv.i
        BY <2>1 DEF ReadingInv
      <4> QED  BY <1>2, <2>7, <2>8, <3>3, <3>5, <4>1 DEF ReadingInv
    <3>7. LinesInv'
      <4>1. Told = Without(inv.i) /\ LineOf(inv.i) \in MatchingLines
        BY <2>1, <3>1 DEF LinesInv
      <4>2. Told' = Told
        BY <1>8, <3>1
      <4>3. Without(inv.i)' = Without(inv'.i)
        BY <3>5, <2>4, <1>2 DEF Without
      <4>4. Told' = {l \in AllLines' \ MatchingLines' : l < inv'.i}
        BY <4>1, <4>2, <3>5, <2>4, <1>2 DEF Without
      <4>5. LineOf(inv.i)' \in MatchingLines'
        BY <4>1, <2>4, <3>5, <1>2
      <4> QED  BY <1>4, <4>4, <4>5 DEF LinesInv, Without
    <3> QED  BY <3>5, <3>6, <3>7, <1>2
  <2>9. CASE r < N
    <3> DEFINE a == AsFound[r + 1]
    <3>1. r + 1 \in 1..N
      BY <2>9, <1>2
    <3>2. a \in Pairs /\ a.start \in Nat /\ a.end \in Nat /\ a.start <= a.end
          /\ a.end <= buf_len
      BY <3>1, <2>2
    <3>3. inv.next = a
      BY <2>1, <2>9, <1>1, <1>2 DEF ReadingInv
    <3>4. inv.i = a.start /\ inv'.i = a.end /\ inv'.read = r + 1
      BY <3>1, <3>3, <1>1, <1>2, <1>4
    <3>5. /\ inv.in_inverted_match =>
               Without(a.end) =
                 Told \cup {l \in AllLines : inv.start <= l /\ l < inv.last_line_end}
          /\ ~inv.in_inverted_match => Without(a.end) = Told
          /\ a.end < buf_len => LineOf(a.end) \in MatchingLines
      BY <1>2, <1>11, <2>1, <2>9, <3>4, TellsAtMatch
    <3>6. Told' = Without(a.end)
      <4>1. CASE ~inv.in_inverted_match
        BY <4>1, <1>8, <3>5
      <4>2. CASE writes
        <5>1. StartsLine(newlines, inv.start)
          BY <4>2, <2>1 DEF LinesInv
        <5>2. inv.last_line_end - 1 \in Nat /\ inv.start <= inv.last_line_end - 1
              /\ inv.last_line_end - 1 < buf_len
          BY <4>2, <1>2
        <5>3. \A l : l \in LinesFrom(inv.start, inv.last_line_end - 1) <=>
                    l \in AllLines /\ inv.start <= l /\ l <= inv.last_line_end - 1
          BY <5>1, <5>2, <1>2, <2>1, LinesFromStart
        <5>4. \A l \in AllLines : l <= inv.last_line_end - 1 <=> l < inv.last_line_end
          <6>1. AllLines = Starts(newlines, buf_len)
            BY <2>1, Named
          <6> QED  BY <6>1, <1>2 DEF Starts
        <5>5. LinesFrom(inv.start, inv.last_line_end - 1) =
                {l \in AllLines : inv.start <= l /\ l < inv.last_line_end}
          BY <5>3, <5>4
        <5> QED  BY <4>2, <5>5, <1>8, <3>5
      <4>3. CASE inv.in_inverted_match /\ ~writes
        <5>1. inv.start <= inv.last_line_end
          BY <4>3, <2>1 DEF LinesInv
        <5>2. inv.start = inv.last_line_end
          BY <5>1, <4>3, <1>2
        <5>3. \A l \in AllLines : ~(inv.start <= l /\ l < inv.last_line_end)
          <6>1. AllLines = Starts(newlines, buf_len)
            BY <2>1, Named
          <6> QED  BY <6>1, <5>2, <1>2 DEF Starts
        <5>4. {l \in AllLines : inv.start <= l /\ l < inv.last_line_end} = {}
          BY <5>3
        <5> QED  BY <5>4, <4>3, <1>8, <3>5
      <4> QED  BY <4>1, <4>2, <4>3
    <3>7. CASE a.end < buf_len
      <4>1. ReadingInv'
        <5>1. \A k \in 1..(r + 1) : AsFound[k].end <= a.end
          <6> TAKE k \in 1..(r + 1)
          <6>1. CASE k = r + 1
            BY <6>1, <3>2
          <6>2. CASE k # r + 1
            <7>1. k \in 1..r /\ k \in 1..N
              BY <6>2, <3>1, <1>2
            <7>2. AsFound[k].end <= inv.i /\ AsFound[k].end \in Nat
              BY <7>1, <2>1, <2>2 DEF ReadingInv
            <7> QED  BY <7>2, <3>2, <3>4, <1>2, SMTT(30)
          <6> QED  BY <6>1, <6>2
        <5>2. CASE r + 1 = N
          BY <5>1, <5>2, <1>2, <1>4, <2>7, <3>3, <3>4 DEF ReadingInv
        <5>3. CASE r + 1 # N
          <6>1. r + 1 < N /\ r + 2 \in 1..N /\ r + 2 \in (inv.count + 1)..N
            BY <5>3, <2>9, <1>2
          <6>2. inv'.next = matches[r + 2]
            BY <6>1, <1>4
          <6>3. Kept(r + 2)
            BY <6>1, <2>6
          <6>4. \/ inv'.next = AsFound[r + 2]
                \/ AsFound[r + 2].start >= buf_len /\ inv'.next.start >= buf_len
            BY <6>2, <6>3 DEF Kept
          <6>5. a.end <= AsFound[r + 2].start
            <7>1. Past(a) <= AsFound[r + 2].start
              BY <6>1, <3>1, <2>2, <1>2
            <7>2. a.end <= Past(a) /\ Past(a) \in Nat
              BY <3>2 DEF Past
            <7>3. AsFound[r + 2].start \in Nat
              BY <6>1, <2>2
            <7> QED  BY <7>1, <7>2, <7>3, <3>2
          <6>6. inv'.read + 1 = r + 2 /\ inv'.read < Len(AsFound')
            BY <6>1, <3>4, <1>2
          <6>7. \A k \in 1..inv'.read : AsFound[k].end <= inv'.i
            BY <5>1, <3>4
          <6> HIDE DEF a
          <6> QED  BY <6>4, <6>5, <6>6, <6>7, <1>2, <2>7, <3>4 DEF ReadingInv
        <5> QED  BY <5>2, <5>3
      <4>2. LinesInv'
        <5>1. Told' = {l \in AllLines' \ MatchingLines' : l < inv'.i}
          BY <3>4, <3>6, <2>4, <1>2 DEF Without
        <5>2. LineOf(inv.i)' \in MatchingLines'
          <6>1. LineOf(inv'.i) \in MatchingLines
            BY <3>4, <3>5, <3>7
          <6> HIDE DEF a, r, N, writes
          <6> QED  BY <6>1, <2>4, <1>2
        <5> QED  BY <1>4, <3>4, <5>1, <5>2 DEF LinesInv, Without
      <4> QED  BY <4>1, <4>2, <3>4, <3>7
    <3>8. CASE ~(a.end < buf_len)
      <4>1. a.end = buf_len
        BY <3>2, <3>8, <1>2
      <4>2. \A l \in AllLines : l < buf_len
        <5>1. AllLines = Starts(newlines, buf_len)
          BY <2>1, Named
        <5> QED  BY <5>1, <1>2 DEF Starts
      <4>3. Told' = AllLines \ MatchingLines
        BY <3>6, <4>1, <4>2 DEF Without
      <4> QED  BY <3>4, <3>8, <4>3, <2>4, <1>2
    <3> QED  BY <3>7, <3>8
  <2> QED  BY <2>8, <2>9, <1>2
<1>12. ToldInv'
  BY <1>2, <1>11 DEF ToldInv
<1> QED  BY <1>2, <1>9, <1>10, <1>12, StillInverting

\* At the last character, after lines without a match.
LEMMA InvertAtEndKeeps == MatchInv /\ InvertAtEnd => MatchInv'
<1> SUFFICES ASSUME MatchInv, InvertAtEnd  PROVE MatchInv'
  OBVIOUS
<1> DEFINE N == Len(AsFound)
           m == span(inv.start, inv.i)
<1>1. /\ InvertLoop /\ inv.i # inv.next.start /\ inv.i = buf_len - 1
      /\ inv.in_inverted_match /\ Write(m)
      /\ inv' = [inv EXCEPT !.i = @ + 1, !.count = @ + 1]
  BY DEF InvertAtEnd
<1>2. /\ phase = "invert" /\ phase' = "invert" /\ invert_match
      /\ UNCHANGED <<given, buf_offset, line_offset, found>>
      /\ BufferInv' /\ FoundInv' /\ AsFound' = AsFound
      /\ MatchingLines' = MatchingLines /\ (Ordinary' <=> Ordinary)
      /\ buf_offset' \in 0..(buf_len' + 1) /\ line_offset' \in 0..(buf_len' + 1)
      /\ buf_len \in Nat /\ buf_len' = buf_len /\ invert_match'
      /\ inv \in Variables /\ inv.i < buf_len
      /\ inv.i \in Nat /\ inv.read \in Nat /\ inv.count \in Nat
      /\ inv.start \in Nat /\ inv.last_line_end \in Nat
      /\ inv.start <= inv.i /\ inv.last_line_end <= inv.i
      /\ inv.next \in Pairs /\ inv.next.start <= inv.next.end
      /\ inv.read <= N /\ inv.count <= inv.read
      /\ Len(matches) = N /\ N \in Nat /\ AsFound # <<>>
      /\ ~Uninverted'
  BY <1>1, Inverting
<1>3. /\ inv'.i = buf_len /\ inv'.read = inv.read /\ inv'.next = inv.next
      /\ inv'.count = inv.count + 1 /\ inv'.start = inv.start
      /\ inv'.last_line_end = inv.last_line_end /\ inv' \in Variables
  <2>1. inv.i + 1 = buf_len /\ inv.i + 1 \in Nat /\ inv.count + 1 \in Nat
    BY <1>1, <1>2
  <2>2. inv' = [inv EXCEPT !.i = inv.i + 1, !.count = inv.count + 1]
    BY <1>1
  <2>3. inv \in Variables
    BY <1>2
  <2> QED  BY <2>1, <2>2, <2>3 DEF Variables
<1>4. m \in Pairs /\ m.start = inv.start /\ m.end = inv.i /\ m.start <= m.end
  BY <1>2 DEF span, Pairs
<1>5. StoredInv /\ InverseInv /\ BufferInv /\ FoundInv /\ UNCHANGED given
  BY <1>2 DEF MatchInv
<1>6. /\ matches' \in Seq(Pairs)
      /\ \A k \in DOMAIN matches' : matches'[k].start <= matches'[k].end
      /\ Len(matches') = (IF inv.count = Len(matches) THEN Len(matches) + 1
                          ELSE Len(matches))
      /\ Told' = Told \cup LinesFrom(m.start, m.end)
  <2> HIDE DEF m
  <2> QED  BY <1>1, <1>3, <1>4, <1>5, WriteTells
<1>7. StoredInv'
  BY <1>2, <1>6 DEF StoredInv
<1>8. InverseInv'
  <2>1. Len(matches') \in N..(N + 1) /\ inv'.count \in 0..Len(matches')
    <3> HIDE DEF N
    <3> QED  BY <1>2, <1>3, <1>6
  <2>2. inv'.start <= inv'.i /\ inv'.last_line_end <= inv'.i /\ ~(inv'.i < buf_len')
    BY <1>2, <1>3
  <2>3. AsFound' # <<>> /\ Len(AsFound') = N /\ inv'.read <= N
        /\ inv'.next.start <= inv'.next.end
        /\ phase' \notin {"search", "line", "multiline_done"}
    BY <1>2, <1>3
  <2> QED  BY <1>2, <1>3, <2>1, <2>2, <2>3 DEF InverseInv
<1>9. ASSUME Ordinary
      PROVE  Told' = AllLines' \ MatchingLines'
  <2>1. ReadingInv /\ LinesInv
    BY <1>2, <1>9 DEF MatchInv, ToldInv
  <2>2. /\ StartsLine(newlines, inv.start) /\ Told = Without(inv.start)
        /\ \A k \in 1..inv.read : \A l \in LinesOf(AsFound[k]) : l < inv.start
    BY <1>1, <2>1 DEF LinesInv
  <2>3. \A l : l \in LinesFrom(inv.start, inv.i) <=>
               l \in AllLines /\ inv.start <= l /\ l <= inv.i
    BY <1>2, <1>5, <2>2, LinesFromStart
  <2>4. \A l \in AllLines : l \in Nat /\ l <= inv.i
    <3>1. AllLines = Starts(newlines, buf_len)
      BY <1>5, Named
    <3> QED  BY <3>1, <1>1, <1>2 DEF Starts
  <2>5. ASSUME NEW l \in AllLines, inv.start <= l
        PROVE  l \notin MatchingLines
    <3>1. \A x : x \in MatchingLines <=> \E k \in DOMAIN AsFound : x \in LinesOf(AsFound[k])
      BY <1>5, <1>9, MatchingIs
    <3> SUFFICES ASSUME NEW k \in DOMAIN AsFound, l \in LinesOf(AsFound[k])
                 PROVE  FALSE
      BY <3>1
    <3>2. /\ k \in 1..N /\ AsFound[k] \in Pairs /\ AsFound[k].start \in Nat
          /\ AsFound[k].start <= AsFound[k].end /\ AsFound[k].end <= buf_len
      BY <1>5, AsFoundIs
    <3>3. CASE k <= inv.read
      <4>1. k \in 1..inv.read
        BY <3>2, <3>3, <1>2
      <4>2. l < inv.start
        BY <4>1, <2>2
      <4> QED  BY <4>2, <2>4, <2>5, <1>2
    <3>4. CASE ~(k <= inv.read)
      <4>1. k \in (inv.read + 1)..Len(AsFound)
        BY <3>2, <3>4, <1>2
      <4>2. inv.i < AsFound[k].start /\ inv.i <= AsFound[k].start
        BY <4>1, <3>2, <1>1, <1>2, <1>5, <2>1, MatchesAhead
      <4>3. AsFound[k].start < buf_len
        BY <4>2, <3>2, <1>2, <1>5, LinesAhead
      <4> QED  BY <4>2, <4>3, <3>2, <1>1, <1>2
    <3> QED  BY <3>3, <3>4
  <2>6. \A l : l \in Told' <=> l \in AllLines \ MatchingLines
    BY <1>2, <1>4, <1>6, <2>2, <2>3, <2>4, <2>5 DEF Without
  <2> QED  BY <2>6, <1>2, GivenKept
<1>10. ToldInv'
  BY <1>2, <1>3, <1>9 DEF ToldInv
<1> QED  BY <1>2, <1>7, <1>8, <1>10, StillInverting

\* At any other character only the start of the line may move.
LEMMA InvertAtCharKeeps == MatchInv /\ InvertAtChar => MatchInv'
<1> SUFFICES ASSUME MatchInv, InvertAtChar  PROVE MatchInv'
  OBVIOUS
<1> DEFINE N == Len(AsFound)
<1>1. /\ InvertLoop /\ inv.i # inv.next.start
      /\ ~(inv.i = buf_len - 1 /\ inv.in_inverted_match)
      /\ inv' = IF inv.i \in newlines THEN AfterNewline ELSE [inv EXCEPT !.i = @ + 1]
      /\ matches' = matches
  BY DEF InvertAtChar
<1>2. /\ phase = "invert" /\ phase' = "invert" /\ invert_match
      /\ UNCHANGED <<given, buf_offset, line_offset, found>>
      /\ BufferInv' /\ FoundInv' /\ AsFound' = AsFound
      /\ MatchingLines' = MatchingLines /\ (Ordinary' <=> Ordinary)
      /\ buf_offset' \in 0..(buf_len' + 1) /\ line_offset' \in 0..(buf_len' + 1)
      /\ buf_len \in Nat /\ buf_len' = buf_len /\ invert_match'
      /\ inv \in Variables /\ inv.i < buf_len
      /\ inv.i \in Nat /\ inv.read \in Nat /\ inv.count \in Nat
      /\ inv.start \in Nat /\ inv.last_line_end \in Nat
      /\ inv.start <= inv.i /\ inv.last_line_end <= inv.i
      /\ inv.next \in Pairs /\ inv.next.start \in Nat
      /\ inv.next.start <= inv.next.end /\ inv.in_inverted_match \in BOOLEAN
      /\ inv.read <= N /\ inv.count <= inv.read
      /\ Len(matches) = N /\ N \in Nat /\ AsFound # <<>>
      /\ matches \in Seq(Pairs)
      /\ \A k \in DOMAIN matches : matches[k].start <= matches[k].end
      /\ inv.read = N => \/ inv.next.start < inv.i
                         \/ inv.next.start = inv.i /\ ~inv.in_inverted_match
      /\ ~Uninverted'
  BY <1>1, Inverting
<1>3. /\ inv'.i = inv.i + 1 /\ inv'.read = inv.read /\ inv'.next = inv.next
      /\ inv'.count = inv.count /\ inv' \in Variables
      /\ inv'.start = IF inv.i \in newlines /\ ~inv.in_inverted_match THEN inv.i + 1
                      ELSE inv.start
      /\ inv'.last_line_end = IF inv.i \in newlines THEN inv.i + 1 ELSE inv.last_line_end
      /\ inv'.in_inverted_match <=> (inv.i \in newlines \/ inv.in_inverted_match)
  <2>1. CASE inv.i \in newlines
    <3>1. inv' = AfterNewline
      BY <2>1, <1>1
    <3>2. /\ inv.i + 1 \in Nat /\ inv \in Variables /\ inv.in_inverted_match \in BOOLEAN
          /\ (IF inv.in_inverted_match THEN inv.start ELSE inv.i + 1) \in Nat
      BY <1>2
    <3>3. inv' = [inv EXCEPT !.i = inv.i + 1, !.last_line_end = inv.i + 1,
                             !.start = IF inv.in_inverted_match THEN inv.start
                                       ELSE inv.i + 1,
                             !.in_inverted_match = TRUE]
      BY <3>1, <3>2 DEF AfterNewline, Variables
    <3>4. inv' \in Variables
      BY <3>2, <3>3 DEF Variables
    <3> QED  BY <2>1, <3>2, <3>3, <3>4 DEF Variables
  <2>2. CASE inv.i \notin newlines
    <3>1. inv.i + 1 \in Nat /\ inv \in Variables
          /\ inv' = [inv EXCEPT !.i = inv.i + 1]
      BY <2>2, <1>1, <1>2
    <3> QED  BY <2>2, <3>1 DEF Variables
  <2> QED  BY <2>1, <2>2
<1>4. StoredInv /\ InverseInv /\ BufferInv /\ FoundInv
  BY DEF MatchInv
<1>5. StoredInv'
  BY <1>1, <1>2 DEF StoredInv
<1>6. InverseInv'
  <2>1. inv'.start <= inv'.i /\ inv'.last_line_end <= inv'.i
    BY <1>2, <1>3
  <2>2. AsFound' # <<>> /\ Len(AsFound') = N /\ Len(matches') = N
        /\ phase' \notin {"search", "line", "multiline_done"}
    BY <1>1, <1>2
  <2>3. inv'.count \in 0..N /\ N \in N..(N + 1)
    <3> HIDE DEF N
    <3> QED  BY <1>2, <1>3
  <2>4. inv'.read = N => inv'.next.start < inv'.i
    BY <1>2, <1>3
  <2> HIDE DEF N
  <2> QED  BY <1>2, <1>3, <2>1, <2>2, <2>3, <2>4 DEF InverseInv
<1>7. ASSUME Ordinary
      PROVE  IF inv'.i < buf_len THEN ReadingInv' /\ LinesInv'
             ELSE Told' = AllLines' \ MatchingLines'
  <2>1. ReadingInv /\ LinesInv
    BY <1>2, <1>7 DEF MatchInv, ToldInv
  <2>2. AllLines' = AllLines /\ (\A p : LineOf(p)' = LineOf(p))
        /\ \A s, e : LinesFrom(s, e)' = LinesFrom(s, e)
    BY <1>2, GivenKept
  <2>3. /\ DOMAIN AsFound = 1..N
        /\ \A k \in DOMAIN AsFound :
             /\ AsFound[k] \in Pairs
             /\ AsFound[k].start \in Nat /\ AsFound[k].end \in Nat
             /\ AsFound[k].start <= AsFound[k].end
             /\ AsFound[k].end <= buf_len
    BY <1>4, AsFoundIs
  <2>4. Told' = Told
    BY <1>1, <1>3, <2>2 DEF Told
  <2>5. newlines \subseteq Nat /\ AllLines = Starts(newlines, buf_len)
        /\ LineOf(inv.i) = LineAt(newlines, inv.i)
        /\ LineOf(inv.i + 1) = LineAt(newlines, inv.i + 1)
    BY <1>4, Named DEF BufferInv, Places
  <2>6. LineOf(inv.i + 1) = IF inv.i \in newlines THEN inv.i + 1 ELSE LineOf(inv.i)
    BY <2>5, <1>2, LineAtNext
  <2>7. ASSUME ~inv.in_inverted_match
        PROVE  Told = Without(inv.i + 1) /\ LineOf(inv.i) \in MatchingLines
    <3>1. Told = Without(inv.i) /\ LineOf(inv.i) \in MatchingLines
      BY <2>1, <2>7 DEF LinesInv
    <3>2. ASSUME NEW l \in AllLines, l < inv.i + 1, ~(l < inv.i)
          PROVE  l \in MatchingLines
      <4>1. l = inv.i /\ StartsLine(newlines, l)
        BY <3>2, <2>5, <1>2 DEF Starts
      <4>2. LineAt(newlines, inv.i) = inv.i
        BY <4>1, <2>5, <1>2, LineAtStart
      <4> QED  BY <4>1, <4>2, <2>5, <3>1
    <3>3. \A l \in AllLines : l < inv.i => l < inv.i + 1
      BY <2>5, <1>2 DEF Starts
    <3>4. \A l : l \in Without(inv.i) <=> l \in Without(inv.i + 1)
      BY <3>2, <3>3 DEF Without
    <3> QED  BY <3>1, <3>4
  <2>8. CASE inv.i + 1 < buf_len
    <3>1. ReadingInv'
      <4>1. \A k \in (inv.count + 1)..N : Kept(k)'
        <5>1. \A k \in (inv.count + 1)..N : Kept(k)
          BY <2>1 DEF ReadingInv
        <5> QED  BY <5>1, <1>1, <1>2 DEF Kept
      <4>2. \A k \in 1..inv.read : AsFound[k].end <= inv.i + 1
        <5> TAKE k \in 1..inv.read
        <5>1. k \in 1..N
          BY <1>2
        <5>2. AsFound[k].end <= inv.i /\ AsFound[k].end \in Nat
          BY <2>1, <2>3, <5>1 DEF ReadingInv
        <5> QED  BY <5>2, <1>2
      <4>3. CASE inv.read = N
        <5>1. inv.next = AsFound[inv.read]
          BY <4>3, <2>1 DEF ReadingInv
        <5> QED  BY <4>1, <4>2, <4>3, <5>1, <1>2, <1>3 DEF ReadingInv
      <4>4. CASE inv.read # N
        <5>1. inv.read < N /\ inv.read + 1 \in (inv.read + 1)..N /\ inv.read + 1 \in 1..N
          BY <4>4, <1>2
        <5>2. inv.i < AsFound[inv.read + 1].start
          BY <5>1, <1>1, <1>2, <1>4, <2>1, MatchesAhead
        <5>3. inv.i + 1 <= AsFound[inv.read + 1].start
          BY <5>1, <5>2, <1>2, <2>3
        <5>4. \/ inv.next = AsFound[inv.read + 1]
              \/ AsFound[inv.read + 1].start >= buf_len /\ inv.next.start >= buf_len
          BY <5>1, <2>1 DEF ReadingInv
        <5> QED  BY <4>1, <4>2, <5>1, <5>3, <5>4, <1>2, <1>3 DEF ReadingInv
      <4> QED  BY <4>3, <4>4
    <3>2. LinesInv'
      <4>1. CASE inv.in_inverted_match
        <5>1. /\ inv.last_line_end = LineOf(inv.i)
              /\ StartsLine(newlines, inv.start) /\ inv.start <= inv.last_line_end
              /\ Told = Without(inv.start)
              /\ \A k \in 1..inv.read : \A l \in LinesOf(AsFound[k]) : l < inv.start
          BY <4>1, <2>1 DEF LinesInv
        <5>2. inv'.in_inverted_match /\ inv'.start = inv.start
          BY <4>1, <1>3
        <5>3. inv'.last_line_end = LineOf(inv.i + 1) /\ inv.start <= inv'.last_line_end
          BY <5>1, <1>2, <1>3, <2>6
        <5>4. inv'.last_line_end = LineOf(inv.i)'
          <6>1. inv'.last_line_end = LineOf(inv'.i)
            BY <5>3, <1>3
          <6> QED  BY <6>1, <2>2
        <5>5. Told' = {l \in AllLines' \ MatchingLines' : l < inv'.start}
          BY <5>1, <5>2, <2>2, <2>4, <1>2 DEF Without
        <5>6. \A m : LinesOf(m)' = LinesOf(m)
          BY <1>2, GivenKept
        <5>7. newlines' = newlines
          BY <1>2 DEF given
        <5> QED  BY <5>1, <5>2, <5>3, <5>4, <5>5, <5>6, <5>7, <1>2, <1>3
                 DEF LinesInv, Without
      <4>2. CASE ~inv.in_inverted_match /\ inv.i \in newlines
        <5>1. Told = Without(inv.i + 1)
          BY <4>2, <2>7
        <5>2. /\ inv'.in_inverted_match /\ inv'.start = inv.i + 1
              /\ inv'.last_line_end = inv.i + 1 /\ LineOf(inv.i + 1) = inv.i + 1
          BY <4>2, <1>3, <2>6
        <5>3. StartsLine(newlines, inv.i + 1)
          BY <4>2, <1>2 DEF StartsLine
        <5>4. ASSUME NEW k \in 1..inv.read, NEW l \in LinesOf(AsFound[k])
              PROVE  l < inv.i + 1
          <6>1. AsFound[k].start <= inv.i /\ AsFound[k].end <= inv.i /\ k \in 1..N
            BY <1>2, <1>4, <2>1, MatchesAhead
          <6>2. l <= inv.i
            BY <6>1, <2>3, <1>2, <1>4, LinesBehindI
          <6>3. l \in Nat
            <7>1. LinesOf(AsFound[k]) = LinesAt(newlines, buf_len, AsFound[k])
              BY <1>4, Named
            <7>2. l \in Starts(newlines, buf_len)
              BY <7>1, <6>1, <2>3, <2>5, <1>2, LinesAtIs
            <7> QED  BY <7>2 DEF Starts
          <6> QED  BY <6>2, <6>3, <1>2
        <5>5. inv'.last_line_end = LineOf(inv.i)'
          <6>1. inv'.last_line_end = LineOf(inv'.i)
            BY <5>2, <1>3
          <6> QED  BY <6>1, <2>2
        <5>6. Told' = {l \in AllLines' \ MatchingLines' : l < inv'.start}
          BY <5>1, <5>2, <2>2, <2>4, <1>2 DEF Without
        <5>7. \A m : LinesOf(m)' = LinesOf(m)
          BY <1>2, GivenKept
        <5>8. newlines' = newlines /\ inv'.start <= inv'.last_line_end
          BY <5>2, <1>2 DEF given
        <5> QED  BY <5>2, <5>3, <5>4, <5>5, <5>6, <5>7, <5>8, <1>2, <1>3
                 DEF LinesInv, Without
      <4>3. CASE ~inv.in_inverted_match /\ inv.i \notin newlines
        <5>1. Told = Without(inv.i + 1) /\ LineOf(inv.i + 1) \in MatchingLines
              /\ ~inv'.in_inverted_match
          BY <4>3, <2>6, <2>7, <1>3
        <5>2. LineOf(inv.i)' \in MatchingLines'
          <6>1. LineOf(inv'.i) \in MatchingLines
            BY <5>1, <1>3
          <6> QED  BY <6>1, <2>2, <1>2
        <5>3. Told' = {l \in AllLines' \ MatchingLines' : l < inv'.i}
          BY <5>1, <2>2, <2>4, <1>2, <1>3 DEF Without
        <5> QED  BY <5>1, <5>2, <5>3 DEF LinesInv, Without
      <4> QED  BY <4>1, <4>2, <4>3
    <3> QED  BY <2>8, <3>1, <3>2, <1>3
  <2>9. CASE ~(inv.i + 1 < buf_len)
    <3>1. inv.i + 1 = buf_len /\ ~inv.in_inverted_match
      BY <2>9, <1>1, <1>2
    <3>2. Told = Without(buf_len)
      BY <3>1, <2>7
    <3>3. \A l \in AllLines : l < buf_len
      BY <2>5, <1>2 DEF Starts
    <3>4. Told' = AllLines \ MatchingLines
      BY <3>2, <3>3, <2>4 DEF Without
    <3> QED  BY <2>9, <3>4, <2>2, <1>2, <1>3
  <2> QED  BY <2>8, <2>9
<1>8. ToldInv'
  BY <1>2, <1>7 DEF ToldInv
<1> QED  BY <1>2, <1>5, <1>6, <1>8, StillInverting

\* What has been written stays, and the rest is cut off.
LEMMA InvertReturnKeeps == MatchInv /\ InvertReturn => MatchInv'
<1> SUFFICES ASSUME MatchInv, InvertReturn  PROVE MatchInv'
  OBVIOUS
<1> USE DEF MatchInv
<1> DEFINE c == inv.count
<1>1. /\ phase = "invert" /\ inv.i >= buf_len /\ phase' = "done"
      /\ matches' = SubSeq(matches, 1, c)
      /\ UNCHANGED <<given, buf_offset, line_offset, inv, found>>
  BY DEF InvertReturn
<1>2. /\ BufferInv' /\ FoundInv' /\ AsFound' = AsFound
      /\ MatchingLines' = MatchingLines /\ (Ordinary' <=> Ordinary)
  BY <1>1, FoundKept
<1>3. /\ matches \in Seq(Pairs) /\ c \in 0..Len(matches) /\ invert_match
      /\ Len(matches) \in Len(AsFound)..(Len(AsFound) + 1)
      /\ Len(AsFound) \in Nat /\ inv \in Variables
      /\ \A k \in DOMAIN matches : matches[k].start <= matches[k].end
  BY <1>1, AsFoundIs DEF StoredInv, InverseInv
<1>4. /\ matches' \in Seq(Pairs) /\ Len(matches') = c /\ DOMAIN matches' = 1..c
      /\ \A k \in 1..c : matches'[k] = matches[k] /\ k \in DOMAIN matches
  BY <1>1, <1>3
<1>5. invert_match' /\ buf_len' = buf_len /\ AllLines' = AllLines
      /\ \A s, e : LinesFrom(s, e)' = LinesFrom(s, e)
  BY <1>1, GivenKept, <1>3 DEF given
<1>6. StoredInv'
  BY <1>1, <1>3, <1>4, <1>5 DEF StoredInv, Uninverted
<1>7. ReportsTheLines'
  <2>1. ReportedLines' = Told
    BY <1>4, <1>5 DEF ReportedLines, Told
  <2>2. Ordinary => Told = AllLines \ MatchingLines
    <3>1. ~(inv.i < buf_len)
      BY <1>1, <1>3 DEF Variables, BufferInv
    <3> QED  BY <1>1, <3>1 DEF ToldInv
  <2> QED  BY <1>2, <1>5, <2>1, <2>2 DEF ReportsTheLines
<1>8. Len(matches') <= Len(AsFound') + 1 /\ inv'.count \in 0..Len(matches')
      /\ inv' \in Variables
  BY <1>1, <1>2, <1>3, <1>4
<1>9. buf_offset' \in 0..(buf_len' + 1) /\ line_offset' \in 0..(buf_len' + 1)
  BY <1>1, <1>5 DEF MatchTypeOK
<1> QED  BY <1>1, <1>2, <1>6, <1>7, <1>8, <1>9, Finished

\* Every step of the loops and of invert_matches keeps the invariant.
LEMMA MatchStep == MatchInv /\ MatchNext => MatchInv'
<1> SUFFICES ASSUME MatchInv, MatchNext  PROVE MatchInv'
  OBVIOUS
<1>1. CASE ExecBuffer  BY <1>1, ExecBufferKeeps
<1>2. CASE GetLine  BY <1>2, GetLineKeeps
<1>3. CASE ExecLine  BY <1>3, ExecLineKeeps
<1>4. CASE EndLine  BY <1>4, EndLineKeeps
<1>5. CASE EndSearch  BY <1>5, EndSearchKeeps
<1>6. CASE KeepMatches  BY <1>6, KeepMatchesKeeps
<1>7. CASE InvertNothing  BY <1>7, InvertNothingKeeps
<1>8. CASE StartInvert  BY <1>8, StartInvertKeeps
<1>9. CASE InvertAtMatch  BY <1>9, InvertAtMatchKeeps
<1>10. CASE InvertAtEnd  BY <1>10, InvertAtEndKeeps
<1>11. CASE InvertAtChar  BY <1>11, InvertAtCharKeeps
<1>12. CASE InvertReturn  BY <1>12, InvertReturnKeeps
<1> QED
  BY <1>1, <1>2, <1>3, <1>4, <1>5, <1>6, <1>7, <1>8, <1>9, <1>10, <1>11, <1>12
     DEF MatchNext

\* A step that leaves the variables of search_buf alone.
LEMMA MatchVarsKept == MatchInv /\ UNCHANGED match_vars => MatchInv'
<1> SUFFICES ASSUME MatchInv, UNCHANGED match_vars  PROVE MatchInv'
  OBVIOUS
<1>1. /\ buf_len' = buf_len /\ newlines' = newlines /\ multiline' = multiline
      /\ invert_match' = invert_match /\ any_char' = any_char
      /\ buf_offset' = buf_offset /\ line_offset' = line_offset
      /\ matches' = matches /\ phase' = phase /\ inv' = inv /\ found' = found
  BY DEF match_vars, given
<1>2. /\ BufferInv' /\ FoundInv' /\ AsFound' = AsFound
      /\ MatchingLines' = MatchingLines /\ (Ordinary' <=> Ordinary)
  BY FoundKept DEF MatchInv, match_vars
<1>3. /\ AllLines' = AllLines /\ (\A p : LineOf(p)' = LineOf(p))
      /\ (\A s, e : LinesFrom(s, e)' = LinesFrom(s, e))
      /\ (\A m : LinesOf(m)' = LinesOf(m))
      /\ (\A p : LineEnd(p)' = LineEnd(p))
  BY GivenKept DEF match_vars
<1>4. StoredInv' /\ ReportsTheLines'
  BY <1>1, StoredKept, ReportKept DEF MatchInv, match_vars, Uninverted
<1>5. LoopInv'
  <2>1. line_len' = line_len /\ LineEnd(buf_offset)' = LineEnd(buf_offset)
    BY <1>1 DEF line_len, LineEnd
  <2> QED  BY <1>1, <2>1 DEF MatchInv, LoopInv
<1>6. InverseInv'
  BY <1>1, <1>2 DEF MatchInv, InverseInv
<1>7. MatchTypeOK'
  BY <1>1 DEF MatchInv, MatchTypeOK
<1>8. ToldInv'
  <2>1. Told' = Told
    BY <1>1, <1>3 DEF Told
  <2>2. ReadingInv' <=> ReadingInv
    BY <1>1, <1>2 DEF ReadingInv, Kept
  <2>3. LinesInv' <=> LinesInv
    <3>1. LineOf(inv.i)' = LineOf(inv.i)
      BY <1>1 DEF LineOf
    <3>2. Without(inv.start)' = Without(inv.start) /\ Without(inv.i)' = Without(inv.i)
      BY <1>1, <1>2, <1>3 DEF Without
    <3>3. (\A k \in 1..inv.read : \A l \in LinesOf(AsFound[k]) : l < inv.start)'
           <=> \A k \in 1..inv.read : \A l \in LinesOf(AsFound[k]) : l < inv.start
      BY <1>1, <1>2, <1>3
    <3> QED  BY <1>1, <1>2, <2>1, <3>1, <3>2, <3>3 DEF LinesInv
  <2> QED  BY <1>1, <1>2, <1>3, <2>1, <2>2, <2>3 DEF MatchInv, ToldInv
<1> QED
  BY <1>2, <1>4, <1>5, <1>6, <1>7, <1>8 DEF MatchInv

\* print_file_matches reads the matches only.
LEMMA StartPrintKeeps == MatchInv /\ StartPrint => MatchInv'
<1> SUFFICES ASSUME MatchInv, StartPrint  PROVE MatchInv'
  OBVIOUS
<1>1. /\ phase = "done" /\ phase' = "done" /\ buf_offset' = 0 /\ line_offset' = 0
      /\ inv' = NotInverting /\ UNCHANGED <<given, matches, found>>
  BY DEF StartPrint
<1>2. BufferInv' /\ FoundInv' /\ AsFound' = AsFound
  BY <1>1, FoundKept DEF MatchInv
<1>3. StoredInv' /\ ReportsTheLines'
  BY <1>1, StoredKept, ReportKept DEF MatchInv, Uninverted, given
<1>4. buf_len \in Nat /\ buf_len' = buf_len
  BY <1>1 DEF MatchInv, BufferInv, given
<1>5. 0 \in 0..(buf_len + 1) /\ inv'.count = 0 /\ inv' \in Variables
  BY <1>1, <1>4, NotInvertingIs DEF NotInverting
<1>6. matches \in Seq(Pairs) /\ Len(matches) \in Nat
  BY DEF MatchInv, StoredInv
<1>7. Len(matches) <= Len(AsFound) + 1
  <2>1. Len(AsFound) = IF any_char THEN 1 ELSE Len(found)
    BY DEF AsFound
  <2> QED  BY <2>1 DEF MatchInv, MatchTypeOK
<1> QED  BY <1>1, <1>2, <1>3, <1>4, <1>5, <1>6, <1>7, Finished

\* Every step keeps the invariant of the loops.
LEMMA PrintStep == MatchInv /\ [PrintNext]_allvars => MatchInv'
<1> SUFFICES ASSUME MatchInv, [PrintNext]_allvars  PROVE MatchInv'
  OBVIOUS
<1>1. CASE SearchStep
  BY <1>1, MatchStep DEF SearchStep
<1>2. CASE StartPrint
  BY <1>2, StartPrintKeeps
<1>3. CASE UNCHANGED match_vars
  BY <1>3, MatchVarsKept
<1>4. PrintChar \/ EndPrint \/ UNCHANGED allvars => UNCHANGED match_vars
  <2>1. PrintChar => UNCHANGED match_vars
    BY DEF PrintChar
  <2>2. EndPrint => UNCHANGED match_vars
    BY DEF EndPrint
  <2>3. UNCHANGED allvars => UNCHANGED match_vars
    BY DEF allvars
  <2> QED  BY <2>1, <2>2, <2>3
<1> QED  BY <1>1, <1>2, <1>3, <1>4 DEF PrintNext

\* At every step of search_buf and of invert_matches the matches so far are those
\* found, or the lines told so far to have none, and the writes stay behind the
\* place that is read.
THEOREM MatchesInvariant == PrintSpec => []MatchInv
<1>1. PrintInit => MatchInv
  BY MatchInitInv DEF PrintInit
<1> QED  BY <1>1, PrintStep, PTL DEF PrintSpec

\* The matches that search_buf leaves are on the lines of those found, or, inverted,
\* on all the others and no more.
THEOREM LinesReported == PrintSpec => []ReportsTheLines
<1>1. MatchInv => ReportsTheLines
  BY DEF MatchInv
<1> QED  BY <1>1, MatchesInvariant, PTL

-----------------------------------------------------------------------------
(* The invariant of print_file_matches                                      *)

\* Where the lines of a buffer end: at its newlines, the last at its end.
EndsOf(nl, len) == nl \cup {len}

\* The number of the line of a place.
NumAt(E, p) == 1 + Cardinality({n \in E : n < p})

\* Line n goes from s up to e, where it ends.
IsLine(E, n, s, e) ==
  s \in Nat /\ e \in E /\ s <= e /\ StartsLine(E, s) /\ NoneFrom(E, s, e) /\ NumAt(E, s) = n

Separate(M, len) ==
  /\ \A k \in 1..(Len(M) - 1) : M[k].end < M[k + 1].start
  /\ \A k \in DOMAIN M : M[k].end <= len

\* A match touches a line.
Reaches(E, m, n) == NumAt(E, m.start) <= n /\ n <= NumAt(E, m.end)

\* The lines up to L that the matches touch that start before p.
TouchedUpTo(E, M, p, L) ==
  {n \in 1..L : \E k \in DOMAIN M : M[k].start < p /\ Reaches(E, M[k], n)}

\* The lines before L that are to be printed for the lines touched.
Wanted(T, L, o) ==
  {n \in 1..(L - 1) : \E t \in T : t - o.before <= n /\ n <= t + o.after}

\* A match has started before p and not ended.
Across(M, p) == \E k \in DOMAIN M : M[k].start < p /\ p <= M[k].end

\* The matches up to k are those that end before p.
EndBefore(M, k, p) == \A j \in DOMAIN M : j <= k <=> M[j].end < p

\* A line of the output is marked as what it is, and has its text.
Rightly(E, len, M, o, l) ==
  /\ l.number \in Nat
  /\ l.sep = IF \E k \in DOMAIN M : Reaches(E, M[k], l.number) THEN ":" ELSE "-"
  /\ l.sep = "-" =>
       \A q : q \in Chars(l.text) <=>
                q \in 0..(len - 1) /\ NumAt(E, q) = l.number /\ q \notin E
  /\ l.sep = ":" /\ o.width = 0 =>
       \A q : q \in Chars(l.text) <=>
                /\ q \in 0..(len - 1) /\ NumAt(E, q) = l.number
                /\ o.only_matching =>
                     \E k \in DOMAIN M : M[k].start <= q /\ q < M[k].end

NumberedIn(x) == {k \in DOMAIN x : x[k].sep # "--"}

\* The numbers of the lines of a piece of output.
NumbersOf(x) == {x[k].number : k \in NumberedIn(x)}

Rising(x) == \A j, k \in NumberedIn(x) : j < k => x[j].number < x[k].number

\* Separators stand between lines that are not neighbours, and nowhere else.
Grouped(x) ==
  /\ \A k \in DOMAIN x :
       x[k].sep = "--" =>
         /\ k > 1 /\ x[k - 1].sep # "--"
         /\ k < Len(x) => x[k + 1].sep # "--" /\ x[k - 1].number + 1 < x[k + 1].number
  /\ \A k \in 2..Len(x) :
       x[k].sep # "--" /\ x[k - 1].sep # "--" => x[k].number = x[k - 1].number + 1

\* Line n may be the next.
Fits(x, n) ==
  \/ x = <<>>
  \/ x[Len(x)].sep # "--" /\ x[Len(x)].number + 1 = n
  \/ x[Len(x)].sep = "--" /\ Len(x) > 1 /\ x[Len(x) - 1].number + 1 < n

OutLine == [sep : {":", "-", "--"}, number : Nat, text : Seq(Nat)]

\* The place in the ring that was filled d lines ago.
Slot(b, last, d) == IF d <= last THEN last - d ELSE last + b - d

RingInv(E, o, ctx) ==
  o.before > 0 =>
    \A d \in 1..o.before :
      LET slot == ctx.prev_lines[Slot(o.before, ctx.last_prev_line, d)] IN
        IF d < ctx.line
        THEN \E s, e \in Nat : IsLine(E, ctx.line - d, s, e) /\ slot = <<s, e - 1>>
        ELSE slot = NoLine

Contexts ==
  [line : Nat, prev_lines : UNION {[0..(b - 1) -> Int \X Int] : b \in Nat},
   last_prev_line : Nat, prev_line_offset : Nat, lines_since_last_match : Nat,
   last_printed_match : Nat, in_a_match : BOOLEAN, printing_a_match : BOOLEAN]

\* What holds of print_context, however the matches lie.
ContextInv(E, len, M, o, p, cur, ctx) ==
  /\ p \in 0..(len + 1) /\ cur \in 0..Len(M)
  /\ ctx \in Contexts
  /\ ctx.line = NumAt(E, p) /\ ctx.prev_line_offset = LineAt(E, p)
  /\ ctx.last_printed_match \in 0..Len(M)
  /\ DOMAIN ctx.prev_lines = 0..(o.before - 1)
  /\ \A k \in 0..(o.before - 1) :
       \/ ctx.prev_lines[k] = NoLine
       \/ \E s, e \in 0..len : s <= e /\ ctx.prev_lines[k] = <<s, e - 1>>
  /\ o.before > 0 => ctx.last_prev_line < o.before
  /\ RingInv(E, o, ctx)

\* The lines since the last one touched; none has been, at first.
SinceInv(T, L, cur, since) ==
  \/ T = {} /\ cur = 0 /\ since = INT_MAX
  \/ since \in 0..(L - 1) /\ L - since \in T /\ \A t \in T : t <= L - since

\* Where the printing is among the matches, when they lie apart.
MatchesInv(E, M, o, p, cur, ctx) ==
  /\ EndBefore(M, cur, p)
  /\ ctx.in_a_match <=> Across(M, p)
  /\ SinceInv(TouchedUpTo(E, M, p, ctx.line), ctx.line, cur, ctx.lines_since_last_match)
  /\ o.vimgrep \/ o.width = 0 => EndBefore(M, ctx.last_printed_match, LineAt(E, p))
  /\ ~o.vimgrep /\ o.width = 0 =>
       (ctx.printing_a_match <=> Across(M, LineAt(E, p)))

\* What has been printed: the lines before this one that the matches so far call
\* for, rightly.
LinesOut(E, len, M, o, L, T, x) ==
  /\ Rising(x) /\ NumbersOf(x) = Wanted(T, L, o)
  /\ \A k \in NumberedIn(x) : Rightly(E, len, M, o, x[k])

\* In groups: what is to come fits.
GroupsOut(L, T, since, x) ==
  /\ Grouped(x)
  /\ T = {} => x = <<>>
  /\ IF since = 0 THEN Fits(x, L) ELSE x # <<>> => x[Len(x)].sep # "--"

\* A match reported.
Reported(E, m, l) ==
  /\ l.number = NumAt(E, m.end)
  /\ l.text = <<Max({0, m.start - LineAt(E, m.end) + 1})>>

\* The first n matches have been reported, in order.
HitsOut(E, M, n, x) ==
  \E g \in [1..n -> DOMAIN x] :
    /\ \A a, b \in 1..n : a < b => g[a] < g[b]
    /\ \A k \in DOMAIN x : x[k].sep = ":" <=> \E a \in 1..n : g[a] = k
    /\ \A a \in 1..n : Reported(E, M[a], x[g[a]])

OutputInv(E, len, M, o, p, ctx, x) ==
  LET T == TouchedUpTo(E, M, p, ctx.line) IN
    /\ ~o.vimgrep => LinesOut(E, len, M, o, ctx.line, T, x)
    /\ ~o.vimgrep /\ o.before + o.after > 0 =>
         GroupsOut(ctx.line, T, ctx.lines_since_last_match, x)
    /\ o.vimgrep => HitsOut(E, M, ctx.last_printed_match, x)

Ends == EndsOf(newlines, buf_len)

\* When the loop has ended there are no more lines to print.
Ended(M, len, o, p, cur, ctx) ==
  p = len + 1 \/ (cur = Len(M) /\ ctx.lines_since_last_match > o.after)

\* However the matches lie.
TypesInv ==
  /\ printing \in {"no", "lines", "done"}
  /\ opts \in Formats /\ output \in Seq(OutLine)
  /\ printing = "no" =>
       i = 0 /\ cur_match = 0 /\ print_context = NewContext(0) /\ output = <<>>
  /\ printing # "no" =>
       /\ phase = "done" /\ matches # <<>>
       /\ ContextInv(Ends, buf_len, matches, opts, i, cur_match, print_context)

\* When they lie apart.
ApartInv ==
  printing # "no" /\ Separate(matches, buf_len) =>
    /\ MatchesInv(Ends, matches, opts, i, cur_match, print_context)
    /\ OutputInv(Ends, buf_len, matches, opts, i, print_context, output)

EndedInv ==
  printing = "done" => Ended(matches, buf_len, opts, i, cur_match, print_context)

PrintInv == TypesInv /\ ApartInv /\ EndedInv

-----------------------------------------------------------------------------
(* The numbers of lines                                                     *)

\* A line has a number, not above its places; the next place has the same one,
\* or after an end the next.
LEMMA NumAtIs ==
  ASSUME NEW E, E \subseteq Nat, NEW p \in Nat
  PROVE  /\ IsFiniteSet({n \in E : n < p})
         /\ NumAt(E, p) \in 1..(p + 1)
         /\ NumAt(E, p + 1) = IF p \in E THEN NumAt(E, p) + 1 ELSE NumAt(E, p)
<1> DEFINE B == {n \in E : n < p}
<1>1. IsFiniteSet(B) /\ Cardinality(B) \in Nat /\ Cardinality(B) <= p
  <2>1. B \in SUBSET (0..(p - 1)) /\ p - 1 \in Int /\ 0 \in Int
    <3>1. \A n \in B : n \in 0..(p - 1)
      <4> TAKE n \in B
      <4>1. n \in Nat /\ n < p
        OBVIOUS
      <4> QED  BY <4>1
    <3> HIDE DEF B
    <3> QED  BY <3>1
  <2> HIDE DEF B
  <2>2. IsFiniteSet(0..(p - 1)) /\ Cardinality(0..(p - 1)) <= p
        /\ Cardinality(0..(p - 1)) \in Nat
    BY <2>1, FS_Interval
  <2>3. IsFiniteSet(B) /\ Cardinality(B) <= Cardinality(0..(p - 1))
    BY <2>1, <2>2, FS_Subset
  <2>4. Cardinality(B) \in Nat
    BY <2>3, FS_CardinalityType
  <2> QED  BY <2>2, <2>3, <2>4
<1>2. {n \in E : n < p + 1} = IF p \in E THEN B \cup {p} ELSE B
  <2>1. \A n \in E : n < p + 1 <=> n < p \/ n = p
    OBVIOUS
  <2> QED  BY <2>1
<1>3. p \notin B
  OBVIOUS
<1>4. NumAt(E, p) = 1 + Cardinality(B)
  BY DEF NumAt
<1>5. NumAt(E, p + 1) = 1 + Cardinality(IF p \in E THEN B \cup {p} ELSE B)
  BY <1>2 DEF NumAt
<1> HIDE DEF B
<1>6. Cardinality(B \cup {p}) = Cardinality(B) + 1
  BY <1>1, <1>3, FS_AddElement
<1> QED  BY <1>1, <1>4, <1>5, <1>6 DEF B

\* Numbers do not go back, and are the same just where no line ends between.
LEMMA NumAtMonotone ==
  ASSUME NEW E, E \subseteq Nat, NEW p \in Nat, NEW q \in Nat, p <= q
  PROVE  /\ NumAt(E, p) <= NumAt(E, q)
         /\ NumAt(E, p) = NumAt(E, q) <=> NoneFrom(E, p, q)
<1> DEFINE B == {n \in E : n < p}
           C == {n \in E : n < q}
<1>1. IsFiniteSet(B) /\ IsFiniteSet(C) /\ B \in SUBSET C
  <2>1. IsFiniteSet(B) /\ IsFiniteSet(C)
    BY NumAtIs
  <2>2. \A n \in E : n < p => n < q
    OBVIOUS
  <2> QED  BY <2>1, <2>2
<1>2. B = C <=> NoneFrom(E, p, q)
  <2>1. \A n \in E : n < q => (n < p <=> ~(p <= n))
    OBVIOUS
  <2>2. \A n \in E : n < p => n < q
    OBVIOUS
  <2>3. B = C <=> \A n \in E : n < p <=> n < q
    OBVIOUS
  <2> QED  BY <2>1, <2>2, <2>3 DEF NoneFrom
<1>3. NumAt(E, p) = 1 + Cardinality(B) /\ NumAt(E, q) = 1 + Cardinality(C)
  BY DEF NumAt
<1> HIDE DEF B, C
<1>4. /\ Cardinality(B) \in Nat /\ Cardinality(C) \in Nat
      /\ Cardinality(B) <= Cardinality(C)
      /\ Cardinality(B) = Cardinality(C) => B = C
  BY <1>1, FS_CardinalityType, FS_Subset
<1> QED  BY <1>2, <1>3, <1>4

\* A place has the number of the line that it is in.
LEMMA NumAtStart ==
  ASSUME NEW E, E \subseteq Nat, NEW p \in Nat
  PROVE  NumAt(E, LineAt(E, p)) = NumAt(E, p)
<1>1. LineAt(E, p) \in 0..p /\ NoneFrom(E, LineAt(E, p), p)
  BY LineAtIs
<1>2. LineAt(E, p) \in Nat /\ LineAt(E, p) <= p
  BY <1>1
<1> QED  BY <1>1, <1>2, NumAtMonotone

\* The places of a line are those with its number.
LEMMA PlacesOfLine ==
  ASSUME NEW E, E \subseteq Nat, NEW n, NEW s, NEW e, IsLine(E, n, s, e),
         NEW q \in Nat
  PROVE  NumAt(E, q) = n <=> s <= q /\ q <= e
<1>1. s \in Nat /\ e \in E /\ e \in Nat /\ s <= e /\ StartsLine(E, s) /\ NoneFrom(E, s, e)
      /\ NumAt(E, s) = n
  BY DEF IsLine
<1>2. CASE s <= q
  <2>1. NumAt(E, s) = NumAt(E, q) <=> NoneFrom(E, s, q)
    BY <1>1, <1>2, NumAtMonotone
  <2>2. NoneFrom(E, s, q) <=> q <= e
    BY <1>1, <1>2 DEF NoneFrom
  <2> QED  BY <1>1, <1>2, <2>1, <2>2
<1>3. CASE ~(s <= q)
  <2>1. q <= s
    BY <1>1, <1>3
  <2>2. NumAt(E, q) = NumAt(E, s) <=> NoneFrom(E, q, s)
    BY <1>1, <2>1, NumAtMonotone
  <2>3. ~NoneFrom(E, q, s)
    BY <1>1, <1>3 DEF StartsLine, NoneFrom
  <2> QED  BY <1>1, <1>3, <2>2, <2>3
<1> QED  BY <1>2, <1>3

\* The line that ends at e starts where its places do.
LEMMA LineEndingAt ==
  ASSUME NEW E, E \subseteq Nat, NEW e \in E
  PROVE  IsLine(E, NumAt(E, e), LineAt(E, e), e)
<1>1. e \in Nat
  OBVIOUS
<1>2. LineAt(E, e) \in 0..e /\ StartsLine(E, LineAt(E, e)) /\ NoneFrom(E, LineAt(E, e), e)
  BY <1>1, LineAtIs
<1>3. NumAt(E, LineAt(E, e)) = NumAt(E, e)
  BY <1>1, NumAtStart
<1> QED  BY <1>1, <1>2, <1>3 DEF IsLine

-----------------------------------------------------------------------------
(* The ring of lines                                                        *)

\* The remainder of a number less than twice another.
LEMMA Remainder ==
  ASSUME NEW b \in Nat, b > 0, NEW x \in 0..(2 * b - 1)
  PROVE  x % b = IF x < b THEN x ELSE x - b
<1> DEFINE q == x \div b
           r == x % b
<1>1. q \in Int /\ r \in 0..(b - 1) /\ x = b * q + r
  OBVIOUS
<1> HIDE DEF q, r
<1>2. x \in Nat /\ x < 2 * b
  OBVIOUS
<1>3. q >= 0
  <2> SUFFICES ASSUME q <= -1  PROVE FALSE
    BY <1>1
  <2>1. b * q <= b * (-1)
    BY <1>1
  <2> QED  BY <2>1, <1>1, <1>2
<1>4. q <= 1
  <2> SUFFICES ASSUME q >= 2  PROVE FALSE
    BY <1>1
  <2>1. b * q >= b * 2
    BY <1>1
  <2> QED  BY <2>1, <1>1, <1>2
<1>5. q = 0 \/ q = 1
  BY <1>1, <1>3, <1>4
<1>6. CASE q = 0
  BY <1>1, <1>6 DEF r
<1>7. CASE q = 1
  BY <1>1, <1>2, <1>7 DEF r
<1> QED  BY <1>5, <1>6, <1>7

\* The place in the ring of the line that lies j places on is the one filled b - j
\* lines ago.
LEMMA SlotIs ==
  ASSUME NEW b \in Nat, b > 0, NEW last \in 0..(b - 1), NEW j \in 0..(b - 1)
  PROVE  /\ (last + j) % b = Slot(b, last, b - j)
         /\ Slot(b, last, b - j) \in 0..(b - 1)
<1>1. last + j \in 0..(2 * b - 1)
  OBVIOUS
<1>2. (last + j) % b = IF last + j < b THEN last + j ELSE last + j - b
  BY <1>1, Remainder
<1> QED  BY <1>2 DEF Slot

\* Filling a place moves the others one line back.
LEMMA SlotNext ==
  ASSUME NEW b \in Nat, b > 0, NEW last \in 0..(b - 1)
  PROVE  /\ (last + 1) % b = (IF last + 1 < b THEN last + 1 ELSE 0)
         /\ (last + 1) % b \in 0..(b - 1)
         /\ Slot(b, (last + 1) % b, 1) = last
         /\ \A d \in 1..(b - 1) :
              /\ Slot(b, (last + 1) % b, d + 1) = Slot(b, last, d)
              /\ Slot(b, last, d) # last
              /\ Slot(b, last, d) \in 0..(b - 1)
<1>1. last + 1 \in 0..(2 * b - 1)
  OBVIOUS
<1>2. (last + 1) % b = IF last + 1 < b THEN last + 1 ELSE last + 1 - b
  BY <1>1, Remainder
<1> DEFINE r == (last + 1) % b
<1>3. r = (IF last + 1 < b THEN last + 1 ELSE 0) /\ r \in 0..(b - 1)
  BY <1>2
<1> HIDE DEF r
<1>4. Slot(b, r, 1) = last
  BY <1>3 DEF Slot
<1>5. \A d \in 1..(b - 1) :
        /\ Slot(b, r, d + 1) = Slot(b, last, d)
        /\ Slot(b, last, d) # last
        /\ Slot(b, last, d) \in 0..(b - 1)
  BY <1>3 DEF Slot
<1> QED  BY <1>3, <1>4, <1>5 DEF r

-----------------------------------------------------------------------------
(* Pieces of output                                                         *)

\* The places of two sequences joined.
LEMMA JoinIs ==
  ASSUME NEW S, NEW x \in Seq(S), NEW y \in Seq(S)
  PROVE  /\ x \o y \in Seq(S) /\ Len(x) \in Nat /\ Len(y) \in Nat
         /\ DOMAIN x = 1..Len(x) /\ DOMAIN y = 1..Len(y)
         /\ Len(x \o y) = Len(x) + Len(y) /\ DOMAIN (x \o y) = 1..(Len(x) + Len(y))
         /\ \A k \in 1..Len(x) : (x \o y)[k] = x[k]
         /\ \A k \in 1..Len(y) : (x \o y)[Len(x) + k] = y[k]
         /\ \A k \in DOMAIN (x \o y) :
              \/ k \in 1..Len(x)
              \/ k > Len(x) /\ k - Len(x) \in 1..Len(y) /\ (x \o y)[k] = y[k - Len(x)]
  OBVIOUS

\* Rising numbers go on rising; what held of the lines of the pieces holds of
\* those of the whole.
LEMMA LinesJoin ==
  ASSUME NEW x \in Seq(OutLine), NEW y \in Seq(OutLine)
  PROVE  /\ NumbersOf(x \o y) = NumbersOf(x) \cup NumbersOf(y)
         /\ \A k \in NumberedIn(x \o y) :
              \/ \E j \in NumberedIn(x) : (x \o y)[k] = x[j]
              \/ \E j \in NumberedIn(y) : (x \o y)[k] = y[j]
         /\ /\ Rising(x) /\ Rising(y)
            /\ \A a \in NumbersOf(x), b \in NumbersOf(y) : a < b
            => Rising(x \o y)
<1> DEFINE z == x \o y
           n == Len(x)
<1>1. /\ z \in Seq(OutLine) /\ n \in Nat /\ Len(y) \in Nat
      /\ DOMAIN x = 1..n /\ DOMAIN y = 1..Len(y)
      /\ Len(z) = n + Len(y) /\ DOMAIN z = 1..(n + Len(y))
      /\ \A k \in 1..n : z[k] = x[k]
      /\ \A k \in 1..Len(y) : z[n + k] = y[k]
      /\ \A k \in DOMAIN z : \/ k \in 1..n
                             \/ k > n /\ k - n \in 1..Len(y) /\ z[k] = y[k - n]
  BY JoinIs
<1> HIDE DEF z, n
<1>2. \A k \in NumberedIn(z) :
        \/ k \in NumberedIn(x) /\ z[k] = x[k] /\ k <= n
        \/ k > n /\ k - n \in NumberedIn(y) /\ z[k] = y[k - n]
  BY <1>1 DEF NumberedIn
<1>3. \A k \in NumberedIn(x) : k \in NumberedIn(z) /\ z[k] = x[k]
  BY <1>1 DEF NumberedIn
<1>4. \A k \in NumberedIn(y) : n + k \in NumberedIn(z) /\ z[n + k] = y[k]
  BY <1>1 DEF NumberedIn
<1>5. \A k \in NumberedIn(z) :
        \/ \E j \in NumberedIn(x) : z[k] = x[j]
        \/ \E j \in NumberedIn(y) : z[k] = y[j]
  BY <1>2
<1>6. NumbersOf(z) = NumbersOf(x) \cup NumbersOf(y)
  BY <1>3, <1>4, <1>5 DEF NumbersOf
<1>7. ASSUME Rising(x), Rising(y), \A a \in NumbersOf(x), b \in NumbersOf(y) : a < b
      PROVE  Rising(z)
  <2> SUFFICES ASSUME NEW j \in NumberedIn(z), NEW k \in NumberedIn(z), j < k
               PROVE  z[j].number < z[k].number
    BY DEF Rising
  <2>0. j \in Nat /\ k \in Nat
    BY <1>1 DEF NumberedIn
  <2>1. CASE j \in NumberedIn(x) /\ z[j] = x[j] /\ k \in NumberedIn(x) /\ z[k] = x[k]
    BY <2>1, <1>7 DEF Rising
  <2>2. CASE /\ j > n /\ j - n \in NumberedIn(y) /\ z[j] = y[j - n]
             /\ k > n /\ k - n \in NumberedIn(y) /\ z[k] = y[k - n]
    <3>1. j - n < k - n
      BY <2>0, <1>1
    <3> QED  BY <2>2, <3>1, <1>7 DEF Rising
  <2>3. CASE /\ j \in NumberedIn(x) /\ z[j] = x[j]
             /\ k - n \in NumberedIn(y) /\ z[k] = y[k - n]
    BY <2>3, <1>7 DEF NumbersOf
  <2>4. ~(j > n /\ k <= n)
    BY <2>0, <1>1
  <2> QED  BY <1>2, <2>1, <2>2, <2>3, <2>4
<1> QED  BY <1>5, <1>6, <1>7 DEF z

\* Lines with the next numbers may follow.
LEMMA GroupsJoin ==
  ASSUME NEW x \in Seq(OutLine), NEW y \in Seq(OutLine), NEW n \in Int,
         Grouped(x), Fits(x, n),
         \A k \in DOMAIN y : y[k].sep # "--" /\ y[k].number = n + k - 1
  PROVE  Grouped(x \o y) /\ Fits(x \o y, n + Len(y))
<1> DEFINE z == x \o y
           l == Len(x)
<1>1. /\ z \in Seq(OutLine) /\ l \in Nat /\ Len(y) \in Nat
      /\ DOMAIN x = 1..l /\ DOMAIN y = 1..Len(y)
      /\ Len(z) = l + Len(y) /\ DOMAIN z = 1..(l + Len(y))
      /\ \A k \in 1..l : z[k] = x[k]
      /\ \A k \in 1..Len(y) : z[l + k] = y[k]
      /\ \A k \in DOMAIN z : \/ k \in 1..l
                             \/ k > l /\ k - l \in 1..Len(y) /\ z[k] = y[k - l]
  BY JoinIs
<1>2. CASE Len(y) = 0
  <2>1. y = <<>>
    BY <1>2, EmptySeq
  <2>2. z = x
    BY <2>1
  <2>3. n + Len(y) = n
    BY <1>2
  <2> QED  BY <2>2, <2>3
<1>3. CASE Len(y) > 0
  <2> HIDE DEF z, l
  <2>1. x = <<>> <=> l = 0
    BY EmptySeq DEF l
  <2>2. ASSUME NEW k \in DOMAIN z, z[k].sep = "--"
        PROVE  /\ k > 1 /\ z[k - 1].sep # "--"
               /\ k < Len(z) => /\ z[k + 1].sep # "--"
                                /\ z[k - 1].number + 1 < z[k + 1].number
    <3>1. k \in 1..l /\ z[k] = x[k]
      BY <1>1, <2>2
    <3>2. /\ k > 1 /\ x[k - 1].sep # "--"
          /\ k < l => x[k + 1].sep # "--" /\ x[k - 1].number + 1 < x[k + 1].number
      BY <3>1, <2>2, <1>1 DEF Grouped, l
    <3>3. k - 1 \in 1..l /\ z[k - 1] = x[k - 1]
      BY <3>1, <3>2, <1>1
    <3>4. CASE k < l
      <4>1. k + 1 \in 1..l /\ z[k + 1] = x[k + 1]
        BY <3>1, <3>4, <1>1
      <4> QED  BY <3>2, <3>3, <3>4, <4>1
    <3>5. CASE k = l
      <4>1. z[k + 1] = y[1] /\ 1 \in DOMAIN y
        BY <3>5, <1>1, <1>3
      <4>2. y[1].sep # "--" /\ y[1].number = n
        BY <4>1
      <4>3. x[l].sep = "--" /\ x # <<>>
        BY <2>1, <2>2, <3>1, <3>5, <1>1
      <4>4. x[l - 1].number + 1 < n
        BY <4>3 DEF Fits, l
      <4> QED  BY <3>2, <3>3, <3>5, <4>1, <4>2, <4>4
    <3> QED  BY <3>1, <3>4, <3>5, <1>1
  <2>3. ASSUME NEW k \in 2..Len(z), z[k].sep # "--", z[k - 1].sep # "--"
        PROVE  z[k].number = z[k - 1].number + 1
    <3>1. CASE k <= l
      <4>1. z[k] = x[k] /\ z[k - 1] = x[k - 1] /\ k \in 2..l
        BY <3>1, <1>1
      <4> QED  BY <4>1, <2>3 DEF Grouped, l
    <3>2. CASE k = l + 1
      <4>1. z[k] = y[1] /\ 1 \in DOMAIN y /\ z[k - 1] = x[l] /\ x # <<>> /\ l \in 1..l
        BY <3>2, <1>1, <1>3, <2>1
      <4>2. y[1].number = n
        BY <4>1
      <4>3. x[l].number + 1 = n
        BY <4>1, <2>3 DEF Fits, l
      <4> QED  BY <4>1, <4>2, <4>3
    <3>3. CASE k > l + 1
      <4>1. k - l \in 1..Len(y) /\ z[k] = y[k - l]
            /\ k - 1 - l \in 1..Len(y) /\ z[k - 1] = y[k - 1 - l]
        <5>1. k \in DOMAIN z /\ k - 1 \in DOMAIN z /\ ~(k \in 1..l) /\ ~(k - 1 \in 1..l)
              /\ k \in Int /\ k - l \in Int
          BY <3>3, <1>1
        <5>2. k - l \in 1..Len(y) /\ z[k] = y[k - l]
          BY <5>1, <1>1
        <5>3. (k - 1) - l \in 1..Len(y) /\ z[k - 1] = y[(k - 1) - l]
          BY <5>1, <1>1
        <5> QED  BY <5>2, <5>3
      <4>2. y[k - l].number = n + (k - l) - 1 /\ y[k - 1 - l].number = n + (k - 1 - l) - 1
        BY <4>1, <1>1
      <4> QED  BY <4>1, <4>2, <1>1
    <3> QED  BY <3>1, <3>2, <3>3, <1>1
  <2>4. Fits(z, n + Len(y))
    <3>1. Len(y) \in DOMAIN y /\ z[Len(z)] = y[Len(y)]
      BY <1>1, <1>3
    <3>2. y[Len(y)].sep # "--" /\ y[Len(y)].number = n + Len(y) - 1
      BY <3>1
    <3>3. y[Len(y)].number + 1 = n + Len(y)
      BY <3>2, <1>1
    <3> QED  BY <3>1, <3>2, <3>3 DEF Fits
  <2> QED  BY <2>2, <2>3, <2>4 DEF Grouped, z
<1> QED  BY <1>1, <1>2, <1>3

\* A separator may follow a line, and then a line farther on.
LEMMA GroupsSeparator ==
  ASSUME NEW x \in Seq(OutLine), NEW n \in Int, Grouped(x), x # <<>>,
         x[Len(x)].sep # "--", x[Len(x)].number + 1 < n
  PROVE  Grouped(x \o <<Separator>>) /\ Fits(x \o <<Separator>>, n)
<1> DEFINE y == <<Separator>>
           z == x \o y
           l == Len(x)
<1>0. Separator \in OutLine /\ Separator.sep = "--" /\ y \in Seq(OutLine) /\ Len(y) = 1
  BY DEF Separator, Line, OutLine
<1> HIDE DEF y
<1>1. /\ z \in Seq(OutLine) /\ l \in Nat /\ DOMAIN x = 1..l
      /\ Len(z) = l + 1 /\ DOMAIN z = 1..(l + 1)
      /\ \A k \in 1..l : z[k] = x[k]
      /\ z[l + 1] = y[1]
  <2>1. 1 \in 1..Len(y)
    BY <1>0
  <2>2. /\ z \in Seq(OutLine) /\ l \in Nat /\ DOMAIN x = 1..l
        /\ Len(z) = l + Len(y) /\ DOMAIN z = 1..(l + Len(y))
        /\ \A k \in 1..l : z[k] = x[k]
        /\ \A k \in 1..Len(y) : z[l + k] = y[k]
    <3>1. y \in Seq(OutLine)
      BY <1>0
    <3> QED  BY <3>1, JoinIs
  <2> HIDE DEF z, l
  <2> QED  BY <2>1, <2>2, <1>0
<1>2. l > 0 /\ y[1] = Separator
  BY <1>1, EmptySeq DEF y
<1> HIDE DEF z, l
<1>3. ASSUME NEW k \in DOMAIN z, z[k].sep = "--"
      PROVE  /\ k > 1 /\ z[k - 1].sep # "--"
             /\ k < Len(z) => z[k + 1].sep # "--" /\ z[k - 1].number + 1 < z[k + 1].number
  <2>1. CASE k = l + 1
    BY <2>1, <1>1, <1>2 DEF l
  <2>2. CASE k # l + 1
    <3>1. k \in 1..l /\ z[k] = x[k] /\ k # l
      BY <2>2, <1>1, <1>3 DEF l
    <3>2. /\ k > 1 /\ x[k - 1].sep # "--"
          /\ k < l => x[k + 1].sep # "--" /\ x[k - 1].number + 1 < x[k + 1].number
      BY <3>1, <1>1, <1>3 DEF Grouped, l
    <3>3. k - 1 \in 1..l /\ k + 1 \in 1..l /\ k < l
      BY <3>1, <3>2, <1>1
    <3> QED  BY <3>2, <3>3, <1>1
  <2> QED  BY <2>1, <2>2
<1>4. ASSUME NEW k \in 2..Len(z), z[k].sep # "--", z[k - 1].sep # "--"
      PROVE  z[k].number = z[k - 1].number + 1
  <2>1. k # l + 1
    BY <1>0, <1>1, <1>2, <1>4
  <2>2. k \in 2..l /\ k \in 1..l /\ k - 1 \in 1..l
    BY <2>1, <1>1
  <2>3. z[k] = x[k] /\ z[k - 1] = x[k - 1]
    BY <2>2, <1>1
  <2> QED  BY <2>2, <2>3, <1>4 DEF Grouped, l
<1>5. Fits(z, n)
  <2>1. z[Len(z)] = Separator /\ Len(z) > 1 /\ z[Len(z) - 1] = x[l]
    BY <1>1, <1>2
  <2> QED  BY <2>1, <1>0 DEF Fits, l
<1> QED  BY <1>3, <1>4, <1>5 DEF Grouped, z, y

-----------------------------------------------------------------------------
(* A line with a match, character by character                              *)

Walks(f, T, a, b, init, g) ==
  /\ f \in [a..b -> T] /\ f[a] = init
  /\ \A j \in (a + 1)..b : f[j] = g[<<f[j - 1], j>>]

\* Steps can be taken from a to b.
LEMMA StepsExist ==
  ASSUME NEW T, NEW a \in Int, NEW b \in Int, a <= b, NEW init \in T,
         NEW g \in [T \X ((a + 1)..b) -> T]
  PROVE  \E f : Walks(f, T, a, b, init, g)
<1> DEFINE Goes(f, c) ==
             f[a] = init /\ \A j \in (a + 1)..c : f[j] = g[<<f[j - 1], j>>]
           Stops == {n \in Nat : n <= b - a /\ ~\E f \in [a..b -> T] : Goes(f, a + n)}
<1>1. Stops = {}
  <2> SUFFICES ASSUME Stops # {}  PROVE FALSE
    OBVIOUS
  <2>1. PICK n \in Stops : \A x \in Stops : n <= x
    <3>1. Stops \subseteq Nat
      OBVIOUS
    <3> HIDE DEF Stops
    <3> QED  BY <3>1, LowestExists
  <2>2. n \in Nat /\ n <= b - a /\ ~\E f \in [a..b -> T] : Goes(f, a + n)
    BY <2>1
  <2>3. CASE n = 0
    <3> DEFINE f == [j \in a..b |-> init]
    <3>1. f \in [a..b -> T]
      OBVIOUS
    <3>2. f[a] = init
      OBVIOUS
    <3>3. (a + 1)..(a + n) = {}
      BY <2>3
    <3> HIDE DEF f
    <3>4. Goes(f, a + n)
      BY <3>2, <3>3
    <3> QED  BY <2>2, <3>1, <3>4
  <2>4. CASE n # 0
    <3>1. n - 1 \in Nat /\ n - 1 <= b - a /\ n - 1 < n
      BY <2>2, <2>4
    <3>2. \E f \in [a..b -> T] : Goes(f, a + (n - 1))
      <4> HIDE DEF Goes
      <4>1. n - 1 \notin Stops
        <5>1. ~(n <= n - 1)
          BY <2>2
        <5> HIDE DEF Stops
        <5> QED  BY <5>1, <2>1
      <4> QED  BY <3>1, <4>1
    <3>3. PICK f \in [a..b -> T] : Goes(f, a + (n - 1))
      BY <3>2
    <3> DEFINE m == a + n
    <3>4. m \in (a + 1)..b /\ m - 1 \in a..b /\ m \in a..b
      BY <2>2, <2>4
    <3> DEFINE e == [f EXCEPT ![m] = g[<<f[m - 1], m>>]]
    <3>5. g[<<f[m - 1], m>>] \in T
      <4> HIDE DEF m
      <4> QED  BY <3>3, <3>4
    <3>6. e \in [a..b -> T] /\ e[m] = g[<<f[m - 1], m>>]
          /\ \A j \in a..b : j # m => e[j] = f[j]
      <4> HIDE DEF m
      <4> QED  BY <3>3, <3>4, <3>5
    <3> HIDE DEF e
    <3>7. Goes(e, m)
      <4>1. a \in a..b /\ a # m
        BY <3>4
      <4>2. ASSUME NEW j \in (a + 1)..m  PROVE e[j] = g[<<e[j - 1], j>>]
        <5>1. j \in a..b /\ j - 1 \in a..b /\ j - 1 # m
          BY <3>4
        <5>2. CASE j = m
          BY <5>1, <5>2, <3>6
        <5>3. CASE j # m
          <6>1. j \in (a + 1)..(a + (n - 1))
            BY <5>3, <2>2
          <6>2. f[j] = g[<<f[j - 1], j>>]
            BY <6>1, <3>3
          <6> QED  BY <6>2, <5>1, <5>3, <3>6
        <5> QED  BY <5>2, <5>3
      <4>3. e[a] = init
        BY <4>1, <3>3, <3>6
      <4> QED  BY <4>2, <4>3
    <3> QED  BY <2>2, <3>6, <3>7
  <2> QED  BY <2>3, <2>4
<1>2. b - a \in Nat /\ a + (b - a) = b
  OBVIOUS
<1>3. \E f \in [a..b -> T] : Goes(f, a + (b - a))
  <2>1. b - a \notin Stops
    BY <1>1
  <2> HIDE DEF Goes
  <2> QED  BY <1>2, <2>1
<1> QED  BY <1>2, <1>3 DEF Walks

Shown == [from : Nat, text : Seq(Nat), last : Nat, shown : BOOLEAN, over : BOOLEAN]

\* Where ShowLine starts.
Unshown(ctx) ==
  [from |-> ctx.prev_line_offset, text |-> <<>>, last |-> ctx.last_printed_match,
   shown |-> ctx.printing_a_match, over |-> FALSE]

\* A character shown leaves the pass over a line well typed.
LEMMA ShowCharType ==
  ASSUME matches \in Seq(Pairs), buf_len \in Nat, opts.width \in Nat,
         opts.only_matching \in BOOLEAN,
         NEW p \in Shown, p.last <= Len(matches), NEW j \in Nat
  PROVE  ShowChar(p, j) \in Shown /\ ShowChar(p, j).last <= Len(matches)
         /\ ShowChar(p, j).from = p.from
<1> DEFINE closes == p.last < Len(matches) /\ j = matches[p.last + 1].end
           last1 == IF closes THEN p.last + 1 ELSE p.last
           shown1 == p.shown /\ ~closes
           cut == opts.width > 0 /\ j < buf_len /\ j - p.from >= opts.width
           last2 == IF cut THEN Len(matches) ELSE last1
           shown2 == shown1 \/ (last2 < Len(matches) /\ j = matches[last2 + 1].start)
           prints == /\ j < buf_len
                     /\ ~opts.only_matching \/ shown2
                     /\ opts.width = 0 \/ j - p.from < opts.width
           text2 == IF prints THEN Append(p.text, j) ELSE p.text
<1>1. ShowChar(p, j) = IF p.over THEN p
                       ELSE [p EXCEPT !.last = last2, !.shown = shown2, !.over = cut,
                                      !.text = text2]
  BY DEF ShowChar
<1>2. Len(matches) \in Nat
  OBVIOUS
<1>3. last2 \in Nat /\ last2 <= Len(matches)
  BY <1>2 DEF Shown
<1>4. shown2 \in BOOLEAN /\ cut \in BOOLEAN
  BY DEF Shown
<1>5. text2 \in Seq(Nat)
  <2>1. p.text \in Seq(Nat)
    BY DEF Shown
  <2> HIDE DEF prints
  <2> QED  BY <2>1
<1> HIDE DEF last2, shown2, cut, text2
<1> QED  BY <1>1, <1>3, <1>4, <1>5 DEF Shown

\* ShowLine goes from state to state.
LEMMA ShowLineIs ==
  ASSUME matches \in Seq(Pairs), buf_len \in Nat, opts.width \in Nat,
         opts.only_matching \in BOOLEAN, i \in Nat,
         NEW ctx \in Contexts, ctx.last_printed_match <= Len(matches),
         ctx.prev_line_offset <= i
  PROVE  \E f \in [(ctx.prev_line_offset - 1)..i -> Shown] :
           /\ f[ctx.prev_line_offset - 1] = Unshown(ctx)
           /\ \A j \in ctx.prev_line_offset..i :
                f[j] = ShowChar(f[j - 1], j) /\ f[j - 1].last <= Len(matches)
           /\ ShowLine(ctx) = f[i]
           /\ f[i].last <= Len(matches)
<1> DEFINE a == ctx.prev_line_offset - 1
           T == {p \in Shown : p.last <= Len(matches)}
           g == [x \in T \X ((a + 1)..i) |-> ShowChar(x[1], x[2])]
           Step(f, j) == IF j < ctx.prev_line_offset THEN Unshown(ctx)
                         ELSE ShowChar(f[j - 1], j)
           Is(f) == f = [j \in a..i |-> Step(f, j)]
           h == CHOOSE f : Is(f)
<1>1. ctx.prev_line_offset \in Nat /\ a \in Int /\ a <= i /\ a + 1 = ctx.prev_line_offset
      /\ i \in Int
  BY DEF Contexts
<1>2. Unshown(ctx) \in T
  BY DEF Unshown, Shown, Contexts
<1>3. g \in [T \X ((a + 1)..i) -> T]
  <2>1. ASSUME NEW p \in T, NEW j \in (a + 1)..i  PROVE ShowChar(p, j) \in T
    <3>1. j \in Nat
      BY <1>1
    <3> QED  BY <3>1, ShowCharType
  <2> HIDE DEF T, a
  <2> QED  BY <2>1
<1>4. PICK e \in [a..i -> T] :
        e[a] = Unshown(ctx) /\ \A j \in (a + 1)..i : e[j] = g[<<e[j - 1], j>>]
  <2> DEFINE u == Unshown(ctx)
  <2>1. u \in T
    BY <1>2
  <2> HIDE DEF g, T, a, u
  <2>2. a \in Int /\ a <= i /\ i \in Int
    BY <1>1
  <2>3. \E e : Walks(e, T, a, i, u, g)
    BY <2>1, <2>2, <1>3, StepsExist
  <2> QED  BY <2>3 DEF u, Walks
<1>5. ASSUME NEW j \in (a + 1)..i
      PROVE  e[j] = ShowChar(e[j - 1], j) /\ j - 1 \in a..i /\ j \in a..i
  <2>1. j - 1 \in a..i /\ j \in a..i
    BY <1>1
  <2>2. e[j - 1] \in T
    BY <2>1
  <2> HIDE DEF T, a
  <2> QED  BY <1>4, <2>1, <2>2
<1>6. ShowLine(ctx) = h[i]
  BY DEF ShowLine, Unshown
<1>7. Is(e)
  <2> DEFINE b == [j \in a..i |-> Step(e, j)]
  <2>1. ASSUME NEW j \in a..i  PROVE e[j] = Step(e, j)
    <3>1. CASE j = a
      <4>1. j < ctx.prev_line_offset
        BY <3>1, <1>1
      <4> QED  BY <3>1, <4>1, <1>4
    <3>2. CASE j # a
      <4>1. j \in (a + 1)..i /\ ~(j < ctx.prev_line_offset)
        BY <3>2, <1>1
      <4> QED  BY <4>1, <1>5
    <3> QED  BY <3>1, <3>2
  <2>2. e = b
    <3> HIDE DEF Step, a, T
    <3> QED  BY <2>1
  <2> HIDE DEF Step, a
  <2> QED  BY <2>2
<1>8. Is(h)
  <2> HIDE DEF Is
  <2> QED  BY <1>7
<1>9. DOMAIN h = a..i /\ \A j \in a..i : h[j] = Step(h, j)
  <2> DEFINE b == [j \in a..i |-> Step(h, j)]
  <2>1. h = b
    BY <1>8
  <2>2. DOMAIN b = a..i /\ \A j \in a..i : b[j] = Step(h, j)
    BY Zenon
  <2> HIDE DEF b, h, Step, a
  <2> QED  BY <2>1, <2>2
<1> HIDE DEF h, Is
<1> DEFINE Differs == {n \in Nat : n <= i - a /\ h[a + n] # e[a + n]}
<1>10. Differs = {}
  <2> SUFFICES ASSUME Differs # {}  PROVE FALSE
    OBVIOUS
  <2>1. PICK n \in Differs : \A x \in Differs : n <= x
    <3>1. Differs \subseteq Nat
      OBVIOUS
    <3> HIDE DEF Differs
    <3> QED  BY <3>1, LowestExists
  <2>2. n \in Nat /\ n <= i - a /\ h[a + n] # e[a + n]
    BY <2>1
  <2>3. n # 0
    <3>1. h[a] = Step(h, a) /\ a < ctx.prev_line_offset
      BY <1>1, <1>9
    <3>2. a + 0 = a
      BY <1>1
    <3> QED  BY <3>1, <3>2, <1>4, <2>2
  <2>4. h[a + (n - 1)] = e[a + (n - 1)]
    <3>1. n - 1 \in Nat /\ n - 1 <= i - a /\ ~(n <= n - 1)
      BY <2>2, <2>3, <1>1
    <3>2. n - 1 \notin Differs
      <4> HIDE DEF Differs
      <4> QED  BY <2>1, <3>1
    <3> HIDE DEF a
    <3> QED  BY <3>1, <3>2
  <2> DEFINE j == a + n
  <2>5. j \in (a + 1)..i /\ j - 1 = a + (n - 1) /\ ~(j < ctx.prev_line_offset) /\ j \in a..i
    <3>1. n \in Nat /\ n >= 1 /\ n <= i - a /\ a \in Int /\ i \in Int
          /\ ctx.prev_line_offset = a + 1
      BY <2>2, <2>3, <1>1
    <3> HIDE DEF a
    <3> QED  BY <3>1
  <2>6. h[j] = Step(h, j)
    <3> HIDE DEF Step, a, j
    <3> QED  BY <2>5, <1>9
  <2>7. h[j] = ShowChar(h[j - 1], j)
    <3> HIDE DEF j
    <3> QED  BY <2>5, <2>6
  <2>8. e[j] = ShowChar(e[j - 1], j)
    <3> HIDE DEF j, a
    <3> QED  BY <2>5, <1>5
  <2>9. h[j - 1] = e[j - 1]
    <3> HIDE DEF a
    <3> QED  BY <2>4, <2>5
  <2>10. h[j] # e[j]
    BY <2>2
  <2> HIDE DEF j
  <2> QED  BY <2>7, <2>8, <2>9, <2>10
<1>11. h[i] = e[i]
  <2>1. i - a \in Nat /\ i - a <= i - a /\ a + (i - a) = i
    BY <1>1
  <2>2. i - a \notin Differs
    BY <1>10
  <2> HIDE DEF a, Step
  <2> QED  BY <2>1, <2>2
<1>12. /\ e \in [a..i -> Shown] /\ i \in a..i
       /\ \A j \in a..i : e[j].last <= Len(matches)
  <2>1. i \in a..i
    BY <1>1
  <2> HIDE DEF a
  <2> QED  BY <2>1, <1>4
<1>13. /\ e[a] = Unshown(ctx)
       /\ \A j \in (a + 1)..i : e[j] = ShowChar(e[j - 1], j) /\ e[j - 1].last <= Len(matches)
       /\ ShowLine(ctx) = e[i] /\ e[i].last <= Len(matches)
  <2> HIDE DEF a, T, Step
  <2> QED  BY <1>4, <1>5, <1>6, <1>11, <1>12
<1>14. ctx.prev_line_offset..i = (a + 1)..i
  BY <1>1
<1> HIDE DEF T
<1> QED  BY <1>12, <1>13, <1>14

-----------------------------------------------------------------------------
(* The lines before a match                                                 *)

\* What the buffer and the options are.
BufferIs ==
  /\ buf_len \in Nat \ {0} /\ buf_len <= MaxLength /\ newlines \subseteq 0..(buf_len - 1)
  /\ opts.before \in Nat /\ opts.after \in Nat /\ opts.width \in Nat
  /\ opts.only_matching \in BOOLEAN /\ opts.vimgrep \in BOOLEAN
  /\ INT_MAX \in Nat /\ opts.after + buf_len < INT_MAX

\* The ends of the lines are places of the buffer.
LEMMA EndsIs ==
  ASSUME BufferIs
  PROVE  /\ Ends \subseteq Nat /\ Ends \subseteq 0..buf_len /\ buf_len \in Ends
         /\ \A n \in newlines : n \in Ends /\ n \in 0..(buf_len - 1)
  BY DEF Ends, EndsOf, BufferIs

\* The text of a line, without its end.
TextIn(E, len, n, text) ==
  \A q : q \in Chars(text) <=> q \in 0..(len - 1) /\ NumAt(E, q) = n /\ q \notin E

ContextLine(E, len, n, l) ==
  l \in OutLine /\ l.sep = "-" /\ l.number = n /\ TextIn(E, len, n, l.text)

\* The text of a line is its places but the newline.
LEMMA TextIs ==
  ASSUME BufferIs, NEW n, NEW s \in Nat, NEW e, IsLine(Ends, n, s, e)
  PROVE  Text(s, e - 1) \in Seq(Nat) /\ TextIn(Ends, buf_len, n, Text(s, e - 1))
<1>1. /\ Ends \subseteq Nat /\ e \in 0..buf_len /\ s <= e /\ buf_len \in Nat
      /\ e \in Ends /\ NoneFrom(Ends, s, e)
  BY EndsIs DEF IsLine, BufferIs
<1>2. Min({e - 1, buf_len - 1}) = e - 1
  <2>1. e - 1 \in Int /\ buf_len - 1 \in Int /\ e - 1 <= buf_len - 1
    BY <1>1
  <2> QED  BY <2>1, MinOfTwo
<1>3. Text(s, e - 1) = [k \in 1..(e - s) |-> s + k - 1]
  <2>1. (e - 1) - s + 1 = e - s
    BY <1>1
  <2> QED  BY <1>2, <2>1 DEF Text
<1> DEFINE t == [k \in 1..(e - s) |-> s + k - 1]
<1>4. t \in Seq(Nat) /\ DOMAIN t = 1..(e - s)
  <2>1. e - s \in Nat /\ \A k \in 1..(e - s) : s + k - 1 \in Nat
    BY <1>1
  <2> QED  BY <2>1, IsASeq
<1>5. \A q : q \in Chars(t) <=> q \in s..(e - 1)
  <2>1. ASSUME NEW q \in s..(e - 1)  PROVE q \in Chars(t)
    <3>1. q - s + 1 \in 1..(e - s) /\ s + (q - s + 1) - 1 = q
      BY <1>1
    <3> QED  BY <3>1, <1>4 DEF Chars
  <2>2. ASSUME NEW k \in DOMAIN t  PROVE t[k] \in s..(e - 1)
    BY <1>1, <1>4
  <2> HIDE DEF t
  <2> QED  BY <2>1, <2>2 DEF Chars
<1>6. ASSUME NEW q
      PROVE  q \in s..(e - 1) <=> q \in 0..(buf_len - 1) /\ NumAt(Ends, q) = n /\ q \notin Ends
  <2>1. CASE q \in Nat
    <3>1. NumAt(Ends, q) = n <=> s <= q /\ q <= e
      BY <1>1, <2>1, PlacesOfLine
    <3>2. s <= q /\ q < e => q \notin Ends
      BY <1>1, <2>1 DEF NoneFrom
    <3> QED  BY <1>1, <2>1, <3>1, <3>2
  <2>2. CASE q \notin Nat
    BY <1>1, <2>2
  <2> QED  BY <2>1, <2>2
<1> HIDE DEF t
<1> QED  BY <1>3, <1>4, <1>5, <1>6 DEF TextIn, t

\* A line of context has the number and the text of its place.
LEMMA LineIs ==
  ASSUME BufferIs, NEW n \in Nat, NEW s \in Nat, NEW e, IsLine(Ends, n, s, e)
  PROVE  ContextLine(Ends, buf_len, n, Line("-", n, Text(s, e - 1)))
<1>1. Text(s, e - 1) \in Seq(Nat) /\ TextIn(Ends, buf_len, n, Text(s, e - 1))
  BY TextIs
<1> QED  BY <1>1 DEF ContextLine, Line, OutLine

\* How many lines are printed.
LEMMA LinesToPrintIs ==
  ASSUME BufferIs, NEW ctx \in Contexts
  PROVE  /\ LinesToPrint(ctx) \in 0..opts.before
         /\ LinesToPrint(ctx) =
              IF ctx.lines_since_last_match <= opts.after THEN 0
              ELSE IF ctx.lines_since_last_match - (opts.after + 1) <= opts.before
                   THEN ctx.lines_since_last_match - (opts.after + 1) ELSE opts.before
<1> DEFINE since == ctx.lines_since_last_match
           m == Min({since - (opts.after + 1), opts.before})
<1>1. since \in Nat /\ opts.before \in Nat /\ opts.after \in Nat
  BY DEF Contexts, BufferIs
<1> HIDE DEF since
<1>2. m = IF since - (opts.after + 1) <= opts.before THEN since - (opts.after + 1)
          ELSE opts.before
  <2> DEFINE a == since - (opts.after + 1)
             b == opts.before
  <2>1. a \in Int /\ b \in Int
    BY <1>1
  <2> HIDE DEF a, b
  <2>2. Min({a, b}) = IF a <= b THEN a ELSE b
    BY <2>1, MinOfTwo
  <2> QED  BY <2>2 DEF a, b
<1>3. m \in Int
  BY <1>1, <1>2
<1>4. Max({0, m}) = IF 0 <= m THEN m ELSE 0
  <2> HIDE DEF m
  <2> QED  BY <1>3, MaxOfTwo
<1>5. LinesToPrint(ctx) = Max({0, m})
  BY DEF LinesToPrint, since
<1> HIDE DEF m
<1>6. /\ LinesToPrint(ctx) \in 0..opts.before
      /\ LinesToPrint(ctx) = IF since <= opts.after THEN 0
           ELSE IF since - (opts.after + 1) <= opts.before
                THEN since - (opts.after + 1) ELSE opts.before
  BY <1>1, <1>2, <1>4, <1>5
<1> QED  BY <1>6 DEF since

\* The lines before line n of which c are printed.
LinesBefore(E, len, n, c, x) ==
  /\ x \in Seq(OutLine) /\ Len(x) = c
  /\ \A k \in 1..c : ContextLine(E, len, n - c + k - 1, x[k])

Least(a, b) == IF a <= b THEN a ELSE b

\* The lines before a match are the last ones of those still to be printed.
LEMMA ContextBeforeIs ==
  ASSUME BufferIs, NEW ctx \in Contexts, ctx.line > 0,
         opts.before > 0 => ctx.last_prev_line < opts.before,
         RingInv(Ends, opts, ctx)
  PROVE  LinesBefore(Ends, buf_len, ctx.line, Least(LinesToPrint(ctx), ctx.line - 1),
                     ContextBefore(ctx))
<1> DEFINE b == opts.before
           l == LinesToPrint(ctx)
           n == ctx.line
           c == Least(l, n - 1)
           a == b - l
           slot(j) == ctx.prev_lines[(ctx.last_prev_line + j) % b]
           lineof(j) == Line("-", n - (b - j), Text(slot(j)[1], slot(j)[2]))
           piece(j) == IF slot(j) = NoLine THEN <<>> ELSE <<lineof(j)>>
           Step(f, j) == IF j = a THEN <<>> ELSE f[j - 1] \o piece(j - 1)
           Is(f) == f = [j \in a..b |-> Step(f, j)]
           h == CHOOSE f : Is(f)
<1>1. /\ b \in Nat /\ l \in 0..b /\ n \in Nat /\ n > 0 /\ a \in 0..b
      /\ c \in Nat /\ c <= l /\ c <= n - 1 /\ (c = l \/ c = n - 1)
  <2>1. l \in 0..b
    BY LinesToPrintIs
  <2>2. b \in Nat /\ n \in Nat /\ n > 0
    BY DEF BufferIs, Contexts
  <2> HIDE DEF b, l, n
  <2> QED  BY <2>1, <2>2 DEF Least
<1>2. ContextBefore(ctx) = h[b]
  BY DEF ContextBefore
<1>3. ASSUME NEW j \in a..(b - 1)
      PROVE  IF b - j <= c
             THEN /\ piece(j) = <<lineof(j)>> /\ piece(j) \in Seq(OutLine)
                  /\ ContextLine(Ends, buf_len, n - (b - j), lineof(j))
             ELSE piece(j) = <<>> /\ piece(j) \in Seq(OutLine)
  <2> DEFINE d == b - j
             last == ctx.last_prev_line
  <2>1. d \in 1..b /\ j \in 0..(b - 1) /\ b > 0 /\ d <= l
    BY <1>1
  <2>2. last \in 0..(b - 1)
    <3>1. last \in Nat /\ last < b
      BY <2>1 DEF Contexts
    <3> HIDE DEF last, b
    <3> QED  BY <3>1, <1>1
  <2>3. slot(j) = ctx.prev_lines[Slot(b, last, d)]
    <3> HIDE DEF last, b
    <3>1. (last + j) % b = Slot(b, last, b - j)
      BY <1>1, <2>1, <2>2, SlotIs
    <3> QED  BY <3>1 DEF last
  <2>4. IF d < n
        THEN \E s, e \in Nat : IsLine(Ends, n - d, s, e) /\ slot(j) = <<s, e - 1>>
        ELSE slot(j) = NoLine
    <3> HIDE DEF d
    <3> QED  BY <2>1, <2>3 DEF RingInv
  <2> HIDE DEF slot, d, b, l, n, c
  <2>5. d <= c => d < n
    BY <1>1, <2>1
  <2>6. CASE d <= c
    <3>1. PICK s \in Nat, e \in Nat : IsLine(Ends, n - d, s, e) /\ slot(j) = <<s, e - 1>>
      BY <2>4, <2>5, <2>6
    <3>2. slot(j) # NoLine
      <4>1. s # -1
        OBVIOUS
      <4> QED  BY <3>1, <4>1 DEF NoLine
    <3>3. lineof(j) = Line("-", n - d, Text(s, e - 1))
      BY <3>1 DEF d
    <3>4. ContextLine(Ends, buf_len, n - d, lineof(j))
      <4>1. n - d \in Nat
        BY <2>1, <2>5, <2>6, <1>1
      <4> HIDE DEF lineof
      <4> QED  BY <3>1, <3>3, <4>1, LineIs
    <3>5. lineof(j) \in OutLine
      BY <3>4 DEF ContextLine
    <3> HIDE DEF lineof
    <3>6. piece(j) = <<lineof(j)>> /\ piece(j) \in Seq(OutLine)
      BY <3>2, <3>5
    <3> HIDE DEF piece
    <3> QED  BY <2>6, <3>4, <3>6 DEF d
  <2>7. CASE ~(d <= c)
    <3>1. c = n - 1 /\ ~(d < n)
      BY <1>1, <2>1, <2>7
    <3>2. piece(j) = <<>> /\ piece(j) \in Seq(OutLine)
      BY <3>1, <2>4
    <3> HIDE DEF piece
    <3> QED  BY <2>7, <3>2 DEF d
  <2> QED  BY <2>6, <2>7
<1> HIDE DEF slot, lineof, piece
<1>4. Is(h)
  <2> DEFINE T == Seq(OutLine)
             g == [x \in T \X ((a + 1)..b) |-> x[1] \o piece(x[2] - 1)]
  <2>1. g \in [T \X ((a + 1)..b) -> T]
    <3>1. ASSUME NEW x \in T, NEW j \in (a + 1)..b  PROVE x \o piece(j - 1) \in T
      <4>1. j - 1 \in a..(b - 1)
        <5> HIDE DEF a, b
        <5> QED  BY <1>1
      <4>2. piece(j - 1) \in T
        <5> HIDE DEF T, a, b, c, n
        <5> QED  BY <4>1, <1>3 DEF T
      <4> HIDE DEF a, b
      <4> QED  BY <4>2
    <3> HIDE DEF T, a, b
    <3> QED  BY <3>1
  <2>2. a \in Int /\ b \in Int /\ a <= b
    <3> HIDE DEF a, b
    <3> QED  BY <1>1
  <2>3. <<>> \in T
    OBVIOUS
  <2>4. PICK f : Walks(f, T, a, b, <<>>, g)
    <3> HIDE DEF T, a, b, g
    <3> QED  BY <2>1, <2>2, <2>3, StepsExist
  <2>5. /\ f \in [a..b -> T] /\ f[a] = <<>>
        /\ \A j \in (a + 1)..b : f[j] = g[<<f[j - 1], j>>]
    BY <2>4 DEF Walks
  <2> DEFINE e == [j \in a..b |-> Step(f, j)]
  <2>6. ASSUME NEW j \in a..b  PROVE f[j] = Step(f, j)
    <3>1. CASE j = a
      <4> HIDE DEF a
      <4> QED  BY <3>1, <2>5
    <3>2. CASE j # a
      <4>1. j \in (a + 1)..b /\ j - 1 \in a..b
        <5> HIDE DEF a, b
        <5> QED  BY <3>2, <1>1
      <4>2. f[j - 1] \in T /\ f[j] = g[<<f[j - 1], j>>]
        <5> HIDE DEF g, T, a, b
        <5> QED  BY <2>5, <4>1
      <4>3. g[<<f[j - 1], j>>] = f[j - 1] \o piece(j - 1)
        <5> HIDE DEF T, a, b
        <5> QED  BY <4>1, <4>2
      <4> HIDE DEF g, a
      <4> QED  BY <4>2, <4>3, <3>2
    <3> QED  BY <3>1, <3>2
  <2>7. f = e
    <3> HIDE DEF Step, a, b, T, g
    <3> QED  BY <2>5, <2>6
  <2>8. Is(f)
    <3> HIDE DEF Step, a, b
    <3> QED  BY <2>7
  <2> HIDE DEF Is
  <2> QED  BY <2>8
<1>5. \A j \in a..b : h[j] = Step(h, j)
  <2> DEFINE e == [j \in a..b |-> Step(h, j)]
  <2>1. h = e
    BY <1>4
  <2>2. \A j \in a..b : e[j] = Step(h, j)
    BY Zenon
  <2> HIDE DEF e, h, Step, a, b
  <2> QED  BY <2>1, <2>2
<1> DEFINE size(j) == IF j - (b - c) >= 0 THEN j - (b - c) ELSE 0
           Good(j) == /\ h[j] \in Seq(OutLine) /\ Len(h[j]) = size(j)
                      /\ \A k \in 1..size(j) :
                           ContextLine(Ends, buf_len, n - c + k - 1, h[j][k])
           Wrong == {m \in Nat : m <= b - a /\ ~Good(a + m)}
<1> HIDE DEF Is, h
<1>6. Wrong = {}
  <2> SUFFICES ASSUME Wrong # {}  PROVE FALSE
    OBVIOUS
  <2>1. PICK m \in Wrong : \A x \in Wrong : m <= x
    <3>1. Wrong \subseteq Nat
      OBVIOUS
    <3> HIDE DEF Wrong
    <3> QED  BY <3>1, LowestExists
  <2>2. m \in Nat /\ m <= b - a /\ ~Good(a + m)
    BY <2>1
  <2> DEFINE j == a + m
  <2>3. j \in a..b /\ a \in Nat /\ a = b - l
    <3>1. b \in Nat /\ l \in 0..b
      BY <1>1
    <3>2. b - l \in Nat /\ b - l + m \in (b - l)..b
      <4>1. m <= b - (b - l)
        BY <2>2
      <4> HIDE DEF b, l
      <4> QED  BY <2>2, <3>1, <4>1
    <3> QED  BY <3>2
  <2>4. h[j] = Step(h, j)
    <3> HIDE DEF Step, a, j, b
    <3> QED  BY <2>3, <1>5
  <2>5. CASE m = 0
    <3>1. j = a
      BY <2>5, <2>3
    <3>2. h[j] = <<>>
      BY <2>4, <3>1
    <3>3. size(j) = 0
      <4> HIDE DEF a, b, c, l, j
      <4> QED  BY <1>1, <2>3, <3>1
    <3>4. 1..size(j) = {}
      <4> HIDE DEF size
      <4> QED  BY <3>3
    <3> HIDE DEF size, j
    <3>5. Good(j)
      BY <3>2, <3>3, <3>4
    <3> QED  BY <3>5, <2>2 DEF j
  <2>6. CASE m # 0
    <3>1. m - 1 \in Nat /\ m - 1 <= b - a /\ ~(m <= m - 1)
      <4>1. a \in Nat /\ b \in Nat
        BY <1>1
      <4> HIDE DEF a, b
      <4> QED  BY <2>2, <2>6, <4>1
    <3>2. Good(a + (m - 1))
      <4>1. m - 1 \notin Wrong
        <5> HIDE DEF Wrong
        <5> QED  BY <3>1, <2>1
      <4> HIDE DEF Good, a, b
      <4> QED  BY <4>1, <3>1
    <3>3. j - 1 = a + (m - 1) /\ j - 1 \in a..(b - 1) /\ j # a /\ j \in Nat
      <4>1. a \in Nat /\ b \in Nat
        BY <1>1
      <4> HIDE DEF a, b
      <4> QED  BY <2>2, <2>6, <4>1
    <3>4. Good(j - 1)
      <4> HIDE DEF Good, a, j
      <4> QED  BY <3>2, <3>3
    <3>5. h[j] = h[j - 1] \o piece(j - 1)
      <4> HIDE DEF a, j
      <4> QED  BY <2>4, <3>3
    <3> DEFINE p == j - 1
    <3>6. IF b - p <= c
          THEN /\ piece(p) = <<lineof(p)>> /\ piece(p) \in Seq(OutLine)
               /\ ContextLine(Ends, buf_len, n - (b - p), lineof(p))
          ELSE piece(p) = <<>> /\ piece(p) \in Seq(OutLine)
      <4> HIDE DEF a, b, c, n, j
      <4> QED  BY <3>3, <1>3
    <3>7. /\ h[p] \in Seq(OutLine) /\ Len(h[p]) = size(p)
          /\ \A k \in 1..size(p) : ContextLine(Ends, buf_len, n - c + k - 1, h[p][k])
      BY <3>4
    <3>8. /\ p \in Nat /\ j = p + 1 /\ p < b /\ b - p \in Nat
          /\ a \in Nat /\ b \in Nat /\ c \in Nat /\ n \in Nat /\ h[j] = h[p] \o piece(p)
      <4>1. a \in Nat /\ b \in Nat /\ c \in Nat /\ n \in Nat
        <5>1. a \in 0..b /\ b \in Nat /\ c \in Nat /\ n \in Nat
          BY <1>1
        <5> HIDE DEF a, b, c, n
        <5> QED  BY <5>1
      <4>2. j - 1 \in a..(b - 1) /\ j \in Nat
        BY <3>3
      <4>3. h[j] = h[p] \o piece(p)
        BY <3>5
      <4> HIDE DEF a, b, c, n, j, p
      <4>4. p \in Nat /\ j = p + 1 /\ p < b /\ b - p \in Nat
        <5>1. p = j - 1
          BY DEF p
        <5>2. a \in Int /\ b \in Int /\ j \in Int /\ a >= 0
          BY <4>1, <4>2
        <5>3. p \in a..(b - 1)
          BY <4>2, <5>1
        <5>4. p \in Int /\ p >= a /\ p <= b - 1
          BY <5>2, <5>3
        <5> QED  BY <5>1, <5>2, <5>4, SMTT(30)
      <4> QED  BY <4>1, <4>3, <4>4
    <3> HIDE DEF a, b, c, n, j, p
    <3>9. CASE b - p <= c
      <4>1. size(j) = size(p) + 1 /\ size(p) \in Nat /\ n - c + size(j) - 1 = n - (b - p)
        BY <3>8, <3>9
      <4> HIDE DEF size
      <4>2. h[j] = Append(h[p], lineof(p)) /\ lineof(p) \in OutLine
        <5>1. lineof(p) \in OutLine
          BY <3>6, <3>9 DEF ContextLine
        <5>2. h[p] \o <<lineof(p)>> = Append(h[p], lineof(p))
          BY <5>1, <3>7
        <5> QED  BY <5>1, <5>2, <3>6, <3>8, <3>9
      <4>3. /\ h[j] \in Seq(OutLine) /\ Len(h[j]) = size(j)
            /\ h[j][size(j)] = lineof(p) /\ \A k \in 1..size(p) : h[j][k] = h[p][k]
        BY <4>1, <4>2, <3>7, AppendProperties
      <4>4. ASSUME NEW k \in 1..size(j)
            PROVE  ContextLine(Ends, buf_len, n - c + k - 1, h[j][k])
        <5>1. CASE k = size(j)
          BY <5>1, <4>1, <4>3, <3>6, <3>9
        <5>2. CASE k # size(j)
          <6>1. k \in 1..size(p)
            BY <5>2, <4>1
          <6> QED  BY <6>1, <4>3, <3>7
        <5> QED  BY <5>1, <5>2
      <4>5. Good(j)
        BY <4>3, <4>4
      <4> QED  BY <4>5, <2>2 DEF j
    <3>10. CASE ~(b - p <= c)
      <4>1. size(j) = 0 /\ size(p) = 0
        BY <3>8, <3>10
      <4> HIDE DEF size
      <4>2. h[j] = h[p]
        BY <3>6, <3>7, <3>8, <3>10
      <4>3. Good(j)
        BY <4>1, <4>2, <3>7
      <4> QED  BY <4>3, <2>2 DEF j
    <3> QED  BY <3>9, <3>10
  <2> QED  BY <2>5, <2>6
<1>7. Good(b)
  <2>1. b - a \in Nat /\ b - a <= b - a /\ a + (b - a) = b
    <3> HIDE DEF a, b
    <3> QED  BY <1>1
  <2>2. b - a \notin Wrong
    BY <1>6
  <2> HIDE DEF Good, a, b
  <2> QED  BY <2>1, <2>2
<1>8. size(b) = c
  <2> HIDE DEF b, c
  <2> QED  BY <1>1
<1>9. LinesBefore(Ends, buf_len, n, c, h[b])
  <2> HIDE DEF size, b, c, n
  <2> QED  BY <1>7, <1>8 DEF LinesBefore
<1> QED  BY <1>2, <1>9

-----------------------------------------------------------------------------
(* One character                                                            *)

Opens == cur_match < Len(matches) /\ i = matches[cur_match + 1].start

Closes == cur_match < Len(matches) /\ i = matches[cur_match + 1].end

AtEol == i = buf_len \/ i \in newlines

NextCur == IF Closes THEN cur_match + 1 ELSE cur_match

Ctx1 == IF Opens THEN [print_context EXCEPT !.in_a_match = TRUE,
                                            !.lines_since_last_match = 0]
        ELSE print_context

Ctx2 == IF Closes THEN [Ctx1 EXCEPT !.in_a_match = FALSE] ELSE Ctx1

Ctx3 == IF AtEol THEN Appended(Ctx2, i) ELSE Ctx2

Matched == AtEol /\ Ctx3.lines_since_last_match = 0

Ctx4 == IF Matched THEN AfterMatchingLine(Ctx3, NextCur) ELSE Ctx3

NextCtx == IF AtEol THEN Trailed(Ctx4) ELSE Ctx4

\* What is printed where a match starts, and at the end of a line.
AtStart == IF Opens THEN MatchStarts(print_context) ELSE <<>>

AtMatchedEol == IF Matched THEN MatchingLine(Ctx3, NextCur) ELSE <<>>

AtEveryEol == IF AtEol THEN TrailingLine(Ctx4) ELSE <<>>

\* A step over one character, in the names of its parts.
LEMMA PrintCharIs ==
  ASSUME PrintChar
  PROVE  /\ LoopGoesOn
         /\ cur_match' = NextCur
         /\ print_context' = NextCtx
         /\ output' = output \o AtStart \o AtMatchedEol \o AtEveryEol
         /\ i' = i + 1
         /\ UNCHANGED <<match_vars, opts, printing>>
  BY DEF PrintChar, Opens, Closes, AtEol, NextCur, Ctx1, Ctx2, Ctx3, Matched, Ctx4,
         NextCtx, AtStart, AtMatchedEol, AtEveryEol

Printing ==
  /\ BufferIs
  /\ matches \in Seq(Pairs)
  /\ \A k \in DOMAIN matches : matches[k].start <= matches[k].end
  /\ i \in 0..buf_len
  /\ ContextInv(Ends, buf_len, matches, opts, i, cur_match, print_context)

Since2 == IF Opens THEN 0 ELSE print_context.lines_since_last_match

InMatch2 == IF Closes THEN FALSE ELSE IF Opens THEN TRUE ELSE print_context.in_a_match

Ring2 ==
  IF AtEol /\ opts.before # 0
  THEN [print_context.prev_lines EXCEPT
          ![print_context.last_prev_line] = <<print_context.prev_line_offset, i - 1>>]
  ELSE print_context.prev_lines

LastLine2 ==
  IF AtEol /\ opts.before # 0 THEN (print_context.last_prev_line + 1) % opts.before
  ELSE print_context.last_prev_line

ContextWith(pl, last, since, in) ==
  [line |-> print_context.line, prev_lines |-> pl, last_prev_line |-> last,
   prev_line_offset |-> print_context.prev_line_offset,
   lines_since_last_match |-> since,
   last_printed_match |-> print_context.last_printed_match, in_a_match |-> in,
   printing_a_match |-> print_context.printing_a_match]

\* print_context at the end of a line, before it is printed.
LEMMA BeforeLine ==
  ASSUME print_context \in Contexts
  PROVE  Ctx3 = ContextWith(Ring2, LastLine2, Since2, InMatch2)
<1> DEFINE c == print_context
<1>1. c = [line |-> c.line, prev_lines |-> c.prev_lines,
           last_prev_line |-> c.last_prev_line, prev_line_offset |-> c.prev_line_offset,
           lines_since_last_match |-> c.lines_since_last_match,
           last_printed_match |-> c.last_printed_match, in_a_match |-> c.in_a_match,
           printing_a_match |-> c.printing_a_match]
  BY DEF Contexts
<1>2. Ctx1 = ContextWith(c.prev_lines, c.last_prev_line, Since2,
               IF Opens THEN TRUE ELSE c.in_a_match)
  <2>1. CASE Opens
    BY <2>1, <1>1 DEF Ctx1, Since2, ContextWith
  <2>2. CASE ~Opens
    BY <2>2, <1>1 DEF Ctx1, Since2, ContextWith
  <2> QED  BY <2>1, <2>2
<1>3. Ctx2 = ContextWith(c.prev_lines, c.last_prev_line, Since2, InMatch2)
  BY <1>2 DEF Ctx2, InMatch2, ContextWith
<1>4. Ctx3 = ContextWith(Ring2, LastLine2, Since2, InMatch2)
  <2>1. CASE AtEol /\ opts.before # 0
    BY <2>1, <1>3 DEF Ctx3, Ring2, LastLine2, Appended, ContextWith
  <2>2. CASE ~(AtEol /\ opts.before # 0)
    BY <2>2, <1>3 DEF Ctx3, Ring2, LastLine2, Appended, ContextWith
  <2> QED  BY <2>1, <2>2
<1> QED  BY <1>4

\* The ring with one more line.
LEMMA RingKept ==
  ASSUME Printing
  PROVE  /\ Ring2 \in UNION {[0..(b - 1) -> Int \X Int] : b \in Nat}
         /\ DOMAIN Ring2 = 0..(opts.before - 1)
         /\ \A k \in 0..(opts.before - 1) :
              \/ Ring2[k] = NoLine
              \/ \E s, e \in 0..buf_len : s <= e /\ Ring2[k] = <<s, e - 1>>
         /\ LastLine2 \in Nat
         /\ opts.before > 0 => LastLine2 < opts.before
         /\ \A c : /\ c.prev_lines = Ring2 /\ c.last_prev_line = LastLine2
                   /\ c.line = IF AtEol THEN print_context.line + 1 ELSE print_context.line
                   => RingInv(Ends, opts, c)
<1> DEFINE ctx == print_context
           r == ctx.prev_lines
           l == ctx.last_prev_line
           b == opts.before
           n == ctx.line
<1>1. /\ b \in Nat /\ i \in Nat /\ i <= buf_len /\ buf_len \in Nat
      /\ ctx \in Contexts /\ n = NumAt(Ends, i) /\ ctx.prev_line_offset = LineAt(Ends, i)
      /\ DOMAIN r = 0..(b - 1)
      /\ \A k \in 0..(b - 1) :
           r[k] = NoLine \/ \E s, e \in 0..buf_len : s <= e /\ r[k] = <<s, e - 1>>
      /\ b > 0 => l < b
      /\ RingInv(Ends, opts, ctx)
  BY DEF Printing, BufferIs, ContextInv
<1>2. r \in [0..(b - 1) -> Int \X Int] /\ l \in Nat /\ n \in Nat
  <2>1. l \in Nat /\ n \in Nat /\ r \in UNION {[0..(k - 1) -> Int \X Int] : k \in Nat}
    BY <1>1 DEF Contexts
  <2> HIDE DEF r
  <2>2. PICK k \in Nat : r \in [0..(k - 1) -> Int \X Int]
    BY <2>1
  <2>3. 0..(k - 1) = 0..(b - 1)
    BY <1>1, <2>2
  <2> QED  BY <2>1, <2>2, <2>3
<1>3. CASE ~(AtEol /\ b # 0)
  <2>1. Ring2 = r /\ LastLine2 = l
    BY <1>3 DEF Ring2, LastLine2
  <2>2. ASSUME NEW c, c.prev_lines = Ring2, c.last_prev_line = LastLine2,
               c.line = IF AtEol THEN ctx.line + 1 ELSE ctx.line
        PROVE  RingInv(Ends, opts, c)
    <3>1. CASE b = 0
      BY <3>1 DEF RingInv
    <3>2. CASE b # 0
      <4>1. c.line = ctx.line /\ c.prev_lines = r /\ c.last_prev_line = l
        BY <3>2, <2>1, <2>2, <1>3
      <4> QED  BY <4>1, <1>1 DEF RingInv
    <3> QED  BY <3>1, <3>2
  <2> HIDE DEF r, l
  <2> QED  BY <1>1, <1>2, <2>1, <2>2
<1>4. CASE AtEol /\ b # 0
  <2> DEFINE v == <<ctx.prev_line_offset, i - 1>>
  <2>1. Ring2 = [r EXCEPT ![l] = v] /\ LastLine2 = (l + 1) % b
    BY <1>4 DEF Ring2, LastLine2
  <2>2. l \in 0..(b - 1) /\ b > 0
    <3> HIDE DEF l
    <3> QED  BY <1>1, <1>2, <1>4
  <2>3. /\ Ends \subseteq Nat /\ i \in Ends
    BY <1>4, EndsIs DEF AtEol, Printing
  <2> DEFINE s0 == ctx.prev_line_offset
  <2>4. IsLine(Ends, n, s0, i) /\ s0 \in 0..buf_len /\ s0 <= i /\ s0 \in Nat
    <3>1. IsLine(Ends, n, s0, i)
      BY <1>1, <2>3, LineEndingAt
    <3> QED  BY <3>1, <1>1 DEF IsLine
  <2> HIDE DEF s0
  <2>5. v = <<s0, i - 1>> /\ v \in Int \X Int
    BY <2>4, <1>1 DEF s0
  <2> HIDE DEF v, r, l, b, n
  <2>6. /\ Ring2 \in [0..(b - 1) -> Int \X Int]
        /\ Ring2[l] = v /\ \A k \in 0..(b - 1) : k # l => Ring2[k] = r[k]
    BY <2>1, <2>2, <2>5, <1>2
  <2>7. /\ (l + 1) % b \in 0..(b - 1)
        /\ Slot(b, (l + 1) % b, 1) = l
        /\ \A d \in 1..(b - 1) :
             /\ Slot(b, (l + 1) % b, d + 1) = Slot(b, l, d)
             /\ Slot(b, l, d) # l
             /\ Slot(b, l, d) \in 0..(b - 1)
    BY <1>1, <2>2, SlotNext
  <2>8. ASSUME NEW c, c.prev_lines = Ring2, c.last_prev_line = LastLine2,
               c.line = IF AtEol THEN ctx.line + 1 ELSE ctx.line
        PROVE  RingInv(Ends, opts, c)
    <3>1. c.line = n + 1
      BY <2>8, <1>4 DEF n
    <3>2. ASSUME NEW d \in 1..b
          PROVE  LET slot == c.prev_lines[Slot(b, c.last_prev_line, d)] IN
                   IF d < c.line
                   THEN \E s, e \in Nat : IsLine(Ends, c.line - d, s, e) /\ slot = <<s, e - 1>>
                   ELSE slot = NoLine
      <4>1. CASE d = 1
        <5>1. c.prev_lines[Slot(b, c.last_prev_line, d)] = <<s0, i - 1>>
          BY <4>1, <2>1, <2>5, <2>6, <2>7, <2>8
        <5>2. c.line - d = n /\ d < c.line
          <6>1. NumAt(Ends, i) \in 1..(i + 1)
            BY <1>1, <2>3, NumAtIs
          <6>2. n = NumAt(Ends, i) /\ n \in Nat
            BY <1>1, <1>2
          <6>3. n >= 1
            BY <6>1, <6>2
          <6> QED  BY <6>2, <6>3, <4>1, <3>1
        <5>3. IsLine(Ends, c.line - d, s0, i)
          BY <5>2, <2>4
        <5> QED  BY <5>1, <5>2, <5>3, <2>4, <1>1
      <4>2. CASE d # 1
        <5> DEFINE f == d - 1
        <5>1. f \in 1..(b - 1) /\ f \in 1..b /\ f + 1 = d
          BY <4>2, <1>1
        <5>2. Slot(b, (l + 1) % b, d) = Slot(b, l, f) /\ Slot(b, l, f) # l
              /\ Slot(b, l, f) \in 0..(b - 1)
          <6> HIDE DEF f
          <6> QED  BY <5>1, <2>7
        <5>3. c.prev_lines[Slot(b, c.last_prev_line, d)] = r[Slot(b, l, f)]
          <6> HIDE DEF f
          <6> QED  BY <5>2, <2>1, <2>6, <2>8
        <5>4. IF f < n
              THEN \E s, e \in Nat : IsLine(Ends, n - f, s, e)
                                     /\ r[Slot(b, l, f)] = <<s, e - 1>>
              ELSE r[Slot(b, l, f)] = NoLine
          <6> HIDE DEF f
          <6> QED  BY <5>1, <1>1, <2>2 DEF RingInv, r, l, b, n
        <5>5. (f < n <=> d < c.line) /\ n - f = c.line - d
          BY <3>1, <1>2
        <5> HIDE DEF f
        <5> QED  BY <5>3, <5>4, <5>5
      <4> QED  BY <4>1, <4>2
    <3> QED  BY <3>2 DEF RingInv, b
  <2>9. \A k \in 0..(b - 1) :
          Ring2[k] = NoLine \/ \E s, e \in 0..buf_len : s <= e /\ Ring2[k] = <<s, e - 1>>
    <3>1. \E s, e \in 0..buf_len : s <= e /\ Ring2[l] = <<s, e - 1>>
      <4>1. i \in 0..buf_len
        BY <1>1
      <4> QED  BY <4>1, <2>4, <2>5, <2>6
    <3> QED  BY <3>1, <2>6, <1>1 DEF r, b
  <2>10. LastLine2 \in Nat /\ LastLine2 < b
    BY <2>1, <2>7, <1>1 DEF b
  <2>11. Ring2 \in UNION {[0..(k - 1) -> Int \X Int] : k \in Nat} /\ DOMAIN Ring2 = 0..(b - 1)
    BY <2>6, <1>1 DEF b
  <2> QED  BY <2>8, <2>9, <2>10, <2>11 DEF b
<1> QED  BY <1>3, <1>4

Last2 ==
  IF ~Matched THEN print_context.last_printed_match
  ELSE IF opts.vimgrep THEN Max({print_context.last_printed_match, NextCur})
  ELSE ShowLine(Ctx3).last

PrintingMatch2 ==
  IF Matched /\ ~opts.vimgrep THEN ShowLine(Ctx3).shown
  ELSE print_context.printing_a_match

Since3 == IF AtEol /\ ~InMatch2 /\ Since2 < INT_MAX THEN Since2 + 1 ELSE Since2

\* print_context after the character.
LEMMA AfterChar ==
  ASSUME print_context \in Contexts
  PROVE  /\ Matched <=> AtEol /\ Since2 = 0
         /\ Ctx4.lines_since_last_match = Since2 /\ Ctx4.line = print_context.line
         /\ Ctx4.prev_line_offset = print_context.prev_line_offset
         /\ NextCtx =
              [line |-> IF AtEol THEN print_context.line + 1 ELSE print_context.line,
               prev_lines |-> Ring2, last_prev_line |-> LastLine2,
               prev_line_offset |-> IF AtEol THEN i + 1 ELSE print_context.prev_line_offset,
               lines_since_last_match |-> Since3,
               last_printed_match |-> Last2, in_a_match |-> InMatch2,
               printing_a_match |-> PrintingMatch2]
<1>1. Ctx3 = ContextWith(Ring2, LastLine2, Since2, InMatch2)
  BY BeforeLine
<1>2. Matched <=> AtEol /\ Since2 = 0
  BY <1>1 DEF Matched, ContextWith
<1>3. Ctx4 = [line |-> print_context.line, prev_lines |-> Ring2,
              last_prev_line |-> LastLine2,
              prev_line_offset |-> print_context.prev_line_offset,
              lines_since_last_match |-> Since2,
              last_printed_match |-> Last2, in_a_match |-> InMatch2,
              printing_a_match |-> PrintingMatch2]
  <2> DEFINE s == ShowLine(Ctx3)
  <2>1. CASE Matched /\ opts.vimgrep
    BY <2>1, <1>1 DEF Ctx4, AfterMatchingLine, ContextWith, Last2, PrintingMatch2
  <2>2. CASE Matched /\ ~opts.vimgrep
    <3>1. Ctx4 = [Ctx3 EXCEPT !.last_printed_match = s.last, !.printing_a_match = s.shown]
      BY <2>2 DEF Ctx4, AfterMatchingLine
    <3>2. Last2 = s.last /\ PrintingMatch2 = s.shown
      BY <2>2 DEF Last2, PrintingMatch2
    <3> HIDE DEF s
    <3> QED  BY <3>1, <3>2, <1>1 DEF ContextWith
  <2>3. CASE ~Matched
    BY <2>3, <1>1 DEF Ctx4, ContextWith, Last2, PrintingMatch2
  <2> QED  BY <2>1, <2>2, <2>3
<1>4. NextCtx =
        [line |-> IF AtEol THEN print_context.line + 1 ELSE print_context.line,
         prev_lines |-> Ring2, last_prev_line |-> LastLine2,
         prev_line_offset |-> IF AtEol THEN i + 1 ELSE print_context.prev_line_offset,
         lines_since_last_match |-> Since3,
         last_printed_match |-> Last2, in_a_match |-> InMatch2,
         printing_a_match |-> PrintingMatch2]
  <2>1. CASE AtEol
    BY <2>1, <1>3 DEF NextCtx, Trailed, Since3
  <2>2. CASE ~AtEol
    BY <2>2, <1>3 DEF NextCtx, Since3
  <2> QED  BY <2>1, <2>2
<1> QED  BY <1>2, <1>3, <1>4

\* What is printed of a line does not depend on the rest of print_context.
LEMMA ShowsLine ==
  ASSUME Printing
  PROVE  LET ctx == print_context
             plo == LineAt(Ends, i)
         IN \E f \in [(plo - 1)..i -> Shown] :
              /\ f[plo - 1] = Unshown(ctx)
              /\ \A j \in plo..i :
                   f[j] = ShowChar(f[j - 1], j) /\ f[j - 1].last <= Len(matches)
              /\ ShowLine(Ctx3) = f[i]
              /\ f[i].last <= Len(matches)
<1> DEFINE ctx == print_context
<1>1. /\ ctx \in Contexts /\ i \in Nat /\ Ends \subseteq Nat
      /\ ctx.prev_line_offset = LineAt(Ends, i)
      /\ ctx.last_printed_match <= Len(matches)
      /\ matches \in Seq(Pairs) /\ buf_len \in Nat /\ opts.width \in Nat
      /\ opts.only_matching \in BOOLEAN
  BY EndsIs DEF Printing, ContextInv, BufferIs
<1>2. LineAt(Ends, i) <= i
  <2>1. LineAt(Ends, i) \in 0..i
    BY <1>1, LineAtIs
  <2> QED  BY <2>1, <1>1
<1>3. Ctx3 = ContextWith(Ring2, LastLine2, Since2, InMatch2)
  BY <1>1, BeforeLine
<1>4. ShowLine(Ctx3) = ShowLine(ctx)
  BY <1>3 DEF ShowLine, ContextWith
<1>5. Unshown(ctx) = Unshown(ctx)
  OBVIOUS
<1>6. \E f \in [(ctx.prev_line_offset - 1)..i -> Shown] :
        /\ f[ctx.prev_line_offset - 1] = Unshown(ctx)
        /\ \A j \in ctx.prev_line_offset..i :
             f[j] = ShowChar(f[j - 1], j) /\ f[j - 1].last <= Len(matches)
        /\ ShowLine(ctx) = f[i]
        /\ f[i].last <= Len(matches)
  <2> HIDE DEF ctx
  <2> QED  BY <1>1, <1>2, ShowLineIs
<1> HIDE DEF ctx
<1> QED  BY <1>1, <1>4, <1>6 DEF ctx

\* After the character print_context is again as it should be.
LEMMA ContextKept ==
  ASSUME Printing
  PROVE  /\ ContextInv(Ends, buf_len, matches, opts, i + 1, NextCur, NextCtx)
         /\ Last2 \in 0..Len(matches) /\ PrintingMatch2 \in BOOLEAN
         /\ Since2 \in Nat /\ InMatch2 \in BOOLEAN
<1> DEFINE ctx == print_context
           n == Len(matches)
<1>1. /\ ctx \in Contexts /\ i \in Nat /\ i <= buf_len /\ Ends \subseteq Nat /\ buf_len \in Nat
      /\ ctx.line = NumAt(Ends, i) /\ ctx.prev_line_offset = LineAt(Ends, i)
      /\ cur_match \in 0..n /\ n \in Nat /\ ctx.last_printed_match \in 0..n
      /\ INT_MAX \in Nat /\ i + 1 \in 0..(buf_len + 1)
  BY EndsIs DEF Printing, ContextInv, BufferIs
<1>2. NextCur \in 0..n
  BY <1>1 DEF NextCur, Closes
<1>3. AtEol <=> i \in Ends
  BY DEF AtEol, Ends, EndsOf
<1>4. PICK f \in [(LineAt(Ends, i) - 1)..i -> Shown] :
        ShowLine(Ctx3) = f[i] /\ f[i].last <= n
  BY ShowsLine
<1>5. i \in (LineAt(Ends, i) - 1)..i
  <2>1. LineAt(Ends, i) \in 0..i
    BY <1>1, LineAtIs
  <2> QED  BY <2>1, <1>1
<1>6. ShowLine(Ctx3) \in Shown /\ ShowLine(Ctx3).last <= n
  BY <1>4, <1>5
<1>7. Last2 \in 0..n
  <2>1. Max({ctx.last_printed_match, NextCur}) =
          IF ctx.last_printed_match <= NextCur THEN NextCur ELSE ctx.last_printed_match
    BY <1>1, <1>2, MaxOfTwo
  <2>2. ShowLine(Ctx3).last \in 0..n
    BY <1>6, <1>1 DEF Shown
  <2> QED  BY <2>1, <2>2, <1>1, <1>2 DEF Last2
<1>8. PrintingMatch2 \in BOOLEAN
  BY <1>6, <1>1 DEF PrintingMatch2, Shown, Contexts
<1>9. Since2 \in Nat /\ InMatch2 \in BOOLEAN
  BY <1>1 DEF Since2, InMatch2, Contexts
<1>10. Since3 \in Nat
  BY <1>9 DEF Since3
<1>11. NumAt(Ends, i + 1) = (IF AtEol THEN ctx.line + 1 ELSE ctx.line)
       /\ LineAt(Ends, i + 1) = (IF AtEol THEN i + 1 ELSE ctx.prev_line_offset)
  BY <1>1, <1>3, NumAtIs, LineAtNext
<1>12. /\ Ring2 \in UNION {[0..(b - 1) -> Int \X Int] : b \in Nat}
       /\ DOMAIN Ring2 = 0..(opts.before - 1)
       /\ \A k \in 0..(opts.before - 1) :
            Ring2[k] = NoLine \/ \E s, e \in 0..buf_len : s <= e /\ Ring2[k] = <<s, e - 1>>
       /\ LastLine2 \in Nat
       /\ opts.before > 0 => LastLine2 < opts.before
       /\ \A c : /\ c.prev_lines = Ring2 /\ c.last_prev_line = LastLine2
                 /\ c.line = IF AtEol THEN ctx.line + 1 ELSE ctx.line
                 => RingInv(Ends, opts, c)
  BY RingKept
<1> DEFINE l2 == IF AtEol THEN ctx.line + 1 ELSE ctx.line
           o2 == IF AtEol THEN i + 1 ELSE ctx.prev_line_offset
<1>13. l2 \in Nat /\ o2 \in Nat
  BY <1>1 DEF Contexts
<1>14. NextCtx = [line |-> l2, prev_lines |-> Ring2, last_prev_line |-> LastLine2,
                  prev_line_offset |-> o2, lines_since_last_match |-> Since3,
                  last_printed_match |-> Last2, in_a_match |-> InMatch2,
                  printing_a_match |-> PrintingMatch2]
  BY <1>1, AfterChar
<1>15. RingInv(Ends, opts, NextCtx)
  <2>1. NextCtx.prev_lines = Ring2 /\ NextCtx.last_prev_line = LastLine2
        /\ NextCtx.line = IF AtEol THEN ctx.line + 1 ELSE ctx.line
    BY <1>14
  <2> HIDE DEF ctx
  <2> QED  BY <2>1, <1>12
<1>16. NextCtx \in Contexts
  <2>1. Last2 \in Nat
    BY <1>7, <1>1
  <2> HIDE DEF l2, o2
  <2> QED  BY <2>1, <1>14, <1>13, <1>12, <1>10, <1>9, <1>8 DEF Contexts
<1>17. /\ NextCtx.line = l2 /\ NextCtx.prev_line_offset = o2
       /\ NextCtx.last_printed_match = Last2 /\ NextCtx.prev_lines = Ring2
       /\ NextCtx.last_prev_line = LastLine2
  BY <1>14
<1>18. l2 = NumAt(Ends, i + 1) /\ o2 = LineAt(Ends, i + 1)
  BY <1>11
<1> HIDE DEF l2, o2, n, ctx
<1>19. ContextInv(Ends, buf_len, matches, opts, i + 1, NextCur, NextCtx)
  BY <1>1, <1>2, <1>7, <1>12, <1>15, <1>16, <1>17, <1>18 DEF ContextInv, n
<1> QED  BY <1>7, <1>8, <1>9, <1>19 DEF n

\* What is printed after the character.
LEMMA LineEnds ==
  ASSUME Printing, AtEol
  PROVE  /\ Ends \subseteq Nat /\ i \in Ends /\ i \in Nat
         /\ IsLine(Ends, print_context.line, print_context.prev_line_offset, i)
         /\ print_context.prev_line_offset = LineAt(Ends, i)
         /\ print_context.line \in Nat
         /\ Text(print_context.prev_line_offset, i - 1) \in Seq(Nat)
         /\ ContextLine(Ends, buf_len, print_context.line,
                        Line("-", print_context.line,
                             Text(print_context.prev_line_offset, i - 1)))
<1> DEFINE s == print_context.prev_line_offset
           n == print_context.line
<1>1. /\ Ends \subseteq Nat /\ i \in Ends /\ i \in Nat /\ n \in Nat
      /\ n = NumAt(Ends, i) /\ s = LineAt(Ends, i) /\ BufferIs /\ s \in Nat
  BY EndsIs DEF Printing, ContextInv, AtEol, Ends, EndsOf, Contexts
<1>2. IsLine(Ends, n, s, i)
  BY <1>1, LineEndingAt
<1> HIDE DEF n, s
<1>3. Text(s, i - 1) \in Seq(Nat) /\ ContextLine(Ends, buf_len, n, Line("-", n, Text(s, i - 1)))
  BY <1>1, <1>2, TextIs, LineIs
<1> QED  BY <1>1, <1>2, <1>3 DEF n, s

\* The end of a line adds the line, when it is close behind a match, or nothing.
LEMMA AtEveryEolIs ==
  ASSUME Printing
  PROVE  /\ AtEveryEol \in Seq(OutLine)
         /\ IF AtEol /\ Since2 \in 1..opts.after
            THEN \E l : /\ AtEveryEol = <<l>>
                        /\ ContextLine(Ends, buf_len, print_context.line, l)
            ELSE AtEveryEol = <<>>
<1>1. /\ Ctx4.lines_since_last_match = Since2 /\ Ctx4.line = print_context.line
      /\ Ctx4.prev_line_offset = print_context.prev_line_offset
  BY AfterChar DEF Printing, ContextInv
<1>2. CASE AtEol /\ Since2 \in 1..opts.after
  <2> DEFINE l == Line("-", print_context.line,
                       Text(print_context.prev_line_offset, i - 1))
  <2>1. AtEveryEol = <<l>>
    BY <1>1, <1>2 DEF AtEveryEol, TrailingLine
  <2>2. ContextLine(Ends, buf_len, print_context.line, l)
    BY <1>2, LineEnds
  <2> HIDE DEF l
  <2>3. l \in OutLine
    BY <2>2 DEF ContextLine
  <2> QED  BY <1>2, <2>1, <2>2, <2>3
<1>3. CASE ~(AtEol /\ Since2 \in 1..opts.after)
  <2>1. AtEveryEol = <<>>
    BY <1>1, <1>3 DEF AtEveryEol, TrailingLine
  <2> QED  BY <1>3, <2>1
<1> QED  BY <1>2, <1>3

\* The reports of vimgrep at the end of a line.
LEMMA AtMatchedEolIs ==
  ASSUME Printing
  PROVE  /\ AtMatchedEol \in Seq(OutLine)
         /\ ~Matched => AtMatchedEol = <<>>
         /\ Matched /\ ~opts.vimgrep =>
              /\ AtMatchedEol = <<Line(":", print_context.line, ShowLine(Ctx3).text)>>
              /\ ShowLine(Ctx3).text \in Seq(Nat)
         /\ Matched /\ opts.vimgrep =>
              LET last == print_context.last_printed_match IN
                /\ Len(AtMatchedEol) = IF last <= NextCur THEN NextCur - last ELSE 0
                /\ \A k \in 1..(NextCur - last) :
                     AtMatchedEol[k] =
                       Line(":", print_context.line,
                            <<Max({0, matches[last + k].start
                                      - print_context.prev_line_offset + 1})>>)
<1> DEFINE ctx == print_context
           last == ctx.last_printed_match
           plo == ctx.prev_line_offset
<1>1. /\ ctx \in Contexts /\ i \in Nat /\ Ends \subseteq Nat
      /\ cur_match \in 0..Len(matches) /\ last \in 0..Len(matches)
      /\ plo \in Nat /\ ctx.line \in Nat /\ matches \in Seq(Pairs) /\ Len(matches) \in Nat
      /\ \A k \in 1..Len(matches) : matches[k] \in Pairs
  <2>1. matches \in Seq(Pairs)
    BY DEF Printing
  <2>2. Len(matches) \in Nat /\ \A k \in 1..Len(matches) : matches[k] \in Pairs
    BY <2>1
  <2>3. /\ ctx \in Contexts /\ i \in 0..buf_len /\ BufferIs
        /\ cur_match \in 0..Len(matches) /\ last \in 0..Len(matches)
    BY DEF Printing, ContextInv
  <2>4. plo \in Nat /\ ctx.line \in Nat
    BY <2>3 DEF Contexts
  <2>5. i \in Nat /\ Ends \subseteq Nat
    BY <2>3, EndsIs
  <2> QED  BY <2>1, <2>2, <2>3, <2>4, <2>5
<1>2. NextCur \in 0..Len(matches)
  BY <1>1 DEF NextCur, Closes
<1>3. Ctx3.line = ctx.line /\ Ctx3.prev_line_offset = plo /\ Ctx3.last_printed_match = last
  BY <1>1, BeforeLine DEF ContextWith
<1>4. CASE ~Matched
  BY <1>4 DEF AtMatchedEol
<1>5. CASE Matched /\ ~opts.vimgrep
  <2>1. PICK f \in [(LineAt(Ends, i) - 1)..i -> Shown] : ShowLine(Ctx3) = f[i]
    <3>1. Printing
      OBVIOUS
    <3> QED  BY <3>1, ShowsLine
  <2>2. i \in (LineAt(Ends, i) - 1)..i
    <3>1. LineAt(Ends, i) \in 0..i
      BY <1>1, LineAtIs
    <3> QED  BY <3>1, <1>1
  <2> DEFINE t == ShowLine(Ctx3).text
  <2>3. t \in Seq(Nat)
    BY <2>1, <2>2 DEF Shown
  <2>4. AtMatchedEol = <<Line(":", ctx.line, t)>>
    BY <1>3, <1>5 DEF AtMatchedEol, MatchingLine
  <2> HIDE DEF t
  <2>5. Line(":", ctx.line, t) \in OutLine
    BY <2>3, <1>1 DEF Line, OutLine
  <2>6. AtMatchedEol \in Seq(OutLine)
    BY <2>4, <2>5
  <2> QED  BY <1>5, <2>3, <2>4, <2>6 DEF t
<1>6. CASE Matched /\ opts.vimgrep
  <2> DEFINE l(k) == Line(":", ctx.line, <<Max({0, matches[last + k].start - plo + 1})>>)
             s == [k \in 1..(NextCur - last) |-> l(k)]
             m == IF last <= NextCur THEN NextCur - last ELSE 0
  <2>1. AtMatchedEol = s
    BY <1>3, <1>6 DEF AtMatchedEol, MatchingLine
  <2>2. ASSUME NEW k \in 1..(NextCur - last)  PROVE l(k) \in OutLine
    <3>1. last + k \in 1..Len(matches)
      <4>1. last \in Nat /\ NextCur \in Nat /\ NextCur <= Len(matches) /\ Len(matches) \in Nat
        BY <1>1, <1>2
      <4> HIDE DEF last
      <4> QED  BY <4>1
    <3>2. matches[last + k].start \in Nat
      BY <3>1, <1>1 DEF Pairs
    <3> DEFINE c == matches[last + k].start - plo + 1
    <3>3. c \in Int
      BY <3>2, <1>1
    <3>4. Max({0, c}) \in Nat
      <4> HIDE DEF c
      <4>1. Max({0, c}) = IF 0 <= c THEN c ELSE 0
        BY <3>3, MaxOfTwo
      <4> QED  BY <4>1, <3>3
    <3> DEFINE x == Max({0, c})
    <3>5. <<x>> \in Seq(Nat)
      <4> HIDE DEF x
      <4> QED  BY <3>4 DEF x
    <3> HIDE DEF x
    <3>6. Line(":", ctx.line, <<x>>) \in OutLine
      BY <3>5, <1>1 DEF Line, OutLine
    <3> QED  BY <3>6 DEF x
  <2>3. m \in Nat /\ 1..(NextCur - last) = 1..m
    BY <1>1, <1>2
  <2> HIDE DEF l, m
  <2>4. s \in Seq(OutLine) /\ Len(s) = m
    <3>1. s = [k \in 1..m |-> l(k)]
      BY <2>3
    <3>2. \A k \in 1..m : l(k) \in OutLine
      BY <2>2, <2>3
    <3> HIDE DEF s
    <3> QED  BY <3>1, <3>2, <2>3
  <2>5. \A k \in 1..(NextCur - last) : s[k] = l(k)
    OBVIOUS
  <2> HIDE DEF s
  <2> QED  BY <1>6, <2>1, <2>4, <2>5 DEF l, m
<1> QED  BY <1>4, <1>5, <1>6

Parts ==
  IF /\ cur_match > 0 /\ opts.before + opts.after > 0
     /\ PassedOver(print_context)
  THEN <<Separator>> ELSE <<>>

\* A separator is a line of the output.
LEMMA SeparatorIs ==
  Separator \in OutLine /\ Separator.sep = "--" /\ Len(<<Separator>>) = 1
  BY DEF Separator, Line, OutLine

\* What is printed where a match starts.
LEMMA AtStartIs ==
  ASSUME Printing
  PROVE  /\ AtStart \in Seq(OutLine)
         /\ ~Opens => AtStart = <<>>
         /\ Opens => \E y : /\ AtStart = Parts \o y /\ Parts \in Seq(OutLine)
                            /\ LinesBefore(Ends, buf_len, print_context.line,
                                           Least(LinesToPrint(print_context),
                                                 print_context.line - 1), y)
<1>1. CASE ~Opens
  BY <1>1 DEF AtStart
<1>2. CASE Opens
  <2> DEFINE ctx == print_context
             c == Least(LinesToPrint(ctx), ctx.line - 1)
             y == IF ctx.lines_since_last_match > 0 THEN ContextBefore(ctx) ELSE <<>>
  <2>1. /\ ctx \in Contexts /\ BufferIs /\ Ends \subseteq Nat /\ i \in Nat
        /\ opts.before > 0 => ctx.last_prev_line < opts.before
        /\ RingInv(Ends, opts, ctx) /\ ctx.line = NumAt(Ends, i)
    BY EndsIs DEF Printing, ContextInv
  <2>2. ctx.line > 0
    <3>1. NumAt(Ends, i) \in 1..(i + 1)
      BY <2>1, NumAtIs
    <3> HIDE DEF ctx
    <3> QED  BY <3>1, <2>1
  <2>3. LinesBefore(Ends, buf_len, ctx.line, c, ContextBefore(ctx))
    <3> HIDE DEF ctx
    <3> QED  BY <2>1, <2>2, ContextBeforeIs
  <2>4. AtStart = Parts \o y
    BY <1>2 DEF AtStart, MatchStarts, Parts
  <2>5. LinesBefore(Ends, buf_len, ctx.line, c, y)
    <3>1. CASE ctx.lines_since_last_match > 0
      BY <3>1, <2>3
    <3>2. CASE ~(ctx.lines_since_last_match > 0)
      <4>1. y = <<>> /\ ctx.lines_since_last_match \in Nat /\ ctx.line \in Nat
            /\ opts.after \in Nat
        BY <3>2, <2>1 DEF Contexts, BufferIs
      <4>2. LinesToPrint(ctx) = 0
        <5> HIDE DEF ctx
        <5>1. ctx.lines_since_last_match <= opts.after
          BY <4>1, <3>2
        <5> QED  BY <5>1, <2>1, LinesToPrintIs
      <4>3. c = 0
        BY <4>1, <4>2, <2>2 DEF Least
      <4> HIDE DEF c, y, ctx
      <4>4. Len(y) = 0 /\ 1..c = {} /\ y \in Seq(OutLine)
        BY <4>1, <4>3
      <4> QED  BY <4>3, <4>4 DEF LinesBefore
    <3> QED  BY <3>1, <3>2
  <2>6. Parts \in Seq(OutLine) /\ y \in Seq(OutLine)
    <3>1. Parts \in Seq(OutLine)
      BY SeparatorIs DEF Parts
    <3> HIDE DEF y
    <3> QED  BY <3>1, <2>5 DEF LinesBefore
  <2> HIDE DEF y, c
  <2>7. AtStart \in Seq(OutLine)
    BY <2>4, <2>6
  <2> QED  BY <1>2, <2>4, <2>5, <2>6, <2>7 DEF c
<1> QED  BY <1>1, <1>2

-----------------------------------------------------------------------------
(* The types                                                                *)

\* What is known while lines are printed.
LEMMA PrintingIs ==
  ASSUME MatchInv, TypesInv
  PROVE  BufferIs /\ (LoopGoesOn => Printing)
<1>1. /\ buf_len \in 1..MaxLength /\ newlines \subseteq Places
      /\ matches \in Seq(Pairs)
      /\ \A k \in DOMAIN matches : matches[k].start <= matches[k].end
  BY DEF MatchInv, BufferInv, StoredInv
<1>2. /\ opts \in Formats
      /\ opts \in [before : Nat, after : Nat, only_matching : BOOLEAN,
                   vimgrep : BOOLEAN, width : Nat]
      /\ INT_MAX \in Nat /\ opts.after + MaxLength < INT_MAX /\ MaxLength \in Nat
  BY PrintFileAssumption, MatchLoopAssumption DEF TypesInv
<1>3. BufferIs
  <2>1. newlines \subseteq 0..(buf_len - 1)
    BY <1>1 DEF Places
  <2>2. buf_len \in Nat \ {0} /\ buf_len <= MaxLength /\ opts.after + buf_len < INT_MAX
    BY <1>1, <1>2
  <2> QED  BY <1>2, <2>1, <2>2 DEF BufferIs
<1>4. ASSUME LoopGoesOn  PROVE Printing
  <2>1. printing = "lines" /\ i <= buf_len
    BY <1>4 DEF LoopGoesOn
  <2>2. ContextInv(Ends, buf_len, matches, opts, i, cur_match, print_context)
    BY <2>1 DEF TypesInv
  <2>3. i \in 0..buf_len
    BY <2>1, <2>2, <1>1 DEF ContextInv
  <2> QED  BY <1>1, <1>3, <2>2, <2>3 DEF Printing
<1> QED  BY <1>3, <1>4

\* What print_context is before the first character.
LEMMA NewContextInv ==
  ASSUME BufferIs
  PROVE  ContextInv(Ends, buf_len, matches, opts, 0, 0, NewContext(opts.before))
<1> DEFINE b == opts.before
           c == NewContext(b)
           r == [k \in 0..(b - 1) |-> NoLine]
<1>1. b \in Nat /\ buf_len \in Nat /\ Ends \subseteq Nat /\ INT_MAX \in Nat
  BY EndsIs DEF BufferIs
<1>2. c = [line |-> 1, prev_lines |-> r, last_prev_line |-> 0, prev_line_offset |-> 0,
           lines_since_last_match |-> INT_MAX, last_printed_match |-> 0,
           in_a_match |-> FALSE, printing_a_match |-> FALSE]
  BY DEF NewContext
<1>3. NumAt(Ends, 0) = 1 /\ LineAt(Ends, 0) = 0
  <2>1. NumAt(Ends, 0) \in 1..(0 + 1)
    BY <1>1, NumAtIs
  <2>2. LineAt(Ends, 0) \in 0..0
    BY <1>1, LineAtIs
  <2> QED  BY <2>1, <2>2
<1> HIDE DEF b
<1>4. /\ r \in [0..(b - 1) -> Int \X Int] /\ DOMAIN r = 0..(b - 1)
      /\ \A k \in 0..(b - 1) : r[k] = NoLine
  <2>1. NoLine \in Int \X Int
    BY DEF NoLine
  <2> QED  BY <2>1
<1> HIDE DEF r
<1>5. c \in Contexts
  <2>1. r \in UNION {[0..(k - 1) -> Int \X Int] : k \in Nat}
    BY <1>4, <1>1
  <2> HIDE DEF c
  <2> QED  BY <1>1, <1>2, <2>1 DEF Contexts
<1> HIDE DEF c
<1>6. RingInv(Ends, opts, c)
  <2> SUFFICES ASSUME b > 0, NEW d \in 1..b
               PROVE  /\ c.prev_lines[Slot(b, c.last_prev_line, d)] = NoLine
                      /\ ~(d < c.line)
    BY DEF RingInv, b
  <2>1. c.line = 1 /\ c.prev_lines = r /\ c.last_prev_line = 0
    BY <1>2
  <2>2. Slot(b, 0, d) \in 0..(b - 1)
    BY <1>1 DEF Slot
  <2> QED  BY <2>1, <2>2, <1>4
<1>7. /\ c.line = 1 /\ c.prev_line_offset = 0 /\ c.last_printed_match = 0
      /\ c.prev_lines = r /\ c.last_prev_line = 0
  BY <1>2
<1>8. 0 \in 0..(buf_len + 1) /\ 0 \in 0..Len(matches)
  BY <1>1
<1>9. b > 0 => c.last_prev_line < b
  BY <1>7
<1>10. ContextInv(Ends, buf_len, matches, opts, 0, 0, c)
  BY <1>3, <1>4, <1>5, <1>6, <1>7, <1>8, <1>9 DEF ContextInv, b
<1> QED  BY <1>10 DEF c, b

\* The types at first ...
LEMMA TypesInit == PrintInit => TypesInv
<1> SUFFICES ASSUME PrintInit  PROVE TypesInv
  OBVIOUS
<1>1. opts = (CHOOSE f \in Formats : TRUE) /\ printing = "no" /\ i = 0 /\ cur_match = 0
      /\ print_context = NewContext(0) /\ output = <<>>
  BY DEF PrintInit
<1>2. opts \in Formats
  BY <1>1, PrintFileAssumption
<1> QED  BY <1>1, <1>2 DEF TypesInv

\* What is left alone keeps its type.
LEMMA TypesKept ==
  ASSUME MatchInv, MatchInv', TypesInv, UNCHANGED pvars,
         printing # "no" => UNCHANGED <<buf_len, newlines, matches, phase>>
  PROVE  TypesInv'
<1>1. /\ printing' = printing /\ opts' = opts /\ output' = output /\ i' = i
      /\ cur_match' = cur_match /\ print_context' = print_context
  BY DEF pvars
<1>2. printing # "no" => Ends' = Ends
  BY DEF Ends
<1> QED  BY <1>1, <1>2 DEF TypesInv

\* The options have been chosen.
LEMMA BufferStart ==
  ASSUME MatchInv', StartPrint
  PROVE  BufferIs'
<1>1. opts' \in Formats /\ INT_MAX \in Nat
  BY PrintFileAssumption DEF StartPrint
<1>2. opts' \in [before : Nat, after : Nat, only_matching : BOOLEAN,
                 vimgrep : BOOLEAN, width : Nat]
      /\ opts'.after + MaxLength < INT_MAX /\ MaxLength \in Nat
  BY <1>1, PrintFileAssumption, MatchLoopAssumption
<1>3. buf_len' \in 1..MaxLength /\ newlines' \subseteq 0..(buf_len' - 1)
  BY DEF MatchInv, BufferInv, Places
<1>4. buf_len' \in Nat \ {0} /\ buf_len' <= MaxLength /\ opts'.after + buf_len' < INT_MAX
  <2>1. opts'.after \in Nat
    BY <1>2
  <2> QED  BY <2>1, <1>1, <1>2, <1>3
<1> QED  BY <1>1, <1>2, <1>3, <1>4 DEF BufferIs

\* ... when the printing starts ...
LEMMA TypesStart ==
  ASSUME MatchInv, TypesInv, StartPrint, BufferIs'
  PROVE  TypesInv'
<1>1. /\ printing = "no" /\ phase = "done" /\ matches # <<>> /\ opts' \in Formats
      /\ print_context' = NewContext(opts'.before) /\ printing' = "lines"
      /\ UNCHANGED <<given, matches, phase, found, i, cur_match, output>>
  BY DEF StartPrint
<1>2. i' = 0 /\ cur_match' = 0 /\ output' = <<>> /\ matches' = matches /\ phase' = phase
  BY <1>1 DEF TypesInv
<1>3. ContextInv(Ends, buf_len, matches, opts, 0, 0, NewContext(opts.before))'
  BY NewContextInv, PTL
<1>4. ContextInv(Ends', buf_len', matches', opts', 0, 0, NewContext(opts'.before))
  BY <1>3
<1>5. <<>> \in Seq(OutLine)
  OBVIOUS
<1> QED  BY <1>1, <1>2, <1>4, <1>5 DEF TypesInv

\* ... after a character ...
LEMMA TypesChar ==
  ASSUME MatchInv, TypesInv, PrintChar
  PROVE  TypesInv'
<1>1. /\ LoopGoesOn /\ cur_match' = NextCur /\ print_context' = NextCtx
      /\ output' = output \o AtStart \o AtMatchedEol \o AtEveryEol
      /\ i' = i + 1 /\ UNCHANGED <<match_vars, opts, printing>>
  BY PrintCharIs
<1>2. Printing /\ printing = "lines"
  BY <1>1, PrintingIs DEF LoopGoesOn
<1>3. /\ buf_len' = buf_len /\ newlines' = newlines /\ matches' = matches /\ phase' = phase
      /\ opts' = opts /\ printing' = printing
  BY <1>1 DEF match_vars, given
<1>4. ContextInv(Ends, buf_len, matches, opts, i + 1, NextCur, NextCtx)
  BY <1>2, ContextKept
<1>5. Ends' = Ends
  BY <1>3 DEF Ends
<1>6. ContextInv(Ends', buf_len', matches', opts', i', cur_match', print_context')
  BY <1>1, <1>3, <1>4, <1>5
<1>7. output' \in Seq(OutLine)
  <2>1. output \in Seq(OutLine) /\ AtStart \in Seq(OutLine)
        /\ AtMatchedEol \in Seq(OutLine) /\ AtEveryEol \in Seq(OutLine)
    BY <1>2, AtStartIs, AtMatchedEolIs, AtEveryEolIs DEF TypesInv
  <2>2. output \o AtStart \in Seq(OutLine)
    BY <2>1, ConcatProperties
  <2>3. output \o AtStart \o AtMatchedEol \in Seq(OutLine)
    BY <2>1, <2>2, ConcatProperties
  <2>4. output \o AtStart \o AtMatchedEol \o AtEveryEol \in Seq(OutLine)
    BY <2>1, <2>3, ConcatProperties
  <2> QED  BY <2>4, <1>1
<1> QED  BY <1>2, <1>3, <1>6, <1>7 DEF TypesInv

\* ... and when the loop has ended.
LEMMA TypesEnd ==
  ASSUME MatchInv, TypesInv, EndPrint
  PROVE  TypesInv'
<1>1. /\ printing = "lines" /\ printing' = "done"
      /\ UNCHANGED <<match_vars, opts, i, cur_match, print_context, output>>
  BY DEF EndPrint
<1>2. /\ buf_len' = buf_len /\ newlines' = newlines /\ matches' = matches /\ phase' = phase
      /\ opts' = opts /\ i' = i /\ cur_match' = cur_match
      /\ print_context' = print_context /\ output' = output
  BY <1>1 DEF match_vars, given
<1>3. Ends' = Ends
  BY <1>2 DEF Ends
<1> QED  BY <1>1, <1>2, <1>3 DEF TypesInv

\* Nothing is searched while lines are printed.
LEMMA SearchedBefore ==
  ASSUME TypesInv, [MatchNext]_match_vars, printing # "no"
  PROVE  UNCHANGED <<buf_len, newlines, matches, phase>>
<1>1. phase = "done"
  BY DEF TypesInv
<1>2. ~MatchNext
  BY <1>1 DEF MatchNext, ExecBuffer, GetLine, ExecLine, EndLine, EndSearch, KeepMatches,
              InvertNothing, StartInvert, InvertAtMatch, InvertAtEnd, InvertAtChar,
              InvertReturn, InvertLoop
<1> QED  BY <1>2 DEF match_vars, given

\* Every step keeps the types.
LEMMA TypesStep ==
  ASSUME MatchInv, MatchInv', TypesInv, [PrintNext]_allvars
  PROVE  TypesInv'
<1>1. CASE SearchStep
  <2>1. UNCHANGED pvars /\ (printing # "no" => UNCHANGED <<buf_len, newlines, matches, phase>>)
    BY <1>1, SearchedBefore DEF SearchStep
  <2> QED  BY <2>1, TypesKept
<1>2. CASE StartPrint
  BY <1>2, BufferStart, TypesStart
<1>3. CASE PrintChar
  BY <1>3, TypesChar
<1>4. CASE EndPrint
  BY <1>4, TypesEnd
<1>5. CASE UNCHANGED allvars
  <2>1. UNCHANGED pvars /\ UNCHANGED <<buf_len, newlines, matches, phase>>
    BY <1>5 DEF allvars, match_vars, given
  <2> QED  BY <2>1, TypesKept
<1> QED  BY <1>1, <1>2, <1>3, <1>4, <1>5 DEF PrintNext

\* They are what the type invariant says.
LEMMA TypesHold == MatchInv /\ TypesInv => PrintTypeOK
<1> SUFFICES ASSUME MatchInv, TypesInv  PROVE PrintTypeOK
  OBVIOUS
<1>0. MatchTypeOK /\ BufferIs /\ buf_len \in Nat
  BY PrintingIs DEF MatchInv, BufferIs
<1>1. CASE printing = "no"
  <2>1. i = 0 /\ cur_match = 0 /\ print_context = NewContext(0)
    BY <1>1 DEF TypesInv
  <2>2. /\ print_context.line = 1 /\ print_context.last_printed_match = 0
        /\ print_context.prev_line_offset = 0
        /\ \A k \in DOMAIN print_context.prev_lines : print_context.prev_lines[k] = NoLine
    BY <2>1 DEF NewContext
  <2>3. matches \in Seq(Pairs) /\ Len(matches) \in Nat
    BY DEF MatchInv, StoredInv
  <2> QED  BY <1>0, <1>1, <2>1, <2>2, <2>3 DEF PrintTypeOK, TypesInv
<1>2. CASE printing # "no"
  <2> DEFINE ctx == print_context
  <2>1. /\ i \in 0..(buf_len + 1) /\ cur_match \in 0..Len(matches)
        /\ ctx.line = NumAt(Ends, i) /\ ctx.prev_line_offset = LineAt(Ends, i)
        /\ ctx.last_printed_match \in 0..Len(matches)
        /\ DOMAIN ctx.prev_lines = 0..(opts.before - 1)
        /\ \A k \in 0..(opts.before - 1) :
             \/ ctx.prev_lines[k] = NoLine
             \/ \E s, e \in 0..buf_len : s <= e /\ ctx.prev_lines[k] = <<s, e - 1>>
    BY <1>2 DEF TypesInv, ContextInv
  <2>2. NumAt(Ends, i) \in 1..(i + 1) /\ LineAt(Ends, i) \in 0..i
    <3>1. i \in Nat /\ Ends \subseteq Nat
      BY <1>0, <2>1, EndsIs
    <3> QED  BY <3>1, NumAtIs, LineAtIs
  <2>3. ctx.line \in 1..(buf_len + 2) /\ ctx.prev_line_offset \in 0..(buf_len + 1)
    BY <1>0, <2>1, <2>2
  <2>4. ASSUME NEW k \in DOMAIN ctx.prev_lines, ctx.prev_lines[k] # NoLine
        PROVE  ctx.prev_lines[k][1] \in 0..buf_len
               /\ ctx.prev_lines[k][2] \in (ctx.prev_lines[k][1] - 1)..(buf_len - 1)
    <3>1. PICK s \in 0..buf_len, e \in 0..buf_len :
            s <= e /\ ctx.prev_lines[k] = <<s, e - 1>>
      <4> HIDE DEF ctx
      <4> QED  BY <2>1, <2>4
    <3>2. e - 1 \in (s - 1)..(buf_len - 1)
      BY <1>0, <3>1
    <3> QED  BY <3>1, <3>2
  <2> HIDE DEF ctx
  <2> QED  BY <1>0, <2>1, <2>3, <2>4 DEF PrintTypeOK, TypesInv, ctx
<1> QED  BY <1>1, <1>2

\* Every line that print_context keeps is one of the buffer, and the line of the place
\* where print_file_matches is has the number and the start that it says.
THEOREM PrintTyped == PrintSpec => []PrintTypeOK
<1>1. PrintInit => TypesInv
  BY TypesInit
<1>2. MatchInv /\ MatchInv' /\ TypesInv /\ [PrintNext]_allvars => TypesInv'
  BY TypesStep
<1>3. MatchInv /\ TypesInv => PrintTypeOK
  BY TypesHold
<1> QED  BY <1>1, <1>2, <1>3, MatchesInvariant, PTL DEF PrintSpec

-----------------------------------------------------------------------------
(* Matches that lie apart                                                   *)

\* The matches, when they lie apart in the buffer.
ApartIn(M, len) ==
  /\ M \in Seq(Pairs) /\ len \in Nat
  /\ \A k \in DOMAIN M : M[k].start <= M[k].end
  /\ Separate(M, len)

\* Each ends before all that come after it start.
LEMMA ApartIs ==
  ASSUME NEW M, NEW len, ApartIn(M, len)
  PROVE  /\ Len(M) \in Nat /\ DOMAIN M = 1..Len(M)
         /\ \A k \in 1..Len(M) : /\ M[k].start \in Nat /\ M[k].end \in Nat
                                 /\ M[k].start <= M[k].end /\ M[k].end <= len
         /\ \A j, k \in 1..Len(M) : j < k => M[j].end < M[k].start
<1> DEFINE n == Len(M)
<1>1. n \in Nat /\ DOMAIN M = 1..n /\ \A k \in 1..n : M[k] \in Pairs
  BY DEF ApartIn
<1>2. \A k \in 1..n : M[k].start \in Nat /\ M[k].end \in Nat
  BY <1>1 DEF Pairs
<1>3. /\ \A k \in 1..n : M[k].start <= M[k].end /\ M[k].end <= len
      /\ \A k \in 1..(n - 1) : M[k].end < M[k + 1].start
  BY <1>1 DEF ApartIn, Separate
<1> DEFINE Wrong == {d \in Nat : \E j \in 1..n : j + 1 + d \in 1..n
                                   /\ ~(M[j].end < M[j + 1 + d].start)}
<1> HIDE DEF n
<1>4. Wrong = {}
  <2> SUFFICES ASSUME Wrong # {}  PROVE FALSE
    OBVIOUS
  <2>1. PICK d \in Wrong : \A x \in Wrong : d <= x
    <3>1. Wrong \subseteq Nat
      OBVIOUS
    <3> HIDE DEF Wrong
    <3> QED  BY <3>1, LowestExists
  <2>2. PICK j \in 1..n : j + 1 + d \in 1..n /\ ~(M[j].end < M[j + 1 + d].start)
    BY <2>1
  <2>3. d \in Nat
    BY <2>1
  <2>4. d # 0
    <3> SUFFICES ASSUME d = 0  PROVE FALSE
      OBVIOUS
    <3>1. j + 1 + d = j + 1 /\ j \in 1..(n - 1)
      BY <1>1, <2>2
    <3> QED  BY <3>1, <2>2, <1>3
  <2> DEFINE k == j + d
  <2>5. k \in 1..n /\ k \in 1..(n - 1) /\ k + 1 = j + 1 + d /\ k = j + 1 + (d - 1)
        /\ d - 1 \in Nat
    BY <1>1, <2>2, <2>3, <2>4
  <2>6. M[j].end < M[k].start
    <3>1. d - 1 \notin Wrong
      <4>1. ~(d <= d - 1)
        BY <2>3
      <4> HIDE DEF Wrong
      <4> QED  BY <2>1, <4>1
    <3> HIDE DEF k
    <3> QED  BY <3>1, <2>5
  <2> HIDE DEF k
  <2>7. M[k].end < M[k + 1].start /\ M[k].start <= M[k].end
    BY <2>5, <1>3
  <2>8. k + 1 \in 1..n
    BY <2>2, <2>5
  <2>9. M[j].end < M[k + 1].start
    BY <2>5, <2>6, <2>7, <2>8, <1>2
  <2> QED  BY <2>9, <2>2, <2>5
<1>5. ASSUME NEW j \in 1..n, NEW k \in 1..n, j < k
      PROVE  M[j].end < M[k].start
  <2> DEFINE d == k - (j + 1)
  <2>1. d \in Nat /\ j + 1 + d = k
    BY <1>5
  <2>2. d \notin Wrong
    BY <1>4
  <2> HIDE DEF d
  <2> QED  BY <2>1, <2>2
<1> QED  BY <1>1, <1>2, <1>3, <1>5 DEF n

\* Only the match after the last one that has ended can start or end at p.
LEMMA AtPlace ==
  ASSUME NEW M, NEW len, ApartIn(M, len), NEW c \in 0..Len(M), NEW p \in Nat,
         EndBefore(M, c, p)
  PROVE  LET op == c < Len(M) /\ p = M[c + 1].start
             cl == c < Len(M) /\ p = M[c + 1].end
             c2 == IF cl THEN c + 1 ELSE c
         IN /\ op <=> \E k \in DOMAIN M : M[k].start = p
            /\ cl <=> \E k \in DOMAIN M : M[k].end = p
            /\ c2 \in 0..Len(M) /\ EndBefore(M, c2, p + 1)
            /\ Across(M, p + 1) <=> ~cl /\ (op \/ Across(M, p))
            /\ (c2 < Len(M) /\ p = M[c2 + 1].start) <=> op /\ ~cl
            /\ op => ~Across(M, p)
<1> DEFINE n == Len(M)
           op == c < n /\ p = M[c + 1].start
           cl == c < n /\ p = M[c + 1].end
           c2 == IF cl THEN c + 1 ELSE c
<1>1. /\ n \in Nat /\ DOMAIN M = 1..n
      /\ \A k \in 1..n : /\ M[k].start \in Nat /\ M[k].end \in Nat
                         /\ M[k].start <= M[k].end
      /\ \A j, k \in 1..n : j < k => M[j].end < M[k].start
  BY ApartIs
<1>2. c \in 0..n /\ c \in Nat
  BY <1>1
<1>3. \A k \in 1..n : k <= c <=> M[k].end < p
  BY <1>1 DEF EndBefore
<1> HIDE DEF n
<1>4. c < n => c + 1 \in 1..n
  BY <1>1, <1>2
<1>5. ASSUME NEW k \in 1..n, k > c
      PROVE  c < n /\ (k = c + 1 \/ (k > c + 1 /\ M[c + 1].end < M[k].start))
             /\ p <= M[k].end /\ p <= M[c + 1].end
  <2>1. c < n /\ (k = c + 1 \/ k > c + 1)
    BY <1>1, <1>2, <1>5
  <2>2. ~(k <= c) /\ ~(c + 1 <= c)
    BY <1>2, <1>5
  <2>3. p <= M[k].end /\ p <= M[c + 1].end
    BY <2>1, <2>2, <1>1, <1>3, <1>4
  <2> QED  BY <2>1, <2>3, <1>1, <1>4
<1>6. op <=> \E k \in 1..n : M[k].start = p
  <2>1. ASSUME NEW k \in 1..n, M[k].start = p  PROVE op
    <3>1. ~(k <= c)
      BY <1>1, <1>3, <2>1
    <3>2. k > c
      BY <3>1, <1>2
    <3>3. k = c + 1 /\ c < n
      BY <3>2, <1>1, <1>4, <1>5, <2>1, SMTT(30)
    <3> QED  BY <3>3, <2>1
  <2>2. op => \E k \in 1..n : M[k].start = p
    BY <1>4
  <2> HIDE DEF op
  <2> QED  BY <2>1, <2>2
<1>7. cl <=> \E k \in 1..n : M[k].end = p
  <2>1. ASSUME NEW k \in 1..n, M[k].end = p  PROVE cl
    <3>1. ~(k <= c)
      BY <1>1, <1>3, <2>1
    <3>2. k > c
      BY <3>1, <1>2
    <3>3. k = c + 1 /\ c < n
      BY <3>2, <1>1, <1>4, <1>5, <2>1
    <3> QED  BY <3>3, <2>1
  <2>2. cl => \E k \in 1..n : M[k].end = p
    BY <1>4
  <2> HIDE DEF cl
  <2> QED  BY <2>1, <2>2
<1>8. c2 \in 0..n
  BY <1>1, <1>2
<1>9. ASSUME NEW k \in 1..n  PROVE k <= c2 <=> M[k].end < p + 1
  <2>1. M[k].end < p + 1 <=> M[k].end < p \/ M[k].end = p
    BY <1>1
  <2>2. CASE cl
    <3>1. M[k].end = p => k = c + 1
      <4> SUFFICES ASSUME M[k].end = p  PROVE k = c + 1
        OBVIOUS
      <4>1. k > c
        <5>1. ~(k <= c)
          BY <1>1, <1>3
        <5> QED  BY <5>1, <1>2
      <4>2. k = c + 1 \/ M[c + 1].end < M[k].start
        BY <4>1, <1>5
      <4>3. p <= M[c + 1].end /\ c + 1 \in 1..n
        BY <4>1, <1>4, <1>5
      <4>4. ~(M[c + 1].end < M[k].start)
        BY <4>3, <1>1
      <4> QED  BY <4>2, <4>4
    <3>2. k = c + 1 => M[k].end = p
      BY <2>2
    <3>3. k <= c2 <=> k <= c \/ k = c + 1
      BY <2>2, <1>2
    <3> HIDE DEF c2
    <3> QED  BY <3>1, <3>2, <3>3, <2>1, <1>3
  <2>3. CASE ~cl
    BY <2>1, <2>3, <1>3, <1>7
  <2> QED  BY <2>2, <2>3
<1>10. Across(M, p + 1) <=> ~cl /\ (op \/ Across(M, p))
  <2>1. ASSUME NEW k \in 1..n, M[k].start < p + 1, p + 1 <= M[k].end
        PROVE  ~cl /\ (op \/ Across(M, p))
    <3>1. ~(k <= c) /\ p <= M[k].end
      BY <1>1, <1>3, <2>1
    <3>2. k > c
      BY <3>1, <1>2
    <3>3. k = c + 1
      BY <3>2, <1>1, <1>4, <1>5, <2>1
    <3>4. ~cl
      BY <3>3, <2>1, <1>1
    <3>5. M[k].start = p \/ M[k].start < p
      BY <2>1, <1>1
    <3>6. M[k].start = p => op
      BY <1>6
    <3>7. M[k].start < p => Across(M, p)
      BY <3>1, <1>1 DEF Across
    <3> QED  BY <3>4, <3>5, <3>6, <3>7
  <2>2. ASSUME ~cl, op  PROVE Across(M, p + 1)
    <3>1. c + 1 \in 1..n /\ M[c + 1].start = p /\ M[c + 1].end # p
      BY <2>2, <1>4
    <3>2. M[c + 1].start < p + 1 /\ p + 1 <= M[c + 1].end
      BY <3>1, <1>1
    <3> QED  BY <3>1, <3>2, <1>1 DEF Across
  <2>3. ASSUME ~cl, Across(M, p)  PROVE Across(M, p + 1)
    <3>1. PICK k \in 1..n : M[k].start < p /\ p <= M[k].end
      BY <2>3, <1>1 DEF Across
    <3>2. M[k].end # p
      BY <2>3, <1>7
    <3>3. M[k].start < p + 1 /\ p + 1 <= M[k].end
      BY <3>1, <3>2, <1>1
    <3> QED  BY <3>3, <1>1 DEF Across
  <2>4. Across(M, p + 1) => \E k \in 1..n : M[k].start < p + 1 /\ p + 1 <= M[k].end
    BY <1>1 DEF Across
  <2> HIDE DEF cl, op
  <2> QED  BY <2>1, <2>2, <2>3, <2>4
<1>11. (c2 < n /\ p = M[c2 + 1].start) <=> op /\ ~cl
  <2>1. CASE cl
    <3>1. c2 = c + 1
      BY <2>1
    <3>2. ASSUME c2 < n, p = M[c2 + 1].start  PROVE FALSE
      <4>1. c2 + 1 \in 1..n /\ c + 1 \in 1..n /\ c + 1 < c2 + 1
        BY <3>1, <3>2, <1>1, <1>2
      <4> QED  BY <4>1, <3>2, <2>1, <1>1
    <3> QED  BY <2>1, <3>2
  <2>2. CASE ~cl
    BY <2>2
  <2> QED  BY <2>1, <2>2
<1>12. op => ~Across(M, p)
  <2> SUFFICES ASSUME op, NEW k \in 1..n, M[k].start < p, p <= M[k].end  PROVE FALSE
    BY <1>1 DEF Across
  <2>1. ~(k <= c)
    BY <1>1, <1>3
  <2>2. k > c
    BY <2>1, <1>2
  <2>3. k # c + 1
    BY <1>4, <1>1
  <2>4. M[c + 1].end < M[k].start /\ c + 1 \in 1..n
    BY <2>2, <2>3, <1>4, <1>5
  <2> QED  BY <2>4, <1>1
<1>13. EndBefore(M, c2, p + 1)
  BY <1>1, <1>9 DEF EndBefore
<1> QED  BY <1>1, <1>6, <1>7, <1>8, <1>10, <1>11, <1>12, <1>13 DEF n

-----------------------------------------------------------------------------
(* The lines touched so far                                                 *)

\* What a match that starts up to a place touches of the lines up to its own.
LEMMA ReachesIs ==
  ASSUME NEW E, E \subseteq Nat, NEW s \in Nat, NEW e \in Nat, s <= e,
         NEW p \in Nat
  PROVE  /\ NumAt(E, s) \in Nat /\ NumAt(E, e) \in Nat /\ NumAt(E, p) \in Nat
         /\ NumAt(E, s) >= 1
         /\ s <= p => NumAt(E, s) <= NumAt(E, p)
         /\ p <= e => NumAt(E, p) <= NumAt(E, e)
         /\ e < LineAt(E, p) => NumAt(E, e) < NumAt(E, p)
         /\ LineAt(E, p) <= e /\ e <= p => NumAt(E, e) = NumAt(E, p)
         /\ p \in E /\ p < e => NumAt(E, p) < NumAt(E, e)
         /\ p \in E /\ p < s => NumAt(E, p) < NumAt(E, s)
<1>1. NumAt(E, s) \in 1..(s + 1) /\ NumAt(E, e) \in 1..(e + 1) /\ NumAt(E, p) \in 1..(p + 1)
  BY NumAtIs
<1>2. LineAt(E, p) \in 0..p /\ StartsLine(E, LineAt(E, p)) /\ NoneFrom(E, LineAt(E, p), p)
  BY LineAtIs
<1>3. LineAt(E, p) \in Nat /\ LineAt(E, p) <= p
  BY <1>2
<1>4. (s <= p => NumAt(E, s) <= NumAt(E, p)) /\ (p <= e => NumAt(E, p) <= NumAt(E, e))
  BY NumAtMonotone
<1>5. ASSUME e < LineAt(E, p)  PROVE NumAt(E, e) < NumAt(E, p)
  <2>1. e <= p
    BY <1>3, <1>5
  <2>2. ~NoneFrom(E, e, p)
    <3>1. LineAt(E, p) - 1 \in E
      BY <1>2, <1>5 DEF StartsLine
    <3>2. e <= LineAt(E, p) - 1 /\ LineAt(E, p) - 1 < p
      BY <1>3, <1>5
    <3> QED  BY <3>1, <3>2 DEF NoneFrom
  <2>3. NumAt(E, e) <= NumAt(E, p) /\ NumAt(E, e) # NumAt(E, p)
    BY <2>1, <2>2, NumAtMonotone
  <2> QED  BY <2>3, <1>1
<1>6. ASSUME LineAt(E, p) <= e, e <= p  PROVE NumAt(E, e) = NumAt(E, p)
  <2>1. NoneFrom(E, e, p)
    BY <1>2, <1>3, <1>6 DEF NoneFrom
  <2> QED  BY <2>1, <1>6, NumAtMonotone
<1>7. ASSUME NEW q \in Nat, p \in E, p < q  PROVE NumAt(E, p) < NumAt(E, q)
  <2>1. ~NoneFrom(E, p, q) /\ p <= q
    BY <1>7 DEF NoneFrom
  <2>2. NumAt(E, p) <= NumAt(E, q) /\ NumAt(E, p) # NumAt(E, q)
    BY <2>1, NumAtMonotone
  <2>3. NumAt(E, q) \in 1..(q + 1)
    BY NumAtIs
  <2> QED  BY <2>2, <2>3, <1>1
<1> QED  BY <1>1, <1>4, <1>5, <1>6, <1>7

\* What is known of E, M and the place p in line L.
PlaceIn(E, M, len, p, L) ==
  /\ E \subseteq Nat /\ len \in E /\ ApartIn(M, len)
  /\ p \in Nat /\ p <= len /\ L = NumAt(E, p)

\* A match across a place touches its line.
LEMMA AcrossTouches ==
  ASSUME NEW E, NEW M, NEW len, NEW p, NEW L, PlaceIn(E, M, len, p, L)
  PROVE  /\ L \in Nat /\ L >= 1
         /\ Across(M, p) => L \in TouchedUpTo(E, M, p, L)
         /\ Across(M, p + 1) => L \in TouchedUpTo(E, M, p + 1, L)
         /\ Across(M, LineAt(E, p)) => L \in TouchedUpTo(E, M, p, L)
<1>1. /\ E \subseteq Nat /\ p \in Nat /\ L = NumAt(E, p) /\ DOMAIN M = 1..Len(M)
      /\ \A k \in DOMAIN M : M[k].start \in Nat /\ M[k].end \in Nat /\ M[k].start <= M[k].end
  BY ApartIs DEF PlaceIn
<1>2. L \in 1..(p + 1)
  BY <1>1, NumAtIs
<1>3. L \in Nat /\ L >= 1 /\ L \in 1..L
  BY <1>2
<1>4. ASSUME NEW q \in Nat, NEW k \in DOMAIN M, M[k].start < q, M[k].start <= p, p <= M[k].end
      PROVE  L \in TouchedUpTo(E, M, q, L)
  <2>1. NumAt(E, M[k].start) <= L /\ L <= NumAt(E, M[k].end)
    BY <1>1, <1>4, ReachesIs
  <2> QED  BY <2>1, <1>3, <1>4 DEF TouchedUpTo, Reaches
<1>5. Across(M, p) => L \in TouchedUpTo(E, M, p, L)
  <2> SUFFICES ASSUME NEW k \in DOMAIN M, M[k].start < p, p <= M[k].end
               PROVE  L \in TouchedUpTo(E, M, p, L)
    BY DEF Across
  <2>1. M[k].start <= p
    BY <1>1
  <2> QED  BY <2>1, <1>1, <1>4
<1>6. Across(M, p + 1) => L \in TouchedUpTo(E, M, p + 1, L)
  <2> SUFFICES ASSUME NEW k \in DOMAIN M, M[k].start < p + 1, p + 1 <= M[k].end
               PROVE  L \in TouchedUpTo(E, M, p + 1, L)
    BY DEF Across
  <2>1. M[k].start <= p /\ p <= M[k].end /\ p + 1 \in Nat
    BY <1>1
  <2> QED  BY <2>1, <1>1, <1>4
<1>7. Across(M, LineAt(E, p)) => L \in TouchedUpTo(E, M, p, L)
  <2> SUFFICES ASSUME NEW k \in DOMAIN M, M[k].start < LineAt(E, p), LineAt(E, p) <= M[k].end
               PROVE  L \in TouchedUpTo(E, M, p, L)
    BY DEF Across
  <2> DEFINE q == LineAt(E, p)
  <2>1. q \in 0..p /\ NumAt(E, q) = L
    BY <1>1, LineAtIs, NumAtStart
  <2>2. q \in Nat /\ q <= p
    BY <2>1, <1>1
  <2>3. M[k].start <= q /\ q <= M[k].end /\ M[k].start < p
    <3> HIDE DEF q
    <3>1. M[k].start < q /\ q <= M[k].end
      BY DEF q
    <3> QED  BY <2>2, <3>1, <1>1
  <2> HIDE DEF q
  <2>4. NumAt(E, M[k].start) <= NumAt(E, q) /\ NumAt(E, q) <= NumAt(E, M[k].end)
    BY <1>1, <2>2, <2>3, ReachesIs
  <2> QED  BY <2>1, <2>3, <2>4, <1>3 DEF TouchedUpTo, Reaches
<1> QED  BY <1>3, <1>5, <1>6, <1>7

\* The line of p is touched as well where a match starts ...
LEMMA TouchedAtStart ==
  ASSUME NEW E, NEW M, NEW len, NEW p, NEW L, PlaceIn(E, M, len, p, L)
  PROVE  \A n : n \in TouchedUpTo(E, M, p + 1, L) <=>
                  \/ n \in TouchedUpTo(E, M, p, L)
                  \/ n = L /\ \E k \in DOMAIN M : M[k].start = p
<1>1. /\ E \subseteq Nat /\ p \in Nat /\ L = NumAt(E, p) /\ DOMAIN M = 1..Len(M)
      /\ \A k \in DOMAIN M : M[k].start \in Nat /\ M[k].end \in Nat /\ M[k].start <= M[k].end
  BY ApartIs DEF PlaceIn
<1>2. L \in Nat /\ L >= 1
  BY AcrossTouches
<1>3. ASSUME NEW n \in 1..L
      PROVE  (\E k \in DOMAIN M : M[k].start < p + 1 /\ Reaches(E, M[k], n)) <=>
               \/ \E k \in DOMAIN M : M[k].start < p /\ Reaches(E, M[k], n)
               \/ n = L /\ \E k \in DOMAIN M : M[k].start = p
  <2>1. ASSUME NEW k \in DOMAIN M, M[k].start = p
        PROVE  Reaches(E, M[k], n) <=> n = L
    <3>1. L = NumAt(E, M[k].start) /\ NumAt(E, M[k].start) <= NumAt(E, M[k].end)
      <4>1. M[k].start <= M[k].end /\ p <= M[k].end
        BY <1>1, <2>1
      <4> QED  BY <4>1, <2>1, <1>1, ReachesIs
    <3> QED  BY <3>1, <1>2 DEF Reaches
  <2>2. \A k \in DOMAIN M : M[k].start < p + 1 <=> M[k].start < p \/ M[k].start = p
    BY <1>1
  <2> QED  BY <2>1, <2>2
<1>4. L \in 1..L
  BY <1>2
<1> QED  BY <1>3, <1>4 DEF TouchedUpTo

\* ... and after its end, if it does, the next one where a match goes on.
LEMMA TouchedAtEnd ==
  ASSUME NEW E, NEW M, NEW len, NEW p, NEW L, PlaceIn(E, M, len, p, L), p \in E
  PROVE  \A n : n \in TouchedUpTo(E, M, p + 1, L + 1) <=>
                  \/ n \in TouchedUpTo(E, M, p + 1, L)
                  \/ n = L + 1 /\ Across(M, p + 1)
<1>1. /\ E \subseteq Nat /\ p \in Nat /\ L = NumAt(E, p) /\ DOMAIN M = 1..Len(M)
      /\ \A k \in DOMAIN M : M[k].start \in Nat /\ M[k].end \in Nat /\ M[k].start <= M[k].end
  BY ApartIs DEF PlaceIn
<1>2. L \in Nat /\ L >= 1
  BY AcrossTouches
<1>3. ASSUME NEW k \in DOMAIN M, M[k].start < p + 1
      PROVE  Reaches(E, M[k], L + 1) <=> p + 1 <= M[k].end
  <2>1. M[k].start <= p
    BY <1>1, <1>3
  <2>2. NumAt(E, M[k].start) <= L /\ NumAt(E, M[k].start) \in Nat /\ NumAt(E, M[k].end) \in Nat
    BY <2>1, <1>1, ReachesIs
  <2>3. CASE p < M[k].end
    <3>1. L < NumAt(E, M[k].end)
      BY <2>3, <1>1, ReachesIs
    <3> QED  BY <3>1, <2>2, <2>3, <1>1, <1>2 DEF Reaches
  <2>4. CASE ~(p < M[k].end)
    <3>1. M[k].end <= p
      BY <2>4, <1>1
    <3>2. NumAt(E, M[k].end) <= L
      BY <3>1, <1>1, NumAtMonotone
    <3> QED  BY <3>1, <3>2, <2>2, <1>1, <1>2 DEF Reaches
  <2> QED  BY <2>3, <2>4
<1>4. (\E k \in DOMAIN M : M[k].start < p + 1 /\ Reaches(E, M[k], L + 1)) <=> Across(M, p + 1)
  BY <1>3 DEF Across
<1>5. \A n : n \in 1..(L + 1) <=> n \in 1..L \/ n = L + 1
  BY <1>2
<1> QED  BY <1>2, <1>4, <1>5 DEF TouchedUpTo

-----------------------------------------------------------------------------
(* Among the matches                                                        *)

PrintingApart ==
  /\ Printing
  /\ Separate(matches, buf_len)
  /\ MatchesInv(Ends, matches, opts, i, cur_match, print_context)

\* The lines touched before the character, and after it.
TouchedBefore == TouchedUpTo(Ends, matches, i, print_context.line)

TouchedAfter == TouchedUpTo(Ends, matches, i + 1, print_context.line)

\* The match at which the loop is, and where i is among the matches.
LEMMA Placed ==
  ASSUME PrintingApart
  PROVE  /\ PlaceIn(Ends, matches, buf_len, i, print_context.line)
         /\ ApartIn(matches, buf_len) /\ Ends \subseteq Nat /\ i \in Nat /\ i <= buf_len
         /\ (AtEol <=> i \in Ends) /\ print_context.line \in 1..(i + 1)
         /\ print_context.line = NumAt(Ends, i)
         /\ buf_len \in Nat /\ INT_MAX \in Nat /\ opts.after + buf_len < INT_MAX
         /\ opts.after \in Nat /\ opts.before \in Nat
         /\ print_context.lines_since_last_match \in Nat
         /\ cur_match \in 0..Len(matches) /\ print_context.last_printed_match \in 0..Len(matches)
<1>1. Printing /\ BufferIs
  BY DEF PrintingApart, Printing
<1>2. /\ matches \in Seq(Pairs) /\ buf_len \in Nat /\ opts.after \in Nat /\ opts.before \in Nat
      /\ INT_MAX \in Nat /\ opts.after + buf_len < INT_MAX
      /\ \A k \in DOMAIN matches : matches[k].start <= matches[k].end
  BY <1>1 DEF Printing, BufferIs
<1>3. ApartIn(matches, buf_len)
  BY <1>2 DEF ApartIn, PrintingApart
<1>4. Ends \subseteq Nat /\ buf_len \in Ends
  BY <1>1, EndsIs
<1>5. i \in Nat /\ i <= buf_len
  BY <1>1, <1>2 DEF Printing
<1>6. print_context.line = NumAt(Ends, i) /\ print_context \in Contexts
      /\ cur_match \in 0..Len(matches) /\ print_context.last_printed_match \in 0..Len(matches)
  BY <1>1 DEF Printing, ContextInv
<1>7. print_context.line \in 1..(i + 1)
  <2>1. NumAt(Ends, i) \in 1..(i + 1)
    BY <1>4, <1>5, NumAtIs
  <2> QED  BY <2>1, <1>6
<1>8. AtEol <=> i \in Ends
  BY DEF AtEol, Ends, EndsOf
<1>9. print_context.lines_since_last_match \in Nat
  BY <1>6 DEF Contexts
<1> QED  BY <1>2, <1>3, <1>4, <1>5, <1>6, <1>7, <1>8, <1>9 DEF PlaceIn

\* Where a match starts and ends, and the lines since the last one touched, before
\* the end of the line is looked at.
LEMMA AmongMatches ==
  ASSUME PrintingApart
  PROVE  /\ Opens <=> \E k \in DOMAIN matches : matches[k].start = i
         /\ EndBefore(matches, NextCur, i + 1)
         /\ InMatch2 <=> Across(matches, i + 1)
         /\ Opens => ~Across(matches, i)
         /\ \A n : n \in TouchedAfter <=> n \in TouchedBefore \/ (n = print_context.line /\ Opens)
         /\ SinceInv(TouchedAfter, print_context.line, NextCur, Since2)
         /\ Since2 = 0 <=> print_context.line \in TouchedAfter
         /\ InMatch2 => Since2 = 0
<1> DEFINE M == matches
           L == print_context.line
           S == print_context.lines_since_last_match
           T == TouchedBefore
           U == TouchedAfter
           c == cur_match
<1>1. /\ PlaceIn(Ends, M, buf_len, i, L) /\ ApartIn(M, buf_len) /\ i \in Nat
      /\ L \in 1..(i + 1) /\ INT_MAX \in Nat /\ opts.after + buf_len < INT_MAX
      /\ i <= buf_len /\ opts.after \in Nat /\ buf_len \in Nat
      /\ c \in 0..Len(M) /\ S \in Nat
  BY Placed
<1>2. /\ EndBefore(M, c, i) /\ (print_context.in_a_match <=> Across(M, i))
      /\ SinceInv(T, L, c, S)
  BY DEF PrintingApart, MatchesInv, TouchedBefore
<1>3. /\ Opens <=> \E k \in DOMAIN M : M[k].start = i
      /\ Closes <=> \E k \in DOMAIN M : M[k].end = i
      /\ EndBefore(M, NextCur, i + 1)
      /\ Across(M, i + 1) <=> ~Closes /\ (Opens \/ Across(M, i))
      /\ Opens => ~Across(M, i)
  <2> HIDE DEF M, c
  <2>1. LET op == c < Len(M) /\ i = M[c + 1].start
            cl == c < Len(M) /\ i = M[c + 1].end
            c2 == IF cl THEN c + 1 ELSE c
        IN /\ op <=> \E k \in DOMAIN M : M[k].start = i
           /\ cl <=> \E k \in DOMAIN M : M[k].end = i
           /\ EndBefore(M, c2, i + 1)
           /\ Across(M, i + 1) <=> ~cl /\ (op \/ Across(M, i))
           /\ op => ~Across(M, i)
    BY <1>1, <1>2, AtPlace
  <2> QED  BY <2>1 DEF Opens, Closes, NextCur, M, c
<1>4. InMatch2 <=> Across(M, i + 1)
  BY <1>2, <1>3 DEF InMatch2
<1>5. \A n : n \in U <=> n \in T \/ (n = L /\ Opens)
  <2> HIDE DEF M, L
  <2>1. \A n : n \in TouchedUpTo(Ends, M, i + 1, L) <=>
                 \/ n \in TouchedUpTo(Ends, M, i, L)
                 \/ n = L /\ \E k \in DOMAIN M : M[k].start = i
    BY <1>1, TouchedAtStart
  <2> QED  BY <2>1, <1>3 DEF TouchedBefore, TouchedAfter, M, L
<1>6. T \subseteq 1..L /\ U \subseteq 1..L
  BY DEF TouchedBefore, TouchedAfter, TouchedUpTo
<1>7. (Across(M, i) => L \in T) /\ (Across(M, i + 1) => L \in U)
  <2> HIDE DEF M, L
  <2>1. /\ Across(M, i) => L \in TouchedUpTo(Ends, M, i, L)
        /\ Across(M, i + 1) => L \in TouchedUpTo(Ends, M, i + 1, L)
    BY <1>1, AcrossTouches
  <2> QED  BY <2>1 DEF TouchedBefore, TouchedAfter, M, L
<1> HIDE DEF T, U, L, M, S, c
<1>8. SinceInv(U, L, NextCur, Since2)
  <2>1. CASE Opens
    <3>1. Since2 = 0 /\ L \in U
      BY <2>1, <1>5 DEF Since2
    <3>2. \A t \in U : t <= L - 0
      BY <1>1, <1>6
    <3>3. 0 \in 0..(L - 1) /\ L - 0 = L
      BY <1>1
    <3> QED  BY <3>1, <3>2, <3>3 DEF SinceInv
  <2>2. CASE ~Opens
    <3>1. Since2 = S /\ U = T
      <4>1. \A n : n \in U <=> n \in T
        BY <2>2, <1>5
      <4>2. U = T
        BY <4>1
      <4> QED  BY <2>2, <4>2 DEF Since2, S
    <3>2. CASE T = {} /\ c = 0 /\ S = INT_MAX
      <4>1. ~Closes
        <5> SUFFICES ASSUME Closes  PROVE FALSE
          OBVIOUS
        <5>1. PICK k \in DOMAIN M : M[k].end = i
          BY <1>3
        <5>2. M[k].start <= i /\ M[k].start # i /\ M[k].start \in Nat
          BY <5>1, <2>2, <1>1, <1>3, ApartIs
        <5>3. M[k].start < i /\ i <= M[k].end
          BY <5>1, <5>2, <1>1
        <5>4. Across(M, i)
          BY <5>3 DEF Across
        <5> QED  BY <5>4, <1>7, <3>2
      <4>2. NextCur = c
        BY <4>1 DEF NextCur, c
      <4> QED  BY <4>2, <3>1, <3>2 DEF SinceInv
    <3>3. CASE ~(T = {} /\ c = 0 /\ S = INT_MAX)
      BY <3>1, <3>3, <1>2 DEF SinceInv
    <3> QED  BY <3>2, <3>3
  <2> QED  BY <2>1, <2>2
<1>9. Since2 = 0 <=> L \in U
  <2>1. CASE U = {} /\ NextCur = 0 /\ Since2 = INT_MAX
    <3>1. INT_MAX # 0
      BY <1>1
    <3> QED  BY <2>1, <3>1
  <2>2. CASE Since2 \in 0..(L - 1) /\ L - Since2 \in U /\ \A t \in U : t <= L - Since2
    <3>1. L \in Nat /\ Since2 \in Nat
      BY <1>1, <2>2
    <3>2. Since2 = 0 => L - Since2 = L
      BY <3>1
    <3>3. L \in U => L <= L - Since2
      BY <2>2
    <3> QED  BY <3>1, <3>2, <3>3, <2>2
  <2> QED  BY <2>1, <2>2, <1>8 DEF SinceInv
<1>10. InMatch2 => Since2 = 0
  BY <1>4, <1>7, <1>9
<1> QED  BY <1>3, <1>4, <1>5, <1>8, <1>9, <1>10 DEF T, U, L, M, S, c

\* The lines touched where the next character is.
LEMMA TouchedNext ==
  ASSUME PrintingApart
  PROVE  /\ \A n : n \in TouchedUpTo(Ends, matches, i + 1, NextCtx.line) <=>
                     \/ n \in TouchedAfter
                     \/ AtEol /\ InMatch2 /\ n = print_context.line + 1
         /\ NextCtx.line = IF AtEol THEN print_context.line + 1 ELSE print_context.line
         /\ NextCtx.lines_since_last_match = Since3
         /\ SinceInv(TouchedUpTo(Ends, matches, i + 1, NextCtx.line), NextCtx.line,
                     NextCur, Since3)
<1> DEFINE M == matches
           L == print_context.line
           U == TouchedAfter
           V == TouchedUpTo(Ends, M, i + 1, NextCtx.line)
<1>1. /\ PlaceIn(Ends, M, buf_len, i, L) /\ i \in Nat /\ (AtEol <=> i \in Ends)
      /\ L \in 1..(i + 1) /\ INT_MAX \in Nat /\ opts.after + buf_len < INT_MAX
      /\ i <= buf_len /\ opts.after \in Nat /\ buf_len \in Nat
  BY Placed
<1>2. /\ InMatch2 <=> Across(M, i + 1)
      /\ SinceInv(U, L, NextCur, Since2)
      /\ Since2 = 0 <=> L \in U
      /\ InMatch2 => Since2 = 0
  BY AmongMatches
<1>3. /\ NextCtx.line = IF AtEol THEN L + 1 ELSE L
      /\ NextCtx.lines_since_last_match = Since3
  BY AfterChar DEF PrintingApart, Printing, ContextInv
<1>4. \A n : n \in V <=> n \in U \/ (AtEol /\ InMatch2 /\ n = L + 1)
  <2>1. CASE AtEol
    <3>1. NextCtx.line = L + 1 /\ i \in Ends
      BY <2>1, <1>1, <1>3
    <3> HIDE DEF M, L
    <3>2. \A n : n \in TouchedUpTo(Ends, M, i + 1, L + 1) <=>
                  \/ n \in TouchedUpTo(Ends, M, i + 1, L)
                  \/ n = L + 1 /\ Across(M, i + 1)
      BY <1>1, <3>1, TouchedAtEnd
    <3> QED  BY <2>1, <3>1, <3>2, <1>2 DEF TouchedAfter, M, L
  <2>2. CASE ~AtEol
    <3>1. NextCtx.line = L
      BY <2>2, <1>3
    <3> QED  BY <3>1, <2>2 DEF TouchedAfter
  <2> QED  BY <2>1, <2>2
<1>5. U \subseteq 1..L
  BY DEF TouchedAfter, TouchedUpTo
<1> HIDE DEF U, V, L, M
<1>6. SinceInv(V, NextCtx.line, NextCur, Since3)
  <2>1. CASE AtEol /\ InMatch2
    <3>1. Since2 = 0 /\ Since3 = 0 /\ NextCtx.line = L + 1
      BY <2>1, <1>2, <1>3 DEF Since3
    <3>2. L + 1 \in V /\ \A t \in V : t <= L + 1
      <4>1. L + 1 \in V
        BY <2>1, <1>4
      <4>2. ASSUME NEW t \in V  PROVE t <= L + 1
        <5>1. t \in 1..L \/ t = L + 1
          BY <1>4, <1>5
        <5> QED  BY <5>1, <1>1
      <4> QED  BY <4>1, <4>2
    <3>3. 0 \in 0..((L + 1) - 1) /\ (L + 1) - 0 = L + 1
      BY <1>1
    <3> QED  BY <3>1, <3>2, <3>3 DEF SinceInv
  <2>2. CASE ~(AtEol /\ InMatch2)
    <3>1. V = U
      <4>1. \A n : n \in V <=> n \in U
        BY <2>2, <1>4
      <4> QED  BY <4>1
    <3>2. CASE U = {} /\ NextCur = 0 /\ Since2 = INT_MAX
      <4>1. Since3 = INT_MAX
        <5>1. ~(INT_MAX < INT_MAX)
          BY <1>1
        <5> QED  BY <3>2, <5>1 DEF Since3
      <4> QED  BY <3>1, <3>2, <4>1 DEF SinceInv
    <3>3. CASE Since2 \in 0..(L - 1) /\ L - Since2 \in U /\ \A t \in U : t <= L - Since2
      <4>1. Since2 \in Nat /\ L \in Nat /\ Since2 < INT_MAX /\ Since2 <= L - 1
        BY <3>3, <1>1
      <4>2. CASE AtEol
        <5>1. Since3 = Since2 + 1 /\ NextCtx.line = L + 1
          BY <4>1, <4>2, <2>2, <1>3 DEF Since3
        <5>2. Since3 \in 0..((L + 1) - 1) /\ (L + 1) - Since3 = L - Since2
          BY <4>1, <5>1
        <5> QED  BY <5>1, <5>2, <3>1, <3>3 DEF SinceInv
      <4>3. CASE ~AtEol
        <5>1. Since3 = Since2 /\ NextCtx.line = L
          BY <4>3, <1>3 DEF Since3
        <5> QED  BY <5>1, <3>1, <3>3 DEF SinceInv
      <4> QED  BY <4>2, <4>3
    <3> QED  BY <3>2, <3>3, <1>2 DEF SinceInv
  <2> QED  BY <2>1, <2>2
<1> QED  BY <1>3, <1>4, <1>6 DEF U, V, L, M

\* What of a line is to be shown up to a place, when it is not cut.
ShownUpTo(M, len, o, a, j, text) ==
  \A q : q \in Chars(text) <=>
           /\ q \in a..j /\ q < len
           /\ o.only_matching => \E k \in DOMAIN M : M[k].start <= q /\ q < M[k].end

\* A line that is not cut is shown as far as j.
ShowsUpTo(M, len, o, a, j, p) ==
  /\ p \in Shown /\ p.last <= Len(M) /\ ~p.over
  /\ EndBefore(M, p.last, j + 1)
  /\ p.shown <=> Across(M, j + 1)
  /\ ShownUpTo(M, len, o, a, j, p.text)

\* Uncut, a pass over a line has shown all up to a place, or those in matches.
LEMMA ShowCharShows ==
  ASSUME ApartIn(matches, buf_len), opts.width = 0, opts.only_matching \in BOOLEAN,
         NEW a \in Nat, NEW j \in Nat, a <= j, NEW p,
         ShowsUpTo(matches, buf_len, opts, a, j - 1, p)
  PROVE  ShowsUpTo(matches, buf_len, opts, a, j, ShowChar(p, j))
<1> DEFINE M == matches
           n == Len(M)
           cl == p.last < n /\ j = M[p.last + 1].end
           op == p.last < n /\ j = M[p.last + 1].start
           last2 == IF cl THEN p.last + 1 ELSE p.last
           shown2 == (p.shown /\ ~cl) \/ (last2 < n /\ j = M[last2 + 1].start)
           prints == j < buf_len /\ (~opts.only_matching \/ shown2)
           text2 == IF prints THEN Append(p.text, j) ELSE p.text
           r == ShowChar(p, j)
<1>1. /\ p \in Shown /\ p.last <= n /\ ~p.over /\ p.last \in Nat /\ p.text \in Seq(Nat)
      /\ p.shown \in BOOLEAN /\ buf_len \in Nat /\ n \in Nat
  BY ApartIs DEF ShowsUpTo, Shown, ApartIn
<1>2. EndBefore(M, p.last, j) /\ (p.shown <=> Across(M, j))
  <2>1. (j - 1) + 1 = j
    OBVIOUS
  <2> QED  BY <2>1 DEF ShowsUpTo
<1>3. r = [p EXCEPT !.last = last2, !.shown = shown2, !.over = FALSE, !.text = text2]
  <2> DEFINE cut == opts.width > 0 /\ j < buf_len /\ j - p.from >= opts.width
             lastc == IF cut THEN Len(matches) ELSE last2
             shownc == (p.shown /\ ~cl) \/ (lastc < Len(matches) /\ j = matches[lastc + 1].start)
             printsc == /\ j < buf_len
                        /\ ~opts.only_matching \/ shownc
                        /\ opts.width = 0 \/ j - p.from < opts.width
             textc == IF printsc THEN Append(p.text, j) ELSE p.text
  <2>1. r = [p EXCEPT !.last = lastc, !.shown = shownc, !.over = cut, !.text = textc]
    BY <1>1 DEF ShowChar
  <2>2. cut = FALSE
    OBVIOUS
  <2> HIDE DEF cut
  <2>3. lastc = last2
    BY <2>2
  <2> HIDE DEF lastc
  <2>4. shownc = shown2
    BY <2>3
  <2> HIDE DEF shownc
  <2>5. printsc <=> prints
    BY <2>4
  <2> HIDE DEF printsc, prints
  <2>6. textc = text2
    BY <2>5
  <2> HIDE DEF textc, text2, shown2, last2
  <2> QED  BY <2>1, <2>2, <2>3, <2>4, <2>6
<1>4. /\ last2 \in 0..n /\ EndBefore(M, last2, j + 1)
      /\ Across(M, j + 1) <=> ~cl /\ (op \/ Across(M, j))
      /\ (last2 < n /\ j = M[last2 + 1].start) <=> op /\ ~cl
  <2>1. p.last \in 0..n
    BY <1>1
  <2> DEFINE c == p.last
  <2> HIDE DEF M, c
  <2>2. LET op1 == c < Len(M) /\ j = M[c + 1].start
            cl1 == c < Len(M) /\ j = M[c + 1].end
            c2 == IF cl1 THEN c + 1 ELSE c
        IN /\ c2 \in 0..Len(M) /\ EndBefore(M, c2, j + 1)
           /\ Across(M, j + 1) <=> ~cl1 /\ (op1 \/ Across(M, j))
           /\ (c2 < Len(M) /\ j = M[c2 + 1].start) <=> op1 /\ ~cl1
    <3>1. ApartIn(M, buf_len) /\ c \in 0..Len(M) /\ EndBefore(M, c, j) /\ j \in Nat
      BY <1>2, <2>1 DEF M, c
    <3> QED  BY <3>1, AtPlace
  <2> QED  BY <2>2 DEF c
<1>5. shown2 <=> Across(M, j + 1)
  BY <1>2, <1>4
<1>6. Across(M, j + 1) <=> \E k \in DOMAIN M : M[k].start <= j /\ j < M[k].end
  <2>1. \A k \in DOMAIN M : M[k].start \in Nat /\ M[k].end \in Nat
    BY ApartIs
  <2>2. \A k \in DOMAIN M : (M[k].start < j + 1 <=> M[k].start <= j)
                            /\ (j + 1 <= M[k].end <=> j < M[k].end)
    BY <2>1
  <2> QED  BY <2>2 DEF Across
<1>7. shown2 \in BOOLEAN
  BY <1>1
<1>8. text2 \in Seq(Nat)
  <2> HIDE DEF prints
  <2> QED  BY <1>1
<1>9. ASSUME NEW q
      PROVE  q \in Chars(text2) <=> q \in Chars(p.text) \/ (prints /\ q = j)
  <2>1. CASE prints
    <3>1. text2 = Append(p.text, j)
      BY <2>1
    <3>2. Len(p.text) \in Nat /\ DOMAIN p.text = 1..Len(p.text)
      BY <1>1
    <3> DEFINE m == Len(p.text)
    <3>3. /\ DOMAIN text2 = 1..(m + 1) /\ text2[m + 1] = j
          /\ \A k \in 1..m : text2[k] = p.text[k]
      BY <3>1, <1>1
    <3>4. \A k : k \in 1..(m + 1) <=> k \in 1..m \/ k = m + 1
      BY <3>2
    <3> HIDE DEF text2, m
    <3> QED  BY <2>1, <3>2, <3>3, <3>4 DEF Chars, m
  <2>2. CASE ~prints
    BY <2>2
  <2> QED  BY <2>1, <2>2
<1>10. ASSUME NEW q
       PROVE  q \in Chars(text2) <=>
                /\ q \in a..j /\ q < buf_len
                /\ opts.only_matching => \E k \in DOMAIN M : M[k].start <= q /\ q < M[k].end
  <2> DEFINE In(x) == opts.only_matching => \E k \in DOMAIN M : M[k].start <= x /\ x < M[k].end
  <2>1. q \in Chars(p.text) <=> q \in a..(j - 1) /\ q < buf_len /\ In(q)
    BY DEF ShowsUpTo, ShownUpTo
  <2>2. prints <=> j < buf_len /\ In(j)
    BY <1>5, <1>6
  <2> HIDE DEF In, prints, text2
  <2>3. q \in a..j <=> q \in a..(j - 1) \/ q = j
    OBVIOUS
  <2>4. q \in Chars(text2) <=> q \in a..j /\ q < buf_len /\ In(q)
    BY <2>1, <2>2, <2>3, <1>9
  <2> QED  BY <2>4 DEF In
<1> HIDE DEF last2, shown2, text2, prints, cl, op, r
<1>11. r \in Shown /\ r.last = last2 /\ r.over = FALSE /\ (r.shown <=> shown2) /\ r.text = text2
  <2>1. r = [from |-> p.from, text |-> text2, last |-> last2, shown |-> shown2,
             over |-> FALSE] /\ p.from \in Nat
    BY <1>1, <1>3 DEF Shown
  <2>2. last2 \in Nat
    BY <1>1, <1>4
  <2> QED  BY <2>1, <2>2, <1>7, <1>8 DEF Shown
<1>12. r.last <= Len(M)
  BY <1>11, <1>4, <1>1
<1> QED  BY <1>4, <1>5, <1>10, <1>11, <1>12 DEF ShowsUpTo, ShownUpTo, r

\* A line that is not cut is shown up to its end.
LEMMA ShowLineShows ==
  ASSUME PrintingApart, ~opts.vimgrep, opts.width = 0
  PROVE  ShowsUpTo(matches, buf_len, opts, LineAt(Ends, i), i, ShowLine(Ctx3))
<1> DEFINE a == LineAt(Ends, i)
           M == matches
<1>1. ApartIn(M, buf_len) /\ Ends \subseteq Nat /\ i \in Nat
  BY Placed
<1>2. Printing /\ opts.only_matching \in BOOLEAN /\ print_context \in Contexts
      /\ print_context.last_printed_match \in 0..Len(M)
  BY DEF PrintingApart, Printing, BufferIs, ContextInv
<1>3. PICK f \in [(a - 1)..i -> Shown] :
        /\ f[a - 1] = Unshown(print_context)
        /\ \A j \in a..i : f[j] = ShowChar(f[j - 1], j) /\ f[j - 1].last <= Len(M)
        /\ ShowLine(Ctx3) = f[i]
  BY <1>2, ShowsLine
<1>4. a \in 0..i
  BY <1>1, LineAtIs
<1>5. /\ EndBefore(M, print_context.last_printed_match, a)
      /\ print_context.printing_a_match <=> Across(M, a)
  BY DEF PrintingApart, MatchesInv
<1> HIDE DEF a, M
<1>6. a \in Nat /\ a <= i /\ a - 1 \in Int /\ (a - 1) + 1 = a
  BY <1>1, <1>4
<1> DEFINE Wrong == {d \in Nat : d <= i - (a - 1)
                        /\ ~ShowsUpTo(M, buf_len, opts, a, (a - 1) + d, f[(a - 1) + d])}
<1>7. Wrong = {}
  <2> SUFFICES ASSUME Wrong # {}  PROVE FALSE
    OBVIOUS
  <2>1. PICK d \in Wrong : \A x \in Wrong : d <= x
    <3>1. Wrong \subseteq Nat
      OBVIOUS
    <3> HIDE DEF Wrong
    <3> QED  BY <3>1, LowestExists
  <2>2. d \in Nat /\ d <= i - (a - 1)
        /\ ~ShowsUpTo(M, buf_len, opts, a, (a - 1) + d, f[(a - 1) + d])
    BY <2>1
  <2>3. CASE d = 0
    <3> DEFINE p == Unshown(print_context)
    <3>1. (a - 1) + d = a - 1 /\ f[a - 1] = p
      BY <2>3, <1>3, <1>6
    <3>2. /\ p.last = print_context.last_printed_match /\ p.over = FALSE /\ p.text = <<>>
          /\ p.shown = print_context.printing_a_match
      BY DEF Unshown
    <3>3. p \in Shown
      BY <1>2 DEF Unshown, Shown, Contexts
    <3>4. p.last <= Len(M)
      <4>1. Len(M) \in Nat
        BY <1>1, ApartIs
      <4> QED  BY <4>1, <1>2, <3>2
    <3> HIDE DEF p
    <3>5. ShownUpTo(M, buf_len, opts, a, a - 1, p.text)
      <4>1. Chars(p.text) = {}
        BY <3>2 DEF Chars
      <4>2. \A q : q \notin a..(a - 1)
        BY <1>6
      <4> QED  BY <4>1, <4>2 DEF ShownUpTo
    <3>6. ShowsUpTo(M, buf_len, opts, a, a - 1, p)
      BY <1>5, <1>6, <3>2, <3>3, <3>4, <3>5 DEF ShowsUpTo
    <3> QED  BY <3>1, <3>6, <2>2
  <2>4. CASE d # 0
    <3> DEFINE j == (a - 1) + d
    <3>1. /\ j \in a..i /\ j \in Nat /\ a <= j /\ j - 1 = (a - 1) + (d - 1)
          /\ d - 1 \in Nat /\ d - 1 <= i - (a - 1)
      BY <2>2, <2>4, <1>1, <1>6
    <3>2. ShowsUpTo(M, buf_len, opts, a, (a - 1) + (d - 1), f[(a - 1) + (d - 1)])
      <4>1. d - 1 \notin Wrong
        <5>1. ~(d <= d - 1)
          BY <2>2
        <5> HIDE DEF Wrong
        <5> QED  BY <5>1, <2>1
      <4> QED  BY <4>1, <3>1
    <3> HIDE DEF j
    <3>3. ShowsUpTo(M, buf_len, opts, a, j - 1, f[j - 1])
      BY <3>1, <3>2
    <3>4. f[j] = ShowChar(f[j - 1], j)
      BY <3>1, <1>3
    <3> DEFINE p == f[j - 1]
    <3> HIDE DEF p
    <3>5. ShowsUpTo(M, buf_len, opts, a, j, ShowChar(p, j))
      <4>1. ShowsUpTo(matches, buf_len, opts, a, j - 1, p) /\ ApartIn(matches, buf_len)
        BY <3>3, <1>1 DEF p, M
      <4>2. ShowsUpTo(matches, buf_len, opts, a, j, ShowChar(p, j))
        BY <4>1, <3>1, <1>2, <1>6, ShowCharShows
      <4> QED  BY <4>2 DEF M
    <3> QED  BY <3>4, <3>5, <2>2 DEF p, j
  <2> QED  BY <2>3, <2>4
<1>8. ShowsUpTo(M, buf_len, opts, a, i, f[i])
  <2> DEFINE d == i - (a - 1)
  <2>1. d \in Nat /\ d <= i - (a - 1) /\ (a - 1) + d = i
    BY <1>1, <1>6
  <2>2. d \notin Wrong
    BY <1>7
  <2> HIDE DEF d
  <2> QED  BY <2>1, <2>2
<1> QED  BY <1>3, <1>8 DEF a, M

\* At the end of a line that no match touches none has ended or goes on in it.
LEMMA UntouchedLine ==
  ASSUME PrintingApart, Since2 # 0
  PROVE  LET a == LineAt(Ends, i) IN
           /\ \A k \in DOMAIN matches : matches[k].end < a <=> matches[k].end < i + 1
           /\ ~Across(matches, a) /\ ~Across(matches, i + 1)
<1> DEFINE M == matches
           L == print_context.line
           a == LineAt(Ends, i)
<1>1. /\ PlaceIn(Ends, M, buf_len, i, L) /\ ApartIn(M, buf_len) /\ Ends \subseteq Nat
      /\ i \in Nat /\ L = NumAt(Ends, i)
  BY Placed
<1>2. L \notin TouchedAfter /\ (InMatch2 <=> Across(M, i + 1)) /\ (InMatch2 => Since2 = 0)
      /\ \A n : n \in TouchedAfter <=> n \in TouchedBefore \/ (n = L /\ Opens)
  BY AmongMatches
<1>3. ~Across(M, a)
  <2> HIDE DEF M, L
  <2>1. Across(M, LineAt(Ends, i)) => L \in TouchedUpTo(Ends, M, i, L)
    BY <1>1, AcrossTouches
  <2> QED  BY <2>1, <1>2 DEF TouchedBefore, M, L
<1>4. a \in 0..i /\ L \in 1..L
  <2>1. L \in Nat /\ L >= 1
    <3> HIDE DEF M, L
    <3> QED  BY <1>1, AcrossTouches
  <2>2. a \in 0..i
    BY <1>1, LineAtIs
  <2> HIDE DEF a, L
  <2> QED  BY <2>1, <2>2
<1>5. \A k \in DOMAIN M : /\ M[k].start \in Nat /\ M[k].end \in Nat
                          /\ M[k].start <= M[k].end
  BY <1>1, ApartIs
<1>6. ASSUME NEW k \in DOMAIN M, a <= M[k].end, M[k].end < i + 1  PROVE FALSE
  <2>1. M[k].end <= i /\ M[k].start < i + 1 /\ M[k].start <= i
    BY <1>1, <1>5, <1>6
  <2>2. NumAt(Ends, M[k].end) = NumAt(Ends, i) /\ NumAt(Ends, M[k].start) <= NumAt(Ends, i)
    <3> DEFINE s == M[k].start
               e == M[k].end
    <3>1. /\ s \in Nat /\ e \in Nat /\ s <= e /\ i \in Nat /\ Ends \subseteq Nat
          /\ s <= i /\ LineAt(Ends, i) <= e /\ e <= i
      BY <1>1, <1>5, <1>6, <2>1
    <3> DEFINE E == Ends
    <3> HIDE DEF s, e, E
    <3>2. NumAt(E, e) = NumAt(E, i) /\ NumAt(E, s) <= NumAt(E, i)
      <4>1. s \in Nat /\ e \in Nat /\ s <= e /\ i \in Nat /\ E \subseteq Nat
            /\ s <= i /\ LineAt(E, i) <= e /\ e <= i
        BY <3>1 DEF E
      <4>2. s <= i => NumAt(E, s) <= NumAt(E, i)
        BY <4>1, ReachesIs
      <4>3. NumAt(E, e) = NumAt(E, i)
        <5>1. LineAt(E, i) \in 0..i /\ NoneFrom(E, LineAt(E, i), i)
          BY <4>1, LineAtIs
        <5>2. NoneFrom(E, e, i)
          BY <4>1, <5>1 DEF NoneFrom
        <5> QED  BY <4>1, <5>2, NumAtMonotone
      <4> QED  BY <4>1, <4>2, <4>3
    <3> QED  BY <3>2 DEF s, e, E
  <2>3. Reaches(Ends, M[k], L)
    BY <2>2, <1>1, <1>4 DEF Reaches
  <2> QED  BY <2>1, <2>3, <1>2, <1>4 DEF TouchedAfter, TouchedUpTo
<1>7. \A k \in DOMAIN M : M[k].end < a <=> M[k].end < i + 1
  <2> TAKE k \in DOMAIN M
  <2>1. M[k].end < a => M[k].end < i + 1
    BY <1>1, <1>4, <1>5
  <2>2. M[k].end < i + 1 => M[k].end < a
    <3> SUFFICES ASSUME M[k].end < i + 1  PROVE M[k].end < a
      OBVIOUS
    <3>1. ~(a <= M[k].end)
      BY <1>6
    <3> QED  BY <3>1, <1>1, <1>4, <1>5
  <2> QED  BY <2>1, <2>2
<1> QED  BY <1>2, <1>3, <1>7

\* A character keeps where the loop is among the matches.
LEMMA MatchesKept ==
  ASSUME PrintingApart
  PROVE  MatchesInv(Ends, matches, opts, i + 1, NextCur, NextCtx)
<1> DEFINE M == matches
           a == LineAt(Ends, i)
           b == LineAt(Ends, i + 1)
           last == print_context.last_printed_match
<1>1. /\ ApartIn(M, buf_len) /\ Ends \subseteq Nat /\ i \in Nat /\ (AtEol <=> i \in Ends)
      /\ last \in 0..Len(M)
  BY Placed
<1>2. /\ EndBefore(M, NextCur, i + 1) /\ (InMatch2 <=> Across(M, i + 1))
  BY AmongMatches
<1>3. /\ NextCtx.lines_since_last_match = Since3
      /\ SinceInv(TouchedUpTo(Ends, M, i + 1, NextCtx.line), NextCtx.line, NextCur, Since3)
  BY TouchedNext
<1>4. /\ Matched <=> AtEol /\ Since2 = 0
      /\ NextCtx.last_printed_match = Last2 /\ NextCtx.in_a_match = InMatch2
      /\ NextCtx.printing_a_match = PrintingMatch2
  BY AfterChar DEF PrintingApart, Printing, ContextInv
<1>5. /\ opts.vimgrep \/ opts.width = 0 => EndBefore(M, last, a)
      /\ ~opts.vimgrep /\ opts.width = 0 =>
           (print_context.printing_a_match <=> Across(M, a))
  BY DEF PrintingApart, MatchesInv
<1>6. b = IF AtEol THEN i + 1 ELSE a
  BY <1>1, LineAtNext
<1>7. \A k \in DOMAIN M : k \in Nat /\ M[k].end \in Nat
  BY <1>1, ApartIs
<1>8. CASE ~AtEol
  <2>1. Last2 = last /\ PrintingMatch2 = print_context.printing_a_match /\ b = a
    BY <1>4, <1>6, <1>8 DEF Last2, PrintingMatch2
  <2> QED  BY <2>1, <1>2, <1>3, <1>4, <1>5 DEF MatchesInv
<1>9. CASE AtEol /\ Since2 # 0
  <2>1. Last2 = last /\ PrintingMatch2 = print_context.printing_a_match /\ b = i + 1
    BY <1>4, <1>6, <1>9 DEF Last2, PrintingMatch2
  <2>2. /\ \A k \in DOMAIN M : M[k].end < a <=> M[k].end < i + 1
        /\ ~Across(M, a) /\ ~Across(M, i + 1)
    BY <1>9, UntouchedLine
  <2>3. EndBefore(M, last, a) => EndBefore(M, last, i + 1)
    BY <2>2 DEF EndBefore
  <2> QED  BY <2>1, <2>2, <2>3, <1>2, <1>3, <1>4, <1>5 DEF MatchesInv
<1>10. CASE AtEol /\ Since2 = 0 /\ opts.vimgrep
  <2>1. Last2 = Max({last, NextCur}) /\ b = i + 1
    BY <1>4, <1>6, <1>10 DEF Last2
  <2>2. NextCur \in 0..Len(M) /\ Len(M) \in Nat
    <3>1. cur_match \in 0..Len(M) /\ Len(M) \in Nat
      BY <1>1, Placed, ApartIs
    <3> QED  BY <3>1 DEF NextCur, Closes
  <2>3. Last2 = IF last <= NextCur THEN NextCur ELSE last
    <3> HIDE DEF last
    <3>1. last \in Int /\ NextCur \in Int
      BY <1>1, <2>2
    <3> QED  BY <3>1, <2>1, MaxOfTwo
  <2>4. a <= i /\ a \in Nat
    <3>1. a \in 0..i
      BY <1>1, LineAtIs
    <3> QED  BY <3>1, <1>1
  <2>5. EndBefore(M, Last2, i + 1)
    <3> SUFFICES ASSUME NEW k \in DOMAIN M  PROVE k <= Last2 <=> M[k].end < i + 1
      BY DEF EndBefore
    <3>1. (k <= last <=> M[k].end < a) /\ (k <= NextCur <=> M[k].end < i + 1)
      BY <1>2, <1>5, <1>10 DEF EndBefore
    <3>2. M[k].end < a => M[k].end < i + 1
      BY <2>4, <1>1, <1>7
    <3>3. k <= Last2 <=> k <= last \/ k <= NextCur
      <4>1. last \in Nat /\ NextCur \in Nat /\ k \in Nat
        BY <1>1, <1>7, <2>2
      <4> HIDE DEF last
      <4> QED  BY <4>1, <2>3
    <3> QED  BY <3>1, <3>2, <3>3
  <2> QED  BY <2>1, <2>5, <1>2, <1>3, <1>4, <1>10 DEF MatchesInv
<1>11. CASE AtEol /\ Since2 = 0 /\ ~opts.vimgrep
  <2>1. Last2 = ShowLine(Ctx3).last /\ PrintingMatch2 = ShowLine(Ctx3).shown /\ b = i + 1
    BY <1>4, <1>6, <1>11 DEF Last2, PrintingMatch2
  <2>2. opts.width = 0 => ShowsUpTo(M, buf_len, opts, a, i, ShowLine(Ctx3))
    BY <1>11, ShowLineShows
  <2>3. opts.width = 0 => EndBefore(M, Last2, i + 1) /\ (PrintingMatch2 <=> Across(M, i + 1))
    BY <2>1, <2>2 DEF ShowsUpTo
  <2> QED  BY <2>1, <2>3, <1>2, <1>3, <1>4, <1>11 DEF MatchesInv
<1> QED  BY <1>8, <1>9, <1>10, <1>11

-----------------------------------------------------------------------------
(* The lines that are wanted                                                *)


\* How many lines there are between.
Between(since, o) ==
  IF since <= o.after THEN 0
  ELSE IF since - (o.after + 1) <= o.before THEN since - (o.after + 1) ELSE o.before

\* How many of them are left to be printed before line L.
Due(since, L, o) == Least(Between(since, o), L - 1)

\* Of the lines up to L those in T have been touched.
TouchedSoFar(T, L, o, since) ==
  /\ L \in Nat /\ L >= 1 /\ T \subseteq 1..L
  /\ o.before \in Nat /\ o.after \in Nat
  /\ INT_MAX \in Nat /\ L + o.after <= INT_MAX
  /\ \E cur : SinceInv(T, L, cur, since)

\* Where a match starts in line L the lines before it are wanted that have not been.
LEMMA WantedAtStart ==
  ASSUME NEW T, NEW U, NEW L, NEW o, NEW since, TouchedSoFar(T, L, o, since),
         \A n : n \in U <=> n \in T \/ n = L
  PROVE  /\ Due(since, L, o) \in 0..(L - 1)
         /\ \A n : n \in Wanted(U, L, o) <=>
                     n \in Wanted(T, L, o) \/ n \in (L - Due(since, L, o))..(L - 1)
         /\ \A n \in Wanted(T, L, o) : n < L - Due(since, L, o)
<1> DEFINE a == o.after
           b == o.before
           c == Due(since, L, o)
<1>10. /\ L \in Nat /\ L >= 1 /\ T \subseteq 1..L /\ INT_MAX \in Nat
       /\ L + o.after <= INT_MAX
       /\ \E cur : SinceInv(T, L, cur, since)
  BY DEF TouchedSoFar
<1>1. a \in Nat /\ b \in Nat
  BY DEF TouchedSoFar
<1>2. \A n : n \in Wanted(T, L, o) <=>
               n \in 1..(L - 1) /\ \E t \in T : t - b <= n /\ n <= t + a
  BY DEF Wanted
<1>3. \A n : n \in Wanted(U, L, o) <=>
               n \in 1..(L - 1) /\ \E t \in U : t - b <= n /\ n <= t + a
  BY DEF Wanted
<1>4. \A t \in T : t \in Nat /\ t >= 1 /\ t <= L
  BY <1>10
<1> DEFINE d == Between(since, o)
<1>5. d = IF since <= a THEN 0 ELSE IF since - (a + 1) <= b THEN since - (a + 1) ELSE b
  BY DEF Between
<1> HIDE DEF a, b, d
<1>6. c = IF d <= L - 1 THEN d ELSE L - 1
  BY DEF Least, d, Due
<1> HIDE DEF c
<1>11. L \in Nat /\ L >= 1 /\ T \subseteq 1..L /\ INT_MAX \in Nat /\ L + a <= INT_MAX
  BY <1>10 DEF a
<1> USE <1>11
<1>7. \A n \in 1..(L - 1) : n \in Wanted(U, L, o) <=> n \in Wanted(T, L, o) \/ L - b <= n
  <2> TAKE n \in 1..(L - 1)
  <2>1. n <= L + a
    BY <1>1, <1>11
  <2> QED  BY <2>1, <1>2, <1>3
<1>8. CASE T = {} /\ since = INT_MAX
  <2>1. since - (a + 1) >= L - 1 /\ ~(since <= a) /\ since \in Nat
    BY <1>8, <1>1 DEF a
  <2>2. c \in 0..(L - 1) /\ (c = b \/ (c = L - 1 /\ c <= b))
    BY <2>1, <1>1, <1>5, <1>6
  <2>3. \A n : n \notin Wanted(T, L, o)
    BY <1>2, <1>8
  <2>4. \A n \in 1..(L - 1) : L - b <= n <=> n \in (L - c)..(L - 1)
    BY <2>2, <1>1
  <2>5. \A n : n \in (L - c)..(L - 1) => n \in 1..(L - 1)
    BY <2>2
  <2>6. \A n : n \in Wanted(U, L, o) <=> n \in Wanted(T, L, o) \/ n \in (L - c)..(L - 1)
    BY <2>3, <2>4, <2>5, <1>3, <1>7
  <2> QED  BY <2>2, <2>3, <2>6 DEF c
<1>9. CASE since \in 0..(L - 1) /\ L - since \in T /\ \A t \in T : t <= L - since
  <2> DEFINE t0 == L - since
  <2>1. t0 \in T /\ t0 \in Nat /\ t0 >= 1 /\ since = L - t0 /\ since \in Nat
        /\ \A t \in T : t <= t0
    BY <1>9, <1>4
  <2> HIDE DEF t0
  <2>2. c \in 0..(L - 1) /\ c <= b /\ (c > 0 => L - c > t0 + a)
        /\ (c = b \/ c = L - 1 \/ (since > a /\ L - c = t0 + a + 1) \/ (c = 0 /\ since <= a))
    <3>1. CASE since <= a
      BY <3>1, <2>1, <1>1, <1>5, <1>6
    <3>2. CASE ~(since <= a)
      <4>1. d <= b /\ d \in Nat /\ d <= since - (a + 1)
            /\ (d = b \/ d = since - (a + 1))
        BY <3>2, <2>1, <1>1, <1>5
      <4>2. since - (a + 1) <= L - 1
        BY <2>1, <1>1
      <4>3. c = d
        BY <4>1, <4>2, <2>1, <1>1, <1>6
      <4> QED  BY <4>1, <4>3, <3>2, <2>1, <1>1
    <3> QED  BY <3>1, <3>2
  <2>3. ASSUME NEW n \in Wanted(T, L, o)
        PROVE  n \in 1..(L - 1) /\ n <= t0 + a /\ n < L - c
    <3>1. n \in 1..(L - 1) /\ \E t \in T : t - b <= n /\ n <= t + a
      BY <1>2
    <3>2. n <= t0 + a
      BY <3>1, <2>1, <1>1, <1>4
    <3> QED  BY <3>1, <3>2, <2>1, <2>2, <1>1
  <2>4. ASSUME NEW n \in 1..(L - 1)
        PROVE  L - b <= n => n \in Wanted(T, L, o) \/ n \in (L - c)..(L - 1)
    <3> SUFFICES ASSUME L - b <= n, ~(L - c <= n)
                 PROVE  n \in Wanted(T, L, o)
      BY <2>2
    <3>1. n <= t0 + a
      <4>1. CASE since > a /\ L - c = t0 + a + 1
        BY <4>1, <2>1, <2>2, <1>1
      <4>2. CASE c = 0 /\ since <= a
        BY <4>2, <2>1, <1>1
      <4>3. CASE c = b \/ c = L - 1
        BY <4>3, <2>2, <1>1
      <4> QED  BY <4>1, <4>2, <4>3, <2>2
    <3>2. t0 - b <= n
      BY <2>1, <1>1, <1>4
    <3> QED  BY <3>1, <3>2, <2>1, <1>2
  <2>5. \A n : n \in (L - c)..(L - 1) => n \in 1..(L - 1) /\ L - b <= n
    BY <2>2, <1>1
  <2>6. \A n : n \in Wanted(U, L, o) <=> n \in Wanted(T, L, o) \/ n \in (L - c)..(L - 1)
    BY <2>4, <2>5, <1>2, <1>3, <1>7
  <2> QED  BY <2>2, <2>3, <2>6 DEF c
<1> QED  BY <1>8, <1>9, <1>10 DEF SinceInv, c

\* At its end the line itself is wanted if it is touched, or one of those after.
LEMMA WantedAtEnd ==
  ASSUME NEW U, NEW V, NEW L, NEW o, NEW since, TouchedSoFar(U, L, o, since),
         NEW on, on => L \in U,
         \A n : n \in V <=> n \in U \/ (on /\ n = L + 1)
  PROVE  \A n : n \in Wanted(V, L + 1, o) <=>
                  n \in Wanted(U, L, o) \/ (n = L /\ since <= o.after)
<1> DEFINE a == o.after
           b == o.before
<1>10. /\ L \in Nat /\ L >= 1 /\ U \subseteq 1..L /\ INT_MAX \in Nat
       /\ L + o.after <= INT_MAX
       /\ \E cur : SinceInv(U, L, cur, since)
  BY DEF TouchedSoFar
<1>1. a \in Nat /\ b \in Nat
  BY DEF TouchedSoFar
<1>11. L \in Nat /\ L >= 1 /\ U \subseteq 1..L /\ INT_MAX \in Nat /\ L + a <= INT_MAX
  BY <1>10
<1> USE <1>11
<1>2. \A n : n \in Wanted(U, L, o) <=>
               n \in 1..(L - 1) /\ \E t \in U : t - b <= n /\ n <= t + a
  BY DEF Wanted
<1>3. \A n : n \in Wanted(V, L + 1, o) <=>
               n \in 1..L /\ \E t \in V : t - b <= n /\ n <= t + a
  <2>1. (L + 1) - 1 = L
    OBVIOUS
  <2> QED  BY <2>1 DEF Wanted
<1>4. \A t \in U : t \in Nat /\ t >= 1 /\ t <= L
  BY <1>10
<1> HIDE DEF a, b
<1>5. ASSUME NEW n \in 1..L
      PROVE  (\E t \in V : t - b <= n /\ n <= t + a) <=>
               \E t \in U : t - b <= n /\ n <= t + a
  <2>1. \A t \in U : t \in V
    OBVIOUS
  <2>2. ASSUME on, (L + 1) - b <= n  PROVE \E t \in U : t - b <= n /\ n <= t + a
    <3>1. L - b <= n /\ n <= L + a
      BY <2>2, <1>1
    <3> QED  BY <3>1, <2>2
  <2> QED  BY <2>1, <2>2
<1>6. (\E t \in U : t - b <= L /\ L <= t + a) <=> since <= a
  <2>1. CASE U = {} /\ since = INT_MAX
    BY <2>1, <1>1 DEF a
  <2>2. CASE since \in 0..(L - 1) /\ L - since \in U /\ \A t \in U : t <= L - since
    <3>1. since <= a => L - since - b <= L /\ L <= L - since + a
      BY <2>2, <1>1
    <3>2. \A t \in U : L <= t + a => since <= a
      BY <2>2, <1>1, <1>4
    <3> QED  BY <3>1, <3>2, <2>2
  <2> QED  BY <1>10, <2>1, <2>2 DEF SinceInv
<1>7. \A n : n \in 1..L <=> n \in 1..(L - 1) \/ n = L
  OBVIOUS
<1>8. \A n : n \in Wanted(V, L + 1, o) <=> n \in Wanted(U, L, o) \/ (n = L /\ since <= a)
  <2> TAKE n
  <2>1. CASE n \in 1..(L - 1)
    <3>1. n \in 1..L /\ n # L
      BY <2>1
    <3> QED  BY <3>1, <2>1, <1>2, <1>3, <1>5
  <2>2. CASE n = L
    <3>1. n \in 1..L /\ n \notin 1..(L - 1)
      BY <2>2
    <3> QED  BY <3>1, <2>2, <1>2, <1>3, <1>5, <1>6
  <2>3. CASE n \notin 1..L
    <3>1. n \notin 1..(L - 1) /\ n # L
      BY <2>3
    <3> QED  BY <3>1, <2>3, <1>2, <1>3
  <2> QED  BY <2>1, <2>2, <2>3, <1>7
<1> QED  BY <1>8 DEF a

-----------------------------------------------------------------------------
(* The lines printed                                                        *)

\* Lines before a match, perhaps after a separator.
LEMMA PiecesAre ==
  ASSUME NEW x \in Seq(OutLine), x = <<>> \/ x = <<Separator>>,
         NEW E, NEW len, NEW n \in Nat, NEW c \in 0..n, NEW y,
         LinesBefore(E, len, n, c, y)
  PROVE  /\ x \o y \in Seq(OutLine) /\ Rising(x \o y)
         /\ \A m : m \in NumbersOf(x \o y) <=> m \in (n - c)..(n - 1)
         /\ \A k \in NumberedIn(x \o y) :
              /\ (x \o y)[k].number \in (n - c)..(n - 1)
              /\ ContextLine(E, len, (x \o y)[k].number, (x \o y)[k])
<1>1. /\ y \in Seq(OutLine) /\ DOMAIN y = 1..c /\ Len(y) = c
      /\ \A k \in 1..c : /\ y[k].number = n - c + k - 1 /\ y[k].sep = "-"
                         /\ ContextLine(E, len, y[k].number, y[k])
  BY DEF LinesBefore, ContextLine
<1>2. NumberedIn(y) = 1..c
  BY <1>1 DEF NumberedIn
<1>3. Rising(y)
  BY <1>1, <1>2 DEF Rising
<1>4. ASSUME NEW m
      PROVE  m \in NumbersOf(y) <=> m \in (n - c)..(n - 1)
  <2>1. ASSUME m \in NumbersOf(y)
        PROVE  m \in (n - c)..(n - 1)
    <3>1. PICK k \in 1..c : m = y[k].number
      BY <1>2, <2>1 DEF NumbersOf
    <3> QED
      BY <1>1, <3>1
  <2>2. ASSUME m \in (n - c)..(n - 1)
        PROVE  m \in NumbersOf(y)
    <3>1. m - (n - c) + 1 \in 1..c /\ n - c + (m - (n - c) + 1) - 1 = m
      BY <2>2
    <3>2. y[m - (n - c) + 1].number = m
      BY <1>1, <3>1
    <3> QED
      BY <1>2, <3>1, <3>2 DEF NumbersOf
  <2> QED
    BY <2>1, <2>2
<1>5. NumberedIn(x) = {} /\ NumbersOf(x) = {} /\ Rising(x)
  <2>1. \A k \in DOMAIN x : x[k].sep = "--"
    BY SeparatorIs
  <2>2. NumberedIn(x) = {}
    BY <2>1 DEF NumberedIn
  <2> QED
    BY <2>2 DEF NumbersOf, Rising
<1>6. /\ NumbersOf(x \o y) = NumbersOf(x) \cup NumbersOf(y)
      /\ \A k \in NumberedIn(x \o y) : \E j \in NumberedIn(y) : (x \o y)[k] = y[j]
      /\ Rising(x \o y)
  <2>1. \A a \in NumbersOf(x), b \in NumbersOf(y) : a < b
    BY <1>5
  <2>2. y \in Seq(OutLine)
    BY <1>1
  <2>3. /\ NumbersOf(x \o y) = NumbersOf(x) \cup NumbersOf(y)
        /\ \A k \in NumberedIn(x \o y) :
             \/ \E j \in NumberedIn(x) : (x \o y)[k] = x[j]
             \/ \E j \in NumberedIn(y) : (x \o y)[k] = y[j]
    BY <2>2, LinesJoin
  <2>4. Rising(x \o y)
    BY <1>3, <1>5, <2>1, <2>2, LinesJoin
  <2> QED
    BY <1>5, <2>3, <2>4
<1>7. x \o y \in Seq(OutLine)
  BY <1>1, JoinIs
<1>8. ASSUME NEW k \in NumberedIn(x \o y)
      PROVE  /\ (x \o y)[k].number \in (n - c)..(n - 1)
             /\ ContextLine(E, len, (x \o y)[k].number, (x \o y)[k])
  <2>1. PICK j \in 1..c : (x \o y)[k] = y[j]
    BY <1>2, <1>6
  <2>2. y[j].number \in (n - c)..(n - 1)
    BY <1>1
  <2> QED
    BY <1>1, <2>1, <2>2
<1>9. \A m : m \in NumbersOf(x \o y) <=> m \in (n - c)..(n - 1)
  BY <1>4, <1>5, <1>6
<1> QED
  BY <1>6, <1>7, <1>8, <1>9

\* A line that no match touches, with its text.
LEMMA UntouchedRightly ==
  ASSUME NEW E, NEW len, NEW M, NEW o, NEW n \in Nat, NEW l, ContextLine(E, len, n, l),
         \A k \in DOMAIN M : ~Reaches(E, M[k], n)
  PROVE  Rightly(E, len, M, o, l)
<1>1. l.sep = "-" /\ l.number = n /\ TextIn(E, len, n, l.text)
  BY DEF ContextLine
<1> QED
  BY <1>1 DEF Rightly, TextIn

\* More lines, with numbers above those so far.
LEMMA LinesGoOn ==
  ASSUME NEW E, NEW len, NEW M, NEW o, NEW L, NEW K, NEW T, NEW U,
         NEW x \in Seq(OutLine), NEW y \in Seq(OutLine), LinesOut(E, len, M, o, L, T, x),
         Rising(y), \A k \in NumberedIn(y) : Rightly(E, len, M, o, y[k]),
         \A n \in Wanted(T, L, o), m \in NumbersOf(y) : n < m,
         \A n : n \in Wanted(U, K, o) <=> n \in Wanted(T, L, o) \/ n \in NumbersOf(y)
  PROVE  LinesOut(E, len, M, o, K, U, x \o y)
<1>1. Rising(x) /\ NumbersOf(x) = Wanted(T, L, o)
      /\ \A k \in NumberedIn(x) : Rightly(E, len, M, o, x[k])
  BY DEF LinesOut
<1>2. /\ NumbersOf(x \o y) = NumbersOf(x) \cup NumbersOf(y)
      /\ \A k \in NumberedIn(x \o y) :
           \/ \E j \in NumberedIn(x) : (x \o y)[k] = x[j]
           \/ \E j \in NumberedIn(y) : (x \o y)[k] = y[j]
  BY LinesJoin
<1>3. Rising(x \o y)
  BY <1>1, LinesJoin
<1>4. NumbersOf(x \o y) = Wanted(U, K, o)
  BY <1>1, <1>2
<1>5. \A k \in NumberedIn(x \o y) : Rightly(E, len, M, o, (x \o y)[k])
  BY <1>1, <1>2
<1> QED
  BY <1>3, <1>4, <1>5 DEF LinesOut

\* The lines before a match that are printed are those that no match touches.
LEMMA BeforeUntouched ==
  ASSUME PrintingApart, NEW n \in Nat, n >= 1, n < print_context.line,
         n \notin Wanted(TouchedBefore, print_context.line, opts)
  PROVE  \A k \in DOMAIN matches : ~Reaches(Ends, matches[k], n)
<1> SUFFICES ASSUME NEW k \in DOMAIN matches, Reaches(Ends, matches[k], n)
             PROVE  FALSE
  OBVIOUS
<1> DEFINE L == print_context.line
<1>1. /\ Ends \subseteq Nat /\ i \in Nat /\ L \in Nat /\ L = NumAt(Ends, i)
      /\ opts.before \in Nat /\ opts.after \in Nat /\ ApartIn(matches, buf_len)
  BY Placed
<1>2. /\ matches[k].start \in Nat /\ matches[k].end \in Nat
      /\ matches[k].start <= matches[k].end
  BY <1>1, ApartIs
<1> HIDE DEF L
<1>3. i <= matches[k].start => L <= NumAt(Ends, matches[k].start)
  BY <1>1, <1>2, NumAtMonotone
<1>4. NumAt(Ends, matches[k].start) \in Nat /\ NumAt(Ends, matches[k].start) <= n
  BY <1>1, <1>2, ReachesIs DEF Reaches
<1>5. matches[k].start < i
  BY <1>1, <1>2, <1>3, <1>4 DEF L
<1>6. n \in TouchedBefore
  BY <1>1, <1>5 DEF TouchedBefore, TouchedUpTo, L
<1>7. n - opts.before <= n /\ n <= n + opts.after
  BY <1>1
<1>8. n \in 1..(L - 1)
  BY <1>1 DEF L
<1> QED
  BY <1>6, <1>7, <1>8 DEF Wanted, L

\* Before the character, and before the end of the line.
LEMMA TouchedSoFarBefore ==
  ASSUME PrintingApart
  PROVE  /\ TouchedSoFar(TouchedBefore, print_context.line, opts,
                         print_context.lines_since_last_match)
         /\ TouchedSoFar(TouchedAfter, print_context.line, opts, Since2)
<1> DEFINE L == print_context.line
<1>1. /\ L \in Nat /\ L >= 1 /\ L + opts.after <= INT_MAX
      /\ opts.before \in Nat /\ opts.after \in Nat /\ INT_MAX \in Nat
  BY Placed
<1>2. TouchedBefore \subseteq 1..L /\ TouchedAfter \subseteq 1..L
  BY DEF TouchedBefore, TouchedAfter, TouchedUpTo
<1>3. SinceInv(TouchedBefore, L, cur_match, print_context.lines_since_last_match)
  BY DEF PrintingApart, MatchesInv, TouchedBefore
<1>4. SinceInv(TouchedAfter, L, NextCur, Since2)
  BY AmongMatches
<1> HIDE DEF L
<1>5. TouchedSoFar(TouchedBefore, L, opts, print_context.lines_since_last_match)
  BY <1>1, <1>2, <1>3 DEF TouchedSoFar
<1>6. TouchedSoFar(TouchedAfter, L, opts, Since2)
  BY <1>1, <1>2, <1>4 DEF TouchedSoFar
<1> QED
  BY <1>5, <1>6 DEF L

\* The lines printed where a match starts are those that are wanted now.
LEMMA LinesAtStart ==
  ASSUME PrintingApart, output \in Seq(OutLine),
         LinesOut(Ends, buf_len, matches, opts, print_context.line, TouchedBefore, output)
  PROVE  LinesOut(Ends, buf_len, matches, opts, print_context.line, TouchedAfter,
                  output \o AtStart)
<1> DEFINE L == print_context.line
           since == print_context.lines_since_last_match
           T == TouchedBefore
           U == TouchedAfter
<1>1. /\ Ends \subseteq Nat /\ i \in Nat /\ L \in 1..(i + 1) /\ L = NumAt(Ends, i)
      /\ opts.before \in Nat /\ opts.after \in Nat /\ i <= buf_len
      /\ buf_len \in Nat /\ INT_MAX \in Nat /\ opts.after + buf_len < INT_MAX
  BY Placed
<1>2. \A n : n \in U <=> n \in T \/ (n = L /\ Opens)
  BY AmongMatches
<1>3. AtStart \in Seq(OutLine)
  BY AtStartIs DEF PrintingApart
<1>4. CASE ~Opens
  <2>1. AtStart = <<>>
    BY <1>4, AtStartIs DEF PrintingApart
  <2>3. \A n : n \in U <=> n \in T
    BY <1>2, <1>4
  <2>4. U = T
    BY <2>3
  <2>5. output \o AtStart = output
    BY <2>1
  <2> QED
    BY <2>4, <2>5
<1>5. CASE Opens
  <2>1. PICK y : /\ AtStart = Parts \o y /\ Parts \in Seq(OutLine)
                 /\ LinesBefore(Ends, buf_len, L, Least(LinesToPrint(print_context), L - 1), y)
    BY <1>5, AtStartIs DEF PrintingApart
  <2>2. LinesToPrint(print_context) = Between(since, opts)
    BY LinesToPrintIs DEF PrintingApart, Printing, ContextInv, Between
  <2> DEFINE c == Due(since, L, opts)
  <2>3. LinesBefore(Ends, buf_len, L, c, y)
    BY <2>1, <2>2 DEF Due
  <2>4. TouchedSoFar(T, L, opts, since)
    BY TouchedSoFarBefore
  <2>6. L \in Nat /\ L >= 1
    BY <1>1
  <2>8. \A n : n \in U <=> n \in T \/ n = L
    BY <1>2, <1>5

  <2> HIDE DEF L, since, T, U, c
  <2>9. /\ c \in 0..(L - 1)
        /\ \A n : n \in Wanted(U, L, opts) <=> n \in Wanted(T, L, opts) \/ n \in (L - c)..(L - 1)
        /\ \A n \in Wanted(T, L, opts) : n < L - c
    BY <2>4, <2>8, WantedAtStart DEF c
  <2>10. Parts = <<>> \/ Parts = <<Separator>>
    BY DEF Parts
  <2>11. /\ Rising(AtStart)
         /\ \A m : m \in NumbersOf(AtStart) <=> m \in (L - c)..(L - 1)
         /\ \A k \in NumberedIn(AtStart) :
              /\ AtStart[k].number \in (L - c)..(L - 1)
              /\ ContextLine(Ends, buf_len, AtStart[k].number, AtStart[k])
    <3>1. c \in 0..L
      BY <2>6, <2>9
    <3> QED
      BY <2>1, <2>3, <2>6, <2>10, <3>1, PiecesAre
  <2>12. ASSUME NEW k \in NumberedIn(AtStart)
         PROVE  Rightly(Ends, buf_len, matches, opts, AtStart[k])
    <3> DEFINE n == AtStart[k].number
    <3>1. n \in (L - c)..(L - 1) /\ ContextLine(Ends, buf_len, n, AtStart[k])
      BY <2>11
    <3> HIDE DEF n
    <3>2. n \in Nat /\ n >= 1 /\ n < L /\ ~(n < L - c)
      BY <2>6, <2>9, <3>1
    <3>3. n \notin Wanted(T, L, opts)
      BY <2>9, <3>2
    <3>4. \A j \in DOMAIN matches : ~Reaches(Ends, matches[j], n)
      BY <3>2, <3>3, BeforeUntouched DEF L, T
    <3> QED
      BY <3>1, <3>2, <3>4, UntouchedRightly
  <2>13. \A n \in Wanted(T, L, opts), m \in NumbersOf(AtStart) : n < m
    <3> SUFFICES ASSUME NEW n \in Wanted(T, L, opts), NEW m \in NumbersOf(AtStart)
                 PROVE  n < m
      OBVIOUS
    <3>1. n < L - c /\ m \in (L - c)..(L - 1)
      BY <2>9, <2>11
    <3>2. n \in Nat
      BY DEF Wanted
    <3> QED
      BY <2>6, <2>9, <3>1, <3>2
  <2>14. \A n : n \in Wanted(U, L, opts) <=> n \in Wanted(T, L, opts) \/ n \in NumbersOf(AtStart)
    BY <2>9, <2>11
  <2>15. LinesOut(Ends, buf_len, matches, opts, L, T, output)
    BY DEF L, T
  <2>16. LinesOut(Ends, buf_len, matches, opts, L, U, output \o AtStart)
    BY <1>3, <2>11, <2>12, <2>13, <2>14, <2>15, LinesGoOn
  <2> QED
    BY <2>16 DEF L, U
<1> QED
  BY <1>4, <1>5

\* A line with a match is marked as one, and shown.
LEMMA MatchedRightly ==
  ASSUME PrintingApart, AtEol, Since2 = 0, ~opts.vimgrep
  PROVE  Rightly(Ends, buf_len, matches, opts,
                 Line(":", print_context.line, ShowLine(Ctx3).text))
<1> DEFINE L == print_context.line
           a == LineAt(Ends, i)
           text == ShowLine(Ctx3).text
           l == Line(":", L, text)
<1>1. l.number = L /\ l.sep = ":" /\ l.text = text
  BY DEF Line
<1>2. L \in Nat /\ Ends \subseteq Nat /\ buf_len \in Nat /\ i <= buf_len
  BY Placed
<1>3. IsLine(Ends, L, a, i) /\ i \in Nat
  BY LineEnds DEF PrintingApart
<1>4. a \in Nat
  BY <1>3 DEF IsLine
<1>5. \E k \in DOMAIN matches : Reaches(Ends, matches[k], L)
  <2>1. L \in TouchedAfter
    BY AmongMatches
  <2> QED
    BY <2>1 DEF TouchedAfter, TouchedUpTo
<1>6. ASSUME opts.width = 0, NEW q
      PROVE  q \in Chars(text) <=>
               /\ q \in 0..(buf_len - 1) /\ NumAt(Ends, q) = L
               /\ opts.only_matching =>
                    \E k \in DOMAIN matches : matches[k].start <= q /\ q < matches[k].end
  <2>1. ShowsUpTo(matches, buf_len, opts, a, i, ShowLine(Ctx3))
    BY <1>6, ShowLineShows
  <2>2. ShownUpTo(matches, buf_len, opts, a, i, text)
    BY <2>1 DEF ShowsUpTo
  <2> HIDE DEF a, text, L
  <2>3. q \in Chars(text) <=>
          /\ q \in a..i /\ q < buf_len
          /\ opts.only_matching =>
               \E k \in DOMAIN matches : matches[k].start <= q /\ q < matches[k].end
    BY <2>2 DEF ShownUpTo
  <2>4. q \in Nat => (NumAt(Ends, q) = L <=> a <= q /\ q <= i)
    BY <1>2, <1>3, PlacesOfLine
  <2>5. q \in a..i /\ q < buf_len <=> q \in 0..(buf_len - 1) /\ NumAt(Ends, q) = L
    BY <1>2, <1>3, <1>4, <2>4
  <2> QED
    BY <2>3, <2>5
<1> HIDE DEF l, L, text, a
<1>7. Rightly(Ends, buf_len, matches, opts, l)
  BY <1>1, <1>2, <1>5, <1>6 DEF Rightly
<1> QED
  BY <1>7 DEF l, L, text

\* A line after a match that is not touched itself.
LEMMA TrailingRightly ==
  ASSUME PrintingApart, AtEol, Since2 # 0, NEW l,
         ContextLine(Ends, buf_len, print_context.line, l)
  PROVE  Rightly(Ends, buf_len, matches, opts, l)
<1> DEFINE L == print_context.line
<1>1. /\ L \in Nat /\ Ends \subseteq Nat /\ i \in Nat /\ i \in Ends /\ L = NumAt(Ends, i)
      /\ ApartIn(matches, buf_len) /\ L >= 1
  BY Placed
<1>2. L \notin TouchedAfter
  BY AmongMatches
<1>3. ASSUME NEW k \in DOMAIN matches
      PROVE  ~Reaches(Ends, matches[k], L)
  <2>1. /\ matches[k].start \in Nat /\ matches[k].end \in Nat
        /\ matches[k].start <= matches[k].end
    BY <1>1, ApartIs
  <2>2. CASE matches[k].start < i + 1
    BY <1>1, <1>2, <2>2 DEF TouchedAfter, TouchedUpTo
  <2>3. CASE ~(matches[k].start < i + 1)
    <3>1. i < matches[k].start
      BY <1>1, <2>1, <2>3
    <3> HIDE DEF L
    <3>2. NumAt(Ends, i) < NumAt(Ends, matches[k].start)
          /\ NumAt(Ends, matches[k].start) \in Nat
      BY <1>1, <2>1, <3>1, ReachesIs
    <3> QED
      BY <1>1, <3>2 DEF Reaches
  <2> QED
    BY <2>2, <2>3
<1> QED
  BY <1>1, <1>3, UntouchedRightly

\* What is printed at the end of a line: the line, if it is wanted.
LEMMA AtEolIs ==
  ASSUME PrintingApart, ~opts.vimgrep
  PROVE  /\ AtMatchedEol \o AtEveryEol \in Seq(OutLine)
         /\ AtMatchedEol \in Seq(OutLine) /\ AtEveryEol \in Seq(OutLine)
         /\ IF AtEol /\ Since2 <= opts.after
            THEN \E l \in OutLine :
                   /\ AtMatchedEol \o AtEveryEol = <<l>>
                   /\ l.number = print_context.line /\ l.sep # "--"
                   /\ Rightly(Ends, buf_len, matches, opts, l)
            ELSE AtMatchedEol \o AtEveryEol = <<>>
<1> DEFINE L == print_context.line
           y == AtMatchedEol \o AtEveryEol
<1>1. /\ AtEveryEol \in Seq(OutLine)
      /\ IF AtEol /\ Since2 \in 1..opts.after
         THEN \E l : /\ AtEveryEol = <<l>>
                     /\ ContextLine(Ends, buf_len, L, l)
         ELSE AtEveryEol = <<>>
  BY AtEveryEolIs DEF PrintingApart
<1>2. /\ AtMatchedEol \in Seq(OutLine)
      /\ ~Matched => AtMatchedEol = <<>>
      /\ Matched => /\ AtMatchedEol = <<Line(":", L, ShowLine(Ctx3).text)>>
                    /\ ShowLine(Ctx3).text \in Seq(Nat)
  BY AtMatchedEolIs DEF PrintingApart
<1>3. Matched <=> AtEol /\ Since2 = 0
  BY AfterChar DEF PrintingApart, Printing, ContextInv
<1>4. Since2 \in Nat
  BY ContextKept DEF PrintingApart
<1>5. opts.after \in Nat /\ L \in Nat
  BY Placed
<1> HIDE DEF L
<1>6. y \in Seq(OutLine)
  BY <1>1, <1>2, JoinIs
<1>7. CASE AtEol /\ Since2 = 0
  <2> DEFINE l == Line(":", L, ShowLine(Ctx3).text)
  <2>1. AtEveryEol = <<>>
    BY <1>1, <1>7
  <2>2. AtMatchedEol = <<l>> /\ l.number = L /\ l.sep = ":" /\ l \in OutLine
    BY <1>2, <1>3, <1>5, <1>7 DEF Line, OutLine
  <2>3. Rightly(Ends, buf_len, matches, opts, l)
    BY <1>7, MatchedRightly DEF L
  <2> HIDE DEF l
  <2>4. y = <<l>>
    BY <2>1, <2>2
  <2>5. Since2 <= opts.after
    BY <1>5, <1>7
  <2> QED
    BY <1>1, <1>2, <1>6, <1>7, <2>2, <2>3, <2>4, <2>5 DEF L
<1>8. CASE AtEol /\ Since2 # 0 /\ Since2 <= opts.after
  <2>1. Since2 \in 1..opts.after
    BY <1>4, <1>5, <1>8
  <2>2. PICK l : AtEveryEol = <<l>> /\ ContextLine(Ends, buf_len, L, l)
    BY <1>1, <1>8, <2>1
  <2>3. l \in OutLine /\ l.sep = "-" /\ l.number = L
    BY <2>2 DEF ContextLine
  <2>4. Rightly(Ends, buf_len, matches, opts, l)
    BY <1>8, <2>2, TrailingRightly DEF L
  <2>5. AtMatchedEol = <<>>
    BY <1>2, <1>3, <1>8
  <2>6. y = <<l>>
    BY <2>2, <2>5
  <2> QED
    BY <1>1, <1>2, <1>6, <1>8, <2>3, <2>4, <2>6 DEF L
<1>9. CASE ~(AtEol /\ Since2 <= opts.after)
  <2>1. AtEveryEol = <<>>
    BY <1>1, <1>9
  <2>2. AtMatchedEol = <<>>
    BY <1>2, <1>3, <1>5, <1>9
  <2>3. y = <<>>
    BY <2>1, <2>2
  <2> QED
    BY <1>1, <1>2, <1>6, <1>9, <2>3
<1> QED
  BY <1>7, <1>8, <1>9

\* With the end of the line, the lines before the next are those that are wanted.
LEMMA LinesAtEnd ==
  ASSUME PrintingApart, ~opts.vimgrep, NEW x \in Seq(OutLine),
         LinesOut(Ends, buf_len, matches, opts, print_context.line, TouchedAfter, x)
  PROVE  LinesOut(Ends, buf_len, matches, opts, NextCtx.line,
                  TouchedUpTo(Ends, matches, i + 1, NextCtx.line),
                  x \o (AtMatchedEol \o AtEveryEol))
<1> DEFINE L == print_context.line
           U == TouchedAfter
           V == TouchedUpTo(Ends, matches, i + 1, NextCtx.line)
           K == NextCtx.line
           y == AtMatchedEol \o AtEveryEol
<1>1. /\ y \in Seq(OutLine)
      /\ IF AtEol /\ Since2 <= opts.after
         THEN \E l \in OutLine : /\ y = <<l>> /\ l.number = L /\ l.sep # "--"
                                 /\ Rightly(Ends, buf_len, matches, opts, l)
         ELSE y = <<>>
  BY AtEolIs
<1>2. /\ \A n : n \in V <=> n \in U \/ (AtEol /\ InMatch2 /\ n = L + 1)
      /\ K = IF AtEol THEN L + 1 ELSE L
  BY TouchedNext
<1>3. TouchedSoFar(U, L, opts, Since2)
  BY TouchedSoFarBefore
<1>4. InMatch2 => L \in U
  BY AmongMatches
<1>5. L \in Nat /\ opts.after \in Nat
  BY Placed
<1>6. LinesOut(Ends, buf_len, matches, opts, L, U, x)
  OBVIOUS
<1> HIDE DEF L, U, V, K, y
<1>7. Rising(y) /\ (\A k \in NumberedIn(y) : Rightly(Ends, buf_len, matches, opts, y[k]))
      /\ \A m : m \in NumbersOf(y) <=> m = L /\ AtEol /\ Since2 <= opts.after
  <2>1. CASE y = <<>> /\ ~(AtEol /\ Since2 <= opts.after)
    <3>1. NumberedIn(y) = {}
      BY <2>1 DEF NumberedIn
    <3> QED
      BY <2>1, <3>1 DEF Rising, NumbersOf
  <2>2. CASE /\ AtEol /\ Since2 <= opts.after
             /\ \E l \in OutLine : /\ y = <<l>> /\ l.number = L /\ l.sep # "--"
                                   /\ Rightly(Ends, buf_len, matches, opts, l)
    <3>1. PICK l \in OutLine : /\ y = <<l>> /\ l.number = L /\ l.sep # "--"
                               /\ Rightly(Ends, buf_len, matches, opts, l)
      BY <2>2
    <3>2. y[1] = l /\ DOMAIN y = {1}
      BY <3>1
    <3>3. \A k : k \in NumberedIn(y) <=> k = 1
      BY <3>1, <3>2 DEF NumberedIn
    <3> QED
      BY <2>2, <3>1, <3>2, <3>3 DEF Rising, NumbersOf
  <2> QED
    BY <1>1, <2>1, <2>2
<1>8. \A n \in Wanted(U, L, opts), m \in NumbersOf(y) : n < m
  BY <1>5, <1>7 DEF Wanted
<1>9. \A n : n \in Wanted(V, K, opts) <=> n \in Wanted(U, L, opts) \/ n \in NumbersOf(y)
  <2>1. CASE AtEol
    <3>1. \A n : n \in V <=> n \in U \/ (InMatch2 /\ n = L + 1)
      BY <1>2, <2>1
    <3>2. \A n : n \in Wanted(V, L + 1, opts) <=>
                   n \in Wanted(U, L, opts) \/ (n = L /\ Since2 <= opts.after)
      BY <1>3, <1>4, <3>1, WantedAtEnd
    <3> QED
      BY <1>2, <1>7, <2>1, <3>2
  <2>2. CASE ~AtEol
    <3>1. \A n : n \in V <=> n \in U
      BY <1>2, <2>2
    <3>2. V = U
      <4>1. V = {n \in V : TRUE} /\ U = {n \in U : TRUE}
        OBVIOUS
      <4> QED
        BY <3>1, <4>1
    <3> QED
      BY <1>2, <1>7, <2>2, <3>2
  <2> QED
    BY <2>1, <2>2
<1>10. LinesOut(Ends, buf_len, matches, opts, K, V, x \o y)
  BY <1>1, <1>6, <1>7, <1>8, <1>9, LinesGoOn
<1> QED
  BY <1>10 DEF K, V, y

\* The output of a character, from its start first.
LEMMA OutputNext ==
  ASSUME PrintingApart, output \in Seq(OutLine), ~opts.vimgrep
  PROVE  /\ output \o AtStart \in Seq(OutLine)
         /\ output \o AtStart \o AtMatchedEol \o AtEveryEol =
              (output \o AtStart) \o (AtMatchedEol \o AtEveryEol)
<1>1. AtStart \in Seq(OutLine)
  BY AtStartIs DEF PrintingApart
<1>2. output \o AtStart \in Seq(OutLine)
  BY <1>1, JoinIs
<1>3. AtMatchedEol \in Seq(OutLine) /\ AtEveryEol \in Seq(OutLine)
  BY AtEolIs
<1> DEFINE x == output \o AtStart
<1>4. x \in Seq(OutLine)
  BY <1>2
<1> HIDE DEF x
<1>5. (x \o AtMatchedEol) \o AtEveryEol = x \o (AtMatchedEol \o AtEveryEol)
  BY <1>3, <1>4, ConcatAssociative
<1> QED
  BY <1>2, <1>5 DEF x

\* A character keeps the lines printed those wanted.
LEMMA LinesKept ==
  ASSUME PrintingApart, ~opts.vimgrep, output \in Seq(OutLine),
         LinesOut(Ends, buf_len, matches, opts, print_context.line, TouchedBefore, output)
  PROVE  LinesOut(Ends, buf_len, matches, opts, NextCtx.line,
                  TouchedUpTo(Ends, matches, i + 1, NextCtx.line),
                  output \o AtStart \o AtMatchedEol \o AtEveryEol)
<1> DEFINE x == output \o AtStart
<1>1. /\ x \in Seq(OutLine)
      /\ output \o AtStart \o AtMatchedEol \o AtEveryEol = x \o (AtMatchedEol \o AtEveryEol)
  BY OutputNext
<1>2. LinesOut(Ends, buf_len, matches, opts, print_context.line, TouchedAfter, x)
  BY LinesAtStart
<1> HIDE DEF x
<1> QED
  BY <1>1, <1>2, LinesAtEnd

-----------------------------------------------------------------------------
(* The groups of lines                                                      *)

\* The last line printed is the last one wanted.
LEMMA LastWanted ==
  ASSUME NEW T, NEW L, NEW o, NEW since, TouchedSoFar(T, L, o, since), T # {}, since # 0,
         NEW x \in Seq(OutLine), Rising(x), NumbersOf(x) = Wanted(T, L, o),
         x # <<>> => x[Len(x)].sep # "--"
  PROVE  /\ since \in 1..(L - 1) /\ x # <<>> /\ x[Len(x)].sep # "--"
         /\ x[Len(x)].number = Least(L - 1, L - since + o.after)
<1> DEFINE a == o.after
           b == o.before
           t == L - since
           q == Least(L - 1, t + a)
<1>1. /\ L \in Nat /\ L >= 1 /\ T \subseteq 1..L /\ a \in Nat /\ b \in Nat
  BY DEF TouchedSoFar
<1>2. since \in 0..(L - 1) /\ t \in T /\ \A u \in T : u <= t
  BY DEF TouchedSoFar, SinceInv
<1>3. \A n : n \in Wanted(T, L, o) <=>
               n \in 1..(L - 1) /\ \E u \in T : u - b <= n /\ n <= u + a
  BY DEF Wanted
<1>4. since \in 1..(L - 1) /\ t \in 1..(L - 1)
  BY <1>1, <1>2
<1> HIDE DEF a, b, t
<1>5. q \in 1..(L - 1) /\ t - b <= q /\ q <= t + a
  BY <1>1, <1>4 DEF Least
<1>6. q \in Wanted(T, L, o)
  BY <1>2, <1>3, <1>5
<1>7. \A n \in Wanted(T, L, o) : n <= q
  <2> SUFFICES ASSUME NEW n \in Wanted(T, L, o)  PROVE n <= q
    OBVIOUS
  <2>1. n \in 1..(L - 1) /\ \E u \in T : n <= u + a
    BY <1>3
  <2>2. n <= t + a
    <3>1. PICK u \in T : n <= u + a
      BY <2>1
    <3>2. u \in Nat /\ u <= t
      BY <1>1, <1>2
    <3> QED
      BY <1>1, <1>4, <2>1, <3>1, <3>2
  <2> QED
    BY <2>1, <2>2 DEF Least
<1> HIDE DEF q
<1>8. PICK k \in NumberedIn(x) : x[k].number = q
  BY <1>6 DEF NumbersOf
<1>9. Len(x) \in Nat /\ k \in 1..Len(x)
  BY DEF NumberedIn
<1>10. x # <<>> /\ x[Len(x)].sep # "--" /\ Len(x) \in NumberedIn(x)
  BY <1>9 DEF NumberedIn
<1>11. x[Len(x)].number \in Wanted(T, L, o)
  BY <1>10 DEF NumbersOf
<1>12. x[Len(x)].number <= q /\ x[Len(x)].number \in Nat
  BY <1>3, <1>7, <1>11
<1>13. k < Len(x) => q < x[Len(x)].number
  BY <1>8, <1>10 DEF Rising
<1>14. x[Len(x)].number = q
  BY <1>5, <1>8, <1>9, <1>12, <1>13
<1> QED
  BY <1>4, <1>10, <1>14 DEF q, t, a

\* Groups that go on with a line that fits.
LEMMA GroupsLine ==
  ASSUME NEW x \in Seq(OutLine), NEW n \in Nat, Grouped(x), Fits(x, n),
         NEW l \in OutLine, l.sep # "--", l.number = n
  PROVE  /\ Grouped(x \o <<l>>) /\ Fits(x \o <<l>>, n + 1)
         /\ x \o <<l>> # <<>> /\ (x \o <<l>>)[Len(x \o <<l>>)].sep # "--"
<1> DEFINE y == <<l>>
<1>1. /\ y \in Seq(OutLine) /\ Len(y) = 1
      /\ \A k \in DOMAIN y : y[k].sep # "--" /\ y[k].number = n + k - 1
  OBVIOUS
<1>2. y[1] = l
  OBVIOUS
<1> HIDE DEF y
<1>3. Grouped(x \o y) /\ Fits(x \o y, n + Len(y))
  <2>1. n \in Int /\ y \in Seq(OutLine)
    BY <1>1
  <2>2. \A k \in DOMAIN y : y[k].sep # "--" /\ y[k].number = n + k - 1
    BY <1>1
  <2> QED
    BY <2>1, <2>2, GroupsJoin
<1>4. Len(x \o y) = Len(x) + 1 /\ (x \o y)[Len(x) + 1] = l /\ Len(x) \in Nat
  <2>1. y \in Seq(OutLine) /\ Len(y) = 1 /\ 1 \in 1..Len(y)
    BY <1>1
  <2>2. Len(x \o y) = Len(x) + Len(y) /\ \A k \in 1..Len(y) : (x \o y)[Len(x) + k] = y[k]
    BY <2>1, JoinIs
  <2>3. (x \o y)[Len(x) + 1] = y[1]
    BY <2>1, <2>2
  <2> QED
    BY <1>2, <2>1, <2>2, <2>3
<1>5. x \o y # <<>>
  BY <1>4
<1> QED
  BY <1>1, <1>3, <1>4, <1>5 DEF y

\* Where a match starts after lines touched, a match has ended.
LEMMA SomeEnded ==
  ASSUME PrintingApart, Opens, TouchedBefore # {}
  PROVE  cur_match > 0
<1>1. PICK k \in DOMAIN matches : matches[k].start < i
  BY DEF TouchedBefore, TouchedUpTo
<1>2. ~Across(matches, i)
  BY AmongMatches
<1>3. ApartIn(matches, buf_len) /\ i \in Nat /\ cur_match \in 0..Len(matches)
  BY Placed
<1>4. /\ matches[k].end \in Nat /\ matches[k].start \in Nat /\ k \in 1..Len(matches)
      /\ Len(matches) \in Nat
  BY <1>3, ApartIs
<1>5. ~(i <= matches[k].end)
  BY <1>1, <1>2 DEF Across
<1>6. matches[k].end < i
  BY <1>3, <1>4, <1>5
<1>7. EndBefore(matches, cur_match, i)
  BY DEF PrintingApart, MatchesInv
<1>8. k <= cur_match
  BY <1>6, <1>7 DEF EndBefore
<1> QED
  BY <1>3, <1>4, <1>8

\* A separator is printed before a match exactly after lines that are passed over.
LEMMA GroupsAtStart ==
  ASSUME PrintingApart, opts.before + opts.after > 0, output \in Seq(OutLine),
         LinesOut(Ends, buf_len, matches, opts, print_context.line, TouchedBefore, output),
         GroupsOut(print_context.line, TouchedBefore,
                   print_context.lines_since_last_match, output)
  PROVE  GroupsOut(print_context.line, TouchedAfter, Since2, output \o AtStart)
<1> DEFINE L == print_context.line
           since == print_context.lines_since_last_match
           T == TouchedBefore
           U == TouchedAfter
           x == output
           a == opts.after
           b == opts.before
           c == Due(since, L, opts)
<1>1. L \in Nat /\ L >= 1 /\ a \in Nat /\ b \in Nat /\ since \in Nat
  BY Placed
<1>2. \A n : n \in U <=> n \in T \/ (n = L /\ Opens)
  BY AmongMatches
<1>3. TouchedSoFar(T, L, opts, since)
  BY TouchedSoFarBefore
<1>4. Rising(x) /\ NumbersOf(x) = Wanted(T, L, opts)
  BY DEF LinesOut
<1>5. /\ Grouped(x) /\ (T = {} => x = <<>>)
      /\ IF since = 0 THEN Fits(x, L) ELSE x # <<>> => x[Len(x)].sep # "--"
  BY DEF GroupsOut
<1>6. x \in Seq(OutLine)
  OBVIOUS
<1>7. CASE ~Opens
  <2>1. AtStart = <<>>
    BY <1>7, AtStartIs DEF PrintingApart
  <2>2. x \o AtStart = x
    BY <2>1
  <2> HIDE DEF T, U
  <2>3. \A n : n \in U <=> n \in T
    BY <1>2, <1>7
  <2>4. U = T
    BY <2>3
  <2>5. Since2 = since
    BY <1>7 DEF Since2
  <2> QED
    BY <1>5, <2>2, <2>4, <2>5 DEF GroupsOut, U
<1>8. CASE Opens
  <2>1. PICK y : /\ AtStart = Parts \o y /\ Parts \in Seq(OutLine)
                 /\ LinesBefore(Ends, buf_len, L, Least(LinesToPrint(print_context), L - 1), y)
    BY <1>8, AtStartIs DEF PrintingApart
  <2>2. LinesToPrint(print_context) = Between(since, opts)
    BY LinesToPrintIs DEF PrintingApart, Printing, ContextInv, Between
  <2>3. LinesBefore(Ends, buf_len, L, c, y)
    BY <2>1, <2>2 DEF Due
  <2>4. Parts = IF cur_match > 0 /\ since > b + a + 1 THEN <<Separator>> ELSE <<>>
    BY DEF Parts, PassedOver
  <2>5. SinceInv(T, L, cur_match, since)
    BY DEF PrintingApart, MatchesInv, TouchedBefore
  <2>6. T # {} => cur_match > 0
    BY <1>8, SomeEnded
  <2>7. U # {} /\ Since2 = 0
    BY <1>2, <1>8 DEF Since2
  <2>8. c = IF Between(since, opts) <= L - 1 THEN Between(since, opts) ELSE L - 1
    BY DEF Due, Least
  <2>9. Between(since, opts) =
          IF since <= a THEN 0 ELSE IF since - (a + 1) <= b THEN since - (a + 1) ELSE b
    BY DEF Between
  <2> HIDE DEF T, U, L, since, a, b, c
  <2>10. c \in Nat /\ c <= L - 1
    BY <1>1, <2>8, <2>9
  <2>11. /\ y \in Seq(OutLine) /\ Len(y) = c
         /\ \A k \in DOMAIN y : y[k].sep # "--" /\ y[k].number = (L - c) + k - 1
    <3>1. y \in Seq(OutLine) /\ Len(y) = c
      BY <2>3 DEF LinesBefore
    <3>2. DOMAIN y = 1..c
      BY <3>1
    <3>3. \A k \in 1..c : y[k].sep = "-" /\ y[k].number = L - c + k - 1
      BY <2>3 DEF LinesBefore, ContextLine
    <3> QED
      BY <3>1, <3>2, <3>3
  <2>12. ASSUME Grouped(x \o Parts), Fits(x \o Parts, L - c)
         PROVE  GroupsOut(L, U, Since2, x \o AtStart)
    <3> DEFINE z == x \o Parts
    <3>1. z \in Seq(OutLine) /\ L - c \in Int
      BY <1>1, <1>6, <2>1, <2>10, JoinIs
    <3>2. x \o AtStart = z \o y
      BY <1>6, <2>1, <2>11, ConcatAssociative, SMTT(30)
    <3>3. Grouped(z) /\ Fits(z, L - c)
      BY <2>12
    <3> HIDE DEF z
    <3>4. Grouped(z \o y) /\ Fits(z \o y, (L - c) + Len(y))
      BY <2>11, <3>1, <3>3, GroupsJoin
    <3>5. (L - c) + Len(y) = L
      BY <1>1, <2>10, <2>11
    <3> QED
      BY <2>7, <3>2, <3>4, <3>5 DEF GroupsOut
  <2>13. CASE T = {}
    <3>1. x = <<>> /\ cur_match = 0
      BY <1>5, <2>5, <2>13 DEF SinceInv
    <3>2. Parts = <<>>
      BY <2>4, <3>1
    <3>3. x \o Parts = <<>>
      BY <3>1, <3>2
    <3>4. Grouped(x \o Parts) /\ Fits(x \o Parts, L - c)
      BY <1>5, <3>1, <3>3 DEF Fits
    <3> QED
      BY <2>12, <3>4 DEF L, U
  <2>14. CASE T # {} /\ since = 0
    <3>1. Parts = <<>> /\ c = 0
      BY <1>1, <2>4, <2>8, <2>9, <2>14
    <3>2. x \o Parts = x /\ L - c = L
      BY <1>1, <3>1
    <3> QED
      BY <1>5, <2>12, <2>14, <3>2 DEF L, U
  <2>15. CASE T # {} /\ since # 0
    <3>1. /\ since \in 1..(L - 1) /\ x # <<>> /\ x[Len(x)].sep # "--"
          /\ x[Len(x)].number = Least(L - 1, L - since + opts.after)
      BY <1>3, <1>4, <1>5, <1>6, <2>15, LastWanted
    <3> DEFINE q == x[Len(x)].number
    <3>2. q = IF L - 1 <= L - since + a THEN L - 1 ELSE L - since + a
      BY <3>1 DEF Least, a
    <3> HIDE DEF q
    <3>3. CASE since > b + a + 1
      <4>1. Parts = <<Separator>>
        BY <2>4, <2>6, <2>15, <3>3
      <4>2. c = b /\ q + 1 < L - c /\ L - c \in Int
        BY <1>1, <2>8, <2>9, <3>1, <3>2, <3>3
      <4>3. x[Len(x)].number + 1 < L - c
        BY <4>2 DEF q
      <4>4. Grouped(x \o <<Separator>>) /\ Fits(x \o <<Separator>>, L - c)
        BY <1>5, <1>6, <3>1, <4>2, <4>3, GroupsSeparator
      <4> QED
        BY <2>12, <4>1, <4>4 DEF L, U
    <3>4. CASE ~(since > b + a + 1)
      <4>1. Parts = <<>>
        BY <2>4, <3>4
      <4>2. x \o Parts = x
        BY <1>6, <4>1
      <4>3. q + 1 = L - c
        BY <1>1, <2>8, <2>9, <3>1, <3>2, <3>4
      <4>4. Fits(x, L - c)
        BY <3>1, <4>3 DEF Fits, q
      <4> QED
        BY <1>5, <2>12, <4>2, <4>4 DEF L, U
    <3> QED
      BY <3>3, <3>4
  <2> QED
    BY <2>13, <2>14, <2>15
<1> QED
  BY <1>7, <1>8

\* A line printed at its end fits, and what is to come after it.
LEMMA GroupsAtEnd ==
  ASSUME PrintingApart, ~opts.vimgrep, NEW x \in Seq(OutLine),
         LinesOut(Ends, buf_len, matches, opts, print_context.line, TouchedAfter, x),
         GroupsOut(print_context.line, TouchedAfter, Since2, x)
  PROVE  GroupsOut(NextCtx.line, TouchedUpTo(Ends, matches, i + 1, NextCtx.line), Since3,
                   x \o (AtMatchedEol \o AtEveryEol))
<1> DEFINE L == print_context.line
           U == TouchedAfter
           V == TouchedUpTo(Ends, matches, i + 1, NextCtx.line)
           K == NextCtx.line
           y == AtMatchedEol \o AtEveryEol
           a == opts.after
<1>1. /\ y \in Seq(OutLine)
      /\ IF AtEol /\ Since2 <= a
         THEN \E l \in OutLine : y = <<l>> /\ l.number = L /\ l.sep # "--"
         ELSE y = <<>>
  BY AtEolIs
<1>2. /\ \A n : n \in V <=> n \in U \/ (AtEol /\ InMatch2 /\ n = L + 1)
      /\ K = IF AtEol THEN L + 1 ELSE L
  BY TouchedNext
<1>3. TouchedSoFar(U, L, opts, Since2)
  BY TouchedSoFarBefore
<1>4. (InMatch2 => Since2 = 0) /\ (Since2 = 0 <=> L \in U)
  BY AmongMatches
<1>5. L \in Nat /\ L >= 1 /\ a \in Nat /\ INT_MAX \in Nat /\ a < INT_MAX
  BY Placed
<1>6. Since2 \in Nat
  BY ContextKept DEF PrintingApart
<1>7. /\ Grouped(x) /\ (U = {} => x = <<>>)
      /\ IF Since2 = 0 THEN Fits(x, L) ELSE x # <<>> => x[Len(x)].sep # "--"
  BY DEF GroupsOut
<1>8. Rising(x) /\ NumbersOf(x) = Wanted(U, L, opts)
  BY DEF LinesOut
<1>9. Since3 = IF AtEol /\ ~InMatch2 /\ Since2 < INT_MAX THEN Since2 + 1 ELSE Since2
  BY DEF Since3
<1>10. U = {} => Since2 = INT_MAX
  BY <1>3 DEF TouchedSoFar, SinceInv
<1> HIDE DEF L, U, V, K, y, a
<1>11. V = {} => U = {}
  BY <1>2
<1>12. CASE AtEol /\ Since2 <= a
  <2>1. PICK l \in OutLine : y = <<l>> /\ l.number = L /\ l.sep # "--"
    BY <1>1, <1>12
  <2>2. U # {}
    BY <1>5, <1>10, <1>12
  <2>3. Fits(x, L)
    <3>1. CASE Since2 = 0
      BY <1>7, <3>1
    <3>2. CASE Since2 # 0
      <4>1. /\ Since2 \in 1..(L - 1) /\ x # <<>> /\ x[Len(x)].sep # "--"
            /\ x[Len(x)].number = Least(L - 1, L - Since2 + opts.after)
        BY <1>3, <1>7, <1>8, <2>2, <3>2, LastWanted
      <4>2. Least(L - 1, L - Since2 + a) = L - 1
        BY <1>5, <1>12, <4>1 DEF Least
      <4>3. x[Len(x)].number + 1 = L
        BY <1>5, <4>1, <4>2 DEF a
      <4> QED
        BY <4>1, <4>3 DEF Fits
    <3> QED
      BY <3>1, <3>2
  <2>4. /\ Grouped(x \o <<l>>) /\ Fits(x \o <<l>>, L + 1)
        /\ x \o <<l>> # <<>> /\ (x \o <<l>>)[Len(x \o <<l>>)].sep # "--"
    BY <1>5, <1>7, <2>1, <2>3, GroupsLine
  <2>5. GroupsOut(K, V, Since3, x \o y)
    BY <1>2, <1>11, <1>12, <2>1, <2>2, <2>4 DEF GroupsOut
  <2> QED
    BY <2>5 DEF K, V, y
<1>13. CASE ~AtEol
  <2>1. y = <<>> /\ K = L /\ Since3 = Since2
    BY <1>1, <1>2, <1>9, <1>13
  <2>2. x \o y = x
    BY <2>1
  <2>3. GroupsOut(K, V, Since3, x \o y)
    BY <1>7, <1>11, <2>1, <2>2 DEF GroupsOut
  <2> QED
    BY <2>3 DEF K, V, y
<1>14. CASE AtEol /\ ~(Since2 <= a)
  <2>1. y = <<>> /\ Since2 # 0
    BY <1>1, <1>5, <1>14
  <2>2. x \o y = x
    BY <2>1
  <2>3. Since3 # 0
    BY <1>6, <1>9, <2>1
  <2>4. GroupsOut(K, V, Since3, x \o y)
    BY <1>7, <1>11, <2>1, <2>2, <2>3 DEF GroupsOut
  <2> QED
    BY <2>4 DEF K, V, y
<1> QED
  BY <1>12, <1>13, <1>14

\* A character keeps the groups.
LEMMA GroupsKept ==
  ASSUME PrintingApart, ~opts.vimgrep, opts.before + opts.after > 0,
         output \in Seq(OutLine),
         LinesOut(Ends, buf_len, matches, opts, print_context.line, TouchedBefore, output),
         GroupsOut(print_context.line, TouchedBefore,
                   print_context.lines_since_last_match, output)
  PROVE  GroupsOut(NextCtx.line, TouchedUpTo(Ends, matches, i + 1, NextCtx.line),
                   NextCtx.lines_since_last_match,
                   output \o AtStart \o AtMatchedEol \o AtEveryEol)
<1> DEFINE x == output \o AtStart
<1>1. /\ x \in Seq(OutLine)
      /\ output \o AtStart \o AtMatchedEol \o AtEveryEol = x \o (AtMatchedEol \o AtEveryEol)
  BY OutputNext
<1>2. LinesOut(Ends, buf_len, matches, opts, print_context.line, TouchedAfter, x)
  BY LinesAtStart
<1>3. GroupsOut(print_context.line, TouchedAfter, Since2, x)
  BY GroupsAtStart
<1>4. NextCtx.lines_since_last_match = Since3
  BY TouchedNext
<1> HIDE DEF x
<1> QED
  BY <1>1, <1>2, <1>3, <1>4, GroupsAtEnd

-----------------------------------------------------------------------------
(* The matches reported                                                     *)

\* Where the reports of the first n matches are in the output.
Reports(E, M, n, x, g) ==
  /\ g \in [1..n -> DOMAIN x]
  /\ \A a, b \in 1..n : a < b => g[a] < g[b]
  /\ \A k \in DOMAIN x : x[k].sep = ":" <=> \E a \in 1..n : g[a] = k
  /\ \A a \in 1..n : Reported(E, M[a], x[g[a]])

\* The matches reported, by a function from matches to places of the output.
LEMMA HitsAre ==
  ASSUME NEW E, NEW M, NEW n, NEW x
  PROVE  HitsOut(E, M, n, x) <=> \E g : Reports(E, M, n, x, g)
<1>1. HitsOut(E, M, n, x) => \E g : Reports(E, M, n, x, g)
  BY DEF HitsOut, Reports
<1>2. (\E g : Reports(E, M, n, x, g)) => HitsOut(E, M, n, x)
  BY DEF HitsOut, Reports
<1> QED
  BY <1>1, <1>2

\* Lines that report nothing.
LEMMA HitsPlain ==
  ASSUME NEW E, NEW M, NEW n \in Nat, NEW x \in Seq(OutLine), NEW y \in Seq(OutLine),
         HitsOut(E, M, n, x), \A k \in DOMAIN y : y[k].sep # ":"
  PROVE  HitsOut(E, M, n, x \o y)
<1>1. PICK g : Reports(E, M, n, x, g)
  BY HitsAre
<1> DEFINE z == x \o y
<1>2. /\ Len(x) \in Nat /\ Len(y) \in Nat
      /\ DOMAIN x = 1..Len(x) /\ DOMAIN y = 1..Len(y)
      /\ DOMAIN z = 1..(Len(x) + Len(y))
      /\ \A k \in 1..Len(x) : z[k] = x[k]
      /\ \A k \in DOMAIN z :
           \/ k \in 1..Len(x)
           \/ k > Len(x) /\ k - Len(x) \in 1..Len(y) /\ z[k] = y[k - Len(x)]
  BY JoinIs
<1> HIDE DEF z
<1>3. g \in [1..n -> DOMAIN z] /\ \A a \in 1..n : g[a] \in 1..Len(x)
  BY <1>1, <1>2 DEF Reports
<1>4. ASSUME NEW k \in DOMAIN z
      PROVE  z[k].sep = ":" <=> \E a \in 1..n : g[a] = k
  <2>1. CASE k \in 1..Len(x)
    BY <1>1, <1>2, <2>1 DEF Reports
  <2>2. CASE k > Len(x) /\ k - Len(x) \in 1..Len(y) /\ z[k] = y[k - Len(x)]
    <3>1. z[k].sep # ":"
      BY <1>2, <2>2
    <3>2. \A a \in 1..n : g[a] # k
      BY <1>2, <1>3, <2>2
    <3> QED
      BY <3>1, <3>2
  <2> QED
    BY <1>2, <2>1, <2>2
<1>5. Reports(E, M, n, z, g)
  BY <1>1, <1>2, <1>3, <1>4 DEF Reports
<1> QED
  BY <1>5, HitsAre DEF z

\* Reports of the next matches.
LEMMA HitsMore ==
  ASSUME NEW E, NEW M, NEW n \in Nat, NEW m \in Nat, n <= m,
         NEW x \in Seq(OutLine), NEW y \in Seq(OutLine), Len(y) = m - n,
         HitsOut(E, M, n, x),
         \A k \in 1..(m - n) : y[k].sep = ":" /\ Reported(E, M[n + k], y[k])
  PROVE  HitsOut(E, M, m, x \o y)
<1>1. PICK g : Reports(E, M, n, x, g)
  BY HitsAre
<1> DEFINE z == x \o y
           h == [a \in 1..m |-> IF a <= n THEN g[a] ELSE Len(x) + (a - n)]
<1>2. /\ Len(x) \in Nat
      /\ DOMAIN x = 1..Len(x)
      /\ DOMAIN z = 1..(Len(x) + (m - n))
      /\ \A k \in 1..Len(x) : z[k] = x[k]
      /\ \A k \in 1..(m - n) : z[Len(x) + k] = y[k]
  <2>1. /\ Len(x) \in Nat
        /\ DOMAIN x = 1..Len(x)
        /\ DOMAIN z = 1..(Len(x) + Len(y))
        /\ \A k \in 1..Len(x) : z[k] = x[k]
        /\ \A k \in 1..Len(y) : z[Len(x) + k] = y[k]
    <3>1. x \in Seq(OutLine) /\ y \in Seq(OutLine)
      OBVIOUS
    <3>2. /\ Len(x) \in Nat /\ DOMAIN x = 1..Len(x)
          /\ \A k \in 1..Len(x) : (x \o y)[k] = x[k]
      BY <3>1, JoinIs
    <3>4. Len(x \o y) = Len(x) + Len(y) /\ x \o y \in Seq(OutLine)
      BY <3>1, JoinIs
    <3>5. DOMAIN (x \o y) = 1..(Len(x) + Len(y))
      BY <3>4
    <3>3. \A k \in 1..Len(y) : (x \o y)[Len(x) + k] = y[k]
      BY <3>1, JoinIs
    <3> QED
      BY <3>2, <3>3, <3>5
  <2> QED
    BY <2>1
<1>3. /\ \A a \in 1..n : g[a] \in 1..Len(x) /\ Reported(E, M[a], x[g[a]])
      /\ \A a, b \in 1..n : a < b => g[a] < g[b]
      /\ \A k \in 1..Len(x) : x[k].sep = ":" <=> \E a \in 1..n : g[a] = k
  BY <1>1, <1>2 DEF Reports
<1> HIDE DEF z
<1>4. /\ \A a \in 1..m : a <= n => a \in 1..n /\ h[a] = g[a] /\ h[a] \in 1..Len(x)
      /\ \A a \in 1..m : ~(a <= n) =>
           a - n \in 1..(m - n) /\ h[a] = Len(x) + (a - n) /\ n + (a - n) = a
  BY <1>3
<1>5. h \in [1..m -> DOMAIN z]
  <2>1. \A a \in 1..m : h[a] \in DOMAIN z
    BY <1>2, <1>4
  <2>2. h = [a \in 1..m |-> h[a]]
    OBVIOUS
  <2> HIDE DEF h
  <2> QED
    BY <2>1, <2>2
<1> HIDE DEF h
<1>6. ASSUME NEW a \in 1..m, NEW b \in 1..m, a < b
      PROVE  h[a] < h[b]
  <2>1. CASE b <= n
    <3>1. a \in 1..n /\ b \in 1..n
      BY <1>6, <2>1
    <3> QED
      BY <1>3, <1>4, <1>6, <3>1
  <2>2. CASE ~(b <= n) /\ a <= n
    BY <1>2, <1>4, <2>2
  <2>3. CASE ~(b <= n) /\ ~(a <= n)
    BY <1>2, <1>4, <1>6, <2>3
  <2> QED
    BY <2>1, <2>2, <2>3
<1>7. ASSUME NEW k \in DOMAIN z
      PROVE  z[k].sep = ":" <=> \E a \in 1..m : h[a] = k
  <2>1. CASE k \in 1..Len(x)
    <3>1. z[k].sep = ":" <=> \E a \in 1..n : g[a] = k
      BY <1>2, <1>3, <2>1
    <3>2. \A a \in 1..n : a \in 1..m /\ h[a] = g[a]
      BY <1>4
    <3>3. ASSUME NEW a \in 1..m, h[a] = k
          PROVE  a \in 1..n /\ g[a] = k
      BY <1>2, <1>4, <2>1, <3>3
    <3> QED
      BY <3>1, <3>2, <3>3
  <2>2. CASE ~(k \in 1..Len(x))
    <3>1. k - Len(x) \in 1..(m - n) /\ Len(x) + (k - Len(x)) = k
      BY <1>2, <2>2
    <3>2. z[k].sep = ":"
      BY <1>2, <3>1
    <3> DEFINE a == n + (k - Len(x))
    <3>3. a \in 1..m /\ ~(a <= n) /\ a - n = k - Len(x)
      BY <1>2, <3>1
    <3> HIDE DEF a
    <3>4. h[a] = k
      BY <1>4, <3>1, <3>3
    <3> QED
      BY <3>2, <3>3, <3>4
  <2> QED
    BY <2>1, <2>2
<1>8. ASSUME NEW a \in 1..m
      PROVE  Reported(E, M[a], z[h[a]])
  <2>1. CASE a <= n
    BY <1>2, <1>3, <1>4, <2>1
  <2>2. CASE ~(a <= n)
    <3>1. a - n \in 1..(m - n) /\ h[a] = Len(x) + (a - n) /\ n + (a - n) = a
      BY <1>4, <2>2
    <3>2. z[h[a]] = y[a - n]
      BY <1>2, <3>1
    <3>3. Reported(E, M[n + (a - n)], y[a - n])
      BY <3>1
    <3> QED
      BY <3>1, <3>2, <3>3
  <2> QED
    BY <2>1, <2>2
<1>9. Reports(E, M, m, z, h)
  BY <1>5, <1>6, <1>7, <1>8 DEF Reports
<1> QED
  BY <1>9, HitsAre DEF z

\* For vimgrep a match that ends in the line is reported with it.
LEMMA HitsKept ==
  ASSUME PrintingApart, opts.vimgrep, output \in Seq(OutLine),
         HitsOut(Ends, matches, print_context.last_printed_match, output)
  PROVE  HitsOut(Ends, matches, NextCtx.last_printed_match,
                 output \o AtStart \o AtMatchedEol \o AtEveryEol)
<1> DEFINE E == Ends
           M == matches
           last == print_context.last_printed_match
           L == print_context.line
           a == LineAt(Ends, i)
           x == output \o AtStart
           z == x \o AtMatchedEol
           cur == NextCur
<1>1. /\ ApartIn(M, buf_len) /\ E \subseteq Nat /\ i \in Nat /\ last \in 0..Len(M)
      /\ L = NumAt(E, i) /\ (AtEol <=> i \in E) /\ Len(M) \in Nat /\ L \in Nat
  BY Placed, ApartIs
<1>2. EndBefore(M, cur, i + 1)
  BY AmongMatches
<1>3. EndBefore(M, last, a)
  BY DEF PrintingApart, MatchesInv
<1>4. /\ Matched <=> AtEol /\ Since2 = 0
      /\ NextCtx.last_printed_match = Last2
  BY AfterChar DEF PrintingApart, Printing, ContextInv
<1>5. print_context.prev_line_offset = a
  BY DEF PrintingApart, Printing, ContextInv
<1>6. /\ AtMatchedEol \in Seq(OutLine)
      /\ ~Matched => AtMatchedEol = <<>>
      /\ Matched =>
           /\ Len(AtMatchedEol) = IF last <= cur THEN cur - last ELSE 0
           /\ \A k \in 1..(cur - last) :
                AtMatchedEol[k] = Line(":", L, <<Max({0, M[last + k].start - a + 1})>>)
  BY <1>5, AtMatchedEolIs DEF PrintingApart
<1>7. AtEveryEol \in Seq(OutLine) /\ \A k \in DOMAIN AtEveryEol : AtEveryEol[k].sep # ":"
  <2>1. /\ AtEveryEol \in Seq(OutLine)
        /\ \/ AtEveryEol = <<>>
           \/ \E l : AtEveryEol = <<l>> /\ ContextLine(Ends, buf_len, L, l)
    BY AtEveryEolIs DEF PrintingApart
  <2>2. CASE AtEveryEol = <<>>
    BY <2>1, <2>2
  <2>3. CASE \E l : AtEveryEol = <<l>> /\ ContextLine(Ends, buf_len, L, l)
    <3>1. PICK l : AtEveryEol = <<l>> /\ l.sep = "-"
      BY <2>3 DEF ContextLine
    <3>2. \A k \in DOMAIN AtEveryEol : AtEveryEol[k] = l
      BY <3>1
    <3> QED
      BY <2>1, <3>1, <3>2
  <2> QED
    BY <2>1, <2>2, <2>3
<1>8. AtStart \in Seq(OutLine) /\ \A k \in DOMAIN AtStart : AtStart[k].sep # ":"
  <2>1. AtStart \in Seq(OutLine)
    BY AtStartIs DEF PrintingApart
  <2>2. CASE ~Opens
    <3>1. AtStart = <<>>
      BY <2>2, AtStartIs DEF PrintingApart
    <3> QED
      BY <2>1, <3>1
  <2>3. CASE Opens
    <3> DEFINE c == Least(LinesToPrint(print_context), L - 1)
    <3>1. PICK y : /\ AtStart = Parts \o y /\ Parts \in Seq(OutLine)
                   /\ LinesBefore(Ends, buf_len, L, c, y)
      BY <2>3, AtStartIs DEF PrintingApart
    <3> HIDE DEF c
    <3>2. /\ y \in Seq(OutLine) /\ Len(y) = c
          /\ \A k \in 1..c : y[k].sep = "-"
      BY <3>1 DEF LinesBefore, ContextLine
    <3>3. \A k \in DOMAIN Parts : Parts[k].sep = "--"
      BY SeparatorIs DEF Parts
    <3>4. /\ DOMAIN Parts = 1..Len(Parts)
          /\ \A k \in 1..Len(Parts) : (Parts \o y)[k] = Parts[k]
          /\ \A k \in DOMAIN (Parts \o y) :
               \/ k \in 1..Len(Parts)
               \/ k - Len(Parts) \in 1..Len(y) /\ (Parts \o y)[k] = y[k - Len(Parts)]
      BY <3>1, <3>2, JoinIs
    <3>5. \A k \in DOMAIN (Parts \o y) : (Parts \o y)[k].sep # ":"
      BY <3>2, <3>3, <3>4
    <3> QED
      BY <2>1, <3>1, <3>5
  <2> QED
    BY <2>2, <2>3
<1>9. a \in 0..i /\ StartsLine(E, a) /\ NoneFrom(E, a, i)
  BY <1>1, LineAtIs
<1>10. cur \in 0..Len(M)
  <2>1. cur_match \in 0..Len(M)
    BY Placed
  <2> QED
    BY <1>1, <2>1 DEF NextCur, Closes
<1> HIDE DEF E, M, last, L, a, cur
<1>11. last <= cur
  <2> SUFFICES ASSUME ~(last <= cur)  PROVE FALSE
    OBVIOUS
  <2>1. last \in 1..Len(M) /\ last \in DOMAIN M
    BY <1>1, <1>10, ApartIs
  <2>2. M[last].end \in Nat
    BY <1>1, <2>1, ApartIs
  <2>3. last <= last
    BY <1>1
  <2>4. M[last].end < a
    BY <1>3, <2>1, <2>3 DEF EndBefore
  <2>5. M[last].end < i + 1
    BY <1>1, <1>9, <2>2, <2>4
  <2> QED
    BY <1>2, <2>1, <2>5 DEF EndBefore
<1>12. x \in Seq(OutLine) /\ HitsOut(E, M, last, x)
  <2>1. x \in Seq(OutLine)
    BY <1>8, JoinIs
  <2>2. last \in Nat
    BY <1>1
  <2>3. HitsOut(E, M, last, output)
    BY DEF E, M, last
  <2>4. output \in Seq(OutLine)
    OBVIOUS
  <2> QED
    BY <1>8, <2>1, <2>2, <2>3, <2>4, HitsPlain
<1> HIDE DEF x
<1>13. z \in Seq(OutLine) /\ HitsOut(E, M, Last2, z) /\ Last2 \in Nat
  <2>1. z \in Seq(OutLine)
    BY <1>6, <1>12, JoinIs
  <2>2. CASE ~Matched
    <3>1. Last2 = last
      BY <2>2 DEF Last2, last
    <3>2. z = x
      BY <1>6, <1>12, <2>2
    <3> QED
      BY <1>1, <1>12, <2>1, <3>1, <3>2
  <2>3. CASE Matched
    <3>1. Last2 = cur
      <4>1. Last2 = Max({last, cur})
        BY <2>3 DEF Last2, last, cur
      <4>2. last \in Int /\ cur \in Int
        BY <1>1, <1>10
      <4>3. Last2 = IF last <= cur THEN cur ELSE last
        BY <4>1, <4>2, MaxOfTwo
      <4> QED
        BY <1>11, <4>3
    <3>2. ASSUME NEW k \in 1..(cur - last)
          PROVE  /\ AtMatchedEol[k].sep = ":"
                 /\ Reported(E, M[last + k], AtMatchedEol[k])
      <4> DEFINE j == last + k
                 s == M[j].start
                 e == M[j].end
                 l == AtMatchedEol[k]
      <4>1. l = Line(":", L, <<Max({0, s - a + 1})>>)
        BY <1>6, <2>3
      <4>2. l.sep = ":" /\ l.number = L /\ l.text = <<Max({0, s - a + 1})>>
        BY <4>1 DEF Line
      <4>3. j \in 1..Len(M) /\ j \in DOMAIN M /\ ~(j <= last) /\ j <= cur
        BY <1>1, <1>10, ApartIs
      <4> HIDE DEF j
      <4>4. e \in Nat /\ ~(e < a) /\ e < i + 1
        BY <1>1, <1>2, <1>3, <4>3, ApartIs DEF EndBefore
      <4> HIDE DEF e
      <4>5. a <= e /\ e <= i /\ a \in 0..e /\ e \in Nat
        BY <1>1, <1>9, <4>4
      <4>6. NoneFrom(E, a, e)
        <5> SUFFICES ASSUME NEW n \in E, a <= n, n < e  PROVE FALSE
          BY DEF NoneFrom
        <5>1. n \in Nat /\ n < i
          BY <1>1, <4>5
        <5> QED
          BY <1>9, <5>1 DEF NoneFrom
      <4>7. LineAt(E, e) = a
        BY <1>1, <1>9, <4>5, <4>6, LineAtOnly
      <4>8. NumAt(E, e) = L
        <5>1. NumAt(E, LineAt(E, e)) = NumAt(E, e)
          BY <1>1, <4>5, NumAtStart
        <5>2. NumAt(E, LineAt(E, i)) = NumAt(E, i)
          BY <1>1, NumAtStart
        <5> QED
          BY <1>1, <4>7, <5>1, <5>2 DEF a, E
      <4>9. Reported(E, M[j], l)
        BY <4>2, <4>7, <4>8 DEF Reported, e
      <4> QED
        BY <4>2, <4>9 DEF j
    <3>3. last \in Nat /\ cur \in Nat /\ Len(AtMatchedEol) = cur - last
      BY <1>1, <1>6, <1>10, <1>11, <2>3
    <3>4. HitsOut(E, M, cur, z)
      BY <1>6, <1>11, <1>12, <3>2, <3>3, HitsMore
    <3> QED
      BY <2>1, <3>1, <3>3, <3>4
  <2> QED
    BY <2>2, <2>3
<1> HIDE DEF z
<1>14. HitsOut(E, M, Last2, z \o AtEveryEol)
  BY <1>7, <1>13, HitsPlain
<1> QED
  BY <1>4, <1>14 DEF E, M, z, x

-----------------------------------------------------------------------------
(* The invariant                                                            *)

\* Before the first character nothing is to have been printed.
LEMMA NothingPrinted ==
  ASSUME BufferIs, ApartIn(matches, buf_len)
  PROVE  /\ MatchesInv(Ends, matches, opts, 0, 0, NewContext(opts.before))
         /\ OutputInv(Ends, buf_len, matches, opts, 0, NewContext(opts.before), <<>>)
<1> DEFINE M == matches
           c == NewContext(opts.before)
           T == TouchedUpTo(Ends, M, 0, 1)
<1>1. /\ c.line = 1 /\ c.lines_since_last_match = INT_MAX /\ c.last_printed_match = 0
      /\ c.in_a_match = FALSE /\ c.printing_a_match = FALSE
  BY DEF NewContext
<1>2. /\ Len(M) \in Nat /\ DOMAIN M = 1..Len(M)
      /\ \A k \in 1..Len(M) : M[k].start \in Nat /\ M[k].end \in Nat
  BY ApartIs
<1>3. LineAt(Ends, 0) = 0
  <2>1. LineAt(Ends, 0) \in 0..0
    BY EndsIs, LineAtIs
  <2> QED
    BY <2>1
<1>4. EndBefore(M, 0, 0) /\ ~Across(M, 0)
  BY <1>2 DEF EndBefore, Across
<1>5. T = {}
  BY <1>2 DEF TouchedUpTo
<1>6. INT_MAX \in Nat /\ INT_MAX # 0
  BY DEF BufferIs
<1> HIDE DEF c, M, T
<1>7. SinceInv(T, 1, 0, INT_MAX)
  BY <1>5 DEF SinceInv
<1>8. MatchesInv(Ends, M, opts, 0, 0, c)
  BY <1>1, <1>3, <1>4, <1>7 DEF MatchesInv, T
<1>9. NumberedIn(<<>>) = {}
  BY DEF NumberedIn
<1>10. LinesOut(Ends, buf_len, M, opts, 1, T, <<>>)
  <2>1. NumbersOf(<<>>) = {} /\ Rising(<<>>)
    BY <1>9 DEF NumbersOf, Rising
  <2>2. Wanted(T, 1, opts) = {}
    BY <1>5 DEF Wanted
  <2> QED
    BY <1>9, <2>1, <2>2 DEF LinesOut
<1>11. GroupsOut(1, T, INT_MAX, <<>>)
  <2>1. Grouped(<<>>)
    BY DEF Grouped
  <2> QED
    BY <1>6, <2>1 DEF GroupsOut
<1>12. HitsOut(Ends, M, 0, <<>>)
  <2> DEFINE g == [a \in 1..0 |-> a]
  <2>1. 1..0 = {}
    OBVIOUS
  <2>2. g \in [1..0 -> DOMAIN <<>>]
    BY <2>1
  <2> HIDE DEF g
  <2>3. DOMAIN <<>> = {}
    OBVIOUS
  <2>4. Reports(Ends, M, 0, <<>>, g)
    BY <2>1, <2>2, <2>3 DEF Reports
  <2> QED
    BY <2>4, HitsAre
<1>13. OutputInv(Ends, buf_len, M, opts, 0, c, <<>>)
  BY <1>1, <1>10, <1>11, <1>12 DEF OutputInv, T
<1> QED
  BY <1>8, <1>13 DEF M, c

\* The invariant for matches apart, when the printing starts ...
LEMMA ApartStart ==
  ASSUME MatchInv', TypesInv, StartPrint
  PROVE  ApartInv'
<1> SUFFICES ASSUME Separate(matches', buf_len')
             PROVE  /\ MatchesInv(Ends', matches', opts', i', cur_match', print_context')
                    /\ OutputInv(Ends', buf_len', matches', opts', i', print_context', output')
  BY DEF ApartInv
<1>1. /\ i' = 0 /\ cur_match' = 0 /\ output' = <<>>
      /\ print_context' = NewContext(opts'.before)
  BY DEF StartPrint, TypesInv
<1>2. BufferIs'
  BY BufferStart
<1>3. ApartIn(matches', buf_len')
  <2>1. /\ buf_len' \in 1..MaxLength /\ matches' \in Seq(Pairs)
        /\ \A k \in DOMAIN matches' : matches'[k].start <= matches'[k].end
    BY DEF MatchInv, BufferInv, StoredInv
  <2>2. buf_len' \in Nat
    BY <2>1
  <2> QED
    BY <2>1, <2>2 DEF ApartIn
<1>4. (BufferIs /\ ApartIn(matches, buf_len) =>
         /\ MatchesInv(Ends, matches, opts, 0, 0, NewContext(opts.before))
         /\ OutputInv(Ends, buf_len, matches, opts, 0, NewContext(opts.before), <<>>))'
  BY NothingPrinted, PTL
<1>5. /\ MatchesInv(Ends', matches', opts', 0, 0, NewContext(opts'.before))
      /\ OutputInv(Ends', buf_len', matches', opts', 0, NewContext(opts'.before), <<>>)
  BY <1>2, <1>3, <1>4
<1> QED
  BY <1>1, <1>5

\* What has been printed with the character is what was to be.
LEMMA OutputKept ==
  ASSUME PrintingApart, output \in Seq(OutLine),
         OutputInv(Ends, buf_len, matches, opts, i, print_context, output)
  PROVE  OutputInv(Ends, buf_len, matches, opts, i + 1, NextCtx,
                   output \o AtStart \o AtMatchedEol \o AtEveryEol)
<1> DEFINE z == output \o AtStart \o AtMatchedEol \o AtEveryEol
           V == TouchedUpTo(Ends, matches, i + 1, NextCtx.line)
<1>1. /\ ~opts.vimgrep =>
           LinesOut(Ends, buf_len, matches, opts, print_context.line, TouchedBefore, output)
      /\ ~opts.vimgrep /\ opts.before + opts.after > 0 =>
           GroupsOut(print_context.line, TouchedBefore,
                     print_context.lines_since_last_match, output)
      /\ opts.vimgrep =>
           HitsOut(Ends, matches, print_context.last_printed_match, output)
  BY DEF OutputInv, TouchedBefore
<1>2. ~opts.vimgrep => LinesOut(Ends, buf_len, matches, opts, NextCtx.line, V, z)
  BY <1>1, LinesKept
<1>3. ~opts.vimgrep /\ opts.before + opts.after > 0 =>
        GroupsOut(NextCtx.line, V, NextCtx.lines_since_last_match, z)
  BY <1>1, GroupsKept
<1>4. opts.vimgrep => HitsOut(Ends, matches, NextCtx.last_printed_match, z)
  BY <1>1, HitsKept
<1> HIDE DEF z
<1>5. OutputInv(Ends, buf_len, matches, opts, i + 1, NextCtx, z)
  BY <1>2, <1>3, <1>4 DEF OutputInv, V
<1> QED
  BY <1>5 DEF z

\* ... and after a character.
LEMMA ApartChar ==
  ASSUME MatchInv, TypesInv, ApartInv, PrintChar
  PROVE  ApartInv'
<1>1. /\ LoopGoesOn /\ cur_match' = NextCur /\ print_context' = NextCtx
      /\ output' = output \o AtStart \o AtMatchedEol \o AtEveryEol
      /\ i' = i + 1 /\ UNCHANGED <<match_vars, opts, printing>>
  BY PrintCharIs
<1>2. Printing /\ printing = "lines"
  BY <1>1, PrintingIs DEF LoopGoesOn
<1>3. /\ buf_len' = buf_len /\ newlines' = newlines /\ matches' = matches
      /\ opts' = opts /\ printing' = printing
  BY <1>1 DEF match_vars, given
<1>4. Ends' = Ends
  BY <1>3 DEF Ends
<1> SUFFICES ASSUME Separate(matches, buf_len)
             PROVE  /\ MatchesInv(Ends', matches', opts', i', cur_match', print_context')
                    /\ OutputInv(Ends', buf_len', matches', opts', i', print_context', output')
  BY <1>3 DEF ApartInv
<1>5. /\ MatchesInv(Ends, matches, opts, i, cur_match, print_context)
      /\ OutputInv(Ends, buf_len, matches, opts, i, print_context, output)
  BY <1>2 DEF ApartInv
<1>6. PrintingApart
  BY <1>2, <1>5 DEF PrintingApart
<1>7. MatchesInv(Ends, matches, opts, i + 1, NextCur, NextCtx)
  BY <1>6, MatchesKept
<1>8. output \in Seq(OutLine)
  BY DEF TypesInv
<1> DEFINE z == output \o AtStart \o AtMatchedEol \o AtEveryEol
<1>9. OutputInv(Ends, buf_len, matches, opts, i + 1, NextCtx, z)
  BY <1>5, <1>6, <1>8, OutputKept
<1>10. output' = z
  BY <1>1
<1> HIDE DEF z
<1> QED
  BY <1>1, <1>3, <1>4, <1>7, <1>9, <1>10

\* When the loop has ended.
LEMMA EndedAtEnd ==
  ASSUME MatchInv, TypesInv, EndPrint
  PROVE  EndedInv'
<1>1. /\ printing = "lines" /\ ~LoopGoesOn
      /\ buf_len' = buf_len /\ matches' = matches /\ opts' = opts /\ i' = i
      /\ cur_match' = cur_match /\ print_context' = print_context
  BY DEF EndPrint, match_vars, given
<1>2. /\ i \in 0..(buf_len + 1) /\ cur_match \in 0..Len(matches)
      /\ print_context.lines_since_last_match \in Nat
  BY <1>1 DEF TypesInv, ContextInv, Contexts
<1>3. buf_len \in Nat /\ opts.after \in Nat /\ matches \in Seq(Pairs) /\ Len(matches) \in Nat
  BY PrintingIs DEF BufferIs, MatchInv, StoredInv
<1>4. \/ ~(i <= buf_len)
      \/ /\ ~(cur_match < Len(matches))
         /\ ~(print_context.lines_since_last_match <= opts.after)
  BY <1>1 DEF LoopGoesOn
<1>5. \/ i = buf_len + 1
      \/ cur_match = Len(matches) /\ print_context.lines_since_last_match > opts.after
  BY <1>2, <1>3, <1>4
<1> QED
  BY <1>1, <1>5 DEF EndedInv, Ended

\* The invariant holds at first ...
LEMMA PrintInvStart == PrintInit => PrintInv
<1> SUFFICES ASSUME PrintInit  PROVE PrintInv
  OBVIOUS
<1>1. TypesInv /\ printing = "no"
  BY TypesInit DEF PrintInit
<1> QED
  BY <1>1 DEF PrintInv, ApartInv, EndedInv

\* ... and after every step.
LEMMA PrintInvStep ==
  ASSUME MatchInv, MatchInv', PrintInv, [PrintNext]_allvars
  PROVE  PrintInv'
<1>0. TypesInv /\ ApartInv /\ EndedInv
  BY DEF PrintInv
<1>1. TypesInv'
  BY <1>0, TypesStep
<1>2. ASSUME UNCHANGED <<pvars, buf_len, newlines, matches>> \/ printing' = "no"
      PROVE  ApartInv' /\ EndedInv'
  <2>1. CASE printing' = "no"
    BY <2>1 DEF ApartInv, EndedInv
  <2>2. CASE UNCHANGED <<pvars, buf_len, newlines, matches>>
    <3>1. /\ printing' = printing /\ opts' = opts /\ output' = output /\ i' = i
          /\ cur_match' = cur_match /\ print_context' = print_context
          /\ buf_len' = buf_len /\ matches' = matches
      BY <2>2 DEF pvars
    <3>2. Ends' = Ends
      BY <2>2 DEF Ends
    <3> QED
      BY <1>0, <3>1, <3>2 DEF ApartInv, EndedInv
  <2> QED
    BY <1>2, <2>1, <2>2
<1>3. CASE SearchStep
  <2>1. UNCHANGED pvars /\ (printing # "no" => UNCHANGED <<buf_len, newlines, matches, phase>>)
    BY <1>0, <1>3, SearchedBefore DEF SearchStep
  <2>2. printing' = printing
    BY <2>1 DEF pvars
  <2>3. ApartInv' /\ EndedInv'
    BY <1>2, <2>1, <2>2
  <2> QED
    BY <1>1, <2>3 DEF PrintInv
<1>4. CASE StartPrint
  <2>1. printing' = "lines"
    BY <1>4 DEF StartPrint
  <2>2. EndedInv'
    BY <2>1 DEF EndedInv
  <2> QED
    BY <1>0, <1>1, <1>4, <2>2, ApartStart DEF PrintInv
<1>5. CASE PrintChar
  <2>1. printing' = "lines"
    BY <1>5, PrintCharIs DEF LoopGoesOn
  <2>2. EndedInv'
    BY <2>1 DEF EndedInv
  <2> QED
    BY <1>0, <1>1, <1>5, <2>2, ApartChar DEF PrintInv
<1>6. CASE EndPrint
  <2>1. /\ printing = "lines"
        /\ UNCHANGED <<match_vars, opts, i, cur_match, print_context, output>>
    BY <1>6 DEF EndPrint
  <2>2. /\ opts' = opts /\ output' = output /\ i' = i /\ newlines' = newlines
        /\ cur_match' = cur_match /\ print_context' = print_context
        /\ buf_len' = buf_len /\ matches' = matches
    BY <2>1 DEF match_vars, given
  <2>3. Ends' = Ends
    BY <2>2 DEF Ends
  <2>4. ApartInv'
    BY <1>0, <2>1, <2>2, <2>3 DEF ApartInv
  <2> QED
    BY <1>0, <1>1, <1>6, <2>4, EndedAtEnd DEF PrintInv
<1>7. CASE UNCHANGED allvars
  <2>1. UNCHANGED <<pvars, buf_len, newlines, matches>>
    BY <1>7 DEF allvars, match_vars, given
  <2>2. ApartInv' /\ EndedInv'
    BY <1>2, <2>1
  <2> QED
    BY <1>1, <2>2 DEF PrintInv
<1> QED
  BY <1>3, <1>4, <1>5, <1>6, <1>7 DEF PrintNext

\* The output is at every place what the matches up to it call for.
THEOREM PrintInvariant == PrintSpec => [](MatchInv /\ PrintInv)
<1>1. PrintInit => PrintInv
  BY PrintInvStart
<1>2. MatchInv /\ MatchInv' /\ PrintInv /\ [PrintNext]_allvars => PrintInv'
  BY PrintInvStep
<1> QED
  BY <1>1, <1>2, MatchesInvariant, PTL DEF PrintSpec

-----------------------------------------------------------------------------
(* When all is printed                                                      *)

DoneApart ==
  /\ BufferIs /\ ApartIn(matches, buf_len) /\ matches # <<>> /\ output \in Seq(OutLine)
  /\ ContextInv(Ends, buf_len, matches, opts, i, cur_match, print_context)
  /\ MatchesInv(Ends, matches, opts, i, cur_match, print_context)
  /\ OutputInv(Ends, buf_len, matches, opts, i, print_context, output)
  /\ Ended(matches, buf_len, opts, i, cur_match, print_context)

\* Lines have the numbers that the properties say.
LEMMA NumberIs ==
  ASSUME BufferIs, NEW p \in 0..buf_len
  PROVE  NumberOf(p) = NumAt(Ends, p) /\ NumberOf(p) \in Nat /\ p \in Nat
<1>1. Ends \subseteq Nat /\ buf_len \in Nat
  BY EndsIs DEF BufferIs
<1>2. \A x : x \in {n \in newlines : n < p} <=> x \in {n \in Ends : n < p}
  BY <1>1 DEF Ends, EndsOf
<1>3. {n \in newlines : n < p} = {n \in Ends : n < p}
  BY <1>2
<1>6. p \in Nat
  BY <1>1
<1>4. NumAt(Ends, p) \in 1..(p + 1)
  BY <1>1, <1>6, NumAtIs
<1>5. NumberOf(p) = NumAt(Ends, p)
  BY <1>3 DEF NumberOf, NumAt
<1> QED
  BY <1>1, <1>4, <1>5

\* The lines touched, and the last line.
LEMMA TouchedIs ==
  ASSUME BufferIs, ApartIn(matches, buf_len)
  PROVE  /\ LastNumber = NumAt(Ends, buf_len) /\ LastNumber \in Nat
         /\ \A n : n \in Touched <=>
                     n \in 1..LastNumber /\ \E k \in DOMAIN matches : Reaches(Ends, matches[k], n)
         /\ \A n \in Nat : (\E k \in DOMAIN matches : Reaches(Ends, matches[k], n)) <=>
                             n \in Touched
<1> DEFINE M == matches
           Z == LastNumber
<1>1. Ends \subseteq Nat /\ buf_len \in Nat
  BY EndsIs DEF BufferIs
<1>2. /\ Len(M) \in Nat /\ DOMAIN M = 1..Len(M)
      /\ \A k \in 1..Len(M) : /\ M[k].start \in Nat /\ M[k].end \in Nat
                              /\ M[k].start <= M[k].end /\ M[k].end <= buf_len
  BY ApartIs
<1>3. Z = NumAt(Ends, buf_len) /\ Z \in Nat
  <2>1. buf_len \in 0..buf_len
    BY <1>1
  <2> QED
    BY <2>1, NumberIs DEF LastNumber
<1> HIDE DEF Z, M
<1>4. ASSUME NEW k \in DOMAIN M, NEW n
      PROVE  n \in TouchedBy(M[k]) <=> n \in Nat /\ n \in 1..Z /\ Reaches(Ends, M[k], n)
  <2> DEFINE s == M[k].start
             e == M[k].end
  <2>1. s \in Nat /\ e \in Nat /\ s <= e /\ e <= buf_len /\ s \in 0..buf_len /\ e \in 0..buf_len
    BY <1>1, <1>2
  <2>2. NumberOf(s) = NumAt(Ends, s) /\ NumberOf(e) = NumAt(Ends, e)
    BY <2>1, NumberIs
  <2>3. TouchedBy(M[k]) = NumAt(Ends, s)..NumAt(Ends, e)
    BY <2>2 DEF TouchedBy
  <2>4. Reaches(Ends, M[k], n) <=> NumAt(Ends, s) <= n /\ n <= NumAt(Ends, e)
    BY DEF Reaches
  <2> HIDE DEF s, e
  <2>5. NumAt(Ends, s) \in Nat /\ NumAt(Ends, s) >= 1 /\ NumAt(Ends, e) \in Nat
    BY <1>1, <2>1, ReachesIs
  <2>6. NumAt(Ends, e) <= Z
    BY <1>1, <1>3, <2>1, NumAtMonotone
  <2> QED
    BY <1>3, <2>3, <2>4, <2>5, <2>6
<1>5. \A n : n \in Touched <=> \E k \in DOMAIN M : n \in TouchedBy(M[k])
  BY DEF Touched, M
<1>6. \A n : n \in Touched <=>
               n \in 1..Z /\ \E k \in DOMAIN M : Reaches(Ends, M[k], n)
  BY <1>3, <1>4, <1>5
<1>7. \A n \in Nat : (\E k \in DOMAIN M : Reaches(Ends, M[k], n)) => n \in Touched
  <2> SUFFICES ASSUME NEW n \in Nat, NEW k \in DOMAIN M, Reaches(Ends, M[k], n)
               PROVE  n \in Touched
    OBVIOUS
  <2> DEFINE s == M[k].start
             e == M[k].end
  <2>1. s \in Nat /\ e \in Nat /\ s <= e /\ e <= buf_len
    BY <1>2
  <2>2. NumAt(Ends, s) <= n /\ n <= NumAt(Ends, e)
    BY DEF Reaches
  <2> HIDE DEF s, e
  <2>3. NumAt(Ends, s) \in Nat /\ NumAt(Ends, s) >= 1 /\ NumAt(Ends, e) \in Nat
    BY <1>1, <2>1, ReachesIs
  <2>4. NumAt(Ends, e) <= Z
    BY <1>1, <1>3, <2>1, NumAtMonotone
  <2>5. n \in 1..Z
    BY <1>3, <2>2, <2>3, <2>4
  <2> QED
    BY <1>6, <2>5
<1> QED
  BY <1>3, <1>6, <1>7 DEF M, Z

\* At the end all lines touched have been met, and none is left to be printed.
LEMMA AllTouched ==
  ASSUME DoneApart
  PROVE  LET L == print_context.line
             T == TouchedUpTo(Ends, matches, i, L)
         IN  /\ \A n : n \in T <=> n \in Touched
             /\ \A n : n \in Wanted(T, L, opts) <=> n \in Touched \/ n \in Around
             /\ print_context.lines_since_last_match # 0
             /\ opts.vimgrep => print_context.last_printed_match = Len(matches)
<1> DEFINE L == print_context.line
           T == TouchedUpTo(Ends, matches, i, L)
           M == matches
           E == Ends
           Z == LastNumber
           since == print_context.lines_since_last_match
           last == print_context.last_printed_match
           a == opts.after
           b == opts.before
           q == LineAt(E, i)
           len == buf_len
<1>1. BufferIs /\ ApartIn(M, len) /\ M # <<>>
  BY DEF DoneApart
<1>2. E \subseteq Nat /\ len \in E /\ len \in Nat /\ a \in Nat /\ b \in Nat /\ INT_MAX \in Nat
      /\ a + len < INT_MAX
  BY <1>1, EndsIs DEF BufferIs
<1>3. /\ Len(M) \in Nat /\ DOMAIN M = 1..Len(M) /\ Len(M) >= 1
      /\ \A k \in 1..Len(M) : /\ M[k].start \in Nat /\ M[k].end \in Nat
                              /\ M[k].start <= M[k].end /\ M[k].end <= len
  <2>1. M \in Seq(Pairs)
    BY <1>1 DEF ApartIn
  <2>2. Len(M) # 0
    BY <1>1, <2>1
  <2> QED
    BY <1>1, <2>2, ApartIs
<1>4. /\ i \in 0..(len + 1) /\ cur_match \in 0..Len(M) /\ L = NumAt(E, i)
      /\ last \in 0..Len(M) /\ since \in Nat
  BY DEF DoneApart, ContextInv, Contexts
<1>5. /\ EndBefore(M, cur_match, i)
      /\ SinceInv(T, L, cur_match, since)
      /\ opts.vimgrep => EndBefore(M, last, q)
  BY DEF DoneApart, MatchesInv
<1>6. i = len + 1 \/ (cur_match = Len(M) /\ since > a)
  BY DEF DoneApart, Ended
<1>7. /\ Z = NumAt(E, len) /\ Z \in Nat
      /\ \A n : n \in Touched <=> n \in 1..Z /\ \E k \in DOMAIN M : Reaches(E, M[k], n)
  BY <1>1, TouchedIs
<1>8. \A n : n \in T <=> n \in 1..L /\ \E k \in DOMAIN M : M[k].start < i /\ Reaches(E, M[k], n)
  BY DEF TouchedUpTo
<1>9. \A n : n \in Wanted(T, L, opts) <=>
               n \in 1..(L - 1) /\ \E t \in T : t - b <= n /\ n <= t + a
  BY DEF Wanted
<1>10. \A n : n \in Around <=>
                /\ n \in 1..Z /\ n \notin Touched
                /\ \E t \in Touched : n \in (t - b)..(t + a)
  BY DEF Around
<1>11. i \in Nat /\ L \in Nat /\ L >= 1
  <2>1. i \in Nat
    BY <1>4
  <2>2. NumAt(E, i) \in 1..(i + 1)
    BY <1>2, <2>1, NumAtIs
  <2> QED
    BY <1>4, <2>1, <2>2
<1> HIDE DEF L, T, M, E, Z, since, last, a, b, q, len
<1>12. \A k \in DOMAIN M : M[k].end < i
  <2>1. CASE i = len + 1
    BY <1>2, <1>3, <2>1
  <2>2. CASE cur_match = Len(M)
    BY <1>3, <1>5, <2>2 DEF EndBefore
  <2> QED
    BY <1>6, <2>1, <2>2
<1>13. ASSUME NEW k \in DOMAIN M
       PROVE  /\ M[k].start < i
              /\ \A n \in Nat : Reaches(E, M[k], n) => n \in 1..L /\ n \in 1..Z
  <2> DEFINE s == M[k].start
             e == M[k].end
  <2>1. s \in Nat /\ e \in Nat /\ s <= e /\ e <= len /\ e < i
    BY <1>3, <1>12
  <2> HIDE DEF s, e
  <2>2. /\ NumAt(E, s) \in Nat /\ NumAt(E, s) >= 1 /\ NumAt(E, e) \in Nat
    BY <1>2, <2>1, ReachesIs
  <2>3. NumAt(E, e) <= L /\ NumAt(E, e) <= Z
    <3>1. e <= i
      BY <1>11, <2>1
    <3> QED
      BY <1>2, <1>4, <1>7, <1>11, <2>1, <3>1, NumAtMonotone
  <2>4. ASSUME NEW n \in Nat, Reaches(E, M[k], n)
        PROVE  n \in 1..L /\ n \in 1..Z
    <3>1. NumAt(E, s) <= n /\ n <= NumAt(E, e)
      BY <2>4 DEF Reaches, s, e
    <3> QED
      BY <1>7, <1>11, <2>2, <2>3, <3>1
  <2>5. s < i
    BY <1>11, <2>1
  <2> QED
    BY <2>4, <2>5 DEF s
<1>14. \A n : n \in T <=> n \in Touched
  <2>1. \A n : n \in 1..L \/ n \in 1..Z => n \in Nat
    BY <1>7, <1>11
  <2> QED
    BY <1>7, <1>8, <1>13, <2>1
<1>15. T # {}
  <2>1. 1 \in DOMAIN M
    BY <1>3
  <2> DEFINE s == M[1].start
             e == M[1].end
             n == NumAt(E, s)
  <2>2. s \in Nat /\ e \in Nat /\ s <= e
    BY <1>3, <2>1
  <2> HIDE DEF s, e
  <2>3. NumAt(E, s) \in Nat /\ NumAt(E, s) <= NumAt(E, e)
    BY <1>2, <2>2, ReachesIs, NumAtMonotone
  <2>4. n \in Nat /\ n <= n /\ n <= NumAt(E, e)
    BY <2>3
  <2>5. Reaches(E, M[1], n)
    BY <2>4 DEF Reaches, s, e
  <2> HIDE DEF n
  <2>6. n \in 1..L
    BY <1>13, <2>1, <2>4, <2>5
  <2> QED
    BY <1>8, <1>13, <2>1, <2>5, <2>6
<1>16. since \in 0..(L - 1) /\ L - since \in T /\ \A t \in T : t <= L - since
  BY <1>15, <1>5 DEF SinceInv
<1>17. i = len + 1 => L = Z + 1 /\ q = i
  <2>1. NumAt(E, len + 1) = NumAt(E, len) + 1
    BY <1>2, NumAtIs
  <2>2. LineAt(E, len + 1) = len + 1
    BY <1>2, LineAtNext
  <2> QED
    BY <1>4, <1>7, <2>1, <2>2 DEF q
<1>18. i <= len => L <= Z
  BY <1>2, <1>4, <1>7, <1>11, NumAtMonotone
<1>19. since # 0
  <2>1. CASE i = len + 1
    <3>1. L \notin T
      BY <1>7, <1>14, <1>17, <2>1
    <3>2. since = 0 => L - since = L
      BY <1>11
    <3> QED
      BY <1>16, <3>1, <3>2
  <2> QED
    BY <1>2, <1>6, <2>1
<1>20. ASSUME NEW n
       PROVE  n \in Wanted(T, L, opts) <=> n \in Touched \/ n \in Around
  <2>1. ASSUME n \in Wanted(T, L, opts)
        PROVE  n \in Touched \/ n \in Around
    <3>1. n \in 1..(L - 1) /\ \E t \in T : t - b <= n /\ n <= t + a
      BY <1>9, <2>1
    <3>2. n \in 1..Z
      BY <1>2, <1>4, <1>6, <1>7, <1>11, <1>17, <1>18, <3>1
    <3>3. PICK t \in T : t - b <= n /\ n <= t + a
      BY <3>1
    <3>4. t \in Touched /\ t \in Nat
      BY <1>7, <1>14
    <3>5. n \in (t - b)..(t + a)
      BY <1>2, <3>2, <3>3, <3>4
    <3> QED
      BY <1>10, <3>2, <3>4, <3>5
  <2>2. ASSUME n \in Touched \/ n \in Around
        PROVE  n \in Wanted(T, L, opts)
    <3>1. n \in 1..Z /\ n \in Nat
      BY <1>7, <1>10, <2>2
    <3>2. PICK t \in Touched : t - b <= n /\ n <= t + a /\ t \in Nat
      <4>1. CASE n \in Touched
        <5>1. n - b <= n /\ n <= n + a
          BY <1>2, <3>1
        <5> QED
          BY <3>1, <4>1, <5>1
      <4>2. CASE n \in Around
        <5>1. PICK t \in Touched : n \in (t - b)..(t + a)
          BY <1>10, <4>2
        <5>2. t \in Nat
          BY <1>7
        <5> QED
          BY <1>2, <5>1, <5>2
      <4> QED
        BY <2>2, <4>1, <4>2
    <3>3. t \in T /\ t <= L - since
      BY <1>14, <1>16, <3>2
    <3>4. n <= L - 1
      <4>1. CASE i = len + 1
        BY <1>7, <1>17, <3>1, <4>1
      <4>2. CASE since > a
        BY <1>2, <1>4, <1>11, <3>1, <3>2, <3>3, <4>2
      <4> QED
        BY <1>6, <4>1, <4>2
    <3>5. n \in 1..(L - 1)
      BY <1>11, <3>1, <3>4
    <3> QED
      BY <1>9, <3>2, <3>3, <3>5
  <2> QED
    BY <2>1, <2>2
<1>21. ASSUME opts.vimgrep
       PROVE  last = Len(M)
  <2> DEFINE e == M[Len(M)].end
  <2>1. Len(M) \in DOMAIN M /\ e \in Nat /\ e < i /\ e <= len
    BY <1>3, <1>12
  <2> HIDE DEF e
  <2>2. e < q
    <3>1. CASE i = len + 1
      BY <1>17, <2>1, <3>1
    <3>2. CASE since > a
      <4> SUFFICES ASSUME ~(e < q)  PROVE FALSE
        OBVIOUS
      <4>1. q \in 0..i
        BY <1>2, <1>11, LineAtIs DEF q
      <4>2. q <= e /\ e <= i
        BY <1>11, <2>1, <4>1
      <4>3. NumAt(E, e) = L
        <5>1. LineAt(E, i) <= e /\ e <= i
          BY <4>2 DEF q
        <5>3. LineAt(E, i) \in Nat /\ i \in Nat /\ e \in Nat
          BY <1>11, <2>1, <4>1 DEF q
        <5>4. NumAt(E, LineAt(E, i)) = NumAt(E, i)
          BY <1>2, <5>3, NumAtStart
        <5>5. NumAt(E, LineAt(E, i)) <= NumAt(E, e) /\ NumAt(E, e) <= NumAt(E, i)
          BY <1>2, <5>1, <5>3, NumAtMonotone
        <5>6. NumAt(E, e) \in 1..(e + 1)
          BY <1>2, <5>3, NumAtIs
        <5> QED
          BY <1>4, <1>11, <5>4, <5>5, <5>6
      <4> DEFINE s == M[Len(M)].start
      <4>4. s \in Nat /\ s <= e
        BY <1>3, <2>1 DEF e
      <4> HIDE DEF s
      <4>5. NumAt(E, s) <= L
        BY <1>2, <2>1, <4>3, <4>4, NumAtMonotone
      <4>6. Reaches(E, M[Len(M)], L)
        <5>1. L <= L
          BY <1>11
        <5> QED
          BY <4>3, <4>5, <5>1 DEF Reaches, s, e
      <4>7. L \in 1..L
        BY <1>11
      <4>8. L \in T
        BY <1>8, <1>13, <2>1, <4>6, <4>7
      <4>9. L <= L - since
        BY <1>16, <4>8
      <4> QED
        BY <1>4, <1>11, <1>19, <4>9
    <3> QED
      BY <1>6, <3>1, <3>2
  <2>3. Len(M) <= last
    <3>1. EndBefore(M, last, q)
      BY <1>5, <1>21
    <3> QED
      BY <2>1, <2>2, <3>1 DEF EndBefore, e
  <2>4. Len(M) \in Nat /\ last \in 0..Len(M)
    BY <1>3, <1>4
  <2> QED
    BY <2>3, <2>4
<1> QED
  BY <1>14, <1>19, <1>20, <1>21 DEF T, L, since, last, M, E

\* When all is printed, a separator stands between lines that are not neighbours.
LEMMA GroupsDone ==
  ASSUME DoneApart, ~opts.vimgrep, opts.before + opts.after > 0
  PROVE  /\ \A k \in DOMAIN output :
              output[k].sep = "--" =>
                /\ k > 1 /\ k < Len(output)
                /\ output[k - 1].number + 1 < output[k + 1].number
         /\ \A k \in 2..Len(output) :
              output[k].sep # "--" /\ output[k - 1].sep # "--" =>
                output[k].number = output[k - 1].number + 1
<1>1. Grouped(output) /\ (output # <<>> => output[Len(output)].sep # "--")
  BY AllTouched DEF DoneApart, OutputInv, GroupsOut
<1>2. output \in Seq(OutLine) /\ Len(output) \in Nat /\ DOMAIN output = 1..Len(output)
  BY DEF DoneApart
<1>3. ASSUME NEW k \in DOMAIN output, output[k].sep = "--"
      PROVE  /\ k > 1 /\ k < Len(output)
             /\ output[k - 1].number + 1 < output[k + 1].number
  <2>1. /\ k > 1
        /\ k < Len(output) => output[k - 1].number + 1 < output[k + 1].number
    BY <1>1, <1>3 DEF Grouped
  <2>2. output # <<>>
    BY <1>2, <1>3
  <2>3. k # Len(output)
    BY <1>1, <1>3, <2>2
  <2> QED
    BY <1>2, <2>1, <2>3
<1> QED
  BY <1>1, <1>3 DEF Grouped

\* When all is printed, the lines are those of the matches and those around them.
LEMMA LinesDone ==
  ASSUME DoneApart
  PROVE  LinesAsWanted
<1> SUFFICES ASSUME ~opts.vimgrep
             PROVE  /\ \A j, k \in Numbered : j < k => output[j].number < output[k].number
                    /\ {output[k].number : k \in Numbered} = Touched \cup Around
                    /\ \A k \in Numbered :
                         LET l == output[k] IN
                           /\ l.sep = (IF l.number \in Touched THEN ":" ELSE "-")
                           /\ l.sep = "-" => Chars(l.text) = TextOf(l.number, buf_len - 1) \ newlines
                           /\ l.sep = ":" /\ opts.width = 0 =>
                                Chars(l.text) = TextOf(l.number, buf_len - 1)
                                                \cap (IF opts.only_matching THEN InMatches ELSE Places)
  BY DEF LinesAsWanted
<1> DEFINE L == print_context.line
           T == TouchedUpTo(Ends, matches, i, L)
<1>1. /\ Rising(output) /\ NumbersOf(output) = Wanted(T, L, opts)
      /\ \A k \in NumberedIn(output) : Rightly(Ends, buf_len, matches, opts, output[k])
  BY DEF DoneApart, OutputInv, LinesOut
<1>2. \A n : n \in Wanted(T, L, opts) <=> n \in Touched \/ n \in Around
  BY AllTouched
<1>3. BufferIs /\ ApartIn(matches, buf_len)
  BY DEF DoneApart
<1>4. \A n \in Nat : (\E k \in DOMAIN matches : Reaches(Ends, matches[k], n)) <=> n \in Touched
  BY <1>3, TouchedIs
<1>5. Ends \subseteq Nat /\ buf_len \in Nat
  BY <1>3, EndsIs DEF BufferIs
<1>6. /\ \A k \in DOMAIN matches : matches[k].start \in Nat /\ matches[k].end \in Nat
  BY <1>3, ApartIs
<1>7. NumberedIn(output) = Numbered
  BY DEF NumberedIn, Numbered
<1> HIDE DEF T, L
<1>8. \A j, k \in Numbered : j < k => output[j].number < output[k].number
  BY <1>1, <1>7 DEF Rising
<1>9. {output[k].number : k \in Numbered} = Touched \cup Around
  <2>1. NumbersOf(output) = {output[k].number : k \in Numbered}
    BY <1>7 DEF NumbersOf
  <2>2. \A n : n \in NumbersOf(output) <=> n \in Touched \cup Around
    BY <1>1, <1>2
  <2> QED
    BY <2>1, <2>2
<1>10. ASSUME NEW k \in Numbered
       PROVE  LET l == output[k] IN
                /\ l.sep = (IF l.number \in Touched THEN ":" ELSE "-")
                /\ l.sep = "-" => Chars(l.text) = TextOf(l.number, buf_len - 1) \ newlines
                /\ l.sep = ":" /\ opts.width = 0 =>
                     Chars(l.text) = TextOf(l.number, buf_len - 1)
                                     \cap (IF opts.only_matching THEN InMatches ELSE Places)
  <2> DEFINE l == output[k]
             n == l.number
  <2>1. Rightly(Ends, buf_len, matches, opts, l)
    BY <1>1, <1>7
  <2> HIDE DEF l
  <2>2. n \in Nat
    BY <2>1 DEF Rightly
  <2>3. l.sep = IF n \in Touched THEN ":" ELSE "-"
    BY <1>4, <2>1, <2>2 DEF Rightly
  <2>4. \A q : q \in TextOf(n, buf_len - 1) <=> q \in 0..(buf_len - 1) /\ NumAt(Ends, q) = n
    <3> SUFFICES ASSUME NEW q
                 PROVE  q \in TextOf(n, buf_len - 1) <=>
                          q \in 0..(buf_len - 1) /\ NumAt(Ends, q) = n
      OBVIOUS
    <3>1. q \in 0..(buf_len - 1) => NumberOf(q) = NumAt(Ends, q)
      <4> SUFFICES ASSUME q \in 0..(buf_len - 1)  PROVE NumberOf(q) = NumAt(Ends, q)
        OBVIOUS
      <4>1. q \in 0..buf_len
        BY <1>5
      <4> QED
        BY <1>3, <4>1, NumberIs
    <3> QED
      BY <3>1 DEF TextOf
  <2>5. l.sep = "-" => Chars(l.text) = TextOf(n, buf_len - 1) \ newlines
    <3> SUFFICES ASSUME l.sep = "-"
                 PROVE  Chars(l.text) = TextOf(n, buf_len - 1) \ newlines
      OBVIOUS
    <3>1. \A q : q \in Chars(l.text) <=>
                   q \in 0..(buf_len - 1) /\ NumAt(Ends, q) = n /\ q \notin Ends
      BY <2>1 DEF Rightly
    <3>2. \A q \in 0..(buf_len - 1) : q \in Ends <=> q \in newlines
      BY <1>5 DEF Ends, EndsOf
    <3> HIDE DEF n
    <3>3. \A q : q \in Chars(l.text) <=> q \in TextOf(n, buf_len - 1) /\ q \notin newlines
      BY <2>4, <3>1, <3>2
    <3> QED
      BY <3>3
  <2>6. l.sep = ":" /\ opts.width = 0 =>
          Chars(l.text) = TextOf(n, buf_len - 1)
                          \cap (IF opts.only_matching THEN InMatches ELSE Places)
    <3> SUFFICES ASSUME l.sep = ":", opts.width = 0
                 PROVE  Chars(l.text) = TextOf(n, buf_len - 1)
                                        \cap (IF opts.only_matching THEN InMatches ELSE Places)
      OBVIOUS
    <3>1. \A q : q \in Chars(l.text) <=>
                   /\ q \in 0..(buf_len - 1) /\ NumAt(Ends, q) = n
                   /\ opts.only_matching =>
                        \E j \in DOMAIN matches : matches[j].start <= q /\ q < matches[j].end
      BY <2>1 DEF Rightly
    <3>2. \A q \in 0..(buf_len - 1) :
            q \in InMatches <=>
              \E j \in DOMAIN matches : matches[j].start <= q /\ q < matches[j].end
      <4> SUFFICES ASSUME NEW q \in 0..(buf_len - 1)
                   PROVE  q \in InMatches <=>
                            \E j \in DOMAIN matches : matches[j].start <= q /\ q < matches[j].end
        OBVIOUS
      <4>1. q \in InMatches <=>
              \E j \in DOMAIN matches : q \in matches[j].start..(matches[j].end - 1)
        BY DEF InMatches
      <4>2. \A j \in DOMAIN matches :
              q \in matches[j].start..(matches[j].end - 1) <=>
                matches[j].start <= q /\ q < matches[j].end
        BY <1>5, <1>6
      <4> QED
        BY <4>1, <4>2
    <3>3. Places = 0..(buf_len - 1)
      BY DEF Places
    <3> HIDE DEF n
    <3>4. \A q : q \in Chars(l.text) <=>
                   /\ q \in TextOf(n, buf_len - 1)
                   /\ q \in IF opts.only_matching THEN InMatches ELSE Places
      BY <2>4, <3>1, <3>2, <3>3
    <3> QED
      BY <3>4
  <2> QED
    BY <2>3, <2>5, <2>6 DEF l
<1> QED
  BY <1>8, <1>9, <1>10

UpTo(S, m) == {k \in S : k <= m}

\* The numbers of S are g[1] < g[2] < ... < g[n].
Counts(g, n, S) ==
  /\ n \in Nat /\ g \in [1..n -> S]
  /\ \A a, b \in 1..n : a < b => g[a] < g[b]
  /\ \A k \in S : k \in Nat /\ \E a \in 1..n : g[a] = k

\* Places that rise are as many as they are numbered.
LEMMA RisingCount ==
  ASSUME NEW n, NEW S, NEW g, Counts(g, n, S)
  PROVE  /\ Cardinality(S) = n
         /\ \A a \in 1..n : Cardinality(UpTo(S, g[a])) = a
<1> n \in Nat /\ g \in [1..n -> S]
  BY DEF Counts
<1> \A a, b \in 1..n : a < b => g[a] < g[b]
  BY DEF Counts
<1> \A k \in S : k \in Nat /\ \E a \in 1..n : g[a] = k
  BY DEF Counts
<1>1. ASSUME NEW c \in 0..n, NEW R, \A k : k \in R <=> \E a \in 1..c : g[a] = k
      PROVE  Cardinality(R) = c
  <2> DEFINE h == [a \in 1..c |-> g[a]]
  <2>1. \A a \in 1..c : a \in 1..n /\ g[a] \in R
    BY <1>1
  <2>2. h \in [1..c -> R]
    BY <2>1
  <2>3. ASSUME NEW a \in 1..c, NEW b \in 1..c, h[a] = h[b]
        PROVE  a = b
    <3>1. g[a] = g[b] /\ a \in 1..n /\ b \in 1..n
      BY <2>1, <2>3
    <3>2. g[a] \in Nat /\ g[b] \in Nat
      BY <3>1
    <3>3. ~(a < b) /\ ~(b < a)
      BY <3>1, <3>2
    <3> QED
      BY <3>3
  <2>4. \A k \in R : \E a \in 1..c : h[a] = k
    BY <1>1
  <2>5. h \in Bijection(1..c, R)
    <3>1. \A a, b \in 1..c : h[a] = h[b] => a = b
      BY <2>3
    <3> HIDE DEF h
    <3>2. DOMAIN h = 1..c
      BY <2>2
    <3>3. h \in Injection(1..c, R)
      BY <2>2, <3>1, <3>2 DEF Injection, IsInjective
    <3>4. h \in Surjection(1..c, R)
      BY <2>2, <2>4 DEF Surjection
    <3> QED
      BY <3>3, <3>4 DEF Bijection
  <2>6. ExistsBijection(1..c, R)
    BY <2>5 DEF ExistsBijection
  <2>7. c \in Nat
    OBVIOUS
  <2> QED
    BY <2>6, <2>7, FS_CountingElements
<1>2. \A k : k \in S <=> \E a \in 1..n : g[a] = k
  OBVIOUS
<1>3. Cardinality(S) = n
  <2>1. n \in 0..n
    OBVIOUS
  <2> QED
    BY <1>1, <1>2, <2>1
<1>4. ASSUME NEW a \in 1..n
      PROVE  Cardinality(UpTo(S, g[a])) = a
  <2>1. ASSUME NEW b \in 1..n
        PROVE  g[b] <= g[a] <=> b <= a
    <3>1. g[a] \in Nat /\ g[b] \in Nat
      OBVIOUS
    <3>2. (a < b => g[a] < g[b]) /\ (b < a => g[b] < g[a])
      OBVIOUS
    <3> QED
      BY <3>1, <3>2
  <2>2. \A k : k \in UpTo(S, g[a]) <=> \E b \in 1..a : g[b] = k
    <3> SUFFICES ASSUME NEW k
                 PROVE  k \in UpTo(S, g[a]) <=> \E b \in 1..a : g[b] = k
      OBVIOUS
    <3>3. k \in UpTo(S, g[a]) <=> k \in S /\ k <= g[a]
      BY DEF UpTo
    <3>1. ASSUME k \in S, k <= g[a]
          PROVE  \E b \in 1..a : g[b] = k
      <4>1. PICK b \in 1..n : g[b] = k
        BY <1>2, <3>1
      <4>2. b <= a
        BY <2>1, <3>1, <4>1
      <4> QED
        BY <4>1, <4>2
    <3>2. ASSUME NEW b \in 1..a, g[b] = k
          PROVE  k \in S /\ k <= g[a]
      <4>1. b \in 1..n /\ b <= a
        OBVIOUS
      <4> QED
        BY <2>1, <3>2, <4>1
    <3> QED
      BY <3>1, <3>2, <3>3
  <2>3. a \in 0..n
    OBVIOUS
  <2> QED
    BY <1>1, <2>2, <2>3
<1> QED
  BY <1>3, <1>4

\* The column of a place is how many of its line there are up to it.
LEMMA ColumnIs ==
  ASSUME BufferIs, NEW s \in 0..buf_len, NEW e \in 0..buf_len, s <= e
  PROVE  Max({0, s - LineAt(Ends, e) + 1}) =
           IF NumberOf(s) = NumberOf(e) THEN Cardinality(TextOf(NumberOf(s), s)) ELSE 0
<1> DEFINE E == Ends
           q == LineAt(E, e)
           n == NumberOf(s)
<1>1. E \subseteq Nat /\ buf_len \in Nat /\ s \in Nat /\ e \in Nat
  BY EndsIs DEF BufferIs
<1>2. n = NumAt(E, s) /\ NumberOf(e) = NumAt(E, e)
  BY NumberIs
<1>3. q \in 0..e /\ StartsLine(E, q) /\ NoneFrom(E, q, e)
  BY <1>1, LineAtIs
<1>4. NumAt(E, s) = NumAt(E, e) <=> NoneFrom(E, s, e)
  BY <1>1, NumAtMonotone
<1>5. \A p \in 0..s : NumberOf(p) = n <=> NoneFrom(E, p, s)
  <2> SUFFICES ASSUME NEW p \in 0..s
               PROVE  NumberOf(p) = n <=> NoneFrom(E, p, s)
    OBVIOUS
  <2>1. p \in 0..buf_len /\ p \in Nat /\ p <= s
    BY <1>1
  <2>2. NumberOf(p) = NumAt(E, p)
    BY <2>1, NumberIs
  <2>3. NumAt(E, p) = NumAt(E, s) <=> NoneFrom(E, p, s)
    BY <1>1, <2>1, NumAtMonotone
  <2> QED
    BY <1>2, <2>2, <2>3
<1> HIDE DEF E, q, n
<1>6. CASE q <= s
  <2>1. NoneFrom(E, s, e)
    BY <1>1, <1>3, <1>6 DEF NoneFrom
  <2>2. \A p : p \in TextOf(n, s) <=> p \in q..s
    <3> SUFFICES ASSUME NEW p  PROVE p \in TextOf(n, s) <=> p \in q..s
      OBVIOUS
    <3>1. p \in TextOf(n, s) <=> p \in 0..s /\ NoneFrom(E, p, s)
      BY <1>5 DEF TextOf
    <3>2. p \in q..s => p \in 0..s /\ NoneFrom(E, p, s)
      <4> SUFFICES ASSUME p \in q..s  PROVE p \in 0..s /\ NoneFrom(E, p, s)
        OBVIOUS
      <4>1. p \in Nat /\ q <= p /\ p <= s
        BY <1>1, <1>3
      <4>2. ASSUME NEW m \in E, p <= m, m < s
            PROVE  FALSE
        <5>1. m \in Nat /\ q <= m /\ m < e
          BY <1>1, <1>3, <4>1, <4>2
        <5> QED
          BY <1>3, <5>1 DEF NoneFrom
      <4> QED
        BY <1>1, <4>1, <4>2 DEF NoneFrom
    <3>3. p \in 0..s /\ NoneFrom(E, p, s) => p \in q..s
      <4> SUFFICES ASSUME p \in 0..s, NoneFrom(E, p, s), ~(q <= p)  PROVE FALSE
        BY <1>1, <1>3
      <4>1. q \in Nat /\ p \in Nat /\ p < q
        BY <1>1, <1>3
      <4>2. q - 1 \in E
        BY <1>3, <4>1 DEF StartsLine
      <4>3. p <= q - 1 /\ q - 1 < s
        BY <1>1, <1>6, <4>1
      <4> QED
        BY <4>2, <4>3 DEF NoneFrom
    <3> QED
      BY <3>1, <3>2, <3>3
  <2>3. TextOf(n, s) = q..s
    <3> DEFINE A == TextOf(n, s)
               B == q..s
    <3>1. \A p : p \in A <=> p \in B
      BY <2>2
    <3> HIDE DEF A, B
    <3>2. A = B
      BY <3>1
    <3> QED
      BY <3>2 DEF A, B
  <2>4. q \in Int /\ s \in Int
    BY <1>1, <1>3
  <2>5. Cardinality(q..s) = IF q > s THEN 0 ELSE s - q + 1
    BY <2>4, FS_Interval
  <2>6. Cardinality(TextOf(n, s)) = s - q + 1
    BY <1>6, <2>3, <2>4, <2>5
  <2>7. Max({0, s - q + 1}) = s - q + 1
    <3>1. 0 \in Int /\ s - q + 1 \in Int /\ 0 <= s - q + 1
      BY <1>6, <2>4
    <3> QED
      BY <3>1, MaxOfTwo
  <2> QED
    BY <1>2, <1>4, <2>1, <2>6, <2>7 DEF n, q, E
<1>7. CASE ~(q <= s)
  <2>1. q \in Nat /\ s < q
    BY <1>1, <1>3, <1>7
  <2>2. q - 1 \in E /\ s <= q - 1 /\ q - 1 < e
    BY <1>1, <1>3, <2>1 DEF StartsLine
  <2>3. ~NoneFrom(E, s, e)
    BY <2>2 DEF NoneFrom
  <2>4. Max({0, s - q + 1}) = 0
    <3>1. 0 \in Int /\ s - q + 1 \in Int /\ s - q + 1 <= 0
      BY <1>1, <2>1
    <3>2. Max({0, s - q + 1}) = IF 0 <= s - q + 1 THEN s - q + 1 ELSE 0
      BY <3>1, MaxOfTwo
    <3> QED
      BY <3>1, <3>2
  <2> QED
    BY <1>2, <1>4, <2>3, <2>4 DEF n, q, E
<1> QED
  BY <1>6, <1>7

\* When all is printed for vimgrep, every match is reported.
LEMMA HitsDone ==
  ASSUME DoneApart
  PROVE  EachMatchReported
<1> SUFFICES ASSUME opts.vimgrep
             PROVE  /\ Cardinality(Hits) = Len(matches)
                    /\ \A k \in Hits :
                         LET m == matches[Hit(k)] IN
                           /\ output[k].number = NumberOf(m.end)
                           /\ output[k].text[1] =
                                IF NumberOf(m.start) = NumberOf(m.end)
                                THEN Cardinality(TextOf(NumberOf(m.start), m.start)) ELSE 0
  BY DEF EachMatchReported
<1> DEFINE n == Len(matches)
<1>1. BufferIs /\ ApartIn(matches, buf_len)
  BY DEF DoneApart
<1>2. /\ n \in Nat /\ DOMAIN matches = 1..n
      /\ \A k \in 1..n : /\ matches[k].start \in Nat /\ matches[k].end \in Nat
                         /\ matches[k].start <= matches[k].end /\ matches[k].end <= buf_len
  BY <1>1, ApartIs
<1>3. HitsOut(Ends, matches, n, output)
  <2>1. print_context.last_printed_match = n
    BY AllTouched
  <2>2. HitsOut(Ends, matches, print_context.last_printed_match, output)
    BY DEF DoneApart, OutputInv
  <2> QED
    BY <2>1, <2>2
<1>4. PICK g : Reports(Ends, matches, n, output, g)
  BY <1>3, HitsAre
<1>5. /\ g \in [1..n -> DOMAIN output]
      /\ \A a, b \in 1..n : a < b => g[a] < g[b]
      /\ \A k \in DOMAIN output : output[k].sep = ":" <=> \E a \in 1..n : g[a] = k
      /\ \A a \in 1..n : Reported(Ends, matches[a], output[g[a]])
  BY <1>4 DEF Reports
<1>6. output \in Seq(OutLine) /\ Len(output) \in Nat /\ DOMAIN output = 1..Len(output)
  BY DEF DoneApart
<1> HIDE DEF n
<1>7. /\ g \in [1..n -> Hits]
      /\ \A k \in Hits : k \in Nat /\ \E a \in 1..n : g[a] = k
  <2>1. \A a \in 1..n : g[a] \in Hits
    BY <1>5 DEF Hits
  <2>2. g \in [1..n -> Hits]
    BY <1>5, <2>1
  <2>3. \A k \in Hits : k \in DOMAIN output /\ output[k].sep = ":"
    BY DEF Hits
  <2>4. \A k \in Hits : k \in Nat
    BY <1>6, <2>3
  <2> QED
    BY <1>5, <2>2, <2>3, <2>4
<1>8. /\ Cardinality(Hits) = n
      /\ \A a \in 1..n : Cardinality(UpTo(Hits, g[a])) = a
  <2>1. n \in Nat /\ g \in [1..n -> Hits]
    BY <1>2, <1>7
  <2>2. /\ \A a, b \in 1..n : a < b => g[a] < g[b]
        /\ \A k \in Hits : k \in Nat /\ \E a \in 1..n : g[a] = k
    BY <1>5, <1>7
  <2>3. Counts(g, n, Hits)
    BY <2>1, <2>2 DEF Counts
  <2> QED
    BY <2>3, RisingCount
<1>9. ASSUME NEW k \in Hits
      PROVE  LET m == matches[Hit(k)] IN
               /\ output[k].number = NumberOf(m.end)
               /\ output[k].text[1] =
                    IF NumberOf(m.start) = NumberOf(m.end)
                    THEN Cardinality(TextOf(NumberOf(m.start), m.start)) ELSE 0
  <2>1. PICK a \in 1..n : g[a] = k
    BY <1>7
  <2>2. Hit(k) = a
    <3>1. Cardinality(UpTo(Hits, k)) = a
      BY <1>8, <2>1
    <3> QED
      BY <3>1 DEF Hit, UpTo
  <2> DEFINE m == matches[a]
             s == m.start
             e == m.end
  <2>3. buf_len \in Nat
    BY <1>1 DEF BufferIs
  <2>4. s \in Nat /\ e \in Nat /\ s <= e /\ e <= buf_len
    BY <1>2
  <2>5. Reported(Ends, m, output[k])
    BY <1>5, <2>1
  <2>6. /\ output[k].number = NumAt(Ends, e)
        /\ output[k].text = <<Max({0, s - LineAt(Ends, e) + 1})>>
    BY <2>5 DEF Reported
  <2> HIDE DEF s, e
  <2>7. s \in 0..buf_len /\ e \in 0..buf_len
    BY <2>3, <2>4
  <2>8. NumberOf(e) = NumAt(Ends, e)
    BY <1>1, <2>7, NumberIs
  <2>9. Max({0, s - LineAt(Ends, e) + 1}) =
          IF NumberOf(s) = NumberOf(e) THEN Cardinality(TextOf(NumberOf(s), s)) ELSE 0
    BY <1>1, <2>4, <2>7, ColumnIs
  <2>10. output[k].text[1] = Max({0, s - LineAt(Ends, e) + 1})
    BY <2>6
  <2> QED
    BY <2>2, <2>6, <2>8, <2>9, <2>10 DEF s, e
<1> QED
  BY <1>8, <1>9 DEF n

\* What the invariant says when the printing is done.
LEMMA DoneHolds ==
  ASSUME MatchInv, PrintInv, printing = "done", Apart
  PROVE  DoneApart
<1>1. TypesInv /\ ApartInv /\ EndedInv
  BY DEF PrintInv
<1>2. BufferIs
  BY <1>1, PrintingIs
<1>3. Separate(matches, buf_len)
  BY DEF Apart, Separate
<1>4. ApartIn(matches, buf_len)
  <2>1. matches \in Seq(Pairs) /\ \A k \in DOMAIN matches : matches[k].start <= matches[k].end
    BY DEF MatchInv, StoredInv
  <2>2. buf_len \in Nat
    BY <1>2 DEF BufferIs
  <2> QED
    BY <1>3, <2>1, <2>2 DEF ApartIn
<1>5. /\ output \in Seq(OutLine) /\ matches # <<>>
      /\ ContextInv(Ends, buf_len, matches, opts, i, cur_match, print_context)
  BY <1>1 DEF TypesInv
<1>6. /\ MatchesInv(Ends, matches, opts, i, cur_match, print_context)
      /\ OutputInv(Ends, buf_len, matches, opts, i, print_context, output)
  BY <1>1, <1>3 DEF ApartInv
<1>7. Ended(matches, buf_len, opts, i, cur_match, print_context)
  BY <1>1 DEF EndedInv
<1> QED
  BY <1>2, <1>4, <1>5, <1>6, <1>7 DEF DoneApart

\* When print_file_matches is done with matches that lie apart, it has printed the
\* lines they touch and those around them, each once, in order and with its text,
\* or for vimgrep each match once, at its line and column.
THEOREM LinesPrinted == PrintSpec => []PrintsTheLines
<1>1. ASSUME MatchInv, PrintInv, printing = "done", Apart
      PROVE  LinesAsWanted /\ EachMatchReported
  BY <1>1, DoneHolds, LinesDone, HitsDone
<1>2. MatchInv /\ PrintInv => PrintsTheLines
  BY <1>1 DEF PrintsTheLines
<1> QED
  BY <1>2, PrintInvariant, PTL

\* The lines printed are in groups of neighbours, and a separator stands between
\* two groups and nowhere else.
THEOREM GroupsSeparated == PrintSpec => []SeparatesGroups
<1>1. ASSUME MatchInv, PrintInv, printing = "done", Apart, ~opts.vimgrep,
             opts.before + opts.after > 0
      PROVE  /\ \A k \in DOMAIN output :
                  output[k].sep = "--" =>
                    /\ k > 1 /\ k < Len(output)
                    /\ output[k - 1].number + 1 < output[k + 1].number
             /\ \A k \in 2..Len(output) :
                  output[k].sep # "--" /\ output[k - 1].sep # "--" =>
                    output[k].number = output[k - 1].number + 1
  <2>1. DoneApart
    BY <1>1, DoneHolds
  <2> QED
    BY <1>1, <2>1, GroupsDone
<1>2. MatchInv /\ PrintInv => SeparatesGroups
  BY <1>1 DEF SeparatesGroups
<1> QED
  BY <1>2, PrintInvariant, PTL
=============================================================================
