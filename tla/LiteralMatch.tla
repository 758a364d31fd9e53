---------------------------- MODULE LiteralMatch ----------------------------
(***************************************************************************)
(* Searching a buffer for a literal query: the lookup tables that          *)
(* setup_search() of libag.c and main() build (generate_alpha_skip,        *)
(* generate_find_skip, generate_hash of ag_src/util.c), the two searchers  *)
(* that go by them (boyer_moore_strnstr, hash_strnstr), and the loop of    *)
(* search_buf that collects the matches of a buffer.                       *)
(*                                                                         *)
(* A string is a function from 0..n-1 to character codes, as in C.         *)
(* h_table is a static array that is never cleared: the table a search     *)
(* builds is added to what the searches before it have left.               *)
(***************************************************************************)
EXTENDS Integers, FiniteSets, FiniteSetsExt, SequencesExt

CONSTANTS
  Char,          \* the characters that queries and buffers are made of
  Queries,       \* the queries searched for
  Buffers,       \* the contents of the files
  MaxSearches,   \* bound: searches of the process, 1 for the program
  Builds,        \* whether built for x86, where hash_strnstr may be used
  H_SIZE,        \* cells of h_table
  max_matches_per_file   \* opts.max_matches_per_file, 0 for no limit

\* The strings of 1 to max of the characters.
Strings(chars, max) == UNION {[0..(n - 1) -> chars] : n \in 1..max}
Size(s) == Cardinality(DOMAIN s)

ASSUME LiteralAssumption ==
  /\ Char \subseteq 0..127 /\ Char # {}
  /\ \A s \in Queries \cup Buffers :
       IsFiniteSet(DOMAIN s) /\ s \in [0..(Size(s) - 1) -> Char] /\ DOMAIN s # {}
  /\ MaxSearches \in Nat \ {0}
  /\ Builds \subseteq BOOLEAN /\ Builds # {}
  /\ H_SIZE \in Nat \ {0}
  /\ max_matches_per_file \in Nat

VARIABLES
  unaligned,           \* the build, the same all along
  query,               \* opts.query
  case_sensitive,      \* opts.casing == CASE_SENSITIVE
  word_regexp,         \* opts.word_regexp
  alpha_skip_lookup,
  find_skip_lookup,
  h_table,             \* the cells in use, with what they hold
  buf, buf_offset, matches,   \* search_buf
  phase,               \* "idle", "ready", "matching" or "done"
  searches             \* how many searches have been set up

setupVars == <<unaligned, query, case_sensitive, word_regexp,
               alpha_skip_lookup, find_skip_lookup, h_table, searches>>

vars == <<setupVars, buf, buf_offset, matches, phase>>

Upper == 65..90
Lower == 97..122

tolower(c) == IF c \in Upper THEN c + 32 ELSE c
toupper(c) == IF c \in Lower THEN c - 32 ELSE c

Fold(c, sensitive) == IF sensitive THEN c ELSE tolower(c)

is_wordchar(c) == c \in Upper \cup Lower \cup 48..57 \cup {95}

-----------------------------------------------------------------------------
(* The tables.  An insensitive query has been put in lower case before, so  *)
(* that its own characters are compared as they are.                        *)

\* Fault: the first place of a character counts, not the last.
generate_alpha_skip_first(find, sensitive) ==
  LET last == Size(find) - 1
      Spellings(c) == IF sensitive THEN {c} ELSE {tolower(c), toupper(c)}
      Hits(c) == {i \in 0..(last - 1) : c \in Spellings(find[i])}
  IN [c \in Char |-> IF Hits(c) = {} THEN last + 1 ELSE last - Min(Hits(c))]

generate_alpha_skip(find, sensitive) ==
  LET last == Size(find) - 1
      Spellings(c) == IF sensitive THEN {c} ELSE {tolower(c), toupper(c)}
      Hits(c) == {i \in 0..(last - 1) : c \in Spellings(find[i])}
  IN [c \in Char |-> IF Hits(c) = {} THEN last + 1 ELSE last - Max(Hits(c))]

\* Whether what is left of s from pos on is a prefix of s.
is_prefix(s, pos) == \A i \in 0..(Size(s) - 1 - pos) : s[i] = s[i + pos]

\* How long a suffix of s the characters up to pos are.
suffix_len(s, pos) ==
  Min({i \in 0..pos : i = pos \/ s[pos - i] # s[Size(s) - i - 1]})

generate_find_skip(find) ==
  LET len == Size(find)
      last_prefix(i) == Min({j \in i..len : is_prefix(find, j)})
      Adjusting(k) == {i \in 0..(len - 1) :
                         LET s_len == suffix_len(find, i) IN
                           /\ k = len - 1 - s_len
                           /\ find[i - s_len] # find[k]}
  IN [k \in 0..(len - 1) |->
        IF Adjusting(k) = {}
        THEN last_prefix(k + 1) + (len - (k + 1))
        ELSE LET i == Max(Adjusting(k)) IN len - 1 - i + suffix_len(find, i)]

\* Two characters read as one little-endian uint16_t.
Word(c0, c1) == c0 + 256 * c1

\* Fault: first word first, so that a later place hides an earlier one.
HashEntriesForward(find, sensitive) ==
  LET caps == IF sensitive THEN 1 ELSE 4
      Cap(c, on) == IF on THEN (c - 32) % 256 ELSE c
  IN [n \in 1..(caps * (Size(find) - 1)) |->
        LET i == (n - 1) \div caps
            caps_set == (n - 1) % caps
        IN [word  |-> Word(Cap(find[i], caps_set % 2 = 1),
                           Cap(find[i + 1], caps_set \div 2 = 1)),
            value |-> i + 1]]

\* The words of the query, last one first, with the place each stands for;
\* unless case sensitive, every word in its four capitalizations, whether or
\* not its characters are letters.
HashEntries(find, sensitive) ==
  LET caps == IF sensitive THEN 1 ELSE 4
      Cap(c, on) == IF on THEN (c - 32) % 256 ELSE c
  IN [n \in 1..(caps * (Size(find) - 1)) |->
        LET i == Size(find) - 2 - (n - 1) \div caps
            caps_set == (n - 1) % caps
        IN [word  |-> Word(Cap(find[i], caps_set % 2 = 1),
                           Cap(find[i + 1], caps_set \div 2 = 1)),
            value |-> i + 1]]

\* How far the first free cell is from the home cell of a word.
FreeCell(table, word) ==
  LET Used(k) == (word + k) % H_SIZE \in DOMAIN table
  IN CHOOSE k \in 0..Cardinality(DOMAIN table) :
       ~Used(k) /\ \A j \in 0..(k - 1) : Used(j)

AddEntry(table, entry) ==
  LET h == (entry.word + FreeCell(table, entry.word)) % H_SIZE
  IN [cell \in DOMAIN table \cup {h} |->
        IF cell = h THEN entry.value ELSE table[cell]]

generate_hash(find, table, sensitive) ==
  LET entries == HashEntries(find, sensitive)
      after[n \in 0..Len(entries)] ==
        IF n = 0 THEN table ELSE AddEntry(after[n - 1], entries[n])
  IN  after[Len(entries)]

-----------------------------------------------------------------------------
(* The searchers: the place of the first match in s from offset on, or -1.  *)

MatchAt(s, find, sensitive, p) ==
  /\ 0 <= p /\ p + Size(find) <= Size(s)
  /\ \A i \in DOMAIN find : Fold(s[p + i], sensitive) = find[i]

FirstOr(S, none) == IF S = {} THEN none ELSE Min(S)

\* p is where the query is compared, from its last character back.
boyer_moore_strnstr(s, offset, find, alpha_skip, find_skip, sensitive) ==
  LET last == Size(find) - 1
      Differ(p) == {i \in DOMAIN find : Fold(s[p + i], sensitive) # find[i]}
      From[p \in Nat] ==
        IF p + last >= Size(s) THEN -1
        ELSE IF Differ(p) = {} THEN p
        ELSE LET i == Max(Differ(p)) IN
               From[p + i - last + Max({alpha_skip[s[p + i]], find_skip[i]})]
  IN From[offset]

\* The places the cells from the home cell of a word on stand for, in order,
\* relative to where the word was read.
Chain(table, word) ==
  [k \in 1..FreeCell(table, word) |-> table[(word + k - 1) % H_SIZE] - 1]

\* One word of each window of step characters is looked up; what is left at
\* the end is compared place by place.  A place before the buffer, which only
\* a stale cell can stand for, is taken not to match.
hash_strnstr(s, offset, find, table, sensitive) ==
  LET len == Size(find)
      step == len - 1
      last == Size(s) - len            \* the last place of a match
      At(s_i) == Chain(table, Word(s[s_i], s[s_i + 1]))
      Hits(s_i) == {k \in DOMAIN At(s_i) :
                      MatchAt(s, find, sensitive, s_i - At(s_i)[k])}
      Window(n) == offset + len - 2 + n * step
      Windows == {n \in 0..Size(s) : Window(n) <= last}
      Found == {n \in Windows : Hits(Window(n)) # {}}
      tail == offset + Cardinality(Windows) * step
  IN IF last < offset THEN -1
     ELSE IF Found # {}
     THEN LET s_i == Window(Min(Found)) IN s_i - At(s_i)[Min(Hits(s_i))]
     ELSE FirstOr({p \in tail..last : MatchAt(s, find, sensitive, p)}, -1)

\* The choice search_buf makes between them.
UsesHash(find) == unaligned /\ Size(find) >= 3 /\ Size(find) < 255

NextMatch ==
  IF buf_offset >= Size(buf) THEN -1
  ELSE IF UsesHash(query)
  THEN hash_strnstr(buf, buf_offset, query, h_table, case_sensitive)
  ELSE boyer_moore_strnstr(buf, buf_offset, query, alpha_skip_lookup,
                           find_skip_lookup, case_sensitive)

\* Both ends of a match lie on a word boundary.
OnWordBoundaries(p) ==
  LET end == p + Size(query) IN
    /\ p > 0 => is_wordchar(buf[p - 1]) # is_wordchar(query[0])
    /\ end < Size(buf) =>
         is_wordchar(buf[end]) # is_wordchar(query[Size(query) - 1])

-----------------------------------------------------------------------------
Init ==
  /\ unaligned \in Builds
  /\ query = <<>> /\ case_sensitive = TRUE /\ word_regexp = FALSE
  /\ alpha_skip_lookup = <<>> /\ find_skip_lookup = <<>> /\ h_table = <<>>
  /\ buf = <<>> /\ buf_offset = 0 /\ matches = <<>>
  /\ phase = "idle"
  /\ searches = 0

\* setup_search() of a literal query, or the same lines of main().
SetupSearch(q, sensitive, words) ==
  LET find == [i \in DOMAIN q |-> Fold(q[i], sensitive)] IN
    /\ phase \in {"idle", "done"}
    /\ searches < MaxSearches
    /\ query' = find
    /\ case_sensitive' = sensitive
    /\ word_regexp' = words
    /\ alpha_skip_lookup' = generate_alpha_skip(find, sensitive)
    /\ find_skip_lookup' = generate_find_skip(find)
    /\ h_table' = generate_hash(find, h_table, sensitive)
    /\ phase' = "ready"
    /\ searches' = searches + 1
    /\ UNCHANGED <<unaligned, buf, buf_offset, matches>>

\* search_buf is called with the content of a file, never an empty one.
SearchBuf(s) ==
  /\ phase = "ready"
  /\ buf' = s
  /\ buf_offset' = 0
  /\ matches' = <<>>
  /\ phase' = "matching"
  /\ UNCHANGED setupVars

\* Whether the loop has found as many matches as it may.
TooMany(found) == max_matches_per_file > 0 /\ Len(found) >= max_matches_per_file

\* Fault: the loop goes on from the start of the match.
AddMatchStays(p) ==
  /\ p # -1
  /\ word_regexp => OnWordBoundaries(p)
  /\ matches' = Append(matches, p)
  /\ buf_offset' = p
  /\ phase' = IF TooMany(matches') THEN "done" ELSE "matching"
  /\ UNCHANGED <<setupVars, buf>>

\* An iteration of the loop that finds a match at p.
AddMatch(p) ==
  /\ p # -1
  /\ word_regexp => OnWordBoundaries(p)
  /\ matches' = Append(matches, p)
  /\ buf_offset' = p + Size(query)
  /\ phase' = IF TooMany(matches') THEN "done" ELSE "matching"
  /\ UNCHANGED <<setupVars, buf>>

\* One that finds what is not a whole word.
SkipMatch(p) ==
  /\ p # -1
  /\ word_regexp /\ ~OnWordBoundaries(p)
  /\ buf_offset' = p + find_skip_lookup[0] - Size(query) + 1
  /\ UNCHANGED <<setupVars, buf, matches, phase>>

EndSearchBuf(p) ==
  /\ p = -1
  /\ phase' = "done"
  /\ UNCHANGED <<setupVars, buf, buf_offset, matches>>

Next ==
  \/ \E q \in Queries, sensitive \in BOOLEAN, words \in BOOLEAN :
       SetupSearch(q, sensitive, words)
  \/ \E s \in Buffers : SearchBuf(s)
  \/ /\ phase = "matching"
     /\ \E p \in {NextMatch} : AddMatch(p) \/ SkipMatch(p) \/ EndSearchBuf(p)

Spec == Init /\ [][Next]_vars

-----------------------------------------------------------------------------
(* Properties                                                               *)

\* Where the query occurs in the buffer, and may be reported.
Occurrences ==
  {p \in DOMAIN buf : /\ MatchAt(buf, query, case_sensitive, p)
                      /\ word_regexp => OnWordBoundaries(p)}

\* What the loop has found is found leftmost first, without overlaps and
\* without leaving one out: whatever the tables let it skip, each occurrence
\* before buf_offset is a match or overlaps one that starts before it
\* (boyer_moore_strnstr, hash_strnstr and search_buf, util.c and search.c).
LeftmostMatches ==
  phase = "done" =>
    LET found == Occurrences IN
      /\ \A k \in DOMAIN matches : matches[k] \in found
      /\ \A k \in DOMAIN matches \ {1} :
           matches[k - 1] + Size(query) <= matches[k]
      /\ \A p \in found :
           p < buf_offset \/ ~TooMany(matches) =>
             \E k \in DOMAIN matches :
               matches[k] <= p /\ p < matches[k] + Size(query)

\* Each iteration of the loop of search_buf moves on in the buffer.
OffsetAdvances ==
  [][phase = "matching" /\ phase' = "matching" => buf_offset' > buf_offset]_vars
=============================================================================
