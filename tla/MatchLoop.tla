----------------------------- MODULE MatchLoop -----------------------------
(***************************************************************************)
(* Searching a buffer for a regular expression: the loops of search_buf of  *)
(* ag_src/search.c around pcre_exec, over the whole buffer or line by line, *)
(* and invert_matches of ag_src/util.c.                                     *)
(*                                                                         *)
(* A buffer is its length and the places of its newlines.  What pcre_exec   *)
(* finds is any span of places from the offset it is given on; "found"      *)
(* keeps these spans, as places in the buffer.                              *)
(***************************************************************************)
EXTENDS Integers, Sequences, FiniteSetsExt

CONSTANTS
  MaxLength,             \* bound: characters of a buffer
  max_matches_per_file   \* opts.max_matches_per_file, 0 for no limit

ASSUME MatchLoopAssumption ==
  MaxLength \in Nat \ {0} /\ max_matches_per_file \in Nat

VARIABLES
  buf_len, newlines,       \* the buffer
  multiline, invert_match, any_char,   \* options; the query is "."
  buf_offset, line_offset,
  matches,
  phase,      \* "search", "line", "multiline_done", "invert" or "done"
  inv,                     \* the variables of invert_matches
  found

given == <<buf_len, newlines, multiline, invert_match, any_char>>

match_vars == <<given, buf_offset, line_offset, matches, phase, inv, found>>

Span == [start : 0..MaxLength, end : 0..MaxLength]

Places == 0..(buf_len - 1)

span(s, e) == [start |-> s, end |-> e]

\* The end of the line that buf_getline finds at a place: its newline, or the
\* end of the buffer.
LineEnd(p) == Min({n \in newlines : n >= p} \cup {buf_len})

line_len == LineEnd(buf_offset) - buf_offset

TooMany(list) == max_matches_per_file > 0 /\ Len(list) >= max_matches_per_file

\* What pcre_exec may answer: a span of the subject, which ends at "last".
pcre_exec(offset, last) ==
  {m \in Span : offset <= m.start /\ m.start <= m.end /\ m.end <= last}

\* Where a loop goes on after a match: past it, one further if it is empty.
Past(m) == IF m.start = m.end THEN m.end + 1 ELSE m.end

-----------------------------------------------------------------------------
NotInverting ==
  [i |-> 0, read |-> 0, count |-> 0, start |-> 0, last_line_end |-> 0,
   in_inverted_match |-> TRUE, next |-> span(0, 0)]

\* The query "." is not given to pcre: the whole buffer is the match.
MatchInit ==
  /\ buf_len \in 1..MaxLength
  /\ newlines \in SUBSET Places
  /\ multiline \in BOOLEAN /\ invert_match \in BOOLEAN /\ any_char \in BOOLEAN
  /\ buf_offset = 0 /\ line_offset = 0
  /\ matches = IF any_char THEN <<span(0, buf_len)>> ELSE <<>>
  /\ phase = IF any_char THEN "multiline_done" ELSE "search"
  /\ inv = NotInverting
  /\ found = <<>>

-----------------------------------------------------------------------------
(* The loops around pcre_exec                                               *)

\* A match in the whole buffer.
ExecBuffer ==
  /\ phase = "search" /\ multiline
  /\ buf_offset < buf_len
  /\ \E m \in pcre_exec(buf_offset, buf_len) :
       /\ matches' = Append(matches, m)
       /\ buf_offset' = Past(m)
       /\ found' = Append(found, m)
  /\ phase' = IF TooMany(matches') THEN "multiline_done" ELSE "search"
  /\ UNCHANGED <<given, line_offset, inv>>

\* The next line.
GetLine ==
  /\ phase = "search" /\ ~multiline
  /\ buf_offset < buf_len
  /\ line_offset' = 0
  /\ phase' = "line"
  /\ UNCHANGED <<given, buf_offset, matches, inv, found>>

\* A match in the line.  offset_vector counts from the start of the line, and
\* line_offset is added to it once more.
ExecLine ==
  /\ phase = "line"
  /\ line_offset < line_len
  /\ \E m \in pcre_exec(buf_offset + line_offset, buf_offset + line_len) :
       /\ matches' = Append(matches, span(m.start + line_offset,
                                          m.end + line_offset))
       /\ line_offset' = Past(m) - buf_offset
       /\ found' = Append(found, m)
  /\ phase' = IF TooMany(matches') THEN "multiline_done" ELSE "line"
  /\ UNCHANGED <<given, buf_offset, inv>>

\* Fault: the next line starts at the newline of this one.
AtLineEnd == buf_offset + line_len

AfterLine == buf_offset + line_len + 1

\* No (further) match in the line.
EndLine ==
  /\ phase = "line"
  /\ buf_offset' = AfterLine
  /\ phase' = "search"
  /\ UNCHANGED <<given, line_offset, matches, inv, found>>

\* The end of the buffer, or no (further) match in it.
EndSearch ==
  /\ phase = "search"
  /\ multiline \/ buf_offset >= buf_len
  /\ phase' = "multiline_done"
  /\ UNCHANGED <<given, buf_offset, line_offset, matches, inv, found>>

KeepMatches ==
  /\ phase = "multiline_done" /\ ~invert_match
  /\ phase' = "done"
  /\ UNCHANGED <<given, buf_offset, line_offset, matches, inv, found>>

-----------------------------------------------------------------------------
(* invert_matches: the matches are overwritten by what lies between them.   *)

\* No matches: the whole buffer.
InvertNothing ==
  /\ phase = "multiline_done" /\ invert_match
  /\ matches = <<>>
  /\ matches' = <<span(0, buf_len - 1)>>
  /\ phase' = "done"
  /\ UNCHANGED <<given, buf_offset, line_offset, inv, found>>

StartInvert ==
  /\ phase = "multiline_done" /\ invert_match
  /\ matches # <<>>
  /\ inv' = [NotInverting EXCEPT !.next = matches[1]]
  /\ phase' = "invert"
  /\ UNCHANGED <<given, buf_offset, line_offset, matches, found>>

\* matches[inverted_match_count] = m, perhaps in the spare one.
Write(m) ==
  matches' = [k \in DOMAIN matches \cup {inv.count + 1} |->
                IF k = inv.count + 1 THEN m ELSE matches[k]]

InvertLoop ==
  /\ phase = "invert"
  /\ inv.i < buf_len
  /\ UNCHANGED <<given, buf_offset, line_offset, phase, found>>

\* A match starts: the lines before it are an inverted match, and the loop goes
\* on after it.  How far match_read_index passes the last match is not kept, so
\* that meeting the last match over and over is a step that changes nothing.
InvertAtMatch ==
  LET writes == inv.in_inverted_match /\ inv.last_line_end > inv.start IN
    /\ InvertLoop
    /\ inv.i = inv.next.start
    /\ IF writes THEN Write(span(inv.start, inv.last_line_end - 1))
       ELSE UNCHANGED matches
    /\ inv' = [inv EXCEPT !.i = inv.next.end,
                          !.read = Min({@ + 1, Len(matches)}),
                          !.next = IF inv.read + 1 < Len(matches)
                                   THEN matches[inv.read + 2] ELSE @,
                          !.count = IF writes THEN @ + 1 ELSE @,
                          !.in_inverted_match = FALSE]

\* The last character, and no match in its line.
InvertAtEnd ==
  /\ InvertLoop
  /\ inv.i # inv.next.start
  /\ inv.i = buf_len - 1 /\ inv.in_inverted_match
  /\ Write(span(inv.start, inv.i))
  /\ inv' = [inv EXCEPT !.i = @ + 1, !.count = @ + 1]

\* Fault: lines without a match start where the last ones did.
AfterNewlineKeepsStart ==
  [inv EXCEPT !.i = @ + 1,
              !.last_line_end = inv.i + 1,
              !.in_inverted_match = TRUE]

\* A newline ends a line; after one with a match, lines without may start.
AfterNewline ==
  [inv EXCEPT !.i = @ + 1,
              !.last_line_end = inv.i + 1,
              !.start = IF inv.in_inverted_match THEN @ ELSE inv.i + 1,
              !.in_inverted_match = TRUE]

\* Any other character.
InvertAtChar ==
  /\ InvertLoop
  /\ inv.i # inv.next.start
  /\ ~(inv.i = buf_len - 1 /\ inv.in_inverted_match)
  /\ inv' = IF inv.i \in newlines THEN AfterNewline ELSE [inv EXCEPT !.i = @ + 1]
  /\ UNCHANGED matches

InvertReturn ==
  /\ phase = "invert"
  /\ inv.i >= buf_len
  /\ matches' = SubSeq(matches, 1, inv.count)
  /\ phase' = "done"
  /\ UNCHANGED <<given, buf_offset, line_offset, inv, found>>

-----------------------------------------------------------------------------
MatchNext ==
  \/ ExecBuffer \/ GetLine \/ ExecLine \/ EndLine \/ EndSearch \/ KeepMatches
  \/ InvertNothing \/ StartInvert
  \/ InvertAtMatch \/ InvertAtEnd \/ InvertAtChar \/ InvertReturn

-----------------------------------------------------------------------------
(* Properties                                                               *)

\* The types of the variables; there are never more matches than were found
\* and the one spare that search_buf allocates for invert_matches.
MatchTypeOK ==
  /\ buf_offset \in 0..(buf_len + 1) /\ line_offset \in 0..(buf_len + 1)
  /\ matches \in Seq([start : Nat, end : Nat])
  /\ found \in Seq(Span)
  /\ phase \in {"search", "line", "multiline_done", "invert", "done"}
  /\ inv.i \in Nat /\ inv.count \in 0..Len(matches)
  /\ Len(matches) <= (IF any_char THEN 1 ELSE Len(found)) + 1

\* The line of a place is named by the place it starts at.
LineOf(p) == Max({0} \cup {n + 1 : n \in {n \in newlines : n < p}})

\* The lines that the places from s to e are in.
LinesFrom(s, e) == {LineOf(p) : p \in (s..e) \cap Places}

\* The lines that a span lies in, the one an empty span is at included.
LinesOf(m) == LinesFrom(m.start, Max({m.start, m.end - 1}))

\* The lines with a match: all with a character, when the query is ".".
MatchingLines ==
  IF any_char THEN {LineOf(p) : p \in Places \ newlines}
  ELSE UNION {LinesOf(found[k]) : k \in DOMAIN found}

\* The lines reported.  The line that the end of an inverted match lies in is
\* printed with the others.
ReportedLines ==
  UNION {IF invert_match THEN LinesFrom(matches[k].start, matches[k].end)
         ELSE LinesOf(matches[k]) : k \in DOMAIN matches}

AllLines == {LineOf(p) : p \in Places}

Empty(m) == m.start = m.end

\* A match that reaches over the end of its line.
TakesNewline(m) == ~Empty(m) /\ m.end - 1 \in newlines

\* What the loops are right for: no match to be inverted ends with a newline;
\* line by line, one match in a line; no empty line, when the query is ".".
Ordinary ==
  /\ invert_match => \A k \in DOMAIN found : ~TakesNewline(found[k])
  /\ ~multiline => \A j, k \in DOMAIN found :
                     LinesOf(found[j]) = LinesOf(found[k]) => j = k
  /\ any_char => MatchingLines = AllLines

\* The lines reported are the lines with a match or, inverted, exactly the
\* others, however the matches lie and although invert_matches writes over the
\* matches that it reads.
ReportsTheLines ==
  phase = "done" /\ Ordinary =>
    ReportedLines = IF invert_match THEN AllLines \ MatchingLines
                    ELSE MatchingLines

\* The last match stored is empty, and at a character.
EndsInEmptyMatch ==
  LET m == matches[Len(matches)] IN
    matches # <<>> /\ Empty(m) /\ m.start < buf_len

\* search_buf ends: each loop moves on past an empty match.  What keeps
\* invert_matches from it is an empty match that is the last.
SearchBufEnds ==
  <>(\/ phase = "done"
     \/ phase = "multiline_done" /\ invert_match /\ EndsInEmptyMatch)
=============================================================================
