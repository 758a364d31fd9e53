----------------------------- MODULE PrintFile -----------------------------
(***************************************************************************)
(* print_file_matches of ag_src/print.c, for the matches that search_buf    *)
(* has found in a buffer: the lines with a match, the lines around them     *)
(* from a ring of the last ones, separators, line numbers and the           *)
(* characters that are printed of a line.                                   *)
(*                                                                         *)
(* A line of the output is the separator before it, its number and the      *)
(* places of its characters; paths and colours are left out.                *)
(***************************************************************************)
EXTENDS MatchLoop

CONSTANTS
  Formats,   \* the output options considered
  INT_MAX    \* for no match yet: more lines than a buffer has

\* opts.after is any number, and one close to INT_MAX hides lines before the
\* first match.
ASSUME PrintFileAssumption ==
  /\ Formats # {}
  /\ Formats \subseteq [before : Nat, after : Nat, only_matching : BOOLEAN,
                        vimgrep : BOOLEAN, width : Nat]
  /\ INT_MAX \in Nat /\ \A f \in Formats : f.after + MaxLength < INT_MAX

VARIABLES
  opts,              \* the output options
  printing,          \* "no", "lines" or "done"
  i, cur_match,
  print_context,
  output

pvars == <<opts, printing, i, cur_match, print_context, output>>
allvars == <<match_vars, pvars>>

NoLine == <<-1, -1>>

-----------------------------------------------------------------------------
(* Helpers                                                                  *)

\* The places from s on, up to e, that there are.
Text(s, e) == [k \in 1..(Min({e, buf_len - 1}) - s + 1) |-> s + k - 1]

Line(sep, n, text) == [sep |-> sep, number |-> n, text |-> text]

Separator == Line("--", 0, <<>>)

\* Fault: the newline is kept with the line.
AppendedWhole(ctx, e) ==
  IF opts.before = 0 THEN ctx
  ELSE [ctx EXCEPT !.prev_lines[ctx.last_prev_line] = <<ctx.prev_line_offset, e>>,
                   !.last_prev_line = (@ + 1) % opts.before]

\* print_context_append: the line goes where the oldest one was.
Appended(ctx, e) ==
  IF opts.before = 0 THEN ctx
  ELSE [ctx EXCEPT !.prev_lines[ctx.last_prev_line] = <<ctx.prev_line_offset, e - 1>>,
                   !.last_prev_line = (@ + 1) % opts.before]

\* Fault: lines printed after the last match are printed again.
LinesToPrintAll(ctx) == Min({ctx.lines_since_last_match - 1, opts.before})

\* How many lines before a match have not been printed yet.
LinesToPrint(ctx) ==
  Max({0, Min({ctx.lines_since_last_match - (opts.after + 1), opts.before})})

\* The lines before a match, from the ring, those of its places that are filled.
ContextBefore(ctx) ==
  LET slot(j) == ctx.prev_lines[(ctx.last_prev_line + j) % opts.before]
      first == opts.before - LinesToPrint(ctx)
      printed[j \in first..opts.before] ==
        IF j = first THEN <<>>
        ELSE printed[j - 1] \o
               (IF slot(j - 1) = NoLine THEN <<>>
                ELSE <<Line("-", ctx.line - (opts.before - (j - 1)),
                            Text(slot(j - 1)[1], slot(j - 1)[2]))>>)
  IN  printed[opts.before]

\* Fault: one line fewer counts as passed over.
PassedOverEarly(ctx) == ctx.lines_since_last_match > opts.before + opts.after

\* Lines have been passed over since the last match.
PassedOver(ctx) == ctx.lines_since_last_match > opts.before + opts.after + 1

\* A match starts at i: a separator, if lines have been passed over since the
\* last match, and the lines before.
MatchStarts(ctx) ==
  (IF /\ cur_match > 0
      /\ opts.before + opts.after > 0
      /\ PassedOver(ctx)
   THEN <<Separator>> ELSE <<>>)
  \o (IF ctx.lines_since_last_match > 0 THEN ContextBefore(ctx) ELSE <<>>)

\* The characters of a line with a match, one after the other: a match is closed
\* before the next one is opened.  A cut at opts.width ends all highlighting.
ShowChar(p, j) ==
  LET closes == p.last < Len(matches) /\ j = matches[p.last + 1].end
      last1 == IF closes THEN p.last + 1 ELSE p.last
      shown1 == p.shown /\ ~closes
      cut == opts.width > 0 /\ j < buf_len /\ j - p.from >= opts.width
      last2 == IF cut THEN Len(matches) ELSE last1
      shown2 == shown1 \/ (last2 < Len(matches) /\ j = matches[last2 + 1].start)
      prints == /\ j < buf_len
                /\ ~opts.only_matching \/ shown2
                /\ opts.width = 0 \/ j - p.from < opts.width
  IN  IF p.over THEN p
      ELSE [p EXCEPT !.last = last2, !.shown = shown2, !.over = cut,
                     !.text = IF prints THEN Append(@, j) ELSE @]

ShowLine(ctx) ==
  LET showed[j \in (ctx.prev_line_offset - 1)..i] ==
        IF j < ctx.prev_line_offset
        THEN [from |-> ctx.prev_line_offset, text |-> <<>>,
              last |-> ctx.last_printed_match, shown |-> ctx.printing_a_match,
              over |-> FALSE]
        ELSE ShowChar(showed[j - 1], j)
  IN  showed[i]

\* A line with a match.  For vimgrep it is printed for each match that has ended
\* in it, with the column of its start, or 0 for one that starts before.
MatchingLine(ctx, cur) ==
  IF opts.vimgrep
  THEN [k \in 1..(cur - ctx.last_printed_match) |->
          LET m == matches[ctx.last_printed_match + k] IN
            Line(":", ctx.line,
                 <<Max({0, m.start - ctx.prev_line_offset + 1})>>)]
  ELSE <<Line(":", ctx.line, ShowLine(ctx).text)>>

\* Fault: the matches reported for vimgrep are not counted.
AfterMatchingLineKept(ctx, cur) ==
  IF opts.vimgrep THEN ctx
  ELSE [ctx EXCEPT !.last_printed_match = ShowLine(ctx).last,
                   !.printing_a_match = ShowLine(ctx).shown]

AfterMatchingLine(ctx, cur) ==
  IF opts.vimgrep THEN [ctx EXCEPT !.last_printed_match = Max({@, cur})]
  ELSE [ctx EXCEPT !.last_printed_match = ShowLine(ctx).last,
                   !.printing_a_match = ShowLine(ctx).shown]

\* print_trailing_context, called at the end of every line.
TrailingLine(ctx) ==
  IF ctx.lines_since_last_match \in 1..opts.after
  THEN <<Line("-", ctx.line, Text(ctx.prev_line_offset, i - 1))>> ELSE <<>>

\* Fault: lines inside a match count as lines after it.
TrailedAlways(ctx) ==
  [ctx EXCEPT !.line = @ + 1,
              !.lines_since_last_match = IF @ < INT_MAX THEN @ + 1 ELSE @,
              !.prev_line_offset = i + 1]

Trailed(ctx) ==
  [ctx EXCEPT !.line = @ + 1,
              !.lines_since_last_match =
                 IF ~ctx.in_a_match /\ @ < INT_MAX THEN @ + 1 ELSE @,
              !.prev_line_offset = i + 1]

-----------------------------------------------------------------------------
NewContext(before) ==
  [line |-> 1, prev_lines |-> [k \in 0..(before - 1) |-> NoLine],
   last_prev_line |-> 0, prev_line_offset |-> 0,
   lines_since_last_match |-> INT_MAX, last_printed_match |-> 0,
   in_a_match |-> FALSE, printing_a_match |-> FALSE]

PrintInit ==
  /\ MatchInit
  /\ opts \in {CHOOSE f \in Formats : TRUE}
  /\ printing = "no"
  /\ i = 0 /\ cur_match = 0
  /\ print_context = NewContext(0)
  /\ output = <<>>

\* search_buf has matches, and prints them.  Its other variables are read no more.
StartPrint ==
  /\ printing = "no"
  /\ phase = "done" /\ matches # <<>>
  /\ opts' \in Formats
  /\ print_context' = NewContext(opts'.before)
  /\ printing' = "lines"
  /\ buf_offset' = 0 /\ line_offset' = 0 /\ inv' = NotInverting
  /\ UNCHANGED <<given, matches, phase, found, i, cur_match, output>>

LoopGoesOn ==
  /\ printing = "lines"
  /\ i <= buf_len
  /\ \/ cur_match < Len(matches)
     \/ print_context.lines_since_last_match <= opts.after

\* One character.  The end of a match is looked for after its start, and the end
\* of the line last.
PrintChar ==
  LET starts == cur_match < Len(matches) /\ i = matches[cur_match + 1].start
      ends == cur_match < Len(matches) /\ i = matches[cur_match + 1].end
      eol == i = buf_len \/ i \in newlines
      c1 == IF starts THEN [print_context EXCEPT !.in_a_match = TRUE,
                                                 !.lines_since_last_match = 0]
            ELSE print_context
      c2 == IF ends THEN [c1 EXCEPT !.in_a_match = FALSE] ELSE c1
      cur == IF ends THEN cur_match + 1 ELSE cur_match
      c3 == IF eol THEN Appended(c2, i) ELSE c2
      matched == eol /\ c3.lines_since_last_match = 0
      c4 == IF matched THEN AfterMatchingLine(c3, cur) ELSE c3
  IN
    /\ LoopGoesOn
    /\ cur_match' = cur
    /\ print_context' = IF eol THEN Trailed(c4) ELSE c4
    /\ output' = output
                 \o (IF starts THEN MatchStarts(print_context) ELSE <<>>)
                 \o (IF matched THEN MatchingLine(c3, cur) ELSE <<>>)
                 \o (IF eol THEN TrailingLine(c4) ELSE <<>>)
    /\ i' = i + 1
    /\ UNCHANGED <<match_vars, opts, printing>>

EndPrint ==
  /\ printing = "lines"
  /\ ~LoopGoesOn
  /\ printing' = "done"
  /\ UNCHANGED <<match_vars, opts, i, cur_match, print_context, output>>

SearchStep == MatchNext /\ UNCHANGED pvars

PrintNext == SearchStep \/ StartPrint \/ PrintChar \/ EndPrint

\* search_buf goes on while it can.
PrintSpec == PrintInit /\ [][PrintNext]_allvars /\ WF_allvars(SearchStep)

-----------------------------------------------------------------------------
(* Properties                                                               *)

\* The types of the variables; every line that print_context keeps is one of
\* the buffer, without its newline.
PrintTypeOK ==
  /\ MatchTypeOK
  /\ opts \in Formats
  /\ printing \in {"no", "lines", "done"}
  /\ i \in 0..(buf_len + 1) /\ cur_match \in 0..Len(matches)
  /\ print_context.line \in 1..(buf_len + 2)
  /\ print_context.last_printed_match \in 0..Len(matches)
  /\ print_context.prev_line_offset \in 0..(buf_len + 1)
  /\ \A k \in DOMAIN print_context.prev_lines :
       LET l == print_context.prev_lines[k] IN
         l # NoLine => l[1] \in 0..buf_len /\ l[2] \in (l[1] - 1)..(buf_len - 1)

\* Lines by number.  There is one more, an empty one, after the last newline.
NumberOf(p) == 1 + Cardinality({n \in newlines : n < p})

LastNumber == NumberOf(buf_len)

\* The lines that a match touches, the one of the place where it ends included.
TouchedBy(m) == NumberOf(m.start)..NumberOf(m.end)

Touched == UNION {TouchedBy(matches[k]) : k \in DOMAIN matches}

\* The lines to be printed besides them.
Around ==
  {n \in 1..LastNumber \ Touched :
     \E t \in Touched : n \in (t - opts.before)..(t + opts.after)}

TextOf(n, last) == {p \in 0..last : NumberOf(p) = n}

\* No match starts where another ends: print_file_matches passes over such a
\* start, and an empty match there it never gets past.
\* And each lies in the buffer, which one moved by line_offset need not.
Apart ==
  /\ \A k \in 1..(Len(matches) - 1) : matches[k].end < matches[k + 1].start
  /\ \A k \in DOMAIN matches : matches[k].end <= buf_len

\* The places of the numbered lines in the output.
Numbered == {k \in DOMAIN output : output[k].sep # "--"}

Chars(text) == {text[k] : k \in DOMAIN text}

InMatches == UNION {matches[k].start..(matches[k].end - 1) : k \in DOMAIN matches}

LinesAsWanted ==
  ~opts.vimgrep =>
    /\ \A j, k \in Numbered : j < k => output[j].number < output[k].number
    /\ {output[k].number : k \in Numbered} = Touched \cup Around
    /\ \A k \in Numbered :
         LET l == output[k] IN
           /\ l.sep = (IF l.number \in Touched THEN ":" ELSE "-")
           /\ l.sep = "-" => Chars(l.text) = TextOf(l.number, buf_len - 1) \ newlines
           /\ l.sep = ":" /\ opts.width = 0 =>
                Chars(l.text) = TextOf(l.number, buf_len - 1)
                                \cap (IF opts.only_matching THEN InMatches ELSE Places)

\* The places of the reported matches, and which of them one is.
Hits == {k \in DOMAIN output : output[k].sep = ":"}

Hit(k) == Cardinality({j \in Hits : j <= k})

EachMatchReported ==
  opts.vimgrep =>
    /\ Cardinality(Hits) = Len(matches)
    /\ \A k \in Hits :
         LET m == matches[Hit(k)] IN
           /\ output[k].number = NumberOf(m.end)
           /\ output[k].text[1] =
                IF NumberOf(m.start) = NumberOf(m.end)
                THEN Cardinality(TextOf(NumberOf(m.start), m.start)) ELSE 0

\* The lines printed are those that a match touches and those around them, each
\* once, in order, marked as what it is and with its text; with only_matching,
\* the characters of the matches and no others.  For vimgrep each match is
\* reported once, in order, at the line it ends in and the column it starts at.
PrintsTheLines ==
  printing = "done" /\ Apart => LinesAsWanted /\ EachMatchReported

\* A separator stands exactly between lines that are not neighbours, when lines
\* around the matches are printed.
SeparatesGroups ==
  printing = "done" /\ Apart /\ ~opts.vimgrep /\ opts.before + opts.after > 0 =>
    /\ \A k \in DOMAIN output :
         output[k].sep = "--" =>
           /\ k > 1 /\ k < Len(output)
           /\ output[k - 1].number + 1 < output[k + 1].number
    /\ \A k \in 2..Len(output) :
         output[k].sep # "--" /\ output[k - 1].sep # "--" =>
           output[k].number = output[k - 1].number + 1
=============================================================================
