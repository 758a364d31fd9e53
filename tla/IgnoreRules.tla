----------------------------- MODULE IgnoreRules -----------------------------
(***************************************************************************)
(* The ignore rules: struct ignores of ag_src/ignore.c, one for the command *)
(* line and one for each directory that the walk is in, filled line by line *)
(* from ignore files, and filename_filter, which asks them about an entry.  *)
(*                                                                         *)
(* A string is a sequence of file names, slashes and patterns; no name is   *)
(* the beginning of another, so that comparing strings compares these.      *)
(* Every directory has the same entries.  filename_filter's ackmate filter  *)
(* is left out.                                                            *)
(***************************************************************************)
EXTENDS Integers, FiniteSetsExt, SequencesExt

CONSTANTS
  Name,          \* the entries of a directory
  Kind,          \* Kind[x] is "file", "dir", "link" or "pipe"
  Hidden,        \* the names that start with a dot
  Extension,     \* what follows the first dot of a name, or ""
  Glob,          \* patterns with fnmatch characters
  Suffix,        \* Suffix[g] is x.y for a pattern *.x.y, or ""
  fnmatch,       \* fnmatch[g] are the strings the pattern matches (libc)
  Rank,          \* the order strcmp puts names, slashes and patterns in
  Lines,         \* the lines of ignore files considered
  Options,       \* the settings considered
  MaxLines,      \* bound: lines in all ignore files together
  MaxDepth       \* bound: directories below the argument

Dirs == {x \in Name : Kind[x] = "dir"}

Token == Name \cup Glob \cup {"/"} \cup {Extension[x] : x \in Name}
              \cup {Suffix[g] : g \in Glob}

\* A line: what it starts with, and the rest.  "" and no rest is an empty line.
Line == [lead : {"", "./", "/", "!", "#"}, text : Seq(Token)]

\* Names with a slash after each, but perhaps the last.
Slashed(text) == \A k \in DOMAIN text : text[k] = "/" <=> k % 2 = 0

ASSUME IgnoreRulesAssumption ==
  /\ "/" \notin Name
  /\ Kind \in [Name -> {"file", "dir", "link", "pipe"}]
  /\ Hidden \subseteq Name
  /\ \A g \in Glob : fnmatch[g] \subseteq Seq(Token)
  /\ Rank \in [Token -> Int]
  /\ \A s, t \in Token : s # t => Rank[s] # Rank[t]
  /\ Lines \subseteq Line
  /\ \A line \in Lines :
       (\A k \in DOMAIN line.text : line.text[k] \notin Glob) => Slashed(line.text)
  /\ Options \subseteq [search_hidden_files : BOOLEAN, follow_symlinks : BOOLEAN,
                        search_all_files : BOOLEAN, path_to_ignore : BOOLEAN]

VARIABLES
  opts,       \* the settings
  argument,   \* the kind of path argument: "dot", "relative" or "absolute"
  dirs,       \* the directories below it that the walk is in
  tables,     \* root_ignores, and a struct ignores for each directory
  loading,    \* the ignore files of the last one are being read
  written     \* history: the lines read for each table

vars == <<opts, argument, dirs, tables, loading, written>>

-----------------------------------------------------------------------------
(* Strings                                                                  *)

\* strcmp(s, t) < 0
Less(s, t) ==
  \/ IsStrictPrefix(s, t)
  \/ \E k \in 1..Min({Len(s), Len(t)}) :
       /\ \A j \in 1..(k - 1) : s[j] = t[j]
       /\ Rank[s[k]] < Rank[t[k]]

Join(names) ==
  [k \in 1..Max({0, 2 * Len(names) - 1}) |->
     IF k % 2 = 1 THEN names[(k + 1) \div 2] ELSE "/"]

\* binary_search: whether the needle is found, from a start up to an end.
binary_search(needle, haystack) ==
  LET n == Len(haystack)
      found[w \in {w \in (0..n) \X (0..n) : w[1] <= w[2]}] ==
        LET mid == w[1] + (w[2] - w[1]) \div 2 IN
          /\ w[1] # w[2]
          /\ \/ needle = haystack[mid + 1]
             \/ Less(needle, haystack[mid + 1]) /\ found[<<w[1], mid>>]
             \/ Less(haystack[mid + 1], needle) /\ found[<<mid + 1, w[2]>>]
  IN  found[<<0, n>>]

\* The first place strstr finds a name at is one of whole components.
SomewhereIn(name, path) ==
  LET places == {k \in 1..(Len(path) - Len(name) + 1) :
                   SubSeq(path, k, k + Len(name) - 1) = name}
      after == Min(places) + Len(name)
  IN  /\ places # {}
      /\ Min(places) = 1 \/ path[Min(places) - 1] = "/"
      /\ after > Len(path) \/ path[after] = "/"

-----------------------------------------------------------------------------
(* Filling a table                                                          *)

Class == {"extensions", "names", "slash_names", "regexes", "invert_regexes",
          "slash_regexes"}

Wild(line) == line.lead = "!" \/ \E k \in DOMAIN line.text : line.text[k] \in Glob

IsExtension(line) ==
  /\ Wild(line) /\ line.lead = "" /\ Len(line.text) = 1
  /\ Suffix[line.text[1]] # ""

\* Of "./" the dot is dropped.
class(line) ==
  CASE IsExtension(line) -> "extensions"
    [] Wild(line) /\ line.lead \in {"/", "./"} -> "slash_regexes"
    [] Wild(line) /\ line.lead = "!" -> "invert_regexes"
    [] Wild(line) /\ line.lead = "" /\ ~IsExtension(line) -> "regexes"
    [] ~Wild(line) /\ line.lead \in {"/", "./"} -> "slash_names"
    [] OTHER -> "names"

pattern(line) == IF IsExtension(line) THEN <<Suffix[line.text[1]]>> ELSE line.text

\* Fault: the new pattern goes last.
InsertedLast(patterns, p) == Append(patterns, p)

\* The new pattern goes after the last one that is smaller.
Inserted(patterns, p) ==
  LET at == Max({0} \cup {k \in DOMAIN patterns : Less(patterns[k], p)})
  IN  InsertAt(patterns, at + 1, p)

\* Empty lines and comments add nothing.
Skipped(line) == line.lead = "#" \/ (line.lead = "" /\ line.text = <<>>)

add_ignore_pattern(ig, line) ==
  IF Skipped(line) THEN ig
  ELSE [ig EXCEPT ![class(line)] = Inserted(@, pattern(line))]

\* Fault: rules that start with a slash do not count.
IsEmptyButSlashed(ig) ==
  \A c \in {"extensions", "names", "regexes"} : ig[c] = <<>>

\* Inverted rules do not count: they are exceptions from the others.
is_empty(ig) == \A c \in Class \ {"invert_regexes"} : ig[c] = <<>>

\* Fault: the path of the parent is left out.
NameOnly(parent, dirname) == dirname

AbsPath(parent, dirname) ==
  IF parent # 0 /\ tables[parent].abs_path # <<>>
  THEN tables[parent].abs_path \o <<"/">> \o dirname
  ELSE dirname

\* A parent that has rules for nothing is passed over, except root_ignores.
init_ignore(parent, dirname) ==
  LET skips == parent # 0 /\ is_empty(tables[parent]) /\ tables[parent].parent # 0
  IN  [extensions |-> <<>>, names |-> <<>>, slash_names |-> <<>>,
       regexes |-> <<>>, invert_regexes |-> <<>>, slash_regexes |-> <<>>,
       parent |-> IF skips THEN tables[parent].parent ELSE parent,
       abs_path |-> AbsPath(parent, dirname)]

-----------------------------------------------------------------------------
(* Asking the tables                                                        *)

\* path_start, without a dot it starts with: the part of the directory's path
\* that is not in base_path, the absolute path of the argument.  Nothing of "."
\* or "d" is in that.
PathStart ==
  CASE argument = "absolute" ->
         IF dirs # <<>> /\ dirs[1] \in Hidden
         THEN <<Extension[dirs[1]]>> \o Tail(Join(dirs)) ELSE Join(dirs)
    [] argument = "dot" -> IF dirs = <<>> THEN <<>> ELSE <<"/">> \o Join(dirs)
    [] argument = "relative" -> Join(<<"d">> \o dirs)

path_ignore_search(ig, filename) ==
  LET temp == PathStart \o <<"/">> \o filename
      below == SubSeq(temp, Len(ig.abs_path) + 1, Len(temp))
      slash_filename == IF below # <<>> /\ below[1] = "/" THEN Tail(below) ELSE below
      AnyOf(patterns, string) ==
        \E k \in DOMAIN patterns : string \in fnmatch[patterns[k][1]]
  IN  \/ binary_search(filename, ig.names)
      \/ /\ IsPrefix(ig.abs_path, temp)
         /\ \/ binary_search(slash_filename, ig.names)
            \/ binary_search(slash_filename, ig.slash_names)
            \/ \E k \in DOMAIN ig.names : SomewhereIn(ig.names[k], slash_filename)
            \/ AnyOf(ig.slash_regexes, slash_filename)
      \/ ~AnyOf(ig.invert_regexes, filename) /\ AnyOf(ig.regexes, filename)

\* A directory is asked about with a slash, too.
Rejects(ig, x) ==
  \/ Extension[x] # "" /\ binary_search(<<Extension[x]>>, ig.extensions)
  \/ path_ignore_search(ig, <<x>>)
  \/ x \in Dirs /\ path_ignore_search(ig, <<x, "/">>)

\* The tables from the last one up, by their parents.
Chain ==
  LET up[k \in 0..Len(tables)] == IF k = 0 THEN {} ELSE {k} \cup up[tables[k].parent]
  IN  up[Len(tables)]

filename_filter(x) ==
  /\ opts.search_hidden_files \/ x \notin Hidden
  /\ x \notin {".", ".."}
  /\ opts.follow_symlinks \/ Kind[x] # "link"
  /\ Kind[x] # "pipe"
  /\ \/ opts.search_all_files /\ ~opts.path_to_ignore
     \/ \A k \in Chain : ~Rejects(tables[k], x)

-----------------------------------------------------------------------------
\* main() and ag_init(): root_ignores.
Init ==
  /\ opts \in Options
  /\ argument = "dot"
  /\ dirs = <<>>
  /\ tables = <<[extensions |-> <<>>, names |-> <<>>, slash_names |-> <<>>,
                 regexes |-> <<>>, invert_regexes |-> <<>>, slash_regexes |-> <<>>,
                 parent |-> 0, abs_path |-> <<>>]>>
  /\ loading = TRUE
  /\ written = <<{}>>

Top == Len(tables)

\* A line of an ignore file, or --ignore.
LoadLine ==
  /\ loading
  /\ MapThenSumSet(LAMBDA k : Cardinality(written[k]), DOMAIN written) < MaxLines
  /\ \E line \in Lines \ written[Top] :
       /\ tables' = [tables EXCEPT ![Top] = add_ignore_pattern(@, line)]
       /\ written' = [written EXCEPT ![Top] = @ \cup {line}]
  /\ UNCHANGED <<opts, argument, dirs, loading>>

\* search_dir for the next argument, with a table under root_ignores.
SearchArgument ==
  /\ Top = 1
  /\ argument' \in {"dot", "relative", "absolute"}
  /\ tables' = Append(tables, init_ignore(1, <<>>))
  /\ written' = Append(written, {})
  /\ loading' = TRUE
  /\ UNCHANGED <<opts, dirs>>

\* All lines are read; search_dir for a directory that is let through.
EnterDir ==
  /\ Top > 1 /\ Len(dirs) < MaxDepth
  /\ \E x \in Dirs :
       /\ filename_filter(x)
       /\ dirs' = Append(dirs, x)
       /\ tables' = Append(tables, init_ignore(Top, <<x>>))
  /\ written' = Append(written, {})
  /\ loading' = TRUE
  /\ UNCHANGED <<opts, argument>>

\* All lines are read, and all entries gone through: cleanup_ignore.
LeaveDir ==
  /\ Top > 1
  /\ dirs' = IF dirs = <<>> THEN dirs ELSE Front(dirs)
  /\ tables' = Front(tables)
  /\ written' = Front(written)
  /\ loading' = FALSE
  /\ UNCHANGED <<opts, argument>>

Next == LoadLine \/ SearchArgument \/ EnterDir \/ LeaveDir

Spec == Init /\ [][Next]_vars

-----------------------------------------------------------------------------
(* Properties                                                               *)

Ignored(x) == \E k \in Chain : Rejects(tables[k], x)

\* The types of the variables: a table for each directory of the walk, chained
\* upwards, and in it the patterns of the lines read for it, sorted, so that
\* binary_search finds each of them.
TypeOK ==
  /\ opts \in Options /\ argument \in {"dot", "relative", "absolute"}
  /\ dirs \in Seq(Dirs) /\ loading \in BOOLEAN
  /\ Len(tables) \in {1, 2 + Len(dirs)} /\ Len(written) = Len(tables)
  /\ \A k \in DOMAIN tables :
       /\ tables[k].parent \in 0..(k - 1)
       /\ \A c \in Class :
            LET lines == {l \in written[k] : ~Skipped(l) /\ class(l) = c} IN
              /\ \A j \in 1..(Len(tables[k][c]) - 1) :
                   ~Less(tables[k][c][j + 1], tables[k][c][j])
              /\ {tables[k][c][j] : j \in DOMAIN tables[k][c]} = {pattern(l) : l \in lines}
              /\ \A l \in lines : binary_search(pattern(l), tables[k][c])

\* To pass over tables without rules changes nothing: an entry is ignored when
\* any of the tables up to root_ignores rejects it, those with nothing but
\* inverted rules, which is_empty takes for empty, included.
EmptyTablesSkipped ==
  Top > 1 => \A x \in Name : Ignored(x) <=> \E k \in DOMAIN tables : Rejects(tables[k], x)

\* The directories from that of a table, and an entry of the last of them.
PathFrom(t, x) == SubSeq(dirs, Max({1, t - 1}), Len(dirs)) \o <<x>>

\* Where paths are seen to be below the directory of a table: for an absolute
\* argument everywhere, for "." in its own table and in root_ignores only.
Located(t) == argument = "absolute" \/ t <= 2

EndsInSlash(line) == line.text[Len(line.text)] = "/"

Components(line) ==
  [k \in 1..((Len(line.text) + 1) \div 2) |-> line.text[2 * k - 1]]

\* A name is rejected wherever it is, one that starts with a slash in the
\* directory of its ignore file; one that ends with a slash is a directory's.
NameRejects(t, line, x) ==
  LET parts == Components(line)
      path == PathFrom(t, x)
      from(k) == SubSeq(path, k, k + Len(parts) - 1) = parts
  IN  /\ EndsInSlash(line) => x \in Dirs
      /\ IF line.lead # "" THEN Located(t) /\ path = parts
         ELSE \/ parts = <<x>>
              \/ Located(t) /\ \E k \in 1..(Len(path) - Len(parts) + 1) :
                                 /\ from(k)
                                 /\ EndsInSlash(line) => k + Len(parts) - 1 = Len(path)

\* What a pattern is compared with: for a directory, with a slash, too.
Forms(string, x) == {string} \cup (IF x \in Dirs THEN {string \o <<"/">>} ELSE {})

\* A pattern is for names, unless they are excepted in the same directory, or for
\* paths, if it starts with a slash.
PatternRejects(t, line, x) ==
  CASE class(line) = "extensions" -> Extension[x] = Suffix[line.text[1]]
    [] class(line) = "slash_regexes" ->
         Located(t) /\ Forms(Join(PathFrom(t, x)), x) \cap fnmatch[line.text[1]] # {}
    [] class(line) = "regexes" ->
         \E form \in Forms(<<x>>, x) \cap fnmatch[line.text[1]] :
           \A l \in written[t] : l.lead = "!" => form \notin fnmatch[l.text[1]]
    [] OTHER -> FALSE

\* What is ignored is what the lines of the ignore files of the directories from
\* the argument down, and of the command line, say: those of directories left
\* say nothing, in whatever order the lines come, and nothing is lost by the
\* search in sorted tables.  Not for a relative argument, or below a directory
\* that starts with a dot: there paths are taken for others.
RejectsAsWritten ==
  /\ argument # "relative" /\ Top > 1
  /\ ~(argument = "absolute" /\ dirs # <<>> /\ dirs[1] \in Hidden)
  /\ ~(opts.search_all_files /\ ~opts.path_to_ignore)
  => \A x \in Name :
       Ignored(x) <=> \E t \in DOMAIN written : \E line \in written[t] :
                        /\ ~Skipped(line)
                        /\ IF Wild(line) THEN PatternRejects(t, line, x)
                           ELSE NameRejects(t, line, x)
=============================================================================
