--------------------------- MODULE MCIgnoreRules ---------------------------
(***************************************************************************)
(* A directory with a file, a directory, a hidden one, a file with two dots *)
(* in its name, a link, a pipe and "..", and a line of each class.          *)
(***************************************************************************)
EXTENDS IgnoreRules

MCName == {"a", "d", ".h", "f.x.y", "l", "p", ".."}

MCKind ==
  [x \in MCName |-> CASE x \in {"d", ".h", ".."} -> "dir"
                      [] x = "l" -> "link"
                      [] x = "p" -> "pipe"
                      [] OTHER -> "file"]

MCHidden == {".h", ".."}

MCExtension ==
  [x \in MCName |-> CASE x = "f.x.y" -> "x.y"
                      [] x = ".h" -> "h"
                      [] x = ".." -> "."
                      [] OTHER -> ""]

MCGlob == {"*.x.y", "d*", "*/", "?/a"}

MCSuffix ==
  [t \in MCGlob \cup MCName \cup {"/"} |-> IF t = "*.x.y" THEN "x.y" ELSE ""]

MCfnmatch ==
  [g \in MCGlob |-> CASE g = "*.x.y" -> {<<"f.x.y">>}
                      [] g = "d*" -> {<<"d">>}
                      [] g = "*/" -> {<<"d", "/">>, <<".h", "/">>}
                      [] g = "?/a" -> {<<"d", "/", "a">>}]

InOrder == <<"", "*.x.y", "*/", ".", "..", ".h", "/", "?/a", "a", "d", "d*", "f.x.y",
             "h", "l", "p", "x.y">>

MCRank == [t \in {InOrder[k] : k \in DOMAIN InOrder} |->
             CHOOSE k \in DOMAIN InOrder : InOrder[k] = t]

L(lead, text) == [lead |-> lead, text |-> text]

MCLines ==
  {L("", <<"d">>), L("", <<"d", "/">>), L("", <<"d", "/", "a">>),
   L("./", <<"d", "/", "a">>),
   L("", <<"*.x.y">>), L("", <<"d*">>), L("", <<"*/">>), L("!", <<"d*">>),
   L("/", <<"?/a">>), L("#", <<"a">>)}

Default == [search_hidden_files |-> FALSE, follow_symlinks |-> FALSE,
            search_all_files |-> FALSE, path_to_ignore |-> FALSE]

MCOptions ==
  {[Default EXCEPT !.search_hidden_files = TRUE, !.follow_symlinks = TRUE],
   [Default EXCEPT !.search_all_files = TRUE, !.path_to_ignore = TRUE]}
=============================================================================
