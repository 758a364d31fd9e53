--------------------------- MODULE SearchService ---------------------------
(***************************************************************************)
(* What a search promises to its caller, with no threads in sight: the     *)
(* answer lists every file of the request that matches, each once and in   *)
(* no particular order, and the totals count what was searched.  Both the  *)
(* library (AgSearch) and the command line program (AgCli) implement it.   *)
(***************************************************************************)
EXTENDS Naturals, FiniteSets, Functions

CONSTANTS Item

VARIABLES
  busy,      \* a search is in progress
  request,   \* [Item -> outcome under the query], "absent" outside the search
  reply,     \* the list of results, a function from places to items
  totals     \* [total_files, total_file_matches]

serviceVars == <<busy, request, reply, totals>>

Request == [Item -> {"absent", "skipped", "nomatch", "match"}]
Matches(r) == {i \in Item : r[i] = "match"}
Reached(r) == {i \in Item : r[i] \in {"nomatch", "match"}}

\* list names the members of S, each exactly once.
Lists(list, S) == IsInjective(list) /\ Range(list) = S

Init ==
  /\ busy = FALSE
  /\ request = [i \in Item |-> "absent"]
  /\ reply = <<>>
  /\ totals = [total_files |-> 0, total_file_matches |-> 0]

Call ==
  /\ ~busy
  /\ busy' = TRUE
  /\ request' \in Request
  /\ reply' = <<>>
  /\ totals' = [total_files |-> 0, total_file_matches |-> 0]

Return ==
  /\ busy
  /\ busy' = FALSE
  /\ UNCHANGED request
  /\ Lists(reply', Matches(request))
  /\ totals' = [total_files |-> Cardinality(Reached(request)),
                total_file_matches |-> Cardinality(Matches(request))]

Next == Call \/ Return

\* What the answers say.
Safety == Init /\ [][Next]_serviceVars

\* The caller may stop searching; a search that began always answers.
Answers == busy ~> ~busy

Spec == Safety /\ Answers
=============================================================================
