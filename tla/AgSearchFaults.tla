--------------------------- MODULE AgSearchFaults ---------------------------
(***************************************************************************)
(* AgSearch when allocations fail: in add_local_result(), which returns -1 *)
(* that search_buf does not look at, and in get_thrd_results().            *)
(***************************************************************************)
EXTENDS AgSearch

VARIABLES
  dropped,   \* history: the matches this search failed to record
  refused    \* history: this search could not allocate its answer

\* Fault: the failure comes after the result is in the list, and is retried.
AddLocalResultRetries(t) ==
  /\ pc[t] = "report"
  /\ Len(thrd_rslt[t]) < Cardinality(Item)
  /\ thrd_rslt' = [thrd_rslt EXCEPT ![t] = Append(@, queue_item[t])]
  /\ UNCHANGED <<queueVars, workers_behavior, workers, stop_workers, result,
                 nresults, dropped, refused>>

\* realloc(), malloc(), calloc() or strdup() fails: the count of results is
\* what it was, and the thread goes on.
AddLocalResultFails(t) ==
  /\ pc[t] = "report"
  /\ Release(t)
  /\ dropped' = dropped \cup {queue_item[t]}
  /\ UNCHANGED <<work_queue, work_queue_mtx, done_adding_files, walk,
                 file_args, outcome, stats, poolVars, refused>>

\* Fault: the lists are kept, to be collected next time.
GetThrdResultsGivesUp ==
  /\ pc[Main] = "collect"
  /\ Places # {}
  /\ pc' = [pc EXCEPT ![Main] = "restart"]
  /\ nresults' = Cardinality(Places)
  /\ refused' = TRUE
  /\ UNCHANGED <<work_queue, work_queue_mtx, done_adding_files, queue_item,
                 walk, file_args, outcome, stats, workers, stop_workers,
                 thrd_rslt, result, workers_behavior, dropped>>

\* malloc() fails: NULL is returned, but the count is stored.
GetThrdResultsFails ==
  /\ pc[Main] = "collect"
  /\ Places # {}
  /\ result' = <<>>
  /\ nresults' = Cardinality(Places)
  /\ pc' = [pc EXCEPT ![Main] = "reset"]
  /\ refused' = TRUE
  /\ UNCHANGED <<work_queue, work_queue_mtx, done_adding_files, queue_item,
                 walk, file_args, outcome, stats, workers, stop_workers,
                 thrd_rslt, workers_behavior, dropped>>

\* A search begins with nothing dropped and nothing refused.
FaultNext ==
  \/ /\ Next
     /\ IF ~InSearch /\ InSearch' THEN dropped' = {} /\ refused' = FALSE
        ELSE UNCHANGED <<dropped, refused>>
  \/ \E t \in Thread : AddLocalResultFails(t)
  \/ GetThrdResultsFails

FaultSpec ==
  /\ Init /\ dropped = {} /\ refused = FALSE
  /\ [][FaultNext]_<<vars, dropped, refused>>
  /\ Fairness

-----------------------------------------------------------------------------
(* Properties                                                               *)

\* A result that cannot be recorded is dropped in silence, but nothing else is
\* lost with it: the answer lists each of the other matches once, and the
\* totals count the dropped ones (search_buf ignores add_local_result).  An
\* answer that cannot be allocated is empty, with a count that is not, and the
\* next one has no part of it.
AnswersAllButDropped ==
  pc[Main] = "idle" =>
    /\ IsInjective(result)
    /\ Range(result) = IF refused THEN {} ELSE Matching(outcome) \ dropped
    /\ nresults + Cardinality(dropped) = Cardinality(Matching(outcome))
    /\ stats.total_file_matches = Cardinality(Matching(outcome))

\* Nor does a failure keep ag_search() from returning.
SearchReturns == InSearch ~> ~InSearch

\* The inductive invariant: that of AgSearch, with the matches that have been
\* dropped; a search that is refused its answer gives none (AgSearchProofs).
FaultInv ==
  /\ IInv /\ QueueInv /\ ListInv /\ WalkInv /\ StatsInv
  /\ KeptInv(dropped) /\ NumberInv(dropped)
  /\ IF refused THEN ~Collecting /\ result = <<>> ELSE AnswerInv(dropped)

=============================================================================
