------------------------------ MODULE AgSearch ------------------------------
(***************************************************************************)
(* ag_search() of libag.c over its pool of workers: starting the threads,  *)
(* one search after another through the two barriers, and stopping the     *)
(* threads.  Main is the one client thread (ag_search is documented as     *)
(* not thread-safe; SearchTs models several).                              *)
(*                                                                         *)
(* A barrier of workers_len + 1 is modelled by the threads blocked in it   *)
(* and one step in which the last arrival lets them all go.  Between       *)
(* worker_done and results_done a worker does nothing, so it goes straight *)
(* from the one to the other.                                              *)
(***************************************************************************)
EXTENDS WorkQueue, Functions

CONSTANT Behaviors   \* the workers behaviours considered

\* "start" stands for LIBAG_START_WORKERS and LIBAG_MANUAL_WORKERS: the
\* client (or ag_init and ag_finish for it) starts and stops the workers.
\* "onsearch" is LIBAG_ONSEARCH_WORKERS.
ASSUME BehaviorAssumption == Behaviors \subseteq {"start", "onsearch"}

VARIABLES
  workers_behavior,   \* config.workers_behavior, settled by ag_init_config()
  workers,        \* the entries of workers[0..workers_len), {} for NULL
  stop_workers,
  thrd_rslt,      \* per-thread results; Main has the slot NUM_WORKERS
  result,         \* what ag_search() returns, places to items, <<>> for NULL
  nresults        \* *nresults

poolVars ==
  <<workers_behavior, workers, stop_workers, thrd_rslt, result, nresults>>

vars == <<queueVars, poolVars>>

EmptyResults == [t \in Thread |-> <<>>]

\* Fault: the client is not counted.
BarrierCountOfWorkers == Cardinality(workers)

\* workers_len + 1, given to both pthread_barrier_init() calls.
BarrierCount == Cardinality(workers) + 1

Blocked(barrier) == {t \in Thread : pc[t] = barrier}

Init ==
  /\ work_queue = <<>>
  /\ work_queue_mtx = None
  /\ done_adding_files = FALSE
  /\ pc = [[t \in Thread |-> "absent"] EXCEPT ![Main] = "idle"]
  /\ queue_item = [t \in Thread |-> None]
  /\ walk = {}
  /\ file_args = {}
  /\ outcome = NoSearch
  /\ stats = ZeroStats
  /\ workers_behavior \in Behaviors
  /\ workers = {}
  /\ stop_workers = FALSE
  /\ thrd_rslt = EmptyResults
  /\ result = <<>>
  /\ nresults = 0

-----------------------------------------------------------------------------
(* ag_start_workers                                                         *)

\* Fault: the flag is left as the last stop has set it.
StartWorkersKeepsDone ==
  /\ workers = {}
  /\ workers' = Worker
  /\ work_queue' = <<>>
  /\ stop_workers' = FALSE
  /\ work_queue_mtx' = None
  /\ thrd_rslt' = EmptyResults
  /\ pc' = [pc EXCEPT ![Main] = "spawn"]
  /\ UNCHANGED done_adding_files

\* The flags and the queue are reset before any thread exists.
StartWorkers ==
  /\ workers = {}
  /\ workers' = Worker
  /\ work_queue' = <<>>
  /\ done_adding_files' = FALSE
  /\ stop_workers' = FALSE
  /\ work_queue_mtx' = None
  /\ thrd_rslt' = EmptyResults
  /\ pc' = [pc EXCEPT ![Main] = "spawn"]

ClientStart ==
  /\ pc[Main] = "idle"
  /\ workers_behavior = "start"
  /\ StartWorkers
  /\ UNCHANGED <<queue_item, walk, file_args, outcome, stats, result, nresults,
                 workers_behavior>>

\* pthread_create(): the threads made so far already run.
Spawn(w) ==
  /\ pc[Main] = "spawn"
  /\ pc[w] = "absent"
  /\ pc' = [pc EXCEPT ![w] = "lock"]
  /\ UNCHANGED <<work_queue, work_queue_mtx, done_adding_files, queue_item,
                 walk, file_args, outcome, stats, poolVars>>

\* ag_start_workers() returns 0, to the client or to ag_search().
StartReturns ==
  /\ pc[Main] = "spawn"
  /\ \A w \in Worker : pc[w] # "absent"
  /\ pc' = [pc EXCEPT ![Main] =
              IF workers_behavior = "onsearch" THEN "setup" ELSE "idle"]
  /\ UNCHANGED <<work_queue, work_queue_mtx, done_adding_files, queue_item,
                 walk, file_args, outcome, stats, poolVars>>

-----------------------------------------------------------------------------
(* ag_search, from the call to the walk                                     *)

\* The caller's query and paths decide which files the walk will queue,
\* which arguments are files, and what searching each of them yields.
NewRequest ==
  \E o \in [Item -> Outcome] : \E args \in SUBSET Present(o) :
    /\ outcome' = o
    /\ file_args' = args
    /\ walk' = Present(o) \ args

\* The workers run: the early checks pass at once.
CallSearch ==
  /\ pc[Main] = "idle"
  /\ workers # {}
  /\ NewRequest
  /\ result' = <<>>
  /\ nresults' = 0
  /\ pc' = [pc EXCEPT ![Main] = "setup"]
  /\ UNCHANGED <<work_queue, work_queue_mtx, done_adding_files, queue_item,
                 stats, workers, stop_workers, thrd_rslt, workers_behavior>>

\* No workers, and the library is to start them for this search.
CallSearchAndStart ==
  /\ pc[Main] = "idle"
  /\ workers_behavior = "onsearch"
  /\ NewRequest
  /\ result' = <<>>
  /\ nresults' = 0
  /\ StartWorkers
  /\ UNCHANGED <<queue_item, stats, workers_behavior>>

\* memset(&stats) without stats_mtx, setup_search(), prepare_paths().
Setup ==
  /\ pc[Main] = "setup"
  /\ stats' = ZeroStats
  /\ pc' = [pc EXCEPT ![Main] = "walk"]
  /\ UNCHANGED <<work_queue, work_queue_mtx, done_adding_files, queue_item,
                 walk, file_args, outcome, poolVars>>

-----------------------------------------------------------------------------
(* add_local_result: the second half of search_buf for the library          *)

AddLocalResult(t) ==
  /\ pc[t] = "report"
  /\ thrd_rslt' = [thrd_rslt EXCEPT ![t] = Append(@, queue_item[t])]
  /\ Release(t)
  /\ UNCHANGED <<work_queue, work_queue_mtx, done_adding_files, walk,
                 file_args, outcome, stats, workers, stop_workers, result,
                 nresults, workers_behavior>>

-----------------------------------------------------------------------------
(* A worker that has seen done_adding_files                                 *)

\* Fault: stop_workers is not looked at.
LeaveLoopIgnoresStop(w) ==
  /\ pc[w] = "done"
  /\ pc' = [pc EXCEPT ![w] = "worker_done"]
  /\ UNCHANGED <<work_queue, work_queue_mtx, done_adding_files, queue_item,
                 walk, file_args, outcome, stats, poolVars>>

\* stop_workers is read after the mutex has been released.
LeaveLoop(w) ==
  /\ pc[w] = "done"
  /\ pc' = [pc EXCEPT ![w] = IF stop_workers THEN "exited" ELSE "worker_done"]
  /\ UNCHANGED <<work_queue, work_queue_mtx, done_adding_files, queue_item,
                 walk, file_args, outcome, stats, poolVars>>

-----------------------------------------------------------------------------
(* ag_search, from the end of the walk to its return                        *)

\* Fault: the results are collected without waiting for the workers.
EndWalkWithoutBarrier ==
  /\ FinishAdding("collect")
  /\ UNCHANGED <<workers, stop_workers, thrd_rslt, result, nresults,
                 workers_behavior>>

EndWalk ==
  /\ FinishAdding("worker_done")
  /\ UNCHANGED <<workers, stop_workers, thrd_rslt, result, nresults,
                 workers_behavior>>

WorkersDone ==
  /\ Cardinality(Blocked("worker_done")) = BarrierCount
  /\ pc' = [t \in Thread |->
              IF pc[t] # "worker_done" THEN pc[t]
              ELSE IF t = Main THEN "collect" ELSE "results_done"]
  /\ UNCHANGED <<work_queue, work_queue_mtx, done_adding_files, queue_item,
                 walk, file_args, outcome, stats, poolVars>>

\* The places of the merged list: a slot and a position in it.
Places == UNION {{t} \X (1..Len(thrd_rslt[t])) : t \in Thread}

\* get_thrd_results(): no lock is taken.
GetThrdResults ==
  /\ pc[Main] = "collect"
  /\ result' = [p \in Places |-> thrd_rslt[p[1]][p[2]]]
  /\ nresults' = Cardinality(Places)
  /\ pc' = [pc EXCEPT ![Main] = "reset"]
  /\ UNCHANGED <<work_queue, work_queue_mtx, done_adding_files, queue_item,
                 walk, file_args, outcome, stats, workers, stop_workers,
                 thrd_rslt, workers_behavior>>

\* Fault: the lists are kept for the next search.
ResetLocalResultsKept ==
  /\ pc[Main] = "reset"
  /\ pc' = [pc EXCEPT ![Main] = "restart"]
  /\ UNCHANGED <<work_queue, work_queue_mtx, done_adding_files, queue_item,
                 walk, file_args, outcome, stats, poolVars>>

\* reset_local_results(1): frees every list and allocates new ones.
ResetLocalResults ==
  /\ pc[Main] = "reset"
  /\ thrd_rslt' = EmptyResults
  /\ pc' = [pc EXCEPT ![Main] = "restart"]
  /\ UNCHANGED <<work_queue, work_queue_mtx, done_adding_files, queue_item,
                 walk, file_args, outcome, stats, workers, stop_workers,
                 result, nresults, workers_behavior>>

\* Fault: done_adding_files stays set.
RestartKeepsDone ==
  /\ pc[Main] = "restart"
  /\ pc' = [pc EXCEPT ![Main] = "results_done"]
  /\ UNCHANGED <<work_queue, work_queue_mtx, done_adding_files, queue_item,
                 walk, file_args, outcome, stats, poolVars>>

\* done_adding_files = FALSE without the mutex, then the second barrier.
Restart ==
  /\ pc[Main] = "restart"
  /\ done_adding_files' = FALSE
  /\ pc' = [pc EXCEPT ![Main] = "results_done"]
  /\ UNCHANGED <<work_queue, work_queue_mtx, queue_item, walk, file_args,
                 outcome, stats, workers, stop_workers, thrd_rslt, result,
                 nresults, workers_behavior>>

ResultsDone ==
  /\ Cardinality(Blocked("results_done")) = BarrierCount
  /\ pc' = [t \in Thread |->
              IF pc[t] # "results_done" THEN pc[t]
              ELSE IF t = Main THEN "cleanup" ELSE "lock"]
  /\ UNCHANGED <<work_queue, work_queue_mtx, done_adding_files, queue_item,
                 walk, file_args, outcome, stats, poolVars>>

\* The query and the paths are freed; the workers keep running.
ReturnResult ==
  /\ pc[Main] = "cleanup"
  /\ workers_behavior # "onsearch"
  /\ pc' = [pc EXCEPT ![Main] = "idle"]
  /\ UNCHANGED <<work_queue, work_queue_mtx, done_adding_files, queue_item,
                 walk, file_args, outcome, stats, poolVars>>

-----------------------------------------------------------------------------
(* ag_stop_workers                                                          *)

LockToStop(from) ==
  /\ pc[Main] = from
  /\ workers # {}
  /\ work_queue_mtx = None
  /\ work_queue_mtx' = Main
  /\ pc' = [pc EXCEPT ![Main] = "stop"]
  /\ UNCHANGED <<work_queue, done_adding_files, queue_item, walk, file_args,
                 outcome, stats, poolVars>>

\* Called by the client or by ag_finish().
ClientStop == LockToStop("idle")

\* Called by ag_search() before it returns.
StopOnReturn == workers_behavior = "onsearch" /\ LockToStop("cleanup")

\* Fault: the workers that wait are not woken.
TellToStopQuietly ==
  /\ pc[Main] = "stop"
  /\ done_adding_files' = TRUE
  /\ stop_workers' = TRUE
  /\ work_queue_mtx' = None
  /\ pc' = [pc EXCEPT ![Main] = "join"]
  /\ UNCHANGED <<work_queue, queue_item, walk, file_args, outcome, stats,
                 workers, thrd_rslt, result, nresults, workers_behavior>>

TellToStop ==
  /\ pc[Main] = "stop"
  /\ done_adding_files' = TRUE
  /\ stop_workers' = TRUE
  /\ work_queue_mtx' = None
  /\ pc' = [Wake(Waiting) EXCEPT ![Main] = "join"]
  /\ UNCHANGED <<work_queue, queue_item, walk, file_args, outcome, stats,
                 workers, thrd_rslt, result, nresults, workers_behavior>>

\* Every pthread_join() has returned; free everything, workers = NULL.
JoinWorkers ==
  /\ pc[Main] = "join"
  /\ \A w \in workers : pc[w] = "exited"
  /\ pc' = [t \in Thread |-> IF t = Main THEN "idle" ELSE "absent"]
  /\ thrd_rslt' = EmptyResults
  /\ workers' = {}
  /\ UNCHANGED <<work_queue, work_queue_mtx, done_adding_files, queue_item,
                 walk, file_args, outcome, stats, stop_workers, result,
                 nresults, workers_behavior>>

-----------------------------------------------------------------------------
OnPool(queueStep) == queueStep /\ UNCHANGED poolVars

WorkerStep(w) ==
  \/ OnPool(WorkerLoop(w) \/ SearchStep(w))
  \/ AddLocalResult(w)
  \/ LeaveLoop(w)

\* The steps ag_search(), ag_start_workers() and ag_stop_workers() take once
\* they have been called.
MainStep ==
  \/ \E w \in Worker : Spawn(w)
  \/ StartReturns
  \/ Setup
  \/ OnPool(Walk \/ SearchStep(Main))
  \/ AddLocalResult(Main)
  \/ EndWalk
  \/ WorkersDone
  \/ GetThrdResults
  \/ ResetLocalResults
  \/ Restart
  \/ ResultsDone
  \/ ReturnResult
  \/ StopOnReturn
  \/ TellToStop
  \/ JoinWorkers

\* What the client may ask for when it is in no call.
ClientCall ==
  \/ ClientStart
  \/ CallSearch
  \/ CallSearchAndStart
  \/ ClientStop

Next ==
  \/ \E w \in Worker : WorkerStep(w) \/ OnPool(SpuriousWakeup(w))
  \/ MainStep
  \/ ClientCall

\* Every thread that can run does.  A worker that keeps waking up for nothing
\* may take and release the mutex for ever, so a thread that wants it gets it
\* only under strong fairness.  The client owes nothing.
Fairness ==
  /\ WF_vars(MainStep)
  /\ SF_vars(OnPool(Walk))
  /\ SF_vars(StopOnReturn)
  /\ \A w \in Worker : WF_vars(WorkerStep(w)) /\ SF_vars(OnPool(LockQueue(w)))

Spec == Init /\ [][Next]_vars /\ Fairness

-----------------------------------------------------------------------------
(* Properties                                                               *)

WorkerPC == {"absent", "lock", "test", "waiting", "woken", "search", "report",
             "done", "worker_done", "results_done", "exited"}

MainPC == {"idle", "spawn", "setup", "walk", "enqueue", "search", "report",
           "finish", "worker_done", "collect", "reset", "restart",
           "results_done", "cleanup", "stop", "join"}

\* Main is inside ag_search().
InSearch ==
  IF workers_behavior = "onsearch"
  THEN pc[Main] # "idle"
  ELSE pc[Main] \notin {"idle", "spawn", "stop", "join"}

\* The types of the variables of the queue and of the pool.
TypeOK ==
  /\ work_queue \in Seq(Item)
  /\ work_queue_mtx \in Thread \cup {None}
  /\ done_adding_files \in BOOLEAN
  /\ pc \in [Thread -> WorkerPC \cup MainPC]
  /\ pc[Main] \in MainPC /\ \A w \in Worker : pc[w] \in WorkerPC
  /\ queue_item \in [Thread -> Item \cup {None}]
  /\ \A t \in Thread : pc[t] \in {"search", "report", "enqueue"}
                         <=> queue_item[t] \in Item
  /\ walk \in SUBSET Item
  /\ file_args \in SUBSET Item
  /\ outcome \in [Item -> Outcome]
  /\ stats \in [total_files : Nat, total_file_matches : Nat]
  /\ workers_behavior \in Behaviors
  /\ workers \in {{}, Worker}
  /\ stop_workers \in BOOLEAN
  /\ thrd_rslt \in [Thread -> Seq(Item)]
  /\ nresults \in Nat

\* get_thrd_results() reads and reset_local_results() frees every thread's
\* list without a lock, so at that point every worker must be parked between
\* the two barriers (ag_search, libag.c).
WorkersParked ==
  pc[Main] \in {"collect", "reset", "restart"} =>
    \A w \in Worker : pc[w] = "results_done"

\* While the client is outside ag_search(), and when ag_search() clears stats
\* without stats_mtx, no thread holds a file, no file is queued and no list
\* holds a result of the search before (ag_get_stats and ag_search, libag.c).
Quiescent ==
  pc[Main] \in {"idle", "spawn", "setup", "cleanup", "stop", "join"} =>
    /\ work_queue = <<>>
    /\ \A w \in Worker : queue_item[w] = None
    /\ thrd_rslt = EmptyResults

Positions(i, seq) == {k \in DOMAIN seq : seq[k] = i}

\* Every place a file of the search can be in: still to be walked to, queued,
\* held by a thread, or listed in a thread's results.
Whereabouts(i) ==
  [walk  |-> {i} \cap (walk \cup file_args),
   queue |-> Positions(i, work_queue),
   held  |-> {t \in Thread : queue_item[t] = i},
   slots |-> {p \in Places : thrd_rslt[p[1]][p[2]] = i}]

\* Until the results are collected a file that matches is in exactly one
\* place: no hand-over between the walk, the queue, the threads and the lists
\* loses it or does it twice (search_dir, search_file_worker, search_buf).
MatchNeitherLostNorDoubled ==
  pc[Main] \in {"walk", "enqueue", "search", "report", "finish",
                 "worker_done", "collect"} =>
    \A i \in Matching(outcome) :
      LET where == Whereabouts(i) IN
        Cardinality(where.walk) + Cardinality(where.queue)
          + Cardinality(where.held) + Cardinality(where.slots) = 1

\* done_adding_files is cleared without the mutex and stop_workers is read
\* without it; neither changes under a thread that may be about to look
\* (ag_search libag.c:785, search_file_worker search.c:463).
FlagsChangeUnseen ==
  [][ /\ done_adding_files /\ ~done_adding_files' =>
           \A w \in Worker : pc[w] \in {"absent", "results_done"}
      /\ stop_workers # stop_workers' =>
           \A w \in Worker : pc[w] # "done" ]_vars

\* ag_search() implements the service: each of its answers lists every file
\* that matches exactly once, with totals to match, and it always answers.
Service == INSTANCE SearchService WITH
  busy    <- InSearch,
  request <- outcome,
  reply   <- IF InSearch THEN <<>> ELSE result,
  totals  <- IF InSearch THEN ZeroStats ELSE stats

ImplementsService == Service!Spec

\* ag_stop_workers() joins every worker, wherever it finds them.
StopReturns == pc[Main] = "stop" ~> pc[Main] = "idle"

-----------------------------------------------------------------------------
(* The inductive invariant behind WorkersParked, Quiescent and              *)
(* FlagsChangeUnseen, by parts (AgSearchProofs).                            *)

\* The mutex is held exactly by the thread inside a critical section.
MutexInv ==
  /\ \A w \in Worker : work_queue_mtx = w <=> pc[w] = "test"
  /\ work_queue_mtx = Main <=> pc[Main] \in {"enqueue", "finish", "stop"}

\* The threads that exist are those of workers.
PoolInv ==
  /\ pc[Main] \notin {"idle", "spawn"} =>
       workers = Worker /\ \A w \in Worker : pc[w] # "absent"
  /\ pc[Main] = "spawn" => workers = Worker
  /\ pc[Main] = "idle" =>
       \A w \in Worker : pc[w] = "absent" <=> workers = {}
  /\ pc[Main] = "idle" /\ workers_behavior = "onsearch" => workers = {}

\* What the flags say of where Main is.
FlagInv ==
  /\ workers # {} =>
       (done_adding_files <=>
          pc[Main] \in {"worker_done", "collect", "reset", "restart", "join"})
  /\ workers # {} => (stop_workers <=> pc[Main] = "join")

\* Where a worker is says where Main is: a worker that has seen
\* done_adding_files finds the queue empty and Main at the same barrier, or
\* joining.
PhaseInv ==
  /\ \A w \in Worker :
       /\ pc[w] \in {"done", "worker_done"} =>
            pc[Main] \in {"worker_done", "join"}
       /\ pc[w] = "worker_done" => pc[Main] = "worker_done"
       /\ pc[w] = "exited" => pc[Main] = "join"
       /\ pc[w] = "results_done" <=>
            pc[Main] \in {"collect", "reset", "restart", "results_done"}
       /\ pc[w] \in {"done", "worker_done", "results_done"} => work_queue = <<>>

\* Once reset, the lists stay empty until the next search.
ResetInv ==
  pc[Main] \in {"restart", "results_done"} => thrd_rslt = EmptyResults

IInv == /\ TypeOK /\ MutexInv /\ PoolInv /\ FlagInv /\ PhaseInv
        /\ Quiescent /\ ResetInv

-----------------------------------------------------------------------------
(* What has to be added for MatchNeitherLostNorDoubled and for the answers  *)
(* of ag_search() (AgSearchProofs).                                         *)

Listed == UNION {Range(thrd_rslt[t]) : t \in Thread}

\* A search has been called and its walk has not begun.
Called ==
  \/ pc[Main] = "setup"
  \/ pc[Main] = "spawn" /\ workers_behavior = "onsearch"

\* A search has been called and its results are not collected.
Collecting ==
  Called \/ pc[Main] \in {"walk", "enqueue", "search", "report", "finish",
                          "worker_done", "collect"}

\* No file is listed twice, or both listed and still to be dealt with.
ListInv ==
  /\ \A t, u \in Thread :
       \A j \in DOMAIN thrd_rslt[t], k \in DOMAIN thrd_rslt[u] :
         thrd_rslt[t][j] = thrd_rslt[u][k] => t = u /\ j = k
  /\ Listed \cap InHand = {}

\* The walk has all of its files to queue when it begins, and none at its end.
WalkInv ==
  /\ Called => walk \cup file_args = Present(outcome)
  /\ ~Called /\ pc[Main] \notin {"walk", "enqueue", "search", "report"} =>
       walk = {} /\ file_args = {}

\* Every match but the lost ones is listed or still to be dealt with, and
\* nothing else is listed.
KeptInv(lost) ==
  /\ lost \subseteq Matching(outcome)
  /\ lost \cap (InHand \cup Listed) = {}
  /\ Collecting => Matching(outcome) \subseteq lost \cup InHand \cup Listed
  /\ Listed \subseteq Matching(outcome)
  /\ \A t \in Thread : pc[t] = "report" => queue_item[t] \in Matching(outcome)

\* The totals are those of the files searched so far.
StatsInv == ~Called => CountsRight

\* The last answer, until the next search is called.
AnswerInv(lost) ==
  ~Collecting => IsInjective(result) /\ Range(result) = Matching(outcome) \ lost

NumberInv(lost) ==
  ~Collecting => nresults = Cardinality(Matching(outcome) \ lost)

MatchInv == /\ QueueInv /\ ListInv /\ WalkInv /\ StatsInv
            /\ KeptInv({}) /\ AnswerInv({}) /\ NumberInv({})

=============================================================================
