----------------------------- MODULE WorkQueue -----------------------------
(***************************************************************************)
(* The work queue that the walking thread fills and the search threads     *)
(* drain: work_queue, work_queue_mtx, files_ready and done_adding_files of *)
(* ag_src/search.h, the producer half of search_dir, the consumer loop of  *)
(* search_file_worker, and search_file itself.                             *)
(*                                                                         *)
(* The same code runs under the library (AgSearch) and under the command   *)
(* line program (AgCli); the two differ in what search_buf does with a     *)
(* file that matches and in what a worker does once it has seen            *)
(* done_adding_files, so those two steps are left to the modules that      *)
(* extend this one.                                                        *)
(*                                                                         *)
(* Abstraction: an Item is one file found by the walk (a path reached      *)
(* twice is two items); the linked list with its tail pointer is a         *)
(* sequence; the content of a file is its outcome under the query.         *)
(***************************************************************************)
EXTENDS Naturals, Sequences, FiniteSets, Functions

CONSTANTS
  Worker,   \* the threads created from search_file_worker
  Main,     \* the thread inside ag_search() or main()
  Item,     \* the files the walk may come across
  None      \* no thread, no item

ASSUME WorkQueueAssumption ==
  /\ IsFiniteSet(Worker) /\ Worker # {}
  /\ Main \notin Worker
  /\ None \notin Worker \cup {Main} \cup Item

VARIABLES
  work_queue,         \* files queued and not yet taken, oldest first
  work_queue_mtx,     \* the thread holding the mutex, or None
  done_adding_files,  \* set once the walk has queued everything
  pc,                 \* where each thread is
  queue_item,         \* the file each thread is busy with, or None
  walk,               \* files the walk has still to queue
  file_args,          \* path arguments that are files, still to be searched
  outcome,            \* what searching each file of this search yields
  stats               \* totals kept under stats_mtx

queueVars == <<work_queue, work_queue_mtx, done_adding_files, pc, queue_item,
               walk, file_args, outcome, stats>>

Thread == Worker \cup {Main}

\* "absent": not part of this search; "skipped": search_file returns before
\* search_buf (no access, not a file, empty); the other two reach search_buf.
Outcome == {"absent", "skipped", "nomatch", "match"}

NoSearch == [i \in Item |-> "absent"]
ZeroStats == [total_files |-> 0, total_file_matches |-> 0]

Present(o)  == {i \in Item : o[i] # "absent"}
Matching(o) == {i \in Item : o[i] = "match"}

-----------------------------------------------------------------------------
(* The condition variable files_ready: its wait set is the set of workers   *)
(* at "waiting"; a woken worker still has to take the mutex again.          *)

Waiting == {w \in Worker : pc[w] = "waiting"}

Wake(S) == [t \in Thread |-> IF t \in S THEN "woken" ELSE pc[t]]

\* Whom pthread_cond_signal() may wake.
Signalled == IF Waiting = {} THEN {{}} ELSE {{w} : w \in Waiting}

-----------------------------------------------------------------------------
(* search_file_worker                                                       *)

\* Top of the loop, or the reacquisition inside pthread_cond_wait().
LockQueue(w) ==
  /\ pc[w] \in {"lock", "woken"}
  /\ work_queue_mtx = None
  /\ work_queue_mtx' = w
  /\ pc' = [pc EXCEPT ![w] = "test"]
  /\ UNCHANGED <<work_queue, done_adding_files, queue_item, walk, file_args,
                 outcome, stats>>

\* Fault: the file taken stays in the queue.
DequeueCopies(w) ==
  /\ pc[w] = "test"
  /\ work_queue # <<>>
  /\ queue_item' = [queue_item EXCEPT ![w] = Head(work_queue)]
  /\ work_queue_mtx' = None
  /\ pc' = [pc EXCEPT ![w] = "search"]
  /\ UNCHANGED <<work_queue, done_adding_files, walk, file_args, outcome, stats>>

Dequeue(w) ==
  /\ pc[w] = "test"
  /\ work_queue # <<>>
  /\ queue_item' = [queue_item EXCEPT ![w] = Head(work_queue)]
  /\ work_queue' = Tail(work_queue)
  /\ work_queue_mtx' = None
  /\ pc' = [pc EXCEPT ![w] = "search"]
  /\ UNCHANGED <<done_adding_files, walk, file_args, outcome, stats>>

WaitForFiles(w) ==
  /\ pc[w] = "test"
  /\ work_queue = <<>>
  /\ ~done_adding_files
  /\ work_queue_mtx' = None
  /\ pc' = [pc EXCEPT ![w] = "waiting"]
  /\ UNCHANGED <<work_queue, done_adding_files, queue_item, walk, file_args,
                 outcome, stats>>

SeeDone(w) ==
  /\ pc[w] = "test"
  /\ work_queue = <<>>
  /\ done_adding_files
  /\ work_queue_mtx' = None
  /\ pc' = [pc EXCEPT ![w] = "done"]
  /\ UNCHANGED <<work_queue, done_adding_files, queue_item, walk, file_args,
                 outcome, stats>>

\* pthread_cond_wait() may return without a signal.
SpuriousWakeup(w) ==
  /\ pc[w] = "waiting"
  /\ pc' = [pc EXCEPT ![w] = "woken"]
  /\ UNCHANGED <<work_queue, work_queue_mtx, done_adding_files, queue_item,
                 walk, file_args, outcome, stats>>

-----------------------------------------------------------------------------
(* search_file and the first half of search_buf, by a worker or by Main     *)

\* Where a thread goes on once it has finished with a file.
Resume(t) == IF t = Main THEN "walk" ELSE "lock"

Release(t) ==
  /\ pc' = [pc EXCEPT ![t] = Resume(t)]
  /\ queue_item' = [queue_item EXCEPT ![t] = None]

SkipFile(t) ==
  /\ pc[t] = "search"
  /\ outcome[queue_item[t]] = "skipped"
  /\ Release(t)
  /\ UNCHANGED <<work_queue, work_queue_mtx, done_adding_files, walk,
                 file_args, outcome, stats>>

\* The totals are updated under stats_mtx before the result is reported.
SearchBuf(t) ==
  /\ pc[t] = "search"
  /\ outcome[queue_item[t]] \in {"nomatch", "match"}
  /\ LET found == outcome[queue_item[t]] = "match" IN
       /\ stats' = [total_files |-> stats.total_files + 1,
                    total_file_matches |->
                      stats.total_file_matches + (IF found THEN 1 ELSE 0)]
       /\ IF found
          THEN /\ pc' = [pc EXCEPT ![t] = "report"]
               /\ UNCHANGED queue_item
          ELSE Release(t)
  /\ UNCHANGED <<work_queue, work_queue_mtx, done_adding_files, walk,
                 file_args, outcome>>

-----------------------------------------------------------------------------
(* The walking thread: search_dir() over every path argument                *)

\* The walk has come to a regular file and takes the mutex to queue it.
LockToEnqueue(i) ==
  /\ pc[Main] = "walk"
  /\ i \in walk
  /\ work_queue_mtx = None
  /\ work_queue_mtx' = Main
  /\ walk' = walk \ {i}
  /\ queue_item' = [queue_item EXCEPT ![Main] = i]
  /\ pc' = [pc EXCEPT ![Main] = "enqueue"]
  /\ UNCHANGED <<work_queue, done_adding_files, file_args, outcome, stats>>

\* Append, pthread_cond_signal(), unlock.
Enqueue ==
  /\ pc[Main] = "enqueue"
  /\ work_queue' = Append(work_queue, queue_item[Main])
  /\ queue_item' = [queue_item EXCEPT ![Main] = None]
  /\ work_queue_mtx' = None
  /\ \E S \in Signalled : pc' = [Wake(S) EXCEPT ![Main] = "walk"]
  /\ UNCHANGED <<done_adding_files, walk, file_args, outcome, stats>>

\* A path argument that is a file is searched by the walking thread itself.
SearchFileArgument(i) ==
  /\ pc[Main] = "walk"
  /\ i \in file_args
  /\ file_args' = file_args \ {i}
  /\ queue_item' = [queue_item EXCEPT ![Main] = i]
  /\ pc' = [pc EXCEPT ![Main] = "search"]
  /\ UNCHANGED <<work_queue, work_queue_mtx, done_adding_files, walk, outcome,
                 stats>>

LockToFinish ==
  /\ pc[Main] = "walk"
  /\ walk = {} /\ file_args = {}
  /\ work_queue_mtx = None
  /\ work_queue_mtx' = Main
  /\ pc' = [pc EXCEPT ![Main] = "finish"]
  /\ UNCHANGED <<work_queue, done_adding_files, queue_item, walk, file_args,
                 outcome, stats>>

\* Fault: a signal where a broadcast is needed.
FinishAddingSignals(next) ==
  /\ pc[Main] = "finish"
  /\ done_adding_files' = TRUE
  /\ work_queue_mtx' = None
  /\ \E S \in Signalled : pc' = [Wake(S) EXCEPT ![Main] = next]
  /\ UNCHANGED <<work_queue, queue_item, walk, file_args, outcome, stats>>

\* done_adding_files = TRUE, broadcast, unlock; then the caller goes to next.
FinishAdding(next) ==
  /\ pc[Main] = "finish"
  /\ done_adding_files' = TRUE
  /\ work_queue_mtx' = None
  /\ pc' = [Wake(Waiting) EXCEPT ![Main] = next]
  /\ UNCHANGED <<work_queue, queue_item, walk, file_args, outcome, stats>>

-----------------------------------------------------------------------------
WorkerLoop(w) == LockQueue(w) \/ Dequeue(w) \/ WaitForFiles(w) \/ SeeDone(w)

SearchStep(t) == SkipFile(t) \/ SearchBuf(t)

Walk ==
  \/ \E i \in Item : LockToEnqueue(i) \/ SearchFileArgument(i)
  \/ Enqueue
  \/ LockToFinish

-----------------------------------------------------------------------------
(* The inductive invariant of the queue (WorkQueueProofs)                   *)

\* The files that some thread is busy with.
Held == {queue_item[t] : t \in Thread} \ {None}

\* The files of the search that are still to be dealt with.
InHand == walk \cup file_args \cup Range(work_queue) \cup Held

\* A file still to be dealt with is in one place, and there once.
QueueInv ==
  /\ walk \cap file_args = {}
  /\ IsInjective(work_queue)
  /\ \A t, u \in Thread :
       queue_item[t] = queue_item[u] => t = u \/ queue_item[t] = None
  /\ (walk \cup file_args) \cap (Range(work_queue) \cup Held) = {}
  /\ Range(work_queue) \cap Held = {}

\* The files that have been searched: search_buf has added them to stats.
Counted ==
  {i \in Item : outcome[i] \in {"nomatch", "match"}}
    \ (walk \cup file_args \cup Range(work_queue) \cup
         {queue_item[t] : t \in {u \in Thread : pc[u] \in {"enqueue", "search"}}})

CountsRight ==
  /\ IsFiniteSet(Counted)
  /\ stats.total_files = Cardinality(Counted)
  /\ stats.total_file_matches = Cardinality(Counted \cap Matching(outcome))

=============================================================================
