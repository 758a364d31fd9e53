------------------------------- MODULE AgCli -------------------------------
(***************************************************************************)
(* The command line program, main() of ag_src/main.c: has_ag_init is 0, so *)
(* search_buf prints what it finds under print_mtx, a worker that has seen *)
(* done_adding_files returns, and main() joins the workers before it       *)
(* prints the totals and exits.                                            *)
(***************************************************************************)
EXTENDS WorkQueue, Functions

VARIABLES
  print_mtx,     \* the thread holding the mutex, or None
  output,        \* what has been written to out_fd: two writes per file
  match_found    \* opts.match_found

cliVars == <<print_mtx, output, match_found>>

agVars == <<queueVars, cliVars>>

CliInit ==
  /\ work_queue = <<>>
  /\ work_queue_mtx = None
  /\ done_adding_files = FALSE
  /\ pc = [[t \in Thread |-> "absent"] EXCEPT ![Main] = "start"]
  /\ queue_item = [t \in Thread |-> None]
  /\ walk = {}
  /\ file_args = {}
  /\ outcome = NoSearch
  /\ stats = ZeroStats
  /\ print_mtx = None
  /\ output = <<>>
  /\ match_found = FALSE

-----------------------------------------------------------------------------
\* parse_options() and the set-up of the query.
ParseOptions ==
  /\ pc[Main] = "start"
  /\ outcome' \in [Item -> Outcome]
  /\ file_args' \in SUBSET Present(outcome')
  /\ walk' = Present(outcome') \ file_args'
  /\ stats' = ZeroStats
  /\ pc' = [pc EXCEPT ![Main] = "spawn"]
  /\ UNCHANGED <<work_queue, work_queue_mtx, done_adding_files, queue_item,
                 cliVars>>

Spawn(w) ==
  /\ pc[Main] = "spawn"
  /\ pc[w] = "absent"
  /\ pc' = [pc EXCEPT ![w] = "lock"]
  /\ UNCHANGED <<work_queue, work_queue_mtx, done_adding_files, queue_item,
                 walk, file_args, outcome, stats, cliVars>>

StartWalk ==
  /\ pc[Main] = "spawn"
  /\ \A w \in Worker : pc[w] # "absent"
  /\ pc' = [pc EXCEPT ![Main] = "walk"]
  /\ UNCHANGED <<work_queue, work_queue_mtx, done_adding_files, queue_item,
                 walk, file_args, outcome, stats, cliVars>>

-----------------------------------------------------------------------------
(* The second half of search_buf for the command line program               *)

\* Fault: the mutex is not waited for.
LockPrintNever(t) ==
  /\ pc[t] = "report"
  /\ print_mtx' = t
  /\ pc' = [pc EXCEPT ![t] = "print"]
  /\ UNCHANGED <<work_queue, work_queue_mtx, done_adding_files, queue_item,
                 walk, file_args, outcome, stats, output, match_found>>

LockPrint(t) ==
  /\ pc[t] = "report"
  /\ print_mtx = None
  /\ print_mtx' = t
  /\ pc' = [pc EXCEPT ![t] = "print"]
  /\ UNCHANGED <<work_queue, work_queue_mtx, done_adding_files, queue_item,
                 walk, file_args, outcome, stats, output, match_found>>

\* The path and the first lines of print_file_matches().
PrintPath(t) ==
  /\ pc[t] = "print"
  /\ output' = Append(output, queue_item[t])
  /\ pc' = [pc EXCEPT ![t] = "print_rest"]
  /\ UNCHANGED <<work_queue, work_queue_mtx, done_adding_files, queue_item,
                 walk, file_args, outcome, stats, print_mtx, match_found>>

\* The last of them, and the unlock.
PrintRest(t) ==
  /\ pc[t] = "print_rest"
  /\ output' = Append(output, queue_item[t])
  /\ print_mtx' = None
  /\ pc' = [pc EXCEPT ![t] = "found"]
  /\ UNCHANGED <<work_queue, work_queue_mtx, done_adding_files, queue_item,
                 walk, file_args, outcome, stats, match_found>>

\* opts.match_found = 1, under no mutex.
MatchFound(t) ==
  /\ pc[t] = "found"
  /\ match_found' = TRUE
  /\ Release(t)
  /\ UNCHANGED <<work_queue, work_queue_mtx, done_adding_files, walk,
                 file_args, outcome, stats, print_mtx, output>>

-----------------------------------------------------------------------------
\* A worker that has seen done_adding_files returns.
WorkerReturns(w) ==
  /\ pc[w] = "done"
  /\ pc' = [pc EXCEPT ![w] = "exited"]
  /\ UNCHANGED <<work_queue, work_queue_mtx, done_adding_files, queue_item,
                 walk, file_args, outcome, stats, cliVars>>

EndWalk == FinishAdding("join") /\ UNCHANGED cliVars

\* Fault: the workers are not joined.
ExitWithoutJoin ==
  /\ pc[Main] = "join"
  /\ pc' = [pc EXCEPT ![Main] = "exited"]
  /\ UNCHANGED <<work_queue, work_queue_mtx, done_adding_files, queue_item,
                 walk, file_args, outcome, stats, cliVars>>

\* Every pthread_join() has returned: print the totals, clean up, exit.
Exit ==
  /\ pc[Main] = "join"
  /\ \A w \in Worker : pc[w] = "exited"
  /\ pc' = [pc EXCEPT ![Main] = "exited"]
  /\ UNCHANGED <<work_queue, work_queue_mtx, done_adding_files, queue_item,
                 walk, file_args, outcome, stats, cliVars>>

\* The process is gone.
Terminated == pc[Main] = "exited" /\ UNCHANGED agVars

-----------------------------------------------------------------------------
OnQueue(queueStep) == queueStep /\ UNCHANGED cliVars

PrintStep(t) == LockPrint(t) \/ PrintPath(t) \/ PrintRest(t) \/ MatchFound(t)

WorkerStep(w) ==
  \/ OnQueue(WorkerLoop(w) \/ SearchStep(w))
  \/ PrintStep(w)
  \/ WorkerReturns(w)

MainStep ==
  \/ ParseOptions
  \/ \E w \in Worker : Spawn(w)
  \/ StartWalk
  \/ OnQueue(Walk \/ SearchStep(Main))
  \/ PrintStep(Main)
  \/ EndWalk
  \/ Exit

CliNext ==
  \/ \E w \in Worker : WorkerStep(w) \/ OnQueue(SpuriousWakeup(w))
  \/ MainStep
  \/ Terminated

\* As in AgSearch: threads run, and a mutex that is released again and again
\* is taken in the end by each thread that wants it.
Fairness ==
  /\ WF_agVars(MainStep)
  /\ SF_agVars(OnQueue(Walk))
  /\ \A w \in Worker : WF_agVars(WorkerStep(w)) /\ SF_agVars(OnQueue(LockQueue(w)))

CliSpec == CliInit /\ [][CliNext]_agVars /\ Fairness

-----------------------------------------------------------------------------
(* Properties                                                               *)

\* The lines of one file are never broken up by those of another, whichever
\* threads print them (search_buf takes print_mtx around print_file_matches).
OutputNotInterleaved ==
  \A k \in DOMAIN output :
    k % 2 = 1 /\ k < Len(output) => output[k] = output[k + 1]

\* The exit status says whether anything was found, although match_found is
\* written outside every mutex (search_buf, and the last line of main).
ExitStatusTellsMatch ==
  pc[Main] = "exited" => (match_found <=> Matching(outcome) # {})

Printed == {k \in DOMAIN output : k % 2 = 1}

\* The program implements the same service as the library, once: when it
\* exits it has printed every file that matches exactly once, the totals it
\* prints are those of the whole walk, and it always exits.
Exited == pc[Main] = "exited"

Service == INSTANCE SearchService WITH
  busy    <- pc[Main] \notin {"start", "exited"},
  request <- outcome,
  reply   <- IF Exited THEN [k \in Printed |-> output[k]] ELSE <<>>,
  totals  <- IF Exited THEN stats ELSE ZeroStats

ImplementsService == Service!Spec

-----------------------------------------------------------------------------
(* The inductive invariant behind the properties, by parts (AgCliProofs)    *)

WorkerPC == {"absent", "lock", "test", "waiting", "woken", "search", "report",
             "print", "print_rest", "found", "done", "exited"}

MainPC == {"start", "spawn", "walk", "enqueue", "search", "report", "print",
           "print_rest", "found", "finish", "join", "exited"}

\* The types of the variables of the queue and of the program.
CliTypeOK ==
  /\ work_queue \in Seq(Item)
  /\ work_queue_mtx \in Thread \cup {None}
  /\ done_adding_files \in BOOLEAN
  /\ pc \in [Thread -> WorkerPC \cup MainPC]
  /\ pc[Main] \in MainPC /\ \A w \in Worker : pc[w] \in WorkerPC
  /\ queue_item \in [Thread -> Item \cup {None}]
  /\ \A t \in Thread :
       pc[t] \in {"search", "report", "print", "print_rest", "found", "enqueue"}
         <=> queue_item[t] \in Item
  /\ walk \in SUBSET Item
  /\ file_args \in SUBSET Item
  /\ outcome \in [Item -> Outcome]
  /\ stats \in [total_files : Nat, total_file_matches : Nat]
  /\ print_mtx \in Thread \cup {None}
  /\ output \in Seq(Item)
  /\ match_found \in BOOLEAN

\* The threads run from the set-up of the query to main()'s exit, and a worker
\* that has seen done_adding_files finds main() joining and the queue empty.
RunInv ==
  /\ pc[Main] = "start" =>
       /\ \A w \in Worker : pc[w] = "absent"
       /\ work_queue = <<>> /\ output = <<>> /\ ~match_found
  /\ pc[Main] = "exited" => \A w \in Worker : pc[w] = "exited"
  /\ done_adding_files <=> pc[Main] \in {"join", "exited"}
  /\ \A w \in Worker :
       pc[w] \in {"done", "exited"} => done_adding_files /\ work_queue = <<>>
  /\ pc[Main] \in {"finish", "join", "exited"} => walk = {} /\ file_args = {}

\* The thread that holds print_mtx is the one that prints; what it has begun
\* to print is the end of the output, and everything before is complete.
PrintInv ==
  /\ \A t \in Thread : print_mtx = t <=> pc[t] \in {"print", "print_rest"}
  /\ \A t \in Thread : pc[t] = "print_rest" =>
       Len(output) % 2 = 1 /\ output[Len(output)] = queue_item[t]
  /\ Len(output) % 2 = 1 => \E t \in Thread : pc[t] = "print_rest"
  /\ OutputNotInterleaved

\* The files whose path is printed and that some thread has still in hand.
Showing ==
  {queue_item[t] : t \in {u \in Thread : pc[u] \in {"print_rest", "found"}}}

\* Every match is printed or still in hand, nothing is printed twice, and
\* nothing else is printed.
OutputInv ==
  /\ Range(output) \subseteq Matching(outcome)
  /\ Matching(outcome) \subseteq InHand \cup Range(output)
  /\ InHand \cap Range(output) = Showing
  /\ \A j, k \in Printed : output[j] = output[k] => j = k
  /\ \A t \in Thread : pc[t] \in {"report", "print", "print_rest", "found"} =>
       queue_item[t] \in Matching(outcome)

\* match_found is set once a file has been printed and let go of.
FlagInv ==
  /\ match_found => Matching(outcome) # {}
  /\ ~match_found => Range(output) \subseteq InHand

CliInv == /\ CliTypeOK /\ RunInv /\ QueueInv /\ CountsRight
          /\ PrintInv /\ OutputInv /\ FlagInv

=============================================================================
