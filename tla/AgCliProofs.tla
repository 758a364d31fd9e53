----------------------------- MODULE AgCliProofs -----------------------------
(***************************************************************************)
(* Proofs about the program ag.                                            *)
(*                                                                         *)
(*   AgCli     the output of one file is in one piece, the exit status     *)
(*             tells whether anything was found, and what is printed is    *)
(*             what SearchService promises                                 *)
(*   DirWalk   for every file system, options and arguments, what          *)
(*             search_dir finds is what is to be found, and all of it      *)
(***************************************************************************)
EXTENDS AgCli, DirWalk, WorkQueueProofs, FiniteSetTheorems, WellFoundedInduction,
        TLAPS

-----------------------------------------------------------------------------
(* The steps of CliNext, one by one                                         *)

\* A step of one thread on the queue.
QueueStep ==
  \/ \E w \in Worker : \/ LockQueue(w) \/ Dequeue(w) \/ WaitForFiles(w)
                       \/ SeeDone(w) \/ SpuriousWakeup(w)
  \/ \E t \in Thread : SkipFile(t) \/ SearchBuf(t)
  \/ \E i \in Item : LockToEnqueue(i) \/ SearchFileArgument(i)
  \/ Enqueue \/ LockToFinish

\* A step of main(), or of a thread that has found something.
CliStep ==
  \/ ParseOptions \/ StartWalk \/ EndWalk \/ Exit
  \/ \E w \in Worker : Spawn(w) \/ WorkerReturns(w)
  \/ \E t \in Thread : LockPrint(t) \/ PrintPath(t) \/ PrintRest(t) \/ MatchFound(t)

\* There are no other steps.
LEMMA NextSteps ==
  ASSUME [CliNext]_agVars
  PROVE  OnQueue(QueueStep) \/ CliStep \/ UNCHANGED agVars
  BY DEF CliNext, WorkerStep, MainStep, OnQueue, WorkerLoop, SearchStep, PrintStep,
         Walk, QueueStep, CliStep, Thread, Terminated

-----------------------------------------------------------------------------
(* Types                                                                    *)

\* The program starts well typed.
LEMMA TypeInit ==
  ASSUME CliInit
  PROVE  CliTypeOK
<1>1. /\ pc = [t \in Thread |-> IF t = Main THEN "start" ELSE "absent"]
      /\ Main \in Thread /\ Main \notin Worker /\ Worker \subseteq Thread
      /\ None \notin Item
  BY WorkQueueAssumption DEF CliInit, Thread
<1>2. NoSearch \in [Item -> Outcome]
  BY DEF NoSearch, Outcome
<1>3. /\ pc \in [Thread -> WorkerPC \cup MainPC]
      /\ pc[Main] \in MainPC /\ \A w \in Worker : pc[w] \in WorkerPC
  BY <1>1 DEF WorkerPC, MainPC
<1>4. /\ queue_item \in [Thread -> Item \cup {None}]
      /\ \A t \in Thread :
           pc[t] \in {"search", "report", "print", "print_rest", "found", "enqueue"}
             <=> queue_item[t] \in Item
  BY <1>1 DEF CliInit
<1>5. stats \in [total_files : Nat, total_file_matches : Nat]
  BY DEF CliInit, ZeroStats
<1>6. /\ work_queue \in Seq(Item) /\ work_queue_mtx \in Thread \cup {None}
      /\ walk \in SUBSET Item /\ file_args \in SUBSET Item
      /\ print_mtx \in Thread \cup {None} /\ output \in Seq(Item)
  BY DEF CliInit
<1>7. done_adding_files \in BOOLEAN /\ match_found \in BOOLEAN
  BY DEF CliInit
<1>8. outcome \in [Item -> Outcome]
  BY <1>2 DEF CliInit
<1> QED
  BY <1>3, <1>4, <1>5, <1>6, <1>7, <1>8 DEF CliTypeOK

\* Every step keeps the types.
LEMMA TypeStep ==
  ASSUME CliTypeOK, [CliNext]_agVars
  PROVE  CliTypeOK'
<1>1. /\ Main \in Thread /\ Main \notin Worker /\ Worker \subseteq Thread
      /\ None \notin Item
  BY WorkQueueAssumption DEF Thread
<1>2. ASSUME NEW w \in Worker, OnQueue(LockQueue(w))
      PROVE  CliTypeOK'
  BY <1>2, <1>1
  DEF CliTypeOK, WorkerPC, MainPC, Thread, LockQueue, OnQueue, cliVars
<1>3. ASSUME NEW w \in Worker, OnQueue(Dequeue(w))
      PROVE  CliTypeOK'
  BY <1>3, <1>1
  DEF CliTypeOK, WorkerPC, MainPC, Thread, Dequeue, OnQueue, cliVars
<1>4. ASSUME NEW w \in Worker, OnQueue(WaitForFiles(w))
      PROVE  CliTypeOK'
  BY <1>4, <1>1
  DEF CliTypeOK, WorkerPC, MainPC, Thread, WaitForFiles, OnQueue, cliVars
<1>5. ASSUME NEW w \in Worker, OnQueue(SeeDone(w))
      PROVE  CliTypeOK'
  BY <1>5, <1>1
  DEF CliTypeOK, WorkerPC, MainPC, Thread, SeeDone, OnQueue, cliVars
<1>6. ASSUME NEW w \in Worker, OnQueue(SpuriousWakeup(w))
      PROVE  CliTypeOK'
  BY <1>6, <1>1
  DEF CliTypeOK, WorkerPC, MainPC, Thread, SpuriousWakeup, OnQueue, cliVars
<1>7. ASSUME NEW t \in Thread, OnQueue(SkipFile(t))
      PROVE  CliTypeOK'
  BY <1>7, <1>1
  DEF CliTypeOK, WorkerPC, MainPC, Thread, SkipFile, Release, Resume, OnQueue,
      cliVars
<1>8. ASSUME NEW t \in Thread, OnQueue(SearchBuf(t))
      PROVE  CliTypeOK'
  <2>1. stats' \in [total_files : Nat, total_file_matches : Nat]
    BY <1>8 DEF CliTypeOK, SearchBuf, OnQueue
  <2>2. /\ pc[t] = "search"
        /\ UNCHANGED <<work_queue, work_queue_mtx, done_adding_files, walk,
                       file_args, outcome, cliVars>>
    BY <1>8 DEF SearchBuf, OnQueue
  <2>3. CASE outcome[queue_item[t]] = "match"
    <3>1. pc' = [pc EXCEPT ![t] = "report"] /\ queue_item' = queue_item
      BY <1>8, <2>3 DEF SearchBuf, OnQueue
    <3> QED
      BY <1>1, <2>1, <2>2, <3>1 DEF CliTypeOK, WorkerPC, MainPC, Thread, cliVars
  <2>4. CASE outcome[queue_item[t]] # "match"
    <3>1. Release(t)
      BY <1>8, <2>4 DEF SearchBuf, OnQueue
    <3> QED
      BY <1>1, <2>1, <2>2, <3>1
      DEF CliTypeOK, WorkerPC, MainPC, Thread, Release, Resume, cliVars
  <2> QED
    BY <2>3, <2>4
<1>9. ASSUME NEW i \in Item, OnQueue(LockToEnqueue(i))
      PROVE  CliTypeOK'
  BY <1>9, <1>1
  DEF CliTypeOK, WorkerPC, MainPC, Thread, LockToEnqueue, OnQueue, cliVars
<1>10. ASSUME NEW i \in Item, OnQueue(SearchFileArgument(i))
      PROVE  CliTypeOK'
  BY <1>10, <1>1
  DEF CliTypeOK, WorkerPC, MainPC, Thread, SearchFileArgument, OnQueue, cliVars
<1>11. ASSUME OnQueue(Enqueue)
      PROVE  CliTypeOK'
  <2>1. /\ pc[Main] = "enqueue" /\ queue_item[Main] \in Item
        /\ work_queue' \in Seq(Item)
    BY <1>11, <1>1 DEF CliTypeOK, Enqueue, OnQueue
  <2>2. PICK S \in SUBSET Waiting : pc' = [Wake(S) EXCEPT ![Main] = "walk"]
    BY <1>11 DEF Enqueue, OnQueue, Signalled
  <2>3. /\ pc' = [t \in Thread |-> IF t = Main THEN "walk"
                                  ELSE IF t \in S THEN "woken" ELSE pc[t]]
        /\ queue_item' = [queue_item EXCEPT ![Main] = None]
    BY <1>11, <2>2 DEF Enqueue, OnQueue, Wake
  <2>4. S \subseteq {w \in Worker : pc[w] = "waiting"}
    BY <2>2 DEF Waiting
  <2>5. /\ pc' \in [Thread -> WorkerPC \cup MainPC]
        /\ pc'[Main] \in MainPC /\ \A w \in Worker : pc'[w] \in WorkerPC
    BY <1>1, <2>3 DEF CliTypeOK, WorkerPC, MainPC
  <2>6. /\ queue_item' \in [Thread -> Item \cup {None}]
        /\ \A t \in Thread :
             pc'[t] \in {"search", "report", "print", "print_rest", "found",
                         "enqueue"} <=> queue_item'[t] \in Item
    BY <1>1, <2>3, <2>4 DEF CliTypeOK
  <2> QED
    BY <1>11, <1>1, <2>1, <2>5, <2>6 DEF CliTypeOK, Enqueue, OnQueue, cliVars
<1>12. ASSUME OnQueue(LockToFinish)
      PROVE  CliTypeOK'
  BY <1>12, <1>1
  DEF CliTypeOK, WorkerPC, MainPC, Thread, LockToFinish, OnQueue, cliVars
<1>13. ASSUME ParseOptions
      PROVE  CliTypeOK'
  <2>1. PICK o \in [Item -> Outcome] : outcome' = o
    BY <1>13 DEF ParseOptions
  <2>2. /\ outcome' \in [Item -> Outcome]
        /\ file_args' \in SUBSET Item /\ walk' \in SUBSET Item
    BY <1>13 DEF ParseOptions, Present
  <2> QED
    BY <1>13, <1>1, <2>2
    DEF CliTypeOK, WorkerPC, MainPC, Thread, ParseOptions, ZeroStats, cliVars
<1>14. ASSUME StartWalk
      PROVE  CliTypeOK'
  BY <1>14, <1>1
  DEF CliTypeOK, WorkerPC, MainPC, Thread, StartWalk, cliVars
<1>15. ASSUME EndWalk
      PROVE  CliTypeOK'
  BY <1>15, <1>1
  DEF CliTypeOK, WorkerPC, MainPC, Thread, EndWalk, FinishAdding, Wake, Waiting,
      cliVars
<1>16. ASSUME Exit
      PROVE  CliTypeOK'
  BY <1>16, <1>1
  DEF CliTypeOK, WorkerPC, MainPC, Thread, Exit, cliVars
<1>17. ASSUME NEW w \in Worker, Spawn(w)
      PROVE  CliTypeOK'
  BY <1>17, <1>1
  DEF CliTypeOK, WorkerPC, MainPC, Thread, Spawn, cliVars
<1>18. ASSUME NEW w \in Worker, WorkerReturns(w)
      PROVE  CliTypeOK'
  BY <1>18, <1>1
  DEF CliTypeOK, WorkerPC, MainPC, Thread, WorkerReturns, cliVars
<1>19. ASSUME NEW t \in Thread, LockPrint(t)
      PROVE  CliTypeOK'
  BY <1>19, <1>1
  DEF CliTypeOK, WorkerPC, MainPC, Thread, LockPrint
<1>20. ASSUME NEW t \in Thread, PrintPath(t)
      PROVE  CliTypeOK'
  BY <1>20, <1>1
  DEF CliTypeOK, WorkerPC, MainPC, Thread, PrintPath
<1>21. ASSUME NEW t \in Thread, PrintRest(t)
      PROVE  CliTypeOK'
  BY <1>21, <1>1
  DEF CliTypeOK, WorkerPC, MainPC, Thread, PrintRest
<1>22. ASSUME NEW t \in Thread, MatchFound(t)
      PROVE  CliTypeOK'
  BY <1>22, <1>1
  DEF CliTypeOK, WorkerPC, MainPC, Thread, MatchFound, Release, Resume
<1>23. ASSUME UNCHANGED agVars
      PROVE  CliTypeOK'
  BY <1>23, <1>1
  DEF CliTypeOK, WorkerPC, MainPC, Thread, agVars, queueVars, cliVars
<1> QED
  BY NextSteps, <1>2, <1>3, <1>4, <1>5, <1>6, <1>7, <1>8, <1>9, <1>10, <1>11,
      <1>12, <1>13, <1>14, <1>15, <1>16, <1>17, <1>18, <1>19, <1>20, <1>21,
      <1>22, <1>23
  DEF QueueStep, CliStep, OnQueue

-----------------------------------------------------------------------------
(* The run of the program                                                   *)

\* Nothing runs before the set-up.
LEMMA RunInit ==
  ASSUME CliInit
  PROVE  RunInv
  BY WorkQueueAssumption DEF CliInit, RunInv, Thread

\* The order of set-up, walk, join and exit, for the workers too.
LEMMA RunStep ==
  ASSUME CliTypeOK, RunInv, [CliNext]_agVars
  PROVE  RunInv'
<1>1. /\ Main \in Thread /\ Main \notin Worker /\ Worker \subseteq Thread
      /\ pc \in [Thread -> WorkerPC \cup MainPC] /\ Thread = Worker \cup {Main}
  BY WorkQueueAssumption DEF Thread, CliTypeOK
<1>2. ASSUME NEW w \in Worker, OnQueue(LockQueue(w))
      PROVE  RunInv'
  BY <1>2, <1>1
  DEF RunInv, cliVars, LockQueue, OnQueue
<1>3. ASSUME NEW w \in Worker, OnQueue(Dequeue(w))
      PROVE  RunInv'
  BY <1>3, <1>1
  DEF RunInv, cliVars, Dequeue, OnQueue
<1>4. ASSUME NEW w \in Worker, OnQueue(WaitForFiles(w))
      PROVE  RunInv'
  BY <1>4, <1>1
  DEF RunInv, cliVars, WaitForFiles, OnQueue
<1>5. ASSUME NEW w \in Worker, OnQueue(SeeDone(w))
      PROVE  RunInv'
  BY <1>5, <1>1
  DEF RunInv, cliVars, SeeDone, OnQueue
<1>6. ASSUME NEW w \in Worker, OnQueue(SpuriousWakeup(w))
      PROVE  RunInv'
  BY <1>6, <1>1
  DEF RunInv, cliVars, SpuriousWakeup, OnQueue
<1>7. ASSUME NEW t \in Thread, OnQueue(SkipFile(t))
      PROVE  RunInv'
  BY <1>7, <1>1
  DEF RunInv, cliVars, SkipFile, Release, Resume, OnQueue
<1>8. ASSUME NEW t \in Thread, OnQueue(SearchBuf(t))
      PROVE  RunInv'
  BY <1>8, <1>1
  DEF RunInv, cliVars, SearchBuf, Release, Resume, OnQueue
<1>9. ASSUME NEW i \in Item, OnQueue(LockToEnqueue(i))
      PROVE  RunInv'
  BY <1>9, <1>1
  DEF RunInv, cliVars, LockToEnqueue, OnQueue
<1>10. ASSUME NEW i \in Item, OnQueue(SearchFileArgument(i))
      PROVE  RunInv'
  BY <1>10, <1>1
  DEF RunInv, cliVars, SearchFileArgument, OnQueue
<1>11. ASSUME OnQueue(Enqueue)
      PROVE  RunInv'
  BY <1>11, <1>1
  DEF RunInv, cliVars, Enqueue, Signalled, Waiting, Wake, OnQueue
<1>12. ASSUME OnQueue(LockToFinish)
      PROVE  RunInv'
  BY <1>12, <1>1
  DEF RunInv, cliVars, LockToFinish, OnQueue
<1>13. ASSUME ParseOptions
      PROVE  RunInv'
  BY <1>13, <1>1
  DEF RunInv, cliVars, ParseOptions
<1>14. ASSUME StartWalk
      PROVE  RunInv'
  BY <1>14, <1>1
  DEF RunInv, cliVars, StartWalk
<1>15. ASSUME EndWalk
      PROVE  RunInv'
  BY <1>15, <1>1
  DEF RunInv, cliVars, EndWalk, FinishAdding, Wake, Waiting
<1>16. ASSUME Exit
      PROVE  RunInv'
  BY <1>16, <1>1
  DEF RunInv, cliVars, Exit
<1>17. ASSUME NEW w \in Worker, Spawn(w)
      PROVE  RunInv'
  BY <1>17, <1>1
  DEF RunInv, cliVars, Spawn
<1>18. ASSUME NEW w \in Worker, WorkerReturns(w)
      PROVE  RunInv'
  BY <1>18, <1>1
  DEF RunInv, cliVars, WorkerReturns
<1>19. ASSUME NEW t \in Thread, LockPrint(t) \/ PrintPath(t) \/ PrintRest(t)
      PROVE  RunInv'
  <2>1. /\ pc[t] \in {"report", "print", "print_rest"}
        /\ UNCHANGED <<work_queue, done_adding_files, walk, file_args>>
    BY <1>19 DEF LockPrint, PrintPath, PrintRest
  <2>2. /\ pc'[t] \in {"print", "print_rest", "found"}
        /\ \A u \in Thread : u # t => pc'[u] = pc[u]
    BY <1>19, <1>1 DEF LockPrint, PrintPath, PrintRest
  <2>3. CASE t = Main
    <3>1. \A w \in Worker : pc'[w] = pc[w]
      BY <1>1, <2>2, <2>3
    <3> QED
      BY <2>1, <2>2, <2>3, <3>1 DEF RunInv
  <2>4. CASE t \in Worker
    <3>1. pc'[Main] = pc[Main] /\ pc[Main] \notin {"start", "exited"}
      BY <1>1, <2>1, <2>2, <2>4 DEF RunInv
    <3>2. \A w \in Worker : pc'[w] \in {"done", "exited"} => pc[w] = pc'[w]
      BY <1>1, <2>2, <2>4
    <3> QED
      BY <2>1, <3>1, <3>2 DEF RunInv
  <2> QED
    BY <1>1, <2>3, <2>4
<1>20. ASSUME NEW t \in Thread, MatchFound(t)
      PROVE  RunInv'
  BY <1>20, <1>1
  DEF RunInv, cliVars, MatchFound, Release, Resume
<1>21. ASSUME UNCHANGED agVars
      PROVE  RunInv'
  BY <1>21, <1>1
  DEF RunInv, cliVars, agVars, queueVars
<1> QED
  BY NextSteps, <1>2, <1>3, <1>4, <1>5, <1>6, <1>7, <1>8, <1>9, <1>10, <1>11,
      <1>12, <1>13, <1>14, <1>15, <1>16, <1>17, <1>18, <1>19, <1>20, <1>21
  DEF QueueStep, CliStep, OnQueue


-----------------------------------------------------------------------------
(* The steps of the queue, to the eye of the output                         *)

\* They print nothing, and leave alone the threads that do.
LEMMA QueueFrame ==
  ASSUME CliTypeOK, OnQueue(QueueStep)
  PROVE  /\ UNCHANGED <<outcome, cliVars>>
         /\ \A t \in Thread :
              /\ pc'[t] = "print" <=> pc[t] = "print"
              /\ pc'[t] = "print_rest" <=> pc[t] = "print_rest"
              /\ pc'[t] = "found" <=> pc[t] = "found"
              /\ pc[t] \in {"print", "print_rest", "found"} =>
                   queue_item'[t] = queue_item[t]
<1>1. /\ Main \in Thread /\ Main \notin Worker /\ Worker \subseteq Thread
      /\ pc \in [Thread -> WorkerPC \cup MainPC]
      /\ queue_item \in [Thread -> Item \cup {None}]
  BY WorkQueueAssumption DEF Thread, CliTypeOK
<1> DEFINE Framed == \A t \in Thread :
              /\ pc'[t] = "print" <=> pc[t] = "print"
              /\ pc'[t] = "print_rest" <=> pc[t] = "print_rest"
              /\ pc'[t] = "found" <=> pc[t] = "found"
              /\ pc[t] \in {"print", "print_rest", "found"} =>
                   queue_item'[t] = queue_item[t]
<1>2. ASSUME NEW w \in Worker,
             \/ LockQueue(w) \/ Dequeue(w) \/ WaitForFiles(w) \/ SeeDone(w)
             \/ SpuriousWakeup(w)
      PROVE  Framed /\ UNCHANGED outcome
  BY <1>1, <1>2
  DEF LockQueue, Dequeue, WaitForFiles, SeeDone, SpuriousWakeup
<1>3. ASSUME NEW t \in Thread, SkipFile(t) \/ SearchBuf(t)
      PROVE  Framed /\ UNCHANGED outcome
  BY <1>1, <1>3 DEF SkipFile, SearchBuf, Release, Resume
<1>4. ASSUME NEW i \in Item, LockToEnqueue(i) \/ SearchFileArgument(i)
      PROVE  Framed /\ UNCHANGED outcome
  BY <1>1, <1>4 DEF LockToEnqueue, SearchFileArgument
<1>5. ASSUME Enqueue
      PROVE  Framed /\ UNCHANGED outcome
  BY <1>1, <1>5 DEF Enqueue, Signalled, Waiting, Wake
<1>6. ASSUME LockToFinish
      PROVE  Framed /\ UNCHANGED outcome
  BY <1>1, <1>6 DEF LockToFinish
<1> QED
  BY <1>2, <1>3, <1>4, <1>5, <1>6 DEF OnQueue, QueueStep

\* What the lemmas about the queue assume.
LEMMA Typed ==
  ASSUME CliTypeOK
  PROVE  QueueTypes
  BY DEF CliTypeOK, QueueTypes, Busy

\* Of the files in hand they drop none that matches.
LEMMA QueueMoves ==
  ASSUME CliTypeOK, QueueInv, OnQueue(QueueStep)
  PROVE  /\ QueueInv' /\ (CountsRight => CountsRight')
         /\ InHand' \subseteq InHand
         /\ (InHand \ InHand') \cap Matching(outcome) = {}
         /\ \A t \in Thread :
              pc'[t] = "report" => \/ pc[t] = "report" /\ queue_item'[t] = queue_item[t]
                                   \/ queue_item'[t] \in Matching(outcome)
<1>1. /\ Main \in Thread /\ Main \notin Worker /\ Worker \subseteq Thread
      /\ pc \in [Thread -> WorkerPC \cup MainPC]
      /\ queue_item \in [Thread -> Item \cup {None}]
  BY WorkQueueAssumption DEF Thread, CliTypeOK
<1>2. QueueTypes
  BY Typed
<1> DEFINE Kept == \A t \in Thread :
                     pc'[t] = "report" => pc[t] = "report" /\ queue_item'[t] = queue_item[t]
           Same == QueueInv' /\ InHand' = InHand /\ (CountsRight => CountsRight')
<1>3. ASSUME NEW w \in Worker,
             LockQueue(w) \/ WaitForFiles(w) \/ SeeDone(w) \/ SpuriousWakeup(w)
      PROVE  Same /\ Kept
  <2>1. /\ UNCHANGED <<work_queue, queue_item, walk, file_args, outcome, stats>>
        /\ \A t \in Thread : pc'[t] \in {"enqueue", "search"}
                               <=> pc[t] \in {"enqueue", "search"}
        /\ Kept
    BY <1>1, <1>3 DEF LockQueue, WaitForFiles, SeeDone, SpuriousWakeup
  <2> QED
    BY <2>1, NothingMoves
<1>4. ASSUME LockToFinish
      PROVE  Same /\ Kept
  <2>1. /\ UNCHANGED <<work_queue, queue_item, walk, file_args, outcome, stats>>
        /\ \A t \in Thread : pc'[t] \in {"enqueue", "search"}
                               <=> pc[t] \in {"enqueue", "search"}
        /\ Kept
    BY <1>1, <1>4 DEF LockToFinish
  <2> QED
    BY <2>1, NothingMoves
<1>5. ASSUME NEW w \in Worker, Dequeue(w)
      PROVE  Same /\ Kept
  <2>1. QueueInv' /\ InHand' = InHand /\ Counted' = Counted
    BY <1>2, <1>5, DequeueKeeps
  <2>2. Kept /\ UNCHANGED <<stats, outcome>>
    BY <1>1, <1>5 DEF Dequeue
  <2> QED
    BY <2>1, <2>2 DEF CountsRight
<1>6. ASSUME NEW i \in Item, LockToEnqueue(i) \/ SearchFileArgument(i)
      PROVE  Same /\ Kept
  <2>1. QueueInv' /\ InHand' = InHand /\ Counted' = Counted
    BY <1>2, <1>6, LockToEnqueueKeeps, SearchFileArgumentKeeps
  <2>2. Kept /\ UNCHANGED <<stats, outcome>>
    BY <1>1, <1>6 DEF LockToEnqueue, SearchFileArgument
  <2> QED
    BY <2>1, <2>2 DEF CountsRight
<1>7. ASSUME Enqueue
      PROVE  Same /\ Kept
  <2>1. QueueInv' /\ InHand' = InHand /\ Counted' = Counted
    BY <1>2, <1>7, EnqueueKeeps
  <2>2. Kept /\ UNCHANGED <<stats, outcome>>
    BY <1>1, <1>7 DEF Enqueue, Signalled, Waiting, Wake
  <2> QED
    BY <2>1, <2>2 DEF CountsRight
<1>8. ASSUME NEW t \in Thread, SkipFile(t)
      PROVE  /\ QueueInv' /\ InHand' = InHand \ {queue_item[t]} /\ Kept
             /\ CountsRight => CountsRight'
             /\ queue_item[t] \notin Matching(outcome)
  <2>1. /\ QueueInv' /\ InHand' = InHand \ {queue_item[t]} /\ Counted' = Counted
        /\ queue_item[t] \notin Matching(outcome)
    BY <1>2, <1>8, SkipFileKeeps
  <2>2. Kept /\ UNCHANGED <<stats, outcome>>
    BY <1>1, <1>8 DEF SkipFile, Release, Resume
  <2> QED
    BY <2>1, <2>2 DEF CountsRight
<1>9. ASSUME NEW t \in Thread, SearchBuf(t)
      PROVE  /\ QueueInv' /\ (CountsRight => CountsRight')
             /\ InHand' \subseteq InHand
             /\ (InHand \ InHand') \cap Matching(outcome) = {}
             /\ \A u \in Thread :
                  pc'[u] = "report" => \/ pc[u] = "report" /\ queue_item'[u] = queue_item[u]
                                       \/ queue_item'[u] \in Matching(outcome)
  <2>1. /\ QueueInv' /\ (CountsRight => CountsRight')
        /\ IF outcome[queue_item[t]] = "match" THEN InHand' = InHand
           ELSE InHand' = InHand \ {queue_item[t]}
    BY <1>2, <1>9, SearchBufKeeps
  <2>2. queue_item[t] \in Item
    BY <1>9 DEF SearchBuf, CliTypeOK
  <2>3. CASE outcome[queue_item[t]] = "match"
    <3>1. pc' = [pc EXCEPT ![t] = "report"] /\ UNCHANGED queue_item
      BY <1>9, <2>3 DEF SearchBuf
    <3> QED
      BY <1>1, <2>1, <2>2, <2>3, <3>1 DEF Matching
  <2>4. CASE outcome[queue_item[t]] # "match"
    <3>1. Release(t)
      BY <1>9, <2>4 DEF SearchBuf
    <3>2. Kept
      BY <1>1, <3>1 DEF Release, Resume
    <3> QED
      BY <2>1, <2>4, <3>2 DEF Matching
  <2> QED
    BY <2>3, <2>4
<1> QED
  BY <1>3, <1>4, <1>5, <1>6, <1>7, <1>8, <1>9 DEF OnQueue, QueueStep

-----------------------------------------------------------------------------
(* One thread prints at a time                                              *)

\* A step that prints nothing.
LEMMA PrintFrame ==
  ASSUME PrintInv, UNCHANGED <<print_mtx, output>>,
         \A t \in Thread :
           /\ pc'[t] = "print" <=> pc[t] = "print"
           /\ pc'[t] = "print_rest" <=> pc[t] = "print_rest"
           /\ pc[t] = "print_rest" => queue_item'[t] = queue_item[t]
  PROVE  PrintInv'
  BY DEF PrintInv, OutputNotInterleaved

\* Every step, printing or not, leaves the output in pieces of one file each.
LEMMA PrintKeeps ==
  ASSUME CliTypeOK, PrintInv, [CliNext]_agVars
  PROVE  PrintInv'
<1>1. /\ Main \in Thread /\ Main \notin Worker /\ Worker \subseteq Thread
      /\ pc \in [Thread -> WorkerPC \cup MainPC] /\ None \notin Thread
      /\ output \in Seq(Item) /\ Len(output) \in Nat
      /\ queue_item \in [Thread -> Item \cup {None}]
      /\ DOMAIN output = 1..Len(output)
  BY WorkQueueAssumption DEF Thread, CliTypeOK
<1>2. CASE OnQueue(QueueStep)
  BY <1>2, QueueFrame, PrintFrame DEF cliVars
<1>3. CASE ParseOptions \/ StartWalk \/ EndWalk \/ Exit \/ UNCHANGED agVars
  <2>1. /\ UNCHANGED <<print_mtx, output, queue_item>>
        /\ \A t \in Thread :
           /\ pc'[t] = "print" <=> pc[t] = "print"
           /\ pc'[t] = "print_rest" <=> pc[t] = "print_rest"
    BY <1>1, <1>3
    DEF ParseOptions, StartWalk, EndWalk, FinishAdding, Wake, Waiting, Exit, agVars,
        queueVars, cliVars
  <2> QED
    BY <2>1, PrintFrame
<1>4. ASSUME NEW w \in Worker, Spawn(w) \/ WorkerReturns(w)
      PROVE  PrintInv'
  BY <1>1, <1>4, PrintFrame DEF Spawn, WorkerReturns, cliVars
<1>5. ASSUME NEW t \in Thread, MatchFound(t)
      PROVE  PrintInv'
  BY <1>1, <1>5, PrintFrame DEF MatchFound, Release, Resume
<1>6. ASSUME NEW t \in Thread, LockPrint(t)
      PROVE  PrintInv'
  <2>1. \A u \in Thread : pc[u] \notin {"print", "print_rest"}
    BY <1>1, <1>6 DEF LockPrint, PrintInv
  <2> QED
    BY <1>1, <1>6, <2>1 DEF LockPrint, PrintInv, OutputNotInterleaved
<1>7. ASSUME NEW t \in Thread, PrintPath(t)
      PROVE  PrintInv'
  <2>1. /\ pc[t] = "print" /\ pc' = [pc EXCEPT ![t] = "print_rest"]
        /\ output' = Append(output, queue_item[t])
        /\ UNCHANGED <<queue_item, print_mtx>>
        /\ queue_item[t] \in Item
    BY <1>7 DEF PrintPath, CliTypeOK
  <2>2. \A u \in Thread : pc[u] \in {"print", "print_rest"} => u = t
    BY <2>1 DEF PrintInv
  <2>3. Len(output) % 2 = 0
    BY <1>1, <2>1, <2>2 DEF PrintInv
  <2>4. /\ Len(output') = Len(output) + 1 /\ DOMAIN output' = 1..(Len(output) + 1)
        /\ output'[Len(output) + 1] = queue_item[t]
        /\ \A k \in 1..Len(output) : output'[k] = output[k]
    BY <1>1, <2>1
  <2>5. Len(output') % 2 = 1
    BY <1>1, <2>3, <2>4
  <2>6. OutputNotInterleaved'
    BY <1>1, <2>3, <2>4 DEF PrintInv, OutputNotInterleaved
  <2> QED
    BY <1>1, <2>1, <2>2, <2>4, <2>5, <2>6 DEF PrintInv
<1>8. ASSUME NEW t \in Thread, PrintRest(t)
      PROVE  PrintInv'
  <2>1. /\ pc[t] = "print_rest" /\ pc' = [pc EXCEPT ![t] = "found"]
        /\ output' = Append(output, queue_item[t])
        /\ UNCHANGED queue_item /\ print_mtx' = None
        /\ queue_item[t] \in Item
    BY <1>8 DEF PrintRest, CliTypeOK
  <2>2. \A u \in Thread : pc[u] \in {"print", "print_rest"} => u = t
    BY <2>1 DEF PrintInv
  <2>3. Len(output) % 2 = 1 /\ output[Len(output)] = queue_item[t]
    BY <2>1 DEF PrintInv
  <2>4. /\ Len(output') = Len(output) + 1 /\ DOMAIN output' = 1..(Len(output) + 1)
        /\ output'[Len(output) + 1] = queue_item[t]
        /\ \A k \in 1..Len(output) : output'[k] = output[k]
    BY <1>1, <2>1
  <2>5. Len(output') % 2 = 0
    BY <1>1, <2>3, <2>4
  <2>6. OutputNotInterleaved'
    BY <1>1, <2>3, <2>4 DEF PrintInv, OutputNotInterleaved
  <2> QED
    BY <1>1, <2>1, <2>2, <2>4, <2>5, <2>6 DEF PrintInv
<1> QED
  BY <1>2, <1>3, <1>4, <1>5, <1>6, <1>7, <1>8, NextSteps DEF CliStep

-----------------------------------------------------------------------------
(* What is printed, and what is found                                       *)

\* Where every file is, in one name.
FilesInv == QueueInv /\ CountsRight /\ OutputInv /\ FlagInv

\* A step that prints nothing and hands no file on.
LEMMA FilesFrame ==
  ASSUME FilesInv,
         UNCHANGED <<work_queue, queue_item, walk, file_args, outcome, stats>>,
         UNCHANGED <<output, match_found>>,
         \A t \in Thread :
           /\ pc'[t] \in {"enqueue", "search"} <=> pc[t] \in {"enqueue", "search"}
           /\ pc'[t] \in {"print_rest", "found"} <=> pc[t] \in {"print_rest", "found"}
           /\ pc'[t] \in {"report", "print"} <=> pc[t] \in {"report", "print"}
  PROVE  FilesInv'
<1>1. QueueInv' /\ InHand' = InHand /\ CountsRight'
  BY NothingMoves DEF FilesInv
<1>2. Showing' = Showing
  <2>1. {u \in Thread : pc'[u] \in {"print_rest", "found"}}
          = {u \in Thread : pc[u] \in {"print_rest", "found"}}
    OBVIOUS
  <2> QED
    BY <2>1 DEF Showing
<1>3. OutputInv' /\ FlagInv'
  BY <1>1, <1>2 DEF FilesInv, OutputInv, FlagInv, Printed
<1> QED
  BY <1>1, <1>3 DEF FilesInv

\* The steps of the queue.
LEMMA FilesQueueStep ==
  ASSUME CliTypeOK, FilesInv, OnQueue(QueueStep)
  PROVE  FilesInv'
<1>1. /\ QueueInv' /\ CountsRight'
      /\ InHand' \subseteq InHand
      /\ (InHand \ InHand') \cap Matching(outcome) = {}
      /\ \A t \in Thread :
           pc'[t] = "report" => \/ pc[t] = "report" /\ queue_item'[t] = queue_item[t]
                                \/ queue_item'[t] \in Matching(outcome)
  BY QueueMoves DEF FilesInv
<1>2. /\ UNCHANGED <<outcome, output, match_found>>
      /\ \A t \in Thread :
           /\ pc'[t] = "print" <=> pc[t] = "print"
           /\ pc'[t] = "print_rest" <=> pc[t] = "print_rest"
           /\ pc'[t] = "found" <=> pc[t] = "found"
           /\ pc[t] \in {"print", "print_rest", "found"} =>
                queue_item'[t] = queue_item[t]
  BY QueueFrame DEF cliVars
<1>3. Showing' = Showing
  <2>1. {u \in Thread : pc'[u] \in {"print_rest", "found"}}
          = {u \in Thread : pc[u] \in {"print_rest", "found"}}
    BY <1>2
  <2>2. \A u \in {v \in Thread : pc[v] \in {"print_rest", "found"}} :
          queue_item'[u] = queue_item[u]
    BY <1>2
  <2> QED
    BY <2>1, <2>2 DEF Showing
<1>4. /\ Range(output) \subseteq Matching(outcome)
      /\ Matching(outcome) \subseteq InHand \cup Range(output)
      /\ InHand \cap Range(output) = Showing
      /\ \A t \in Thread : pc[t] \in {"report", "print", "print_rest", "found"} =>
           queue_item[t] \in Matching(outcome)
  BY DEF FilesInv, OutputInv
<1>5. \A t \in Thread : pc'[t] \in {"report", "print", "print_rest", "found"} =>
        queue_item'[t] \in Matching(outcome)
  BY <1>1, <1>2, <1>4
<1>6. OutputInv' /\ FlagInv'
  BY <1>1, <1>2, <1>3, <1>4, <1>5 DEF FilesInv, OutputInv, FlagInv, Printed, Matching
<1> QED
  BY <1>1, <1>6 DEF FilesInv

\* The path of a file is printed: for the first time.
LEMMA FilesPrintPath ==
  ASSUME CliTypeOK, PrintInv, FilesInv, NEW t \in Thread, PrintPath(t)
  PROVE  FilesInv'
<1> DEFINE i == queue_item[t]
           n == Len(output)
<1>1. /\ pc \in [Thread -> WorkerPC \cup MainPC]
      /\ pc[t] = "print" /\ pc' = [pc EXCEPT ![t] = "print_rest"]
      /\ output' = Append(output, i) /\ i \in Item
      /\ UNCHANGED <<work_queue, queue_item, walk, file_args, outcome, stats,
                     match_found>>
      /\ output \in Seq(Item) /\ n \in Nat /\ DOMAIN output = 1..n
  BY DEF CliTypeOK, PrintPath
<1>2. /\ DOMAIN output' = 1..(n + 1) /\ output'[n + 1] = i
      /\ \A k \in 1..n : output'[k] = output[k]
  BY <1>1
<1>3. n % 2 = 0
  BY <1>1 DEF PrintInv
<1>4. Printed' = Printed \cup {n + 1} /\ Printed \subseteq 1..n
  BY <1>1, <1>2, <1>3 DEF Printed
<1>5. Range(output') = Range(output) \cup {i}
  BY <1>1, <1>2 DEF Range
<1>6. QueueInv' /\ InHand' = InHand /\ CountsRight'
  BY <1>1, NothingMoves DEF FilesInv
<1>7. i \in InHand
  BY <1>1, WorkQueueAssumption DEF InHand, Held
<1>8. Showing' = Showing \cup {i}
  <2>1. {u \in Thread : pc'[u] \in {"print_rest", "found"}}
          = {u \in Thread : pc[u] \in {"print_rest", "found"}} \cup {t}
    BY <1>1
  <2> QED
    BY <1>1, <2>1 DEF Showing
<1>9. i \notin Showing
  <2>1. \A u \in Thread : queue_item[u] = i => u = t
    BY <1>1, WorkQueueAssumption DEF FilesInv, QueueInv
  <2> QED
    BY <1>1, <2>1 DEF Showing
<1>10. i \notin Range(output)
  BY <1>7, <1>9 DEF FilesInv, OutputInv
<1>11. \A j, k \in Printed' : output'[j] = output'[k] => j = k
  <2>1. \A j \in Printed : output[j] # i /\ output'[j] = output[j]
    BY <1>1, <1>2, <1>4, <1>10 DEF Range
  <2>2. \A j, k \in Printed : output[j] = output[k] => j = k
    BY DEF FilesInv, OutputInv
  <2> QED
    BY <1>2, <1>4, <2>1, <2>2
<1>12. i \in Matching(outcome)
  BY <1>1 DEF FilesInv, OutputInv
<1> HIDE DEF i, n
<1>13. \A u \in Thread : pc'[u] \in {"report", "print", "print_rest", "found"} =>
         pc[u] \in {"report", "print", "print_rest", "found"}
  BY <1>1
<1>14. OutputInv'
  BY <1>1, <1>5, <1>6, <1>7, <1>8, <1>11, <1>12, <1>13
  DEF FilesInv, OutputInv, Matching
<1>15. FlagInv'
  BY <1>1, <1>5, <1>6, <1>7 DEF FilesInv, FlagInv, Matching
<1> QED
  BY <1>6, <1>14, <1>15 DEF FilesInv

\* The rest of its lines are printed: nothing new.
LEMMA FilesPrintRest ==
  ASSUME CliTypeOK, PrintInv, FilesInv, NEW t \in Thread, PrintRest(t)
  PROVE  FilesInv'
<1> DEFINE i == queue_item[t]
           n == Len(output)
<1>1. /\ pc \in [Thread -> WorkerPC \cup MainPC]
      /\ pc[t] = "print_rest" /\ pc' = [pc EXCEPT ![t] = "found"]
      /\ output' = Append(output, i) /\ i \in Item
      /\ UNCHANGED <<work_queue, queue_item, walk, file_args, outcome, stats,
                     match_found>>
      /\ output \in Seq(Item) /\ n \in Nat /\ DOMAIN output = 1..n
  BY DEF CliTypeOK, PrintRest
<1>2. /\ DOMAIN output' = 1..(n + 1) /\ output'[n + 1] = i
      /\ \A k \in 1..n : output'[k] = output[k]
  BY <1>1
<1>3. n % 2 = 1 /\ output[n] = i
  BY <1>1 DEF PrintInv
<1>4. Printed' = Printed /\ Printed \subseteq 1..n
  BY <1>1, <1>2, <1>3, SMTT(60) DEF Printed
<1>5. Range(output') = Range(output)
  <2>1. n \in 1..n
    BY <1>1, <1>3
  <2> QED
    BY <1>1, <1>2, <1>3, <2>1 DEF Range
<1>6. QueueInv' /\ InHand' = InHand /\ CountsRight'
  BY <1>1, NothingMoves DEF FilesInv
<1>7. Showing' = Showing
  <2>1. {u \in Thread : pc'[u] \in {"print_rest", "found"}}
          = {u \in Thread : pc[u] \in {"print_rest", "found"}}
    BY <1>1
  <2> QED
    BY <1>1, <2>1 DEF Showing
<1>8. \A j, k \in Printed' : output'[j] = output'[k] => j = k
  BY <1>2, <1>4 DEF FilesInv, OutputInv
<1> HIDE DEF i, n
<1>9. \A u \in Thread : pc'[u] \in {"report", "print", "print_rest", "found"} =>
         pc[u] \in {"report", "print", "print_rest", "found"}
  BY <1>1
<1>10. OutputInv'
  BY <1>1, <1>5, <1>6, <1>7, <1>8, <1>9 DEF FilesInv, OutputInv, Matching
<1>11. FlagInv'
  BY <1>1, <1>5, <1>6 DEF FilesInv, FlagInv, Matching
<1> QED
  BY <1>6, <1>10, <1>11 DEF FilesInv

\* match_found is set, and the file let go of.
LEMMA FilesMatchFound ==
  ASSUME CliTypeOK, FilesInv, NEW t \in Thread, MatchFound(t)
  PROVE  FilesInv'
<1> DEFINE i == queue_item[t]
<1>1. /\ pc \in [Thread -> WorkerPC \cup MainPC]
      /\ queue_item \in [Thread -> Item \cup {None}]
      /\ pc[t] = "found" /\ pc[t] \in Busy /\ Release(t)
      /\ pc' = [pc EXCEPT ![t] = Resume(t)]
      /\ queue_item' = [queue_item EXCEPT ![t] = None]
      /\ Resume(t) \in {"walk", "lock"}
      /\ UNCHANGED <<work_queue, walk, file_args, outcome, stats, output>>
      /\ match_found' = TRUE
  BY DEF CliTypeOK, MatchFound, Release, Resume, Busy
<1>2. /\ QueueInv' /\ InHand' = InHand \ {i} /\ Counted' = Counted
      /\ i \in InHand /\ i \in Item
  BY <1>1, Typed, ReleaseKeeps DEF FilesInv
<1>3. CountsRight'
  BY <1>1, <1>2 DEF FilesInv, CountsRight
<1>4. Showing' = Showing \ {i}
  <2>1. {u \in Thread : pc'[u] \in {"print_rest", "found"}}
          = {u \in Thread : pc[u] \in {"print_rest", "found"}} \ {t}
    BY <1>1
  <2>2. \A u \in Thread : queue_item[u] = i => u = t
    BY <1>2, WorkQueueAssumption DEF FilesInv, QueueInv
  <2>3. \A u \in Thread : u # t => queue_item'[u] = queue_item[u]
    BY <1>1
  <2> QED
    BY <1>1, <2>1, <2>2, <2>3 DEF Showing
<1>5. i \in Range(output) /\ i \in Matching(outcome)
  <2>1. i \in Showing
    BY <1>1 DEF Showing
  <2> QED
    BY <1>1, <2>1 DEF FilesInv, OutputInv
<1>6. \A u \in Thread : pc'[u] \in {"report", "print", "print_rest", "found"} =>
         /\ pc[u] \in {"report", "print", "print_rest", "found"}
         /\ queue_item'[u] = queue_item[u]
  BY <1>1
<1> HIDE DEF i
<1>7. OutputInv'
  BY <1>1, <1>2, <1>4, <1>5, <1>6 DEF FilesInv, OutputInv, Matching, Printed
<1>8. FlagInv'
  BY <1>1, <1>5 DEF FlagInv, Matching
<1> QED
  BY <1>2, <1>3, <1>7, <1>8 DEF FilesInv

\* The walk has all of its files before it when it begins.
LEMMA FilesParseOptions ==
  ASSUME CliTypeOK, RunInv, ParseOptions
  PROVE  FilesInv'
<1>1. /\ Main \in Thread /\ Thread = Worker \cup {Main} /\ Main \notin Worker
      /\ pc \in [Thread -> WorkerPC \cup MainPC]
      /\ pc[Main] = "start" /\ pc' = [pc EXCEPT ![Main] = "spawn"]
      /\ \A w \in Worker : pc[w] = "absent"
      /\ work_queue' = <<>> /\ output' = <<>> /\ ~match_found' /\ stats' = ZeroStats
      /\ UNCHANGED queue_item
  BY WorkQueueAssumption DEF ParseOptions, RunInv, Thread, CliTypeOK, cliVars
<1>2. /\ \A t \in Thread : pc'[t] \in {"absent", "spawn"}
      /\ \A t \in Thread : queue_item'[t] = None
  BY <1>1 DEF CliTypeOK
<1>3. PICK o \in [Item -> Outcome] :
        \E args \in SUBSET Present(o) :
          outcome' = o /\ file_args' = args /\ walk' = Present(o) \ args
  BY DEF ParseOptions
<1>4. PICK args \in SUBSET Present(o) :
        outcome' = o /\ file_args' = args /\ walk' = Present(o) \ args
  BY <1>3
<1>5. QueueInv' /\ InHand' = Present(o) /\ Counted' = {}
  BY <1>1, <1>2, <1>4, AllInHand
<1>6. CountsRight'
  BY <1>1, <1>5, FS_EmptySet DEF CountsRight, ZeroStats
<1>7. Range(output') = {} /\ Showing' = {} /\ Printed' = {}
  BY <1>1, <1>2 DEF Range, Showing, Printed
<1>8. Matching(outcome') \subseteq Present(o)
  BY <1>4 DEF Matching, Present
<1>9. OutputInv' /\ FlagInv'
  BY <1>1, <1>2, <1>5, <1>7, <1>8 DEF OutputInv, FlagInv
<1> QED
  BY <1>5, <1>6, <1>9 DEF FilesInv

\* Every step.
LEMMA FilesStep ==
  ASSUME CliTypeOK, RunInv, PrintInv, FilesInv, [CliNext]_agVars
  PROVE  FilesInv'
<1>1. /\ Main \in Thread /\ Main \notin Worker /\ Worker \subseteq Thread
      /\ pc \in [Thread -> WorkerPC \cup MainPC]
  BY WorkQueueAssumption DEF Thread, CliTypeOK
<1>2. CASE StartWalk \/ EndWalk \/ Exit \/ UNCHANGED agVars
  BY <1>1, <1>2, FilesFrame
  DEF StartWalk, EndWalk, FinishAdding, Wake, Waiting, Exit, agVars, queueVars, cliVars
<1>3. ASSUME NEW w \in Worker, Spawn(w) \/ WorkerReturns(w)
      PROVE  FilesInv'
  BY <1>1, <1>3, FilesFrame DEF Spawn, WorkerReturns, cliVars
<1>4. ASSUME NEW t \in Thread, LockPrint(t)
      PROVE  FilesInv'
  BY <1>1, <1>4, FilesFrame DEF LockPrint
<1> QED
  BY <1>2, <1>3, <1>4, FilesQueueStep, FilesPrintPath, FilesPrintRest,
     FilesMatchFound, FilesParseOptions, NextSteps DEF CliStep

-----------------------------------------------------------------------------
(* The invariant, and what follows from it                                  *)

\* Before main() has done anything.
LEMMA CliInvInit ==
  ASSUME CliInit
  PROVE  CliInv
<1>1. /\ Main \in Thread /\ Thread = Worker \cup {Main} /\ None \notin Thread
      /\ Main \notin Worker
      /\ pc = [t \in Thread |-> IF t = Main THEN "start" ELSE "absent"]
      /\ work_queue = <<>> /\ walk = {} /\ file_args = {}
      /\ \A t \in Thread : queue_item[t] = None
      /\ \A i \in Item : outcome[i] = "absent"
      /\ stats = ZeroStats /\ output = <<>> /\ print_mtx = None /\ ~match_found
  BY WorkQueueAssumption DEF CliInit, Thread, NoSearch
<1> DOMAIN output = {} /\ Len(output) = 0
  BY <1>1
<1>2. /\ Held = {} /\ Range(work_queue) = {} /\ InHand = {} /\ QueueInv
      /\ Range(output) = {} /\ Printed = {} /\ Showing = {}
  BY <1>1 DEF Held, Range, InHand, QueueInv, IsInjective, Printed, Showing
<1>3. Matching(outcome) = {} /\ Counted = {}
  BY <1>1 DEF Matching, Counted
<1>4. CountsRight
  BY <1>1, <1>3, NothingCounted
<1>5. OutputInv /\ FlagInv
  BY <1>1, <1>2, <1>3 DEF OutputInv, FlagInv
<1>6. PrintInv
  BY <1>1 DEF PrintInv, OutputNotInterleaved
<1> QED
  BY <1>2, <1>4, <1>5, <1>6, TypeInit, RunInit DEF CliInv

\* Where every file is, who prints, and how far the program is.
THEOREM CliInvariance == CliSpec => []CliInv
<1>1. CliInv /\ [CliNext]_agVars => CliInv'
  BY TypeStep, RunStep, PrintKeeps, FilesStep DEF CliInv, FilesInv
<1> QED
  BY <1>1, CliInvInit, PTL DEF CliSpec

\* The lines of one file are never broken up by those of another.
THEOREM OutputInPieces == CliSpec => []OutputNotInterleaved
<1>1. CliInv => OutputNotInterleaved
  BY DEF CliInv, PrintInv
<1> QED
  BY <1>1, CliInvariance, PTL

\* Once the workers are joined every match has been printed.
LEMMA AllPrinted ==
  ASSUME CliInv, pc[Main] = "exited"
  PROVE  /\ InHand = {} /\ Range(output) = Matching(outcome)
         /\ Counted = {i \in Item : outcome[i] \in {"nomatch", "match"}}
         /\ Len(output) % 2 = 0
<1>1. /\ \A t \in Thread : pc[t] = "exited" /\ queue_item[t] \notin Item
      /\ walk = {} /\ file_args = {} /\ Thread = Worker \cup {Main}
      /\ queue_item \in [Thread -> Item \cup {None}]
  BY DEF CliInv, RunInv, CliTypeOK, Thread
<1>2. work_queue = <<>>
  BY <1>1, WorkQueueAssumption DEF CliInv, RunInv
<1>3. \A t \in Thread : queue_item[t] = None
  BY <1>1
<1>4. InHand = {}
  BY <1>1, <1>2, <1>3 DEF InHand, Held, Range
<1>5. Range(output) = Matching(outcome)
  BY <1>4 DEF CliInv, OutputInv
<1>6. Counted = {i \in Item : outcome[i] \in {"nomatch", "match"}}
  BY <1>1, <1>2 DEF Counted, Range
<1>7. Len(output) % 2 = 0
  <2>1. Len(output) \in Nat
    BY DEF CliInv, CliTypeOK
  <2>2. Len(output) % 2 # 1
    BY <1>1 DEF CliInv, PrintInv
  <2> QED
    BY <2>1, <2>2
<1> QED
  BY <1>4, <1>5, <1>6, <1>7

\* match_found is written under no mutex, and yet right when main() reads it.
THEOREM ExitStatusRight == CliSpec => []ExitStatusTellsMatch
<1>1. CliInv => ExitStatusTellsMatch
  <2> SUFFICES ASSUME CliInv, pc[Main] = "exited"
               PROVE  match_found <=> Matching(outcome) # {}
    BY DEF ExitStatusTellsMatch
  <2>1. InHand = {} /\ Range(output) = Matching(outcome)
    BY AllPrinted
  <2> QED
    BY <2>1 DEF CliInv, FlagInv, CliTypeOK
<1> QED
  BY <1>1, CliInvariance, PTL

\* When the program has exited, what it printed is the answer of the service.
LEMMA PrintedAll ==
  ASSUME CliInv, pc[Main] = "exited"
  PROVE  /\ Service!Lists([k \in Printed |-> output[k]], Service!Matches(outcome))
         /\ stats = [total_files |-> Cardinality(Service!Reached(outcome)),
                     total_file_matches |-> Cardinality(Service!Matches(outcome))]
<1> DEFINE list == [k \in Printed |-> output[k]]
<1>1. /\ Service!Matches(outcome) = Matching(outcome)
      /\ Service!Reached(outcome) = Counted
      /\ Range(output) = Matching(outcome) /\ Len(output) % 2 = 0
      /\ Counted \cap Matching(outcome) = Matching(outcome)
  BY AllPrinted DEF Service!Matches, Service!Reached, Matching
<1>2. Service!IsInjective(list)
  BY DEF CliInv, OutputInv, Service!IsInjective
<1>3. Service!Range(list) = Range(output)
  <2>1. output \in Seq(Item) /\ Len(output) \in Nat /\ DOMAIN output = 1..Len(output)
    BY DEF CliInv, CliTypeOK
  <2>2. ASSUME NEW k \in 1..Len(output)
        PROVE  \E j \in Printed : output[j] = output[k]
    <3>1. CASE k % 2 = 1
      BY <2>1, <3>1 DEF Printed
    <3>2. CASE k % 2 # 1
      <4>1. k - 1 \in DOMAIN output /\ (k - 1) % 2 = 1 /\ k - 1 < Len(output)
        BY <2>1, <3>2
      <4>2. output[k - 1] = output[k]
        BY <2>1, <4>1 DEF CliInv, PrintInv, OutputNotInterleaved
      <4> QED
        BY <4>1, <4>2 DEF Printed
    <3> QED
      BY <3>1, <3>2
  <2> QED
    BY <2>1, <2>2 DEF Service!Range, Range, Printed
<1>4. stats = [total_files |-> stats.total_files,
               total_file_matches |-> stats.total_file_matches]
  BY DEF CliInv, CliTypeOK
<1>5. stats = [total_files |-> Cardinality(Service!Reached(outcome)),
               total_file_matches |-> Cardinality(Service!Matches(outcome))]
  BY <1>1, <1>4 DEF CliInv, CountsRight
<1> HIDE DEF list
<1> QED
  BY <1>1, <1>2, <1>3, <1>5 DEF Service!Lists, list

\* Whatever the threads do in between, the program prints every file that
\* matches once, with totals to match: it implements the service, for once.
THEOREM Implements == CliSpec => Service!Safety
<1> DEFINE Good ==
      pc[Main] = "exited" =>
        /\ Service!Lists([k \in Printed |-> output[k]], Service!Matches(outcome))
        /\ stats = [total_files |-> Cardinality(Service!Reached(outcome)),
                    total_file_matches |-> Cardinality(Service!Matches(outcome))]
<1>1. CliInv => Good
  BY PrintedAll
<1>2. CliInit => Service!Init
  BY WorkQueueAssumption
  DEF CliInit, Exited, Service!Init, NoSearch, ZeroStats, Thread
<1>3. CliInv /\ Good' /\ [CliNext]_agVars => [Service!Next]_Service!serviceVars
  <2> SUFFICES ASSUME CliInv, Good', [CliNext]_agVars
               PROVE  Service!Next \/ UNCHANGED Service!serviceVars
    BY DEF Service!serviceVars
  <2>1. /\ Main \in Thread /\ Main \notin Worker /\ Thread = Worker \cup {Main}
        /\ pc \in [Thread -> WorkerPC \cup MainPC] /\ CliTypeOK /\ RunInv
    BY WorkQueueAssumption DEF Thread, CliTypeOK, CliInv
  <2>2. CASE ParseOptions
    <3>1. /\ pc[Main] = "start" /\ pc'[Main] = "spawn"
          /\ outcome' \in [Item -> Outcome]
      BY <2>1, <2>2 DEF ParseOptions
    <3>2. Service!Call
      BY <3>1 DEF Service!Call, Service!Request, Outcome, ZeroStats, Exited
    <3> QED
      BY <3>2 DEF Service!Next
  <2>3. CASE Exit
    <3>1. pc[Main] = "join" /\ pc'[Main] = "exited" /\ outcome' = outcome
      BY <2>1, <2>3 DEF Exit
    <3>2. Service!Matches(outcome)' = Service!Matches(outcome)
          /\ Service!Reached(outcome)' = Service!Reached(outcome)
      BY <3>1 DEF Service!Matches, Service!Reached
    <3>3. /\ Service!Lists([k \in Printed |-> output[k]]', Service!Matches(outcome))
          /\ stats' = [total_files |-> Cardinality(Service!Reached(outcome)),
                      total_file_matches |-> Cardinality(Service!Matches(outcome))]
      BY <3>1, <3>2 DEF Service!Lists, Service!IsInjective, Service!Range
    <3>4. \A S : Service!Cardinality(S) = Cardinality(S)
      BY DEF Service!Cardinality, Cardinality
    <3>5. Service!Return
      BY <3>1, <3>3, <3>4 DEF Service!Return, Exited
    <3> QED
      BY <3>5 DEF Service!Next
  <2>4. CASE UNCHANGED agVars
    BY <2>4 DEF agVars, queueVars, cliVars, Service!serviceVars, Exited, Printed
  <2>5. CASE ~ParseOptions /\ ~Exit /\ ~UNCHANGED agVars
    <3>1. /\ pc[Main] \notin {"start", "exited"} /\ pc'[Main] \notin {"start", "exited"}
          /\ outcome' = outcome
      <4>1. CASE OnQueue(QueueStep)
        <5>1. outcome' = outcome
          BY <2>1, <4>1, QueueFrame
        <5> QED
          BY <2>1, <4>1, <5>1
          DEF OnQueue, QueueStep, LockQueue, Dequeue, WaitForFiles, SeeDone,
              SpuriousWakeup, SkipFile, SearchBuf, Release, Resume, LockToEnqueue,
              SearchFileArgument, Enqueue, Signalled, Waiting, Wake, LockToFinish,
              RunInv
      <4>2. CASE CliStep
        BY <2>1, <2>5, <4>2
        DEF CliStep, StartWalk, EndWalk, FinishAdding, Wake, Waiting, Spawn,
            WorkerReturns, LockPrint, PrintPath, PrintRest, MatchFound, Release,
            Resume, RunInv
      <4> QED
        BY <2>5, <4>1, <4>2, NextSteps
    <3> QED
      BY <3>1 DEF Service!serviceVars, Exited
  <2> QED
    BY <2>2, <2>3, <2>4, <2>5
<1> QED
  BY <1>1, <1>2, <1>3, CliInvariance, PTL DEF CliSpec, Service!Safety

-----------------------------------------------------------------------------
(* The walk of the directories                                              *)

\* The directories of the calls on a stack, and that none is there twice.
DirsOf(s) == {s[i].dir : i \in DOMAIN s}

Distinct(s) == \A i, j \in DOMAIN s : s[i].dir = s[j].dir => i = j

\* The inductive invariant: a call in progress is for an argument, so the
\* outermost return goes on to one or to the end.
IInv ==
  /\ TypeOK
  /\ SymhashIsStack
  /\ stack # <<>> => next_path \in DOMAIN paths

-----------------------------------------------------------------------------
(* What calls, returns and the loop do to the directories of a stack.       *)

\* A call of a directory that no call is in adds it.
LEMMA PushDirs ==
  ASSUME NEW s \in Seq(Frame), NEW fr \in Frame,
         Distinct(s), fr.dir \notin DirsOf(s)
  PROVE  /\ Append(s, fr) \in Seq(Frame)
         /\ Distinct(Append(s, fr))
         /\ DirsOf(Append(s, fr)) = DirsOf(s) \cup {fr.dir}
<1> DEFINE t == Append(s, fr)
<1>1. /\ t \in Seq(Frame) /\ Len(t) = Len(s) + 1 /\ DOMAIN t = 1..(Len(s) + 1)
      /\ t[Len(s) + 1] = fr /\ \A i \in 1..Len(s) : t[i] = s[i]
      /\ DOMAIN s = 1..Len(s) /\ Len(s) \in Nat
  OBVIOUS
<1> HIDE DEF t
<1>2. Distinct(t)
  BY <1>1 DEF Distinct, DirsOf
<1>3. DirsOf(t) = DirsOf(s) \cup {fr.dir}
  <2>1. DirsOf(t) \subseteq DirsOf(s) \cup {fr.dir}
    BY <1>1 DEF DirsOf
  <2>2. DirsOf(s) \subseteq DirsOf(t)
    BY <1>1 DEF DirsOf
  <2>3. fr.dir \in DirsOf(t)
    BY <1>1 DEF DirsOf
  <2> QED
    BY <2>1, <2>2, <2>3
<1> QED
  BY <1>1, <1>2, <1>3 DEF t

\* The return of the innermost call takes its directory out.
LEMMA PopDirs ==
  ASSUME NEW s \in Seq(Frame), s # <<>>, Distinct(s)
  PROVE  LET t == SubSeq(s, 1, Len(s) - 1) IN
           /\ t \in Seq(Frame)
           /\ Distinct(t)
           /\ DirsOf(t) = DirsOf(s) \ {s[Len(s)].dir}
<1> DEFINE t == SubSeq(s, 1, Len(s) - 1)
<1>1. /\ DOMAIN s = 1..Len(s) /\ Len(s) \in Nat \ {0}
      /\ t \in Seq(Frame) /\ DOMAIN t = 1..(Len(s) - 1)
      /\ \A i \in 1..(Len(s) - 1) : t[i] = s[i]
  OBVIOUS
<1> HIDE DEF t
<1>2. Distinct(t)
  BY <1>1 DEF Distinct
<1>3. DirsOf(t) = DirsOf(s) \ {s[Len(s)].dir}
  <2>1. ASSUME NEW d \in DirsOf(t)
        PROVE  d \in DirsOf(s) \ {s[Len(s)].dir}
    BY <1>1, <2>1 DEF Distinct, DirsOf
  <2>2. ASSUME NEW d \in DirsOf(s) \ {s[Len(s)].dir}
        PROVE  d \in DirsOf(t)
    BY <1>1, <2>2 DEF DirsOf
  <2> QED
    BY <2>1, <2>2
<1> QED
  BY <1>1, <1>2, <1>3 DEF t

\* The loop of the innermost call moves on in the same directory.
LEMMA PastDirs ==
  ASSUME NEW x \in Name, stack \in Seq(Frame), stack # <<>>, Distinct(stack)
  PROVE  /\ Past(x) \in Seq(Frame)
         /\ Distinct(Past(x))
         /\ DirsOf(Past(x)) = DirsOf(stack)
<1> DEFINE n == Len(stack)
           top == [stack[n] EXCEPT !.todo = @ \ {x}]
<1>1. n \in 1..n /\ DOMAIN stack = 1..n /\ stack[n] \in Frame
  OBVIOUS
<1>2. top \in Frame /\ top.dir = stack[n].dir
  BY <1>1 DEF Frame
<1>3. Past(x) = [stack EXCEPT ![n] = top]
  BY DEF Past
<1> HIDE DEF top
<1>4. /\ Past(x) \in Seq(Frame) /\ DOMAIN Past(x) = DOMAIN stack
      /\ \A i \in DOMAIN stack : Past(x)[i].dir = stack[i].dir
  BY <1>1, <1>2, <1>3
<1> QED
  BY <1>4 DEF Distinct, DirsOf

\* The innermost call and the paths of its entries are of their types.
LEMMA TopTyped ==
  ASSUME stack \in Seq(Frame), stack # <<>>, NEW x \in Name
  PROVE  /\ Top \in Frame
         /\ Top.dir \in DirsOf(stack)
         /\ PathOf(x) \in Path
<1>1. Len(stack) \in DOMAIN stack /\ stack[Len(stack)] \in Frame
  OBVIOUS
<1>2. Top \in Frame /\ Top.dir \in DirsOf(stack)
  BY <1>1 DEF Top, DirsOf
<1>3. Top.path \in Path
  BY <1>2 DEF Frame
<1>4. Append(Top.path.names, x) \in Seq(Name)
  BY <1>3 DEF Path
<1> QED
  BY <1>2, <1>3, <1>4 DEF PathOf, Path

-----------------------------------------------------------------------------
\* A call that reaches its loop keeps the invariant of symhash and the stack.
LEMMA ReadsStep ==
  ASSUME TypeOK, NEW callers \in Seq(Frame), Distinct(callers),
         DirsOf(callers) = symhash,
         NEW d, NEW path \in Path, NEW rules \in SUBSET Name,
         Reads(callers, d, path, rules)
  PROVE  symhash' \in SUBSET Dir /\ stack' \in Seq(Frame) /\ SymhashIsStack'
<1> DEFINE all == rules \cup fs.ignore[d]
           fr == [dir |-> d, path |-> path,
                  rules |-> all, todo |-> ag_scandir(d, all)]
<1>1. d \in Dir /\ d \notin symhash
  BY DEF Reads, check_symloop_enter
<1>2. all \in SUBSET Name /\ ag_scandir(d, all) \in SUBSET Name
  BY <1>1 DEF ag_scandir, TypeOK, FileSystem
<1>3. fr \in Frame /\ fr.dir = d
  BY <1>1, <1>2 DEF Frame
<1>4. stack' = Append(callers, fr) /\ symhash' = symhash \cup {d}
  BY DEF Reads
<1> HIDE DEF fr
<1>5. /\ stack' \in Seq(Frame) /\ Distinct(stack')
      /\ DirsOf(stack') = symhash'
  BY <1>1, <1>3, <1>4, PushDirs
<1> QED
  BY <1>1, <1>4, <1>5 DEF SymhashIsStack, TypeOK, DirsOf, Distinct

\* The walk starts with an empty hash and no call in progress.
LEMMA InvInit ==
  ASSUME Init
  PROVE  IInv
<1>1. TypeOK
  BY DirWalkAssumption DEF Init, TypeOK
<1> QED
  BY <1>1 DEF Init, IInv, SymhashIsStack

\* Each step of the walk keeps it.
LEMMA InvStep ==
  ASSUME IInv, [Next]_vars
  PROVE  IInv'
<1> USE DEF IInv
<1>1. /\ stack \in Seq(Frame) /\ Distinct(stack) /\ DirsOf(stack) = symhash
      /\ next_path \in 1..(Len(paths) + 1)
      /\ paths \in Seq(Entry) /\ DOMAIN paths = 1..Len(paths)
      /\ Len(paths) \in Nat
  BY DEF TypeOK, SymhashIsStack, Distinct, DirsOf
<1>2. CASE SearchPath
  <2> DEFINE none == <<>>
             norules == {}
             path == [arg |-> next_path, names |-> <<>>]
             d == paths[next_path].node
  <2>1. none \in Seq(Frame) /\ Distinct(none) /\ DirsOf(none) = symhash
    BY <1>1, <1>2 DEF SearchPath, Distinct
  <2>2. path \in Path /\ norules \in SUBSET Name
    BY <1>1 DEF Path
  <2>3. Reads(none, d, path, norules)
    BY <1>2 DEF SearchPath
  <2> HIDE DEF none, norules, path, d
  <2>4. symhash' \in SUBSET Dir /\ stack' \in Seq(Frame) /\ SymhashIsStack'
    BY <2>1, <2>2, <2>3, ReadsStep
  <2> QED
    BY <1>2, <2>4 DEF SearchPath, Reads, TypeOK, given, found
<1>3. CASE SearchNoDirectory
  BY <1>1, <1>3 DEF SearchNoDirectory, TypeOK, given, SymhashIsStack
<1>4. ASSUME NEW x \in Name, stack # <<>>, SkipEntry(x)
      PROVE  IInv'
  <2>1. stack' \in Seq(Frame) /\ Distinct(stack') /\ DirsOf(stack') = symhash'
    BY <1>1, <1>4, PastDirs DEF SkipEntry
  <2> QED
    BY <1>4, <2>1
       DEF SkipEntry, TypeOK, given, found, SymhashIsStack, Distinct, DirsOf
<1>5. ASSUME NEW x \in Name, stack # <<>>, FoundFile(x)
      PROVE  IInv'
  <2>1. PathOf(x) \in Path
    BY <1>1, <1>5, TopTyped
  <2>2. stack' \in Seq(Frame) /\ Distinct(stack') /\ DirsOf(stack') = symhash'
    BY <1>1, <1>5, PastDirs DEF FoundFile
  <2>3. queued' \in SUBSET Path /\ listed' \in SUBSET Path
    BY <2>1, <1>5 DEF FoundFile, TypeOK
  <2> QED
    BY <1>5, <2>2, <2>3
       DEF FoundFile, TypeOK, given, SymhashIsStack, Distinct, DirsOf
<1>6. ASSUME NEW x \in Name, stack # <<>>, SearchSubdir(x)
      PROVE  IInv'
  <2> DEFINE d == fs.entry[Top.dir][x].node
  <2>1. /\ Past(x) \in Seq(Frame) /\ Distinct(Past(x))
        /\ DirsOf(Past(x)) = symhash
    BY <1>1, <1>6, PastDirs
  <2>2. PathOf(x) \in Path /\ Top.rules \in SUBSET Name
    BY <1>1, <1>6, TopTyped DEF Frame
  <2>3. symhash' \in SUBSET Dir /\ stack' \in Seq(Frame) /\ SymhashIsStack'
    <3>1. CASE Reads(Past(x), d, PathOf(x), Top.rules)
      BY <2>1, <2>2, <3>1, ReadsStep
    <3>2. CASE ReturnsAtOnce(Past(x), d)
      BY <2>1, <3>2
         DEF ReturnsAtOnce, TypeOK, SymhashIsStack, Distinct, DirsOf
    <3> QED
      BY <1>6, <3>1, <3>2 DEF SearchSubdir
  <2> QED
    BY <1>6, <2>3 DEF SearchSubdir, TypeOK, given, found
<1>7. ASSUME stack # <<>>, LeaveDir
      PROVE  IInv'
  <2>1. /\ stack' \in Seq(Frame) /\ Distinct(stack')
        /\ DirsOf(stack') = symhash'
    BY <1>1, <1>7, PopDirs DEF LeaveDir, check_symloop_leave, Top
  <2>2. /\ next_path' \in 1..(Len(paths) + 1)
        /\ stack' # <<>> => next_path' = next_path
    BY <1>1, <1>7 DEF LeaveDir
  <2> QED
    BY <1>7, <2>1, <2>2
       DEF LeaveDir, check_symloop_leave, TypeOK, given, found, SymhashIsStack,
           Distinct, DirsOf
<1>8. CASE UNCHANGED vars
  BY <1>8 DEF vars, given, found, TypeOK, SymhashIsStack
<1> QED
  BY <1>2, <1>3, <1>4, <1>5, <1>6, <1>7, <1>8 DEF Next, search_dir

\* The invariant holds all along every walk.
LEMMA Invariance == Spec => []IInv
<1> QED
  BY InvInit, InvStep, PTL DEF Spec

-----------------------------------------------------------------------------
\* The variables keep their types, on every file system.
THEOREM TypeCorrect == Spec => []TypeOK
<1>1. IInv => TypeOK
  BY DEF IInv
<1> QED
  BY Invariance, <1>1, PTL

\* Whatever the links between directories, symhash is the set of directories
\* search_dir is in, none of them twice, so no walk recurses deeper than there
\* are directories and no argument finds a directory left over by another.
THEOREM HashIsStack == Spec => []SymhashIsStack
<1>1. IInv => SymhashIsStack
  BY DEF IInv
<1> QED
  BY Invariance, <1>1, PTL

-----------------------------------------------------------------------------
(* Sequences and numbers, whatever they stand for.                          *)

\* A sequence with one element more.
LEMMA AppendFacts ==
  ASSUME NEW T, NEW s \in Seq(T), NEW e \in T
  PROVE  /\ Append(s, e) \in Seq(T) /\ Len(s) \in Nat
         /\ Len(Append(s, e)) = Len(s) + 1
         /\ Append(s, e)[Len(s) + 1] = e
         /\ \A i \in 1..Len(s) : Append(s, e)[i] = s[i] /\ s[i] \in T
         /\ s # <<>> => Len(s) >= 1
OBVIOUS

\* A sequence with one element replaced.
LEMMA UpdateFacts ==
  ASSUME NEW T, NEW s \in Seq(T), NEW n \in 1..Len(s), NEW e \in T
  PROVE  LET t == [s EXCEPT ![n] = e] IN
         /\ t \in Seq(T) /\ Len(t) = Len(s) /\ t[n] = e
         /\ \A k \in 1..Len(s) : k # n => t[k] = s[k]
OBVIOUS

\* A sequence without its last element.
LEMMA ButLastFacts ==
  ASSUME NEW T, NEW s \in Seq(T), s # <<>>
  PROVE  LET t == SubSeq(s, 1, Len(s) - 1) IN
         /\ Len(s) \in Nat /\ Len(s) >= 1
         /\ t \in Seq(T) /\ Len(t) = Len(s) - 1
         /\ \A k \in 1..(Len(s) - 1) : t[k] = s[k]
<1> DEFINE t == SubSeq(s, 1, Len(s) - 1)
<1>1. Len(s) \in Nat /\ Len(s) >= 1 /\ Len(s) - 1 \in Nat
  OBVIOUS
<1>2. /\ t \in Seq(T) /\ DOMAIN t = 1..(Len(s) - 1)
      /\ \A k \in 1..(Len(s) - 1) : t[k] = s[k]
  OBVIOUS
<1> HIDE DEF t
<1>3. Len(t) = Len(s) - 1
  BY <1>1, <1>2
<1> QED
  BY <1>1, <1>2, <1>3 DEF t

\* The empty sequence is the one of length 0.
LEMMA LenZero ==
  ASSUME NEW T, NEW s \in Seq(T)
  PROVE  Len(s) \in Nat /\ (s = <<>> <=> Len(s) = 0)
OBVIOUS

\* A sequence as a function.
LEMMA SeqIsFunction ==
  ASSUME NEW T, NEW q \in Seq(T)
  PROVE  q \in [1..Len(q) -> T]
OBVIOUS

\* A set of naturals that is not empty has a lowest element: proofs that
\* go on from a number to the next refute the lowest counterexample.
LEMMA LowestExists ==
  ASSUME NEW S, S \subseteq Nat, S # {}
  PROVE  \E x \in S : \A y \in S : x <= y
<1> DEFINE Lower == {ss \in Nat \X Nat : ss[1] < ss[2]}
<1>1. IsWellFoundedOn(Lower, Nat)
  BY NatLessThanWellFounded DEF OpToRel
<1>2. PICK x \in S : \A y \in S : <<y, x>> \notin Lower
  <2> HIDE DEF Lower
  <2> QED  BY <1>1, WFMin
<1>3. \A y, z \in Nat : y < z => <<y, z>> \in Lower
  BY Zenon
<1>4. \A y \in S : x =< y
  <2> SUFFICES ASSUME NEW y \in S, ~(x =< y) PROVE FALSE  OBVIOUS
  <2>1. x \in Nat /\ y \in Nat  BY <1>2
  <2>2. y < x  BY <2>1
  <2> HIDE DEF Lower
  <2> QED  BY <1>2, <1>3, <2>1, <2>2
<1> QED  BY <1>2, <1>4

-----------------------------------------------------------------------------
(* The way a path takes through the directories.                            *)

\* One name further.
Onward(d, x) ==
  IF d \in Dir /\ x \in DOMAIN fs.entry[d] THEN fs.entry[d][x].node ELSE Missing

\* Route, a recursive function, does what its definition says: there is
\* such a function for each number of names.
LEMMA RouteGoesOn ==
  ASSUME NEW k, NEW names \in Seq(Name)
  PROVE  LET node == Route(k, names) IN
           /\ node[0] = paths[k].node
           /\ \A i \in 1..Len(names) : node[i] = Onward(node[i - 1], names[i])
<1> DEFINE N == Len(names)
           IsRoute(f, n) ==
             f = [i \in 0..n |-> IF i = 0 THEN paths[k].node
                                 ELSE Onward(f[i - 1], names[i])]
           Bad == {n \in Nat : ~\E f : IsRoute(f, n)}
<1>1. Bad = {}
  <2> SUFFICES ASSUME Bad # {} PROVE FALSE  OBVIOUS
  <2>1. PICK n \in Bad : \A m \in Bad : n <= m
    <3> HIDE DEF Bad
    <3>1. Bad \subseteq Nat  BY DEF Bad
    <3> QED  BY <3>1, LowestExists
  <2>2. CASE n = 0
    <3> DEFINE f == [i \in 0..0 |-> paths[k].node]
    <3>1. IsRoute(f, 0)  OBVIOUS
    <3> QED  BY <2>1, <2>2, <3>1
  <2>3. CASE n # 0
    <3>1. n \in Nat /\ n - 1 \in Nat /\ n - 1 \notin Bad
      <4>1. n \in Nat BY DEF Bad
      <4> HIDE DEF Bad
      <4> QED  BY <2>1, <2>3, <4>1
    <3>2. PICK g : IsRoute(g, n - 1)  BY <3>1
    <3> DEFINE f == [i \in 0..n |->
                  IF i = n THEN Onward(g[n - 1], names[n]) ELSE g[i]]
    <3>3. f[0] = paths[k].node  BY <2>3, <3>1, <3>2
    <3>4. \A i \in 1..n : f[i] = Onward(f[i - 1], names[i])
      <4>1. \A i \in 1..(n - 1) : g[i] = Onward(g[i - 1], names[i])
        BY <3>1, <3>2
      <4>2. \A i \in 0..(n - 1) : f[i] = g[i]  BY <3>1
      <4>3. f[n] = Onward(g[n - 1], names[n])  BY <3>1
      <4>4. n - 1 \in 0..(n - 1)  BY <2>3, <3>1
      <4> HIDE DEF f, IsRoute
      <4> QED  BY <3>1, <4>1, <4>2, <4>3, <4>4
    <3>5. IsRoute(f, n)
      <4>1. f = [i \in 0..n |-> f[i]]  OBVIOUS
      <4>2. \A i \in 0..n : f[i] = IF i = 0 THEN paths[k].node
                                   ELSE Onward(f[i - 1], names[i])
        <5> HIDE DEF f
        <5> QED  BY <3>1, <3>3, <3>4
      <4> HIDE DEF f
      <4>3. [i \in 0..n |-> f[i]]
              = [i \in 0..n |-> IF i = 0 THEN paths[k].node
                                ELSE Onward(f[i - 1], names[i])]
        BY <4>2
      <4> QED  BY <4>1, <4>3
    <3> QED  BY <2>1, <3>5
  <2> QED  BY <2>2, <2>3
<1>2. N \in Nat  OBVIOUS
<1>3. \E f : IsRoute(f, N)  BY <1>1, <1>2
<1>4. IsRoute(Route(k, names), N)
  <2>1. Route(k, names) = CHOOSE f : IsRoute(f, N)  BY DEF Route, Onward
  <2> HIDE DEF IsRoute
  <2> QED  BY <1>3, <2>1
<1> QED  BY <1>2, <1>4

-----------------------------------------------------------------------------
(* The calls in progress, as a sequence of its own.                         *)

\* SkippedAt, of a directory at a level below argument np.
SkipsIn(d, np, level, x) ==
  LET e == fs.entry[d][x] IN
    \/ opts.one_dev /\ st_dev(e, fs.dev[d]) # original_dev(np)
    \/ is_directory(e) /\ (~opts.recurse_dirs \/ TooDeep(level))
    \/ ~is_directory(e) /\ opts.file_search # "any" /\ x \notin fs.matching

\* What DescentInv says of the k-th call of the stack s.
FrameOn(s, np, k) ==
  /\ s[k].dir \in Dir \ fs.unreadable
  /\ s[k].path.arg = np
  /\ Len(s[k].path.names) = k - 1
  /\ \A j \in 1..(k - 1) : s[k].path.names[j] = s[j + 1].path.names[j]
  /\ s[k].rules = UNION {fs.ignore[s[j].dir] : j \in 1..k}
  /\ s[k].todo \subseteq ag_scandir(s[k].dir, s[k].rules)

\* What it says of the k-th and the next.
EntersNext(s, np, k) ==
  LET x == s[k + 1].path.names[k] IN
    /\ x \in ag_scandir(s[k].dir, s[k].rules)
    /\ s[k + 1].dir = fs.entry[s[k].dir][x].node
    /\ ~SkipsIn(s[k].dir, np, k - 1, x)

\* DescentInv, of a stack s for argument np.
Descent(s, np) ==
  /\ s # <<>> => np \in DOMAIN paths /\ s[1].dir = paths[np].node
  /\ \A k \in 1..Len(s) : FrameOn(s, np, k)
  /\ \A k \in 1..(Len(s) - 1) : EntersNext(s, np, k)

\* DescentInv is this of the present stack.
LEMMA DescentIs ==
  ASSUME stack \in Seq(Frame)
  PROVE  DescentInv <=> Descent(stack, next_path)
<1>1. DOMAIN stack = 1..Len(stack)
  OBVIOUS
<1> QED
  BY <1>1 DEF DescentInv, Descent, FrameOn, EntersNext, SkipsIn, SkippedAt

\* DescentInv holds next if it holds now of the next stack.
LEMMA DescentNext ==
  ASSUME UNCHANGED given, NEW s \in Seq(Frame), stack' = s, NEW np,
         next_path' = np, Descent(s, np)
  PROVE  DescentInv'
<1>1. DOMAIN s = 1..Len(s)
  OBVIOUS
<1>2. fs' = fs /\ opts' = opts /\ paths' = paths
  BY DEF given
<1>3. \A d, rules : ag_scandir(d, rules)' = ag_scandir(d, rules)
  BY <1>2 DEF ag_scandir, filename_filter
<1>4. \A k, x : SkippedAt(k, x)' <=> SkipsIn(s[k].dir, np, k - 1, x)
  BY <1>2 DEF SkippedAt, SkipsIn, st_dev, original_dev, is_directory, TooDeep
<1>5. stack' # <<>> => /\ next_path' \in DOMAIN paths'
                       /\ stack'[1].dir = paths'[next_path'].node
  BY <1>2 DEF Descent
<1>6. \A k \in 1..Len(s) : FrameOn(s, np, k)
  BY DEF Descent
<1>7. \A k \in 1..(Len(s) - 1) : EntersNext(s, np, k)
  BY DEF Descent
<1>8. ASSUME NEW k \in DOMAIN s
      PROVE  (/\ stack[k].dir \in Dir \ fs.unreadable
              /\ stack[k].path.arg = next_path
              /\ Len(stack[k].path.names) = k - 1
              /\ \A j \in 1..(k - 1) :
                   stack[k].path.names[j] = stack[j + 1].path.names[j]
              /\ stack[k].rules = UNION {fs.ignore[stack[j].dir] : j \in 1..k}
              /\ stack[k].todo \subseteq ag_scandir(stack[k].dir, stack[k].rules))'
  <2>1. FrameOn(s, np, k)
    BY <1>1, <1>6, <1>8
  <2>2. ag_scandir(stack[k].dir, stack[k].rules)'
          = ag_scandir(s[k].dir, s[k].rules)
    BY <1>2 DEF ag_scandir, filename_filter
  <2> QED
    BY <1>2, <2>1, <2>2 DEF FrameOn
<1>9. ASSUME NEW k \in 1..(Len(s) - 1)
      PROVE  (LET x == stack[k + 1].path.names[k] IN
                /\ x \in ag_scandir(stack[k].dir, stack[k].rules)
                /\ stack[k + 1].dir = fs.entry[stack[k].dir][x].node
                /\ ~SkippedAt(k, x))'
  <2>1. EntersNext(s, np, k)
    BY <1>7
  <2>2. ag_scandir(stack[k].dir, stack[k].rules)'
          = ag_scandir(s[k].dir, s[k].rules)
    BY <1>2 DEF ag_scandir, filename_filter
  <2>3. SkippedAt(k, stack[k + 1].path.names[k])'
          <=> SkipsIn(s[k].dir, np, k - 1, s[k + 1].path.names[k])
    BY <1>2 DEF SkippedAt, SkipsIn, st_dev, original_dev, is_directory, TooDeep
  <2> QED
    BY <1>2, <2>1, <2>2, <2>3 DEF EntersNext
<1> QED
  BY <1>1, <1>5, <1>8, <1>9 DEF DescentInv

\* The calls of t are those of s, with no more entries left.
Kept(s, t) ==
  /\ Len(t) <= Len(s)
  /\ \A k \in 1..Len(t) : /\ t[k].dir = s[k].dir /\ t[k].path = s[k].path
                          /\ t[k].rules = s[k].rules
                          /\ t[k].todo \subseteq s[k].todo

\* What a return or a step of the loop leaves of the calls stays right.
LEMMA KeptDescent ==
  ASSUME NEW s \in Seq(Frame), NEW t \in Seq(Frame), NEW np, Descent(s, np),
         Kept(s, t)
  PROVE  Descent(t, np)
<1>1. /\ Len(s) \in Nat /\ Len(t) \in Nat
      /\ t # <<>> => Len(t) >= 1
      /\ s = <<>> => Len(s) = 0
  OBVIOUS
<1>2. t # <<>> => s # <<>> /\ 1 \in 1..Len(t)
  BY <1>1 DEF Kept
<1>3. ASSUME NEW k \in 1..Len(t) PROVE FrameOn(t, np, k)
  <2>1. FrameOn(s, np, k)
    BY <1>1 DEF Descent, Kept
  <2>2. \A j \in 1..k : j \in 1..Len(t)
    BY <1>1
  <2>3. {fs.ignore[s[j].dir] : j \in 1..k}
          = {fs.ignore[t[j].dir] : j \in 1..k}
    BY <2>2 DEF Kept
  <2>4. \A j \in 1..(k - 1) : j + 1 \in 1..Len(t)
    BY <1>1
  <2> QED
    BY <2>1, <2>2, <2>3, <2>4 DEF FrameOn, Kept
<1>4. ASSUME NEW k \in 1..(Len(t) - 1) PROVE EntersNext(t, np, k)
  <2>1. k \in 1..Len(t) /\ k + 1 \in 1..Len(t) /\ k \in 1..(Len(s) - 1)
    BY <1>1 DEF Kept
  <2>2. EntersNext(s, np, k)
    BY <2>1 DEF Descent
  <2> QED
    BY <2>1, <2>2 DEF EntersNext, Kept
<1> QED
  BY <1>2, <1>3, <1>4 DEF Descent, Kept

\* The call fr, by entry x of the innermost call of s.
Entered(s, np, fr, x) ==
  LET top == s[Len(s)] IN
    /\ x \in ag_scandir(top.dir, top.rules)
    /\ fr.dir = fs.entry[top.dir][x].node
    /\ ~SkipsIn(top.dir, np, Len(s) - 1, x)
    /\ fr.dir \in Dir \ fs.unreadable
    /\ fr.path.arg = np
    /\ fr.path.names = Append(top.path.names, x)
    /\ fr.rules = top.rules \cup fs.ignore[fr.dir]
    /\ fr.todo \subseteq ag_scandir(fr.dir, fr.rules)

\* A call by an entry of the innermost directory goes on with the descent.
LEMMA PushDescent ==
  ASSUME NEW s \in Seq(Frame), NEW np, NEW fr \in Frame, NEW x \in Name,
         s # <<>>, Descent(s, np), Entered(s, np, fr, x)
  PROVE  Descent(Append(s, fr), np)
<1> DEFINE n == Len(s)
           t == Append(s, fr)
<1>1. /\ n \in Nat /\ n >= 1 /\ Len(t) = n + 1
      /\ t[n + 1] = fr /\ \A i \in 1..n : t[i] = s[i] /\ s[i] \in Frame
  BY AppendFacts
<1> HIDE DEF t
<1>2. n \in 1..n /\ FrameOn(s, np, n)
  BY <1>1 DEF Descent
<1>3. s[n].path.names \in Seq(Name)
  BY <1>1, <1>2 DEF Frame, Path
<1>4. /\ Len(fr.path.names) = n /\ fr.path.names[n] = x
      /\ \A j \in 1..(n - 1) : fr.path.names[j] = s[n].path.names[j]
  <2>1. /\ Len(s[n].path.names) = n - 1
        /\ fr.path.names = Append(s[n].path.names, x)
    BY <1>2 DEF FrameOn, Entered
  <2>2. (n - 1) + 1 = n
    BY <1>1
  <2> DEFINE a == s[n].path.names
  <2>3. a \in Seq(Name)
    BY <1>3
  <2> HIDE DEF a
  <2>4. /\ Len(Append(a, x)) = Len(a) + 1 /\ Append(a, x)[Len(a) + 1] = x
        /\ \A i \in 1..Len(a) : Append(a, x)[i] = a[i]
    BY <2>3, AppendFacts
  <2> QED
    BY <2>1, <2>2, <2>4 DEF a
<1>5. \A j \in 1..(n - 1) : j \in 1..n /\ j + 1 \in 1..n
  BY <1>1
<1>6. 1..(n + 1) = 1..n \cup {n + 1} /\ (n + 1) - 1 = n
  BY <1>1
<1>7. ASSUME NEW k \in 1..n PROVE FrameOn(t, np, k)
  <2>1. FrameOn(s, np, k)
    BY DEF Descent
  <2>2. /\ \A j \in 1..k : j \in 1..n
        /\ \A j \in 1..(k - 1) : j + 1 \in 1..n
    BY <1>1
  <2>3. {fs.ignore[s[j].dir] : j \in 1..k}
          = {fs.ignore[t[j].dir] : j \in 1..k}
    BY <1>1, <2>2
  <2> HIDE DEF n
  <2> QED
    BY <1>1, <2>1, <2>2, <2>3 DEF FrameOn
<1>8. FrameOn(t, np, n + 1)
  <2>1. \A j \in 1..n : fr.path.names[j] = t[j + 1].path.names[j]
    <3> TAKE j \in 1..n
    <3>1. CASE j = n
      BY <1>1, <3>1
    <3>2. CASE j # n
      <4>1. j \in 1..(n - 1) /\ j + 1 \in 1..n
        BY <1>1, <3>2
      <4>2. s[n].path.names[j] = s[j + 1].path.names[j]
        BY <1>2, <4>1 DEF FrameOn
      <4> QED
        BY <1>1, <1>4, <4>1, <4>2
    <3> QED
      BY <3>1, <3>2
  <2>2. UNION {fs.ignore[t[j].dir] : j \in 1..(n + 1)} = fr.rules
    <3>1. s[n].rules = UNION {fs.ignore[s[j].dir] : j \in 1..n}
      BY <1>2 DEF FrameOn
    <3>2. {fs.ignore[t[j].dir] : j \in 1..n}
            = {fs.ignore[s[j].dir] : j \in 1..n}
      BY <1>1
    <3>3. {fs.ignore[t[j].dir] : j \in 1..(n + 1)}
            = {fs.ignore[t[j].dir] : j \in 1..n} \cup {fs.ignore[fr.dir]}
      BY <1>1, <1>6
    <3>4. fr.rules = s[n].rules \cup fs.ignore[fr.dir]
      BY DEF Entered
    <3> QED
      BY <3>1, <3>2, <3>3, <3>4
  <2>3. /\ fr.dir \in Dir \ fs.unreadable /\ fr.path.arg = np
        /\ fr.todo \subseteq ag_scandir(fr.dir, fr.rules)
    BY DEF Entered
  <2> HIDE DEF n
  <2> QED
    BY <1>1, <1>4, <1>6, <2>1, <2>2, <2>3 DEF FrameOn
<1>9. ASSUME NEW k \in 1..n PROVE EntersNext(t, np, k)
  <2>1. CASE k = n
    BY <1>1, <1>2, <1>4, <2>1 DEF EntersNext, Entered
  <2>2. CASE k # n
    <3>1. k \in 1..(n - 1)
      BY <1>1, <2>2
    <3>2. EntersNext(s, np, k)
      BY <3>1 DEF Descent
    <3> QED
      BY <1>1, <1>5, <3>1, <3>2 DEF EntersNext
  <2> QED
    BY <2>1, <2>2
<1>10. np \in DOMAIN paths /\ t[1].dir = paths[np].node /\ t # <<>>
  BY <1>1 DEF Descent
<1> QED
  BY <1>1, <1>6, <1>7, <1>8, <1>9, <1>10 DEF Descent, t

-----------------------------------------------------------------------------
(* Where the calls in progress are on the way of a path.                    *)

\* ag_scandir gives the entries filename_filter lets through.
LEMMA ScanFacts ==
  ASSUME NEW d, NEW rules
  PROVE  /\ ag_scandir(d, rules) \subseteq DOMAIN fs.entry[d]
         /\ \A x \in ag_scandir(d, rules) :
              /\ x \notin rules
              /\ opts.follow_symlinks \/ ~fs.entry[d][x].link
              /\ fs.entry[d][x].link \/ fs.entry[d][x].node # Fifo
         /\ \A x \in DOMAIN fs.entry[d] :
              /\ x \notin rules
              /\ opts.follow_symlinks \/ ~fs.entry[d][x].link
              /\ fs.entry[d][x].link \/ fs.entry[d][x].node # Fifo
              => x \in ag_scandir(d, rules)
BY DEF ag_scandir, filename_filter

\* The names begin with those of the path of the k-th call.
Along(s, k, names) == \A j \in 1..(k - 1) : names[j] = s[k].path.names[j]

\* A path that begins with the names of a call in progress leads through
\* the directories of the calls down to that one.
LEMMA RouteAlong ==
  ASSUME NEW s \in Seq(Frame), NEW np, Descent(s, np), NEW k \in 1..Len(s),
         NEW names \in Seq(Name), k - 1 <= Len(names), Along(s, k, names)
  PROVE  \A j \in 1..k : Route(np, names)[j - 1] = s[j].dir
<1> DEFINE node == Route(np, names)
           Bad == {j \in 1..k : node[j - 1] # s[j].dir}
<1>1. /\ node[0] = paths[np].node
      /\ \A i \in 1..Len(names) : node[i] = Onward(node[i - 1], names[i])
  BY RouteGoesOn
<1> HIDE DEF node
<1>2. Len(s) \in Nat /\ s # <<>> /\ k \in Nat /\ k >= 1 /\ Len(names) \in Nat
  OBVIOUS
<1>3. SUFFICES ASSUME Bad # {} PROVE FALSE
  BY DEF node
<1>4. Bad \subseteq Nat
  BY <1>2
<1>5. PICK j \in Bad : \A i \in Bad : j <= i
  <2> HIDE DEF Bad
  <2> QED
    BY <1>3, <1>4, LowestExists
<1>6. j \in 1..k /\ node[j - 1] # s[j].dir
  BY <1>5
<1>7. s[1].dir = paths[np].node
  BY <1>2 DEF Descent
<1>8. j # 1
  BY <1>1, <1>6, <1>7
<1> DEFINE i == j - 1
<1>9. /\ i \in 1..k
      /\ i \in 1..(Len(s) - 1)
      /\ i \in 1..Len(names)
      /\ i \in 1..(k - 1)
      /\ i + 1 = j /\ i < j
  BY <1>2, <1>6, <1>8
<1> HIDE DEF i
<1>10. node[i - 1] = s[i].dir
  BY <1>5, <1>6, <1>9
<1>11. names[i] = s[i + 1].path.names[i]
  <2>1. FrameOn(s, np, k) /\ names[i] = s[k].path.names[i]
    BY <1>2, <1>9 DEF Descent, Along
  <2> QED
    BY <1>9, <2>1 DEF FrameOn
<1>12. EntersNext(s, np, i)
  BY <1>9 DEF Descent
<1>13. s[i].dir \in Dir /\ s[i + 1].dir = Onward(s[i].dir, names[i])
  <2>1. FrameOn(s, np, i)
    BY <1>2, <1>9 DEF Descent
  <2>2. names[i] \in DOMAIN fs.entry[s[i].dir]
    <3>1. ag_scandir(s[i].dir, s[i].rules) \subseteq DOMAIN fs.entry[s[i].dir]
      BY ScanFacts
    <3> QED
      BY <1>11, <1>12, <3>1 DEF EntersNext
  <2> QED
    BY <1>11, <1>12, <2>1, <2>2 DEF EntersNext, FrameOn, Onward
<1>14. node[i] = s[j].dir
  BY <1>1, <1>9, <1>10, <1>13
<1>15. j - 1 = i
  BY <1>9, <1>6
<1> QED
  BY <1>6, <1>14, <1>15

\* There are no more calls in progress than directories.
LEMMA StackDepth ==
  ASSUME NEW s \in Seq(Frame), Distinct(s)
  PROVE  Cardinality(Dir) \in Nat /\ Len(s) <= Cardinality(Dir)
<1> DEFINE f == [i \in 1..Len(s) |-> s[i].dir]
<1>1. /\ Len(s) \in Nat /\ DOMAIN s = 1..Len(s)
      /\ \A i \in 1..Len(s) : s[i].dir \in Dir
  <2>1. /\ Len(s) \in Nat /\ DOMAIN s = 1..Len(s)
        /\ \A i \in 1..Len(s) : s[i] \in Frame
    OBVIOUS
  <2> QED
    BY <2>1 DEF Frame
<1>2. IsFiniteSet(Dir) /\ Cardinality(Dir) \in Nat
  BY DirWalkAssumption, FS_CardinalityType
<1>3. f \in Injection(1..Len(s), Dir)
  BY <1>1 DEF Distinct, Injection, IsInjective
<1>4. /\ IsFiniteSet(1..Len(s)) /\ Cardinality(1..Len(s)) = Len(s)
  <2>1. /\ IsFiniteSet(1..Len(s))
        /\ Cardinality(1..Len(s)) = IF 1 > Len(s) THEN 0 ELSE Len(s) - 1 + 1
    BY <1>1, FS_Interval
  <2> QED
    BY <1>1, <2>1
<1>5. Cardinality(1..Len(s)) <= Cardinality(Dir)
  <2> HIDE DEF f
  <2> QED
    BY <1>2, <1>3, <1>4, FS_Injection
<1> QED
  BY <1>2, <1>4, <1>5

-----------------------------------------------------------------------------
(* What the loop finds is to be found.                                      *)

\* The names on the path of a call have passed the filter and the loop in
\* the directories they were read from.
LEMMA NamesOnStack ==
  ASSUME NEW s \in Seq(Frame), NEW np, Descent(s, np), NEW k \in 1..Len(s),
         NEW j \in 1..(k - 1)
  PROVE  LET x == s[k].path.names[j] IN
           /\ x \in ag_scandir(s[j].dir, s[j].rules)
           /\ s[j + 1].dir = fs.entry[s[j].dir][x].node
           /\ ~SkipsIn(s[j].dir, np, j - 1, x)
<1>1. FrameOn(s, np, k) /\ EntersNext(s, np, j)
  BY DEF Descent
<1> QED
  BY <1>1 DEF FrameOn, EntersNext

\* The path of an entry of the innermost directory.
LEMMA PathOfIs ==
  ASSUME Top \in Frame, NEW x
  PROVE  /\ PathOf(x) = [arg |-> Top.path.arg,
                         names |-> Append(Top.path.names, x)]
         /\ Top.path.names \in Seq(Name)
<1>1. \A q \in Path : \A to :
        [q EXCEPT !.names = to] = [arg |-> q.arg, names |-> to]
  BY DEF Path
<1>2. Top.path \in Path
  BY DEF Frame
<1>3. PathOf(x) = [Top.path EXCEPT !.names = Append(Top.path.names, x)]
  BY DEF PathOf
<1> QED
  BY <1>1, <1>2, <1>3 DEF Path

\* An entry that the loop does not pass over and that is no directory is to
\* be found: FoundFile finds nothing that was not asked for.
LEMMA AlongIsFound ==
  ASSUME TypeOK, SymhashIsStack, DescentInv, stack # <<>>,
         NEW x \in Top.todo, ~Skipped(x), ~is_directory(fs.entry[Top.dir][x])
  PROVE  PathOf(x) \in Candidates /\ ToBeFound(PathOf(x))
<1> DEFINE s == stack
           np == next_path
           n == Len(stack)
           p == PathOf(x)
           names == p.names
           node == Route(np, names)
<1>1. n \in Nat /\ n >= 1
  BY DEF TypeOK
<1>2. /\ s \in Seq(Frame)
      /\ n \in Nat
      /\ n >= 1
      /\ n \in 1..n
      /\ DOMAIN stack = 1..n
      /\ Top = s[n] /\ s[n] \in Frame
  BY DEF TypeOK, Top
<1>3. Descent(s, np)
  BY <1>2, DescentIs
<1>4. np \in DOMAIN paths /\ FrameOn(s, np, n)
  BY <1>2, <1>3 DEF Descent
<1>5. x \in Name /\ s[n].path.names \in Seq(Name) /\ s[n].path \in Path
  BY <1>2 DEF Frame, Path
<1>6. /\ p.arg = np /\ names = Append(s[n].path.names, x)
      /\ names \in Seq(Name) /\ Len(names) = n /\ names[n] = x
      /\ \A j \in 1..(n - 1) : names[j] = s[n].path.names[j]
  <2> DEFINE a == s[n].path.names
  <2>1. /\ p.arg = np
        /\ p.names = Append(a, x)
        /\ a \in Seq(Name)
        /\ Len(a) = n - 1
    BY <1>2, <1>4, <1>5 DEF PathOf, FrameOn, Path
  <2> HIDE DEF a, p
  <2>2. /\ Append(a, x) \in Seq(Name) /\ Len(Append(a, x)) = Len(a) + 1
        /\ Append(a, x)[Len(a) + 1] = x
        /\ \A i \in 1..Len(a) : Append(a, x)[i] = a[i]
    BY <1>5, <2>1, AppendFacts
  <2>3. (n - 1) + 1 = n
    BY <1>2
  <2> QED
    BY <2>1, <2>2, <2>3 DEF a
<1> HIDE DEF p
<1>7. \A j \in 1..n : node[j - 1] = s[j].dir
  <2>1. n - 1 <= Len(names) /\ Along(s, n, names)
    <3> HIDE DEF n
    <3> QED
      BY <1>1, <1>6 DEF Along
  <2> HIDE DEF n
  <2> QED
    BY <1>2, <1>3, <1>6, <2>1, RouteAlong DEF n
<1>8. \A i \in 1..n : node[i] = Onward(node[i - 1], names[i])
  <2>1. \A i \in 1..Len(names) : node[i] = Onward(node[i - 1], names[i])
    BY <1>6, RouteGoesOn
  <2> HIDE DEF node, n
  <2> QED
    BY <1>6, <2>1
<1>9. Distinct(s) /\ n <= Cardinality(Dir) /\ Cardinality(Dir) \in Nat
  <2>1. Distinct(s)
    BY DEF SymhashIsStack, Distinct
  <2> QED
    BY <1>2, <2>1, StackDepth
<1> HIDE DEF node
<1>10. p \in Candidates
  <2>1. names \in [1..n -> Name]
    <3>1. names \in Seq(Name) /\ Len(names) = n
      BY <1>6
    <3> HIDE DEF n, names
    <3> QED
      BY <3>1, SeqIsFunction
  <2>2. n \in 1..(Cardinality(Dir) + 1)
    BY <1>2, <1>9
  <2>3. p = [arg |-> np, names |-> names]
    <3>1. PathOf(x)
            = [arg |-> Top.path.arg, names |-> Append(Top.path.names, x)]
      BY <1>2, PathOfIs
    <3> QED
      BY <1>6, <3>1 DEF p
  <2> HIDE DEF n
  <2>4. names \in UNION {[1..m -> Name] : m \in 1..(Cardinality(Dir) + 1)}
    BY <2>1, <2>2
  <2> QED
    BY <1>4, <2>3, <2>4 DEF Candidates
<1>11. \A j \in 1..n : /\ names[j] \in ag_scandir(s[j].dir, s[j].rules)
                       /\ ~SkipsIn(s[j].dir, np, j - 1, names[j])
                       /\ FrameOn(s, np, j)
  <2> TAKE j \in 1..n
  <2>1. FrameOn(s, np, j)
    BY <1>3 DEF Descent
  <2>2. CASE j = n
    <3>1. x \in ag_scandir(s[n].dir, s[n].rules)
      BY <1>2, <1>4 DEF FrameOn
    <3>2. ~SkipsIn(s[n].dir, np, n - 1, x)
      BY <1>2, <1>4 DEF Skipped, SkipsIn, depth, FrameOn
    <3> QED
      BY <1>6, <2>1, <2>2, <3>1, <3>2
  <2>3. CASE j # n
    <3>1. j \in 1..(n - 1)
      <4> HIDE DEF n
      <4> QED
        BY <1>1, <2>3
    <3> QED
      BY <1>2, <1>3, <1>6, <2>1, <3>1, NamesOnStack
  <2> QED
    BY <2>2, <2>3
<1>12. \A i \in 1..(n - 1) :
         /\ s[i + 1].dir = node[i] /\ s[i + 1].dir \in Dir
         /\ fs.entry[s[i].dir][names[i]].node = s[i + 1].dir
  <2> TAKE i \in 1..(n - 1)
  <2>1. i + 1 \in 1..n /\ (i + 1) - 1 = i
    BY <1>2
  <2>2. s[i + 1].dir = fs.entry[s[i].dir][names[i]].node
    BY <1>2, <1>3, <1>6, NamesOnStack
  <2> QED
    BY <1>7, <1>11, <2>1, <2>2 DEF FrameOn
<1>13. node[n] = fs.entry[s[n].dir][x].node
  <2>1. node[n - 1] = s[n].dir
    BY <1>2, <1>7
  <2>2. ag_scandir(s[n].dir, s[n].rules) \subseteq DOMAIN fs.entry[s[n].dir]
    BY ScanFacts
  <2>3. s[n].dir \in Dir /\ x \in DOMAIN fs.entry[s[n].dir]
    BY <1>2, <1>6, <1>11, <2>2 DEF FrameOn
  <2> QED
    BY <1>2, <1>6, <1>8, <2>1, <2>3 DEF Onward
<1>14. \A i \in 1..n : node[i] = fs.entry[s[i].dir][names[i]].node
  <2> TAKE i \in 1..n
  <2>1. CASE i = n
    BY <2>1, <1>13, <1>6
  <2>2. CASE i # n
    <3>1. i \in 1..(n - 1)
      <4> HIDE DEF n
      <4> QED
        BY <1>1, <2>2
    <3> QED
      BY <1>12, <3>1
  <2> QED
    BY <2>1, <2>2
<1> HIDE DEF n, np, s
<1>15. ASSUME NEW i \in 1..n
       PROVE  LET e == fs.entry[node[i - 1]][names[i]] IN
              /\ node[i - 1] \in Dir \ fs.unreadable
              /\ names[i] \in DOMAIN fs.entry[node[i - 1]]
              /\ \A j \in 1..i : names[i] \notin fs.ignore[node[j - 1]]
              /\ \A j \in 1..(i - 1) : node[j - 1] # node[i - 1]
              /\ e.link => opts.follow_symlinks
              /\ opts.one_dev =>
                   LET here == fs.dev[IF e.link THEN node[i - 1] ELSE node[i]]
                   IN  here = original_dev(p.arg)
  <2> DEFINE e == fs.entry[s[i].dir][names[i]]
  <2>1. /\ node[i - 1] = s[i].dir
        /\ FrameOn(s, np, i)
        /\ ~SkipsIn(s[i].dir, np, i - 1, names[i])
    BY <1>7, <1>11
  <2>2. /\ names[i] \in DOMAIN fs.entry[s[i].dir]
        /\ names[i] \notin s[i].rules
        /\ e.link => opts.follow_symlinks
    BY <1>11, ScanFacts
  <2>3. \A j \in 1..i : names[i] \notin fs.ignore[node[j - 1]]
    <3> TAKE j \in 1..i
    <3>1. j \in 1..n /\ node[j - 1] = s[j].dir
      BY <1>2, <1>7
    <3>2. s[i].rules = UNION {fs.ignore[s[k].dir] : k \in 1..i}
      BY <2>1 DEF FrameOn
    <3> QED
      BY <2>2, <3>1, <3>2
  <2>4. \A j \in 1..(i - 1) : node[j - 1] # node[i - 1]
    <3> TAKE j \in 1..(i - 1)
    <3>1. j \in 1..n /\ j # i /\ node[j - 1] = s[j].dir
      BY <1>2, <1>7
    <3>2. j \in DOMAIN s /\ i \in DOMAIN s
      BY <1>2, <3>1 DEF s
    <3> QED
      BY <1>9, <2>1, <3>1, <3>2 DEF Distinct
  <2>5. opts.one_dev =>
          fs.dev[IF e.link THEN s[i].dir ELSE e.node] = original_dev(np)
    BY <2>1 DEF SkipsIn, st_dev
  <2>6. e.node = node[i]
    BY <1>14
  <2> QED
    BY <1>6, <2>1, <2>2, <2>3, <2>4, <2>5, <2>6 DEF FrameOn
<1>16. n > 1 => opts.recurse_dirs
  <2> SUFFICES ASSUME n > 1 PROVE opts.recurse_dirs
    OBVIOUS
  <2>1. 1 \in 1..(n - 1) /\ 1 \in 1..n
    BY <1>2
  <2> QED
    BY <1>11, <1>12, <2>1 DEF SkipsIn, is_directory
<1>17. opts.max_search_depth # -1 => n - 1 <= opts.max_search_depth
  <2> SUFFICES ASSUME opts.max_search_depth # -1
               PROVE  n - 1 <= opts.max_search_depth
    OBVIOUS
  <2>1. opts.max_search_depth \in Nat
    BY DEF TypeOK, Settings
  <2>2. CASE n = 1
    BY <2>1, <2>2
  <2>3. CASE n # 1
    <3>1. n - 1 \in 1..(n - 1) /\ n - 1 \in 1..n
      BY <1>2, <2>3
    <3>2. ~TooDeep((n - 1) - 1)
      BY <1>11, <1>12, <3>1 DEF SkipsIn, is_directory
    <3> QED
      BY <1>2, <2>1, <3>2 DEF TooDeep
  <2> QED
    BY <2>2, <2>3
<1>18. /\ node[n] \notin Dir
       /\ node[n] = Fifo => fs.entry[node[n - 1]][names[n]].link
       /\ opts.file_search = "any" \/ names[n] \in fs.matching
  <2>1. node[n] \notin Dir
    BY <1>2, <1>13 DEF is_directory, s
  <2>2. node[n - 1] = s[n].dir /\ names[n] = x
    BY <1>2, <1>6, <1>7
  <2>3. fs.entry[s[n].dir][x].link \/ fs.entry[s[n].dir][x].node # Fifo
    BY <1>2, <1>6, <1>11, ScanFacts
  <2>4. opts.file_search = "any" \/ x \in fs.matching
    BY <1>2, <1>11, <1>13, <2>1, <2>2 DEF SkipsIn, is_directory
  <2> QED
    BY <1>13, <2>1, <2>2, <2>3, <2>4
<1>19. ToBeFound(p)
  <2>1. Route(p.arg, p.names) = node
    BY <1>6 DEF node
  <2>2. Len(p.names) = n
    BY <1>6
  <2> QED
    BY <1>15, <1>16, <1>17, <1>18, <2>1, <2>2, ZenonT(60) DEF ToBeFound
<1> QED
  BY <1>10, <1>19 DEF p

-----------------------------------------------------------------------------
(* What is to be found lies ahead until it is found.                        *)

\* The arguments and names of the paths considered.
LEMMA CandidateTyped ==
  ASSUME NEW p \in Candidates
  PROVE  /\ p.arg \in DOMAIN paths /\ p.names \in Seq(Name)
         /\ Len(p.names) \in Nat /\ Len(p.names) >= 1
<1>1. /\ p.arg \in DOMAIN paths
      /\ p.names \in UNION {[1..n -> Name] : n \in 1..(Cardinality(Dir) + 1)}
  BY DEF Candidates
<1>2. PICK n \in 1..(Cardinality(Dir) + 1) : p.names \in [1..n -> Name]
  BY <1>1
<1>3. Cardinality(Dir) \in Nat
  BY DirWalkAssumption, FS_CardinalityType
<1>4. n \in Nat /\ n >= 1
  BY <1>2, <1>3
<1>5. p.names \in Seq(Name) /\ Len(p.names) = n
  BY <1>2, <1>4
<1> QED
  BY <1>1, <1>4, <1>5

\* The names rejected in the first i directories on the way.
RulesOn(node, i) == UNION {fs.ignore[node[j - 1]] : j \in 1..i}

\* A path to be found passes the filter and the loop in each directory it
\* leads through, and only its last name is not a directory.
LEMMA ToBeFoundGoesOn ==
  ASSUME opts \in Settings, NEW p \in Candidates, ToBeFound(p),
         NEW node, node = Route(p.arg, p.names), NEW i \in 1..Len(p.names)
  PROVE  LET n == Len(p.names)
             d == node[i - 1]
             x == p.names[i]
         IN  /\ d \in Dir \ fs.unreadable
             /\ node[i] = fs.entry[d][x].node
             /\ x \in ag_scandir(d, RulesOn(node, i))
             /\ \A j \in 1..(i - 1) : node[j - 1] # d
             /\ node[i] \in Dir <=> i < n
             /\ ~SkipsIn(d, p.arg, i - 1, x)
<1> DEFINE names == p.names
           n == Len(names)
           d == node[i - 1]
           x == names[i]
           e == fs.entry[d][x]
           all == RulesOn(node, i)
<1>1. names \in Seq(Name) /\ n \in Nat /\ n >= 1 /\ i \in 1..n
  BY CandidateTyped
<1>2. ASSUME NEW j \in 1..n
      PROVE  LET ej == fs.entry[node[j - 1]][names[j]] IN
             /\ node[j - 1] \in Dir \ fs.unreadable
             /\ names[j] \in DOMAIN fs.entry[node[j - 1]]
             /\ \A k \in 1..j : names[j] \notin fs.ignore[node[k - 1]]
             /\ \A k \in 1..(j - 1) : node[k - 1] # node[j - 1]
             /\ ej.link => opts.follow_symlinks
             /\ opts.one_dev =>
                  LET here == fs.dev[IF ej.link THEN node[j - 1] ELSE node[j]]
                  IN  here = original_dev(p.arg)
  BY Zenon DEF ToBeFound
<1>3. /\ n > 1 => opts.recurse_dirs
      /\ opts.max_search_depth # -1 => n - 1 <= opts.max_search_depth
      /\ node[n] \notin Dir
      /\ node[n] = Fifo => fs.entry[node[n - 1]][names[n]].link
      /\ opts.file_search = "any" \/ names[n] \in fs.matching
  BY Zenon DEF ToBeFound
<1>4. \A j \in 1..n : node[j] = Onward(node[j - 1], names[j])
  <2>1. \A j \in 1..Len(names) : node[j] = Onward(node[j - 1], names[j])
    BY <1>1, RouteGoesOn
  <2> QED
    BY <2>1
<1> HIDE DEF n, names
<1>5. node[i] = e.node
  BY <1>1, <1>2, <1>4 DEF Onward
<1>6. node[i] \in Dir <=> i < n
  <2>1. CASE i = n
    BY <1>1, <1>3, <2>1
  <2>2. CASE i # n
    <3>1. i + 1 \in 1..n /\ (i + 1) - 1 = i /\ i < n
      BY <1>1, <2>2
    <3> QED
      BY <1>2, <3>1
  <2> QED
    BY <2>1, <2>2
<1>7. x \in ag_scandir(d, all)
  <2>1. x \notin all
    <3>1. \A j \in 1..i : x \notin fs.ignore[node[j - 1]]
      BY <1>1, <1>2
    <3> QED
      BY <3>1 DEF RulesOn
  <2>2. e.link \/ e.node # Fifo
    <3>1. CASE i = n
      BY <1>3, <1>5, <3>1
    <3>2. CASE i # n
      <4>1. e.node \in Dir
        BY <1>1, <1>5, <1>6, <3>2
      <4> QED
        BY <4>1, DirWalkAssumption
    <3> QED
      BY <3>1, <3>2
  <2>3. x \in DOMAIN fs.entry[d] /\ (e.link => opts.follow_symlinks)
    BY <1>1, <1>2
  <2> HIDE DEF all, d, x
  <2> QED
    BY <2>1, <2>2, <2>3 DEF ag_scandir, filename_filter
<1>8. ~SkipsIn(d, p.arg, i - 1, x)
  <2>1. opts.one_dev => st_dev(e, fs.dev[d]) = original_dev(p.arg)
    BY <1>1, <1>2, <1>5 DEF st_dev
  <2>2. is_directory(e) => opts.recurse_dirs /\ ~TooDeep(i - 1)
    <3> SUFFICES ASSUME is_directory(e)
                 PROVE  opts.recurse_dirs /\ ~TooDeep(i - 1)
      OBVIOUS
    <3>1. i < n
      BY <1>5, <1>6 DEF is_directory
    <3>2. n > 1
      BY <1>1, <3>1
    <3>3. opts.max_search_depth \in Nat \cup {-1}
      BY DEF Settings
    <3> QED
      BY <1>1, <1>3, <3>1, <3>2, <3>3 DEF TooDeep
  <2>3. ~is_directory(e) => opts.file_search = "any" \/ x \in fs.matching
    <3> SUFFICES ASSUME ~is_directory(e)
                 PROVE  opts.file_search = "any" \/ x \in fs.matching
      OBVIOUS
    <3>1. i = n
      BY <1>1, <1>5, <1>6 DEF is_directory
    <3> QED
      BY <1>3, <3>1
  <2> QED
    BY <2>1, <2>2, <2>3 DEF SkipsIn
<1>9. /\ d \in Dir \ fs.unreadable
      /\ \A j \in 1..(i - 1) : node[j - 1] # d
  BY <1>1, <1>2
<1> QED
  BY <1>5, <1>6, <1>7, <1>8, <1>9 DEF n, names

\* The same, said of a call in progress it leads through: the loop does not
\* pass over its next name, and the next directory is entered.
LEMMA OnTheWay ==
  ASSUME opts \in Settings, NEW p \in Candidates, NEW s \in Seq(Frame),
         Descent(s, p.arg),
         ToBeFound(p), NEW k \in 1..Len(s), k <= Len(p.names),
         Along(s, k, p.names)
  PROVE  LET x == p.names[k]
             e == fs.entry[s[k].dir][x]
         IN  /\ x \in ag_scandir(s[k].dir, s[k].rules)
             /\ ~SkipsIn(s[k].dir, p.arg, k - 1, x)
             /\ is_directory(e) <=> k < Len(p.names)
             /\ k < Len(p.names) =>
                  /\ e.node \in Dir \ fs.unreadable
                  /\ \A j \in 1..k : s[j].dir # e.node
                  /\ p.names[k + 1] \in
                       ag_scandir(e.node, s[k].rules \cup fs.ignore[e.node])
<1> DEFINE names == p.names
           n == Len(names)
           node == Route(p.arg, names)
           x == names[k]
           e == fs.entry[s[k].dir][x]
<1>1. /\ names \in Seq(Name)
      /\ n \in Nat
      /\ n >= 1
      /\ k \in 1..n
      /\ Len(s) \in Nat
  <2>1. /\ names \in Seq(Name)
        /\ n \in Nat
        /\ n >= 1
        /\ k \in Nat
        /\ k >= 1
        /\ Len(s) \in Nat
    BY CandidateTyped
  <2> QED
    BY <2>1
<1>2. \A j \in 1..k : node[j - 1] = s[j].dir
  <2>1. k - 1 <= Len(names)
    BY <1>1
  <2> QED
    BY <1>1, <2>1, RouteAlong
<1>3. \A i \in 1..n :
        /\ node[i - 1] \in Dir \ fs.unreadable
        /\ node[i] = fs.entry[node[i - 1]][names[i]].node
        /\ names[i] \in ag_scandir(node[i - 1], RulesOn(node, i))
        /\ \A j \in 1..(i - 1) : node[j - 1] # node[i - 1]
        /\ node[i] \in Dir <=> i < n
        /\ ~SkipsIn(node[i - 1], p.arg, i - 1, names[i])
  <2> TAKE i \in 1..n
  <2>1. Route(p.arg, p.names) = node
    OBVIOUS
  <2> HIDE DEF node
  <2> QED
    BY <2>1, ToBeFoundGoesOn
<1> HIDE DEF node, n, names
<1>4. s[k].rules = RulesOn(node, k) /\ node[k - 1] = s[k].dir
  <2>1. FrameOn(s, p.arg, k)
    BY DEF Descent
  <2>2. {fs.ignore[node[j - 1]] : j \in 1..k}
          = {fs.ignore[s[j].dir] : j \in 1..k}
    BY <1>2
  <2>3. k \in 1..k
    BY <1>1
  <2> QED
    BY <1>2, <2>1, <2>2, <2>3 DEF FrameOn, RulesOn
<1>5. /\ node[k] = e.node
      /\ x \in ag_scandir(s[k].dir, s[k].rules)
      /\ node[k] \in Dir <=> k < n
      /\ ~SkipsIn(s[k].dir, p.arg, k - 1, x)
  BY <1>1, <1>3, <1>4
<1>6. ASSUME k < n
      PROVE  /\ e.node \in Dir \ fs.unreadable
             /\ \A j \in 1..k : s[j].dir # e.node
             /\ names[k + 1] \in
                  ag_scandir(e.node, s[k].rules \cup fs.ignore[e.node])
  <2>1. k + 1 \in 1..n /\ (k + 1) - 1 = k /\ 1..(k + 1) = 1..k \cup {k + 1}
    BY <1>1, <1>6
  <2>2. e.node \in Dir \ fs.unreadable
    BY <1>3, <1>5, <2>1
  <2>3. \A j \in 1..k : s[j].dir # e.node
    BY <1>2, <1>3, <1>5, <2>1
  <2>4. RulesOn(node, k + 1) = s[k].rules \cup fs.ignore[e.node]
    <3>1. {fs.ignore[node[j - 1]] : j \in 1..(k + 1)}
            = {fs.ignore[node[j - 1]] : j \in 1..k} \cup {fs.ignore[node[k]]}
      BY <2>1
    <3> QED
      BY <1>4, <1>5, <3>1 DEF RulesOn
  <2> QED
    BY <1>3, <1>5, <2>1, <2>2, <2>3, <2>4
<1> QED
  BY <1>5, <1>6 DEF is_directory, n, names

\* Route, of what it depends on.
WayOf(ents, start, names) ==
  LET node[i \in 0..Len(names)] ==
        IF i = 0 THEN start
        ELSE LET d == node[i - 1] IN
             IF d \in Dir /\ names[i] \in DOMAIN ents[d]
             THEN ents[d][names[i]].node ELSE Missing
  IN  node

\* ToBeFound, of what it depends on.
AskedFor(f, o, ps, node, p) ==
  LET names == p.names
      n == Len(names)
      entry(i) == f.entry[node[i - 1]][names[i]]
  IN  /\ \A i \in 1..n :
           /\ node[i - 1] \in Dir \ f.unreadable
           /\ names[i] \in DOMAIN f.entry[node[i - 1]]
           /\ \A j \in 1..i : names[i] \notin f.ignore[node[j - 1]]
           /\ \A j \in 1..(i - 1) : node[j - 1] # node[i - 1]
           /\ entry(i).link => o.follow_symlinks
           /\ o.one_dev =>
                LET here == f.dev[IF entry(i).link THEN node[i - 1]
                                  ELSE node[i]]
                IN  here = IF ps[p.arg].link THEN f.here
                           ELSE f.dev[ps[p.arg].node]
      /\ n > 1 => o.recurse_dirs
      /\ o.max_search_depth # -1 => n - 1 <= o.max_search_depth
      /\ node[n] \notin Dir
      /\ node[n] = Fifo => entry(n).link
      /\ o.file_search = "any" \/ names[n] \in f.matching

\* What is to be found stays the same while the arguments, the options and
\* the file system do.
LEMMA GivenSame ==
  ASSUME UNCHANGED given
  PROVE  /\ Candidates' = Candidates
         /\ \A p : ToBeFound(p)' <=> ToBeFound(p)
<1>1. fs' = fs /\ opts' = opts /\ paths' = paths
  BY DEF given
<1>2. Candidates' = Candidates
  BY <1>1 DEF Candidates
<1>3. ASSUME NEW p PROVE ToBeFound(p)' <=> ToBeFound(p)
  <2>1. Route(p.arg, p.names) = WayOf(fs.entry, paths[p.arg].node, p.names)
    BY Zenon DEF Route, WayOf
  <2>2. Route(p.arg, p.names)' = WayOf(fs'.entry, paths'[p.arg].node, p.names)
    BY Zenon DEF Route, WayOf
  <2>3. Route(p.arg, p.names)' = Route(p.arg, p.names)
    BY <1>1, <2>1, <2>2
  <2> QED
    <3>1. ToBeFound(p) <=> AskedFor(fs, opts, paths, Route(p.arg, p.names), p)
      BY Zenon DEF ToBeFound, AskedFor, original_dev, st_dev
    <3>2. ToBeFound(p)'
            <=> AskedFor(fs', opts', paths', Route(p.arg, p.names)', p)
      BY Zenon DEF ToBeFound, AskedFor, original_dev, st_dev
    <3> QED
      BY <1>1, <2>3, <3>1, <3>2
<1> QED
  BY <1>2, <1>3

\* Ahead, of a stack s.
AheadOn(s, p) ==
  \E k \in 1..Len(s) :
    k <= Len(p.names) /\ Along(s, k, p.names) /\ p.names[k] \in s[k].todo

\* The paths found by either way of finding them.
FoundSoFar == queued \cup listed

\* What AheadInv says of p, of a stack s for argument np and of what is found.
FoundOrAhead(p, s, np, all) ==
  /\ p.arg < np => p \in all
  /\ p.arg = np /\ s # <<>> => p \in all \/ AheadOn(s, p)

\* AheadInv of the next state, by the next stack.
LEMMA AheadNext ==
  ASSUME UNCHANGED given, NEW s \in Seq(Frame), stack' = s,
         \A p \in Candidates : ToBeFound(p) =>
           FoundOrAhead(p, s, next_path', FoundSoFar')
  PROVE  AheadInv'
<1>1. DOMAIN s = 1..Len(s)
  OBVIOUS
<1>2. \A p : AheadOn(s, p) <=> Ahead(p)'
  BY <1>1 DEF Ahead, AheadOn, Along
<1>3. Candidates' = Candidates /\ \A p : ToBeFound(p)' <=> ToBeFound(p)
  BY GivenSame
<1> QED
  BY <1>2, <1>3 DEF AheadInv, FoundSoFar, FoundOrAhead

\* What AheadInv says of a path now.
LEMMA AheadNow ==
  ASSUME stack \in Seq(Frame), AheadInv, NEW p \in Candidates, ToBeFound(p)
  PROVE  FoundOrAhead(p, stack, next_path, FoundSoFar)
<1>1. DOMAIN stack = 1..Len(stack)
  OBVIOUS
<1>2. Ahead(p) <=> AheadOn(stack, p)
  BY <1>1 DEF Ahead, AheadOn, Along
<1> QED
  BY <1>2 DEF AheadInv, FoundSoFar, FoundOrAhead

\* FoundInv holds as long as nothing more is found.
LEMMA FoundNext ==
  ASSUME UNCHANGED <<given, queued, listed>>, FoundInv
  PROVE  FoundInv'
<1>1. /\ Candidates' = Candidates /\ opts' = opts
      /\ \A p : ToBeFound(p)' <=> ToBeFound(p)
  BY GivenSame DEF given
<1> QED
  BY <1>1 DEF FoundInv

\* The innermost call in progress.
LEMMA TopFacts ==
  ASSUME WalkInv, stack # <<>>
  PROVE  LET n == Len(stack) IN
         /\ stack \in Seq(Frame)
         /\ n \in Nat /\ n >= 1 /\ n \in 1..n
         /\ Top = stack[n] /\ stack[n] \in Frame
         /\ Descent(stack, next_path)
         /\ FrameOn(stack, next_path, n)
         /\ \A x : Skipped(x) <=> SkipsIn(stack[n].dir, next_path, n - 1, x)
<1> DEFINE n == Len(stack)
<1>1. stack \in Seq(Frame) /\ n \in Nat /\ n >= 1
  BY DEF WalkInv, TypeOK
<1>2. n \in 1..n
  <2> HIDE DEF n
  <2> QED
    BY <1>1
<1>3. Top = stack[n] /\ stack[n] \in Frame
  BY <1>1, <1>2 DEF Top
<1>4. Descent(stack, next_path)
  BY <1>1, DescentIs DEF WalkInv
<1>5. FrameOn(stack, next_path, n)
  BY <1>2, <1>4 DEF Descent
<1>6. \A x : Skipped(x) <=> SkipsIn(stack[n].dir, next_path, n - 1, x)
  BY <1>3, <1>5 DEF Skipped, SkipsIn, depth, FrameOn
<1> QED
  BY <1>1, <1>2, <1>3, <1>4, <1>5, <1>6

\* The stack when the innermost loop is past an entry.
LEMMA PastFacts ==
  ASSUME stack \in Seq(Frame), stack # <<>>, NEW x \in Name
  PROVE  LET n == Len(stack) IN
         /\ Past(x) \in Seq(Frame) /\ Past(x) # <<>>
         /\ Len(Past(x)) = n
         /\ Kept(stack, Past(x))
         /\ \A k \in 1..n : k # n => Past(x)[k] = stack[k]
         /\ Past(x)[n].todo = stack[n].todo \ {x}
         /\ Past(x)[n].dir = stack[n].dir /\ Past(x)[n].path = stack[n].path
         /\ Past(x)[n].rules = stack[n].rules
<1> DEFINE n == Len(stack)
           top == [stack[n] EXCEPT !.todo = @ \ {x}]
           t == [stack EXCEPT ![n] = top]
<1>1. /\ n \in 1..n
      /\ DOMAIN stack = 1..n
      /\ stack[n] \in Frame
      /\ n \in Nat
      /\ n >= 1
  OBVIOUS
<1>2. /\ top \in Frame /\ top.dir = stack[n].dir /\ top.path = stack[n].path
      /\ top.rules = stack[n].rules /\ top.todo = stack[n].todo \ {x}
  BY <1>1 DEF Frame
<1>3. Past(x) = t
  BY DEF Past
<1> HIDE DEF top
<1>4. /\ t \in Seq(Frame) /\ Len(t) = n /\ t[n] = top
      /\ \A k \in 1..n : k # n => t[k] = stack[k]
  BY <1>1, <1>2, UpdateFacts
<1> HIDE DEF t
<1>5. t # <<>>
  <2> HIDE DEF n
  <2>1. Len(t) # 0
    BY <1>1, <1>4
  <2> QED
    BY <1>4, <2>1, LenZero
<1>6. Kept(stack, t)
  <2>1. Len(t) <= Len(stack)
    <3>1. Len(t) = n /\ n = Len(stack) /\ n \in Nat
      BY <1>1, <1>4
    <3> HIDE DEF n
    <3> QED
      BY <3>1
  <2> HIDE DEF n
  <2>2. ASSUME NEW k \in 1..n
        PROVE  /\ t[k].dir = stack[k].dir /\ t[k].path = stack[k].path
               /\ t[k].rules = stack[k].rules
               /\ t[k].todo \subseteq stack[k].todo
    BY <1>2, <1>4
  <2> QED
    BY <1>4, <2>1, <2>2 DEF Kept
<1> QED
  BY <1>2, <1>3, <1>4, <1>5, <1>6

\* The stack when the innermost call has returned.
LEMMA PopFacts ==
  ASSUME NEW s \in Seq(Frame), s # <<>>
  PROVE  LET t == SubSeq(s, 1, Len(s) - 1) IN
         /\ t \in Seq(Frame) /\ Len(t) = Len(s) - 1 /\ Kept(s, t)
         /\ \A k \in 1..(Len(s) - 1) : t[k] = s[k]
         /\ Len(s) = 1 => t = <<>>
<1> DEFINE t == SubSeq(s, 1, Len(s) - 1)
<1>1. /\ Len(s) \in Nat /\ Len(s) >= 1
      /\ t \in Seq(Frame) /\ Len(t) = Len(s) - 1
      /\ \A k \in 1..(Len(s) - 1) : t[k] = s[k]
  BY ButLastFacts
<1> HIDE DEF t
<1>2. Kept(s, t)
  BY <1>1 DEF Kept
<1>3. Len(s) = 1 => t = <<>>
  BY <1>1
<1> QED
  BY <1>1, <1>2, <1>3 DEF t

\* Along depends on the path of a call only.
LEMMA AlongKept ==
  ASSUME NEW s, NEW t, NEW k, t[k].path = s[k].path, NEW names,
         Along(s, k, names)
  PROVE  Along(t, k, names)
BY DEF Along

\* When the loop moves on past an entry, a path that lay ahead still does,
\* or it went on by that entry.
LEMMA MovesOn ==
  ASSUME WalkInv, stack # <<>>, NEW x \in Name, NEW p \in Candidates,
         AheadOn(stack, p)
  PROVE  \/ AheadOn(Past(x), p)
         \/ /\ Len(stack) <= Len(p.names) /\ Along(stack, Len(stack), p.names)
            /\ p.names[Len(stack)] = x
<1> DEFINE n == Len(stack)
           t == Past(x)
<1>1. PICK k \in 1..n : k <= Len(p.names) /\ Along(stack, k, p.names)
                        /\ p.names[k] \in stack[k].todo
  BY DEF AheadOn
<1>2. /\ Len(t) = n /\ Kept(stack, t)
      /\ \A i \in 1..n : i # n => t[i] = stack[i]
      /\ t[n].todo = stack[n].todo \ {x}
  BY TopFacts, PastFacts
<1> HIDE DEF t
<1>3. Along(t, k, p.names)
  <2>1. t[k].path = stack[k].path
    BY <1>1, <1>2 DEF Kept
  <2> QED
    BY <1>1, <2>1, AlongKept
<1>4. CASE k = n /\ p.names[k] = x
  BY <1>1, <1>4
<1>5. CASE k # n \/ p.names[k] # x
  <2>1. p.names[k] \in t[k].todo
    BY <1>1, <1>2, <1>5
  <2> HIDE DEF n
  <2>2. AheadOn(t, p)
    BY <1>1, <1>2, <1>3, <2>1 DEF AheadOn
  <2> QED
    BY <2>2 DEF t
<1> QED
  BY <1>4, <1>5

-----------------------------------------------------------------------------
(* Each step keeps what is found and what lies ahead.                       *)

\* No path to be found goes on by an entry that is passed over.
LEMMA SkipEntryKeeps ==
  ASSUME WalkInv, stack # <<>>, NEW x \in Name, SkipEntry(x)
  PROVE  DescentInv' /\ FoundInv' /\ AheadInv'
<1> DEFINE t == Past(x)
           n == Len(stack)
<1>1. /\ stack' = t /\ UNCHANGED <<given, next_path, queued, listed>>
      /\ x \in Top.todo /\ Skipped(x)
  BY DEF SkipEntry, found
<1>2. t \in Seq(Frame) /\ t # <<>> /\ Kept(stack, t)
  BY TopFacts, PastFacts
<1>3. Descent(t, next_path)
  BY <1>2, TopFacts, KeptDescent
<1>4. ~SkipsIn(stack[n].dir, next_path, n - 1, x) => FALSE
  BY <1>1, TopFacts
<1>5. ASSUME NEW p \in Candidates, ToBeFound(p)
      PROVE  FoundOrAhead(p, t, next_path', FoundSoFar')
  <2>1. /\ p.arg < next_path => p \in FoundSoFar
        /\ p.arg = next_path => p \in FoundSoFar \/ AheadOn(stack, p)
    BY <1>5, AheadNow, TopFacts DEF WalkInv, FoundOrAhead
  <2>2. FoundSoFar' = FoundSoFar /\ next_path' = next_path
    BY <1>1 DEF FoundSoFar
  <2>3. ASSUME p.arg = next_path, AheadOn(stack, p) PROVE AheadOn(t, p)
    <3>1. \/ AheadOn(t, p)
          \/ n <= Len(p.names) /\ Along(stack, n, p.names) /\ p.names[n] = x
      BY <2>3, MovesOn
    <3>2. ASSUME n <= Len(p.names), Along(stack, n, p.names), p.names[n] = x
          PROVE  FALSE
      <4>1. /\ opts \in Settings
            /\ stack \in Seq(Frame)
            /\ Descent(stack, p.arg)
            /\ n \in 1..n
        BY <2>3, TopFacts DEF WalkInv, TypeOK
      <4>2. ~SkipsIn(stack[n].dir, p.arg, n - 1, p.names[n])
        BY <1>5, <3>2, <4>1, OnTheWay
      <4> QED
        BY <1>4, <2>3, <3>2, <4>2
    <3> QED
      BY <3>1, <3>2
  <2> QED
    BY <2>1, <2>2, <2>3 DEF FoundOrAhead
<1> HIDE DEF t
<1>6. DescentInv'
  BY <1>1, <1>2, <1>3, DescentNext
<1>7. AheadInv'
  BY <1>1, <1>2, <1>5, AheadNext
<1> QED
  BY <1>1, <1>6, <1>7, FoundNext DEF WalkInv

\* The one path to be found that goes on by a file is the path of it.
LEMMA FoundFileKeeps ==
  ASSUME WalkInv, stack # <<>>, NEW x \in Name, FoundFile(x)
  PROVE  DescentInv' /\ FoundInv' /\ AheadInv'
<1> DEFINE t == Past(x)
           n == Len(stack)
<1>1. /\ stack' = t /\ UNCHANGED <<given, next_path>>
      /\ x \in Top.todo /\ ~Skipped(x)
      /\ ~is_directory(fs.entry[Top.dir][x])
      /\ IF opts.file_search = "g"
         THEN listed' = listed \cup {PathOf(x)} /\ UNCHANGED queued
         ELSE queued' = queued \cup {PathOf(x)} /\ UNCHANGED listed
  BY DEF FoundFile
<1>2. t \in Seq(Frame) /\ t # <<>> /\ Kept(stack, t)
  BY TopFacts, PastFacts
<1>3. Descent(t, next_path)
  BY <1>2, TopFacts, KeptDescent
<1>4. FoundSoFar' = FoundSoFar \cup {PathOf(x)}
  BY <1>1 DEF FoundSoFar
<1>5. PathOf(x) \in Candidates /\ ToBeFound(PathOf(x))
  BY <1>1, AlongIsFound DEF WalkInv
<1>6. ASSUME NEW p \in Candidates, ToBeFound(p)
      PROVE  FoundOrAhead(p, t, next_path', FoundSoFar')
  <2>1. /\ p.arg < next_path => p \in FoundSoFar
        /\ p.arg = next_path => p \in FoundSoFar \/ AheadOn(stack, p)
    BY <1>6, AheadNow, TopFacts DEF WalkInv, FoundOrAhead
  <2>2. FoundSoFar \subseteq FoundSoFar' /\ next_path' = next_path
    BY <1>1, <1>4
  <2>3. ASSUME p.arg = next_path, AheadOn(stack, p)
        PROVE  p \in FoundSoFar' \/ AheadOn(t, p)
    <3>1. \/ AheadOn(t, p)
          \/ n <= Len(p.names) /\ Along(stack, n, p.names) /\ p.names[n] = x
      BY <2>3, MovesOn
    <3>2. ASSUME n <= Len(p.names), Along(stack, n, p.names), p.names[n] = x
          PROVE  p = PathOf(x)
      <4>1. /\ opts \in Settings
            /\ stack \in Seq(Frame)
            /\ Descent(stack, p.arg)
            /\ n \in 1..n
            /\ FrameOn(stack, next_path, n)
            /\ Top = stack[n]
            /\ stack[n] \in Frame
            /\ n \in Nat
        BY <2>3, TopFacts DEF WalkInv, TypeOK
      <4>2. ~(n < Len(p.names))
        BY <1>1, <1>6, <3>2, <4>1, OnTheWay
      <4>3. p.names \in Seq(Name) /\ Len(p.names) = n
        <5>1. p.names \in Seq(Name) /\ Len(p.names) \in Nat
          BY CandidateTyped
        <5> HIDE DEF n
        <5> QED
          BY <3>2, <4>1, <4>2, <5>1
      <4>4. p = [arg |-> p.arg, names |-> p.names]
        BY DEF Candidates
      <4>5. /\ PathOf(x).arg = p.arg
            /\ PathOf(x).names = Append(stack[n].path.names, x)
            /\ PathOf(x) = [arg |-> PathOf(x).arg, names |-> PathOf(x).names]
            /\ stack[n].path.names \in Seq(Name)
            /\ Len(stack[n].path.names) = n - 1
        BY <2>3, <4>1, PathOfIs DEF FrameOn
      <4>6. p.names = Append(stack[n].path.names, x)
        <5> DEFINE a == stack[n].path.names
                   b == p.names
        <5>1. \A j \in 1..(n - 1) : b[j] = a[j]
          BY <3>2 DEF Along
        <5>2. /\ a \in Seq(Name)
              /\ b \in Seq(Name)
              /\ Len(a) = n - 1
              /\ Len(b) = n
              /\ b[n] = x
              /\ n \in Nat
              /\ n >= 1
          BY <3>2, <4>1, <4>3, <4>5
        <5> HIDE DEF a, b, n
        <5>3. b = Append(a, x)
          BY <5>1, <5>2
        <5> QED
          BY <5>3 DEF a, b
      <4> QED
        BY <4>4, <4>5, <4>6
    <3> QED
      BY <1>4, <3>1, <3>2
  <2> QED
    BY <2>1, <2>2, <2>3 DEF FoundOrAhead
<1> HIDE DEF t
<1>7. DescentInv'
  BY <1>1, <1>2, <1>3, DescentNext
<1>8. AheadInv'
  BY <1>1, <1>2, <1>6, AheadNext
<1>9. FoundInv'
  <2>1. /\ Candidates' = Candidates /\ opts' = opts
        /\ \A p : ToBeFound(p)' <=> ToBeFound(p)
    BY <1>1, GivenSame DEF given
  <2> QED
    BY <1>1, <1>5, <2>1 DEF WalkInv, FoundInv
<1> QED
  BY <1>7, <1>8, <1>9

\* No path lies ahead in a directory whose entries are all done.
LEMMA LeaveDirKeeps ==
  ASSUME WalkInv, stack # <<>>, LeaveDir
  PROVE  DescentInv' /\ FoundInv' /\ AheadInv'
<1> DEFINE n == Len(stack)
           t == SubSeq(stack, 1, n - 1)
<1>1. /\ stack' = t /\ UNCHANGED <<given, queued, listed>>
      /\ Top.todo = {} /\ next_path' = IF n = 1 THEN next_path + 1 ELSE next_path
  BY DEF LeaveDir, found
<1>2. /\ t \in Seq(Frame) /\ Len(t) = n - 1 /\ Kept(stack, t)
      /\ \A k \in 1..(n - 1) : t[k] = stack[k]
      /\ n = 1 => t = <<>>
  BY TopFacts, PopFacts
<1>3. /\ stack \in Seq(Frame)
      /\ n \in Nat
      /\ n >= 1
      /\ Top = stack[n]
      /\ Descent(stack, next_path)
      /\ next_path \in Nat
  BY TopFacts DEF WalkInv, TypeOK
<1>4. Descent(t, next_path)
  BY <1>2, <1>3, KeptDescent
<1> HIDE DEF t
<1>5. Descent(t, next_path')
  <2>1. CASE n = 1
    <3>1. t = <<>> /\ Len(t) = 0
      BY <1>2, <2>1
    <3> QED
      BY <3>1 DEF Descent
  <2>2. CASE n # 1
    BY <1>1, <1>4, <2>2
  <2> QED
    BY <2>1, <2>2
<1>6. ASSUME NEW p \in Candidates, ToBeFound(p)
      PROVE  FoundOrAhead(p, t, next_path', FoundSoFar')
  <2>1. /\ p.arg < next_path => p \in FoundSoFar
        /\ p.arg = next_path => p \in FoundSoFar \/ AheadOn(stack, p)
    BY <1>3, <1>6, AheadNow DEF WalkInv, FoundOrAhead
  <2>2. FoundSoFar' = FoundSoFar
    BY <1>1 DEF FoundSoFar
  <2>3. p.arg \in Nat
    <3>1. p.arg \in DOMAIN paths /\ paths \in Seq(Entry)
      BY CandidateTyped DEF WalkInv, TypeOK
    <3> QED
      BY <3>1
  <2>4. ASSUME AheadOn(stack, p) PROVE n # 1 /\ AheadOn(t, p)
    <3>1. PICK k \in 1..n : k <= Len(p.names) /\ Along(stack, k, p.names)
                            /\ p.names[k] \in stack[k].todo
      BY <2>4 DEF AheadOn
    <3>2. k # n
      BY <1>1, <1>3, <3>1
    <3> HIDE DEF n
    <3>3. k \in 1..(n - 1) /\ n # 1
      BY <1>3, <3>1, <3>2
    <3>4. t[k] = stack[k] /\ k \in 1..Len(t)
      BY <1>2, <3>3
    <3>5. Along(t, k, p.names)
      BY <3>1, <3>4, AlongKept
    <3> QED
      BY <3>1, <3>3, <3>4, <3>5 DEF AheadOn
  <2>5. CASE n = 1
    <3>1. p.arg < next_path + 1 => p.arg < next_path \/ p.arg = next_path
      BY <1>3, <2>3
    <3> QED
      BY <1>1, <1>2, <2>1, <2>2, <2>4, <2>5, <3>1 DEF FoundOrAhead
  <2>6. CASE n # 1
    BY <1>1, <2>1, <2>2, <2>4, <2>6 DEF FoundOrAhead
  <2> QED
    BY <2>5, <2>6 DEF FoundOrAhead
<1>7. DescentInv'
  BY <1>1, <1>2, <1>5, DescentNext
<1>8. AheadInv'
  BY <1>1, <1>2, <1>6, AheadNext
<1> QED
  BY <1>1, <1>7, <1>8, FoundNext DEF WalkInv

\* The call that Reads pushes.
CallOf(d, path, rules) ==
  [dir |-> d, path |-> path, rules |-> rules \cup fs.ignore[d],
   todo |-> ag_scandir(d, rules \cup fs.ignore[d])]

\* It is of its type, for a directory that can be read.
LEMMA ReadsFrame ==
  ASSUME TypeOK, NEW callers \in Seq(Frame), NEW d, NEW path \in Path,
         NEW rules \in SUBSET Name, Reads(callers, d, path, rules)
  PROVE  /\ CallOf(d, path, rules) \in Frame
         /\ stack' = Append(callers, CallOf(d, path, rules))
         /\ d \in Dir \ fs.unreadable
<1>1. d \in Dir \ fs.unreadable
  BY DEF Reads
<1>2. rules \cup fs.ignore[d] \in SUBSET Name
  BY <1>1 DEF TypeOK, FileSystem
<1>3. ag_scandir(d, rules \cup fs.ignore[d]) \in SUBSET Name
  BY <1>1, <1>2 DEF ag_scandir, TypeOK, FileSystem
<1> QED
  BY <1>1, <1>2, <1>3 DEF Reads, Frame, CallOf

\* Paths to be found that go on by a directory lie ahead in it, and there
\* are none when it cannot be opened or is a loop.
LEMMA SearchSubdirKeeps ==
  ASSUME WalkInv, stack # <<>>, NEW x \in Name, SearchSubdir(x)
  PROVE  DescentInv' /\ FoundInv' /\ AheadInv'
<1> DEFINE t == Past(x)
           n == Len(stack)
           e == fs.entry[Top.dir][x]
           d == e.node
           all == Top.rules \cup fs.ignore[d]
           fr == CallOf(d, PathOf(x), Top.rules)
<1>1. /\ UNCHANGED <<given, next_path, queued, listed>>
      /\ x \in Top.todo /\ ~Skipped(x) /\ is_directory(e)
      /\ \/ Reads(t, d, PathOf(x), Top.rules)
         \/ ReturnsAtOnce(t, d)
  BY DEF SearchSubdir, found
<1>2. /\ t \in Seq(Frame) /\ t # <<>> /\ Len(t) = n /\ Kept(stack, t)
      /\ t[n].dir = stack[n].dir /\ t[n].path = stack[n].path
      /\ t[n].rules = stack[n].rules
      /\ \A k \in 1..n : t[k].path = stack[k].path
  <2>1. /\ t \in Seq(Frame) /\ t # <<>> /\ Len(t) = n /\ Kept(stack, t)
        /\ t[n].dir = stack[n].dir /\ t[n].path = stack[n].path
        /\ t[n].rules = stack[n].rules
    BY TopFacts, PastFacts
  <2> QED
    BY <2>1 DEF Kept
<1>3. Descent(t, next_path)
  BY <1>2, TopFacts, KeptDescent
<1>4. /\ stack \in Seq(Frame) /\ n \in Nat /\ n >= 1 /\ n \in 1..n
      /\ Top = stack[n] /\ Top \in Frame
      /\ Descent(stack, next_path) /\ FrameOn(stack, next_path, n)
      /\ ~SkipsIn(stack[n].dir, next_path, n - 1, x)
      /\ TypeOK /\ opts \in Settings
  BY <1>1, TopFacts DEF WalkInv, TypeOK
<1>5. /\ PathOf(x) = [arg |-> next_path, names |-> Append(Top.path.names, x)]
      /\ Top.path.names \in Seq(Name) /\ Len(Top.path.names) = n - 1
      /\ PathOf(x) \in Path /\ Top.rules \in SUBSET Name
  <2>1. PathOf(x) = [arg |-> next_path, names |-> Append(Top.path.names, x)]
    BY <1>4, PathOfIs DEF FrameOn
  <2>2. Top.path.names \in Seq(Name) /\ Len(Top.path.names) = n - 1
    BY <1>4, PathOfIs DEF FrameOn
  <2> QED
    BY <1>4, <2>1, <2>2, TopTyped DEF Frame
<1> HIDE DEF t, n
<1>6. ASSUME NEW p \in Candidates, ToBeFound(p), p.arg = next_path,
             AheadOn(stack, p)
      PROVE  \/ AheadOn(t, p)
             \/ /\ n <= Len(p.names) /\ Along(stack, n, p.names)
                /\ p.names[n] = x
                /\ n < Len(p.names)
                /\ d \in Dir \ fs.unreadable
                /\ \A j \in 1..n : stack[j].dir # d
                /\ p.names[n + 1] \in ag_scandir(d, all)
  <2>1. \/ AheadOn(t, p)
        \/ n <= Len(p.names) /\ Along(stack, n, p.names) /\ p.names[n] = x
    BY <1>6, MovesOn DEF t, n
  <2>2. ASSUME n <= Len(p.names), Along(stack, n, p.names), p.names[n] = x
        PROVE  /\ n < Len(p.names)
               /\ d \in Dir \ fs.unreadable
               /\ \A j \in 1..n : stack[j].dir # d
               /\ p.names[n + 1] \in ag_scandir(d, all)
    <3>1. n \in 1..Len(stack) /\ Descent(stack, p.arg)
      BY <1>4, <1>6 DEF n
    <3>2. n < Len(p.names)
      BY <1>1, <1>4, <1>6, <2>2, <3>1, OnTheWay
    <3>3. /\ d \in Dir \ fs.unreadable
          /\ \A j \in 1..n : stack[j].dir # d
          /\ p.names[n + 1] \in ag_scandir(d, Top.rules \cup fs.ignore[d])
      BY <1>4, <1>6, <2>2, <3>1, <3>2, OnTheWay
    <3> QED
      BY <3>2, <3>3
  <2> QED
    BY <2>1, <2>2
<1>7. ASSUME NEW p \in Candidates, ToBeFound(p)
      PROVE  /\ p.arg < next_path' => p \in FoundSoFar'
             /\ p.arg = next_path' => p \in FoundSoFar' \/ AheadOn(stack, p)
  <2>1. /\ p.arg < next_path => p \in FoundSoFar
        /\ p.arg = next_path => p \in FoundSoFar \/ AheadOn(stack, p)
    BY <1>4, <1>7, AheadNow DEF WalkInv, FoundOrAhead
  <2> QED
    BY <1>1, <2>1 DEF FoundSoFar
<1>8. CASE Reads(t, d, PathOf(x), Top.rules)
  <2> DEFINE u == Append(t, fr)
  <2>1. fr \in Frame /\ stack' = u /\ d \in Dir \ fs.unreadable
    <3>1. TypeOK /\ t \in Seq(Frame) /\ PathOf(x) \in Path
      BY <1>2, <1>4, <1>5
    <3>2. Top.rules \in SUBSET Name /\ Reads(t, d, PathOf(x), Top.rules)
      BY <1>5, <1>8
    <3> HIDE DEF d
    <3> QED
      BY <3>1, <3>2, ReadsFrame
  <2>2. /\ fr.dir = d /\ fr.rules = all /\ fr.todo = ag_scandir(d, all)
        /\ fr.path.arg = next_path
        /\ fr.path.names = Append(Top.path.names, x)
    BY <1>5 DEF CallOf
  <2> HIDE DEF fr
  <2>3. Entered(t, next_path, fr, x)
    <3>1. x \in ag_scandir(stack[n].dir, stack[n].rules)
      BY <1>1, <1>4 DEF FrameOn
    <3>2. /\ t[n].dir = Top.dir
          /\ t[n].path = Top.path
          /\ t[n].rules = Top.rules
          /\ Len(t) = n
      BY <1>2, <1>4
    <3> QED
      BY <1>4, <2>1, <2>2, <3>1, <3>2 DEF Entered
  <2>4. Descent(u, next_path)
    BY <1>2, <1>3, <2>1, <2>3, PushDescent
  <2>5. /\ u \in Seq(Frame) /\ Len(u) = n + 1 /\ u[n + 1] = fr
        /\ \A k \in 1..n : u[k] = t[k]
    BY <1>2, <2>1, AppendFacts
  <2> HIDE DEF u
  <2>6. ASSUME NEW p \in Candidates, ToBeFound(p), p.arg = next_path,
               AheadOn(stack, p)
        PROVE  AheadOn(u, p)
    <3>1. CASE AheadOn(t, p)
      <4>1. PICK k \in 1..Len(t) : k <= Len(p.names) /\ Along(t, k, p.names)
                                   /\ p.names[k] \in t[k].todo
        BY <3>1 DEF AheadOn
      <4>2. k \in 1..n /\ k \in 1..Len(u) /\ u[k] = t[k]
        BY <1>2, <1>4, <2>5, <4>1
      <4>3. Along(u, k, p.names)
        BY <4>1, <4>2, AlongKept
      <4> QED
        BY <4>1, <4>2, <4>3 DEF AheadOn
    <3>2. CASE /\ n <= Len(p.names) /\ Along(stack, n, p.names)
               /\ p.names[n] = x
               /\ n < Len(p.names)
               /\ p.names[n + 1] \in ag_scandir(d, all)
      <4>1. n + 1 \in 1..Len(u) /\ n + 1 <= Len(p.names)
        <5>1. /\ Len(p.names) \in Nat /\ n \in Nat /\ n < Len(p.names)
              /\ Len(u) = n + 1
          BY <1>4, <2>5, <3>2, CandidateTyped
        <5> QED
          BY <5>1
      <4>2. p.names[n + 1] \in u[n + 1].todo
        BY <2>5, <2>2, <3>2
      <4>3. Along(u, n + 1, p.names)
        <5> DEFINE a == Top.path.names
        <5>1. /\ u[n + 1].path.names = Append(a, x)
              /\ a \in Seq(Name)
              /\ Len(a) = n - 1
          BY <1>5, <2>5, <2>2
        <5>2. \A j \in 1..(n - 1) : p.names[j] = a[j]
          BY <1>4, <3>2 DEF Along
        <5> HIDE DEF a
        <5>3. /\ Append(a, x)[Len(a) + 1] = x
              /\ \A j \in 1..Len(a) : Append(a, x)[j] = a[j]
          BY <5>1, AppendFacts
        <5>4. (n - 1) + 1 = n /\ (n + 1) - 1 = n
          BY <1>4
        <5>5. \A j \in 1..n : p.names[j] = u[n + 1].path.names[j]
          <6> TAKE j \in 1..n
          <6>1. CASE j = n
            BY <3>2, <5>1, <5>3, <5>4, <6>1
          <6>2. CASE j # n
            <7>1. j \in 1..(n - 1)
              BY <1>4, <6>2
            <7> QED
              BY <5>1, <5>2, <5>3, <7>1
          <6> QED
            BY <6>1, <6>2
        <5> QED
          BY <5>4, <5>5 DEF Along
      <4> QED
        BY <4>1, <4>2, <4>3 DEF AheadOn
    <3> QED
      BY <1>6, <2>6, <3>1, <3>2
  <2>7. ASSUME NEW p \in Candidates, ToBeFound(p)
        PROVE  FoundOrAhead(p, u, next_path', FoundSoFar')
    BY <1>1, <1>7, <2>6, <2>7 DEF FoundOrAhead
  <2>8. DescentInv'
    BY <1>1, <2>1, <2>4, <2>5, DescentNext
  <2>9. AheadInv'
    BY <1>1, <2>1, <2>5, <2>7, AheadNext
  <2> QED
    BY <1>1, <2>8, <2>9, FoundNext DEF WalkInv
<1>9. CASE ReturnsAtOnce(t, d)
  <2>1. stack' = t /\ (d \in fs.unreadable \/ d \in symhash)
    BY <1>9 DEF ReturnsAtOnce, check_symloop_enter
  <2>2. d \in symhash => \E j \in 1..n : stack[j].dir = d
    <3>1. symhash = {stack[i].dir : i \in DOMAIN stack} /\ DOMAIN stack = 1..n
      BY <1>4 DEF WalkInv, SymhashIsStack, n
    <3> QED
      BY <3>1
  <2>3. ASSUME NEW p \in Candidates, ToBeFound(p)
        PROVE  FoundOrAhead(p, t, next_path', FoundSoFar')
    BY <1>1, <1>6, <1>7, <2>1, <2>2, <2>3 DEF FoundOrAhead
  <2>4. DescentInv'
    BY <1>1, <1>2, <1>3, <2>1, DescentNext
  <2>5. AheadInv'
    BY <1>1, <1>2, <2>1, <2>3, AheadNext
  <2> QED
    BY <1>1, <2>4, <2>5, FoundNext DEF WalkInv
<1> QED
  BY <1>1, <1>8, <1>9

\* No call is in progress at first and between two arguments.
LEMMA NoneInProgress ==
  ASSUME NEW np
  PROVE  Descent(<<>>, np)
<1>1. Len(<<>>) = 0 /\ 1..0 = {} /\ 1..(0 - 1) = {}
  OBVIOUS
<1> QED
  BY <1>1 DEF Descent

\* All paths to be found of an argument lie ahead in its directory.
LEMMA SearchPathKeeps ==
  ASSUME WalkInv, SearchPath
  PROVE  DescentInv' /\ FoundInv' /\ AheadInv'
<1> DEFINE d == paths[next_path].node
           path == [arg |-> next_path, names |-> <<>>]
           fr == CallOf(d, path, {})
           u == Append(<<>>, fr)
<1>1. /\ UNCHANGED <<given, next_path, queued, listed>> /\ stack = <<>>
      /\ next_path \in DOMAIN paths
      /\ Reads(<<>>, d, path, {})
  BY DEF SearchPath, found
<1>2. TypeOK /\ opts \in Settings /\ next_path \in Nat /\ path \in Path
  <2>1. next_path \in Nat
    BY DEF WalkInv, TypeOK
  <2> QED
    BY <2>1 DEF WalkInv, TypeOK, Path
<1>3. fr \in Frame /\ stack' = u /\ d \in Dir \ fs.unreadable
  <2>1. <<>> \in Seq(Frame) /\ {} \in SUBSET Name
    OBVIOUS
  <2> HIDE DEF path, d
  <2> QED
    BY <1>1, <1>2, <2>1, ReadsFrame
<1>4. /\ fr.dir = d
      /\ fr.path = path
      /\ fr.rules = fs.ignore[d]
      /\ fr.todo = ag_scandir(d, fs.ignore[d])
  <2>1. {} \cup fs.ignore[d] = fs.ignore[d]
    OBVIOUS
  <2> HIDE DEF path, d
  <2> QED
    BY <2>1 DEF CallOf
<1> HIDE DEF fr
<1>5. u \in Seq(Frame) /\ Len(u) = 1 /\ u[1] = fr /\ u # <<>>
  BY <1>3
<1> HIDE DEF u
<1>6. Descent(u, next_path)
  <2>1. FrameOn(u, next_path, 1)
    <3>1. 1..(1 - 1) = {} /\ Len(<<>>) = 1 - 1 /\ 1..1 = {1}
      OBVIOUS
    <3>2. UNION {fs.ignore[u[j].dir] : j \in 1..1} = fs.ignore[d]
      BY <1>4, <1>5, <3>1
    <3>3. /\ path.arg = next_path /\ path.names = <<>>
      OBVIOUS
    <3> HIDE DEF path, d
    <3> QED
      BY <1>3, <1>4, <1>5, <3>1, <3>2, <3>3 DEF FrameOn
  <2>2. 1..Len(u) = {1} /\ 1..(Len(u) - 1) = {}
    BY <1>5
  <2> QED
    BY <1>1, <1>4, <1>5, <2>1, <2>2 DEF Descent
<1>7. ASSUME NEW p \in Candidates, ToBeFound(p)
      PROVE  FoundOrAhead(p, u, next_path', FoundSoFar')
  <2>1. p.arg < next_path => p \in FoundSoFar
    BY <1>1, <1>2, <1>7, AheadNow DEF WalkInv, FoundOrAhead, TypeOK
  <2>2. ASSUME p.arg = next_path PROVE AheadOn(u, p)
    <3> DEFINE node == Route(p.arg, p.names)
    <3>1. p.names \in Seq(Name) /\ Len(p.names) \in Nat /\ Len(p.names) >= 1
      BY CandidateTyped
    <3>2. node[0] = d
      BY <2>2, <3>1, RouteGoesOn
    <3>3. 1 \in 1..Len(p.names) /\ 1 - 1 = 0 /\ 1..1 = {1}
      BY <3>1
    <3>4. p.names[1] \in ag_scandir(node[0], RulesOn(node, 1))
      BY <1>2, <1>7, <3>3, ToBeFoundGoesOn
    <3> HIDE DEF node
    <3>5. RulesOn(node, 1) = fs.ignore[d]
      BY <3>2, <3>3 DEF RulesOn
    <3>6. Along(u, 1, p.names)
      BY DEF Along
    <3>7. p.names[1] \in u[1].todo
      BY <1>4, <1>5, <3>2, <3>4, <3>5
    <3> QED
      BY <1>5, <3>1, <3>3, <3>6, <3>7 DEF AheadOn
  <2> QED
    BY <1>1, <2>1, <2>2 DEF FoundSoFar, FoundOrAhead
<1>8. DescentInv'
  BY <1>1, <1>3, <1>5, <1>6, DescentNext
<1>9. AheadInv'
  BY <1>1, <1>3, <1>5, <1>7, AheadNext
<1> QED
  BY <1>1, <1>8, <1>9, FoundNext DEF WalkInv

\* None is to be found of an argument that is no readable directory.
LEMMA SearchNoDirectoryKeeps ==
  ASSUME WalkInv, SearchNoDirectory
  PROVE  DescentInv' /\ FoundInv' /\ AheadInv'
<1>1. /\ UNCHANGED <<given, queued, listed>> /\ stack = <<>> /\ stack' = <<>>
      /\ next_path \in DOMAIN paths /\ next_path' = next_path + 1
      /\ paths[next_path].node \notin Dir \ fs.unreadable
  BY DEF SearchNoDirectory
<1>2. TypeOK /\ opts \in Settings /\ next_path \in Nat /\ <<>> \in Seq(Frame)
  BY DEF WalkInv, TypeOK
<1>3. ASSUME NEW p \in Candidates, ToBeFound(p)
      PROVE  FoundOrAhead(p, <<>>, next_path', FoundSoFar')
  <2>1. p.arg < next_path => p \in FoundSoFar
    BY <1>1, <1>2, <1>3, AheadNow DEF WalkInv, FoundOrAhead, TypeOK
  <2>2. p.arg # next_path
    <3> SUFFICES ASSUME p.arg = next_path PROVE FALSE
      OBVIOUS
    <3> DEFINE node == Route(p.arg, p.names)
    <3>1. p.names \in Seq(Name) /\ Len(p.names) \in Nat /\ Len(p.names) >= 1
      BY CandidateTyped
    <3>2. node[0] = paths[next_path].node
      BY <3>1, RouteGoesOn
    <3>3. 1 \in 1..Len(p.names) /\ 1 - 1 = 0
      BY <3>1
    <3>4. node[0] \in Dir \ fs.unreadable
      BY <1>2, <1>3, <3>3, ToBeFoundGoesOn
    <3> QED
      BY <1>1, <3>2, <3>4
  <2>3. p.arg \in Nat
    <3>1. p.arg \in DOMAIN paths /\ paths \in Seq(Entry)
      BY <1>2, CandidateTyped DEF TypeOK
    <3> QED
      BY <3>1
  <2>4. p.arg < next_path' => p.arg < next_path
    BY <1>1, <1>2, <2>2, <2>3
  <2> QED
    BY <1>1, <2>1, <2>4 DEF FoundSoFar, FoundOrAhead
<1>4. DescentInv'
  BY <1>1, <1>2, NoneInProgress, DescentNext
<1>5. AheadInv'
  BY <1>1, <1>2, <1>3, AheadNext
<1> QED
  BY <1>1, <1>4, <1>5, FoundNext DEF WalkInv

-----------------------------------------------------------------------------
(* The walk as a whole.                                                     *)

\* The walk starts with nothing found and nothing to be found behind it.
LEMMA WalkInit ==
  ASSUME Init
  PROVE  WalkInv
<1>1. TypeOK /\ SymhashIsStack
  BY InvInit DEF IInv
<1>2. /\ stack = <<>>
      /\ queued = {}
      /\ listed = {}
      /\ next_path = 1
      /\ paths \in Seq(Entry)
  BY <1>1 DEF Init, TypeOK
<1>3. DescentInv
  <2>1. stack \in Seq(Frame) /\ Descent(stack, next_path)
    BY <1>2, NoneInProgress
  <2> QED
    BY <2>1, DescentIs
<1>4. FoundInv
  BY <1>2 DEF FoundInv
<1>5. AheadInv
  <2>1. ASSUME NEW p \in Candidates PROVE ~(p.arg < 1)
    <3>1. p.arg \in DOMAIN paths
      BY CandidateTyped
    <3> QED
      BY <1>2, <3>1
  <2> QED
    BY <1>2, <2>1 DEF AheadInv
<1> QED
  BY <1>1, <1>3, <1>4, <1>5 DEF WalkInv

\* Each step of the walk keeps its invariant.
LEMMA WalkStep ==
  ASSUME WalkInv, [Next]_vars
  PROVE  WalkInv'
<1>1. IInv
  BY DEF WalkInv, DescentInv, IInv
<1>2. TypeOK' /\ SymhashIsStack'
  BY <1>1, InvStep DEF IInv
<1>3. CASE SearchPath
  BY <1>2, <1>3, SearchPathKeeps DEF WalkInv
<1>4. CASE SearchNoDirectory
  BY <1>2, <1>4, SearchNoDirectoryKeeps DEF WalkInv
<1>5. CASE search_dir
  <2>1. ASSUME NEW x \in Name, SkipEntry(x) PROVE WalkInv'
    BY <1>2, <1>5, <2>1, SkipEntryKeeps DEF WalkInv, search_dir
  <2>2. ASSUME NEW x \in Name, FoundFile(x) PROVE WalkInv'
    BY <1>2, <1>5, <2>2, FoundFileKeeps DEF WalkInv, search_dir
  <2>3. ASSUME NEW x \in Name, SearchSubdir(x) PROVE WalkInv'
    BY <1>2, <1>5, <2>3, SearchSubdirKeeps DEF WalkInv, search_dir
  <2>4. CASE LeaveDir
    BY <1>2, <1>5, <2>4, LeaveDirKeeps DEF WalkInv, search_dir
  <2> QED
    BY <1>5, <2>1, <2>2, <2>3, <2>4 DEF search_dir
<1>6. CASE UNCHANGED vars
  <2>1. UNCHANGED <<given, queued, listed, stack, next_path>>
    BY <1>6 DEF vars, found
  <2>2. stack \in Seq(Frame) /\ Descent(stack, next_path)
    <3>1. stack \in Seq(Frame)
      BY DEF WalkInv, TypeOK
    <3> QED
      BY <3>1, DescentIs DEF WalkInv
  <2>3. DescentInv'
    BY <2>1, <2>2, DescentNext
  <2>4. FoundInv'
    BY <2>1, FoundNext DEF WalkInv
  <2>5. AheadInv'
    <3>1. \A p \in Candidates : ToBeFound(p) =>
            FoundOrAhead(p, stack, next_path', FoundSoFar')
      BY <2>1, <2>2, AheadNow DEF WalkInv, FoundOrAhead, FoundSoFar
    <3> QED
      BY <2>1, <2>2, <3>1, AheadNext
  <2> QED
    BY <1>2, <2>3, <2>4, <2>5 DEF WalkInv
<1> QED
  BY <1>3, <1>4, <1>5, <1>6 DEF Next

\* The invariant of what is found and what lies ahead holds all along.
THEOREM WalkInvariance == Spec => []WalkInv
<1> QED
  BY WalkInit, WalkStep, PTL DEF Spec

\* A walk that is over has found exactly the paths the options ask for.
THEOREM FindsAsAsked == Spec => []FoundAsAsked
<1>1. WalkInv => FoundAsAsked
  <2> SUFFICES ASSUME WalkInv, Walked
               PROVE  IF opts.file_search = "g"
                      THEN /\ queued = {}
                           /\ listed = {p \in Candidates : ToBeFound(p)}
                      ELSE /\ listed = {}
                           /\ queued = {p \in Candidates : ToBeFound(p)}
    BY DEF FoundAsAsked
  <2>1. /\ paths \in Seq(Entry)
        /\ DOMAIN paths = 1..Len(paths)
        /\ Len(paths) \in Nat
        /\ next_path \in 1..(Len(paths) + 1) /\ next_path \notin DOMAIN paths
    BY DEF WalkInv, TypeOK, Walked
  <2>2. ASSUME NEW p \in Candidates, ToBeFound(p)
        PROVE  p \in queued \cup listed
    <3>1. p.arg < next_path
      BY <2>1, CandidateTyped
    <3> QED
      BY <2>2, <3>1 DEF WalkInv, AheadInv
  <2>3. /\ queued \cup listed \subseteq {p \in Candidates : ToBeFound(p)}
        /\ IF opts.file_search = "g" THEN queued = {} ELSE listed = {}
    BY DEF WalkInv, FoundInv
  <2> HIDE DEF Candidates
  <2> QED
    BY <2>2, <2>3
<1> QED
  BY WalkInvariance, <1>1, PTL

\* However the directories are linked, search_dir is never called deeper than
\* there are directories.
THEOREM RecursionBounded == Spec => [](Len(stack) <= Cardinality(Dir))
<1>1. WalkInv => Len(stack) <= Cardinality(Dir)
  BY StackDepth DEF WalkInv, TypeOK, SymhashIsStack, Distinct
<1> QED
  BY WalkInvariance, <1>1, PTL
=============================================================================
