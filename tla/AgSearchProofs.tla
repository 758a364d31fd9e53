--------------------------- MODULE AgSearchProofs ---------------------------
(***************************************************************************)
(* Proofs about AgSearch and AgSearchFaults: the types, the protocol of the *)
(* two barriers, no match lost or doubled, and that ag_search() answers as  *)
(* SearchService promises.                                                  *)
(***************************************************************************)
EXTENDS AgSearchFaults, WorkQueueProofs, FiniteSetTheorems, TLAPS


-----------------------------------------------------------------------------
(* The steps of Next, one by one                                            *)

\* A step of one thread on the queue.
QueueStep ==
  \/ \E w \in Worker : \/ LockQueue(w) \/ Dequeue(w) \/ WaitForFiles(w)
                       \/ SeeDone(w) \/ SpuriousWakeup(w)
  \/ \E t \in Thread : SkipFile(t) \/ SearchBuf(t)
  \/ \E i \in Item : LockToEnqueue(i) \/ SearchFileArgument(i)
  \/ Enqueue \/ LockToFinish

\* A step of the pool.
PoolStep ==
  \/ \E t \in Thread : AddLocalResult(t)
  \/ \E w \in Worker : LeaveLoop(w) \/ Spawn(w)
  \/ StartReturns \/ Setup \/ EndWalk \/ WorkersDone \/ GetThrdResults
  \/ ResetLocalResults \/ Restart \/ ResultsDone \/ ReturnResult
  \/ StopOnReturn \/ TellToStop \/ JoinWorkers
  \/ ClientStart \/ CallSearch \/ CallSearchAndStart \/ ClientStop

\* Next has no other steps.
LEMMA NextSteps ==
  ASSUME Next
  PROVE  OnPool(QueueStep) \/ PoolStep
  BY DEF Next, WorkerStep, MainStep, ClientCall, OnPool, WorkerLoop, SearchStep,
         Walk, QueueStep, PoolStep, Thread

-----------------------------------------------------------------------------
(* Types                                                                    *)

\* There are finitely many places in the lists, so *nresults is a number.
LEMMA PlacesFinite ==
  ASSUME TypeOK
  PROVE  IsFiniteSet(Places)
<1>1. IsFiniteSet(Thread)
  BY WorkQueueAssumption, FS_AddElement DEF Thread
<1>2. ASSUME NEW t \in Thread
      PROVE  IsFiniteSet({t} \X (1..Len(thrd_rslt[t])))
  <2>1. Len(thrd_rslt[t]) \in Nat
    BY DEF TypeOK
  <2>2. IsFiniteSet(1..Len(thrd_rslt[t]))
    BY <2>1, FS_Interval
  <2> QED
    BY <2>2, FS_Singleton, FS_Product
<1>3. IsFiniteSet({{t} \X (1..Len(thrd_rslt[t])) : t \in Thread})
  <2> DEFINE place == [t \in Thread |-> {t} \X (1..Len(thrd_rslt[t]))]
             T == {{t} \X (1..Len(thrd_rslt[t])) : t \in Thread}
  <2>1. place \in Surjection(Thread, T)
    BY DEF Surjection
  <2> HIDE DEF place
  <2> QED
    BY <1>1, <2>1, FS_Surjection
<1> QED
  BY <1>2, <1>3, FS_UNION DEF Places

\* The lists ag_start_workers() and reset_local_results() leave are typed.
LEMMA EmptyResultsType ==
  EmptyResults \in [Thread -> Seq(Item)]
  BY DEF EmptyResults

\* The library starts well typed, before ag_init().
LEMMA TypeInit ==
  ASSUME Init
  PROVE  TypeOK
<1>1. /\ pc = [t \in Thread |-> IF t = Main THEN "idle" ELSE "absent"]
      /\ Main \in Thread /\ Main \notin Worker /\ Worker \subseteq Thread
      /\ None \notin Item
  BY WorkQueueAssumption DEF Init, Thread
<1>2. NoSearch \in [Item -> Outcome]
  BY DEF NoSearch, Outcome
<1>3. EmptyResults \in [Thread -> Seq(Item)]
  BY EmptyResultsType
<1>4. /\ pc \in [Thread -> WorkerPC \cup MainPC]
      /\ pc[Main] \in MainPC /\ \A w \in Worker : pc[w] \in WorkerPC
  BY <1>1 DEF WorkerPC, MainPC
<1>5. /\ queue_item \in [Thread -> Item \cup {None}]
      /\ \A t \in Thread : pc[t] \in {"search", "report", "enqueue"}
                             <=> queue_item[t] \in Item
  BY <1>1 DEF Init
<1>6. stats \in [total_files : Nat, total_file_matches : Nat]
  BY DEF Init, ZeroStats
<1>7. /\ work_queue \in Seq(Item) /\ work_queue_mtx \in Thread \cup {None}
      /\ walk \in SUBSET Item /\ file_args \in SUBSET Item
      /\ workers \in {{}, Worker} /\ nresults \in Nat
      /\ workers_behavior \in Behaviors
  BY DEF Init
<1>8. done_adding_files \in BOOLEAN /\ stop_workers \in BOOLEAN
  BY DEF Init
<1>9. outcome \in [Item -> Outcome] /\ thrd_rslt \in [Thread -> Seq(Item)]
  BY <1>2, <1>3 DEF Init
<1> QED
  BY <1>4, <1>5, <1>6, <1>7, <1>8, <1>9 DEF TypeOK

\* No step of a worker, of ag_search() or of the client breaks a type.
LEMMA TypeStep ==
  ASSUME TypeOK, PoolInv, [Next]_vars
  PROVE  TypeOK'
<1>1. /\ Main \in Thread /\ Main \notin Worker /\ Worker \subseteq Thread
      /\ None \notin Item
  BY WorkQueueAssumption DEF Thread
<1>2. ASSUME NEW w \in Worker, OnPool(LockQueue(w))
      PROVE  TypeOK'
  BY <1>2, <1>1
  DEF TypeOK, WorkerPC, MainPC, Thread, LockQueue, OnPool, poolVars
<1>3. ASSUME NEW w \in Worker, OnPool(Dequeue(w))
      PROVE  TypeOK'
  BY <1>3, <1>1
  DEF TypeOK, WorkerPC, MainPC, Thread, Dequeue, OnPool, poolVars
<1>4. ASSUME NEW w \in Worker, OnPool(WaitForFiles(w))
      PROVE  TypeOK'
  BY <1>4, <1>1
  DEF TypeOK, WorkerPC, MainPC, Thread, WaitForFiles, OnPool, poolVars
<1>5. ASSUME NEW w \in Worker, OnPool(SeeDone(w))
      PROVE  TypeOK'
  BY <1>5, <1>1
  DEF TypeOK, WorkerPC, MainPC, Thread, SeeDone, OnPool, poolVars
<1>6. ASSUME NEW w \in Worker, OnPool(SpuriousWakeup(w))
      PROVE  TypeOK'
  BY <1>6, <1>1
  DEF TypeOK, WorkerPC, MainPC, Thread, SpuriousWakeup, OnPool, poolVars
<1>7. ASSUME NEW t \in Thread, OnPool(SkipFile(t))
      PROVE  TypeOK'
  BY <1>7, <1>1
  DEF TypeOK, WorkerPC, MainPC, Thread, SkipFile, Release, Resume, OnPool, poolVars
<1>8. ASSUME NEW t \in Thread, OnPool(SearchBuf(t))
      PROVE  TypeOK'
  <2>1. stats' \in [total_files : Nat, total_file_matches : Nat]
    BY <1>8 DEF TypeOK, SearchBuf, OnPool
  <2>2. pc[t] = "search"
    BY <1>8 DEF SearchBuf, OnPool
  <2>3. UNCHANGED <<work_queue, work_queue_mtx, done_adding_files, walk,
                    file_args, outcome, poolVars>>
    BY <1>8 DEF SearchBuf, OnPool
  <2>4. CASE outcome[queue_item[t]] = "match"
    <3>1. pc' = [pc EXCEPT ![t] = "report"] /\ queue_item' = queue_item
      BY <1>8, <2>4 DEF SearchBuf, OnPool
    <3> QED
      BY <1>1, <2>1, <2>2, <2>3, <3>1
      DEF TypeOK, WorkerPC, MainPC, Thread, poolVars
  <2>5. CASE outcome[queue_item[t]] # "match"
    <3>1. Release(t)
      BY <1>8, <2>5 DEF SearchBuf, OnPool
    <3> QED
      BY <1>1, <2>1, <2>2, <2>3, <3>1
      DEF TypeOK, WorkerPC, MainPC, Thread, Release, Resume, poolVars
  <2> QED
    BY <2>4, <2>5
<1>9. ASSUME NEW i \in Item, OnPool(LockToEnqueue(i))
      PROVE  TypeOK'
  BY <1>9, <1>1
  DEF TypeOK, WorkerPC, MainPC, Thread, LockToEnqueue, OnPool, poolVars
<1>10. ASSUME NEW i \in Item, OnPool(SearchFileArgument(i))
      PROVE  TypeOK'
  BY <1>10, <1>1
  DEF TypeOK, WorkerPC, MainPC, Thread, SearchFileArgument, OnPool, poolVars
<1>11. ASSUME OnPool(Enqueue)
      PROVE  TypeOK'
  <2>1. pc[Main] = "enqueue" /\ queue_item[Main] \in Item
    BY <1>11, <1>1 DEF TypeOK, Enqueue, OnPool
  <2>2. work_queue' \in Seq(Item)
    BY <1>11, <2>1 DEF TypeOK, Enqueue, OnPool
  <2>3. PICK S \in SUBSET Waiting : pc' = [Wake(S) EXCEPT ![Main] = "walk"]
    BY <1>11 DEF Enqueue, OnPool, Signalled
  <2>4. /\ pc' = [t \in Thread |-> IF t = Main THEN "walk"
                                  ELSE IF t \in S THEN "woken" ELSE pc[t]]
        /\ queue_item' = [queue_item EXCEPT ![Main] = None]
    BY <1>11, <2>3 DEF Enqueue, OnPool, Wake
  <2>5. S \subseteq {w \in Worker : pc[w] = "waiting"}
    BY <2>3 DEF Waiting
  <2>6. /\ pc' \in [Thread -> WorkerPC \cup MainPC]
        /\ pc'[Main] \in MainPC /\ \A w \in Worker : pc'[w] \in WorkerPC
    BY <1>1, <2>4 DEF TypeOK, WorkerPC, MainPC
  <2>7. /\ queue_item' \in [Thread -> Item \cup {None}]
        /\ \A t \in Thread : pc'[t] \in {"search", "report", "enqueue"}
                               <=> queue_item'[t] \in Item
    BY <1>1, <2>4, <2>5 DEF TypeOK
  <2> QED
    BY <1>11, <1>1, <2>2, <2>6, <2>7 DEF TypeOK, Enqueue, OnPool, poolVars
<1>12. ASSUME OnPool(LockToFinish)
      PROVE  TypeOK'
  BY <1>12, <1>1
  DEF TypeOK, WorkerPC, MainPC, Thread, LockToFinish, OnPool, poolVars
<1>13. ASSUME NEW t \in Thread, AddLocalResult(t)
      PROVE  TypeOK'
  BY <1>13, <1>1
  DEF TypeOK, WorkerPC, MainPC, Thread, AddLocalResult, Release, Resume, poolVars
<1>14. ASSUME NEW w \in Worker, LeaveLoop(w)
      PROVE  TypeOK'
  BY <1>14, <1>1
  DEF TypeOK, WorkerPC, MainPC, Thread, LeaveLoop, poolVars
<1>15. ASSUME NEW w \in Worker, Spawn(w)
      PROVE  TypeOK'
  BY <1>15, <1>1
  DEF TypeOK, WorkerPC, MainPC, Thread, Spawn, poolVars
<1>16. ASSUME StartReturns
      PROVE  TypeOK'
  BY <1>16, <1>1
  DEF TypeOK, WorkerPC, MainPC, Thread, StartReturns, poolVars
<1>17. ASSUME Setup
      PROVE  TypeOK'
  BY <1>17, <1>1
  DEF TypeOK, WorkerPC, MainPC, Thread, Setup, ZeroStats, poolVars
<1>18. ASSUME EndWalk
      PROVE  TypeOK'
  BY <1>18, <1>1
  DEF TypeOK, WorkerPC, MainPC, Thread, EndWalk, FinishAdding, Wake, Waiting, poolVars
<1>19. ASSUME WorkersDone
      PROVE  TypeOK'
  BY <1>19, <1>1
  DEF TypeOK, WorkerPC, MainPC, Thread, WorkersDone, poolVars
<1>20. ASSUME GetThrdResults
      PROVE  TypeOK'
  <2>1. nresults' \in Nat
    BY <1>20, PlacesFinite, FS_CardinalityType DEF GetThrdResults
  <2> QED
    BY <1>20, <1>1, <2>1
    DEF TypeOK, WorkerPC, MainPC, Thread, GetThrdResults
<1>21. ASSUME ResetLocalResults
      PROVE  TypeOK'
  BY <1>21, <1>1, EmptyResultsType
  DEF TypeOK, WorkerPC, MainPC, Thread, ResetLocalResults, poolVars
<1>22. ASSUME Restart
      PROVE  TypeOK'
  BY <1>22, <1>1
  DEF TypeOK, WorkerPC, MainPC, Thread, Restart, poolVars
<1>23. ASSUME ResultsDone
      PROVE  TypeOK'
  BY <1>23, <1>1
  DEF TypeOK, WorkerPC, MainPC, Thread, ResultsDone, poolVars
<1>24. ASSUME ReturnResult
      PROVE  TypeOK'
  BY <1>24, <1>1
  DEF TypeOK, WorkerPC, MainPC, Thread, ReturnResult, poolVars
<1>25. ASSUME StopOnReturn
      PROVE  TypeOK'
  BY <1>25, <1>1
  DEF TypeOK, WorkerPC, MainPC, Thread, StopOnReturn, LockToStop, poolVars
<1>26. ASSUME TellToStop
      PROVE  TypeOK'
  BY <1>26, <1>1
  DEF TypeOK, WorkerPC, MainPC, Thread, TellToStop, Wake, Waiting, poolVars
<1>27. ASSUME JoinWorkers
      PROVE  TypeOK'
  <2>1. thrd_rslt' \in [Thread -> Seq(Item)]
    BY <1>27, EmptyResultsType DEF JoinWorkers
  <2>2. workers = Worker
    BY <1>27 DEF JoinWorkers, PoolInv
  <2> QED
    BY <1>27, <1>1, <2>1, <2>2
    DEF TypeOK, WorkerPC, MainPC, Thread, JoinWorkers, poolVars
<1>28. ASSUME ClientStart
      PROVE  TypeOK'
  <2>1. thrd_rslt' \in [Thread -> Seq(Item)]
    BY <1>28, EmptyResultsType DEF ClientStart, StartWorkers
  <2>2. work_queue' \in Seq(Item) /\ workers' \in {{}, Worker}
    BY <1>28 DEF ClientStart, StartWorkers
  <2> QED
    BY <1>28, <1>1, <2>1, <2>2
    DEF TypeOK, WorkerPC, MainPC, Thread, ClientStart, StartWorkers, poolVars
<1>29. ASSUME CallSearch
      PROVE  TypeOK'
  BY <1>29, <1>1
  DEF TypeOK, WorkerPC, MainPC, Thread, CallSearch, NewRequest, Present, poolVars
<1>30. ASSUME CallSearchAndStart
      PROVE  TypeOK'
  <2>1. thrd_rslt' \in [Thread -> Seq(Item)]
    BY <1>30, EmptyResultsType DEF CallSearchAndStart, StartWorkers
  <2>2. work_queue' \in Seq(Item) /\ workers' \in {{}, Worker}
    BY <1>30 DEF CallSearchAndStart, StartWorkers
  <2> QED
    BY <1>30, <1>1, <2>1, <2>2
    DEF TypeOK, WorkerPC, MainPC, Thread, CallSearchAndStart, StartWorkers,
        NewRequest, Present, poolVars
<1>31. ASSUME ClientStop
      PROVE  TypeOK'
  BY <1>31, <1>1
  DEF TypeOK, WorkerPC, MainPC, Thread, ClientStop, LockToStop, poolVars
<1>32. ASSUME UNCHANGED vars
      PROVE  TypeOK'
  BY <1>32 DEF TypeOK, WorkerPC, MainPC, Thread, vars, queueVars, poolVars
<1> QED
  BY NextSteps, <1>2, <1>3, <1>4, <1>5, <1>6, <1>7, <1>8, <1>9, <1>10, <1>11,
      <1>12, <1>13, <1>14, <1>15, <1>16, <1>17, <1>18, <1>19, <1>20, <1>21,
      <1>22, <1>23, <1>24, <1>25, <1>26, <1>27, <1>28, <1>29, <1>30, <1>31,
      <1>32 DEF QueueStep, PoolStep, OnPool

-----------------------------------------------------------------------------
(* The protocol of the mutex and the two barriers                           *)

Protocol == /\ MutexInv /\ PoolInv /\ FlagInv /\ PhaseInv /\ Quiescent
            /\ ResetInv

\* The rest of the inductive invariant holds before ag_init().
LEMMA ProtocolInit ==
  ASSUME Init
  PROVE  Protocol
  BY WorkQueueAssumption
  DEF Init, Protocol, MutexInv, PoolInv, FlagInv, PhaseInv, Quiescent, ResetInv, Thread

\* A barrier opens only once every thread is blocked in it: workers_len + 1 is
\* the number of threads there are.
LEMMA BarrierFull ==
  ASSUME TypeOK, PoolInv, NEW barrier \in {"worker_done", "results_done"},
         Cardinality(Blocked(barrier)) = BarrierCount
  PROVE  \A t \in Thread : pc[t] = barrier
<1>1. /\ IsFiniteSet(Thread)
      /\ Cardinality(Thread) = Cardinality(Worker) + 1
      /\ Cardinality(Worker) \in Nat
  BY WorkQueueAssumption, FS_AddElement, FS_CardinalityType DEF Thread
<1>2. CASE workers = Worker
  <2>1. Cardinality(Blocked(barrier)) = Cardinality(Thread)
    BY <1>1, <1>2 DEF BarrierCount
  <2>2. Blocked(barrier) \in SUBSET Thread
    BY DEF Blocked
  <2>3. Blocked(barrier) = Thread
    BY <1>1, <2>1, <2>2, FS_Subset
  <2> QED
    BY <2>3 DEF Blocked
<1>3. CASE workers = {}
  <2>1. pc[Main] = "idle" /\ \A w \in Worker : pc[w] = "absent"
    BY <1>3, WorkQueueAssumption DEF PoolInv
  <2>2. Blocked(barrier) = {}
    BY <2>1 DEF Blocked, Thread
  <2> QED
    BY <1>3, <2>2, FS_EmptySet DEF BarrierCount
<1> QED
  BY <1>2, <1>3 DEF TypeOK

\* Every step keeps the mutex, the pool, the flags and the phases of the two
\* barriers in agreement with where the client thread is.
LEMMA ProtocolStep ==
  ASSUME TypeOK, Protocol, [Next]_vars
  PROVE  Protocol'
<1>1. /\ Main \in Thread /\ Main \notin Worker /\ Worker \subseteq Thread
      /\ Thread = Worker \cup {Main} /\ None \notin Thread /\ None \notin Item
      /\ Worker # {}
  BY WorkQueueAssumption DEF Thread
<1>2. /\ pc \in [Thread -> WorkerPC \cup MainPC]
      /\ pc[Main] \in MainPC /\ \A w \in Worker : pc[w] \in WorkerPC
      /\ queue_item \in [Thread -> Item \cup {None}]
      /\ \A t \in Thread : pc[t] \in {"search", "report", "enqueue"}
                             <=> queue_item[t] \in Item
      /\ workers \in {{}, Worker}
  BY DEF TypeOK
<1>3. ASSUME NEW w \in Worker, OnPool(LockQueue(w))
      PROVE  Protocol'
  BY <1>3, <1>1, <1>2
  DEF Protocol, MutexInv, PoolInv, FlagInv, PhaseInv, Quiescent, ResetInv, Thread,
      WorkerPC, MainPC, LockQueue, OnPool, poolVars
<1>4. ASSUME NEW w \in Worker, OnPool(Dequeue(w))
      PROVE  Protocol'
  BY <1>4, <1>1, <1>2
  DEF Protocol, MutexInv, PoolInv, FlagInv, PhaseInv, Quiescent, ResetInv, Thread,
      WorkerPC, MainPC, Dequeue, OnPool, poolVars
<1>5. ASSUME NEW w \in Worker, OnPool(WaitForFiles(w))
      PROVE  Protocol'
  BY <1>5, <1>1, <1>2
  DEF Protocol, MutexInv, PoolInv, FlagInv, PhaseInv, Quiescent, ResetInv, Thread,
      WorkerPC, MainPC, WaitForFiles, OnPool, poolVars
<1>6. ASSUME NEW w \in Worker, OnPool(SeeDone(w))
      PROVE  Protocol'
  BY <1>6, <1>1, <1>2
  DEF Protocol, MutexInv, PoolInv, FlagInv, PhaseInv, Quiescent, ResetInv, Thread,
      WorkerPC, MainPC, SeeDone, OnPool, poolVars
<1>7. ASSUME NEW w \in Worker, OnPool(SpuriousWakeup(w))
      PROVE  Protocol'
  BY <1>7, <1>1, <1>2
  DEF Protocol, MutexInv, PoolInv, FlagInv, PhaseInv, Quiescent, ResetInv, Thread,
      WorkerPC, MainPC, SpuriousWakeup, OnPool, poolVars
<1>8. ASSUME NEW t \in Thread, OnPool(SkipFile(t))
      PROVE  Protocol'
  BY <1>8, <1>1, <1>2
  DEF Protocol, MutexInv, PoolInv, FlagInv, PhaseInv, Quiescent, ResetInv, Thread,
      WorkerPC, MainPC, SkipFile, Release, Resume, OnPool, poolVars
<1>9. ASSUME NEW t \in Thread, OnPool(SearchBuf(t))
      PROVE  Protocol'
  BY <1>9, <1>1, <1>2
  DEF Protocol, MutexInv, PoolInv, FlagInv, PhaseInv, Quiescent, ResetInv, Thread,
      WorkerPC, MainPC, SearchBuf, Release, Resume, OnPool, poolVars
<1>10. ASSUME NEW i \in Item, OnPool(LockToEnqueue(i))
      PROVE  Protocol'
  BY <1>10, <1>1, <1>2
  DEF Protocol, MutexInv, PoolInv, FlagInv, PhaseInv, Quiescent, ResetInv, Thread,
      WorkerPC, MainPC, LockToEnqueue, OnPool, poolVars
<1>11. ASSUME NEW i \in Item, OnPool(SearchFileArgument(i))
      PROVE  Protocol'
  BY <1>11, <1>1, <1>2
  DEF Protocol, MutexInv, PoolInv, FlagInv, PhaseInv, Quiescent, ResetInv, Thread,
      WorkerPC, MainPC, SearchFileArgument, OnPool, poolVars
<1>12. ASSUME OnPool(Enqueue)
      PROVE  Protocol'
  BY <1>12, <1>1, <1>2
  DEF Protocol, MutexInv, PoolInv, FlagInv, PhaseInv, Quiescent, ResetInv, Thread,
      WorkerPC, MainPC, Enqueue, Wake, Signalled, Waiting, OnPool, poolVars
<1>13. ASSUME OnPool(LockToFinish)
      PROVE  Protocol'
  BY <1>13, <1>1, <1>2
  DEF Protocol, MutexInv, PoolInv, FlagInv, PhaseInv, Quiescent, ResetInv, Thread,
      WorkerPC, MainPC, LockToFinish, OnPool, poolVars
<1>14. ASSUME NEW t \in Thread, AddLocalResult(t)
      PROVE  Protocol'
  BY <1>14, <1>1, <1>2
  DEF Protocol, MutexInv, PoolInv, FlagInv, PhaseInv, Quiescent, ResetInv, Thread,
      WorkerPC, MainPC, AddLocalResult, Release, Resume, poolVars
<1>15. ASSUME NEW w \in Worker, LeaveLoop(w)
      PROVE  Protocol'
  BY <1>15, <1>1, <1>2
  DEF Protocol, MutexInv, PoolInv, FlagInv, PhaseInv, Quiescent, ResetInv, Thread,
      WorkerPC, MainPC, LeaveLoop, poolVars
<1>16. ASSUME NEW w \in Worker, Spawn(w)
      PROVE  Protocol'
  BY <1>16, <1>1, <1>2
  DEF Protocol, MutexInv, PoolInv, FlagInv, PhaseInv, Quiescent, ResetInv, Thread,
      WorkerPC, MainPC, Spawn, poolVars
<1>17. ASSUME StartReturns
      PROVE  Protocol'
  BY <1>17, <1>1, <1>2
  DEF Protocol, MutexInv, PoolInv, FlagInv, PhaseInv, Quiescent, ResetInv, Thread,
      WorkerPC, MainPC, StartReturns, poolVars
<1>18. ASSUME Setup
      PROVE  Protocol'
  BY <1>18, <1>1, <1>2
  DEF Protocol, MutexInv, PoolInv, FlagInv, PhaseInv, Quiescent, ResetInv, Thread,
      WorkerPC, MainPC, Setup, ZeroStats, poolVars
<1>19. ASSUME EndWalk
      PROVE  Protocol'
  BY <1>19, <1>1, <1>2
  DEF Protocol, MutexInv, PoolInv, FlagInv, PhaseInv, Quiescent, ResetInv, Thread,
      WorkerPC, MainPC, EndWalk, FinishAdding, Wake, Waiting, poolVars
<1>20. ASSUME WorkersDone
      PROVE  Protocol'
  <2>1. \A t \in Thread : pc[t] = "worker_done"
    BY <1>20, BarrierFull DEF WorkersDone, Protocol
  <2>2. pc' = [t \in Thread |-> IF t = Main THEN "collect"
                               ELSE "results_done"]
    BY <1>20, <2>1 DEF WorkersDone
  <2> QED
    BY <1>20, <1>1, <1>2, <2>1, <2>2
    DEF Protocol, MutexInv, PoolInv, FlagInv, PhaseInv, Quiescent, ResetInv,
        WorkersDone, poolVars
<1>21. ASSUME GetThrdResults
      PROVE  Protocol'
  BY <1>21, <1>1, <1>2
  DEF Protocol, MutexInv, PoolInv, FlagInv, PhaseInv, Quiescent, ResetInv, Thread,
      WorkerPC, MainPC, GetThrdResults, poolVars
<1>22. ASSUME ResetLocalResults
      PROVE  Protocol'
  BY <1>22, <1>1, <1>2
  DEF Protocol, MutexInv, PoolInv, FlagInv, PhaseInv, Quiescent, ResetInv, Thread,
      WorkerPC, MainPC, ResetLocalResults, EmptyResults, poolVars
<1>23. ASSUME Restart
      PROVE  Protocol'
  BY <1>23, <1>1, <1>2
  DEF Protocol, MutexInv, PoolInv, FlagInv, PhaseInv, Quiescent, ResetInv, Thread,
      WorkerPC, MainPC, Restart, poolVars
<1>24. ASSUME ResultsDone
      PROVE  Protocol'
  <2>1. \A t \in Thread : pc[t] = "results_done"
    BY <1>24, BarrierFull DEF ResultsDone, Protocol
  <2>2. pc' = [t \in Thread |-> IF t = Main THEN "cleanup"
                               ELSE "lock"]
    BY <1>24, <2>1 DEF ResultsDone
  <2> QED
    BY <1>24, <1>1, <1>2, <2>1, <2>2
    DEF Protocol, MutexInv, PoolInv, FlagInv, PhaseInv, Quiescent, ResetInv,
        ResultsDone, poolVars
<1>25. ASSUME ReturnResult
      PROVE  Protocol'
  BY <1>25, <1>1, <1>2
  DEF Protocol, MutexInv, PoolInv, FlagInv, PhaseInv, Quiescent, ResetInv, Thread,
      WorkerPC, MainPC, ReturnResult, poolVars
<1>26. ASSUME StopOnReturn
      PROVE  Protocol'
  BY <1>26, <1>1, <1>2
  DEF Protocol, MutexInv, PoolInv, FlagInv, PhaseInv, Quiescent, ResetInv, Thread,
      WorkerPC, MainPC, StopOnReturn, LockToStop, poolVars
<1>27. ASSUME TellToStop
      PROVE  Protocol'
  BY <1>27, <1>1, <1>2
  DEF Protocol, MutexInv, PoolInv, FlagInv, PhaseInv, Quiescent, ResetInv, Thread,
      WorkerPC, MainPC, TellToStop, Wake, Waiting, poolVars
<1>28. ASSUME JoinWorkers
      PROVE  Protocol'
  BY <1>28, <1>1, <1>2
  DEF Protocol, MutexInv, PoolInv, FlagInv, PhaseInv, Quiescent, ResetInv, Thread,
      WorkerPC, MainPC, JoinWorkers, EmptyResults, poolVars
<1>29. ASSUME ClientStart
      PROVE  Protocol'
  BY <1>29, <1>1, <1>2
  DEF Protocol, MutexInv, PoolInv, FlagInv, PhaseInv, Quiescent, ResetInv, Thread,
      WorkerPC, MainPC, ClientStart, StartWorkers, EmptyResults, poolVars
<1>30. ASSUME CallSearch
      PROVE  Protocol'
  BY <1>30, <1>1, <1>2
  DEF Protocol, MutexInv, PoolInv, FlagInv, PhaseInv, Quiescent, ResetInv, Thread,
      WorkerPC, MainPC, CallSearch, NewRequest, Present, poolVars
<1>31. ASSUME CallSearchAndStart
      PROVE  Protocol'
  BY <1>31, <1>1, <1>2
  DEF Protocol, MutexInv, PoolInv, FlagInv, PhaseInv, Quiescent, ResetInv, Thread,
      WorkerPC, MainPC, CallSearchAndStart, StartWorkers, NewRequest,
          Present, EmptyResults, poolVars
<1>32. ASSUME ClientStop
      PROVE  Protocol'
  BY <1>32, <1>1, <1>2
  DEF Protocol, MutexInv, PoolInv, FlagInv, PhaseInv, Quiescent, ResetInv, Thread,
      WorkerPC, MainPC, ClientStop, LockToStop, poolVars
<1>33. ASSUME UNCHANGED vars
      PROVE  Protocol'
  BY <1>33 DEF Protocol, MutexInv, PoolInv, FlagInv, PhaseInv, Quiescent,
      ResetInv, Thread, vars, queueVars, poolVars
<1> QED
  BY NextSteps, <1>3, <1>4, <1>5, <1>6, <1>7, <1>8, <1>9, <1>10, <1>11, <1>12,
      <1>13, <1>14, <1>15, <1>16, <1>17, <1>18, <1>19, <1>20, <1>21, <1>22,
      <1>23, <1>24, <1>25, <1>26, <1>27, <1>28, <1>29, <1>30, <1>31, <1>32,
      <1>33 DEF QueueStep, PoolStep, OnPool

-----------------------------------------------------------------------------
(* The invariant, and what follows from it                                  *)

\* The inductive invariant holds in every state ag_search(), the workers and
\* the client can reach, for any number of workers and files and for both
\* workers behaviours.
THEOREM Invariance == Spec => []IInv
<1>1. IInv <=> TypeOK /\ Protocol
  BY DEF IInv, Protocol
<1>2. Init => IInv
  BY <1>1, TypeInit, ProtocolInit
<1>3. IInv /\ [Next]_vars => IInv'
  <2> SUFFICES ASSUME IInv, [Next]_vars
               PROVE  IInv'
    OBVIOUS
  <2>1. TypeOK /\ Protocol /\ PoolInv
    BY <1>1 DEF Protocol
  <2>2. TypeOK' /\ Protocol'
    BY <2>1, TypeStep, ProtocolStep
  <2> QED
    BY <2>2 DEF IInv, Protocol
<1> QED
  BY <1>2, <1>3, PTL DEF Spec

\* Variables keep their types (all of libag.c and search.c's shared state).
THEOREM TypeCorrect == Spec => []TypeOK
<1>1. IInv => TypeOK
  BY DEF IInv
<1> QED
  BY <1>1, Invariance, PTL

\* get_thrd_results() and reset_local_results() run with every worker parked
\* between the two barriers: the lists they read and free are nobody else's.
THEOREM Parked == Spec => []WorkersParked
<1>1. IInv => WorkersParked
  BY DEF IInv, PhaseInv, WorkersParked
<1> QED
  BY <1>1, Invariance, PTL

\* Between two searches, and when ag_search() clears stats, nothing of the
\* search before is queued, held or listed.
THEOREM QuietBetweenSearches == Spec => []Quiescent
<1>1. IInv => Quiescent
  BY DEF IInv
<1> QED
  BY <1>1, Invariance, PTL

\* The two accesses to the flags outside the mutex (libag.c:785 clears
\* done_adding_files, search.c:463 reads stop_workers) race with nothing.
THEOREM FlagsUnseen == Spec => FlagsChangeUnseen
<1> DEFINE Unseen ==
      /\ done_adding_files /\ ~done_adding_files' =>
           \A w \in Worker : pc[w] \in {"absent", "results_done"}
      /\ stop_workers # stop_workers' => \A w \in Worker : pc[w] # "done"
<1>1. IInv /\ [Next]_vars => [Unseen]_vars
  <2> SUFFICES ASSUME IInv, Next
               PROVE  Unseen
    OBVIOUS
  <2>1. CASE OnPool(QueueStep)
    BY <2>1
    DEF OnPool, poolVars, QueueStep, LockQueue, Dequeue, WaitForFiles, SeeDone,
        SpuriousWakeup, SkipFile, SearchBuf, LockToEnqueue,
        SearchFileArgument, Enqueue, LockToFinish
  <2>2. CASE Restart
    BY <2>2 DEF Restart, IInv, PhaseInv
  <2>3. CASE TellToStop
    BY <2>3 DEF TellToStop, IInv, PhaseInv
  <2>4. CASE ClientStart \/ CallSearchAndStart
    <3>1. workers = {} /\ pc[Main] = "idle"
      BY <2>4 DEF ClientStart, CallSearchAndStart, StartWorkers
    <3>2. \A w \in Worker : pc[w] = "absent"
      BY <3>1 DEF IInv, PoolInv
    <3> QED
      BY <3>2
  <2>5. CASE EndWalk
    BY <2>5 DEF EndWalk, FinishAdding
  <2>6. ASSUME PoolStep, ~Restart, ~TellToStop, ~ClientStart,
               ~CallSearchAndStart, ~EndWalk
        PROVE  UNCHANGED <<done_adding_files, stop_workers>>
    BY <2>6
    DEF PoolStep, AddLocalResult, LeaveLoop, Spawn, StartReturns, Setup,
        WorkersDone, GetThrdResults, ResetLocalResults, ResultsDone,
        ReturnResult, StopOnReturn, LockToStop, JoinWorkers, CallSearch,
        ClientStop, poolVars
  <2> QED
    BY <2>1, <2>2, <2>3, <2>4, <2>5, <2>6, NextSteps
<1> QED
  BY <1>1, Invariance, PTL DEF Spec, FlagsChangeUnseen

-----------------------------------------------------------------------------
(* The matches.  The step lemmas are about them but for a set "lost" that    *)
(* stays the same: none for AgSearch, the dropped ones for AgSearchFaults.   *)

\* A search is called.
NewCall == CallSearch \/ CallSearchAndStart

CoreInv(lost) == QueueInv /\ ListInv /\ WalkInv /\ StatsInv /\ KeptInv(lost)

\* What the lemmas about the queue assume.
LEMMA Typed ==
  ASSUME TypeOK
  PROVE  QueueTypes
<1>1. \A t \in Thread : pc[t] \notin {"print", "print_rest", "found"}
  BY DEF TypeOK, WorkerPC, MainPC, Thread
<1> QED
  BY <1>1 DEF TypeOK, QueueTypes, Busy

-----------------------------------------------------------------------------
(* Steps that list nothing                                                  *)

\* Of the files in hand such a step drops none that matches, and it changes
\* neither what the search is about nor its answer.
Moves ==
  /\ QueueInv' /\ (CountsRight => CountsRight')
  /\ InHand' \subseteq InHand
  /\ (InHand \ InHand') \cap Matching(outcome) = {}
  /\ UNCHANGED <<outcome, thrd_rslt, result, nresults>>
  /\ (Called' <=> Called) /\ (Collecting' <=> Collecting)
  /\ WalkInv => WalkInv'
  /\ \A t \in Thread :
       pc'[t] = "report" => \/ pc[t] = "report" /\ queue_item'[t] = queue_item[t]
                            \/ queue_item'[t] \in Matching(outcome)

\* They keep the invariant.
LEMMA MovesKeep ==
  ASSUME TypeOK, NEW lost, CoreInv(lost), Moves
  PROVE  CoreInv(lost)'
<1>1. Listed' = Listed /\ Matching(outcome)' = Matching(outcome)
  BY DEF Moves, Listed
<1>2. QueueInv' /\ WalkInv' /\ StatsInv'
  BY DEF Moves, CoreInv, StatsInv
<1>3. ListInv'
  BY <1>1 DEF Moves, CoreInv, ListInv
<1>4. KeptInv(lost)'
  BY <1>1 DEF Moves, CoreInv, KeptInv
<1> QED
  BY <1>2, <1>3, <1>4 DEF CoreInv

\* A step that no file takes part in.
Elsewhere ==
  \/ OnPool(\/ \E w \in Worker : LockQueue(w) \/ WaitForFiles(w) \/ SeeDone(w)
                                   \/ SpuriousWakeup(w)
            \/ LockToFinish)
  \/ \E w \in Worker : LeaveLoop(w) \/ Spawn(w)
  \/ StartReturns \/ EndWalk \/ WorkersDone \/ Restart \/ ResultsDone \/ ReturnResult
  \/ StopOnReturn \/ TellToStop \/ JoinWorkers \/ ClientStart \/ ClientStop
  \/ UNCHANGED vars

\* Such a step is one of Moves if it is so to the eye of the queue.
LEMMA FrameMoves ==
  ASSUME QueueInv,
         UNCHANGED <<work_queue, queue_item, walk, file_args, outcome, stats>>,
         UNCHANGED <<thrd_rslt, result, nresults>>,
         (Called' <=> Called) /\ (Collecting' <=> Collecting),
         WalkInv => WalkInv',
         \A t \in Thread : pc'[t] \in {"enqueue", "search"}
                             <=> pc[t] \in {"enqueue", "search"},
         \A t \in Thread : pc'[t] = "report" <=> pc[t] = "report"
  PROVE  Moves
  BY NothingMoves DEF Moves

\* The steps on the barriers, the flags and the pool leave every file where it is.
LEMMA ElsewhereMoves ==
  ASSUME TypeOK, Protocol, QueueInv, Elsewhere
  PROVE  Moves
<1>1. /\ Main \in Thread /\ Main \notin Worker /\ Worker \subseteq Thread
      /\ pc \in [Thread -> WorkerPC \cup MainPC] /\ Thread = Worker \cup {Main}
  BY WorkQueueAssumption DEF Thread, TypeOK
<1> DEFINE Framed ==
      /\ UNCHANGED <<work_queue, queue_item, walk, file_args, outcome, stats>>
      /\ UNCHANGED <<thrd_rslt, result, nresults>>
      /\ (Called' <=> Called) /\ (Collecting' <=> Collecting)
      /\ WalkInv => WalkInv'
      /\ \A t \in Thread : pc'[t] \in {"enqueue", "search"}
                             <=> pc[t] \in {"enqueue", "search"}
      /\ \A t \in Thread : pc'[t] = "report" <=> pc[t] = "report"
<1>2. ASSUME NEW w \in Worker, OnPool(LockQueue(w))
      PROVE  Framed
  BY <1>2, <1>1 DEF LockQueue, OnPool, Called, Collecting,
                      WalkInv, poolVars
<1>3. ASSUME NEW w \in Worker, OnPool(WaitForFiles(w))
      PROVE  Framed
  BY <1>3, <1>1 DEF WaitForFiles, OnPool, Called, Collecting,
                      WalkInv, poolVars
<1>4. ASSUME NEW w \in Worker, OnPool(SeeDone(w))
      PROVE  Framed
  BY <1>4, <1>1 DEF SeeDone, OnPool, Called, Collecting,
                      WalkInv, poolVars
<1>5. ASSUME NEW w \in Worker, OnPool(SpuriousWakeup(w))
      PROVE  Framed
  BY <1>5, <1>1 DEF SpuriousWakeup, OnPool, Called, Collecting,
                      WalkInv, poolVars
<1>6. ASSUME OnPool(LockToFinish)
      PROVE  Framed
  BY <1>6, <1>1 DEF LockToFinish, OnPool, Called, Collecting,
                      WalkInv, poolVars
<1>7. ASSUME NEW w \in Worker, LeaveLoop(w)
      PROVE  Framed
  BY <1>7, <1>1 DEF LeaveLoop, Called, Collecting,
                      WalkInv, poolVars
<1>8. ASSUME NEW w \in Worker, Spawn(w)
      PROVE  Framed
  BY <1>8, <1>1 DEF Spawn, Called, Collecting,
                      WalkInv, poolVars
<1>9. ASSUME StartReturns
      PROVE  Framed
  BY <1>9, <1>1 DEF StartReturns, Called, Collecting,
                      WalkInv, poolVars
<1>10. ASSUME EndWalk
      PROVE  Framed
  BY <1>10, <1>1 DEF EndWalk, FinishAdding, Wake, Waiting, Called, Collecting,
                      WalkInv, poolVars
<1>11. ASSUME WorkersDone
      PROVE  Framed
  BY <1>11, <1>1 DEF WorkersDone, Called, Collecting,
                      WalkInv, poolVars
<1>12. ASSUME Restart
      PROVE  Framed
  BY <1>12, <1>1 DEF Restart, Called, Collecting,
                      WalkInv, poolVars
<1>13. ASSUME ResultsDone
      PROVE  Framed
  BY <1>13, <1>1 DEF ResultsDone, Called, Collecting,
                      WalkInv, poolVars
<1>14. ASSUME ReturnResult
      PROVE  Framed
  BY <1>14, <1>1 DEF ReturnResult, Called, Collecting,
                      WalkInv, poolVars
<1>15. ASSUME StopOnReturn
      PROVE  Framed
  BY <1>15, <1>1 DEF StopOnReturn, LockToStop, Called, Collecting,
                      WalkInv, poolVars
<1>16. ASSUME TellToStop
      PROVE  Framed
  BY <1>16, <1>1 DEF TellToStop, Wake, Waiting, Called, Collecting,
                      WalkInv, poolVars
<1>17. ASSUME JoinWorkers
      PROVE  Framed
  BY <1>17, <1>1 DEF JoinWorkers, PoolInv, Quiescent, Protocol, Called, Collecting,
                      WalkInv, poolVars
<1>18. ASSUME ClientStart
      PROVE  Framed
  BY <1>18, <1>1 DEF ClientStart, StartWorkers, Quiescent, Protocol, Called, Collecting,
                      WalkInv, poolVars
<1>19. ASSUME ClientStop
      PROVE  Framed
  BY <1>19, <1>1 DEF ClientStop, LockToStop, Called, Collecting,
                      WalkInv, poolVars
<1>20. ASSUME UNCHANGED vars
      PROVE  Framed
  BY <1>20, <1>1 DEF vars, queueVars, Called, Collecting,
                      WalkInv, poolVars
<1>21. Framed
  BY <1>2, <1>3, <1>4, <1>5, <1>6, <1>7, <1>8, <1>9, <1>10, <1>11, <1>12, <1>13, <1>14, <1>15, <1>16, <1>17, <1>18, <1>19, <1>20
  DEF Elsewhere, OnPool
<1> QED
  BY <1>21, FrameMoves

\* A file goes from one hand to the next, or is searched and is no match.
HandOver ==
  OnPool(\/ \E i \in Item : LockToEnqueue(i) \/ SearchFileArgument(i)
         \/ Enqueue
         \/ \E w \in Worker : Dequeue(w)
         \/ \E t \in Thread : SkipFile(t) \/ SearchBuf(t))

\* What a step of the queue leaves alone, wherever the file goes.
LEMMA PoolFrame ==
  ASSUME UNCHANGED poolVars, UNCHANGED outcome,
         pc'[Main] = pc[Main] \/ {pc[Main], pc'[Main]}
                         \subseteq {"walk", "enqueue", "search", "report"},
         pc'[Main] = pc[Main] => walk' = walk /\ file_args' = file_args
  PROVE  /\ UNCHANGED <<outcome, thrd_rslt, result, nresults>>
         /\ (Called' <=> Called) /\ (Collecting' <=> Collecting)
         /\ WalkInv => WalkInv'
<1>1. UNCHANGED <<workers_behavior, thrd_rslt, result, nresults>>
  BY DEF poolVars
<1>2. (Called' <=> Called) /\ (Collecting' <=> Collecting)
  BY <1>1 DEF Called, Collecting
<1>3. WalkInv => WalkInv'
  BY <1>1, <1>2 DEF WalkInv, Called
<1> QED
  BY <1>1, <1>2, <1>3

\* The steps on the queue move a file from one place to the next.
LEMMA HandOverMoves ==
  ASSUME TypeOK, QueueInv, HandOver
  PROVE  Moves
<1>1. /\ Main \in Thread /\ Main \notin Worker /\ Worker \subseteq Thread
      /\ pc \in [Thread -> WorkerPC \cup MainPC] /\ Thread = Worker \cup {Main}
      /\ queue_item \in [Thread -> Item \cup {None}]
  BY WorkQueueAssumption DEF Thread, TypeOK
<1>2. QueueTypes
  BY Typed
<1> DEFINE Framed ==
      /\ UNCHANGED <<outcome, thrd_rslt, result, nresults>>
      /\ (Called' <=> Called) /\ (Collecting' <=> Collecting)
      /\ WalkInv => WalkInv'
<1>3. ASSUME NEW i \in Item, OnPool(LockToEnqueue(i))
      PROVE  Moves
  <2>1. QueueInv' /\ InHand' = InHand /\ Counted' = Counted
    BY <1>2, <1>3, LockToEnqueueKeeps DEF OnPool
  <2>2. Framed
    BY <1>1, <1>3, PoolFrame DEF OnPool, LockToEnqueue
  <2>3. /\ UNCHANGED <<stats, outcome>>
        /\ \A t \in Thread : pc'[t] = "report" =>
             pc[t] = "report" /\ queue_item'[t] = queue_item[t]
    BY <1>1, <1>3 DEF OnPool, LockToEnqueue
  <2> QED
    BY <2>1, <2>2, <2>3 DEF Moves, CountsRight
<1>4. ASSUME NEW i \in Item, OnPool(SearchFileArgument(i))
      PROVE  Moves
  <2>1. QueueInv' /\ InHand' = InHand /\ Counted' = Counted
    BY <1>2, <1>4, SearchFileArgumentKeeps DEF OnPool
  <2>2. Framed
    BY <1>1, <1>4, PoolFrame DEF OnPool, SearchFileArgument
  <2>3. /\ UNCHANGED <<stats, outcome>>
        /\ \A t \in Thread : pc'[t] = "report" =>
             pc[t] = "report" /\ queue_item'[t] = queue_item[t]
    BY <1>1, <1>4 DEF OnPool, SearchFileArgument
  <2> QED
    BY <2>1, <2>2, <2>3 DEF Moves, CountsRight
<1>5. ASSUME OnPool(Enqueue)
      PROVE  Moves
  <2>1. QueueInv' /\ InHand' = InHand /\ Counted' = Counted
    BY <1>2, <1>5, EnqueueKeeps DEF OnPool
  <2>2. /\ \A t \in Worker : pc'[t] = "report" => pc[t] = "report"
        /\ pc[Main] = "enqueue" /\ pc'[Main] = "walk"
    BY <1>1, <1>5 DEF OnPool, Enqueue, Signalled, Waiting, Wake
  <2>3. Framed
    BY <1>5, <2>2, PoolFrame DEF OnPool, Enqueue
  <2>4. /\ UNCHANGED <<stats, outcome>>
        /\ \A t \in Thread : pc'[t] = "report" =>
             pc[t] = "report" /\ queue_item'[t] = queue_item[t]
    BY <1>1, <1>5, <2>2 DEF OnPool, Enqueue
  <2> QED
    BY <2>1, <2>3, <2>4 DEF Moves, CountsRight
<1>6. ASSUME NEW w \in Worker, OnPool(Dequeue(w))
      PROVE  Moves
  <2>1. QueueInv' /\ InHand' = InHand /\ Counted' = Counted
    BY <1>2, <1>6, DequeueKeeps DEF OnPool
  <2>2. Framed
    BY <1>1, <1>6, PoolFrame DEF OnPool, Dequeue
  <2>3. /\ UNCHANGED <<stats, outcome>>
        /\ \A t \in Thread : pc'[t] = "report" =>
             pc[t] = "report" /\ queue_item'[t] = queue_item[t]
    BY <1>1, <1>6 DEF OnPool, Dequeue
  <2> QED
    BY <2>1, <2>2, <2>3 DEF Moves, CountsRight
<1>7. ASSUME NEW t \in Thread, OnPool(SkipFile(t))
      PROVE  Moves
  <2>1. /\ QueueInv' /\ InHand' = InHand \ {queue_item[t]} /\ Counted' = Counted
        /\ queue_item[t] \notin Matching(outcome)
    BY <1>2, <1>7, SkipFileKeeps DEF OnPool
  <2>2. Framed
    BY <1>1, <1>7, PoolFrame DEF OnPool, SkipFile, Release, Resume
  <2>3. /\ UNCHANGED <<stats, outcome>>
        /\ \A u \in Thread : pc'[u] = "report" =>
             pc[u] = "report" /\ queue_item'[u] = queue_item[u]
    BY <1>1, <1>7 DEF OnPool, SkipFile, Release, Resume
  <2> QED
    BY <2>1, <2>2, <2>3 DEF Moves, CountsRight
<1>8. ASSUME NEW t \in Thread, OnPool(SearchBuf(t))
      PROVE  Moves
  <2>1. /\ QueueInv' /\ (CountsRight => CountsRight')
        /\ IF outcome[queue_item[t]] = "match" THEN InHand' = InHand
           ELSE InHand' = InHand \ {queue_item[t]}
    BY <1>2, <1>8, SearchBufKeeps DEF OnPool
  <2>2. pc[t] = "search" /\ UNCHANGED <<outcome, walk, file_args, poolVars>>
    BY <1>8 DEF OnPool, SearchBuf
  <2>3. queue_item[t] \in Item
    BY <2>2 DEF TypeOK
  <2>4. CASE outcome[queue_item[t]] = "match"
    <3>1. pc' = [pc EXCEPT ![t] = "report"] /\ UNCHANGED queue_item
      BY <1>8, <2>4 DEF OnPool, SearchBuf
    <3>2. Framed
      BY <1>1, <2>2, <3>1, PoolFrame
    <3>3. \A u \in Thread : pc'[u] = "report" =>
            \/ pc[u] = "report" /\ queue_item'[u] = queue_item[u]
            \/ queue_item'[u] \in Matching(outcome)
      BY <1>1, <2>3, <2>4, <3>1 DEF Matching
    <3> QED
      BY <2>1, <2>4, <3>2, <3>3 DEF Moves
  <2>5. CASE outcome[queue_item[t]] # "match"
    <3>1. Release(t)
      BY <1>8, <2>5 DEF OnPool, SearchBuf
    <3>2. Framed
      BY <1>1, <2>2, <3>1, PoolFrame DEF Release, Resume
    <3>3. \A u \in Thread : pc'[u] = "report" =>
            pc[u] = "report" /\ queue_item'[u] = queue_item[u]
      BY <1>1, <3>1 DEF Release, Resume
    <3>4. queue_item[t] \notin Matching(outcome)
      BY <2>5 DEF Matching
    <3> QED
      BY <2>1, <2>5, <3>2, <3>3, <3>4 DEF Moves
  <2> QED
    BY <2>4, <2>5
<1> QED
  BY <1>3, <1>4, <1>5, <1>6, <1>7, <1>8 DEF HandOver, OnPool

-----------------------------------------------------------------------------
(* Steps that list a file, or all of them                                   *)

\* A file that is in no list is added to one.
LEMMA ListItem ==
  ASSUME TypeOK, ListInv, NEW t \in Thread, NEW i \in Item, i \notin Listed,
         thrd_rslt' = [thrd_rslt EXCEPT ![t] = Append(@, i)]
  PROVE  /\ Listed' = Listed \cup {i}
         /\ \A u, v \in Thread :
              \A j \in DOMAIN thrd_rslt'[u], k \in DOMAIN thrd_rslt'[v] :
                thrd_rslt'[u][j] = thrd_rslt'[v][k] => u = v /\ j = k
<1> DEFINE n == Len(thrd_rslt[t])
<1>1. /\ thrd_rslt \in [Thread -> Seq(Item)] /\ n \in Nat
      /\ \A u \in Thread : DOMAIN thrd_rslt[u] = 1..Len(thrd_rslt[u])
  BY DEF TypeOK
<1>2. /\ \A u \in Thread : u # t => thrd_rslt'[u] = thrd_rslt[u]
      /\ DOMAIN thrd_rslt'[t] = 1..(n + 1)
      /\ \A k \in 1..n : thrd_rslt'[t][k] = thrd_rslt[t][k]
      /\ thrd_rslt'[t][n + 1] = i
  BY <1>1
<1>3. \A u \in Thread : \A k \in DOMAIN thrd_rslt[u] : thrd_rslt[u][k] # i
  BY DEF Listed, Range
<1>4. \A u, v \in Thread :
        \A j \in DOMAIN thrd_rslt[u], k \in DOMAIN thrd_rslt[v] :
          thrd_rslt[u][j] = thrd_rslt[v][k] => u = v /\ j = k
  BY DEF ListInv
<1>5. DOMAIN thrd_rslt[t] = 1..n
  BY <1>1
<1>6. \A u \in Thread : \A k \in DOMAIN thrd_rslt'[u] :
        \/ k \in DOMAIN thrd_rslt[u] /\ thrd_rslt'[u][k] = thrd_rslt[u][k]
        \/ u = t /\ k = n + 1 /\ thrd_rslt'[u][k] = i
  <2> SUFFICES ASSUME NEW u \in Thread, NEW k \in DOMAIN thrd_rslt'[u]
               PROVE  \/ k \in DOMAIN thrd_rslt[u] /\ thrd_rslt'[u][k] = thrd_rslt[u][k]
                      \/ u = t /\ k = n + 1 /\ thrd_rslt'[u][k] = i
    OBVIOUS
  <2>1. CASE u # t
    BY <1>2, <2>1
  <2>2. CASE u = t
    <3>1. k \in 1..n \/ k = n + 1
      BY <1>1, <1>2, <2>2
    <3> QED
      BY <1>2, <1>5, <2>2, <3>1
  <2> QED
    BY <2>1, <2>2
<1>7. \A u \in Thread : \A k \in DOMAIN thrd_rslt[u] :
        k \in DOMAIN thrd_rslt'[u] /\ thrd_rslt'[u][k] = thrd_rslt[u][k]
  BY <1>1, <1>2, <1>5
<1>8. n + 1 \in DOMAIN thrd_rslt'[t]
  BY <1>1, <1>2
<1> HIDE DEF n
<1>9. \A u, v \in Thread :
        \A j \in DOMAIN thrd_rslt'[u], k \in DOMAIN thrd_rslt'[v] :
          thrd_rslt'[u][j] = thrd_rslt'[v][k] => u = v /\ j = k
  BY <1>3, <1>4, <1>6
<1>10. Listed' \subseteq Listed \cup {i}
  BY <1>6 DEF Listed, Range
<1>11. Listed \subseteq Listed'
  BY <1>7 DEF Listed, Range
<1>12. i \in Listed'
  BY <1>2, <1>8 DEF Listed, Range
<1> QED
  BY <1>9, <1>10, <1>11, <1>12

\* A match goes from the hands of a thread to its list.
LEMMA AddLocalResultKeeps ==
  ASSUME TypeOK, NEW lost, CoreInv(lost), NEW t \in Thread, AddLocalResult(t)
  PROVE  CoreInv(lost)'
<1> DEFINE i == queue_item[t]
<1>1. /\ Main \in Thread /\ Main \notin Worker /\ Worker \subseteq Thread
      /\ pc \in [Thread -> WorkerPC \cup MainPC]
      /\ queue_item \in [Thread -> Item \cup {None}]
  BY WorkQueueAssumption DEF Thread, TypeOK
<1>2. /\ pc[t] = "report" /\ pc[t] \in Busy /\ Release(t)
      /\ UNCHANGED <<work_queue, walk, file_args, outcome, stats,
                     workers_behavior>>
      /\ thrd_rslt' = [thrd_rslt EXCEPT ![t] = Append(@, i)]
  BY DEF AddLocalResult, Busy
<1>3. /\ QueueInv' /\ i \in InHand /\ i \in Item /\ InHand' = InHand \ {i}
      /\ Counted' = Counted
  BY <1>2, Typed, ReleaseKeeps DEF CoreInv
<1>4. i \in Matching(outcome)
  BY <1>2 DEF CoreInv, KeptInv
<1>5. /\ Listed' = Listed \cup {i}
      /\ ListInv'
  <2>1. i \notin Listed /\ Listed \cap InHand = {} /\ ListInv
    BY <1>3 DEF CoreInv, ListInv
  <2>2. /\ Listed' = Listed \cup {i}
        /\ \A u, v \in Thread :
             \A j \in DOMAIN thrd_rslt'[u], k \in DOMAIN thrd_rslt'[v] :
               thrd_rslt'[u][j] = thrd_rslt'[v][k] => u = v /\ j = k
    BY <1>2, <1>3, <2>1, ListItem
  <2> QED
    BY <1>3, <2>1, <2>2 DEF ListInv
<1>6. /\ (Called' <=> Called) /\ (Collecting' <=> Collecting)
      /\ WalkInv => WalkInv'
  BY <1>1, <1>2 DEF Release, Resume, Called, Collecting, WalkInv
<1>7. WalkInv' /\ StatsInv'
  BY <1>2, <1>3, <1>6 DEF CoreInv, StatsInv, CountsRight
<1>8. \A u \in Thread : pc'[u] = "report" =>
        pc[u] = "report" /\ queue_item'[u] = queue_item[u]
  BY <1>1, <1>2 DEF Release, Resume
<1> HIDE DEF i
<1>9. KeptInv(lost)'
  BY <1>2, <1>3, <1>4, <1>5, <1>6, <1>8 DEF CoreInv, KeptInv
<1> QED
  BY <1>3, <1>5, <1>7, <1>9 DEF CoreInv

\* stats are cleared before the walk, and the files found after are counted.
LEMMA SetupKeeps ==
  ASSUME TypeOK, NEW lost, CoreInv(lost), Setup
  PROVE  CoreInv(lost)'
<1>1. /\ Main \in Thread /\ pc \in [Thread -> WorkerPC \cup MainPC]
      /\ pc[Main] = "setup" /\ pc' = [pc EXCEPT ![Main] = "walk"]
      /\ UNCHANGED <<work_queue, queue_item, walk, file_args, outcome,
                     thrd_rslt, workers_behavior>>
      /\ stats' = ZeroStats
  BY DEF Setup, Thread, TypeOK, poolVars
<1>2. /\ \A t \in Thread : pc'[t] \in {"enqueue", "search"}
                             <=> pc[t] \in {"enqueue", "search"}
      /\ \A t \in Thread : pc'[t] = "report" => pc[t] = "report"
  BY <1>1
<1>3. QueueInv' /\ InHand' = InHand /\ Counted' = Counted /\ Listed' = Listed
  BY <1>1, <1>2, NothingMoves DEF CoreInv, Listed
<1>4. Called /\ Collecting /\ ~Called' /\ Collecting' /\ WalkInv'
  BY <1>1 DEF Called, Collecting, WalkInv
<1>5. Counted = {}
  <2>1. walk \cup file_args = Present(outcome)
    BY <1>4 DEF CoreInv, WalkInv
  <2> QED
    BY <2>1 DEF Counted, Present
<1>6. CountsRight'
  BY <1>1, <1>3, <1>5, FS_EmptySet DEF CountsRight, ZeroStats
<1>7. KeptInv(lost)' /\ ListInv'
  BY <1>1, <1>2, <1>3, <1>4 DEF CoreInv, KeptInv, ListInv
<1> QED
  BY <1>3, <1>4, <1>6, <1>7 DEF CoreInv, StatsInv

\* The lists are freed once they have been collected.
LEMMA ResetKeeps ==
  ASSUME TypeOK, NEW lost, CoreInv(lost), ResetLocalResults
  PROVE  CoreInv(lost)' /\ ~Collecting
<1>1. /\ Main \in Thread /\ pc \in [Thread -> WorkerPC \cup MainPC]
      /\ pc[Main] = "reset" /\ pc' = [pc EXCEPT ![Main] = "restart"]
      /\ UNCHANGED <<work_queue, queue_item, walk, file_args, outcome, stats,
                     workers_behavior>>
      /\ thrd_rslt' = EmptyResults
  BY DEF ResetLocalResults, Thread, TypeOK
<1>2. /\ \A t \in Thread : pc'[t] \in {"enqueue", "search"}
                             <=> pc[t] \in {"enqueue", "search"}
      /\ \A t \in Thread : pc'[t] = "report" => pc[t] = "report"
  BY <1>1
<1>3. QueueInv' /\ InHand' = InHand /\ (CountsRight => CountsRight')
  BY <1>1, <1>2, NothingMoves DEF CoreInv
<1>4. ~Called /\ ~Collecting /\ ~Called' /\ ~Collecting' /\ WalkInv'
  BY <1>1 DEF Called, Collecting, WalkInv, CoreInv
<1>5. \A t \in Thread : thrd_rslt'[t] = <<>> /\ DOMAIN thrd_rslt'[t] = {}
  BY <1>1 DEF EmptyResults
<1>6. Listed' = {} /\ ListInv'
  BY <1>5 DEF Listed, ListInv, Range
<1>7. KeptInv(lost)'
  BY <1>1, <1>2, <1>3, <1>4, <1>6 DEF CoreInv, KeptInv
<1> QED
  BY <1>3, <1>4, <1>6, <1>7 DEF CoreInv, StatsInv

\* A search begins with all of its files still to be walked to.
LEMMA CallKeeps ==
  ASSUME TypeOK, Protocol, NewCall
  PROVE  CoreInv({})' /\ Collecting'
<1>1. /\ Main \in Thread /\ Thread = Worker \cup {Main} /\ Main \notin Worker
      /\ pc \in [Thread -> WorkerPC \cup MainPC]
      /\ pc[Main] = "idle" /\ NewRequest
      /\ UNCHANGED <<queue_item, workers_behavior>>
      /\ queue_item \in [Thread -> Item \cup {None}] /\ queue_item[Main] \notin Item
      /\ \/ pc' = [pc EXCEPT ![Main] = "setup"] /\ UNCHANGED <<thrd_rslt, work_queue>>
         \/ /\ workers_behavior = "onsearch" /\ pc' = [pc EXCEPT ![Main] = "spawn"]
            /\ thrd_rslt' = EmptyResults /\ work_queue' = <<>>
  BY WorkQueueAssumption
  DEF NewCall, CallSearch, CallSearchAndStart, StartWorkers, Thread, TypeOK
<1>2. /\ work_queue = <<>> /\ thrd_rslt = EmptyResults
      /\ \A t \in Thread : queue_item[t] = None
  BY <1>1 DEF Protocol, Quiescent
<1>3. PICK o \in [Item -> Outcome] : \E args \in SUBSET Present(o) :
        outcome' = o /\ file_args' = args /\ walk' = Present(o) \ args
  BY <1>1 DEF NewRequest
<1>4. QueueInv' /\ InHand' = Present(o)
  <2>1. PICK args \in SUBSET Present(o) :
          outcome' = o /\ file_args' = args /\ walk' = Present(o) \ args
    BY <1>3
  <2> QED
    BY <1>1, <1>2, <2>1, AllInHand
<1>5. Called' /\ Collecting'
  BY <1>1 DEF Called, Collecting
<1>6. \A t \in Thread : thrd_rslt'[t] = <<>> /\ DOMAIN thrd_rslt'[t] = {}
  BY <1>1, <1>2 DEF EmptyResults
<1>7. Listed' = {} /\ ListInv'
  BY <1>6 DEF Listed, ListInv, Range
<1>8. WalkInv' /\ StatsInv'
  BY <1>3, <1>5 DEF WalkInv, StatsInv
<1>9. \A t \in Thread : pc'[t] # "report"
  <2>1. \A t \in Thread : pc[t] # "report"
    BY <1>2, WorkQueueAssumption DEF TypeOK
  <2> QED
    BY <1>1, <2>1
<1>10. Matching(outcome') \subseteq Present(o)
  BY <1>3 DEF Matching, Present
<1>11. KeptInv({})'
  BY <1>4, <1>7, <1>9, <1>10 DEF KeptInv
<1> QED
  BY <1>4, <1>5, <1>7, <1>8, <1>11 DEF CoreInv

-----------------------------------------------------------------------------
(* The results are collected                                                *)

\* A place of the merged list is a slot and a position in it.
LEMMA PlacesAre ==
  ASSUME TypeOK
  PROVE  /\ \A p \in Places : /\ p[1] \in Thread /\ p[2] \in DOMAIN thrd_rslt[p[1]]
                              /\ p = <<p[1], p[2]>>
         /\ \A t \in Thread : \A k \in DOMAIN thrd_rslt[t] : <<t, k>> \in Places
<1>1. \A t \in Thread : DOMAIN thrd_rslt[t] = 1..Len(thrd_rslt[t])
  BY DEF TypeOK
<1>2. ASSUME NEW p \in Places
      PROVE  /\ p[1] \in Thread /\ p[2] \in DOMAIN thrd_rslt[p[1]]
             /\ p = <<p[1], p[2]>>
  <2>1. PICK t \in Thread : p \in {t} \X (1..Len(thrd_rslt[t]))
    BY DEF Places
  <2> QED
    BY <1>1, <2>1
<1>3. ASSUME NEW t \in Thread, NEW k \in DOMAIN thrd_rslt[t]
      PROVE  <<t, k>> \in Places
  <2>1. <<t, k>> \in {t} \X (1..Len(thrd_rslt[t]))
    BY <1>1
  <2> QED
    BY <2>1 DEF Places
<1> QED
  BY <1>2, <1>3

Merged == [p \in Places |-> thrd_rslt[p[1]][p[2]]]

\* The merged list has every file listed, and each one once.
LEMMA MergedLists ==
  ASSUME TypeOK, ListInv
  PROVE  /\ IsInjective(Merged) /\ Range(Merged) = Listed
         /\ IsFiniteSet(Listed) /\ Cardinality(Listed) = Cardinality(Places)
<1>1. /\ DOMAIN Merged = Places
      /\ \A p \in Places : Merged[p] = thrd_rslt[p[1]][p[2]]
  BY DEF Merged
<1>2. /\ \A p \in Places : /\ p[1] \in Thread /\ p[2] \in DOMAIN thrd_rslt[p[1]]
                           /\ p = <<p[1], p[2]>>
      /\ \A t \in Thread : \A k \in DOMAIN thrd_rslt[t] : <<t, k>> \in Places
  BY PlacesAre
<1>3. ASSUME NEW p \in Places, NEW q \in Places, Merged[p] = Merged[q]
      PROVE  p = q
  <2>1. p[1] = q[1] /\ p[2] = q[2]
    BY <1>1, <1>2, <1>3 DEF ListInv
  <2> QED
    BY <1>2, <2>1
<1>4. IsInjective(Merged)
  BY <1>1, <1>3 DEF IsInjective
<1>5. ASSUME NEW p \in Places
      PROVE  Merged[p] \in Listed
  BY <1>1, <1>2 DEF Listed, Range
<1>6. ASSUME NEW i \in Listed
      PROVE  \E p \in Places : Merged[p] = i
  <2>1. PICK t \in Thread : i \in Range(thrd_rslt[t])
    BY DEF Listed
  <2>2. PICK k \in DOMAIN thrd_rslt[t] : i = thrd_rslt[t][k]
    BY <2>1 DEF Range
  <2>3. <<t, k>> \in Places /\ <<t, k>>[1] = t /\ <<t, k>>[2] = k
    BY <1>2
  <2> QED
    BY <1>1, <2>2, <2>3
<1>7. Range(Merged) = Listed
  BY <1>1, <1>5, <1>6 DEF Range
<1>8. Merged \in Surjection(Places, Listed)
  BY <1>5, <1>6 DEF Surjection, Merged
<1>9. Merged \in Injection(Places, Listed)
  BY <1>3, <1>8 DEF Surjection, Injection, IsInjective
<1> QED
  BY <1>4, <1>7, <1>8, <1>9, PlacesFinite, FS_Surjection

\* With the workers parked and the walk over, nothing is in hand any more.
LEMMA AllListed ==
  ASSUME TypeOK, Protocol, NEW lost, CoreInv(lost), pc[Main] = "collect"
  PROVE  InHand = {} /\ Listed = Matching(outcome) \ lost
<1>1. \A w \in Worker : pc[w] = "results_done"
  BY DEF Protocol, PhaseInv
<1>2. work_queue = <<>>
  BY <1>1, WorkQueueAssumption DEF Protocol, PhaseInv
<1>3. \A t \in Thread : pc[t] \notin {"search", "report", "enqueue"}
  BY <1>1 DEF Thread
<1>4. \A t \in Thread : queue_item[t] = None
  BY <1>3 DEF TypeOK
<1>5. walk = {} /\ file_args = {}
  BY DEF CoreInv, WalkInv, Called
<1>6. InHand = {}
  BY <1>2, <1>4, <1>5 DEF InHand, Held, Range
<1>7. Collecting
  BY DEF Collecting
<1> QED
  BY <1>6, <1>7 DEF CoreInv, KeptInv

\* get_thrd_results(), whether or not it can allocate the array.
LEMMA CollectKeeps ==
  ASSUME TypeOK, Protocol, NEW lost, CoreInv(lost),
         pc[Main] = "collect", pc' = [pc EXCEPT ![Main] = "reset"],
         nresults' = Cardinality(Places),
         UNCHANGED <<work_queue, queue_item, walk, file_args, outcome, stats,
                     thrd_rslt, workers_behavior>>
  PROVE  CoreInv(lost)' /\ NumberInv(lost)'
<1>1. /\ Main \in Thread /\ pc \in [Thread -> WorkerPC \cup MainPC]
  BY DEF Thread, TypeOK
<1>2. /\ \A t \in Thread : pc'[t] \in {"enqueue", "search"}
                             <=> pc[t] \in {"enqueue", "search"}
      /\ \A t \in Thread : pc'[t] = "report" => pc[t] = "report"
  BY <1>1
<1>3. /\ QueueInv' /\ InHand' = InHand /\ Listed' = Listed
      /\ CountsRight => CountsRight'
  BY <1>1, <1>2, NothingMoves DEF CoreInv, Listed
<1>4. ~Called /\ ~Called' /\ ~Collecting' /\ WalkInv'
  BY <1>1 DEF Called, Collecting, WalkInv, CoreInv
<1>5. KeptInv(lost)' /\ ListInv'
  BY <1>1, <1>2, <1>3, <1>4 DEF CoreInv, KeptInv, ListInv
<1>6. Listed = Matching(outcome) \ lost
  BY AllListed
<1>7. Cardinality(Listed) = Cardinality(Places)
  BY MergedLists DEF CoreInv
<1>8. NumberInv(lost)'
  BY <1>6, <1>7 DEF NumberInv
<1> QED
  BY <1>3, <1>4, <1>5, <1>8 DEF CoreInv, StatsInv

\* What get_thrd_results() returns is the answer.
LEMMA Collected ==
  ASSUME TypeOK, Protocol, NEW lost, CoreInv(lost), GetThrdResults
  PROVE  CoreInv(lost)' /\ NumberInv(lost)' /\ AnswerInv(lost)'
<1>1. pc[Main] = "collect" /\ result' = Merged /\ outcome' = outcome
  BY DEF GetThrdResults, Merged
<1>2. CoreInv(lost)' /\ NumberInv(lost)'
  BY CollectKeeps DEF GetThrdResults
<1>3. IsInjective(Merged) /\ Range(Merged) = Matching(outcome) \ lost
  BY <1>1, MergedLists, AllListed DEF CoreInv
<1>4. AnswerInv(lost)'
  BY <1>1, <1>3 DEF AnswerInv
<1> QED
  BY <1>2, <1>4

-----------------------------------------------------------------------------
(* Every step                                                               *)

\* Next, sorted by what the steps do to the files.
LEMMA Steps ==
  ASSUME [Next]_vars
  PROVE  \/ Elsewhere \/ HandOver
         \/ \E t \in Thread : AddLocalResult(t)
         \/ Setup \/ GetThrdResults \/ ResetLocalResults \/ NewCall
  BY NextSteps DEF QueueStep, PoolStep, OnPool, Elsewhere, HandOver, NewCall

\* Until the next search is called nothing is lost but what was, and the
\* answer stays what it was when it was collected.
LEMMA CoreStep ==
  ASSUME TypeOK, Protocol, NEW lost, CoreInv(lost), [Next]_vars, ~NewCall
  PROVE  /\ CoreInv(lost)'
         /\ ~GetThrdResults /\ ~Collecting' =>
              ~Collecting /\ UNCHANGED <<outcome, result, nresults>>
<1>1. QueueInv
  BY DEF CoreInv
<1>2. CASE Elsewhere
  BY <1>1, <1>2, ElsewhereMoves, MovesKeep DEF Moves
<1>3. CASE HandOver
  BY <1>1, <1>3, HandOverMoves, MovesKeep DEF Moves
<1>4. ASSUME NEW t \in Thread, AddLocalResult(t)
      PROVE  /\ CoreInv(lost)'
             /\ ~Collecting' =>
                  ~Collecting /\ UNCHANGED <<outcome, result, nresults>>
  <2>1. /\ Main \in Thread /\ Main \notin Worker
        /\ pc \in [Thread -> WorkerPC \cup MainPC]
    BY WorkQueueAssumption DEF Thread, TypeOK
  <2>2. ~Collecting' => ~Collecting /\ UNCHANGED <<outcome, result, nresults>>
    BY <1>4, <2>1
    DEF AddLocalResult, Release, Resume, Collecting, Called
  <2> QED
    BY <1>4, <2>2, AddLocalResultKeeps
<1>5. CASE Setup
  <2>1. Collecting'
    BY <1>5 DEF Setup, Collecting, TypeOK, Thread
  <2> QED
    BY <1>5, <2>1, SetupKeeps
<1>6. CASE GetThrdResults
  BY <1>6, Collected
<1>7. CASE ResetLocalResults
  BY <1>7, ResetKeeps DEF ResetLocalResults
<1> QED
  BY <1>2, <1>3, <1>4, <1>5, <1>6, <1>7, Steps

-----------------------------------------------------------------------------
(* What follows for AgSearch                                                *)

\* Before the first search there are no files.
LEMMA MatchInit ==
  ASSUME Init
  PROVE  CoreInv({}) /\ AnswerInv({}) /\ NumberInv({})
<1>1. /\ Main \in Thread /\ Thread = Worker \cup {Main} /\ None \notin Item
      /\ pc = [t \in Thread |-> IF t = Main THEN "idle" ELSE "absent"]
      /\ work_queue = <<>> /\ walk = {} /\ file_args = {}
      /\ \A t \in Thread : queue_item[t] = None
      /\ \A i \in Item : outcome[i] = "absent"
      /\ \A t \in Thread : thrd_rslt[t] = <<>> /\ DOMAIN thrd_rslt[t] = {}
      /\ stats = ZeroStats /\ result = <<>> /\ DOMAIN result = {} /\ nresults = 0
  BY WorkQueueAssumption DEF Init, Thread, EmptyResults, NoSearch
<1>2. Held = {} /\ Range(work_queue) = {} /\ InHand = {} /\ QueueInv
  BY <1>1 DEF Held, Range, InHand, QueueInv, IsInjective
<1>3. Listed = {} /\ ListInv
  BY <1>1 DEF Listed, Range, ListInv
<1>4. ~Called /\ ~Collecting /\ WalkInv
  BY <1>1 DEF Called, Collecting, WalkInv
<1>5. Matching(outcome) = {} /\ Counted = {}
  BY <1>1 DEF Matching, Counted
<1>6. StatsInv
  BY <1>1, <1>5, NothingCounted DEF StatsInv
<1>7. KeptInv({})
  BY <1>1, <1>2, <1>3, <1>4, <1>5 DEF KeptInv
<1>8. AnswerInv({}) /\ NumberInv({})
  BY <1>1, <1>5, FS_EmptySet DEF AnswerInv, NumberInv, IsInjective, Range
<1> QED
  BY <1>2, <1>3, <1>4, <1>6, <1>7, <1>8 DEF CoreInv

\* Where every file of a search is, what has been counted, and what the last
\* answer says: the invariant behind the theorems that follow.
THEOREM MatchInvariance == Spec => []MatchInv
<1>1. MatchInv <=> CoreInv({}) /\ AnswerInv({}) /\ NumberInv({})
  BY DEF MatchInv, CoreInv
<1>2. Init => MatchInv
  BY <1>1, MatchInit
<1>3. IInv /\ MatchInv /\ [Next]_vars => MatchInv'
  <2> SUFFICES ASSUME IInv, MatchInv, [Next]_vars
               PROVE  MatchInv'
    OBVIOUS
  <2>1. TypeOK /\ Protocol
    BY DEF IInv, Protocol
  <2>2. CoreInv({}) /\ AnswerInv({}) /\ NumberInv({})
    BY <1>1
  <2>3. CASE NewCall
    BY <2>1, <2>3, CallKeeps
    DEF MatchInv, CoreInv, AnswerInv, NumberInv
  <2>4. CASE GetThrdResults
    BY <2>1, <2>2, <2>4, Collected DEF MatchInv, CoreInv
  <2>5. CASE ~NewCall /\ ~GetThrdResults
    <3>1. /\ CoreInv({})'
          /\ ~Collecting' => ~Collecting /\ UNCHANGED <<outcome, result, nresults>>
      BY <2>1, <2>2, <2>5, CoreStep
    <3>2. AnswerInv({})' /\ NumberInv({})'
      BY <2>2, <3>1 DEF AnswerInv, NumberInv
    <3> QED
      BY <3>1, <3>2 DEF MatchInv, CoreInv
  <2> QED
    BY <2>3, <2>4, <2>5
<1> QED
  BY <1>2, <1>3, Invariance, PTL DEF Spec

\* Until its results are collected every file that matches is in exactly one
\* of the walk, the queue, the hands of a thread and the lists.
THEOREM MatchesKept == Spec => []MatchNeitherLostNorDoubled
<1>1. IInv /\ MatchInv => MatchNeitherLostNorDoubled
  <2> SUFFICES ASSUME IInv, MatchInv,
                      pc[Main] \in {"walk", "enqueue", "search", "report", "finish",
                                    "worker_done", "collect"},
                      NEW i \in Matching(outcome)
               PROVE  Cardinality(Whereabouts(i).walk)
                        + Cardinality(Whereabouts(i).queue)
                        + Cardinality(Whereabouts(i).held)
                        + Cardinality(Whereabouts(i).slots) = 1
    BY DEF MatchNeitherLostNorDoubled
  <2> DEFINE W == {i} \cap (walk \cup file_args)
             Q == Positions(i, work_queue)
             H == {t \in Thread : queue_item[t] = i}
             L == {p \in Places : thrd_rslt[p[1]][p[2]] = i}
  <2>1. /\ Whereabouts(i).walk = W /\ Whereabouts(i).queue = Q
        /\ Whereabouts(i).held = H /\ Whereabouts(i).slots = L
    BY DEF Whereabouts
  <2>2. TypeOK /\ QueueInv /\ ListInv /\ i # None /\ i \in InHand \cup Listed
    <3>1. Collecting
      BY DEF Collecting
    <3> QED
      BY <3>1, WorkQueueAssumption DEF IInv, MatchInv, KeptInv, Matching
  <2>3. /\ W = IF i \in walk \cup file_args THEN {i} ELSE {}
        /\ i \notin Range(work_queue) => Q = {}
        /\ i \notin Held => H = {}
    BY <2>2 DEF Positions, Range, Held
  <2>4. ASSUME i \in Range(work_queue)
        PROVE  \E k : Q = {k}
    <3>1. PICK k \in DOMAIN work_queue : work_queue[k] = i
      BY <2>4 DEF Range
    <3>2. Q = {k}
      BY <2>2, <3>1 DEF Positions, QueueInv, IsInjective
    <3> QED
      BY <3>2
  <2>5. ASSUME i \in Held
        PROVE  \E t : H = {t}
    <3>1. PICK t \in Thread : queue_item[t] = i
      BY <2>5 DEF Held
    <3>2. H = {t}
      BY <2>2, <3>1 DEF QueueInv
    <3> QED
      BY <3>2
  <2>6. i \notin Listed => L = {}
    BY <2>2, PlacesAre DEF Listed, Range
  <2>7. ASSUME i \in Listed
        PROVE  \E p : L = {p}
    <3>1. PICK t \in Thread : i \in Range(thrd_rslt[t])
      BY <2>7 DEF Listed
    <3>2. PICK k \in DOMAIN thrd_rslt[t] : thrd_rslt[t][k] = i
      BY <3>1 DEF Range
    <3>3. <<t, k>> \in L
      BY <2>2, <3>2, PlacesAre
    <3>4. \A p \in L : p = <<t, k>>
      BY <2>2, <3>2, PlacesAre DEF ListInv
    <3> QED
      BY <3>3, <3>4
  <2>8. /\ i \in walk \cup file_args => i \notin Range(work_queue) \cup Held
        /\ i \in Range(work_queue) => i \notin Held
        /\ i \in InHand => i \notin Listed
        /\ InHand = walk \cup file_args \cup Range(work_queue) \cup Held
    BY <2>2 DEF QueueInv, ListInv, InHand
  <2>9. Cardinality({}) = 0 /\ \A x : Cardinality({x}) = 1
    BY FS_EmptySet, FS_Singleton
  <2> HIDE DEF W, Q, H, L
  <2>10. Cardinality(W) = IF i \in walk \cup file_args THEN 1 ELSE 0
    BY <2>3, <2>9
  <2>11. Cardinality(Q) = IF i \in Range(work_queue) THEN 1 ELSE 0
    BY <2>3, <2>4, <2>9
  <2>12. Cardinality(H) = IF i \in Held THEN 1 ELSE 0
    BY <2>3, <2>5, <2>9
  <2>13. Cardinality(L) = IF i \in Listed THEN 1 ELSE 0
    BY <2>6, <2>7, <2>9
  <2> QED
    BY <2>1, <2>2, <2>8, <2>10, <2>11, <2>12, <2>13
<1> QED
  BY <1>1, Invariance, MatchInvariance, PTL


-----------------------------------------------------------------------------
(* ag_search() implements SearchService                                     *)

\* What a search is about is settled when it is called.
LEMMA OutcomeStays ==
  ASSUME TypeOK, Protocol, QueueInv, [Next]_vars, ~NewCall
  PROVE  outcome' = outcome
<1>1. CASE Elsewhere
  BY <1>1, ElsewhereMoves DEF Moves
<1>2. CASE HandOver
  BY <1>2, HandOverMoves DEF Moves
<1>3. CASE \/ \E t \in Thread : AddLocalResult(t)
           \/ Setup \/ GetThrdResults \/ ResetLocalResults
  BY <1>3 DEF AddLocalResult, Setup, GetThrdResults, ResetLocalResults
<1> QED
  BY <1>1, <1>2, <1>3, Steps

\* Nobody searches a file while the client is in no call of ag_search().
LEMMA NobodySearches ==
  ASSUME TypeOK, Protocol, ~InSearch
  PROVE  /\ pc[Main] \in {"idle", "spawn", "stop", "join"}
         /\ \A t \in Thread : queue_item[t] = None
         /\ \A t \in Thread : pc[t] \notin {"search", "report", "enqueue"}
         /\ work_queue = <<>> /\ ~Called /\ ~Collecting
<1>1. pc[Main] \in {"idle", "spawn", "stop", "join"}
  BY DEF InSearch
<1>2. work_queue = <<>> /\ \A w \in Worker : queue_item[w] = None
  BY <1>1 DEF Protocol, Quiescent
<1>3. \A t \in Thread : queue_item[t] \notin Item /\ Thread = Worker \cup {Main}
  BY <1>1, <1>2, WorkQueueAssumption DEF TypeOK, Thread
<1> QED
  BY <1>1, <1>2, <1>3 DEF TypeOK, InSearch, Called, Collecting

\* Only a call takes the client into ag_search(), and until then the answer
\* and the totals of the last search stay.
LEMMA OutsideStep ==
  ASSUME TypeOK, Protocol, [Next]_vars, ~NewCall, ~InSearch
  PROVE  ~InSearch' /\ UNCHANGED <<outcome, result, nresults, stats>>
<1>1. /\ Main \in Thread /\ Main \notin Worker /\ Worker \subseteq Thread
      /\ pc \in [Thread -> WorkerPC \cup MainPC] /\ Thread = Worker \cup {Main}
  BY WorkQueueAssumption DEF Thread, TypeOK
<1>2. /\ pc[Main] \in {"idle", "spawn", "stop", "join"}
      /\ \A t \in Thread : pc[t] \notin {"search", "report", "enqueue"}
      /\ workers_behavior = "onsearch" => pc[Main] = "idle" /\ workers = {}
      /\ work_queue = <<>>
  BY NobodySearches DEF Protocol, PoolInv, InSearch
<1> DEFINE Same == UNCHANGED <<outcome, result, nresults, stats, workers_behavior>>
<1>3. ASSUME NEW w \in Worker,
             \/ OnPool(\/ LockQueue(w) \/ WaitForFiles(w) \/ SeeDone(w)
                       \/ SpuriousWakeup(w) \/ Dequeue(w))
             \/ LeaveLoop(w) \/ Spawn(w)
      PROVE  Same /\ pc'[Main] = pc[Main]
  BY <1>1, <1>3
  DEF OnPool, LockQueue, WaitForFiles, SeeDone, SpuriousWakeup, Dequeue,
      LeaveLoop, Spawn, poolVars
<1>4. ~HandOver \/ \E w \in Worker : OnPool(Dequeue(w))
  BY <1>2
  DEF HandOver, OnPool, LockToEnqueue, SearchFileArgument, Enqueue, SkipFile,
      SearchBuf
<1>5. CASE StartReturns \/ ClientStart \/ ClientStop \/ TellToStop \/ JoinWorkers
  <2>1. Same
    BY <1>5
    DEF StartReturns, ClientStart, ClientStop, LockToStop, TellToStop,
        JoinWorkers, StartWorkers, poolVars
  <2>2. pc'[Main] \in {"idle", "spawn", "stop", "join"}
        /\ (workers_behavior = "onsearch" => pc'[Main] = "idle")
    BY <1>1, <1>2, <1>5
    DEF StartReturns, ClientStart, ClientStop, LockToStop, TellToStop,
        JoinWorkers, StartWorkers, Wake
  <2> QED
    BY <2>1, <2>2 DEF InSearch
<1>6. ~(\/ OnPool(LockToFinish) \/ EndWalk \/ Restart \/ ReturnResult
        \/ StopOnReturn \/ Setup \/ GetThrdResults \/ ResetLocalResults
        \/ \E t \in Thread : AddLocalResult(t))
  BY <1>1, <1>2
  DEF OnPool, LockToFinish, EndWalk, FinishAdding, Restart, ReturnResult,
      StopOnReturn, LockToStop, Setup, GetThrdResults, ResetLocalResults,
      AddLocalResult
<1>7. ~WorkersDone /\ ~ResultsDone
  <2>1. pc[Main] \notin {"worker_done", "results_done"}
    BY <1>2
  <2> QED
    BY <1>1, <2>1, BarrierFull DEF WorkersDone, ResultsDone, Protocol
<1>8. CASE UNCHANGED vars
  BY <1>8 DEF vars, queueVars, poolVars, InSearch
<1> QED
  BY <1>3, <1>4, <1>5, <1>6, <1>7, <1>8, Steps DEF Elsewhere, OnPool, InSearch

\* A call takes the client into ag_search().
LEMMA CallEnters ==
  ASSUME TypeOK, NewCall
  PROVE  ~InSearch /\ InSearch' /\ outcome' \in [Item -> Outcome]
<1>1. /\ pc[Main] = "idle" /\ pc'[Main] \in {"setup", "spawn"}
      /\ pc'[Main] = "spawn" => workers_behavior = "onsearch"
      /\ workers_behavior' = workers_behavior
  BY DEF NewCall, CallSearch, CallSearchAndStart, StartWorkers, TypeOK, Thread
<1>2. outcome' \in [Item -> Outcome]
  BY DEF NewCall, CallSearch, CallSearchAndStart, NewRequest
<1> QED
  BY <1>1, <1>2 DEF InSearch

\* By then every file that search_buf was to see has been counted.
LEMMA Settled ==
  ASSUME TypeOK, Protocol, NEW lost, CoreInv(lost), ~InSearch
  PROVE  /\ ~Collecting
         /\ Counted = {i \in Item : outcome[i] \in {"nomatch", "match"}}
         /\ Counted \cap Matching(outcome) = Matching(outcome)
         /\ CountsRight
<1>1. /\ pc[Main] \in {"idle", "spawn", "stop", "join"}
      /\ \A t \in Thread : pc[t] \notin {"search", "report", "enqueue"}
      /\ work_queue = <<>> /\ ~Called /\ ~Collecting
  BY NobodySearches
<1>2. walk = {} /\ file_args = {} /\ CountsRight
  BY <1>1 DEF CoreInv, WalkInv, StatsInv
<1>3. Counted = {i \in Item : outcome[i] \in {"nomatch", "match"}}
  BY <1>1, <1>2 DEF Counted, Range
<1>4. Counted \cap Matching(outcome) = Matching(outcome)
  BY <1>3 DEF Matching
<1> QED
  BY <1>1, <1>2, <1>3, <1>4

\* What ag_search() has returned, as SearchService puts it.
LEMMA Answered ==
  ASSUME TypeOK, Protocol, CoreInv({}), AnswerInv({}), ~InSearch
  PROVE  /\ Service!Lists(result, Service!Matches(outcome))
         /\ stats = [total_files |-> Cardinality(Service!Reached(outcome)),
                     total_file_matches |-> Cardinality(Service!Matches(outcome))]
<1>1. /\ Service!Matches(outcome) = Matching(outcome)
      /\ Service!Reached(outcome) = Counted
      /\ Counted \cap Matching(outcome) = Matching(outcome)
      /\ CountsRight /\ ~Collecting
  BY Settled DEF Service!Matches, Service!Reached, Matching
<1>2. stats = [total_files |-> stats.total_files,
               total_file_matches |-> stats.total_file_matches]
  BY DEF TypeOK
<1>3. stats = [total_files |-> Cardinality(Service!Reached(outcome)),
               total_file_matches |-> Cardinality(Service!Matches(outcome))]
  BY <1>1, <1>2 DEF CountsRight
<1>4. Service!Lists(result, Service!Matches(outcome))
  BY <1>1
  DEF AnswerInv, Service!Lists, Service!IsInjective, Service!Range, IsInjective, Range
<1> QED
  BY <1>3, <1>4

\* Every answer of ag_search() lists each file that matches exactly once, with
\* totals to match: each step of the threads is a step of the service, or
\* nothing to its caller.
THEOREM Implements == Spec => Service!Safety
<1> DEFINE Good ==
      ~InSearch =>
        /\ Service!Lists(result, Service!Matches(outcome))
        /\ stats = [total_files |-> Cardinality(Service!Reached(outcome)),
                    total_file_matches |-> Cardinality(Service!Matches(outcome))]
<1>1. IInv /\ MatchInv => Good
  <2> SUFFICES ASSUME IInv, MatchInv, ~InSearch
               PROVE  Good
    OBVIOUS
  <2>1. TypeOK /\ Protocol /\ CoreInv({}) /\ AnswerInv({})
    BY DEF IInv, Protocol, MatchInv, CoreInv
  <2> QED
    BY <2>1, Answered
<1>2. Init => Service!Init
  BY WorkQueueAssumption
  DEF Init, InSearch, Service!Init, NoSearch, ZeroStats, Thread
<1>3. IInv /\ MatchInv /\ Good' /\ [Next]_vars
        => [Service!Next]_Service!serviceVars
  <2> SUFFICES ASSUME IInv, MatchInv, Good', [Next]_vars
               PROVE  Service!Next \/ UNCHANGED Service!serviceVars
    BY DEF Service!serviceVars
  <2>1. TypeOK /\ Protocol /\ QueueInv
    BY DEF IInv, Protocol, MatchInv
  <2>2. InSearch \in BOOLEAN /\ InSearch' \in BOOLEAN
    BY DEF InSearch
  <2>3. CASE NewCall
    <3>1. ~InSearch /\ InSearch' /\ outcome' \in [Item -> Outcome]
      BY <2>1, <2>3, CallEnters
    <3>2. Service!Call
      BY <2>2, <3>1 DEF Service!Call, Service!Request, Outcome, ZeroStats
    <3> QED
      BY <3>2 DEF Service!Next
  <2>4. CASE ~NewCall /\ InSearch
    <3>1. outcome' = outcome
      BY <2>1, <2>4, OutcomeStays
    <3>2. CASE InSearch'
      BY <2>2, <2>4, <3>1, <3>2 DEF Service!serviceVars
    <3>3. CASE ~InSearch'
      <4>1. Service!Matches(outcome)' = Service!Matches(outcome)
            /\ Service!Reached(outcome)' = Service!Reached(outcome)
        BY <3>1 DEF Service!Matches, Service!Reached
      <4>2. Service!Lists(result', Service!Matches(outcome))
            /\ stats' = [total_files |-> Cardinality(Service!Reached(outcome)),
                         total_file_matches |-> Cardinality(Service!Matches(outcome))]
        BY <3>3, <4>1 DEF Service!Lists, Service!IsInjective, Service!Range
      <4>3. \A S : Service!Cardinality(S) = Cardinality(S)
        BY DEF Service!Cardinality, Cardinality
      <4>4. Service!Return
        BY <2>2, <2>4, <3>1, <3>3, <4>2, <4>3 DEF Service!Return
      <4> QED
        BY <4>4 DEF Service!Next
    <3> QED
      BY <3>2, <3>3
  <2>5. CASE ~NewCall /\ ~InSearch
    BY <2>1, <2>2, <2>5, OutsideStep DEF Service!serviceVars
  <2> QED
    BY <2>3, <2>4, <2>5
<1> QED
  BY <1>1, <1>2, <1>3, Invariance, MatchInvariance, PTL
  DEF Spec, Service!Safety


-----------------------------------------------------------------------------
(* When allocations fail                                                    *)

\* The two failures keep the types.
LEMMA FaultTypes ==
  ASSUME TypeOK, (\E t \in Thread : AddLocalResultFails(t)) \/ GetThrdResultsFails
  PROVE  TypeOK'
<1>1. /\ Main \in Thread /\ Main \notin Worker /\ Worker \subseteq Thread
      /\ None \notin Item
  BY WorkQueueAssumption DEF Thread
<1>2. ASSUME NEW t \in Thread, AddLocalResultFails(t)
      PROVE  TypeOK'
  BY <1>1, <1>2
  DEF TypeOK, WorkerPC, MainPC, Thread, AddLocalResultFails, Release, Resume, poolVars
<1>3. CASE GetThrdResultsFails
  <2>1. nresults' \in Nat
    BY <1>3, PlacesFinite, FS_CardinalityType DEF GetThrdResultsFails
  <2> QED
    BY <1>1, <1>3, <2>1
    DEF TypeOK, WorkerPC, MainPC, Thread, GetThrdResultsFails
<1> QED
  BY <1>2, <1>3

\* They take the mutex and the barriers where success would.
LEMMA FaultProtocol ==
  ASSUME TypeOK, Protocol,
         (\E t \in Thread : AddLocalResultFails(t)) \/ GetThrdResultsFails
  PROVE  Protocol'
<1>1. /\ Main \in Thread /\ Main \notin Worker /\ Worker \subseteq Thread
      /\ Thread = Worker \cup {Main} /\ None \notin Thread /\ None \notin Item
      /\ Worker # {}
  BY WorkQueueAssumption DEF Thread
<1>2. /\ pc \in [Thread -> WorkerPC \cup MainPC]
      /\ pc[Main] \in MainPC /\ \A w \in Worker : pc[w] \in WorkerPC
      /\ queue_item \in [Thread -> Item \cup {None}]
      /\ \A t \in Thread : pc[t] \in {"search", "report", "enqueue"}
                             <=> queue_item[t] \in Item
      /\ workers \in {{}, Worker}
  BY DEF TypeOK
<1>3. ASSUME NEW t \in Thread, AddLocalResultFails(t)
      PROVE  Protocol'
  BY <1>3, <1>1, <1>2
  DEF Protocol, MutexInv, PoolInv, FlagInv, PhaseInv, Quiescent, ResetInv, Thread,
      WorkerPC, MainPC, AddLocalResultFails, Release, Resume, poolVars
<1>4. CASE GetThrdResultsFails
  BY <1>4, <1>1, <1>2
  DEF Protocol, MutexInv, PoolInv, FlagInv, PhaseInv, Quiescent, ResetInv, Thread,
      WorkerPC, MainPC, GetThrdResultsFails, poolVars
<1> QED
  BY <1>3, <1>4

\* Once the results are collected, only a call makes Collecting true again.
LEMMA CollectedOnce ==
  ASSUME TypeOK, Protocol, QueueInv, [Next]_vars, ~NewCall, ~Collecting
  PROVE  ~Collecting' /\ ~GetThrdResults
<1>1. ~Setup /\ ~GetThrdResults
  BY DEF Setup, GetThrdResults, Collecting, Called
<1>2. CASE Elsewhere \/ HandOver
  BY <1>1, <1>2, ElsewhereMoves, HandOverMoves DEF Moves
<1>3. ASSUME NEW t \in Thread, AddLocalResult(t)
      PROVE  ~Collecting'
  BY <1>3, WorkQueueAssumption
  DEF AddLocalResult, Release, Resume, Collecting, Called, TypeOK, Thread
<1>4. CASE ResetLocalResults
  <2>1. ~Collecting'
    BY <1>4 DEF ResetLocalResults, Collecting, Called, TypeOK, Thread
  <2> QED
    BY <1>1, <2>1
<1> QED
  BY <1>1, <1>2, <1>3, <1>4, Steps

\* A match that add_local_result() fails to record is dropped, and nothing else.
LEMMA DropKeeps ==
  ASSUME TypeOK, Protocol, NEW lost, CoreInv(lost),
         NEW t \in Thread, AddLocalResultFails(t), NEW i, i = queue_item[t]
  PROVE  CoreInv(lost \cup {i})' /\ Collecting /\ Collecting'
<1>1. /\ Main \in Thread /\ Main \notin Worker /\ Thread = Worker \cup {Main}
      /\ pc \in [Thread -> WorkerPC \cup MainPC]
      /\ queue_item \in [Thread -> Item \cup {None}]
      /\ pc[Main] \in MainPC
  BY WorkQueueAssumption DEF Thread, TypeOK
<1>2. /\ pc[t] = "report" /\ pc[t] \in Busy /\ Release(t)
      /\ UNCHANGED <<work_queue, walk, file_args, outcome, stats,
                     workers_behavior, thrd_rslt>>
  BY DEF AddLocalResultFails, Busy, poolVars
<1>3. /\ QueueInv' /\ i \in InHand /\ i \in Item /\ InHand' = InHand \ {i}
      /\ Counted' = Counted
  BY <1>2, Typed, ReleaseKeeps DEF CoreInv
<1>4. i \in Matching(outcome)
  BY <1>2 DEF CoreInv, KeptInv
<1>5. Listed' = Listed /\ ListInv' /\ i \notin Listed
  BY <1>2, <1>3 DEF CoreInv, ListInv, Listed
<1>6. /\ (Called' <=> Called) /\ (Collecting' <=> Collecting)
      /\ WalkInv => WalkInv'
  BY <1>1, <1>2 DEF Release, Resume, Called, Collecting, WalkInv
<1>7. WalkInv' /\ StatsInv'
  BY <1>2, <1>3, <1>6 DEF CoreInv, StatsInv, CountsRight
<1>8. \A u \in Thread : pc'[u] = "report" =>
        pc[u] = "report" /\ queue_item'[u] = queue_item[u]
  BY <1>1, <1>2 DEF Release, Resume
<1>9. Collecting
  <2>1. CASE t = Main
    BY <1>2, <2>1 DEF Collecting
  <2>2. CASE t \in Worker
    <3>1. queue_item[t] # None
      BY <1>3, WorkQueueAssumption
    <3> QED
      BY <1>1, <1>2, <2>2, <3>1
      DEF Collecting, MainPC, Protocol, Quiescent, PhaseInv
  <2> QED
    BY <1>1, <2>1, <2>2
<1>10. KeptInv(lost \cup {i})'
  BY <1>2, <1>3, <1>4, <1>5, <1>6, <1>8 DEF CoreInv, KeptInv
<1> QED
  BY <1>3, <1>5, <1>6, <1>7, <1>9, <1>10 DEF CoreInv

\* With failures too, what is neither dropped nor refused is where AgSearch
\* says.
THEOREM FaultInvariance == FaultSpec => []FaultInv
<1> DEFINE faultVars == <<vars, dropped, refused>>
           Begin == /\ Next
                    /\ IF ~InSearch /\ InSearch' THEN dropped' = {} /\ refused' = FALSE
                       ELSE UNCHANGED <<dropped, refused>>
           Fault == (\E t \in Thread : AddLocalResultFails(t)) \/ GetThrdResultsFails
<1>1. Init /\ dropped = {} /\ refused = FALSE => FaultInv
  BY TypeInit, ProtocolInit, MatchInit
  DEF FaultInv, IInv, Protocol, CoreInv
<1>2. FaultInv /\ [FaultNext]_faultVars => FaultInv'
  <2> SUFFICES ASSUME FaultInv, [FaultNext]_faultVars
               PROVE  FaultInv'
    OBVIOUS
  <2>1. TypeOK /\ Protocol /\ CoreInv(dropped) /\ QueueInv
    BY DEF FaultInv, IInv, Protocol, CoreInv
  <2>2. IInv'
    <3>1. CASE Fault
      BY <2>1, <3>1, FaultTypes, FaultProtocol DEF IInv, Protocol
    <3>2. CASE [Next]_vars
      BY <2>1, <3>2, TypeStep, ProtocolStep DEF IInv, Protocol
    <3> QED
      BY <3>1, <3>2 DEF FaultNext
  <2>3. CASE Begin /\ NewCall
    <3>1. dropped' = {} /\ refused' = FALSE
      BY <2>1, <2>3, CallEnters
    <3>2. CoreInv({})' /\ Collecting'
      BY <2>1, <2>3, CallKeeps
    <3> QED
      BY <2>2, <3>1, <3>2 DEF FaultInv, CoreInv, KeptInv, NumberInv, AnswerInv
  <2>4. ASSUME [Next]_vars, ~NewCall, UNCHANGED <<dropped, refused>>
        PROVE  FaultInv'
    <3>1. PICK D : D = dropped
      OBVIOUS
    <3>2. CoreInv(D) /\ NumberInv(D) /\ dropped' = D /\ refused' = refused
      BY <2>1, <2>4, <3>1 DEF FaultInv
    <3>3. CoreInv(D)'
      BY <2>1, <2>4, <3>2, CoreStep
    <3>4. CASE GetThrdResults
      <4>1. Collecting /\ ~refused
        BY <3>4 DEF GetThrdResults, Collecting, FaultInv
      <4>2. NumberInv(D)' /\ AnswerInv(D)'
        BY <2>1, <3>2, <3>4, Collected
      <4> QED
        BY <2>2, <3>2, <3>3, <4>1, <4>2
        DEF FaultInv, CoreInv, KeptInv, NumberInv, AnswerInv
    <3>5. CASE ~GetThrdResults
      <4>1. ~Collecting' => ~Collecting /\ UNCHANGED <<outcome, result, nresults>>
        BY <2>1, <2>4, <3>2, <3>5, CoreStep
      <4>2. NumberInv(D)'
        BY <3>2, <4>1 DEF NumberInv, Matching
      <4>3. CASE refused
        BY <2>1, <2>2, <2>4, <3>2, <3>3, <4>1, <4>2, <4>3, CollectedOnce
        DEF FaultInv, CoreInv, KeptInv, NumberInv
      <4>4. CASE ~refused
        <5>1. AnswerInv(D)'
          BY <3>1, <4>1, <4>4 DEF FaultInv, AnswerInv, Matching
        <5> QED
          BY <2>2, <3>2, <3>3, <4>2, <4>4, <5>1
          DEF FaultInv, CoreInv, KeptInv, NumberInv, AnswerInv
      <4> QED
        BY <4>3, <4>4
    <3> QED
      BY <3>4, <3>5
  <2>5. ASSUME NEW t \in Thread, AddLocalResultFails(t)
        PROVE  FaultInv'
    <3>1. PICK i, D : i = queue_item[t] /\ D = dropped
      OBVIOUS
    <3>2. dropped' = D \cup {i} /\ refused' = refused
      BY <2>5, <3>1 DEF AddLocalResultFails
    <3>3. CoreInv(D \cup {i})' /\ Collecting'
      BY <2>1, <2>5, <3>1, DropKeeps
    <3>4. ~refused
      BY <2>1, <2>5, <3>1, <3>3, DropKeeps DEF FaultInv
    <3> QED
      BY <2>2, <3>2, <3>3, <3>4
      DEF FaultInv, CoreInv, KeptInv, NumberInv, AnswerInv
  <2>6. CASE GetThrdResultsFails
    <3>1. PICK D : D = dropped
      OBVIOUS
    <3>2. /\ dropped' = D /\ refused' = TRUE /\ result' = <<>>
          /\ pc[Main] = "collect" /\ pc' = [pc EXCEPT ![Main] = "reset"]
      BY <2>6, <3>1 DEF GetThrdResultsFails
    <3>3. CoreInv(D)' /\ NumberInv(D)'
      BY <2>1, <2>6, <3>1, <3>2, CollectKeeps DEF GetThrdResultsFails
    <3>4. ~Collecting'
      BY <2>1, <3>2 DEF Collecting, Called, TypeOK, Thread
    <3> QED
      BY <2>2, <3>2, <3>3, <3>4 DEF FaultInv, CoreInv, KeptInv, NumberInv
  <2>7. CASE UNCHANGED faultVars
    <3>1. ~NewCall
      <4>1. NewCall => pc[Main] # pc'[Main]
        BY <2>1, CallEnters, NobodySearches
        DEF NewCall, CallSearch, CallSearchAndStart, StartWorkers, TypeOK, Thread
      <4> QED
        BY <2>7, <4>1 DEF vars, queueVars
    <3> QED
      BY <2>4, <2>7, <3>1
  <2>8. CASE Begin /\ ~NewCall
    <3>1. ~(~InSearch /\ InSearch')
      BY <2>1, <2>8, OutsideStep
    <3> QED
      BY <2>4, <2>8, <3>1
  <2> QED
    BY <2>3, <2>5, <2>6, <2>7, <2>8 DEF FaultNext
<1> QED
  BY <1>1, <1>2, PTL DEF FaultSpec

\* What is taken from a finite set is missing from its size.
LEMMA CardinalityWithout ==
  ASSUME NEW S, IsFiniteSet(S), NEW T, T \subseteq S
  PROVE  Cardinality(S \ T) + Cardinality(T) = Cardinality(S)
<1>1. Cardinality(S \ T) = Cardinality(S) - Cardinality(S \cap T)
  BY FS_Difference
<1>2. S \cap T = T /\ IsFiniteSet(T)
  BY FS_Subset
<1>3. Cardinality(S) \in Nat /\ Cardinality(T) \in Nat
  BY <1>2, FS_CardinalityType
<1> QED
  BY <1>1, <1>2, <1>3

\* Failed allocations lose the matches they concern, and no other: what a
\* search answers is every other match once, and the totals still count all.
THEOREM AnswersKept == FaultSpec => []AnswersAllButDropped
<1>1. FaultInv => AnswersAllButDropped
  <2> SUFFICES ASSUME FaultInv, pc[Main] = "idle"
               PROVE  /\ IsInjective(result)
                      /\ Range(result) = IF refused THEN {}
                                         ELSE Matching(outcome) \ dropped
                      /\ nresults + Cardinality(dropped)
                           = Cardinality(Matching(outcome))
                      /\ stats.total_file_matches = Cardinality(Matching(outcome))
    BY DEF AnswersAllButDropped
  <2>1. TypeOK /\ Protocol /\ CoreInv(dropped)
    BY DEF FaultInv, IInv, Protocol, CoreInv
  <2>2. ~InSearch
    BY DEF InSearch
  <2>3. /\ ~Collecting /\ CountsRight
        /\ Counted \cap Matching(outcome) = Matching(outcome)
    BY <2>1, <2>2, Settled
  <2>4. /\ IsFiniteSet(Matching(outcome)) /\ dropped \subseteq Matching(outcome)
        /\ nresults = Cardinality(Matching(outcome) \ dropped)
        /\ stats.total_file_matches = Cardinality(Matching(outcome))
    BY <2>1, <2>3, FS_Intersection
    DEF CountsRight, CoreInv, KeptInv, FaultInv, NumberInv
  <2>5. nresults + Cardinality(dropped) = Cardinality(Matching(outcome))
    BY <2>4, CardinalityWithout
  <2>6. CASE refused
    BY <2>4, <2>5, <2>6 DEF FaultInv, IsInjective, Range
  <2>7. CASE ~refused
    BY <2>3, <2>4, <2>5, <2>7 DEF FaultInv, AnswerInv
  <2> QED
    BY <2>6, <2>7
<1> QED
  BY <1>1, FaultInvariance, PTL
=============================================================================
