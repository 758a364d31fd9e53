--------------------------- MODULE WorkQueueProofs ---------------------------
(***************************************************************************)
(* Lemmas about the steps of WorkQueue, for the proofs about the library    *)
(* and about the command line program: what each step does to the files     *)
(* still to be dealt with and to the totals.                                *)
(***************************************************************************)
EXTENDS WorkQueue, FiniteSetTheorems, TLAPS

-----------------------------------------------------------------------------
(* Sequences without duplicates                                             *)

\* What is left of such a queue once its head has been taken.
LEMMA TailOfInjective ==
  ASSUME NEW S, NEW s \in Seq(S), s # <<>>, IsInjective(s)
  PROVE  /\ IsInjective(Tail(s))
         /\ Head(s) \in Range(s)
         /\ Range(Tail(s)) = Range(s) \ {Head(s)}
<1>1. /\ Tail(s) \in Seq(S) /\ Len(Tail(s)) = Len(s) - 1 /\ Len(s) \in Nat \ {0}
      /\ \A k \in 1..Len(Tail(s)) : Tail(s)[k] = s[k + 1]
      /\ Head(s) = s[1]
      /\ DOMAIN s = 1..Len(s) /\ DOMAIN Tail(s) = 1..Len(Tail(s))
  OBVIOUS
<1>2. IsInjective(Tail(s))
  BY <1>1 DEF IsInjective
<1>3. Head(s) \in Range(s)
  BY <1>1 DEF Range
<1>4. Range(Tail(s)) \subseteq Range(s) \ {Head(s)}
  BY <1>1 DEF Range, IsInjective
<1>5. ASSUME NEW x \in Range(s), x # Head(s)
      PROVE  x \in Range(Tail(s))
  <2>1. PICK k \in 1..Len(s) : x = s[k] /\ k # 1
    BY <1>1, <1>5 DEF Range
  <2>2. k - 1 \in 1..Len(Tail(s)) /\ Tail(s)[k - 1] = x
    BY <1>1, <2>1
  <2> QED
    BY <1>1, <2>2 DEF Range
<1> QED
  BY <1>2, <1>3, <1>4, <1>5

\* Such a queue with another file at its end.
LEMMA AppendToInjective ==
  ASSUME NEW S, NEW s \in Seq(S), IsInjective(s), NEW x \in S, x \notin Range(s)
  PROVE  /\ IsInjective(Append(s, x))
         /\ Range(Append(s, x)) = Range(s) \cup {x}
<1>1. /\ Append(s, x) \in Seq(S) /\ Len(Append(s, x)) = Len(s) + 1
      /\ Len(s) \in Nat
      /\ \A k \in 1..Len(s) : Append(s, x)[k] = s[k]
      /\ Append(s, x)[Len(s) + 1] = x
      /\ DOMAIN s = 1..Len(s) /\ DOMAIN Append(s, x) = 1..(Len(s) + 1)
  OBVIOUS
<1>2. \A k \in 1..Len(s) : s[k] # x
  BY <1>1 DEF Range
<1>3. IsInjective(Append(s, x))
  BY <1>1, <1>2 DEF IsInjective
<1>4. Range(Append(s, x)) \subseteq Range(s) \cup {x}
  BY <1>1 DEF Range
<1>5. x \in Range(Append(s, x))
  BY <1>1 DEF Range
<1>6. ASSUME NEW y \in Range(s)
      PROVE  y \in Range(Append(s, x))
  <2>1. PICK k \in 1..Len(s) : y = s[k]
    BY <1>1 DEF Range
  <2>2. k \in 1..(Len(s) + 1) /\ Append(s, x)[k] = y
    BY <1>1, <2>1
  <2> QED
    BY <1>1, <2>2 DEF Range
<1> QED
  BY <1>3, <1>4, <1>5, <1>6

-----------------------------------------------------------------------------
(* The files that the threads hold                                          *)

\* Where a thread is when it holds a file, in either program.
Busy == {"enqueue", "search", "report", "print", "print_rest", "found"}

QueueTypes ==
  /\ work_queue \in Seq(Item)
  /\ DOMAIN pc = Thread
  /\ queue_item \in [Thread -> Item \cup {None}]
  /\ \A t \in Thread : pc[t] \in Busy <=> queue_item[t] \in Item
  /\ walk \in SUBSET Item /\ file_args \in SUBSET Item

HeldOnce ==
  \A t, u \in Thread :
    queue_item[t] = queue_item[u] => t = u \/ queue_item[t] = None

\* A thread with nothing in its hands takes a file nobody holds.
LEMMA HoldItem ==
  ASSUME QueueTypes, HeldOnce,
         NEW t \in Thread, queue_item[t] \notin Item,
         NEW i \in Item, i \notin Held,
         queue_item' = [queue_item EXCEPT ![t] = i]
  PROVE  Held' = Held \cup {i} /\ HeldOnce'
<1>1. /\ queue_item \in [Thread -> Item \cup {None}]
      /\ None \notin Item /\ queue_item[t] = None
      /\ \A u \in Thread : queue_item'[u] = IF u = t THEN i ELSE queue_item[u]
  BY WorkQueueAssumption DEF QueueTypes
<1>2. \A u \in Thread : queue_item[u] # i
  BY <1>1 DEF Held
<1>3. HeldOnce'
  BY <1>1, <1>2 DEF HeldOnce
<1>4. Held' \subseteq Held \cup {i}
  BY <1>1 DEF Held
<1>5. i \in Held'
  BY <1>1 DEF Held
<1>6. ASSUME NEW j \in Held
      PROVE  j \in Held'
  <2>1. PICK u \in Thread : j = queue_item[u] /\ j # None
    BY DEF Held
  <2>2. queue_item'[u] = j
    BY <1>1, <2>1
  <2> QED
    BY <2>1, <2>2 DEF Held
<1> QED
  BY <1>3, <1>4, <1>5, <1>6

\* A thread lets go of its file, which no other thread holds.
LEMMA LetGo ==
  ASSUME QueueTypes, HeldOnce, NEW t \in Thread, queue_item[t] \in Item,
         queue_item' = [queue_item EXCEPT ![t] = None]
  PROVE  /\ Held' = Held \ {queue_item[t]}
         /\ queue_item[t] \in Held
         /\ HeldOnce'
<1>1. /\ queue_item \in [Thread -> Item \cup {None}] /\ None \notin Item
      /\ \A u \in Thread : queue_item'[u] = IF u = t THEN None ELSE queue_item[u]
  BY WorkQueueAssumption DEF QueueTypes
<1>2. queue_item[t] \in Held
  BY <1>1 DEF Held
<1>3. HeldOnce'
  BY <1>1 DEF HeldOnce
<1>4. ASSUME NEW j \in Held'
      PROVE  j \in Held \ {queue_item[t]}
  <2>1. PICK u \in Thread : j = queue_item'[u] /\ j # None
    BY DEF Held
  <2>2. u # t /\ queue_item[u] = j
    BY <1>1, <2>1
  <2>3. j # queue_item[t]
    BY <2>1, <2>2 DEF HeldOnce
  <2> QED
    BY <2>1, <2>2, <2>3 DEF Held
<1>5. ASSUME NEW j \in Held \ {queue_item[t]}
      PROVE  j \in Held'
  <2>1. PICK u \in Thread : j = queue_item[u] /\ j # None
    BY <1>5 DEF Held
  <2>2. queue_item'[u] = j
    BY <1>1, <1>5, <2>1
  <2> QED
    BY <2>1, <2>2 DEF Held
<1> QED
  BY <1>2, <1>3, <1>4, <1>5

-----------------------------------------------------------------------------
(* The steps, one by one                                                    *)

\* The walk takes a file to queue it: it is still to be dealt with.
LEMMA LockToEnqueueKeeps ==
  ASSUME QueueTypes, QueueInv, NEW i \in Item, LockToEnqueue(i)
  PROVE  QueueInv' /\ InHand' = InHand /\ Counted' = Counted
<1>1. /\ Main \in Thread /\ pc[Main] \notin Busy /\ i \in walk
      /\ walk' = walk \ {i} /\ pc' = [pc EXCEPT ![Main] = "enqueue"]
      /\ queue_item' = [queue_item EXCEPT ![Main] = i]
      /\ UNCHANGED <<work_queue, file_args, outcome>>
  BY DEF LockToEnqueue, Thread, Busy
<1>2. queue_item[Main] \notin Item /\ i \notin Held /\ HeldOnce
  BY <1>1 DEF QueueTypes, QueueInv, HeldOnce
<1>3. Held' = Held \cup {i} /\ HeldOnce'
  BY <1>1, <1>2, HoldItem
<1>4. QueueInv'
  BY <1>1, <1>3 DEF QueueInv, HeldOnce
<1>5. InHand' = InHand
  BY <1>1, <1>3 DEF InHand
<1>6. Counted' = Counted
  <2> DEFINE Unsearched ==
        {queue_item[t] : t \in {u \in Thread : pc[u] \in {"enqueue", "search"}}}
  <2>1. Unsearched' = Unsearched \cup {i}
    BY <1>1 DEF QueueTypes, Busy
  <2> QED
    BY <1>1, <2>1 DEF Counted
<1> QED
  BY <1>4, <1>5, <1>6

\* The walk comes to an argument that is a file, which Main searches itself.
LEMMA SearchFileArgumentKeeps ==
  ASSUME QueueTypes, QueueInv, NEW i \in Item, SearchFileArgument(i)
  PROVE  QueueInv' /\ InHand' = InHand /\ Counted' = Counted
<1>1. /\ Main \in Thread /\ pc[Main] \notin Busy /\ i \in file_args
      /\ file_args' = file_args \ {i} /\ pc' = [pc EXCEPT ![Main] = "search"]
      /\ queue_item' = [queue_item EXCEPT ![Main] = i]
      /\ UNCHANGED <<work_queue, walk, outcome>>
  BY DEF SearchFileArgument, Thread, Busy
<1>2. queue_item[Main] \notin Item /\ i \notin Held /\ HeldOnce
  BY <1>1 DEF QueueTypes, QueueInv, HeldOnce
<1>3. Held' = Held \cup {i} /\ HeldOnce'
  BY <1>1, <1>2, HoldItem
<1>4. QueueInv'
  BY <1>1, <1>3 DEF QueueInv, HeldOnce
<1>5. InHand' = InHand
  BY <1>1, <1>3 DEF InHand
<1>6. Counted' = Counted
  <2> DEFINE Unsearched ==
        {queue_item[t] : t \in {u \in Thread : pc[u] \in {"enqueue", "search"}}}
  <2>1. Unsearched' = Unsearched \cup {i}
    BY <1>1 DEF QueueTypes, Busy
  <2> QED
    BY <1>1, <2>1 DEF Counted
<1> QED
  BY <1>4, <1>5, <1>6

\* From the hands of the walk to the end of the queue.
LEMMA EnqueueKeeps ==
  ASSUME QueueTypes, QueueInv, Enqueue
  PROVE  QueueInv' /\ InHand' = InHand /\ Counted' = Counted
<1> DEFINE i == queue_item[Main]
<1>1. /\ Main \in Thread /\ pc[Main] = "enqueue" /\ pc[Main] \in Busy
      /\ work_queue' = Append(work_queue, i)
      /\ queue_item' = [queue_item EXCEPT ![Main] = None]
      /\ UNCHANGED <<walk, file_args, outcome>>
  BY DEF Enqueue, Thread, Busy
<1>2. i \in Item /\ HeldOnce
  BY <1>1 DEF QueueTypes, QueueInv, HeldOnce
<1>3. Held' = Held \ {i} /\ i \in Held /\ HeldOnce'
  BY <1>1, <1>2, LetGo
<1>4. i \notin Range(work_queue) /\ IsInjective(work_queue)
  BY <1>3 DEF QueueInv
<1>5. /\ IsInjective(work_queue')
      /\ Range(work_queue') = Range(work_queue) \cup {i}
  BY <1>1, <1>2, <1>4, AppendToInjective DEF QueueTypes
<1> HIDE DEF i
<1>6. QueueInv'
  BY <1>1, <1>3, <1>5 DEF QueueInv, HeldOnce
<1>7. InHand' = InHand
  BY <1>1, <1>3, <1>5 DEF InHand
<1>8. Counted' = Counted
  <2> DEFINE Unsearched ==
        {queue_item[t] : t \in {u \in Thread : pc[u] \in {"enqueue", "search"}}}
  <2>1. \A t \in Thread :
          pc'[t] = IF t = Main THEN "walk"
                   ELSE IF pc'[t] = "woken" /\ pc[t] = "waiting" THEN "woken"
                   ELSE pc[t]
    BY <1>1 DEF Enqueue, Signalled, Waiting, Wake, QueueTypes, Thread
  <2>2. \A t \in Thread : pc'[t] \in {"enqueue", "search"}
                            <=> t # Main /\ pc[t] \in {"enqueue", "search"}
    BY <2>1
  <2>3. i \in Unsearched
    BY <1>1 DEF i
  <2>4. \A t \in Thread : t # Main => queue_item'[t] = queue_item[t]
    BY <1>1 DEF QueueTypes
  <2>5. Unsearched' \cup {i} = Unsearched
    BY <1>1, <2>2, <2>3, <2>4 DEF i
  <2>6. HIDE DEF Unsearched
  <2> QED
    BY <1>1, <1>5, <2>5 DEF Counted, Unsearched
<1> QED
  BY <1>6, <1>7, <1>8

\* From the head of the queue to the hands of a worker.
LEMMA DequeueKeeps ==
  ASSUME QueueTypes, QueueInv, NEW w \in Worker, Dequeue(w)
  PROVE  QueueInv' /\ InHand' = InHand /\ Counted' = Counted
<1> DEFINE i == Head(work_queue)
<1>1. /\ w \in Thread /\ pc[w] \notin Busy
      /\ work_queue # <<>> /\ work_queue' = Tail(work_queue)
      /\ queue_item' = [queue_item EXCEPT ![w] = i]
      /\ pc' = [pc EXCEPT ![w] = "search"]
      /\ UNCHANGED <<walk, file_args, outcome>>
  BY DEF Dequeue, Thread, Busy
<1>2. i \in Item
  BY <1>1 DEF QueueTypes
<1>3. /\ IsInjective(work_queue') /\ i \in Range(work_queue)
      /\ Range(work_queue') = Range(work_queue) \ {i}
  BY <1>1, TailOfInjective DEF QueueTypes, QueueInv
<1> HIDE DEF i
<1>4. queue_item[w] \notin Item /\ i \notin Held /\ HeldOnce
  BY <1>1, <1>3 DEF QueueTypes, QueueInv, HeldOnce
<1>5. Held' = Held \cup {i} /\ HeldOnce'
  BY <1>1, <1>2, <1>4, HoldItem
<1>6. QueueInv'
  BY <1>1, <1>3, <1>5 DEF QueueInv, HeldOnce
<1>7. InHand' = InHand
  BY <1>1, <1>3, <1>5 DEF InHand
<1>8. Counted' = Counted
  <2> DEFINE Unsearched ==
        {queue_item[t] : t \in {u \in Thread : pc[u] \in {"enqueue", "search"}}}
  <2>1. Unsearched' = Unsearched \cup {i}
    BY <1>1 DEF QueueTypes, Busy
  <2> QED
    BY <1>1, <1>3, <2>1 DEF Counted
<1> QED
  BY <1>6, <1>7, <1>8

\* A thread lets go of a file: no other file is touched.
LEMMA ReleaseKeeps ==
  ASSUME QueueTypes, QueueInv, NEW t \in Thread, pc[t] \in Busy, Release(t),
         UNCHANGED <<work_queue, walk, file_args, outcome>>
  PROVE  /\ QueueInv'
         /\ queue_item[t] \in InHand /\ queue_item[t] \in Item
         /\ InHand' = InHand \ {queue_item[t]}
         /\ pc[t] \notin {"enqueue", "search"} => Counted' = Counted
         /\ pc[t] = "search" /\ outcome[queue_item[t]] \in {"nomatch", "match"} =>
              Counted' = Counted \cup {queue_item[t]}
         /\ pc[t] = "search" /\ outcome[queue_item[t]] \notin {"nomatch", "match"} =>
              Counted' = Counted
<1> DEFINE i == queue_item[t]
<1>1. /\ queue_item' = [queue_item EXCEPT ![t] = None]
      /\ \A u \in Thread : pc'[u] = IF u = t THEN Resume(t) ELSE pc[u]
      /\ Resume(t) \notin {"enqueue", "search"}
  BY DEF Release, Resume, QueueTypes
<1>2. i \in Item /\ HeldOnce
  BY DEF QueueTypes, QueueInv, HeldOnce
<1>3. Held' = Held \ {i} /\ i \in Held /\ HeldOnce'
  BY <1>1, <1>2, LetGo
<1>4. QueueInv'
  BY <1>3 DEF QueueInv, HeldOnce
<1>5. InHand' = InHand \ {i} /\ i \in InHand
  BY <1>3 DEF InHand, QueueInv
<1> DEFINE Unsearched ==
      {queue_item[u] : u \in {v \in Thread : pc[v] \in {"enqueue", "search"}}}
<1>6. \A u \in Thread : u # t => queue_item'[u] = queue_item[u]
  BY <1>1 DEF QueueTypes
<1>7. \A u \in Thread : pc'[u] \in {"enqueue", "search"}
                          <=> u # t /\ pc[u] \in {"enqueue", "search"}
  BY <1>1
<1>8. Unsearched' = Unsearched \ {i}
  <2>1. \A u \in Thread : u # t => queue_item[u] # i
    BY <1>2, WorkQueueAssumption DEF HeldOnce
  <2> QED
    BY <1>6, <1>7, <2>1
<1>9. /\ pc[t] \notin {"enqueue", "search"} => i \notin Unsearched
      /\ pc[t] = "search" => i \in Unsearched
  BY <1>2, WorkQueueAssumption DEF HeldOnce
<1>10. i \notin walk \cup file_args \cup Range(work_queue)
  BY <1>3 DEF QueueInv
<1>11. /\ Counted = {j \in Item : outcome[j] \in {"nomatch", "match"}}
                     \ (walk \cup file_args \cup Range(work_queue) \cup Unsearched)
       /\ Counted' = {j \in Item : outcome[j] \in {"nomatch", "match"}}
                     \ (walk \cup file_args \cup Range(work_queue) \cup Unsearched')
  BY DEF Counted
<1> HIDE DEF Unsearched, i
<1>12. /\ pc[t] \notin {"enqueue", "search"} => Counted' = Counted
       /\ pc[t] = "search" /\ outcome[i] \in {"nomatch", "match"} =>
            Counted' = Counted \cup {i}
       /\ pc[t] = "search" /\ outcome[i] \notin {"nomatch", "match"} =>
            Counted' = Counted
  BY <1>2, <1>8, <1>9, <1>10, <1>11
<1> QED
  BY <1>2, <1>4, <1>5, <1>12 DEF i

\* A file that search_file skips is neither counted nor a match.
LEMMA SkipFileKeeps ==
  ASSUME QueueTypes, QueueInv, NEW t \in Thread, SkipFile(t)
  PROVE  /\ QueueInv'
         /\ queue_item[t] \in InHand /\ queue_item[t] \notin Matching(outcome)
         /\ InHand' = InHand \ {queue_item[t]}
         /\ Counted' = Counted
<1>1. /\ pc[t] = "search" /\ pc[t] \in Busy /\ Release(t)
      /\ outcome[queue_item[t]] = "skipped"
      /\ UNCHANGED <<work_queue, walk, file_args, outcome>>
  BY DEF SkipFile, Busy
<1>2. queue_item[t] \notin Matching(outcome)
  BY <1>1 DEF Matching
<1>3. outcome[queue_item[t]] \notin {"nomatch", "match"}
  BY <1>1
<1> QED
  BY <1>1, <1>2, <1>3, ReleaseKeeps

\* search_buf adds the file to the totals, once, and keeps it if it matches.
LEMMA SearchBufKeeps ==
  ASSUME QueueTypes, QueueInv, NEW t \in Thread, SearchBuf(t)
  PROVE  /\ QueueInv'
         /\ CountsRight => CountsRight'
         /\ queue_item[t] \in InHand
         /\ IF outcome[queue_item[t]] = "match"
            THEN InHand' = InHand
            ELSE InHand' = InHand \ {queue_item[t]}
<1> DEFINE i == queue_item[t]
<1>1. /\ pc[t] = "search" /\ pc[t] \in Busy
      /\ outcome[i] \in {"nomatch", "match"}
      /\ UNCHANGED <<work_queue, walk, file_args, outcome>>
      /\ stats' = [total_files |-> stats.total_files + 1,
                   total_file_matches |->
                     stats.total_file_matches + (IF outcome[i] = "match" THEN 1 ELSE 0)]
  BY DEF SearchBuf, Busy
<1>2. i \in Item /\ i \in Held /\ HeldOnce
  BY <1>1, WorkQueueAssumption DEF QueueTypes, QueueInv, HeldOnce, Held
<1>3. i \notin Counted
  <2>1. i \in {queue_item[u] : u \in {v \in Thread : pc[v] \in {"enqueue", "search"}}}
    BY <1>1
  <2> QED
    BY <2>1 DEF Counted
<1>4. /\ QueueInv' /\ Counted' = Counted \cup {i}
      /\ IF outcome[i] = "match" THEN InHand' = InHand
         ELSE InHand' = InHand \ {i}
  <2>1. CASE outcome[i] = "match"
    <3>1. pc' = [pc EXCEPT ![t] = "report"] /\ UNCHANGED queue_item
      BY <2>1 DEF SearchBuf
    <3>2. UNCHANGED Held /\ QueueInv' /\ UNCHANGED InHand
      BY <1>1, <3>1 DEF Held, QueueInv, InHand
    <3> DEFINE Unsearched ==
          {queue_item[u] : u \in {v \in Thread : pc[v] \in {"enqueue", "search"}}}
    <3>3. \A u \in Thread : pc'[u] \in {"enqueue", "search"}
                              <=> u # t /\ pc[u] \in {"enqueue", "search"}
      BY <3>1 DEF QueueTypes
    <3>4. \A u \in Thread : u # t => queue_item[u] # i
      BY <1>2, WorkQueueAssumption DEF HeldOnce
    <3>5. Unsearched' = Unsearched \ {i}
      BY <3>1, <3>3, <3>4
    <3>6. i \in Unsearched
      BY <1>1
    <3>7. i \notin walk \cup file_args \cup Range(work_queue)
      BY <1>2 DEF QueueInv
    <3>8. /\ Counted = {j \in Item : outcome[j] \in {"nomatch", "match"}}
                \ (walk \cup file_args \cup Range(work_queue) \cup Unsearched)
          /\ Counted' = {j \in Item : outcome[j] \in {"nomatch", "match"}}
                \ (walk \cup file_args \cup Range(work_queue) \cup Unsearched')
      BY <1>1 DEF Counted
    <3> HIDE DEF Unsearched, i
    <3>9. Counted' = Counted \cup {i}
      BY <1>1, <1>2, <3>5, <3>6, <3>7, <3>8
    <3> QED
      BY <2>1, <3>2, <3>9
  <2>2. CASE outcome[i] # "match"
    <3>1. Release(t)
      BY <2>2 DEF SearchBuf
    <3> QED
      BY <1>1, <2>2, <3>1, ReleaseKeeps
  <2> QED
    BY <2>1, <2>2
<1>5. i \in InHand
  BY <1>2 DEF InHand
<1>6. ASSUME CountsRight
      PROVE  CountsRight'
  <2>1. /\ IsFiniteSet(Counted')
        /\ Cardinality(Counted') = Cardinality(Counted) + 1
    BY <1>3, <1>4, <1>6, FS_AddElement DEF CountsRight
  <2>2. IsFiniteSet(Counted \cap Matching(outcome))
    BY <1>6, FS_Subset DEF CountsRight
  <2>3. CASE outcome[i] = "match"
    <3>1. i \in Matching(outcome)
      BY <1>2, <2>3 DEF Matching
    <3>2. Counted' \cap Matching(outcome) = (Counted \cap Matching(outcome)) \cup {i}
      BY <1>4, <3>1
    <3>3. Cardinality(Counted' \cap Matching(outcome))
            = Cardinality(Counted \cap Matching(outcome)) + 1
      BY <1>3, <2>2, <3>2, FS_AddElement
    <3>4. Matching(outcome') = Matching(outcome)
      BY <1>1
    <3> QED
      BY <1>1, <1>6, <2>1, <2>3, <3>3, <3>4 DEF CountsRight
  <2>4. CASE outcome[i] # "match"
    <3>1. i \notin Matching(outcome)
      BY <2>4 DEF Matching
    <3>2. Counted' \cap Matching(outcome) = Counted \cap Matching(outcome)
      BY <1>4, <3>1
    <3>3. stats'.total_file_matches = stats.total_file_matches + 0
      BY <1>1, <2>4
    <3>4. Cardinality(Counted \cap Matching(outcome)) \in Nat
      BY <2>2, FS_CardinalityType
    <3>5. Matching(outcome') = Matching(outcome)
      BY <1>1
    <3> QED
      BY <1>1, <1>6, <2>1, <2>4, <3>2, <3>3, <3>4, <3>5 DEF CountsRight
  <2> QED
    BY <2>3, <2>4
<1> QED
  BY <1>4, <1>5, <1>6

\* A step that no file takes part in.
LEMMA NothingMoves ==
  ASSUME UNCHANGED <<work_queue, queue_item, walk, file_args, outcome>>,
         \A t \in Thread : pc'[t] \in {"enqueue", "search"}
                             <=> pc[t] \in {"enqueue", "search"}
  PROVE  /\ QueueInv => QueueInv'
         /\ InHand' = InHand /\ Counted' = Counted
         /\ CountsRight /\ UNCHANGED stats => CountsRight'
<1>1. Held' = Held
  BY DEF Held
<1>2. {u \in Thread : pc'[u] \in {"enqueue", "search"}}
        = {u \in Thread : pc[u] \in {"enqueue", "search"}}
  OBVIOUS
<1>3. Counted' = Counted
  BY <1>2 DEF Counted
<1> QED
  BY <1>1, <1>3 DEF QueueInv, InHand, CountsRight

\* A search begins: every file there is is still to be walked to.
LEMMA AllInHand ==
  ASSUME work_queue' = <<>>, \A t \in Thread : queue_item'[t] = None,
         NEW o \in [Item -> Outcome], outcome' = o,
         NEW args \in SUBSET Present(o),
         file_args' = args, walk' = Present(o) \ args
  PROVE  QueueInv' /\ InHand' = Present(o) /\ Counted' = {}
<1>1. Range(work_queue') = {} /\ IsInjective(work_queue') /\ Held' = {}
  BY DEF Range, IsInjective, Held
<1>2. QueueInv' /\ InHand' = Present(o)
  BY <1>1 DEF QueueInv, InHand
<1>3. {i \in Item : o[i] \in {"nomatch", "match"}} \subseteq Present(o)
  BY DEF Present
<1> QED
  BY <1>2, <1>3 DEF Counted

\* Nothing has been counted of a search that has just begun.
LEMMA NothingCounted ==
  ASSUME Counted = {}, stats = ZeroStats
  PROVE  CountsRight
<1>1. Counted \cap Matching(outcome) = {}
  OBVIOUS
<1>2. stats.total_files = 0 /\ stats.total_file_matches = 0
  BY DEF ZeroStats
<1> QED
  BY <1>1, <1>2, FS_EmptySet DEF CountsRight

=============================================================================
