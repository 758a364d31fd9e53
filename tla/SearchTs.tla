------------------------------ MODULE SearchTs ------------------------------
(***************************************************************************)
(* ag_search_ts(): several client threads search through one lock,         *)
(* search_mtx, around ag_search().  ag_search() is what AgSearch models;   *)
(* here it is the accesses to the state every search shares (opts.query    *)
(* stands for it) and, with LIBAG_ONSEARCH_WORKERS, the starting and       *)
(* stopping of the workers, which initialize and destroy search_mtx too.   *)
(***************************************************************************)
EXTENDS Naturals, FiniteSets

CONSTANTS
  Client,            \* threads that call ag_search_ts()
  TsQuery,             \* what they search for
  None,
  WorkersBehavior    \* as in AgSearch

ASSUME SearchTsAssumption ==
  /\ None \notin Client \cup TsQuery
  /\ WorkersBehavior \in {"start", "onsearch"}

VARIABLES
  pc,
  search_mtx,   \* [live, owner]: between init and destroy, and who holds it
  workers,      \* whether workers # NULL
  query,        \* opts.query
  asked,        \* the query each client passed
  answer        \* the query its answer is for

ts_vars == <<pc, search_mtx, workers, query, asked, answer>>

\* The library is initialized; a static mutex is one that can be locked.
TsInit ==
  /\ pc = [c \in Client |-> "idle"]
  /\ search_mtx = [live |-> TRUE, owner |-> None]
  /\ workers = (WorkersBehavior = "start")
  /\ query = None
  /\ asked = [c \in Client |-> None]
  /\ answer = [c \in Client |-> None]

GoTo(c, place) == pc' = [pc EXCEPT ![c] = place]

\* workers is looked at before the lock is taken.
Call(c, q) ==
  /\ pc[c] = "idle"
  /\ workers \/ WorkersBehavior = "onsearch"
  /\ asked' = [asked EXCEPT ![c] = q]
  /\ answer' = [answer EXCEPT ![c] = None]
  /\ GoTo(c, "lock")
  /\ UNCHANGED <<search_mtx, workers, query>>

\* Fault: the lock is taken from its owner.
LockAnyway(c) ==
  /\ pc[c] = "lock"
  /\ search_mtx.live
  /\ search_mtx' = [search_mtx EXCEPT !.owner = c]
  /\ GoTo(c, "enter")
  /\ UNCHANGED <<workers, query, asked, answer>>

Lock(c) ==
  /\ pc[c] = "lock"
  /\ search_mtx.live /\ search_mtx.owner = None
  /\ search_mtx' = [search_mtx EXCEPT !.owner = c]
  /\ GoTo(c, "enter")
  /\ UNCHANGED <<workers, query, asked, answer>>

\* Locking a destroyed mutex is undefined; glibc returns EINVAL at once, and
\* the result is not looked at.
LockDestroyed(c) ==
  /\ pc[c] = "lock"
  /\ ~search_mtx.live
  /\ GoTo(c, "enter")
  /\ UNCHANGED <<search_mtx, workers, query, asked, answer>>

\* Fault: the lock covers the checks of ag_search() only.
EnterUnlocked(c) ==
  /\ pc[c] = "enter"
  /\ workers
  /\ search_mtx' = [search_mtx EXCEPT !.owner = None]
  /\ GoTo(c, "setup")
  /\ UNCHANGED <<workers, query, asked, answer>>

\* ag_search() finds workers.
EnterWithWorkers(c) ==
  /\ pc[c] = "enter"
  /\ workers
  /\ GoTo(c, "setup")
  /\ UNCHANGED <<search_mtx, workers, query, asked, answer>>

\* Or starts them: pthread_mutex_init() forgets who holds the lock.
EnterAndStart(c) ==
  /\ pc[c] = "enter"
  /\ ~workers
  /\ workers' = TRUE
  /\ search_mtx' = [live |-> TRUE, owner |-> None]
  /\ GoTo(c, "setup")
  /\ UNCHANGED <<query, asked, answer>>

SetQuery(c) ==
  /\ pc[c] = "setup"
  /\ query' = asked[c]
  /\ GoTo(c, "search")
  /\ UNCHANGED <<search_mtx, workers, asked, answer>>

\* Fault: the search starts over, the lock still held.
SearchAgain(c) ==
  /\ pc[c] = "search"
  /\ answer' = [answer EXCEPT ![c] = query]
  /\ query' = None
  /\ GoTo(c, "setup")
  /\ UNCHANGED <<search_mtx, workers, asked>>

\* The workers match against what opts.query is by now.
Search(c) ==
  /\ pc[c] = "search"
  /\ answer' = [answer EXCEPT ![c] = query]
  /\ query' = None
  /\ GoTo(c, IF WorkersBehavior = "onsearch" THEN "stop" ELSE "unlock")
  /\ UNCHANGED <<search_mtx, workers, asked>>

\* ag_stop_workers(): the mutex is destroyed while it is held.
Stop(c) ==
  /\ pc[c] = "stop"
  /\ workers' = FALSE
  /\ search_mtx' = IF workers THEN [live |-> FALSE, owner |-> None]
                   ELSE search_mtx
  /\ GoTo(c, "unlock")
  /\ UNCHANGED <<query, asked, answer>>

\* A default mutex does not check who unlocks it.
Unlock(c) ==
  /\ pc[c] = "unlock"
  /\ search_mtx' = [search_mtx EXCEPT !.owner = None]
  /\ GoTo(c, "idle")
  /\ UNCHANGED <<workers, query, asked, answer>>

Step(c) ==
  \/ Lock(c) \/ EnterWithWorkers(c) \/ SetQuery(c) \/ Search(c) \/ Unlock(c)

\* The steps only LIBAG_ONSEARCH_WORKERS leads to.
OnsearchStep(c) == LockDestroyed(c) \/ EnterAndStart(c) \/ Stop(c)

TsNext == \E c \in Client : Step(c) \/ \E q \in TsQuery : Call(c, q)

OnsearchNext == TsNext \/ \E c \in Client : OnsearchStep(c)

\* Threads run, and the lock is taken in the end by each that waits for it.
TsSpec ==
  /\ TsInit /\ [][TsNext]_ts_vars
  /\ \A c \in Client : WF_ts_vars(Step(c)) /\ SF_ts_vars(Lock(c))

OnsearchSpec == TsInit /\ [][OnsearchNext]_ts_vars

-----------------------------------------------------------------------------
(* Properties                                                               *)

\* The types of the variables.
TsTypeOK ==
  /\ pc \in [Client -> {"idle", "lock", "enter", "setup", "search", "stop",
                        "unlock"}]
  /\ search_mtx \in [live : BOOLEAN, owner : Client \cup {None}]
  /\ workers \in BOOLEAN
  /\ query \in TsQuery \cup {None}
  /\ asked \in [Client -> TsQuery \cup {None}]
  /\ \A c \in Client : pc[c] # "idle" => asked[c] \in TsQuery
  /\ answer \in [Client -> TsQuery \cup {None}]

InSearch(c) == pc[c] \in {"enter", "setup", "search", "stop", "unlock"}

\* "parallel calls to this function will not be parallel, but sequential"
\* (ag_search_ts.3 and libag.c:829): one client at a time is in ag_search().
Sequential ==
  \A c, d \in Client : InSearch(c) /\ InSearch(d) => c = d

\* However the calls overlap, each client gets the answer to its own query.
AnswersOwnQuery ==
  \A c \in Client : answer[c] # None => answer[c] = asked[c]

\* No client that waits for the lock is left out for ever.
EveryCallReturns ==
  \A c \in Client : pc[c] = "lock" ~> pc[c] = "idle"

=============================================================================
