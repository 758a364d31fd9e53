------------------------------ MODULE Lifecycle ------------------------------
(***************************************************************************)
(* The life of the library as one client sees it: ag_init(),               *)
(* ag_init_config(), ag_set_config(), ag_start_workers(),                  *)
(* ag_stop_workers(), ag_search(), ag_get_stats() and ag_finish() in any   *)
(* order the client's discipline lets it call them, and what becomes of    *)
(* the settings and of the memory that outlives a call.                    *)
(*                                                                         *)
(* The calls are sequential code, so each is an operator from the state of *)
(* the library to the state it leaves, and one action.  The threads are    *)
(* the subject of AgSearch; here the workers are there or not.             *)
(***************************************************************************)
EXTENDS Integers

CONSTANTS
  Discipline,  \* how each client uses the library
  NULL         \* no configuration

\* Workers are started by ag_init(), by the client or by each search.
Behavior == {"start", "manual", "onsearch"}

\* "lower" and "mixed" have no special character; "regex" and "Regex" do;
\* "broken" does not compile.
Query == {"lower", "mixed", "regex", "Regex", "broken"}

\* What a client may do beside ag_init_config() and ag_search().
Liberty == {"init", "set_config", "workers", "get_stats", "finish",
            "no_paths",      \* search without a path
            "bad_config"}    \* pass a setting that is out of range

\* For each client its workers_behavior, its queries, its liberties, and
\* whether a call inside ag_start_workers() may fail on it.
ASSUME LifecycleAssumption ==
  /\ DOMAIN Discipline # {}
  /\ \A c \in DOMAIN Discipline :
       /\ Discipline[c].behaviors \in (SUBSET Behavior) \ {{}}
       /\ Discipline[c].queries \in (SUBSET Query) \ {{}}
       /\ Discipline[c].calls \subseteq Liberty
       /\ Discipline[c].starts_fail \in BOOLEAN

VARIABLES
  client,   \* the client, the same all along
  lib       \* the library's static variables, and what the heap holds

vars == <<client, lib>>

is_regex(q)     == q \in {"regex", "Regex", "broken"}
is_lowercase(q) == q \in {"lower", "regex", "broken"}

\* The pointers that outlive a call: each is "null", "live" or "dangling".
Object == {"root_ignores", "find_skip_lookup", "re", "colors", "workers"}

\* enum case_behavior.
Casing == {"smart", "sensitive", "insensitive"}

\* struct ag_config, as far as a later call can tell; Zero is the static one.
Config == [literal : BOOLEAN, casing : Casing \cup {"invalid"},
           behavior : Behavior, stats : BOOLEAN]
Zero == [literal |-> FALSE, casing |-> "smart", behavior |-> "start",
         stats |-> FALSE]

\* A configuration can be told from none at all.
ASSUME NullAssumption == NULL \notin Config

NoSearch == [query |-> "none"]

Start ==
  [has_ag_init |-> FALSE,
   heap        |-> [o \in Object |-> "null"],
   config      |-> Zero,
   opts        |-> [literal |-> FALSE, casing |-> "smart", stats |-> FALSE],
   fault       |-> "none",     \* what went wrong for good; nothing follows
   rc          |-> 0,          \* what the last call returned
   called      |-> "nothing",  \* which call it was
   searched    |-> NoSearch,   \* how the last search was carried out
   fresh       |-> TRUE]       \* stats describe the latest search

Init ==
  /\ client \in DOMAIN Discipline
  /\ lib = Start

-----------------------------------------------------------------------------
(* Memory                                                                   *)

Hit(s, fault) == [s EXCEPT !.fault = IF @ = "none" THEN fault ELSE @]

\* free() leaves the pointer as it is.
Free(s, o) ==
  IF s.heap[o] = "dangling" THEN Hit(s, "double_free")
  ELSE IF s.heap[o] = "live" THEN [s EXCEPT !.heap[o] = "dangling"] ELSE s

Point(s, o, to) == [s EXCEPT !.heap[o] = to]

Return(s, rc) == [s EXCEPT !.rc = rc]

-----------------------------------------------------------------------------
(* options.c                                                                *)

\* Fault: the colours are allocated the first time only.
init_options_keeps_colors(s) ==
  [Point(Point(s, "re", "null"), "colors",
         IF s.heap["colors"] = "null" THEN "live" ELSE s.heap["colors"]) EXCEPT
     !.opts = [literal |-> FALSE, casing |-> "default", stats |-> FALSE]]

\* memset(&opts, 0), the defaults, and new copies of the colours.
init_options(s) ==
  [Point(Point(s, "re", "null"), "colors", "live") EXCEPT
     !.opts = [literal |-> FALSE, casing |-> "default", stats |-> FALSE]]

cleanup_options(s) == Free(Free(s, "colors"), "re")

-----------------------------------------------------------------------------
(* libag.c                                                                  *)

\* Fault: the statistics are switched on for ag_get_stats() alone.
ag_set_config_forgets_stats(s, c) ==
  IF c = NULL THEN Return(s, -1)
  ELSE LET s1 == [s EXCEPT !.opts.literal = c.literal] IN
       IF c.casing = "invalid" THEN Return(s1, -1)
       ELSE Return([s1 EXCEPT !.opts.casing = c.casing, !.config = c], 0)

\* The settings are applied one by one until one of them is refused.
ag_set_config(s, c) ==
  IF c = NULL THEN Return(s, -1)
  ELSE LET s1 == [s EXCEPT !.opts.literal = c.literal] IN
       IF c.casing = "invalid" THEN Return(s1, -1)
       ELSE Return([s1 EXCEPT !.opts.casing = c.casing,
                              !.opts.stats = c.stats,
                              !.config = c], 0)

\* Past the check, "workers" is set before the calls that may fail, and their
\* error paths free it.
ag_start_workers(s, fails) ==
  IF s.heap["workers"] # "null" THEN Return(s, -1)
  ELSE IF fails THEN Return(Point(s, "workers", "dangling"), -1)
  ELSE Return(Point(s, "workers", "live"), 0)

\* root_ignores goes with the workers.
ag_stop_workers(s) ==
  IF s.heap["workers"] = "null" THEN Return(s, -1)
  ELSE IF s.heap["workers"] = "dangling" THEN Hit(s, "use_after_free")
  ELSE Return(Point(Free(s, "root_ignores"), "workers", "null"), 0)

ag_finish(s) ==
  Return([ag_stop_workers(cleanup_options(s)) EXCEPT !.has_ag_init = FALSE], 0)

ag_init_config(s, c, fails) ==
  LET s1 == IF s.has_ag_init THEN ag_finish(s) ELSE s
      s2 == init_options(Point(s1, "root_ignores", "live"))
      s3 == ag_set_config(s2, c)   \* its result is not looked at
      s4 == ag_start_workers(s3, fails)
  IN IF s3.config.behavior # "start"
     THEN Return([s3 EXCEPT !.has_ag_init = TRUE], 0)
     ELSE IF s4.rc # 0 THEN s4
     ELSE [s4 EXCEPT !.has_ag_init = TRUE]

ag_init(s, fails) == Return(ag_init_config(s, NULL, fails), 0)

\* Fault: the casing of the search before is not restored.
setup_search_keeps_casing(s, q) ==
  LET casing  == IF s.opts.casing \in {"sensitive", "insensitive"}
                 THEN s.opts.casing
                 ELSE IF is_lowercase(q) THEN "insensitive" ELSE "sensitive"
      literal == s.opts.literal \/ ~is_regex(q)
      s1 == [s EXCEPT !.opts.casing = casing, !.opts.literal = literal,
                      !.searched = [query |-> q, literal |-> literal,
                                    casing |-> casing]]
  IN IF literal THEN Point(s1, "find_skip_lookup", "live")
     ELSE IF q = "broken" THEN Hit(s1, "exit")
     ELSE Point(s1, "re", "live")

\* The casing and literal flags this search goes by, and what they need.
setup_search(s, q) ==
  LET casing  == IF s.config.casing # "smart" THEN s.config.casing
                 ELSE IF is_lowercase(q) THEN "insensitive" ELSE "sensitive"
      literal == s.opts.literal \/ ~is_regex(q)
      s1 == [s EXCEPT !.opts.casing = casing, !.opts.literal = literal,
                      !.searched = [query |-> q, literal |-> literal,
                                    casing |-> casing]]
  IN IF literal THEN Point(s1, "find_skip_lookup", "live")
     ELSE IF q = "broken" THEN Hit(s1, "exit")   \* compile_study() dies
     ELSE Point(s1, "re", "live")

\* The walk starts from root_ignores.  With no path at all prepare_paths()
\* gives up half way, and its result is not looked at.
walk_paths(s, paths) ==
  IF ~paths THEN Hit(s, "uninitialized")
  ELSE IF s.heap["root_ignores"] = "dangling" THEN Hit(s, "use_after_free")
  ELSE s

\* Fault: the workers of this search are left running.
run_search_leaves_workers(s, q, paths) ==
  LET s2 == walk_paths(setup_search([s EXCEPT !.fresh = s.opts.stats], q), paths)
      s3 == IF s.heap["workers"] = "live" THEN s2 ELSE Hit(s2, "hang")
  IN Return(Free(s3, "find_skip_lookup"), 0)

\* From "Reset stats" to the cleanup.
run_search(s, q, paths) ==
  LET s1 == [s EXCEPT !.fresh = s.opts.stats]
      s2 == walk_paths(setup_search(s1, q), paths)
      \* Without a worker worker_done never opens.
      s3 == IF s.heap["workers"] = "live" THEN s2 ELSE Hit(s2, "hang")
      s4 == Return(Free(s3, "find_skip_lookup"), 0)
  IN IF s4.config.behavior = "onsearch" THEN ag_stop_workers(s4) ELSE s4

\* rc is 0 when the search was carried out, -1 when NULL is returned early.
ag_search(s, q, paths, fails) ==
  LET s0 == [s EXCEPT !.searched = NoSearch]
      s1 == ag_start_workers(s0, fails)
  IN IF ~s.has_ag_init THEN Return(s0, -1)
     ELSE IF s.heap["workers"] # "null" THEN run_search(s0, q, paths)
     ELSE IF s.config.behavior # "onsearch" THEN Return(s0, -1)
     ELSE IF s1.rc # 0 THEN s1
     ELSE run_search(s1, q, paths)

ag_get_stats(s) == Return(s, IF s.config.stats THEN 0 ELSE -1)

-----------------------------------------------------------------------------
(* The client                                                               *)

Does(call) == call \in Discipline[client].calls
Fails == IF Discipline[client].starts_fail THEN BOOLEAN ELSE {FALSE}

\* The settings it passes, and the queries it searches for.
Passed == {c \in Config : /\ c.behavior \in Discipline[client].behaviors
                          /\ c.casing = "invalid" => Does("bad_config")}
Asked == Discipline[client].queries

Called(name, s) ==
  /\ lib.fault = "none"
  /\ lib' = [s EXCEPT !.called = name]
  /\ UNCHANGED client

AgInit ==
  /\ Does("init")
  /\ \E fails \in Fails : Called("init", ag_init(lib, fails))

AgInitConfig ==
  \E c \in Passed, fails \in Fails :
    Called("init_config", ag_init_config(lib, c, fails))

\* The workers_behavior is settled at initialization; the rest may change.
AgSetConfig ==
  /\ Does("set_config")
  /\ lib.has_ag_init
  /\ \E c \in Passed :
       /\ c.behavior = lib.config.behavior
       /\ Called("set_config", ag_set_config(lib, c))

AgStartWorkers ==
  /\ Does("workers")
  /\ lib.has_ag_init
  /\ \E fails \in Fails : Called("start_workers", ag_start_workers(lib, fails))

AgStopWorkers ==
  /\ Does("workers")
  /\ lib.has_ag_init
  /\ Called("stop_workers", ag_stop_workers(lib))

AgSearch ==
  \E q \in Asked, fails \in Fails :
    Called("search", ag_search(lib, q, TRUE, fails))

AgSearchNoPaths ==
  /\ Does("no_paths")
  /\ \E q \in Asked, fails \in Fails :
       Called("search", ag_search(lib, q, FALSE, fails))

AgGetStats ==
  /\ Does("get_stats")
  /\ Called("get_stats", ag_get_stats(lib))

AgFinish ==
  /\ Does("finish")
  /\ lib.has_ag_init
  /\ Called("finish", ag_finish(lib))

\* After a fault there is nothing left to say.
Over == lib.fault # "none" /\ UNCHANGED vars

Next ==
  \/ AgInit \/ AgInitConfig \/ AgSetConfig \/ AgStartWorkers \/ AgStopWorkers
  \/ AgSearch \/ AgSearchNoPaths \/ AgGetStats \/ AgFinish
  \/ Over

Spec == Init /\ [][Next]_vars

-----------------------------------------------------------------------------
(* Properties                                                               *)

JustSearched == lib.called = "search" /\ lib.searched # NoSearch

\* Smart casing is decided anew for each query, from the settings in force:
\* setup_search() overwrites opts.casing, ag_search() restores it first.
CasingFollowsConfig ==
  JustSearched =>
    lib.searched.casing =
      IF lib.config.casing # "smart" THEN lib.config.casing
      ELSE IF is_lowercase(lib.searched.query) THEN "insensitive"
      ELSE "sensitive"

\* A search is carried out only by a library that is initialized and has
\* workers, and one that manages them itself leaves none behind
\* (the early returns and the end of ag_search).
WorkersAsConfigured ==
  JustSearched /\ lib.fault = "none" =>
    /\ lib.has_ag_init
    /\ lib.heap["workers"] =
         IF lib.config.behavior = "onsearch" THEN "null" ELSE "live"

\* After a search with stats enabled, stats are that search's: the flag
\* ag_get_stats() goes by and the one the search goes by do not drift apart,
\* for a client that neither calls ag_init(), which clears the one and leaves
\* the other, nor passes settings that are refused half way.
StatsOfLatestSearch ==
  ~Does("init") /\ ~Does("bad_config") /\ JustSearched /\ lib.config.stats =>
    lib.fresh

\* No call frees or uses what an earlier one has freed, in a process that
\* may "perform as many searches as you like" (README.md:27).
MemorySafe == lib.fault \notin {"double_free", "use_after_free"}

\* Literal queries, workers started by ag_init() and left to ag_finish(), and
\* nothing fails.
Plain ==
  /\ \A q \in Asked : ~is_regex(q)
  /\ Discipline[client].behaviors = {"start"} /\ ~Does("workers")
  /\ Fails = {FALSE}

\* A plain client, which may finish and start over, is safe from that: what
\* ag_finish() and the end of a search free, ag_init() and the next search
\* make anew before it is used.
PlainClientMemorySafe == Plain => MemorySafe

-----------------------------------------------------------------------------
(* Why they hold: the invariant their proofs rest on                        *)

Lib ==
  [has_ag_init : BOOLEAN,
   heap        : [Object -> {"null", "live", "dangling"}],
   config      : [literal : BOOLEAN, casing : Casing, behavior : Behavior,
                  stats : BOOLEAN],
   opts        : [literal : BOOLEAN, casing : Casing \cup {"default"},
                  stats : BOOLEAN],
   fault       : {"none", "double_free", "use_after_free", "exit", "hang",
                  "uninitialized"},
   rc          : {0, -1},
   called      : {"nothing", "init", "init_config", "set_config",
                  "start_workers", "stop_workers", "search", "get_stats",
                  "finish"},
   searched    : {NoSearch} \cup
                 [query : Query, literal : BOOLEAN, casing : Casing],
   fresh       : BOOLEAN]

TypeOK == client \in DOMAIN Discipline /\ lib \in Lib

\* The flag of the search and the one of ag_get_stats() agree.
FlagsInv == ~Does("init") /\ ~Does("bad_config") =>
              lib.opts.stats = lib.config.stats

\* The workers, the colours and root_ignores live exactly while the library is
\* initialized, and there is no compiled pattern.
InOrder(s) ==
  /\ s.config.behavior = "start"
  /\ s.heap["re"] = "null"
  /\ s.heap["workers"] = IF s.has_ag_init THEN "live" ELSE "null"
  /\ s.has_ag_init => /\ s.heap["colors"] = "live"
                      /\ s.heap["root_ignores"] = "live"

PlainInv == Plain => MemorySafe /\ InOrder(lib)

LifeInv ==
  /\ TypeOK /\ FlagsInv /\ PlainInv
  /\ CasingFollowsConfig /\ WorkersAsConfigured /\ StatsOfLatestSearch

=============================================================================
