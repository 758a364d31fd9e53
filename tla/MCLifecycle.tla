---------------------------- MODULE MCLifecycle -----------------------------
(* Lifecycle with the clients that the runs tell apart.                     *)
EXTENDS Lifecycle

\* Whatever libag.h offers, settings out of range included.
AnyClient ==
  [behaviors |-> Behavior, queries |-> {"lower", "mixed", "Regex", "broken"},
   calls |-> Liberty, starts_fail |-> TRUE]

\* Literal queries, workers left to ag_init() and ag_finish().
PlainClient ==
  [behaviors |-> {"start"}, queries |-> {"lower", "mixed"},
   calls |-> {"init", "set_config", "get_stats", "finish"},
   starts_fail |-> FALSE]

\* Never ag_init(), and settings in range.
ConfiguredClient ==
  [behaviors |-> {"start", "manual"}, queries |-> {"lower", "regex"},
   calls |-> {"set_config", "workers", "get_stats", "finish"},
   starts_fail |-> FALSE]

\* Searches for one literal, with workers left to ag_search().
OnsearchClient ==
  [behaviors |-> {"onsearch"}, queries |-> {"lower"}, calls |-> {},
   starts_fail |-> FALSE]

Clients == [any |-> AnyClient, plain |-> PlainClient,
            configured |-> ConfiguredClient]

OnlyOnsearch == [onsearch |-> OnsearchClient]
=============================================================================
