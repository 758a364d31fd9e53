---------------------------- MODULE MCPrintFile ----------------------------
(***************************************************************************)
(* PrintFile with the output options that the runs tell apart.              *)
(***************************************************************************)
EXTENDS PrintFile

Plain == [before |-> 0, after |-> 0, only_matching |-> FALSE, vimgrep |-> FALSE,
          width |-> 0]

MCFormats ==
  {Plain,
   [Plain EXCEPT !.before = 1],
   [Plain EXCEPT !.after = 1],
   [Plain EXCEPT !.before = 2, !.after = 1],
   [Plain EXCEPT !.before = 1, !.after = 1],
   [Plain EXCEPT !.only_matching = TRUE],
   [Plain EXCEPT !.width = 1],
   [Plain EXCEPT !.vimgrep = TRUE]}
=============================================================================
