----------------------------- MODULE MCDirWalk -----------------------------
(***************************************************************************)
(* DirWalk on trees r/{x, y}, r/x/{x, y}, r/x/x/{x, y} = r, a and b: the    *)
(* entries x are the subdirectories, the entries y files, pipes and links.  *)
(***************************************************************************)
EXTENDS DirWalk, TLC

CONSTANTS r, a, b, f, g, h, x, y, disk, usb

Dirs == {r, a, b}

Files == {f, g, h}   \* g is on the other device, h in b

Names == {x, y}

Devs == {disk, usb}

Plain(n) == [node |-> n, link |-> FALSE]

Link(n) == [node |-> n, link |-> TRUE]

\* The contents of r/y, r/x/y and r/x/x/y.
Ys ==
  [r : {Plain(f), Link(a), Link(b), Link(g)},
   a : {Plain(f), Link(r), Plain(Fifo)},
   b : {Plain(h), Link(a), Link(Missing), Link(r)}]

Entries(ys) ==
  (r :> (x :> Plain(a) @@ y :> ys.r)) @@
  (a :> (x :> Plain(b) @@ y :> ys.a)) @@
  (b :> (y :> ys.b))

NoRules == [d \in Dirs |-> {}]

MCFileSystems ==
  {[entry |-> Entries(ys),
    dev |-> [n \in Node |-> IF n = g \/ n \in mounted THEN usb ELSE disk],
    here |-> disk, ignore |-> rules, unreadable |-> closed, matching |-> {y}] :
     ys \in Ys, mounted \in {{}, {b, h}}, closed \in {{}, {a}, {b}},
     rules \in {NoRules, [NoRules EXCEPT ![a] = {y}], [NoRules EXCEPT ![r] = {x}]}}

\* follow_symlinks, one_dev and max_search_depth in every combination; the
\* other options one at a time.
MCOptions ==
  [follow_symlinks : BOOLEAN, one_dev : BOOLEAN, recurse_dirs : {TRUE},
   max_search_depth : {-1, 0, 1}, file_search : {"any"}]
  \cup
  [follow_symlinks : {TRUE}, one_dev : {FALSE}, recurse_dirs : {TRUE},
   max_search_depth : {-1}, file_search : {"G", "g"}]
  \cup
  [follow_symlinks : {TRUE}, one_dev : {FALSE}, recurse_dirs : {FALSE},
   max_search_depth : {-1}, file_search : {"any"}]

MCArguments ==
  {<<Plain(r)>>, <<Plain(a), Link(b)>>, <<Plain(f), Link(Missing), Plain(r)>>}

=============================================================================
