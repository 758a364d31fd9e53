------------------------------ MODULE DirWalk ------------------------------
(***************************************************************************)
(* The walk over the path arguments: the loop of ag_search() and of main()  *)
(* over the paths, and search_dir of ag_src/search.c with its recursion,    *)
(* the hash of the directories it is in (symhash), ag_scandir and           *)
(* filename_filter.                                                        *)
(*                                                                         *)
(* The file system does not change during a walk, readdir() gives the       *)
(* entries of a directory in any order, and an ignore rule is the name it   *)
(* rejects: the rules of a directory hold in it and below it.  What the     *)
(* walk does to the output format (print_path) is left out.                 *)
(***************************************************************************)
EXTENDS Integers, Sequences, FiniteSets

CONSTANTS
  Dir, File,      \* inodes
  Missing,        \* what a dangling link points to
  Fifo,           \* a named pipe or a socket
  Name,           \* names of directory entries
  Dev,            \* devices
  FileSystems,    \* the file systems considered
  Options,        \* the settings considered
  Arguments       \* the sequences of path arguments considered

Node == Dir \cup File \cup {Missing, Fifo}

Entry == [node : Node, link : BOOLEAN]

\* A directory fs.entry[d] has an Entry for each of its names, and a file is on
\* the device of its directory; fs.ignore[d] are the names that d's ignore files
\* reject; opendir() fails on the unreadable directories; the arguments lie on
\* the device fs.here; file_search_regex (-G, -g) accepts the names fs.matching.
FileSystem(fs) ==
  /\ DOMAIN fs.entry = Dir
  /\ \A d \in Dir : /\ DOMAIN fs.entry[d] \subseteq Name
                    /\ \A x \in DOMAIN fs.entry[d] :
                         LET e == fs.entry[d][x] IN
                           /\ e \in Entry
                           /\ e.link \/ e.node \in Dir \/ fs.dev[e.node] = fs.dev[d]
  /\ fs.dev \in [Node -> Dev]
  /\ fs.here \in Dev
  /\ fs.ignore \in [Dir -> SUBSET Name]
  /\ fs.unreadable \subseteq Dir
  /\ fs.matching \subseteq Name

Settings == [follow_symlinks : BOOLEAN, one_dev : BOOLEAN,
             recurse_dirs : BOOLEAN, max_search_depth : Nat \cup {-1},
             file_search : {"any", "G", "g"}]

ASSUME DirWalkAssumption ==
  /\ IsFiniteSet(Dir)
  /\ Dir \cap (File \cup {Missing, Fifo}) = {}
  /\ \A fs \in FileSystems : FileSystem(fs)
  /\ Options \subseteq Settings
  /\ Arguments \subseteq Seq(Entry)

VARIABLES
  fs, opts, paths,   \* the same all along
  next_path,         \* the argument the loop over the paths has come to
  symhash,           \* the directories check_symloop_enter has recorded
  stack,             \* the calls of search_dir in progress, outermost first
  queued,            \* the paths handed to the work queue
  listed,            \* the paths printed by the walking thread (-g)
  searched           \* the arguments searched by the walking thread

given == <<fs, opts, paths>>
found == <<queued, listed, searched>>
vars == <<given, next_path, symhash, stack, found>>

Path == [arg : Nat, names : Seq(Name)]

\* A call of search_dir in its loop: rules is what its chain of struct ignores
\* rejects, todo the entries of dir_list that are left.
Frame == [dir : Dir, path : Path, rules : SUBSET Name, todo : SUBSET Name]

-----------------------------------------------------------------------------
(* Helpers                                                                  *)

Top == stack[Len(stack)]

depth == Len(stack) - 1

is_directory(e) == e.node \in Dir

\* st_dev of lstat(): a link is on the device of the directory it lies in.
st_dev(e, here) == IF e.link THEN here ELSE fs.dev[e.node]

original_dev(k) == st_dev(paths[k], fs.here)

filename_filter(e, x, rules) ==
  /\ opts.follow_symlinks \/ ~e.link
  /\ e.link \/ e.node # Fifo
  /\ x \notin rules

ag_scandir(d, rules) ==
  {x \in DOMAIN fs.entry[d] : filename_filter(fs.entry[d][x], x, rules)}

\* Fault: one level more.
TooDeepByOne(n) == opts.max_search_depth # -1 /\ n > opts.max_search_depth

TooDeep(n) == opts.max_search_depth # -1 /\ n >= opts.max_search_depth

\* What the loop passes over: what is on another device, directories that are
\* too deep or not to be entered, and files file_search_regex rejects.
Skipped(x) ==
  LET e == fs.entry[Top.dir][x] IN
    \/ opts.one_dev /\ st_dev(e, fs.dev[Top.dir]) # original_dev(Top.path.arg)
    \/ is_directory(e) /\ (~opts.recurse_dirs \/ TooDeep(depth))
    \/ ~is_directory(e) /\ opts.file_search # "any" /\ x \notin fs.matching

-----------------------------------------------------------------------------
Init ==
  /\ fs \in FileSystems /\ opts \in Options /\ paths \in Arguments
  /\ next_path = 1
  /\ symhash = {}
  /\ stack = <<>>
  /\ queued = {}
  /\ listed = {}
  /\ searched = {}

\* Not while the walk is inside that directory.
check_symloop_enter(d) == d \notin symhash

\* Fault: the directory stays.
check_symloop_leave_keeps(d) == UNCHANGED symhash

check_symloop_leave(d) == symhash' = symhash \ {d}

\* A call of search_dir from the stack "callers", when it reaches its loop: the
\* directory is no loop and can be opened.
Reads(callers, d, path, rules) ==
  /\ d \in Dir \ fs.unreadable
  /\ check_symloop_enter(d)
  /\ symhash' = symhash \cup {d}
  /\ stack' = Append(callers, [dir |-> d, path |-> path,
                               rules |-> rules \cup fs.ignore[d],
                               todo |-> ag_scandir(d, rules \cup fs.ignore[d])])

\* When it does not: it returns with symhash as it was.
ReturnsAtOnce(callers, d) ==
  /\ d \in fs.unreadable \/ ~check_symloop_enter(d)
  /\ stack' = callers
  /\ UNCHANGED symhash

-----------------------------------------------------------------------------
(* The loop over the paths                                                  *)

\* symhash = NULL, a new struct ignores under root_ignores (which has no rules
\* unless the command line gives some), and search_dir() at depth 0.
SearchPath ==
  /\ stack = <<>>
  /\ next_path \in DOMAIN paths
  /\ Reads(<<>>, paths[next_path].node, [arg |-> next_path, names |-> <<>>], {})
  /\ UNCHANGED <<given, next_path, found>>

\* opendir() fails: a file is searched on the spot, anything else is nothing.
SearchNoDirectory ==
  LET node == paths[next_path].node IN
    /\ stack = <<>>
    /\ next_path \in DOMAIN paths
    /\ node \notin Dir \ fs.unreadable
    /\ searched' = IF node \in File \cup {Fifo} THEN searched \cup {next_path}
                   ELSE searched
    /\ next_path' = next_path + 1
    /\ UNCHANGED <<given, symhash, stack, queued, listed>>

-----------------------------------------------------------------------------
(* The loop of search_dir over the entries                                  *)

\* The stack when the innermost loop is past entry x.
Past(x) == [stack EXCEPT ![Len(stack)].todo = @ \ {x}]

PathOf(x) == [Top.path EXCEPT !.names = Append(@, x)]

\* Fault: the loop does not move on.
SkipEntryAgain(x) ==
  /\ x \in Top.todo
  /\ Skipped(x)
  /\ UNCHANGED vars

SkipEntry(x) ==
  /\ x \in Top.todo
  /\ Skipped(x)
  /\ stack' = Past(x)
  /\ UNCHANGED <<given, next_path, symhash, found>>

\* Queued for the workers (WorkQueue has the lock and the signal), or with -g
\* printed, which sets match_found.
FoundFile(x) ==
  /\ x \in Top.todo
  /\ ~Skipped(x)
  /\ ~is_directory(fs.entry[Top.dir][x])
  /\ IF opts.file_search = "g"
     THEN listed' = listed \cup {PathOf(x)} /\ UNCHANGED queued
     ELSE queued' = queued \cup {PathOf(x)} /\ UNCHANGED listed
  /\ stack' = Past(x)
  /\ UNCHANGED <<given, next_path, symhash, searched>>

\* The recursive call, with a child of the struct ignores.
SearchSubdir(x) ==
  LET e == fs.entry[Top.dir][x] IN
    /\ x \in Top.todo
    /\ ~Skipped(x)
    /\ is_directory(e)
    /\ \/ Reads(Past(x), e.node, PathOf(x), Top.rules)
       \/ ReturnsAtOnce(Past(x), e.node)
    /\ UNCHANGED <<given, next_path, found>>

\* Fault: every return goes on to the next argument.
LeaveDirNextPath ==
  /\ Top.todo = {}
  /\ check_symloop_leave(Top.dir)
  /\ stack' = SubSeq(stack, 1, Len(stack) - 1)
  /\ next_path' = next_path + 1
  /\ UNCHANGED <<given, found>>

\* The loop is over: back to the caller.
LeaveDir ==
  /\ Top.todo = {}
  /\ check_symloop_leave(Top.dir)
  /\ stack' = SubSeq(stack, 1, Len(stack) - 1)
  /\ next_path' = IF Len(stack) = 1 THEN next_path + 1 ELSE next_path
  /\ UNCHANGED <<given, found>>

search_dir ==
  /\ stack # <<>>
  /\ \/ \E x \in Name : SkipEntry(x) \/ FoundFile(x) \/ SearchSubdir(x)
     \/ LeaveDir

Walked == stack = <<>> /\ next_path \notin DOMAIN paths

Next == SearchPath \/ SearchNoDirectory \/ search_dir

\* The walk is sequential code: it goes on while it can.
Spec == Init /\ [][Next]_vars /\ WF_vars(Next)

-----------------------------------------------------------------------------
(* Properties                                                               *)

\* The types of the variables.
TypeOK ==
  /\ FileSystem(fs) /\ opts \in Settings /\ paths \in Seq(Entry)
  /\ next_path \in 1..(Len(paths) + 1)
  /\ symhash \in SUBSET Dir
  /\ stack \in Seq(Frame)
  /\ queued \in SUBSET Path
  /\ listed \in SUBSET Path
  /\ searched \in SUBSET DOMAIN paths

\* symhash holds the directories of the calls in progress and no other, and
\* no directory is in progress twice: each way out of search_dir takes out what
\* the way in has put in, so the next argument starts with an empty hash
\* although "symhash = NULL" frees nothing.
SymhashIsStack ==
  /\ symhash = {stack[i].dir : i \in DOMAIN stack}
  /\ \A i, j \in DOMAIN stack : stack[i].dir = stack[j].dir => i = j

\* The node that names lead to from argument k, after each number of names.
Route(k, names) ==
  LET node[i \in 0..Len(names)] ==
        IF i = 0 THEN paths[k].node
        ELSE LET d == node[i - 1] IN
             IF d \in Dir /\ names[i] \in DOMAIN fs.entry[d]
             THEN fs.entry[d][names[i]].node ELSE Missing
  IN  node

\* What a path must be to be found, said of the path as a whole: it leads
\* through distinct readable directories, each of its names is there and is
\* rejected by no rule of the directories above it, links and other devices are
\* on it as the options allow, it is no deeper than max_search_depth, and it
\* ends at something that is no directory.
ToBeFound(p) ==
  LET names == p.names
      n == Len(names)
      node == Route(p.arg, names)
      entry(i) == fs.entry[node[i - 1]][names[i]]
  IN  /\ \A i \in 1..n :
           /\ node[i - 1] \in Dir \ fs.unreadable
           /\ names[i] \in DOMAIN fs.entry[node[i - 1]]
           /\ \A j \in 1..i : names[i] \notin fs.ignore[node[j - 1]]
           /\ \A j \in 1..(i - 1) : node[j - 1] # node[i - 1]
           /\ entry(i).link => opts.follow_symlinks
           /\ opts.one_dev =>
                LET here == fs.dev[IF entry(i).link THEN node[i - 1] ELSE node[i]]
                IN  here = original_dev(p.arg)
      /\ n > 1 => opts.recurse_dirs
      /\ opts.max_search_depth # -1 => n - 1 <= opts.max_search_depth
      /\ node[n] \notin Dir
      /\ node[n] = Fifo => entry(n).link
      /\ opts.file_search = "any" \/ names[n] \in fs.matching

\* A path of more names than there are directories meets one of them again: one
\* name more than that makes the set large enough.
Candidates ==
  [arg : DOMAIN paths,
   names : UNION {[1..n -> Name] : n \in 1..(Cardinality(Dir) + 1)}]

\* Whatever the order of the entries and the links between the directories, the
\* walk has found at its end exactly the paths the options ask for: a loop, an
\* unreadable directory or a rule met on one way leaves out nothing that is
\* reached on another way.
FoundAsAsked ==
  Walked => IF opts.file_search = "g"
            THEN queued = {} /\ listed = {p \in Candidates : ToBeFound(p)}
            ELSE listed = {} /\ queued = {p \in Candidates : ToBeFound(p)}

\* The walk ends, with links to directories above it or not: search_dir comes
\* back from every call and the loop over the paths to its end.
WalkEnds == <>Walked

-----------------------------------------------------------------------------
(* Why they hold: the invariant their proofs rest on                        *)

\* Skipped, of the k-th call in progress.
SkippedAt(k, x) ==
  LET e == fs.entry[stack[k].dir][x] IN
    \/ opts.one_dev /\ st_dev(e, fs.dev[stack[k].dir]) # original_dev(next_path)
    \/ is_directory(e) /\ (~opts.recurse_dirs \/ TooDeep(k - 1))
    \/ ~is_directory(e) /\ opts.file_search # "any" /\ x \notin fs.matching

\* Each call in progress is for a directory the options let the walk into, from
\* the one before it by the name its path ends in.
DescentInv ==
  /\ stack # <<>> => /\ next_path \in DOMAIN paths
                     /\ stack[1].dir = paths[next_path].node
  /\ \A k \in DOMAIN stack :
       /\ stack[k].dir \in Dir \ fs.unreadable
       /\ stack[k].path.arg = next_path
       /\ Len(stack[k].path.names) = k - 1
       /\ \A j \in 1..(k - 1) :
            stack[k].path.names[j] = stack[j + 1].path.names[j]
       /\ stack[k].rules = UNION {fs.ignore[stack[j].dir] : j \in 1..k}
       /\ stack[k].todo \subseteq ag_scandir(stack[k].dir, stack[k].rules)
  /\ \A k \in 1..(Len(stack) - 1) :
       LET name == stack[k + 1].path.names[k] IN
         /\ name \in ag_scandir(stack[k].dir, stack[k].rules)
         /\ stack[k + 1].dir = fs.entry[stack[k].dir][name].node
         /\ ~SkippedAt(k, name)

\* What is found is to be found, and is where file_search says.
FoundInv ==
  /\ queued \cup listed \subseteq {p \in Candidates : ToBeFound(p)}
  /\ IF opts.file_search = "g" THEN queued = {} ELSE listed = {}

\* The path goes on from a call in progress by an entry that is still left.
Ahead(p) ==
  \E k \in DOMAIN stack :
    /\ k <= Len(p.names)
    /\ \A j \in 1..(k - 1) : p.names[j] = stack[k].path.names[j]
    /\ p.names[k] \in stack[k].todo

\* What is to be found of the arguments so far has been found or lies ahead.
AheadInv ==
  \A p \in Candidates :
    ToBeFound(p) =>
      /\ p.arg < next_path => p \in queued \cup listed
      /\ p.arg = next_path /\ stack # <<>> => p \in queued \cup listed \/ Ahead(p)

WalkInv == TypeOK /\ SymhashIsStack /\ DescentInv /\ FoundInv /\ AheadInv
=============================================================================
