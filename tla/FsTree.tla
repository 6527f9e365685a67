-------------------------------- MODULE FsTree --------------------------------
(***************************************************************************)
(* The directory calls of src/fs.c: mkdir_all, remove_dir with and without *)
(* force, and the iterator under it, made by several processes on one tree *)
(* of directories, files and symbolic links.  Every system call is a step, *)
(* so that the tree can change between a check and the use of its result.  *)
(*                                                                         *)
(* A path is the sequence of its components; repeated and trailing         *)
(* separators add none.  Links are followed by stat and opendir, except    *)
(* that unlink, rmdir and mkdir do not follow the last component.  What a  *)
(* link holds is taken from the root on, and may lead through more links.  *)
(***************************************************************************)
EXTENDS Integers, Sequences, FiniteSets, SequencesExt

CONSTANTS
  Procs,
  MaxLen,       \* components of the longest path below CPR_FS_PATH_MAX
  MaxLinks,     \* how deep links may lead through links; a link that takes
                \* more leads nowhere (ELOOP)
  Trees,        \* the trees a behaviour may begin with
  MkdirPaths,   \* arguments of mkdir_all
  RemovePaths,  \* arguments of remove_dir
  Faults,       \* system calls that may fail for no reason in the tree
  Calls         \* bound: calls per process

IsSequence(s) == s \in Seq(Range(s))

Entries(t) == t.dirs \cup t.files \cup DOMAIN t.links

\* Everything but the root is in a directory, and nothing is two things.
IsTree(t) ==
  /\ <<>> \in t.dirs
  /\ \A q \in Entries(t) : IsSequence(q) /\ (q # <<>> => Front(q) \in t.dirs)
  /\ t.dirs \cap (t.files \cup DOMAIN t.links) = {} /\ t.files \cap DOMAIN t.links = {}
  /\ \A q \in DOMAIN t.links : IsSequence(t.links[q])
  /\ t = [dirs |-> t.dirs, files |-> t.files, links |-> [q \in DOMAIN t.links |-> t.links[q]]]

ASSUME FsTreeAssumption ==
  /\ MaxLen \in Nat \ {0} /\ MaxLinks \in Nat /\ Calls \in Nat
  /\ Faults \subseteq {"opendir", "readdir"}
  /\ \A t \in Trees : IsTree(t)
  /\ \A path \in MkdirPaths : IsSequence(path)
  /\ \A path \in RemovePaths : IsSequence(path) /\ path # <<>>

VARIABLES
  tree,      \* [dirs, files: sets of paths, links: path -> path]
  call,      \* per process: its current or last call, [op, path]
  pc,
  at,        \* mkdir_all: how many components tmp holds
  child,     \* rmdir_force: the path it handles next
  frames,    \* rmdir_force: its activations, each a path and the iterator's
             \* entries not yet returned
  handles,   \* iterators allocated and not freed
  ok,        \* what the last call returned
  calls,     \* calls begun, for the bound
  start      \* the tree when the call began; Unknown once another process
             \* has changed it or a fault has hit the call

local == <<call, pc, at, child, frames, handles, ok>>
vars == <<tree, local, calls, start>>

Unknown == [dirs |-> {}, files |-> {}, links |-> <<>>]

NoCall == [op |-> "none", path |-> <<>>]

-----------------------------------------------------------------------------
(* The file system. *)

\* The walk along a path when the links in L lead where g says.
Go(L, g, q) == IF q \in L THEN g[q] ELSE q
Through(L, g, p) == FoldLeft(LAMBDA dir, name : Go(L, g, Append(dir, name)), <<>>, p)

\* Where the links lead in the end; to themselves, which are no directories,
\* when that is more than MaxLinks deep.
Ends(links) ==
  LET ends[n \in 0 .. MaxLinks] ==
        [q \in DOMAIN links |->
           IF n = 0 THEN q ELSE Through(DOMAIN links, ends[n - 1], links[q])]
  IN  ends[MaxLinks]

Follow(t, p) == Go(DOMAIN t.links, Ends(t.links), p)

\* What a path names, every link followed.
Resolve(t, p) == Through(DOMAIN t.links, Ends(t.links), p)

\* What it names when the last component is not followed.
Itself(t, p) == Append(Resolve(t, Front(p)), Last(p))

Below(t, d) == {p \in Entries(t) : p # d /\ IsPrefix(d, p)}

\* stat() and S_ISDIR, as in cpr_path_is_dir.
is_dir(t, p) == Resolve(t, p) \in t.dirs

CanMkdir(t, p) == LET e == Itself(t, p) IN e \notin Entries(t) /\ Front(e) \in t.dirs
mkdir(t, p) == [t EXCEPT !.dirs = @ \cup {Itself(t, p)}]

CanUnlink(t, p) == Itself(t, p) \in t.files \cup DOMAIN t.links
unlink(t, p) ==
  [t EXCEPT !.files = @ \ {Itself(t, p)},
            !.links = [q \in DOMAIN @ \ {Itself(t, p)} |-> @[q]]]

CanRmdir(t, p) == Itself(t, p) \in t.dirs /\ Below(t, Itself(t, p)) = {}
rmdir(t, p) == [t EXCEPT !.dirs = @ \ {Itself(t, p)}]

\* The directory's entries as readdir returns them, with d_type.
Listing(t, d) ==
  {[name |-> Last(p), type |-> IF p \in t.dirs THEN "dir"
                               ELSE IF p \in t.files THEN "file" ELSE "link"] :
     p \in {q \in Below(t, d) : Len(q) = Len(d) + 1}}

\* next_dir's entry type: d_type when it says DIR or REG, else what fstatat
\* finds behind the name.
IsDirEntry(t, path, entry) ==
  \/ entry.type = "dir"
  \/ entry.type = "link" /\ is_dir(t, Append(path, entry.name))

-----------------------------------------------------------------------------
Init ==
  /\ tree \in Trees
  /\ call = [p \in Procs |-> NoCall] /\ pc = [p \in Procs |-> "idle"]
  /\ at = [p \in Procs |-> 0] /\ child = [p \in Procs |-> <<>>]
  /\ frames = [p \in Procs |-> <<>>] /\ handles = [p \in Procs |-> 0]
  /\ ok = [p \in Procs |-> TRUE]
  /\ calls = [p \in Procs |-> 0] /\ start = [p \in Procs |-> Unknown]

Goto(p, place) == pc' = [pc EXCEPT ![p] = place]

Return(p, result) ==
  /\ Goto(p, "idle") /\ ok' = [ok EXCEPT ![p] = result]

Replace(p, t) ==
  /\ tree' = t
  /\ start' = [q \in Procs |-> IF q # p /\ t # tree THEN Unknown ELSE start[q]]

Fault(p) == start' = [start EXCEPT ![p] = Unknown]

Begin(p, op, path) ==
  /\ pc[p] = "idle" /\ calls[p] < Calls
  /\ calls' = [calls EXCEPT ![p] = @ + 1]
  /\ call' = [call EXCEPT ![p] = [op |-> op, path |-> path]]
  /\ start' = [start EXCEPT ![p] = tree]
  /\ UNCHANGED tree

-----------------------------------------------------------------------------
(* cpr_mkdir_all: a check and, if it fails, a mkdir for each component. *)

mkdir_all(p, path) ==
  /\ Begin(p, "mkdir_all", path)
  /\ IF Len(path) \in 1 .. MaxLen
     THEN Goto(p, "check") /\ at' = [at EXCEPT ![p] = 1] /\ UNCHANGED ok
     ELSE Return(p, FALSE) /\ UNCHANGED at
  /\ UNCHANGED <<child, frames, handles>>

tmp(p) == SubSeq(call[p].path, 1, at[p])

Bug_NextComponent(p) ==  \* mutant: one component too many
  IF at[p] > Len(call[p].path)
  THEN Return(p, TRUE) /\ at' = [at EXCEPT ![p] = 0]
  ELSE Goto(p, "check") /\ at' = [at EXCEPT ![p] = @ + 1] /\ UNCHANGED ok

NextComponent(p) ==
  IF at[p] = Len(call[p].path)
  THEN Return(p, TRUE) /\ at' = [at EXCEPT ![p] = 0]
  ELSE Goto(p, "check") /\ at' = [at EXCEPT ![p] = @ + 1] /\ UNCHANGED ok

check(p) ==
  /\ pc[p] = "check"
  /\ IF is_dir(tree, tmp(p)) THEN NextComponent(p)
     ELSE Goto(p, "mkdir") /\ UNCHANGED <<at, ok>>
  /\ UNCHANGED <<tree, call, calls, child, frames, handles, start>>

Bug_make(p) ==  \* mutant: EEXIST is taken for success, whatever is there
  /\ pc[p] = "mkdir"
  /\ IF CanMkdir(tree, tmp(p))
     THEN Replace(p, mkdir(tree, tmp(p))) /\ NextComponent(p)
     ELSE IF Itself(tree, tmp(p)) \in Entries(tree)
     THEN NextComponent(p) /\ UNCHANGED <<tree, start>>
     ELSE /\ Return(p, FALSE) /\ at' = [at EXCEPT ![p] = 0]
          /\ UNCHANGED <<tree, start>>
  /\ UNCHANGED <<call, calls, child, frames, handles>>

make(p) ==
  /\ pc[p] = "mkdir"
  /\ IF CanMkdir(tree, tmp(p))
     THEN Replace(p, mkdir(tree, tmp(p))) /\ NextComponent(p)
     ELSE /\ Return(p, FALSE) /\ at' = [at EXCEPT ![p] = 0]
          /\ UNCHANGED <<tree, start>>
  /\ UNCHANGED <<call, calls, child, frames, handles>>

-----------------------------------------------------------------------------
(* cpr_remove_dir and cpr__rmdir_force *)

Top(p) == Last(frames[p])

remove_dir(p, path, force) ==
  /\ Begin(p, IF force THEN "remove_dir_force" ELSE "remove_dir", path)
  /\ child' = [child EXCEPT ![p] = IF force THEN path ELSE <<>>]
  /\ Goto(p, IF force THEN "open" ELSE "rmdir")
  /\ UNCHANGED <<at, frames, handles, ok>>

\* The innermost activation is left; its caller, if any, returns too (Fail)
\* or goes on with its next entry.
Leave(p, result) ==
  /\ frames' = [frames EXCEPT ![p] = IF @ = <<>> THEN @ ELSE Front(@)]
  /\ IF Len(frames[p]) <= 1 THEN Return(p, result)
     ELSE Goto(p, IF result THEN "next" ELSE "unwind") /\ UNCHANGED ok

\* An activation that failed before it had an iterator.
FailToOpen(p) ==
  IF frames[p] = <<>> THEN Return(p, FALSE)
  ELSE Goto(p, "unwind") /\ UNCHANGED ok

open_dir(p) ==
  /\ pc[p] = "open"
  /\ IF is_dir(tree, child[p])
     THEN /\ frames' = [frames EXCEPT ![p] =
                 Append(@, [path |-> child[p],
                            left |-> Listing(tree, Resolve(tree, child[p]))])]
          /\ handles' = [handles EXCEPT ![p] = @ + 1]
          /\ Goto(p, "next") /\ UNCHANGED ok
     ELSE FailToOpen(p) /\ UNCHANGED <<frames, handles>>
  /\ child' = [child EXCEPT ![p] = <<>>]
  /\ UNCHANGED <<tree, call, calls, at, start>>

open_dir_fault(p) ==
  /\ "opendir" \in Faults /\ pc[p] = "open"
  /\ FailToOpen(p) /\ Fault(p)
  /\ child' = [child EXCEPT ![p] = <<>>]
  /\ UNCHANGED <<tree, call, calls, at, frames, handles>>

\* The next entry, its path joined; a path too long ends the call.
next_dir(p) ==
  /\ pc[p] = "next"
  /\ \E entry \in Top(p).left :
       LET path == Append(Top(p).path, entry.name) IN
         IF Len(path) > MaxLen
         THEN Goto(p, "unwind") /\ UNCHANGED <<frames, child>>
         ELSE /\ frames' = [frames EXCEPT ![p][Len(frames[p])].left = @ \ {entry}]
              /\ child' = [child EXCEPT ![p] = path]
              /\ Goto(p, IF IsDirEntry(tree, Top(p).path, entry) THEN "open" ELSE "unlink")
  /\ UNCHANGED <<tree, call, calls, at, handles, ok, start>>

close_dir(p) == handles' = [handles EXCEPT ![p] = @ - 1]

end_of_dir(p) ==
  /\ pc[p] = "next" /\ Top(p).left = {}
  /\ close_dir(p) /\ Goto(p, "rmdir")
  /\ UNCHANGED <<tree, call, calls, at, child, frames, ok, start>>

\* readdir fails: next_dir cannot tell it from the end.
read_dir_fault(p) ==
  /\ "readdir" \in Faults /\ pc[p] = "next" /\ Top(p).left # {}
  /\ close_dir(p) /\ Goto(p, "rmdir") /\ Fault(p)
  /\ UNCHANGED <<tree, call, calls, at, child, frames, ok>>

remove_file(p) ==
  /\ pc[p] = "unlink"
  /\ IF CanUnlink(tree, child[p])
     THEN Replace(p, unlink(tree, child[p])) /\ Goto(p, "next")
     ELSE Goto(p, "unwind") /\ UNCHANGED <<tree, start>>
  /\ child' = [child EXCEPT ![p] = <<>>]
  /\ UNCHANGED <<call, calls, at, frames, handles, ok>>

\* Mutant: a directory that is not yet empty is listed again.
Bug_remove_empty(p) ==
  LET path == IF frames[p] = <<>> THEN call[p].path ELSE Top(p).path IN
  /\ pc[p] = "rmdir"
  /\ IF CanRmdir(tree, path)
     THEN Replace(p, rmdir(tree, path)) /\ Leave(p, TRUE) /\ UNCHANGED child
     ELSE /\ Goto(p, "open") /\ child' = [child EXCEPT ![p] = path]
          /\ frames' = [frames EXCEPT ![p] = IF @ = <<>> THEN @ ELSE Front(@)]
          /\ UNCHANGED <<tree, start, ok>>
  /\ UNCHANGED <<call, calls, at, handles>>

\* cpr__rmdir, of the activation's path or, without force, of the argument.
remove_empty(p) ==
  LET path == IF frames[p] = <<>> THEN call[p].path ELSE Top(p).path IN
  /\ pc[p] = "rmdir"
  /\ IF CanRmdir(tree, path)
     THEN Replace(p, rmdir(tree, path)) /\ Leave(p, TRUE)
     ELSE Leave(p, FALSE) /\ UNCHANGED <<tree, start>>
  /\ UNCHANGED <<call, calls, at, child, handles>>

Bug_unwind(p) ==  \* mutant: the iterator is left open
  /\ pc[p] = "unwind"
  /\ Leave(p, FALSE)
  /\ UNCHANGED <<tree, call, calls, at, child, handles, start>>

\* An error return from inside the loop closes the iterator on its way.
unwind(p) ==
  /\ pc[p] = "unwind"
  /\ close_dir(p) /\ Leave(p, FALSE)
  /\ UNCHANGED <<tree, call, calls, at, child, start>>

-----------------------------------------------------------------------------
InCall(p) ==
  \/ check(p) \/ make(p)
  \/ open_dir(p) \/ next_dir(p) \/ end_of_dir(p) \/ remove_file(p)
  \/ remove_empty(p) \/ unwind(p)

Next ==
  \E p \in Procs :
    \/ \E path \in MkdirPaths : mkdir_all(p, path)
    \/ \E path \in RemovePaths, force \in BOOLEAN : remove_dir(p, path, force)
    \/ InCall(p)
    \/ open_dir_fault(p)
    \/ read_dir_fault(p)

Spec == Init /\ [][Next]_vars

\* A process inside a call keeps running.
FairSpec == Spec /\ \A p \in Procs : WF_vars(InCall(p))

-----------------------------------------------------------------------------
(* Properties *)

TypeOK ==
  /\ IsTree(tree)
  /\ \A p \in Procs : at[p] \in 0 .. Len(call[p].path)
  /\ pc \in [Procs -> {"idle", "check", "mkdir", "open", "next", "unlink", "rmdir", "unwind"}]
  /\ handles \in [Procs -> Nat] /\ ok \in [Procs -> BOOLEAN]

\* Whichever way a removal ends, early returns from any depth included, every
\* iterator it opened has been closed (fs.c 527, 534, 538).
IteratorsClosed ==
  \A p \in Procs : pc[p] = "idle" => handles[p] = 0 /\ frames[p] = <<>>

\* What mkdir_all should do to tree t: nothing but the missing directories on
\* the way are added; something else in the way, and a path that is empty or
\* too long, are the causes to fail.
Parents(path) == Prefixes(path) \ {<<>>}
InTheWay(t, path) == \E q \in Parents(path) : Itself(t, q) \in Entries(t) /\ ~is_dir(t, q)
WithParents(t, path) == [t EXCEPT !.dirs = @ \cup {Resolve(t, q) : q \in Parents(path)}]

MkdirAllDone(p, t, path) ==
  IF ok[p] THEN ~InTheWay(t, path) /\ tree = WithParents(t, path)
  ELSE /\ InTheWay(t, path) \/ Len(path) \notin 1 .. MaxLen
       /\ tree.files = t.files /\ tree.links = t.links
       /\ t.dirs \subseteq tree.dirs /\ tree.dirs \subseteq WithParents(t, path).dirs

\* What remove_dir should do: the directory and all below it go, nothing else.
Without(t, gone) ==
  [dirs |-> t.dirs \ gone, files |-> t.files \ gone,
   links |-> [q \in DOMAIN t.links \ gone |-> t.links[q]]]
ContentsAt(t, path) == Below(t, Itself(t, path))
DirLinksAt(t, path) ==
  {q \in (ContentsAt(t, path) \cup {Itself(t, path)}) \cap DOMAIN t.links : Follow(t, q) \in t.dirs}
PathsFit(t, path) ==
  \A q \in ContentsAt(t, path) : Len(q) - Len(Itself(t, path)) + Len(path) <= MaxLen
CanRemove(t, path, force) ==
  /\ Itself(t, path) \in t.dirs
  /\ ContentsAt(t, path) = {} \/ (force /\ PathsFit(t, path))

Removed(p, t, path) == ok[p] /\ tree = Without(t, ContentsAt(t, path) \cup {Itself(t, path)})

\* A call that nothing else came between has done exactly what fs.h promises,
\* or has failed for a reason and done no more than its part.  Links to
\* directories, at the path or below it, are left to ForcedRemovalSucceeds.
Undisturbed(p, op) == pc[p] = "idle" /\ call[p].op = op /\ start[p] # Unknown
UndisturbedCallsDoTheirJob ==
  \A p \in Procs :
    LET t == start[p]  path == call[p].path IN
      /\ Undisturbed(p, "mkdir_all") => MkdirAllDone(p, t, path)
      /\ Undisturbed(p, "remove_dir") =>
           IF CanRemove(t, path, FALSE) THEN Removed(p, t, path) ELSE ~ok[p] /\ tree = t
      /\ Undisturbed(p, "remove_dir_force") /\ DirLinksAt(t, path) = {} =>
           IF CanRemove(t, path, TRUE) THEN Removed(p, t, path)
           ELSE ~ok[p] /\ Without(t, ContentsAt(t, path)) = Without(tree, ContentsAt(t, path))

\* fs.h 104: "If `force` is true, recursively removes the directory and all
\* its contents", links among the contents like anything else.
ForcedRemovalSucceeds ==
  \A p \in Procs :
    Undisturbed(p, "remove_dir_force") /\ CanRemove(start[p], call[p].path, TRUE)
      => Removed(p, start[p], call[p].path)

\* fs.h 97: "Creates `path` and all missing parent directories": when
\* mkdir_all fails at a component, that component is not a directory.
MkdirAllFailsForACause ==
  [][\A p \in Procs : make(p) /\ ~ok'[p] /\ pc'[p] = "idle" => ~is_dir(tree, tmp(p))]_vars

\* Every call returns, over links to a directory above as well: there only the
\* limit on the path's length ends the recursion.
CallsReturn == \A p \in Procs : (pc[p] # "idle") ~> (pc[p] = "idle")
=============================================================================
