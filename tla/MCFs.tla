--------------------------------- MODULE MCFs ---------------------------------
(***************************************************************************)
(* FsTree and FileIO share nothing, so TLC explores one or the other:      *)
(* subject says which one runs.                                            *)
(***************************************************************************)
EXTENDS MCFsTree, MCFileIO

VARIABLE subject
mcvars == <<vars, iovars, subject>>

MCInit ==
  /\ Init /\ IOInit /\ subject \in {"tree", "files"}
  /\ subject = "tree" \/ tree = Empty
  /\ subject = "files" \/ DOMAIN disk = {}

RunsTree(A)  == subject = "tree" /\ A /\ UNCHANGED <<iovars, subject>>
RunsFiles(A) == subject = "files" /\ A /\ UNCHANGED <<vars, subject>>

MCNext == RunsTree(Next) \/ RunsFiles(IONext)

MCSpec ==
  /\ MCInit /\ [][MCNext]_mcvars
  /\ \A p \in Procs : WF_mcvars(RunsTree(InCall(p)))
  /\ WF_mcvars(RunsFiles(IOStep))

\* Whichever step of whichever call failed, no iterator and no file it opened
\* stays open (fs.c 527, 534, 538, 543; 599-621, 826-847, 861-866).
NothingLeftOpen == IteratorsClosed /\ FilesClosed

\* Every call of fs.c that is modelled returns, the ones that loop and the one
\* that recurses among them, whatever other processes and the disk do meanwhile.
EveryCallReturns == CallsReturn /\ IOCallsReturn
=============================================================================
