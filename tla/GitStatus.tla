----------------------------- MODULE GitStatus -----------------------------
(***************************************************************************)
(* NodeGitStatusClient.readStatus() and the handler that compares what it  *)
(* observed with the captures the host pinned.  The observation is three   *)
(* reads, one git process after the other: the changed paths, the commit   *)
(* at HEAD, and the tree of the working tree (written with an index of its *)
(* own).  The branch is checked out, so HEAD is its head.                  *)
(***************************************************************************)
EXTENDS GitRepository

CONSTANTS
  StatusCalls,   \* executions of git/status
  PinnedBase,    \* baseCapture of every input
  PinnedTree     \* headCapture of every input

VARIABLES
  workspace,  \* content of the working tree
  statuses    \* where each call is, and what it has read

vars == <<repositoryVars, workspace, statuses>>

(* The changed paths are a function of HEAD and the working tree: of the   *)
(* list only the pair it was computed from is kept.                        *)
Difference(head, tree) == <<head, tree>>

StatusSteps == {"idle", "rev-parse", "capture", "compare", "observed", "conflict",
                "unavailable"}

TypeOK ==
  /\ RepositoryTypeOK
  /\ workspace \in Trees
  /\ statuses \in [StatusCalls ->
       [step : StatusSteps, paths : Heads \X Trees, base : Heads, tree : Trees]]

Init ==
  /\ RepositoryInit
  /\ workspace \in Trees
  /\ statuses = [s \in StatusCalls |->
       [step |-> "idle", paths |-> Difference(NoHead, PinnedTree), base |-> NoHead,
        tree |-> PinnedTree]]

ReadChangedPaths(s) ==
  /\ statuses[s].step = "idle"
  /\ statuses' = [statuses EXCEPT ![s].step = "rev-parse",
                                  ![s].paths = Difference(branch, workspace)]

ReadBaseCommit(s) ==
  /\ statuses[s].step = "rev-parse"
  /\ branch # NoHead
  /\ statuses' = [statuses EXCEPT ![s].step = "capture", ![s].base = branch]

CaptureTree(s) ==
  /\ statuses[s].step = "capture"
  /\ branch # NoHead   \* read-tree HEAD
  /\ statuses' = [statuses EXCEPT ![s].step = "compare", ![s].tree = workspace]

ComparePinned(s) ==
  /\ statuses[s].step = "compare"
  /\ statuses' = [statuses EXCEPT ![s].step =
       IF statuses[s].base = PinnedBase /\ statuses[s].tree = PinnedTree
       THEN "observed" ELSE "conflict"]

StatusCommandFails(s) ==
  /\ statuses[s].step \in {"idle", "rev-parse", "capture"}
  /\ statuses' = [statuses EXCEPT ![s].step = "unavailable"]

StatusStep(s) ==
  /\ \/ ReadChangedPaths(s) \/ ReadBaseCommit(s) \/ CaptureTree(s) \/ ComparePinned(s)
     \/ StatusCommandFails(s)
  /\ UNCHANGED <<repositoryVars, workspace>>

OthersEdit ==
  /\ moves < MaxMoves /\ moves' = moves + 1
  /\ workspace' \in Trees \ {workspace}
  /\ UNCHANGED <<branch, remote, rewritten, past, statuses>>

Next ==
  \/ \E s \in StatusCalls : StatusStep(s)
  \/ Others /\ UNCHANGED <<workspace, statuses>>
  \/ OthersEdit

Spec == Init /\ [][Next]_vars

(* "A moved capture fails closed": a result is one capture of the working  *)
(* tree.  The code reads the changed paths before the two captures that    *)
(* the handler compares with the pinned ones.                              *)
StatusIsOneCapture ==
  \A s \in StatusCalls : statuses[s].step = "observed" =>
    statuses[s].paths = Difference(PinnedBase, PinnedTree)
=============================================================================
