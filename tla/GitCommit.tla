----------------------------- MODULE GitCommit -----------------------------
(***************************************************************************)
(* NodeGitCommitClient.commit(): one call per attempt of an operation.     *)
(*                                                                         *)
(* Every git command is a process of its own, so the branch may move       *)
(* between any two of them.  A command fails without an effect, or takes   *)
(* effect and fails all the same (killed by the abort signal, output over  *)
(* the limit): both are reported as unavailable, which is what the host    *)
(* retries with a new attempt of the same operation.  check-ref-format and *)
(* cat-file read nothing that moves and commit-tree moves no ref: their    *)
(* failures are those of the command that follows.                         *)
(***************************************************************************)
EXTENDS GitRepository

CONSTANTS
  CommitCalls,   \* attempts of commit operations
  OperationOf,   \* the operation each one is an attempt of
  ApprovedTree   \* expectedTree of every request; expectedParent is Base

ASSUME CommitAssumption ==
  /\ OperationOf \in [CommitCalls -> Operations]
  /\ ApprovedTree \in Trees

VARIABLE commits   \* where each call is, and the head it read or reports

Idle == [step |-> "idle", head |-> NoHead]

CommitsTypeOK ==
  commits \in [CommitCalls -> [step : {"idle", "update", "show", "committed", "conflict",
                                       "unavailable"}, head : Heads]]

CommitsInit == commits = [c \in CommitCalls |-> Idle]

\* Mutant: a marker line in the title of the change is not dropped.
OwnCommitKeepingLines(c) ==
  [tree |-> ApprovedTree, markers |-> {OperationOf[c], "title"}, author |-> "pinned"]

(* The commit the call writes: author, dates and message come from its     *)
(* input, so every attempt of one operation writes the same one.           *)
OwnCommit(c) == [tree |-> ApprovedTree, markers |-> {OperationOf[c]}, author |-> "pinned"]
OwnHead(c) == Append(Base, OwnCommit(c))

\* Mutants: the marker is not compared; a moved branch is always a conflict.
MatchesAnyMarker(c, head) == Len(head) = 1 /\ head[1].tree = ApprovedTree
MatchesNothing(c, head) == FALSE

(* reconcileExistingCommit(): parent, tree and exactly one marker.  The    *)
(* author and the rest of the message are not compared.                    *)
Matches(c, head) ==
  /\ Len(head) = 1
  /\ head[1].tree = ApprovedTree
  /\ head[1].markers = {OperationOf[c]}

MoveTo(c, step, head) == commits' = [commits EXCEPT ![c] = [step |-> step, head |-> head]]

ReadBranchHead(c) ==
  /\ commits[c].step = "idle"
  /\ branch # NoHead
  /\ MoveTo(c, IF branch = Base THEN "update" ELSE "show", branch)
  /\ UNCHANGED repositoryVars

\* Mutant: the exit code of update-ref is not looked at.
WriteCommitUnchecked(c) ==
  /\ commits[c].step = "update"
  /\ MoveTo(c, "committed", OwnHead(c))
  /\ IF branch = Base THEN SetBranch(OwnHead(c)) ELSE UNCHANGED <<branch, past>>
  /\ UNCHANGED <<remote, moves, rewritten>>

WriteCommit(c) ==
  /\ commits[c].step = "update"
  /\ UpdateRef(Base, OwnHead(c))
  /\ \/ MoveTo(c, "committed", OwnHead(c))
     \/ MoveTo(c, "unavailable", NoHead)   \* the answer is lost
  /\ UNCHANGED <<remote, moves, rewritten>>

ReconcileExistingCommit(c) ==
  /\ commits[c].step = "show"
  /\ IF Matches(c, commits[c].head)
     THEN MoveTo(c, "committed", commits[c].head)
     ELSE MoveTo(c, "conflict", NoHead)
  /\ UNCHANGED repositoryVars

CommitCommandFails(c) ==
  /\ commits[c].step \in {"idle", "update", "show"}
  /\ MoveTo(c, "unavailable", NoHead)
  /\ UNCHANGED repositoryVars

CommitStep(c) ==
  ReadBranchHead(c) \/ WriteCommit(c) \/ ReconcileExistingCommit(c) \/ CommitCommandFails(c)
=============================================================================
