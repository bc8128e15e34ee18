-------------------------------- MODULE Git --------------------------------
(***************************************************************************)
(* The git provider at work on one branch: attempts of commit and push     *)
(* operations run beside each other and beside everybody else who moves    *)
(* the branch or its remote.  A push publishes the head a commit call      *)
(* answered, as the approved change of its input.                          *)
(***************************************************************************)
EXTENDS GitCommit, GitPush

vars == <<repositoryVars, commits, pushes>>

Init == RepositoryInit /\ CommitsInit /\ PushesInit

(* The host publishes a committed change, from no branch or from Base.     *)
RequestPush(p) ==
  \E c \in CommitCalls, expected \in {NoHead, Base} :
    /\ commits[c].step = "committed"
    /\ StartPush(p, commits[c].head, expected)

Next ==
  \/ \E c \in CommitCalls : CommitStep(c) /\ UNCHANGED pushes
  \/ \E p \in PushCalls : (RequestPush(p) \/ PushStep(p)) /\ UNCHANGED commits
  \/ Others /\ UNCHANGED <<commits, pushes>>

Spec == Init /\ [][Next]_vars

TypeOK == RepositoryTypeOK /\ CommitsTypeOK /\ PushesTypeOK

-----------------------------------------------------------------------------
(* Answers are true.  Of commit: the reported head was the head of the     *)
(* branch, and is one commit on the expected parent with the approved tree *)
(* and the marker of this operation, whichever attempt of it wrote it.  Of *)
(* push: the remote did have the pinned head.                              *)
AnswersTrue ==
  /\ \A c \in CommitCalls : commits[c].step = "committed" =>
       /\ commits[c].head \in past.branch
       /\ Len(commits[c].head) = 1
       /\ commits[c].head[1].tree = ApprovedTree
       /\ commits[c].head[1].markers = {OperationOf[c]}
  /\ \A p \in PushCalls : pushes[p].step \in {"pushed", "already-published"} =>
       pushes[p].head \in past.remote

(* Operations that compete for one parent exclude each other, lost answers *)
(* and retries included, unless somebody takes commits off the branch.     *)
OneWinner ==
  ~rewritten =>
    \A c, d \in CommitCalls :
      commits[c].step = "committed" /\ commits[d].step = "committed" =>
        OperationOf[c] = OperationOf[d]

(* A conflict is reported only when the branch was really taken by a       *)
(* commit that is not this operation's: a retry of an operation whose      *)
(* answer was lost, and whose commit is the head, is not refused.          *)
ConflictMeansOvertaken ==
  \A c \in CommitCalls : commits[c].step = "conflict" =>
    \E head \in past.branch : head \notin {NoHead, Base, OwnHead(c)}

(* No step of the provider takes a commit off the branch or the remote:    *)
(* commits of others survive whatever the interleaving.                    *)
OthersWorkKept ==
  [][moves' = moves => FastForward(branch, branch') /\ FastForward(remote, remote')]_vars

(* Left alone, pushes of one change agree: an attempt from the remote head *)
(* there was, before, beside or after another attempt of it whose answer   *)
(* may be lost, is never told of a conflict or an unconfirmed head.        *)
UndisturbedPushSucceeds ==
  moves = 0 =>
    \A p \in PushCalls :
      pushes[p].expected \in past.remote /\ pushes[p].expected # pushes[p].head =>
        pushes[p].step \notin {"conflict", "invalid"}

(* The promise of the push card: the remote moves only from the expected   *)
(* head, as by an atomic compare-and-swap.  The code reads the remote and  *)
(* then pushes without a lease.                                            *)
ExactRemoteLease ==
  [][\A p \in PushCalls : Push(p) /\ remote' # remote => remote = pushes[p].expected]_vars
=============================================================================
