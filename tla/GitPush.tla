------------------------------ MODULE GitPush ------------------------------
(***************************************************************************)
(* NodeGitPushClient.push(): publish the head of an approved change, from  *)
(* an expected remote head, which is NoHead where the request omits it.    *)
(* The remote moves between its commands as the local branch does.         *)
(***************************************************************************)
EXTENDS GitRepository

CONSTANTS
  PushCalls   \* attempts of push operations

VARIABLE pushes   \* where each call is, and its request

PushSteps == {"idle", "local", "remote", "ancestry", "push", "confirm", "pushed",
              "already-published", "conflict", "invalid", "unavailable"}

PushesTypeOK ==
  pushes \in [PushCalls -> [step : PushSteps, head : Heads, expected : Heads]]

PushesInit ==
  pushes = [p \in PushCalls |-> [step |-> "idle", head |-> NoHead, expected |-> NoHead]]

GoTo(p, step) == pushes' = [pushes EXCEPT ![p].step = step]

(* A failed command: nothing of the request is kept.                       *)
Fail(p) ==
  pushes' = [pushes EXCEPT ![p] = [step |-> "unavailable", head |-> NoHead, expected |-> NoHead]]

StartPush(p, head, expected) ==
  /\ pushes[p].step = "idle"
  /\ pushes' = [pushes EXCEPT ![p] = [step |-> "local", head |-> head, expected |-> expected]]
  /\ UNCHANGED repositoryVars

ReadLocalHead(p) ==
  /\ pushes[p].step = "local"
  /\ branch # NoHead
  /\ GoTo(p, IF branch = pushes[p].head THEN "remote" ELSE "conflict")
  /\ UNCHANGED repositoryVars

\* Mutant: the two comparisons the other way round.
ReadRemoteHeadExpectedFirst(p) ==
  /\ pushes[p].step = "remote"
  /\ GoTo(p, CASE remote # pushes[p].expected -> "conflict"
               [] remote = pushes[p].expected /\ remote = pushes[p].head -> "already-published"
               [] OTHER -> IF remote = NoHead THEN "push" ELSE "ancestry")
  /\ UNCHANGED repositoryVars

(* The published head is recognised before the expected one is compared.   *)
ReadRemoteHead(p) ==
  /\ pushes[p].step = "remote"
  /\ GoTo(p, CASE remote = pushes[p].head -> "already-published"
               [] remote # pushes[p].head /\ remote # pushes[p].expected -> "conflict"
               [] OTHER -> IF remote = NoHead THEN "push" ELSE "ancestry")
  /\ UNCHANGED repositoryVars

(* merge-base of the remote head just read, which equals the expected one. *)
CheckAncestry(p) ==
  /\ pushes[p].step = "ancestry"
  /\ GoTo(p, IF Descends(pushes[p].expected, pushes[p].head) THEN "push" ELSE "conflict")
  /\ UNCHANGED repositoryVars

Push(p) ==
  /\ pushes[p].step = "push"
  /\ PushRef(pushes[p].head)
  /\ GoTo(p, "confirm") \/ Fail(p)   \* the answer is lost
  /\ UNCHANGED <<branch, moves, rewritten>>

ConfirmRemoteHead(p) ==
  /\ pushes[p].step = "confirm"
  /\ GoTo(p, IF remote = pushes[p].head THEN "pushed" ELSE "invalid")
  /\ UNCHANGED repositoryVars

PushCommandFails(p) ==
  /\ pushes[p].step \in {"local", "remote", "ancestry", "push", "confirm"}
  /\ Fail(p)
  /\ UNCHANGED repositoryVars

PushStep(p) ==
  \/ ReadLocalHead(p) \/ ReadRemoteHead(p) \/ CheckAncestry(p) \/ Push(p)
  \/ ConfirmRemoteHead(p) \/ PushCommandFails(p)
=============================================================================
