------------------------ MODULE PullRequestUpsert -------------------------
(***************************************************************************)
(* FetchGitHubPullRequestUpsertClient.upsert(): find the open pull request *)
(* of the branches, create it or bring it to the requested text, and read  *)
(* it back.  A request may fail without an effect (refused, rate limited,  *)
(* unreachable) or take effect and have its answer lost; both end the call *)
(* as failed, and the host may try again with a new attempt.  Requests ask *)
(* for a draft at the pinned head with the approved text.                  *)
(***************************************************************************)
EXTENDS GitHubRepository

CONSTANTS
  UpsertCalls,    \* attempts of upsert operations
  UpsertOf,       \* the operation each one is an attempt of
  Revisions       \* the texts it may update: one if its input pins a revision

ASSUME UpsertAssumption ==
  /\ UpsertOf \in [UpsertCalls -> Operations]
  /\ Revisions \in [UpsertCalls -> SUBSET Texts]

VARIABLE upserts   \* where each call is, and the pull request it found

UpsertSteps == {"idle", "find", "create", "update", "readback", "returned", "conflict", "failed"}

UpsertsTypeOK ==
  upserts \in [UpsertCalls -> [step : UpsertSteps, number : 0 .. MaxPulls]]

UpsertsInit == upserts = [u \in UpsertCalls |-> [step |-> "idle", number |-> 0]]

UpsertGoes(u, step, n) == upserts' = [upserts EXCEPT ![u] = [step |-> step, number |-> n]]

\* Mutant: the marker names the attempt and not its execution.
OwnsByAttempt(u, pull) == pull.marker = u

OwnsOperation(u, pull) == pull.marker = UpsertOf[u]

MatchesRequestedState(u, pull) ==
  /\ pull.state = "open" /\ pull.head = Pinned /\ pull.draft
  /\ pull.text = Approved
  /\ OwnsOperation(u, pull)

(* update(): the guards before the PATCH.                                  *)
Updatable(u, pull) ==
  /\ pull.head = Pinned /\ pull.draft
  /\ pull.text \in Revisions[u]

ReadSourceBranch(u) ==
  /\ upserts[u].step = "idle"
  /\ UpsertGoes(u, IF source = Pinned THEN "find" ELSE "conflict", 0)
  /\ UNCHANGED githubVars

(* A retry creates nothing while the pull request it created is open.      *)
FindNone(u) ==
  /\ upserts[u].step = "find"
  /\ Open = {}
  /\ UpsertGoes(u, "create", 0)
  /\ UNCHANGED githubVars

FindExisting(u) ==
  /\ upserts[u].step = "find"
  /\ \E n \in Open :
       UpsertGoes(u, CASE ~OwnsOperation(u, pulls[n]) -> "conflict"
                       [] MatchesRequestedState(u, pulls[n]) -> "returned"
                       [] OTHER -> IF Updatable(u, pulls[n]) THEN "update" ELSE "conflict", n)
  /\ UNCHANGED githubVars

Create(u) ==
  /\ upserts[u].step = "create"
  /\ PostPull(Approved, UpsertOf[u], TRUE)
  /\ UpsertGoes(u, "readback", Len(pulls) + 1) \/ UpsertGoes(u, "failed", 0)

\* Mutant: title and body are sent the wrong way round.
UpdateSwapped(u) ==
  /\ upserts[u].step = "update"
  /\ PatchPull(upserts[u].number, UpsertOf[u], Approved)
  /\ UpsertGoes(u, "readback", upserts[u].number)

Update(u) ==
  /\ upserts[u].step = "update"
  /\ PatchPull(upserts[u].number, Approved, UpsertOf[u])
  /\ UpsertGoes(u, "readback", upserts[u].number) \/ UpsertGoes(u, "failed", 0)

ReadBack(u) ==
  /\ upserts[u].step = "readback"
  /\ LET n == upserts[u].number IN
       UpsertGoes(u, IF MatchesRequestedState(u, pulls[n]) THEN "returned" ELSE "conflict", n)
  /\ UNCHANGED githubVars

UpsertFails(u) ==
  /\ upserts[u].step \in {"idle", "find", "create", "update", "readback"}
  /\ UpsertGoes(u, "failed", 0)
  /\ UNCHANGED githubVars

UpsertStep(u) ==
  \/ ReadSourceBranch(u) \/ FindNone(u) \/ FindExisting(u) \/ Create(u) \/ Update(u)
  \/ ReadBack(u) \/ UpsertFails(u)
=============================================================================
