------------------------- MODULE PullRequestMerge -------------------------
(***************************************************************************)
(* FetchGitHubPullRequestMergeClient.merge(): squash-merge one approved    *)
(* pull request at its exact head and delete its source branch, or adopt a *)
(* merge that an earlier attempt made.                                     *)
(*                                                                         *)
(* Every read of the pull request compares its head with the approved one  *)
(* and looks for the issue reference, which the approved text contains.    *)
(***************************************************************************)
EXTENDS GitHubRepository

CONSTANTS
  MergeCalls,    \* attempts of merge operations
  NamesIssue     \* the calls whose input names an issue

ASSUME MergeAssumption == NamesIssue \subseteq MergeCalls

VARIABLE merges   \* where each call is, and what it read last

MergeSteps == {"idle", "read", "source", "put", "confirm", "merged source", "delete", "deleted",
               "returned", "conflict", "invalid", "failed", "refused"}

(* mergeable: what assertMergeable() made of the pull request when it was  *)
(* read; adopted: it was merged already.                                   *)
NoMerge == [step |-> "idle", number |-> 0, mergeable |-> FALSE, adopted |-> FALSE]

MergesTypeOK ==
  merges \in [MergeCalls -> [step : MergeSteps, number : 0 .. MaxPulls,
                             mergeable : BOOLEAN, adopted : BOOLEAN]]

MergesInit == merges = [m \in MergeCalls |-> NoMerge]

MergeGoes(m, step) == merges' = [merges EXCEPT ![m].step = step]

Pull(m) == pulls[merges[m].number]

StartMerge(m, n) ==
  /\ merges[m].step = "idle"
  /\ merges' = [merges EXCEPT ![m] = [NoMerge EXCEPT !.step = "read", !.number = n]]
  /\ UNCHANGED githubVars

(* GitHubPullRequestReader.read(): otherwise a conflict.                   *)
Readable(m, pull) ==
  /\ pull.head = Pinned
  /\ m \in NamesIssue => pull.text = Approved

Mergeable(pull) == pull.state = "open" /\ ~pull.draft /\ pull.mergeable

ReadPull(m) ==
  /\ merges[m].step = "read"
  /\ IF Readable(m, Pull(m))
     THEN merges' = [merges EXCEPT ![m].step = "source", ![m].mergeable = Mergeable(Pull(m)),
                                   ![m].adopted = Pull(m).state = "merged"]
     ELSE MergeGoes(m, "conflict")
  /\ UNCHANGED githubVars

(* reconcileSourceBranch() up to its DELETE.                               *)
Reconciled ==
  CASE source = NoSha -> "returned"
    [] source = Pinned -> "delete"
    [] OTHER -> "conflict"

\* Mutant: an adopted merge is taken as complete.
AdoptedComplete(m) ==
  IF merges[m].adopted THEN "returned"
  ELSE IF merges[m].mergeable /\ source = Pinned THEN "put" ELSE "conflict"

\* Mutant: an earlier merge is not looked for.
NothingAdopted(m) ==
  IF merges[m].mergeable /\ source = Pinned THEN "put" ELSE "conflict"

AfterSource(m) ==
  IF merges[m].adopted THEN Reconciled
  ELSE IF merges[m].mergeable /\ source = Pinned THEN "put" ELSE "conflict"

ReadSource(m) ==
  /\ merges[m].step = "source"
  /\ MergeGoes(m, AfterSource(m))
  /\ UNCHANGED githubVars

\* Mutant: the merge request names the head the pull request has by then.
RequestMergeAnyHead(m) ==
  /\ merges[m].step = "put"
  /\ MergePull(merges[m].number, Pull(m).head)
  /\ MergeGoes(m, "confirm")

RequestMerge(m) ==
  /\ merges[m].step = "put"
  /\ MergePull(merges[m].number, Pinned)
  /\ MergeGoes(m, "confirm") \/ MergeGoes(m, "failed")   \* the answer is lost

ConfirmMerge(m) ==
  /\ merges[m].step = "confirm"
  /\ MergeGoes(m, CASE ~Readable(m, Pull(m)) -> "conflict"
                    [] Readable(m, Pull(m)) /\ Pull(m).state # "merged" -> "invalid"
                    [] OTHER -> "merged source")
  /\ UNCHANGED githubVars

ReadMergedSource(m) ==
  /\ merges[m].step = "merged source"
  /\ MergeGoes(m, Reconciled)
  /\ UNCHANGED githubVars

(* The DELETE names the branch and not the head it was seen at.            *)
DeleteBranch(m) ==
  /\ merges[m].step = "delete"
  /\ DeleteSource
  /\ MergeGoes(m, "deleted") \/ MergeGoes(m, "failed")

ConfirmDeletion(m) ==
  /\ merges[m].step = "deleted"
  /\ MergeGoes(m, IF source = NoSha THEN "returned" ELSE "invalid")
  /\ UNCHANGED githubVars

MergeFails(m) ==
  /\ merges[m].step \in {"read", "source", "put", "confirm", "merged source", "delete", "deleted"}
  /\ MergeGoes(m, "failed")
  /\ UNCHANGED githubVars

MergeStep(m) ==
  \/ ReadPull(m) \/ ReadSource(m) \/ RequestMerge(m) \/ ConfirmMerge(m) \/ ReadMergedSource(m)
  \/ DeleteBranch(m) \/ ConfirmDeletion(m) \/ MergeFails(m)
=============================================================================
