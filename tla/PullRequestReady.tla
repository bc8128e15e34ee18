------------------------- MODULE PullRequestReady -------------------------
(***************************************************************************)
(* FetchGitHubPullRequestReadyClient.markReady(): take one managed draft   *)
(* at the pinned head and revision out of draft.                           *)
(***************************************************************************)
EXTENDS GitHubRepository

CONSTANTS ReadyCalls   \* attempts of mark-ready operations

VARIABLE readies   \* where each call is, and the pull request it is about

ReadySteps == {"idle", "read", "mutate", "readback", "returned", "conflict", "invalid", "failed"}

ReadiesTypeOK ==
  readies \in [ReadyCalls -> [step : ReadySteps, number : 0 .. MaxPulls]]

ReadiesInit == readies = [r \in ReadyCalls |-> [step |-> "idle", number |-> 0]]

ReadyGoes(r, step) == readies' = [readies EXCEPT ![r].step = step]

StartReady(r, n) ==
  /\ readies[r].step = "idle"
  /\ readies' = [readies EXCEPT ![r] = [step |-> "read", number |-> n]]
  /\ UNCHANGED githubVars

AtPinnedRevision(pull) ==
  /\ pull.head = Pinned
  /\ pull.text = Approved
  /\ pull.marker # NoMarker
  /\ pull.state = "open"

ReadDraft(r) ==
  /\ readies[r].step = "read"
  /\ LET pull == pulls[readies[r].number] IN
       ReadyGoes(r, CASE ~AtPinnedRevision(pull) -> "conflict"
                      [] AtPinnedRevision(pull) /\ ~pull.draft -> "returned"
                      [] OTHER -> "mutate")
  /\ UNCHANGED githubVars

(* The answer of the mutation has the head, but not the title and body.    *)
Mutate(r) ==
  /\ readies[r].step = "mutate"
  /\ ReadyPull(readies[r].number)
  /\ \/ ReadyGoes(r, IF pulls[readies[r].number].head = Pinned THEN "readback" ELSE "invalid")
     \/ ReadyGoes(r, "failed")

ReadReady(r) ==
  /\ readies[r].step = "readback"
  /\ LET pull == pulls[readies[r].number] IN
       ReadyGoes(r, CASE pull.head # Pinned -> "conflict"
                      [] pull.head = Pinned /\ AtPinnedRevision(pull) /\ ~pull.draft -> "returned"
                      [] OTHER -> "invalid")
  /\ UNCHANGED githubVars

ReadyFails(r) ==
  /\ readies[r].step \in {"read", "mutate", "readback"}
  /\ ReadyGoes(r, "failed")
  /\ UNCHANGED githubVars

ReadyStep(r) == ReadDraft(r) \/ Mutate(r) \/ ReadReady(r) \/ ReadyFails(r)
=============================================================================
