----------------------- MODULE PullRequestReadiness -----------------------
(***************************************************************************)
(* The readiness script: one GraphQL observation of a pull request, a      *)
(* second request for the check identities that rulesets require, and the  *)
(* classification of what was seen.  It changes nothing at GitHub.         *)
(*                                                                         *)
(* The answer of the first request is what the pull request was then,      *)
(* together with how much of it GitHub told (Answers); the model chooses   *)
(* that second part when the answer is parsed, which the code does after   *)
(* the second request.                                                     *)
(***************************************************************************)
EXTENDS GitHubRepository

CONSTANTS ReadinessCalls   \* attempts of readiness operations

VARIABLE readings   \* where each call is, and what it observed

ReadinessSteps == {"idle", "snapshot", "rulesets", "returned", "invalid", "failed"}

Classifications ==
  {"none", "clean", "recheck", "ci_changes", "review_changes", "closed", "merged", "unclassifiable"}

(* seen: the pull request in the answer of the first request; then, of the *)
(* result, its classification, whether assertGate() finds a blocker in it  *)
(* that no approval lifts, and whether it is stamped after the decision.   *)
NoReading ==
  [step |-> "idle", number |-> 0, seen |-> << >>,
   classification |-> "none", blocked |-> FALSE, decided |-> FALSE]

ReadingsTypeOK ==
  /\ readings \in [ReadinessCalls ->
       [step : ReadinessSteps, number : 0 .. MaxPulls, seen : PullRequests \union {<< >>},
        classification : Classifications, blocked : BOOLEAN, decided : BOOLEAN]]
  /\ \A q \in ReadinessCalls :
       /\ readings[q].step \in {"rulesets", "returned"} => readings[q].seen \in PullRequests
       /\ readings[q].step = "returned" <=> readings[q].classification # "none"

ReadingsInit == readings = [q \in ReadinessCalls |-> NoReading]

-----------------------------------------------------------------------------
(* What GitHub tells besides the pull request itself: the mergeability is  *)
(* computed in the background, collections come in pages, and the required *)
(* identities depend on what the credential may read.                      *)

Completeness == {"complete", "unavailable", "truncated"}

Answers ==
  [computed : BOOLEAN, mergeState : {"CLEAN", "UNSTABLE", "HAS_HOOKS", "BLOCKED", "UNKNOWN"},
   rollup : Completeness, threadPages : {"complete", "truncated"},
   protectionNames : {"complete", "unavailable"}, rulesets : Completeness]

requiredChecksComplete(answer) ==
  IF "unavailable" \in {answer.protectionNames, answer.rulesets} THEN "unavailable"
  ELSE answer.rulesets

(* A required check is known only from complete identities, and one of     *)
(* them that the rollup does not show is pending.                          *)
requiredChecks(pull, answer) ==
  IF requiredChecksComplete(answer) # "complete" THEN "success"
  ELSE IF answer.rollup = "unavailable" /\ pull.checks # "success" THEN "pending"
  ELSE pull.checks

parseGitHubReadinessResponse(pull, answer) ==
  [state |-> pull.state, draft |-> pull.draft, mergeState |-> answer.mergeState,
   mergeable |-> CASE ~answer.computed -> "unknown"
                   [] answer.computed /\ pull.mergeable -> "mergeable"
                   [] OTHER -> "conflicting",
   checksComplete |-> answer.rollup, threadsComplete |-> answer.threadPages,
   requiredChecksComplete |-> requiredChecksComplete(answer),
   required |-> requiredChecks(pull, answer), unresolved |-> pull.unresolved]

MergeStates == {"CLEAN", "UNSTABLE", "HAS_HOOKS"}

\* Mutant: checks whose identities are not known are taken as none required.
UnsettledAmongKnown(s) ==
  s.checksComplete = "unavailable" \/ s.required = "pending" \/ s.mergeable = "unknown"

Unsettled(s) ==
  \/ s.requiredChecksComplete # "complete" \/ s.checksComplete = "unavailable"
  \/ s.required = "pending" \/ s.mergeable = "unknown"

(* The first rule that applies, in the order of the code.                  *)
classify(s) ==
  IF s.state # "open" THEN s.state
  ELSE IF s.threadsComplete # "complete" \/ s.checksComplete = "truncated" THEN "unclassifiable"
  ELSE IF s.draft THEN "recheck"
  ELSE IF s.unresolved # {} THEN "review_changes"
  ELSE IF s.required = "failure" THEN "ci_changes"
  ELSE IF Unsettled(s) THEN "recheck"
  ELSE IF s.mergeable = "conflicting" \/ s.mergeState \notin MergeStates THEN "unclassifiable"
  ELSE "clean"

(* The first guard of assertGate() in the merge handler, which decides on  *)
(* the same fields of the result.                                          *)
Blocked(s) ==
  \/ s.state # "open" \/ s.draft
  \/ s.mergeable # "mergeable" \/ s.mergeState \notin MergeStates
  \/ {s.checksComplete, s.requiredChecksComplete, s.threadsComplete} # {"complete"}
  \/ s.required # "success"

-----------------------------------------------------------------------------

StartReadiness(q, n) ==
  /\ readings[q].step = "idle"
  /\ readings' = [readings EXCEPT ![q].step = "snapshot", ![q].number = n]
  /\ UNCHANGED githubVars

(* A base branch that is gone makes the answer invalid.                    *)
ReadSnapshot(q) ==
  /\ readings[q].step = "snapshot"
  /\ \/ readings' = [readings EXCEPT ![q].step = "rulesets", ![q].seen = pulls[readings[q].number]]
     \/ readings' = [readings EXCEPT ![q].step = "invalid"]
  /\ UNCHANGED githubVars

(* The answer about rulesets, the time stamp and the classification.       *)
ReadRulesets(q, decided) ==
  /\ readings[q].step = "rulesets"
  /\ \E answer \in Answers :
       LET snapshot == parseGitHubReadinessResponse(readings[q].seen, answer) IN
         readings' = [readings EXCEPT ![q].step = "returned", ![q].decided = decided,
                                      ![q].classification = classify(snapshot),
                                      ![q].blocked = Blocked(snapshot)]
  /\ UNCHANGED githubVars

ReadinessFails(q) ==
  /\ readings[q].step \in {"snapshot", "rulesets"}
  /\ readings' = [readings EXCEPT ![q] = [NoReading EXCEPT !.step = "failed"]]
  /\ UNCHANGED githubVars

ReadinessStep(q, decided) == ReadSnapshot(q) \/ ReadRulesets(q, decided) \/ ReadinessFails(q)
=============================================================================
