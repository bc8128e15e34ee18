---------------------------- MODULE PullRequests ----------------------------
(***************************************************************************)
(* The pull-request scripts at work on one source branch: attempts of      *)
(* upsert, mark-ready, readiness and merge run beside each other and       *)
(* beside everybody else.  The host takes the pull request of one script's *)
(* result into the input of the next, lets its gate decide once, and may   *)
(* still run late attempts of earlier scripts.                             *)
(***************************************************************************)
EXTENDS PullRequestUpsert, PullRequestReady, PullRequestGate, PullRequestMerge

VARIABLE undisturbedRetries   \* merge calls begun when the pull request was merged

gateVars == <<readings, decision>>
mergeVars == <<merges, undisturbedRetries>>
vars == <<githubVars, upserts, readies, gateVars, mergeVars>>

Init ==
  /\ GitHubInit /\ UpsertsInit /\ ReadiesInit /\ ReadingsInit /\ GateInit /\ MergesInit
  /\ undisturbedRetries = {}

(* The pull requests some result of upsert, or of mark-ready, is about.    *)
Upserted == {upserts[u].number : u \in {u \in UpsertCalls : upserts[u].step = "returned"}}
Readied == {readies[r].number : r \in {r \in ReadyCalls : readies[r].step = "returned"}}

RequestReady(r) == \E n \in Upserted : StartReady(r, n)

(* A merge that its handler refuses makes no request.                      *)
StartMergeOf(m, n, q) ==
  /\ merges[m].step = "idle" /\ readings[q].step = "returned" /\ Decided
  /\ IF Authorized(q, n)
     THEN StartMerge(m, n)
     ELSE MergeGoes(m, "refused") /\ UNCHANGED githubVars
  /\ undisturbedRetries' =
       IF Authorized(q, n) /\ pulls[n].state = "merged"
       THEN undisturbedRetries \union {m} ELSE undisturbedRetries

Upserting ==
  /\ \E u \in UpsertCalls : UpsertStep(u)
  /\ UNCHANGED <<readies, gateVars, mergeVars>>

Readying ==
  /\ \E r \in ReadyCalls : RequestReady(r) \/ ReadyStep(r)
  /\ UNCHANGED <<upserts, gateVars, mergeVars>>

Observing ==
  /\ \E q \in ReadinessCalls :
       (\E n \in Readied : StartReadiness(q, n)) \/ ReadinessStep(q, Decided)
  /\ UNCHANGED <<upserts, readies, decision, mergeVars>>

Deciding ==
  /\ Readied # {} /\ Decide
  /\ UNCHANGED <<githubVars, upserts, readies, readings, mergeVars>>

Merging ==
  /\ \E m \in MergeCalls :
       \/ \E n \in Readied, q \in ReadinessCalls : StartMergeOf(m, n, q)
       \/ MergeStep(m) /\ UNCHANGED undisturbedRetries
  /\ UNCHANGED <<upserts, readies, gateVars>>

Next ==
  \/ Upserting
  \/ Readying
  \/ Observing
  \/ Deciding
  \/ Merging
  \/ Others /\ UNCHANGED <<upserts, readies, gateVars, mergeVars>>

Spec == Init /\ [][Next]_vars

TypeOK ==
  /\ GitHubTypeOK /\ UpsertsTypeOK /\ ReadiesTypeOK /\ ReadingsTypeOK /\ GateTypeOK /\ MergesTypeOK
  /\ undisturbedRetries \subseteq MergeCalls

-----------------------------------------------------------------------------
(* What a step of the merge script may do to the pull requests.           *)
MergesOnlyAsApproved ==
  \A m \in MergeCalls : merges[m] # merges'[m] =>
    \A n \in Numbers : pulls[n].state # "merged" /\ pulls'[n].state = "merged" =>
      n = merges[m].number /\ pulls[n].head = Pinned

(* A step of the merge script merges a pull request only at the approved   *)
(* head, whatever was pushed since it was read.                            *)
MergedOnlyAsApproved == [][MergesOnlyAsApproved]_vars

(* What reading q of pull request n has to have shown.                     *)
SeenAsDecided(q, n) ==
  LET seen == readings[q].seen IN
    /\ readings[q].step = "returned" /\ readings[q].number = n /\ readings[q].decided
    /\ seen.head = Pinned /\ decision.revision = Pinned
    /\ seen.state = "open" /\ ~seen.draft /\ seen.mergeable /\ seen.checks = "success"
    /\ seen.unresolved = IF decision.outcome = "approved" THEN {} ELSE decision.threads

MergesAsDecided ==
  \A m \in MergeCalls : merges[m] # merges'[m] =>
    \A n \in Numbers : pulls[n].state # "merged" /\ pulls'[n].state = "merged" =>
      \E q \in ReadinessCalls : SeenAsDecided(q, n)

(* A merge is authorized by what was seen: some reading of this pull       *)
(* request at the approved head, finished after the decision, showed it    *)
(* open, out of draft, mergeable and with every required check passed, and *)
(* had no unresolved thread but those the override names.                  *)
MergedAsDecided == [][MergesAsDecided]_vars

(* The two scripts agree on what is clean: an approval of the pinned head  *)
(* followed by a reading that the readiness script calls clean is never    *)
(* refused by the guards of the merge script.                              *)
CleanReadingAuthorizes ==
  \A q \in ReadinessCalls :
    /\ decision.outcome = "approved" /\ decision.revision = Pinned
    /\ readings[q].decided /\ readings[q].classification = "clean" /\ readings[q].seen.head = Pinned
    => Authorized(q, readings[q].number)

(* The merge card accepts the "sorted, unique, exact unresolved-thread     *)
(* audit": where nothing but the threads is in the way, an override by the *)
(* decider that lists exactly them is accepted.                            *)
ExactOverrideAuthorizes ==
  \A q \in ReadinessCalls :
    /\ decision.outcome = "override_merge" /\ decision.revision = Pinned /\ decision.wellFormed
    /\ readings[q].decided /\ readings[q].classification = "review_changes" /\ ~readings[q].blocked
    /\ readings[q].seen.head = Pinned /\ readings[q].seen.unresolved = decision.threads
    => Authorized(q, readings[q].number)

(* What a step that gives a result has to find.                            *)
UpsertAnswers ==
  \A u \in UpsertCalls : upserts[u].step # "returned" /\ upserts'[u].step = "returned" =>
    MatchesRequestedState(u, pulls'[upserts'[u].number])

ReadyAnswers ==
  \A r \in ReadyCalls : readies[r].step # "returned" /\ readies'[r].step = "returned" =>
    AtPinnedRevision(pulls[readies[r].number]) /\ ~pulls[readies[r].number].draft

MergeAnswers ==
  \A m \in MergeCalls : merges[m].step # "returned" /\ merges'[m].step = "returned" =>
    Pull(m).state = "merged" /\ Pull(m).head = Pinned /\ source = NoSha

(* A result is true when it is given, whatever was done by whom before.    *)
(* Of upsert: it is the pull request that was asked for, as read from      *)
(* GitHub and not as sent to it.  Of mark-ready: it is at the pinned head  *)
(* and revision and out of draft, although the mutation compares neither.  *)
(* Of merge: it is merged at the approved head and its branch is gone.     *)
AnswersTrue == [][UpsertAnswers /\ ReadyAnswers /\ MergeAnswers]_vars

(* Until the pull request leaves draft, attempts of one upsert agree: with *)
(* nobody else at work none is told of a conflict, whatever answers were   *)
(* lost, and there is one pull request.                                    *)
UndisturbedUpsertsAgree ==
  (moves = 0 /\ \A n \in Numbers : pulls[n].draft) =>
    /\ Len(pulls) <= 1
    /\ \A u \in UpsertCalls : upserts[u].step # "conflict"

(* A merge attempt that begins when the pull request is merged adopts that *)
(* merge: with nobody else at work it is not told of a conflict, and does  *)
(* not fail to confirm, whatever the attempt before it left undone.        *)
MergeRetryAdopts ==
  moves = 0 =>
    \A m \in undisturbedRetries : merges[m].step \notin {"conflict", "invalid", "put"}

(* The promise of the merge card: "bounded exact-source-ref deletion".     *)
(* The head is compared in a read, and the deletion does not name it.      *)
SourceDeletedExact ==
  [][\A m \in MergeCalls : merges[m].step = "delete" /\ source' # source /\ moves' = moves =>
       source = Pinned]_vars
=============================================================================
