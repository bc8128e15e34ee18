------------------------- MODULE PullRequestsProofs -------------------------
(***************************************************************************)
(* Theorems about PullRequests for any operations, attempts, readings,     *)
(* threads and heads, and for any number of moves by other people.         *)
(*                                                                         *)
(* What a merge may rely on was established by steps of other actors: IInv *)
(* says what is left of it by the time it is used.  It has one part for    *)
(* each of the calls and one for the repository.                           *)
(***************************************************************************)
EXTENDS PullRequests, SequenceTheorems, TLAPS

GitHubInv == GitHubTypeOK /\ Len(pulls) <= MaxPulls

(* Pull requests are never removed, and a merged one stays at its head.    *)
PullsKept ==
  \A n \in Numbers :
    /\ n \in Numbers'
    /\ pulls[n].state = "merged" => pulls'[n].state = "merged" /\ pulls'[n].head = pulls[n].head

UpsertInv ==
  /\ UpsertsTypeOK
  /\ \A u \in UpsertCalls :
       upserts[u].step \in {"update", "readback", "returned"} => upserts[u].number \in Numbers

ReadyInv ==
  /\ ReadiesTypeOK
  /\ \A r \in ReadyCalls : readies[r].step # "idle" => readies[r].number \in Numbers

(* A reading without a blocker showed the pull request ready to be merged; *)
(* a clean one has no blocker and no unresolved thread.                    *)
ReadingTrue(q) ==
  LET seen == readings[q].seen IN
    /\ ~readings[q].blocked =>
         seen.state = "open" /\ ~seen.draft /\ seen.mergeable /\ seen.checks = "success"
    /\ readings[q].classification = "clean" => ~readings[q].blocked /\ seen.unresolved = {}

ReadingInv ==
  /\ ReadingsTypeOK
  /\ \A q \in ReadinessCalls :
       /\ readings[q].step \in {"snapshot", "rulesets", "returned"} => readings[q].number \in Numbers
       /\ readings[q].step = "returned" => ReadingTrue(q)

Started(m) == merges[m].step \notin {"idle", "refused"}

(* A merge call that makes requests was authorized by a reading, and the   *)
(* decision and the reading are still those.                               *)
MergeAuthorized(m) ==
  /\ merges[m].number \in Numbers
  /\ Decided
  /\ \E q \in ReadinessCalls :
       readings[q].step = "returned" /\ Authorized(q, merges[m].number)

(* Past its merge, or past the read that found another's, the pull request *)
(* is merged at the pinned head.                                           *)
MergeDone(m) ==
  \/ merges[m].step = "source" /\ merges[m].adopted
  \/ merges[m].step \in {"merged source", "delete", "deleted", "returned"}

MergeInv ==
  /\ MergesTypeOK /\ undisturbedRetries \subseteq MergeCalls
  /\ \A m \in MergeCalls :
       /\ Started(m) => MergeAuthorized(m)
       /\ MergeDone(m) => Pull(m).state = "merged" /\ Pull(m).head = Pinned

IInv == GitHubInv /\ UpsertInv /\ ReadyInv /\ ReadingInv /\ GateTypeOK /\ MergeInv

-----------------------------------------------------------------------------
(* The repository.                                                         *)

LEMMA PullsTyped ==
  ASSUME NEW S, NEW s \in Seq(S), NEW t \in [DOMAIN s -> S]
  PROVE  t \in Seq(S) /\ Len(t) = Len(s) /\ DOMAIN t = DOMAIN s
<1>1. Len(s) \in Nat /\ DOMAIN s = 1 .. Len(s)
  OBVIOUS
<1>2. t \in [1 .. Len(s) -> S]
  BY <1>1
<1>3. t \in Seq(S)
  BY <1>1, <1>2, SeqDef
<1>4. DOMAIN t = 1 .. Len(s)
  BY <1>2
<1>5. QED
  BY <1>1, <1>3, <1>4

(* A request or a move that changes pull requests in place.                *)
LEMMA PullsChanged ==
  ASSUME GitHubInv, pulls' \in [Numbers -> PullRequests],
         source' \in Shas \union {NoSha}, moves' \in 0 .. MaxMoves,
         \A n \in Numbers : pulls[n].state = "merged" =>
           pulls'[n].state = "merged" /\ pulls'[n].head = pulls[n].head
  PROVE  GitHubInv' /\ PullsKept
<1>1. pulls' \in Seq(PullRequests) /\ Len(pulls') = Len(pulls) /\ DOMAIN pulls' = DOMAIN pulls
  BY PullsTyped DEF GitHubInv, GitHubTypeOK, Numbers
<1>2. QED
  BY <1>1 DEF GitHubInv, GitHubTypeOK, PullsKept, Numbers

(* One that opens a pull request.                                          *)
LEMMA PullOpened ==
  ASSUME GitHubInv, NEW pull \in PullRequests, Len(pulls) < MaxPulls,
         pulls' = Append(pulls, pull), source' = source, moves' \in 0 .. MaxMoves
  PROVE  /\ GitHubInv' /\ PullsKept
         /\ Len(pulls) + 1 \in Numbers' /\ Len(pulls) + 1 \in 0 .. MaxPulls
<1>1. /\ pulls \in Seq(PullRequests) /\ Len(pulls) \in Nat /\ MaxPulls \in Nat
      /\ Numbers = 1 .. Len(pulls)
  BY GitHubAssumption DEF GitHubInv, GitHubTypeOK, Numbers
<1>2. /\ pulls' \in Seq(PullRequests) /\ Len(pulls') = Len(pulls) + 1
      /\ \A n \in 1 .. Len(pulls) : pulls'[n] = pulls[n]
  BY <1>1, AppendProperties
<1>3. Numbers' = 1 .. Len(pulls) + 1
  BY <1>1, <1>2 DEF Numbers
<1>4. QED
  BY <1>1, <1>2, <1>3 DEF GitHubInv, GitHubTypeOK, PullsKept

LEMMA GitHubUnchanged ==
  ASSUME GitHubInv, UNCHANGED githubVars
  PROVE  GitHubInv' /\ PullsKept
BY DEF GitHubInv, GitHubTypeOK, PullsKept, Numbers, githubVars

LEMMA PullTyped ==
  ASSUME GitHubInv, NEW n \in Numbers
  PROVE  pulls[n] \in PullRequests
BY DEF GitHubInv, GitHubTypeOK, Numbers

LEMMA Requested ==
  ASSUME GitHubInv, NEW n \in Numbers
  PROVE  /\ \A text \in Texts, marker \in Operations \union {NoMarker} :
              PatchPull(n, text, marker) => GitHubInv' /\ PullsKept
         /\ ReadyPull(n) => GitHubInv' /\ PullsKept
         /\ \A sha \in Shas : MergePull(n, sha) => GitHubInv' /\ PullsKept
<1>0. /\ pulls \in [Numbers -> PullRequests] /\ moves \in 0 .. MaxMoves
      /\ source \in Shas \union {NoSha}
  BY DEF GitHubInv, GitHubTypeOK, Numbers
<1>1. ASSUME NEW text \in Texts, NEW marker \in Operations \union {NoMarker},
             PatchPull(n, text, marker)
      PROVE  GitHubInv' /\ PullsKept
  <2>1. [pulls[n] EXCEPT !.text = text, !.marker = marker] \in PullRequests
    BY <1>0 DEF PullRequests
  <2>2. pulls' = [pulls EXCEPT ![n] = [pulls[n] EXCEPT !.text = text, !.marker = marker]]
    BY <1>0, <1>1, <2>1 DEF PatchPull, PullRequests
  <2>3. QED
    BY <1>0, <1>1, <2>1, <2>2, PullsChanged DEF PatchPull, PullRequests
<1>2. ASSUME ReadyPull(n) PROVE GitHubInv' /\ PullsKept
  BY <1>0, <1>2, PullsChanged DEF ReadyPull, PullRequests
<1>3. ASSUME NEW sha \in Shas, MergePull(n, sha) PROVE GitHubInv' /\ PullsKept
  BY <1>0, <1>3, PullsChanged DEF MergePull, PullRequests
<1>4. QED
  BY <1>1, <1>2, <1>3

LEMMA SourceDeleted ==
  ASSUME GitHubInv, DeleteSource
  PROVE  GitHubInv' /\ PullsKept
<1>0. /\ pulls \in [Numbers -> PullRequests] /\ moves \in 0 .. MaxMoves
  BY DEF GitHubInv, GitHubTypeOK, Numbers
<1>1. \A n \in Numbers : Closed(n) \in PullRequests
  BY <1>0 DEF Closed, PullRequests
<1>2. QED
  BY <1>0, <1>1, PullsChanged DEF DeleteSource, Closed, PullRequests

LEMMA OthersMoved ==
  ASSUME GitHubInv, Others
  PROVE  GitHubInv' /\ PullsKept
<1>0. /\ pulls \in [Numbers -> PullRequests] /\ moves \in 0 .. MaxMoves
      /\ source \in Shas \union {NoSha} /\ MaxMoves \in Nat
  BY GitHubAssumption DEF GitHubInv, GitHubTypeOK, Numbers
<1>1. moves' \in 0 .. MaxMoves
  BY <1>0 DEF Others
<1>2. CASE OthersPush
  <2>1. PICK sha \in Shas : source' = sha /\ pulls' = [n \in Numbers |-> Moved(n, sha)]
    BY <1>2 DEF OthersPush
  <2>2. \A n \in Numbers : /\ Moved(n, sha) \in PullRequests
                           /\ pulls[n].state = "merged" => Moved(n, sha) = pulls[n]
    BY <1>0 DEF Moved, PullRequests
  <2>3. QED
    BY <1>0, <1>1, <2>1, <2>2, PullsChanged
<1>3. CASE OthersDeleteSource
  <2>1. \A n \in Numbers : /\ Closed(n) \in PullRequests
                           /\ pulls[n].state = "merged" => Closed(n) = pulls[n]
    BY <1>0 DEF Closed, PullRequests
  <2>2. QED
    BY <1>0, <1>1, <1>3, <2>1, PullsChanged DEF OthersDeleteSource
<1>4. CASE OthersOpen
  <2>1. PICK text \in Texts :
          pulls' = Append(pulls, [head |-> source, text |-> text, marker |-> NoMarker,
                                  draft |-> FALSE, mergeable |-> TRUE, state |-> "open",
                                  checks |-> "success", unresolved |-> {}])
    BY <1>4 DEF OthersOpen
  <2>2. [head |-> source, text |-> text, marker |-> NoMarker, draft |-> FALSE,
         mergeable |-> TRUE, state |-> "open", checks |-> "success", unresolved |-> {}]
          \in PullRequests
    BY <1>0, <1>4 DEF OthersOpen, PullRequests, Verdicts
  <2>3. QED
    BY <1>1, <1>4, <2>1, <2>2, PullOpened DEF OthersOpen
<1>5. CASE OthersEdit
  <2>1. PICK n \in Open :
          \/ \E text \in Texts \ {pulls[n].text} : pulls' = [pulls EXCEPT ![n].text = text]
          \/ pulls' = [pulls EXCEPT ![n].marker = NoMarker]
          \/ pulls' = [pulls EXCEPT ![n].draft = ~@]
          \/ pulls' = [pulls EXCEPT ![n].mergeable = ~@]
          \/ \E verdict \in Verdicts \ {pulls[n].checks} :
               pulls' = [pulls EXCEPT ![n].checks = verdict]
          \/ \E t \in Threads :
               pulls' = [pulls EXCEPT ![n].unresolved = IF t \in @ THEN @ \ {t} ELSE @ \union {t}]
          \/ pulls' = [pulls EXCEPT ![n].state = "closed"]
          \/ ~pulls[n].draft /\ pulls' = [pulls EXCEPT ![n].state = "merged"]
    BY <1>5 DEF OthersEdit
  <2>2. n \in Numbers /\ pulls[n].state = "open" /\ source' = source
    BY <1>5, <2>1 DEF Open, OthersEdit
  <2>3. PICK edited \in PullRequests : pulls' = [pulls EXCEPT ![n] = edited]
    <3>1. CASE \E text \in Texts \ {pulls[n].text} : pulls' = [pulls EXCEPT ![n].text = text]
      BY <1>0, <2>2, <3>1 DEF PullRequests
    <3>2. CASE pulls' = [pulls EXCEPT ![n].marker = NoMarker]
      BY <1>0, <2>2, <3>2 DEF PullRequests
    <3>3. CASE pulls' = [pulls EXCEPT ![n].draft = ~@]
      BY <1>0, <2>2, <3>3 DEF PullRequests
    <3>4. CASE pulls' = [pulls EXCEPT ![n].mergeable = ~@]
      BY <1>0, <2>2, <3>4 DEF PullRequests
    <3>5. CASE \E verdict \in Verdicts \ {pulls[n].checks} :
                 pulls' = [pulls EXCEPT ![n].checks = verdict]
      BY <1>0, <2>2, <3>5 DEF PullRequests
    <3>6. CASE \E t \in Threads :
                 pulls' = [pulls EXCEPT ![n].unresolved = IF t \in @ THEN @ \ {t} ELSE @ \union {t}]
      <4>1. PICK t \in Threads :
              pulls' = [pulls EXCEPT ![n].unresolved = IF t \in @ THEN @ \ {t} ELSE @ \union {t}]
        BY <3>6
      <4>2. PICK others \in SUBSET Threads : pulls' = [pulls EXCEPT ![n].unresolved = others]
        <5>1. pulls[n].unresolved \in SUBSET Threads
          BY <1>0, <2>2 DEF PullRequests
        <5>2. CASE t \in pulls[n].unresolved
          <6>1. pulls' = [pulls EXCEPT ![n].unresolved = pulls[n].unresolved \ {t}]
            BY <1>0, <2>2, <4>1, <5>2
          <6>2. pulls[n].unresolved \ {t} \in SUBSET Threads
            BY <5>1
          <6>3. QED
            BY <6>1, <6>2
        <5>3. CASE t \notin pulls[n].unresolved
          <6>1. pulls' = [pulls EXCEPT ![n].unresolved = pulls[n].unresolved \union {t}]
            BY <1>0, <2>2, <4>1, <5>3
          <6>2. pulls[n].unresolved \union {t} \in SUBSET Threads
            BY <4>1, <5>1
          <6>3. QED
            BY <6>1, <6>2
        <5>4. QED
          BY <5>2, <5>3
      <4>3. QED
        BY <1>0, <2>2, <4>2 DEF PullRequests
    <3>7. CASE pulls' = [pulls EXCEPT ![n].state = "closed"]
      BY <1>0, <2>2, <3>7 DEF PullRequests
    <3>8. CASE pulls' = [pulls EXCEPT ![n].state = "merged"]
      BY <1>0, <2>2, <3>8 DEF PullRequests
    <3>9. QED
      BY <2>1, <3>1, <3>2, <3>3, <3>4, <3>5, <3>6, <3>7, <3>8
  <2>4. QED
    BY <1>0, <1>1, <2>2, <2>3, PullsChanged DEF PullRequests
<1>6. QED
  BY <1>2, <1>3, <1>4, <1>5 DEF Others

-----------------------------------------------------------------------------
(* What the classification of a reading says of the pull request it saw.   *)

LEMMA UnblockedIsReady ==
  ASSUME NEW pull \in PullRequests, NEW answer \in Answers,
         ~Blocked(parseGitHubReadinessResponse(pull, answer))
  PROVE  pull.state = "open" /\ ~pull.draft /\ pull.mergeable /\ pull.checks = "success"
<1> DEFINE s == parseGitHubReadinessResponse(pull, answer)
<1>1. /\ s.state = pull.state /\ s.draft = pull.draft
      /\ s.mergeable = "mergeable" => pull.mergeable
  BY DEF parseGitHubReadinessResponse, PullRequests, Answers
<1>2. /\ s.state = "open" /\ ~s.draft /\ s.mergeable = "mergeable" /\ s.required = "success"
      /\ s.checksComplete = "complete" /\ s.requiredChecksComplete = "complete"
  BY DEF Blocked
<1>3. answer.rollup = "complete" /\ requiredChecksComplete(answer) = "complete"
  BY <1>2 DEF parseGitHubReadinessResponse
<1>4. pull.checks = "success"
  BY <1>2, <1>3 DEF parseGitHubReadinessResponse, requiredChecks
<1>5. QED
  BY <1>1, <1>2, <1>4

LEMMA CleanIsUnblocked ==
  ASSUME NEW pull \in PullRequests, NEW answer \in Answers,
         classify(parseGitHubReadinessResponse(pull, answer)) = "clean"
  PROVE  /\ ~Blocked(parseGitHubReadinessResponse(pull, answer))
         /\ pull.unresolved = {}
<1> DEFINE s == parseGitHubReadinessResponse(pull, answer)
<1>1. /\ s.state = pull.state /\ s.unresolved = pull.unresolved
      /\ s.mergeable \in {"unknown", "mergeable", "conflicting"}
      /\ s.required \in {"success", "pending", "failure"}
      /\ s.checksComplete \in Completeness /\ s.threadsComplete \in {"complete", "truncated"}
  BY DEF parseGitHubReadinessResponse, requiredChecks, PullRequests, Answers, Verdicts
<1>2. s.state = "open"
  BY <1>1 DEF classify, PullRequests
<1>3. /\ s.threadsComplete = "complete" /\ s.checksComplete # "truncated" /\ ~s.draft
      /\ s.unresolved = {} /\ s.required # "failure" /\ ~Unsettled(s)
      /\ s.mergeable # "conflicting" /\ s.mergeState \in MergeStates
  BY <1>2 DEF classify
<1>4. QED
  BY <1>1, <1>2, <1>3 DEF Unsettled, Blocked, Completeness

LEMMA Classified ==
  ASSUME NEW pull \in PullRequests, NEW answer \in Answers
  PROVE  classify(parseGitHubReadinessResponse(pull, answer)) \in Classifications \ {"none"}
<1>1. parseGitHubReadinessResponse(pull, answer).state \in {"open", "closed", "merged"}
  BY DEF parseGitHubReadinessResponse, PullRequests
<1>2. QED
  BY <1>1 DEF classify, Classifications

-----------------------------------------------------------------------------
(* Each actor keeps the invariant.                                         *)

LEMMA Initially == Init => IInv
<1> SUFFICES ASSUME Init PROVE IInv
  OBVIOUS
<1> USE DEF Init
<1>1. GitHubInv
  BY GitHubAssumption, EmptySeq DEF GitHubInit, GitHubInv, GitHubTypeOK
<1>2. UpsertInv
  BY GitHubAssumption DEF UpsertsInit, UpsertInv, UpsertsTypeOK, UpsertSteps
<1>3. ReadyInv
  BY GitHubAssumption DEF ReadiesInit, ReadyInv, ReadiesTypeOK, ReadySteps
<1>4. ReadingInv
  BY GitHubAssumption DEF ReadingsInit, NoReading, ReadingInv, ReadingsTypeOK, ReadinessSteps, Classifications
<1>5. GateTypeOK
  BY DEF GateInit, GateTypeOK
<1>6. MergeInv
  <2>1. /\ NoMerge \in [step : MergeSteps, number : 0 .. MaxPulls, mergeable : BOOLEAN, adopted : BOOLEAN]
        /\ NoMerge.step = "idle"
    BY GitHubAssumption DEF NoMerge, MergeSteps
  <2>2. MergesTypeOK /\ \A m \in MergeCalls : merges[m].step = "idle"
    BY <2>1 DEF MergesInit, MergesTypeOK
  <2>3. QED
    BY <2>2 DEF MergeInv, Started, MergeDone
<1>7. QED
  BY <1>1, <1>2, <1>3, <1>4, <1>5, <1>6 DEF IInv

(* What others do to the repository leaves the calls as they were.         *)
LEMMA UpsertFrame ==
  ASSUME UpsertInv, PullsKept, UNCHANGED upserts PROVE UpsertInv'
BY DEF UpsertInv, UpsertsTypeOK, PullsKept

LEMMA ReadyFrame ==
  ASSUME ReadyInv, PullsKept, UNCHANGED readies PROVE ReadyInv'
BY DEF ReadyInv, ReadiesTypeOK, PullsKept

LEMMA ReadingFrame ==
  ASSUME ReadingInv, PullsKept, UNCHANGED readings PROVE ReadingInv'
BY DEF ReadingInv, ReadingsTypeOK, ReadingTrue, PullsKept

LEMMA AuthorizedFrame ==
  ASSUME NEW q \in ReadinessCalls, NEW n, UNCHANGED <<readings[q], decision>>
  PROVE  Authorized(q, n)' = Authorized(q, n)
BY DEF Authorized, assertArtifactEquality, assertGate, AuditMatches, sameSortedUniqueIds, Listed

LEMMA MergeFrame ==
  ASSUME MergeInv, PullsKept, UNCHANGED mergeVars, UNCHANGED decision,
         \A q \in ReadinessCalls : readings[q].step = "returned" => UNCHANGED readings[q]
  PROVE  MergeInv'
<1>1. UNCHANGED <<merges, undisturbedRetries>>
  BY DEF mergeVars
<1>2. MergesTypeOK' /\ undisturbedRetries' \subseteq MergeCalls
  BY <1>1 DEF MergeInv, MergesTypeOK
<1>3. ASSUME NEW m \in MergeCalls, Started(m)' PROVE MergeAuthorized(m)'
  <2>1. Started(m) /\ MergeAuthorized(m)
    BY <1>1, <1>3 DEF MergeInv, Started
  <2>2. PICK q \in ReadinessCalls : readings[q].step = "returned" /\ Authorized(q, merges[m].number)
    BY <2>1 DEF MergeAuthorized
  <2>3. UNCHANGED readings[q]
    BY <2>2
  <2>4. Authorized(q, merges[m].number)'
    BY <1>1, <2>2, <2>3, AuthorizedFrame
  <2>5. merges'[m].number \in Numbers'
    BY <1>1, <2>1 DEF MergeAuthorized, PullsKept
  <2>6. QED
    BY <2>1, <2>2, <2>3, <2>4, <2>5 DEF MergeAuthorized, Decided, Undecided
<1>4. ASSUME NEW m \in MergeCalls, MergeDone(m)'
      PROVE  Pull(m)'.state = "merged" /\ Pull(m)'.head = Pinned
  <2>1. /\ MergeDone(m) /\ Started(m)
        /\ Pull(m).state = "merged" /\ Pull(m).head = Pinned
    BY <1>1, <1>4 DEF MergeInv, MergeDone, Started
  <2>2. merges[m].number \in Numbers
    BY <2>1 DEF MergeInv, MergeAuthorized
  <2>3. QED
    BY <1>1, <2>1, <2>2 DEF PullsKept, Pull
<1>5. QED
  BY <1>2, <1>3, <1>4 DEF MergeInv

LEMMA UpsertKeeps ==
  ASSUME IInv, NEW u \in UpsertCalls, UpsertStep(u)
  PROVE  GitHubInv' /\ PullsKept /\ UpsertInv'
<1>0. /\ GitHubInv /\ UpsertInv
      /\ upserts \in [UpsertCalls -> [step : UpsertSteps, number : 0 .. MaxPulls]]
      /\ Numbers \subseteq 1 .. MaxPulls /\ MaxPulls \in Nat
      /\ UpsertOf[u] \in Operations /\ Approved \in Texts
  BY GitHubAssumption, UpsertAssumption
     DEF IInv, GitHubInv, GitHubTypeOK, UpsertInv, UpsertsTypeOK, Numbers
<1>1. ASSUME PullsKept, NEW step \in UpsertSteps, NEW n \in 0 .. MaxPulls, UpsertGoes(u, step, n),
             step \in {"update", "readback", "returned"} => n \in Numbers'
      PROVE  UpsertInv'
  <2>1. upserts' = [upserts EXCEPT ![u] = [step |-> step, number |-> n]]
    BY <1>1 DEF UpsertGoes
  <2>2. QED
    BY <1>0, <1>1, <2>1 DEF UpsertInv, UpsertsTypeOK, PullsKept
<1>2. UNCHANGED githubVars => GitHubInv' /\ PullsKept /\ Numbers' = Numbers
  BY <1>0, GitHubUnchanged DEF githubVars, Numbers
<1>3. CASE ReadSourceBranch(u)
  BY <1>0, <1>1, <1>2, <1>3 DEF ReadSourceBranch, UpsertSteps
<1>4. CASE FindNone(u)
  BY <1>0, <1>1, <1>2, <1>4 DEF FindNone, UpsertSteps
<1>5. CASE FindExisting(u)
  <2>1. UNCHANGED githubVars
    BY <1>5 DEF FindExisting
  <2>2. PICK n \in Open, step \in {"conflict", "returned", "update"} : UpsertGoes(u, step, n)
    BY <1>5 DEF FindExisting
  <2>3. QED
    BY <1>0, <1>1, <1>2, <2>1, <2>2 DEF Open, UpsertSteps
<1>6. CASE Create(u)
  <2>1. /\ [head |-> source, text |-> Approved, marker |-> UpsertOf[u], draft |-> TRUE,
            mergeable |-> TRUE, state |-> "open", checks |-> "success", unresolved |-> {}]
              \in PullRequests
        /\ Len(pulls) < MaxPulls /\ UNCHANGED <<source, moves>>
    BY <1>0, <1>6 DEF Create, PostPull, PullRequests, Verdicts, GitHubInv, GitHubTypeOK
  <2>2. /\ GitHubInv' /\ PullsKept
        /\ Len(pulls) + 1 \in Numbers' /\ Len(pulls) + 1 \in 0 .. MaxPulls
    BY <1>0, <1>6, <2>1, PullOpened DEF Create, PostPull, GitHubInv, GitHubTypeOK
  <2>3. UpsertGoes(u, "readback", Len(pulls) + 1) \/ UpsertGoes(u, "failed", 0)
    BY <1>6 DEF Create
  <2>4. QED
    BY <1>0, <1>1, <2>2, <2>3 DEF UpsertSteps
<1>7. CASE Update(u)
  <2>1. upserts[u].number \in Numbers /\ upserts[u].number \in 0 .. MaxPulls
    BY <1>0, <1>7 DEF Update, UpsertInv
  <2>2. GitHubInv' /\ PullsKept
    BY <1>0, <1>7, <2>1, Requested DEF Update
  <2>3. upserts[u].number \in Numbers'
    BY <2>1, <2>2 DEF PullsKept
  <2>4. UpsertGoes(u, "readback", upserts[u].number) \/ UpsertGoes(u, "failed", 0)
    BY <1>7 DEF Update
  <2>5. QED
    BY <1>0, <1>1, <2>1, <2>2, <2>3, <2>4 DEF UpsertSteps
<1>8. CASE ReadBack(u)
  <2>1. /\ UNCHANGED githubVars
        /\ upserts[u].number \in Numbers /\ upserts[u].number \in 0 .. MaxPulls
    BY <1>0, <1>8 DEF ReadBack, UpsertInv
  <2>2. PICK step \in {"conflict", "returned"} : UpsertGoes(u, step, upserts[u].number)
    BY <1>8 DEF ReadBack
  <2>3. QED
    BY <1>0, <1>1, <1>2, <2>1, <2>2 DEF UpsertSteps
<1>9. CASE UpsertFails(u)
  BY <1>0, <1>1, <1>2, <1>9 DEF UpsertFails, UpsertSteps
<1>10. QED
  BY <1>3, <1>4, <1>5, <1>6, <1>7, <1>8, <1>9 DEF UpsertStep

LEMMA ReadyKeeps ==
  ASSUME IInv, NEW r \in ReadyCalls, RequestReady(r) \/ ReadyStep(r)
  PROVE  GitHubInv' /\ PullsKept /\ ReadyInv'
<1>0. /\ GitHubInv /\ ReadyInv /\ UpsertInv
      /\ readies \in [ReadyCalls -> [step : ReadySteps, number : 0 .. MaxPulls]]
      /\ Numbers \subseteq 0 .. MaxPulls
  BY GitHubAssumption DEF IInv, GitHubInv, GitHubTypeOK, ReadyInv, ReadiesTypeOK, Numbers
<1>1. ASSUME PullsKept, NEW step \in ReadySteps, ReadyGoes(r, step), readies[r].step # "idle"
      PROVE  ReadyInv'
  <2>1. readies' = [readies EXCEPT ![r].step = step]
    BY <1>1 DEF ReadyGoes
  <2>2. QED
    BY <1>0, <1>1, <2>1 DEF ReadyInv, ReadiesTypeOK, PullsKept
<1>2. UNCHANGED githubVars => GitHubInv' /\ PullsKept /\ Numbers' = Numbers
  BY <1>0, GitHubUnchanged DEF githubVars, Numbers
<1>3. CASE RequestReady(r)
  <2>1. PICK n \in Upserted : StartReady(r, n)
    BY <1>3 DEF RequestReady
  <2>2. n \in Numbers
    BY <1>0 DEF Upserted, UpsertInv
  <2>3. /\ readies' = [readies EXCEPT ![r] = [step |-> "read", number |-> n]]
        /\ UNCHANGED githubVars
    BY <2>1 DEF StartReady
  <2>4. QED
    BY <1>0, <1>2, <2>2, <2>3 DEF ReadyInv, ReadiesTypeOK, ReadySteps
<1>4. CASE ReadDraft(r)
  <2>1. PICK step \in {"conflict", "returned", "mutate"} : ReadyGoes(r, step)
    BY <1>4 DEF ReadDraft
  <2>2. QED
    BY <1>1, <1>2, <1>4, <2>1 DEF ReadDraft, ReadySteps
<1>5. CASE Mutate(r)
  <2>1. GitHubInv' /\ PullsKept
    BY <1>0, <1>5, Requested DEF Mutate, ReadyInv
  <2>2. PICK step \in {"readback", "invalid", "failed"} : ReadyGoes(r, step)
    BY <1>5 DEF Mutate
  <2>3. QED
    BY <1>1, <1>5, <2>1, <2>2 DEF Mutate, ReadySteps
<1>6. CASE ReadReady(r)
  <2>1. PICK step \in {"conflict", "returned", "invalid"} : ReadyGoes(r, step)
    BY <1>6 DEF ReadReady
  <2>2. QED
    BY <1>1, <1>2, <1>6, <2>1 DEF ReadReady, ReadySteps
<1>7. CASE ReadyFails(r)
  BY <1>1, <1>2, <1>7 DEF ReadyFails, ReadySteps
<1>8. QED
  BY <1>3, <1>4, <1>5, <1>6, <1>7 DEF ReadyStep

LEMMA ReadinessKeeps ==
  ASSUME IInv, NEW q \in ReadinessCalls,
         (\E n \in Readied : StartReadiness(q, n)) \/ ReadinessStep(q, Decided)
  PROVE  /\ GitHubInv' /\ PullsKept /\ ReadingInv'
         /\ \A p \in ReadinessCalls : readings[p].step = "returned" => UNCHANGED readings[p]
<1> DEFINE Readings == [step : ReadinessSteps, number : 0 .. MaxPulls, seen : PullRequests \union {<< >>},
                        classification : Classifications, blocked : BOOLEAN, decided : BOOLEAN]
<1>0. /\ GitHubInv /\ ReadyInv /\ ReadingInv
      /\ readings \in [ReadinessCalls -> Readings]
      /\ Numbers \subseteq 0 .. MaxPulls
      /\ readings[q].step # "returned" => readings[q].classification = "none"
      /\ pulls \in [Numbers -> PullRequests]
  BY GitHubAssumption DEF IInv, GitHubInv, GitHubTypeOK, ReadingInv, ReadingsTypeOK, Numbers
<1>1. /\ readings[q].step # "returned"
      /\ UNCHANGED githubVars
  BY DEF StartReadiness, ReadinessStep, ReadSnapshot, ReadRulesets, ReadinessFails
<1>2. GitHubInv' /\ PullsKept /\ Numbers' = Numbers
  BY <1>0, <1>1, GitHubUnchanged DEF githubVars, Numbers
<1>3. ASSUME NEW new \in Readings, readings' = [readings EXCEPT ![q] = new],
             new.step \in {"rulesets", "returned"} => new.seen \in PullRequests,
             new.step = "returned" <=> new.classification # "none",
             new.step \in {"snapshot", "rulesets", "returned"} => new.number \in Numbers,
             new.step = "returned" => ReadingTrue(q)'
      PROVE  /\ ReadingInv'
             /\ \A p \in ReadinessCalls : readings[p].step = "returned" => UNCHANGED readings[p]
  <2>1. \A p \in ReadinessCalls : readings'[p] = IF p = q THEN new ELSE readings[p]
    BY <1>0, <1>3
  <2>2. \A p \in ReadinessCalls : p # q => ReadingTrue(p)' = ReadingTrue(p)
    BY <2>1 DEF ReadingTrue
  <2>3. QED
    BY <1>0, <1>1, <1>2, <1>3, <2>1, <2>2 DEF ReadingInv, ReadingsTypeOK
<1>4. CASE \E n \in Readied : StartReadiness(q, n)
  <2>1. PICK n \in Readied : StartReadiness(q, n)
    BY <1>4
  <2>2. n \in Numbers
    BY <1>0 DEF Readied, ReadyInv
  <2>3. readings' = [readings EXCEPT ![q] = [readings[q] EXCEPT !.step = "snapshot", !.number = n]]
    BY <1>0, <2>1 DEF StartReadiness
  <2>4. [readings[q] EXCEPT !.step = "snapshot", !.number = n] \in Readings
    BY <1>0, <2>2 DEF ReadinessSteps
  <2>5. QED
    BY <1>0, <1>1, <1>2, <1>3, <2>2, <2>3, <2>4
<1>5. CASE ReadSnapshot(q)
  <2>1. readings[q].step = "snapshot" /\ readings[q].number \in Numbers
    BY <1>0, <1>5 DEF ReadSnapshot, ReadingInv
  <2>2. CASE readings' = [readings EXCEPT ![q].step = "rulesets", ![q].seen = pulls[readings[q].number]]
    <3>1. pulls[readings[q].number] \in PullRequests
      BY <1>0, <2>1
    <3>2. readings' = [readings EXCEPT ![q] = [readings[q] EXCEPT !.step = "rulesets",
                                                                 !.seen = pulls[readings[q].number]]]
      BY <1>0, <2>2
    <3>3. [readings[q] EXCEPT !.step = "rulesets", !.seen = pulls[readings[q].number]] \in Readings
      BY <1>0, <3>1 DEF ReadinessSteps
    <3>4. QED
      BY <1>0, <1>1, <1>2, <1>3, <2>1, <3>1, <3>2, <3>3
  <2>3. CASE readings' = [readings EXCEPT ![q].step = "invalid"]
    <3>1. readings' = [readings EXCEPT ![q] = [readings[q] EXCEPT !.step = "invalid"]]
      BY <1>0, <2>3
    <3>2. [readings[q] EXCEPT !.step = "invalid"] \in Readings
      BY <1>0 DEF ReadinessSteps
    <3>3. QED
      BY <1>0, <1>1, <1>2, <1>3, <3>1, <3>2
  <2>4. QED
    BY <1>5, <2>2, <2>3 DEF ReadSnapshot
<1>6. CASE ReadRulesets(q, Decided)
  <2>1. /\ readings[q].step = "rulesets" /\ readings[q].number \in Numbers
        /\ readings[q].seen \in PullRequests
    BY <1>0, <1>6 DEF ReadRulesets, ReadingInv, ReadingsTypeOK
  <2>2. PICK answer \in Answers :
          LET snapshot == parseGitHubReadinessResponse(readings[q].seen, answer) IN
            readings' = [readings EXCEPT ![q].step = "returned", ![q].decided = Decided,
                                         ![q].classification = classify(snapshot),
                                         ![q].blocked = Blocked(snapshot)]
    BY <1>6 DEF ReadRulesets
  <2> DEFINE snapshot == parseGitHubReadinessResponse(readings[q].seen, answer)
             new == [readings[q] EXCEPT !.step = "returned", !.decided = Decided,
                                        !.classification = classify(snapshot),
                                        !.blocked = Blocked(snapshot)]
  <2>3. readings' = [readings EXCEPT ![q] = new]
    BY <1>0, <2>2
  <2>4. classify(snapshot) \in Classifications \ {"none"}
    BY <2>1, Classified
  <2>5. Decided \in BOOLEAN /\ Blocked(snapshot) \in BOOLEAN
    BY DEF Decided, Blocked
  <2>6. new \in Readings
    BY <1>0, <2>4, <2>5 DEF ReadinessSteps
  <2>7. /\ new.seen = readings[q].seen /\ new.blocked = Blocked(snapshot)
        /\ new.classification = classify(snapshot) /\ new.step = "returned"
        /\ new.number = readings[q].number
    BY <1>0
  <2>8. readings'[q] = new
    BY <1>0, <2>3
  <2> HIDE DEF new
  <2>9. ReadingTrue(q)'
    BY <2>1, <2>7, <2>8, UnblockedIsReady, CleanIsUnblocked DEF ReadingTrue
  <2>10. /\ new.step \in {"rulesets", "returned"} => new.seen \in PullRequests
         /\ new.step = "returned" <=> new.classification # "none"
         /\ new.step \in {"snapshot", "rulesets", "returned"} => new.number \in Numbers
    BY <2>1, <2>4, <2>7
  <2> HIDE DEF Readings
  <2>11. /\ ReadingInv'
         /\ \A p \in ReadinessCalls : readings[p].step = "returned" => UNCHANGED readings[p]
    BY <1>3, <2>3, <2>6, <2>9, <2>10
  <2>12. QED
    BY <1>2, <2>11
<1>7. CASE ReadinessFails(q)
  <2> DEFINE new == [NoReading EXCEPT !.step = "failed"]
  <2>1. NoReading \in Readings
    BY GitHubAssumption DEF NoReading, ReadinessSteps, Classifications
  <2>2. new \in Readings /\ new.step = "failed" /\ new.classification = "none"
    BY <2>1 DEF NoReading, ReadinessSteps
  <2>3. readings' = [readings EXCEPT ![q] = new]
    BY <1>7 DEF ReadinessFails
  <2> HIDE DEF new, Readings
  <2>4. /\ ReadingInv'
        /\ \A p \in ReadinessCalls : readings[p].step = "returned" => UNCHANGED readings[p]
    BY <1>3, <2>2, <2>3
  <2>5. QED
    BY <1>2, <2>4
<1>8. QED
  BY <1>1, <1>2, <1>4, <1>5, <1>6, <1>7 DEF ReadinessStep

(* What a step of a merge call finds: the numbers and heads of its calls.  *)
LEMMA MergeFacts ==
  ASSUME IInv, NEW m \in MergeCalls
  PROVE  /\ merges \in [MergeCalls -> [step : MergeSteps, number : 0 .. MaxPulls,
                                       mergeable : BOOLEAN, adopted : BOOLEAN]]
         /\ Started(m) => MergeAuthorized(m) /\ merges[m].number \in Numbers
         /\ MergeDone(m) => Pull(m).state = "merged" /\ Pull(m).head = Pinned
         /\ MergeDone(m) => Started(m)
         /\ GitHubInv /\ Pinned \in Shas
BY GitHubAssumption DEF IInv, MergeInv, MergesTypeOK, MergeAuthorized, MergeDone, Started

(* A step of one call, which leaves readings and the decision alone: its   *)
(* own new state is to be accounted for.                                   *)
LEMMA MergeMoves ==
  ASSUME IInv, PullsKept, UNCHANGED gateVars, NEW m \in MergeCalls,
         undisturbedRetries' \subseteq MergeCalls,
         NEW new \in [step : MergeSteps, number : 0 .. MaxPulls, mergeable : BOOLEAN, adopted : BOOLEAN],
         merges' = [merges EXCEPT ![m] = new],
         Started(m)' => MergeAuthorized(m)',
         MergeDone(m)' => Pull(m)'.state = "merged" /\ Pull(m)'.head = Pinned
  PROVE  MergeInv'
<1>1. /\ MergesTypeOK'
      /\ \A o \in MergeCalls : o # m => merges'[o] = merges[o]
  BY DEF IInv, MergeInv, MergesTypeOK
<1>2. ASSUME NEW o \in MergeCalls, o # m, Started(o)' PROVE MergeAuthorized(o)'
  <2>1. Started(o) /\ MergeAuthorized(o)
    BY <1>1, <1>2, MergeFacts DEF Started
  <2>2. PICK q \in ReadinessCalls : readings[q].step = "returned" /\ Authorized(q, merges[o].number)
    BY <2>1 DEF MergeAuthorized
  <2>3. Authorized(q, merges[o].number)'
    BY <1>1, <1>2, <2>2, AuthorizedFrame DEF gateVars
  <2>4. QED
    BY <1>1, <1>2, <2>1, <2>2, <2>3 DEF MergeAuthorized, PullsKept, gateVars, Decided, Undecided
<1>3. ASSUME NEW o \in MergeCalls, o # m, MergeDone(o)'
      PROVE  Pull(o)'.state = "merged" /\ Pull(o)'.head = Pinned
  <2>1. /\ merges[o].number \in Numbers
        /\ Pull(o).state = "merged" /\ Pull(o).head = Pinned
    BY <1>1, <1>3, MergeFacts DEF MergeDone
  <2>2. QED
    BY <1>1, <1>3, <2>1 DEF PullsKept, Pull
<1>4. QED
  BY <1>1, <1>2, <1>3 DEF MergeInv

LEMMA MergeStarts ==
  ASSUME IInv, UNCHANGED gateVars, NEW m \in MergeCalls,
         NEW n \in Readied, NEW q \in ReadinessCalls, StartMergeOf(m, n, q)
  PROVE  GitHubInv' /\ PullsKept /\ MergeInv'
<1>0. /\ merges \in [MergeCalls -> [step : MergeSteps, number : 0 .. MaxPulls,
                                    mergeable : BOOLEAN, adopted : BOOLEAN]]
      /\ GitHubInv /\ undisturbedRetries \subseteq MergeCalls
  BY MergeFacts DEF IInv, MergeInv
<1>1. UNCHANGED githubVars
  BY DEF StartMergeOf, StartMerge
<1>2. GitHubInv' /\ PullsKept /\ Numbers' = Numbers
  BY <1>0, <1>1, GitHubUnchanged DEF githubVars, Numbers
<1>3. undisturbedRetries' \subseteq MergeCalls
  BY <1>0 DEF StartMergeOf
<1>4. n \in Numbers /\ n \in 0 .. MaxPulls
  BY GitHubAssumption DEF IInv, ReadyInv, Readied, Numbers, GitHubInv, GitHubTypeOK
<1>5. CASE Authorized(q, n)
  <2> DEFINE new == [NoMerge EXCEPT !.step = "read", !.number = n]
  <2>1. merges' = [merges EXCEPT ![m] = new]
    BY <1>5 DEF StartMergeOf, StartMerge
  <2>2. /\ NoMerge \in [step : MergeSteps, number : 0 .. MaxPulls, mergeable : BOOLEAN, adopted : BOOLEAN]
        /\ new.step = "read" /\ new.number = n
    BY GitHubAssumption DEF NoMerge, MergeSteps
  <2>3. new \in [step : MergeSteps, number : 0 .. MaxPulls, mergeable : BOOLEAN, adopted : BOOLEAN]
    BY <1>4, <2>2 DEF MergeSteps
  <2>4. merges'[m].step = "read" /\ merges'[m].number = n
    BY <1>0, <2>1, <2>2
  <2>5. Authorized(q, n)'
    BY <1>5, AuthorizedFrame DEF gateVars
  <2>6. MergeAuthorized(m)' /\ ~MergeDone(m)'
    BY <1>2, <1>4, <2>4, <2>5 DEF MergeAuthorized, MergeDone, StartMergeOf, gateVars, Decided, Undecided
  <2> HIDE DEF new
  <2>7. QED
    BY <1>2, <1>3, <2>1, <2>3, <2>6, MergeMoves
<1>6. CASE ~Authorized(q, n)
  <2>1. merges' = [merges EXCEPT ![m] = [merges[m] EXCEPT !.step = "refused"]]
    BY <1>0, <1>6 DEF StartMergeOf, MergeGoes
  <2>2. [merges[m] EXCEPT !.step = "refused"] \in
          [step : MergeSteps, number : 0 .. MaxPulls, mergeable : BOOLEAN, adopted : BOOLEAN]
    BY <1>0 DEF MergeSteps
  <2>3. merges'[m].step = "refused"
    BY <1>0, <2>1
  <2>4. ~Started(m)' /\ ~MergeDone(m)'
    BY <2>3 DEF Started, MergeDone
  <2>5. QED
    BY <1>2, <1>3, <2>1, <2>2, <2>4, MergeMoves
<1>7. QED
  BY <1>5, <1>6

LEMMA MergeKeeps ==
  ASSUME IInv, UNCHANGED <<gateVars, undisturbedRetries>>, NEW m \in MergeCalls, MergeStep(m)
  PROVE  GitHubInv' /\ PullsKept /\ MergeInv'
<1>0. /\ merges \in [MergeCalls -> [step : MergeSteps, number : 0 .. MaxPulls,
                                    mergeable : BOOLEAN, adopted : BOOLEAN]]
      /\ GitHubInv /\ undisturbedRetries' \subseteq MergeCalls
      /\ MergeDone(m) => Pull(m).state = "merged" /\ Pull(m).head = Pinned
      /\ Pinned \in Shas
  BY MergeFacts DEF IInv, MergeInv
<1>1. Started(m) /\ MergeAuthorized(m) /\ merges[m].number \in Numbers
  BY MergeFacts DEF MergeStep, ReadPull, ReadSource, RequestMerge, ConfirmMerge, ReadMergedSource,
                    DeleteBranch, ConfirmDeletion, MergeFails, Started
<1>2. UNCHANGED githubVars => GitHubInv' /\ PullsKept /\ Pull(m)' = pulls[merges'[m].number]
  BY <1>0, GitHubUnchanged DEF githubVars, Pull
<1>3. ASSUME PullsKept, merges'[m].number = merges[m].number PROVE MergeAuthorized(m)'
  <2>1. PICK q \in ReadinessCalls : readings[q].step = "returned" /\ Authorized(q, merges[m].number)
    BY <1>1 DEF MergeAuthorized
  <2>2. Authorized(q, merges[m].number)'
    BY <1>3, <2>1, AuthorizedFrame DEF gateVars
  <2>3. QED
    BY <1>1, <1>3, <2>1, <2>2 DEF MergeAuthorized, PullsKept, gateVars, Decided, Undecided
<1>4. ASSUME PullsKept, NEW step \in MergeSteps, MergeGoes(m, step),
             step \in {"merged source", "delete", "deleted", "returned"} =>
               pulls'[merges[m].number].state = "merged" /\ pulls'[merges[m].number].head = Pinned,
             step # "source"
      PROVE  MergeInv'
  <2>1. merges' = [merges EXCEPT ![m] = [merges[m] EXCEPT !.step = step]]
    BY <1>0, <1>4 DEF MergeGoes
  <2>2. [merges[m] EXCEPT !.step = step] \in
          [step : MergeSteps, number : 0 .. MaxPulls, mergeable : BOOLEAN, adopted : BOOLEAN]
    BY <1>0, <1>4
  <2>3. merges'[m].step = step /\ merges'[m].number = merges[m].number
    BY <1>0, <2>1
  <2>4. MergeDone(m)' => Pull(m)'.state = "merged" /\ Pull(m)'.head = Pinned
    BY <1>4, <2>3 DEF MergeDone, Pull
  <2>5. QED
    BY <1>0, <1>3, <1>4, <2>1, <2>2, <2>3, <2>4, MergeMoves
(* The pull request of a call past its merge is still merged.              *)
<1>5. ASSUME MergeDone(m), PullsKept
      PROVE  pulls'[merges[m].number].state = "merged" /\ pulls'[merges[m].number].head = Pinned
  BY <1>0, <1>1, <1>5 DEF PullsKept, Pull
<1>6. CASE ReadPull(m)
  <2>1. UNCHANGED githubVars
    BY <1>6 DEF ReadPull
  <2>2. CASE Readable(m, Pull(m))
    <3> DEFINE new == [merges[m] EXCEPT !.step = "source", !.mergeable = Mergeable(Pull(m)),
                                        !.adopted = Pull(m).state = "merged"]
    <3>1. merges' = [merges EXCEPT ![m] = new]
      BY <1>0, <1>6, <2>2 DEF ReadPull
    <3>2. Mergeable(Pull(m)) \in BOOLEAN /\ (Pull(m).state = "merged") \in BOOLEAN
      BY PullTyped, <1>0, <1>1 DEF Mergeable, Pull, PullRequests
    <3>3. new \in [step : MergeSteps, number : 0 .. MaxPulls, mergeable : BOOLEAN, adopted : BOOLEAN]
      BY <1>0, <3>2 DEF MergeSteps
    <3>4. /\ merges'[m].step = "source" /\ merges'[m].number = merges[m].number
          /\ merges'[m].adopted = (Pull(m).state = "merged")
      BY <1>0, <3>1
    <3>5. MergeDone(m)' => Pull(m)'.state = "merged" /\ Pull(m)'.head = Pinned
      BY <2>1, <2>2, <3>4 DEF MergeDone, Pull, Readable, githubVars
    <3> HIDE DEF new
    <3>6. QED
      BY <1>0, <1>2, <1>3, <2>1, <3>1, <3>3, <3>4, <3>5, MergeMoves
  <2>3. CASE ~Readable(m, Pull(m))
    BY <1>2, <1>4, <1>6, <2>1, <2>3 DEF ReadPull, MergeSteps
  <2>4. QED
    BY <2>2, <2>3
<1>7. CASE ReadSource(m)
  <2>1. UNCHANGED githubVars /\ merges[m].step = "source" /\ MergeGoes(m, AfterSource(m))
    BY <1>7 DEF ReadSource
  <2>2. AfterSource(m) \in {"returned", "delete", "conflict", "put"}
    BY DEF AfterSource, Reconciled
  <2>3. AfterSource(m) \in {"returned", "delete"} => MergeDone(m)
    BY <2>1 DEF AfterSource, MergeDone
  <2>4. QED
    BY <1>2, <1>4, <1>5, <2>1, <2>2, <2>3 DEF MergeSteps
<1>8. CASE RequestMerge(m)
  <2>1. GitHubInv' /\ PullsKept
    BY <1>0, <1>1, <1>8, Requested DEF RequestMerge
  <2>2. PICK step \in {"confirm", "failed"} : MergeGoes(m, step)
    BY <1>8 DEF RequestMerge
  <2>3. QED
    BY <1>4, <2>1, <2>2 DEF MergeSteps
<1>9. CASE ConfirmMerge(m)
  <2>1. UNCHANGED githubVars
    BY <1>9 DEF ConfirmMerge
  <2>2. CASE Readable(m, Pull(m)) /\ Pull(m).state = "merged"
    <3>1. MergeGoes(m, "merged source")
      BY <1>9, <2>2 DEF ConfirmMerge
    <3>2. QED
      BY <1>2, <1>4, <2>1, <2>2, <3>1 DEF MergeSteps, Readable, Pull, githubVars
  <2>3. CASE ~(Readable(m, Pull(m)) /\ Pull(m).state = "merged")
    <3>1. PICK step \in {"conflict", "invalid"} : MergeGoes(m, step)
      BY <1>9, <2>3 DEF ConfirmMerge
    <3>2. QED
      BY <1>2, <1>4, <2>1, <3>1 DEF MergeSteps
  <2>4. QED
    BY <2>2, <2>3
<1>10. CASE ReadMergedSource(m)
  <2>1. UNCHANGED githubVars /\ MergeDone(m) /\ MergeGoes(m, Reconciled)
    BY <1>10 DEF ReadMergedSource, MergeDone
  <2>2. Reconciled \in {"returned", "delete", "conflict"}
    BY DEF Reconciled
  <2>3. QED
    BY <1>2, <1>4, <1>5, <2>1, <2>2 DEF MergeSteps
<1>11. CASE DeleteBranch(m)
  <2>1. MergeDone(m) /\ DeleteSource
    BY <1>11 DEF DeleteBranch, MergeDone
  <2>2. GitHubInv' /\ PullsKept
    BY <1>0, <2>1, SourceDeleted
  <2>3. PICK step \in {"deleted", "failed"} : MergeGoes(m, step)
    BY <1>11 DEF DeleteBranch
  <2>4. QED
    BY <1>4, <1>5, <2>1, <2>2, <2>3 DEF MergeSteps
<1>12. CASE ConfirmDeletion(m)
  <2>1. UNCHANGED githubVars /\ MergeDone(m)
    BY <1>12 DEF ConfirmDeletion, MergeDone
  <2>2. PICK step \in {"returned", "invalid"} : MergeGoes(m, step)
    BY <1>12 DEF ConfirmDeletion
  <2>3. QED
    BY <1>2, <1>4, <1>5, <2>1, <2>2 DEF MergeSteps
<1>13. CASE MergeFails(m)
  BY <1>2, <1>4, <1>13 DEF MergeFails, MergeSteps
<1>14. QED
  BY <1>6, <1>7, <1>8, <1>9, <1>10, <1>11, <1>12, <1>13 DEF MergeStep

LEMMA Inductive == IInv /\ [Next]_vars => IInv'
<1> SUFFICES ASSUME IInv, [Next]_vars PROVE IInv'
  OBVIOUS
<1>0. GitHubInv /\ UpsertInv /\ ReadyInv /\ ReadingInv /\ GateTypeOK /\ MergeInv
  BY DEF IInv
<1>1. CASE Upserting
  <2>1. PICK u \in UpsertCalls : UpsertStep(u)
    BY <1>1 DEF Upserting
  <2>2. UNCHANGED <<readies, readings, decision, mergeVars>>
    BY <1>1 DEF Upserting, gateVars
  <2>3. QED
    BY <1>0, <2>1, <2>2, UpsertKeeps, ReadyFrame, ReadingFrame, MergeFrame DEF IInv, GateTypeOK
<1>2. CASE Readying
  <2>1. PICK r \in ReadyCalls : RequestReady(r) \/ ReadyStep(r)
    BY <1>2 DEF Readying
  <2>2. UNCHANGED <<upserts, readings, decision, mergeVars>>
    BY <1>2 DEF Readying, gateVars
  <2>3. QED
    BY <1>0, <2>1, <2>2, ReadyKeeps, UpsertFrame, ReadingFrame, MergeFrame DEF IInv, GateTypeOK
<1>3. CASE Observing
  <2>1. PICK q \in ReadinessCalls :
          (\E n \in Readied : StartReadiness(q, n)) \/ ReadinessStep(q, Decided)
    BY <1>3 DEF Observing
  <2>2. UNCHANGED <<upserts, readies, decision, mergeVars>>
    BY <1>3 DEF Observing
  <2>3. QED
    BY <1>0, <2>1, <2>2, ReadinessKeeps, UpsertFrame, ReadyFrame, MergeFrame DEF IInv, GateTypeOK
<1>4. CASE Deciding
  <2>1. /\ ~Decided /\ decision' \in Decisions
        /\ UNCHANGED <<githubVars, upserts, readies, readings, mergeVars>>
    BY <1>4 DEF Deciding, Decide
  <2>2. \A m \in MergeCalls : ~Started(m) /\ ~MergeDone(m)
    BY <1>0, <2>1 DEF MergeInv, MergeAuthorized, MergeDone, Started
  <2>3. MergeInv'
    BY <1>0, <2>1, <2>2 DEF MergeInv, MergesTypeOK, MergeDone, Started, mergeVars
  <2>4. QED
    BY <1>0, <2>1, <2>3, GitHubUnchanged, UpsertFrame, ReadyFrame, ReadingFrame DEF IInv, GateTypeOK
<1>5. CASE Merging
  <2>1. UNCHANGED <<upserts, readies, gateVars, readings, decision>>
    BY <1>5 DEF Merging, gateVars
  <2>2. PICK m \in MergeCalls :
          \/ \E n \in Readied, q \in ReadinessCalls : StartMergeOf(m, n, q)
          \/ MergeStep(m) /\ UNCHANGED undisturbedRetries
    BY <1>5 DEF Merging
  <2>3. GitHubInv' /\ PullsKept /\ MergeInv'
    BY <2>1, <2>2, MergeStarts, MergeKeeps
  <2>4. QED
    BY <1>0, <2>1, <2>3, UpsertFrame, ReadyFrame, ReadingFrame DEF IInv, GateTypeOK
<1>6. CASE Others /\ UNCHANGED <<upserts, readies, gateVars, mergeVars>>
  <2>1. UNCHANGED <<upserts, readies, readings, decision, mergeVars>>
    BY <1>6 DEF gateVars
  <2>2. QED
    BY <1>0, <1>6, <2>1, OthersMoved, UpsertFrame, ReadyFrame, ReadingFrame, MergeFrame
       DEF IInv, GateTypeOK
<1>7. CASE UNCHANGED vars
  <2>1. UNCHANGED <<githubVars, upserts, readies, readings, decision, mergeVars>>
    BY <1>7 DEF vars, gateVars
  <2>2. QED
    BY <1>0, <2>1, GitHubUnchanged, UpsertFrame, ReadyFrame, ReadingFrame, MergeFrame
       DEF IInv, GateTypeOK
<1>8. QED
  BY <1>1, <1>2, <1>3, <1>4, <1>5, <1>6, <1>7 DEF Next

(* The inductive invariant: numbers name pull requests that exist, a       *)
(* reading says what it saw, and a merge call is backed by the reading and *)
(* the decision that authorized it and, past its merge, by the merge.      *)
THEOREM Invariant == Spec => []IInv
<1>1. Init => IInv
  BY Initially
<1>2. IInv /\ [Next]_vars => IInv'
  BY Inductive
<1>3. QED
  BY <1>1, <1>2, PTL DEF Spec

-----------------------------------------------------------------------------
(* Type correctness of the four scripts, the gate and the repository.      *)
THEOREM TypeCorrect == Spec => []TypeOK
<1>1. IInv => TypeOK
  BY DEF IInv, TypeOK, GitHubInv, UpsertInv, ReadyInv, ReadingInv, MergeInv
<1>2. QED
  BY <1>1, Invariant, PTL

(* What the readiness script calls clean the merge script accepts: the     *)
(* guards of the two handlers agree for every answer GitHub may give.      *)
THEOREM CleanIsAuthorized == Spec => []CleanReadingAuthorizes
<1>1. IInv => CleanReadingAuthorizes
  <2> SUFFICES ASSUME IInv, NEW q \in ReadinessCalls,
                      decision.outcome = "approved", decision.revision = Pinned,
                      readings[q].decided, readings[q].classification = "clean",
                      readings[q].seen.head = Pinned
               PROVE  Authorized(q, readings[q].number)
    BY DEF CleanReadingAuthorizes
  <2>1. readings[q].step = "returned" /\ ReadingTrue(q)
    BY DEF IInv, ReadingInv, ReadingsTypeOK
  <2>2. ~readings[q].blocked
    BY <2>1 DEF ReadingTrue
  <2>3. QED
    BY <2>2 DEF Authorized, assertArtifactEquality, assertGate
<1>2. QED
  BY <1>1, Invariant, PTL

(* Two orders of the threads that agree on some of them.                   *)
Precedes(order, s, t) == \E i, j \in DOMAIN order : i < j /\ order[i] = s /\ order[j] = t

OrdersAgree(ids) ==
  \A s, t \in ids : Precedes(LocaleOrder, s, t) <=> Precedes(CodeUnitOrder, s, t)

LEMMA SameList ==
  ASSUME NEW ids
  PROVE  Listed(LocaleOrder, ids) = Listed(CodeUnitOrder, ids) <=> OrdersAgree(ids)
<1> DEFINE Before(order) == {p \in ids \X ids : Precedes(order, p[1], p[2])}
<1>1. /\ Listed(LocaleOrder, ids) = [ids |-> ids, before |-> Before(LocaleOrder)]
      /\ Listed(CodeUnitOrder, ids) = [ids |-> ids, before |-> Before(CodeUnitOrder)]
  BY DEF Listed, Precedes
<1>2. ASSUME OrdersAgree(ids) PROVE Before(LocaleOrder) = Before(CodeUnitOrder)
  BY <1>2 DEF OrdersAgree
<1>3. ASSUME Before(LocaleOrder) = Before(CodeUnitOrder) PROVE OrdersAgree(ids)
  <2> SUFFICES ASSUME NEW s \in ids, NEW t \in ids
               PROVE  Precedes(LocaleOrder, s, t) <=> Precedes(CodeUnitOrder, s, t)
    BY DEF OrdersAgree
  <2>1. \A order : <<s, t>> \in Before(order) <=> Precedes(order, s, t)
    OBVIOUS
  <2>2. QED
    BY <1>3, <2>1
<1> HIDE DEF Before
<1>4. QED
  BY <1>1, <1>2, <1>3

(* An override that lists exactly the unresolved threads, where nothing    *)
(* else is in the way of the merge.                                        *)
ExactOverride(q) ==
  /\ decision.outcome = "override_merge" /\ decision.revision = Pinned /\ decision.wellFormed
  /\ readings[q].decided /\ readings[q].classification = "review_changes" /\ ~readings[q].blocked
  /\ readings[q].seen.head = Pinned /\ readings[q].seen.unresolved = decision.threads

(* It is accepted exactly where the two scripts sort those threads alike.  *)
AcceptedWhereSortedAlike ==
  \A q \in ReadinessCalls : ExactOverride(q) =>
    (Authorized(q, readings[q].number) <=> OrdersAgree(decision.threads))

(* The one thing that makes the merge script refuse an exact override is   *)
(* that localeCompare() and < disagree on two of its thread ids.           *)
THEOREM OverrideRefusedOnlyForOrder == Spec => []AcceptedWhereSortedAlike
<1>1. AcceptedWhereSortedAlike
  <2> SUFFICES ASSUME NEW q \in ReadinessCalls, ExactOverride(q)
               PROVE  Authorized(q, readings[q].number) <=> OrdersAgree(decision.threads)
    BY DEF AcceptedWhereSortedAlike
  <2> DEFINE ids == decision.threads
  <2>1. Authorized(q, readings[q].number) <=> AuditMatches(q)
    BY DEF ExactOverride, Authorized, assertArtifactEquality, assertGate
  <2>2. Listed(LocaleOrder, ids).ids = ids /\ Listed(CodeUnitOrder, ids).ids = ids
    BY DEF Listed
  <2>3. AuditMatches(q) <=> Listed(LocaleOrder, ids) = Listed(CodeUnitOrder, ids)
    BY <2>2 DEF ExactOverride, AuditMatches, sameSortedUniqueIds
  <2>4. QED
    BY <2>1, <2>3, SameList
<1>2. QED
  BY <1>1, PTL

(* So the promise of the merge card holds where the orders are one, and    *)
(* for an override of a single thread in any case.                         *)
THEOREM OneThreadAccepted ==
  Spec => [](\A q \in ReadinessCalls, t \in Threads :
               ExactOverride(q) /\ decision.threads = {t} => Authorized(q, readings[q].number))
<1>1. ASSUME NEW t \in Threads PROVE OrdersAgree({t})
  <2>1. ASSUME NEW order \in Seq(Threads), IsInjective(order) PROVE ~Precedes(order, t, t)
    BY <2>1 DEF Precedes, IsInjective
  <2>2. QED
    BY <2>1, OrderAssumption DEF OrdersAgree
<1>2. AcceptedWhereSortedAlike =>
        \A q \in ReadinessCalls, t \in Threads :
          ExactOverride(q) /\ decision.threads = {t} => Authorized(q, readings[q].number)
  BY <1>1 DEF AcceptedWhereSortedAlike
<1>3. QED
  BY <1>2, OverrideRefusedOnlyForOrder, PTL

THEOREM OverrideAccepted ==
  ASSUME LocaleOrder = CodeUnitOrder
  PROVE  Spec => []ExactOverrideAuthorizes
<1>1. AcceptedWhereSortedAlike => ExactOverrideAuthorizes
  BY DEF AcceptedWhereSortedAlike, ExactOverride, ExactOverrideAuthorizes, OrdersAgree
<1>2. QED
  BY <1>1, OverrideRefusedOnlyForOrder, PTL

(* Only the merge request of a call merges a pull request, and it is the   *)
(* one the call is about, at the pinned head.                              *)
LEMMA MergeRequested ==
  ASSUME IInv, [Next]_vars, NEW m \in MergeCalls, merges[m] # merges'[m],
         NEW n \in Numbers, pulls[n].state # "merged", pulls'[n].state = "merged"
  PROVE  Started(m) /\ n = merges[m].number /\ pulls[n].head = Pinned
<1>0. /\ merges \in [MergeCalls -> [step : MergeSteps, number : 0 .. MaxPulls,
                                    mergeable : BOOLEAN, adopted : BOOLEAN]]
      /\ pulls \in [Numbers -> PullRequests]
  BY MergeFacts DEF GitHubInv, GitHubTypeOK, Numbers
<1>1. PICK o \in MergeCalls :
        \/ \E k \in Readied, q \in ReadinessCalls : StartMergeOf(o, k, q)
        \/ MergeStep(o)
  BY DEF Next, Upserting, Readying, Observing, Deciding, Merging, vars, mergeVars
<1>2. ~UNCHANGED pulls
  OBVIOUS
<1>3. CASE RequestMerge(o)
  <2>1. o = m
    BY <1>0, <1>3 DEF RequestMerge, MergeGoes
  <2>2. /\ pulls[merges[m].number].head = Pinned
        /\ pulls' = [pulls EXCEPT ![merges[m].number].state = "merged"]
    BY <1>3, <2>1 DEF RequestMerge, MergePull
  <2>3. n = merges[m].number
    BY <1>0, <2>2
  <2>4. QED
    BY <1>3, <2>1, <2>2, <2>3 DEF RequestMerge, Started
<1>4. CASE DeleteBranch(o)
  <2>1. pulls'[n] = Closed(n)
    BY <1>4 DEF DeleteBranch, DeleteSource
  <2>2. QED
    BY <1>0, <2>1 DEF Closed, PullRequests
<1>5. QED
  BY <1>1, <1>2, <1>3, <1>4
     DEF StartMergeOf, StartMerge, MergeStep, ReadPull, ReadSource, ConfirmMerge, ReadMergedSource,
         ConfirmDeletion, MergeFails, githubVars

(* Whatever was pushed and whoever else was at work, a step of the merge   *)
(* script merges the pull request it is about at the approved head.        *)
THEOREM ApprovedHeadMerged == Spec => MergedOnlyAsApproved
<1>1. IInv /\ [Next]_vars => [MergesOnlyAsApproved]_vars
  BY MergeRequested DEF MergesOnlyAsApproved
<1>2. QED
  BY <1>1, Invariant, PTL DEF Spec, MergedOnlyAsApproved

(* A merge is backed by a reading of that pull request at the approved     *)
(* head, given after the decision, that showed nothing in its way but the  *)
(* threads an override names.                                              *)
THEOREM MergedWhenDecided == Spec => MergedAsDecided
<1>1. IInv /\ [Next]_vars => [MergesAsDecided]_vars
  <2> SUFFICES ASSUME IInv, [Next]_vars, NEW m \in MergeCalls, merges[m] # merges'[m],
                      NEW n \in Numbers, pulls[n].state # "merged", pulls'[n].state = "merged"
               PROVE  \E q \in ReadinessCalls : SeenAsDecided(q, n)
    BY DEF MergesAsDecided
  <2>1. Started(m) /\ n = merges[m].number
    BY MergeRequested
  <2>2. MergeAuthorized(m)
    BY <2>1, MergeFacts
  <2>3. PICK q \in ReadinessCalls : readings[q].step = "returned" /\ Authorized(q, n)
    BY <2>1, <2>2 DEF MergeAuthorized
  <2>4. ReadingTrue(q)
    BY <2>3 DEF IInv, ReadingInv
  <2>5. /\ decision.revision = Pinned /\ readings[q].number = n /\ readings[q].decided
        /\ readings[q].seen.head = Pinned /\ ~readings[q].blocked
    BY <2>3 DEF Authorized, assertArtifactEquality, assertGate
  <2>6. readings[q].seen.unresolved = IF decision.outcome = "approved" THEN {} ELSE decision.threads
    <3>1. CASE decision.outcome = "approved" /\ readings[q].classification = "clean"
      BY <2>4, <3>1 DEF ReadingTrue
    <3>2. CASE decision.outcome = "override_merge" /\ AuditMatches(q)
      BY <3>2 DEF AuditMatches, sameSortedUniqueIds, Listed
    <3>3. QED
      BY <2>3, <3>1, <3>2 DEF Authorized, assertGate
  <2>7. QED
    BY <2>3, <2>4, <2>5, <2>6 DEF ReadingTrue, SeenAsDecided
<1>2. QED
  BY <1>1, Invariant, PTL DEF Spec, MergedAsDecided

(* The results of the three clients that change something are true when    *)
(* they are given.                                                         *)
THEOREM ResultsTrue == Spec => AnswersTrue
<1>1. ASSUME IInv, [Next]_vars PROVE UpsertAnswers
  <2> SUFFICES ASSUME NEW u \in UpsertCalls,
                      upserts[u].step # "returned", upserts'[u].step = "returned"
               PROVE  MatchesRequestedState(u, pulls'[upserts'[u].number])
    BY DEF UpsertAnswers
  <2>1. upserts \in [UpsertCalls -> [step : UpsertSteps, number : 0 .. MaxPulls]]
    BY <1>1 DEF IInv, UpsertInv, UpsertsTypeOK
  <2>2. PICK v \in UpsertCalls : UpsertStep(v)
    BY <1>1 DEF Next, Upserting, Readying, Observing, Deciding, Merging, vars
  <2>3. \A step, n : UpsertGoes(v, step, n) => u = v /\ step = "returned" /\ upserts'[u].number = n
    BY <2>1 DEF UpsertGoes
  <2>4. CASE FindExisting(v)
    <3>1. PICK n \in Open :
            UpsertGoes(v, CASE ~OwnsOperation(v, pulls[n]) -> "conflict"
                            [] MatchesRequestedState(v, pulls[n]) -> "returned"
                            [] OTHER -> IF Updatable(v, pulls[n]) THEN "update" ELSE "conflict", n)
      BY <2>4 DEF FindExisting
    <3>2. u = v /\ upserts'[u].number = n /\ MatchesRequestedState(v, pulls[n])
      BY <2>3, <3>1
    <3>3. QED
      BY <2>4, <3>2 DEF FindExisting, githubVars
  <2>5. CASE ReadBack(v)
    BY <2>3, <2>5 DEF ReadBack, githubVars
  <2>6. CASE ReadSourceBranch(v) \/ FindNone(v) \/ Create(v) \/ Update(v) \/ UpsertFails(v)
    <3>1. PICK step \in UpsertSteps \ {"returned"},
               n \in {0, Len(pulls) + 1, upserts[v].number} : UpsertGoes(v, step, n)
      <4>1. CASE ReadSourceBranch(v) \/ FindNone(v) \/ UpsertFails(v)
        BY <4>1 DEF ReadSourceBranch, FindNone, UpsertFails, UpsertSteps
      <4>2. CASE Create(v)
        BY <4>2 DEF Create, UpsertSteps
      <4>3. CASE Update(v)
        BY <4>3 DEF Update, UpsertSteps
      <4>4. QED
        BY <2>6, <4>1, <4>2, <4>3
    <3>2. QED
      BY <2>3, <3>1
  <2>7. QED
    BY <2>2, <2>4, <2>5, <2>6 DEF UpsertStep
<1>2. ASSUME IInv, [Next]_vars PROVE ReadyAnswers
  <2> SUFFICES ASSUME NEW r \in ReadyCalls,
                      readies[r].step # "returned", readies'[r].step = "returned"
               PROVE  AtPinnedRevision(pulls[readies[r].number]) /\ ~pulls[readies[r].number].draft
    BY DEF ReadyAnswers
  <2>1. readies \in [ReadyCalls -> [step : ReadySteps, number : 0 .. MaxPulls]]
    BY <1>2 DEF IInv, ReadyInv, ReadiesTypeOK
  <2>2. PICK o \in ReadyCalls : RequestReady(o) \/ ReadyStep(o)
    BY <1>2 DEF Next, Upserting, Readying, Observing, Deciding, Merging, vars
  <2>3. \A step : ReadyGoes(o, step) => r = o /\ step = "returned"
    BY <2>1 DEF ReadyGoes
  <2>4. CASE RequestReady(o)
    BY <2>1, <2>4 DEF RequestReady, StartReady
  <2>5. QED
    BY <2>2, <2>3, <2>4 DEF ReadyStep, ReadDraft, Mutate, ReadReady, ReadyFails
<1>3. ASSUME IInv, [Next]_vars PROVE MergeAnswers
  <2> SUFFICES ASSUME NEW m \in MergeCalls,
                      merges[m].step # "returned", merges'[m].step = "returned"
               PROVE  Pull(m).state = "merged" /\ Pull(m).head = Pinned /\ source = NoSha
    BY DEF MergeAnswers
  <2>1. /\ merges \in [MergeCalls -> [step : MergeSteps, number : 0 .. MaxPulls,
                                      mergeable : BOOLEAN, adopted : BOOLEAN]]
        /\ MergeDone(m) => Pull(m).state = "merged" /\ Pull(m).head = Pinned
    BY <1>3, MergeFacts
  <2>2. PICK o \in MergeCalls :
          \/ \E n \in Readied, q \in ReadinessCalls : StartMergeOf(o, n, q)
          \/ MergeStep(o)
    BY <1>3 DEF Next, Upserting, Readying, Observing, Deciding, Merging, vars, mergeVars
  <2>3. ASSUME NEW step \in MergeSteps, MergeGoes(o, step)
        PROVE  m = o /\ step = "returned"
    BY <2>1, <2>3 DEF MergeGoes
  <2>4. CASE \E n \in Readied, q \in ReadinessCalls : StartMergeOf(o, n, q)
    <3>1. PICK n \in Readied, q \in ReadinessCalls : StartMergeOf(o, n, q)
      BY <2>4
    <3>2. CASE StartMerge(o, n)
      <4> DEFINE new == [NoMerge EXCEPT !.step = "read", !.number = n]
      <4>1. merges' = [merges EXCEPT ![o] = new] /\ new.step = "read"
        BY <3>2 DEF StartMerge, NoMerge
      <4> HIDE DEF new
      <4>2. QED
        BY <2>1, <4>1
    <3>3. CASE MergeGoes(o, "refused")
      BY <2>3, <3>3 DEF MergeSteps
    <3>4. QED
      BY <3>1, <3>2, <3>3 DEF StartMergeOf
  <2>5. CASE ReadPull(o)
    <3>1. CASE Readable(o, Pull(o))
      <4> DEFINE new == [merges[o] EXCEPT !.step = "source", !.mergeable = Mergeable(Pull(o)),
                                          !.adopted = Pull(o).state = "merged"]
      <4>1. merges' = [merges EXCEPT ![o] = new] /\ new.step = "source"
        BY <2>1, <2>5, <3>1 DEF ReadPull
      <4> HIDE DEF new
      <4>2. QED
        BY <2>1, <4>1
    <3>2. CASE ~Readable(o, Pull(o))
      BY <2>3, <2>5, <3>2 DEF ReadPull, MergeSteps
    <3>3. QED
      BY <3>1, <3>2
  <2>6. CASE ReadSource(o)
    <3>1. MergeGoes(o, AfterSource(o)) /\ AfterSource(o) \in MergeSteps
      BY <2>6 DEF ReadSource, AfterSource, Reconciled, MergeSteps
    <3>2. m = o /\ AfterSource(o) = "returned"
      BY <2>3, <3>1
    <3>3. MergeDone(o) /\ source = NoSha
      BY <2>6, <3>2 DEF ReadSource, AfterSource, Reconciled, MergeDone
    <3>4. QED
      BY <2>1, <3>2, <3>3
  <2>7. CASE ReadMergedSource(o)
    <3>1. MergeGoes(o, Reconciled) /\ Reconciled \in MergeSteps /\ MergeDone(o)
      BY <2>7 DEF ReadMergedSource, Reconciled, MergeSteps, MergeDone
    <3>2. m = o /\ Reconciled = "returned"
      BY <2>3, <3>1
    <3>3. QED
      BY <2>1, <3>1, <3>2 DEF Reconciled
  <2>8. CASE ConfirmDeletion(o)
    <3>1. PICK step \in {"returned", "invalid"} :
            MergeGoes(o, step) /\ (step = "returned" => source = NoSha)
      BY <2>8 DEF ConfirmDeletion
    <3>2. m = o /\ step = "returned" /\ MergeDone(o)
      BY <2>3, <2>8, <3>1 DEF ConfirmDeletion, MergeSteps, MergeDone
    <3>3. QED
      BY <2>1, <3>1, <3>2
  <2>9. CASE RequestMerge(o) \/ ConfirmMerge(o) \/ DeleteBranch(o) \/ MergeFails(o)
    <3>1. PICK step \in MergeSteps \ {"returned"} : MergeGoes(o, step)
      BY <2>9 DEF RequestMerge, ConfirmMerge, DeleteBranch, MergeFails, MergeSteps
    <3>2. QED
      BY <2>3, <3>1
  <2>10. QED
    BY <2>2, <2>4, <2>5, <2>6, <2>7, <2>8, <2>9 DEF MergeStep
<1>4. IInv /\ [Next]_vars => [UpsertAnswers /\ ReadyAnswers /\ MergeAnswers]_vars
  BY <1>1, <1>2, <1>3
<1>5. QED
  BY <1>4, Invariant, PTL DEF Spec, AnswersTrue
-----------------------------------------------------------------------------
(* As long as nobody else has touched the repository, what the scripts     *)
(* find there is what the scripts have done.                               *)

QuietPull(pull) ==
  /\ pull.head = Pinned /\ pull.text = Approved
  /\ \E u \in UpsertCalls : pull.marker = UpsertOf[u]
  /\ pull.state = "merged" => ~pull.draft

AllDrafts == \A n \in Numbers : pulls[n].draft

(* The branch goes only with the merge, and a second pull request is       *)
(* opened only when the first is no longer a draft.                        *)
QuietRepository ==
  /\ source \in {Pinned, NoSha}
  /\ \A n \in Numbers : QuietPull(pulls[n])
  /\ AllDrafts => source = Pinned /\ Len(pulls) <= 1 /\ \A n \in Numbers : pulls[n].state = "open"

OneOperation == \A u, v \in UpsertCalls : UpsertOf[u] = UpsertOf[v]

QuietUpserts ==
  AllDrafts /\ OneOperation => \A u \in UpsertCalls : upserts[u].step # "conflict"

(* A call that began after the merge goes past it.                         *)
Adopts(m) ==
  /\ Started(m) /\ Pull(m).state = "merged"
  /\ merges[m].step \notin {"conflict", "invalid", "put", "confirm"}
  /\ merges[m].step = "source" => merges[m].adopted

QuietMerges ==
  /\ \A m \in MergeCalls : merges[m].step = "deleted" => source = NoSha
  /\ \A m \in undisturbedRetries : Adopts(m)

QuietInv == moves = 0 => QuietRepository /\ QuietUpserts /\ QuietMerges

(* Drafts are only taken out of draft, and the branch does not come back.  *)
QuietStep == QuietRepository' /\ (AllDrafts' => AllDrafts) /\ (source = NoSha => source' = NoSha)

LEMMA QuietChanged ==
  ASSUME GitHubInv, QuietRepository, pulls' \in [Numbers -> PullRequests], source' = source,
         \A n \in Numbers :
           /\ QuietPull(pulls'[n])
           /\ pulls'[n].draft => pulls[n].draft /\ pulls'[n].state = pulls[n].state
  PROVE  QuietStep
<1>1. Len(pulls') = Len(pulls) /\ Numbers' = Numbers
  BY PullsTyped DEF GitHubInv, GitHubTypeOK, Numbers
<1>2. AllDrafts' => AllDrafts
  BY <1>1 DEF AllDrafts
<1>3. QED
  BY <1>1, <1>2 DEF QuietStep, QuietRepository, AllDrafts

LEMMA QuietUnchanged ==
  ASSUME QuietRepository, UNCHANGED githubVars
  PROVE  QuietStep
BY DEF QuietStep, QuietRepository, QuietPull, AllDrafts, Numbers, githubVars

LEMMA QuietUpsertsFrame ==
  ASSUME QuietUpserts, QuietStep, UNCHANGED upserts
  PROVE  QuietUpserts'
BY DEF QuietUpserts, QuietStep, OneOperation

LEMMA QuietMergesFrame ==
  ASSUME IInv, QuietMerges, QuietStep, PullsKept, UNCHANGED mergeVars
  PROVE  QuietMerges'
<1>1. UNCHANGED <<merges, undisturbedRetries>> /\ undisturbedRetries \subseteq MergeCalls
  BY DEF mergeVars, IInv, MergeInv
<1>2. \A m \in undisturbedRetries : merges[m].number \in Numbers
  BY <1>1, MergeFacts DEF QuietMerges, Adopts
<1>3. QED
  BY <1>1, <1>2 DEF QuietMerges, QuietStep, Adopts, Started, Pull, PullsKept

LEMMA UpsertQuiet ==
  ASSUME IInv, QuietRepository, QuietUpserts, NEW u \in UpsertCalls, UpsertStep(u)
  PROVE  QuietStep /\ QuietUpserts'
<1>0. /\ GitHubInv /\ pulls \in [Numbers -> PullRequests] /\ pulls \in Seq(PullRequests)
      /\ Numbers = 1 .. Len(pulls) /\ Len(pulls) \in Nat
      /\ upserts \in [UpsertCalls -> [step : UpsertSteps, number : 0 .. MaxPulls]]
      /\ UpsertOf[u] \in Operations /\ Approved \in Texts /\ Pinned \in Shas /\ NoSha \notin Shas
  BY GitHubAssumption, UpsertAssumption
     DEF IInv, GitHubInv, GitHubTypeOK, UpsertInv, UpsertsTypeOK, Numbers
<1>1. ASSUME QuietStep, NEW step, NEW n, UpsertGoes(u, step, n),
             AllDrafts /\ AllDrafts' /\ OneOperation => step # "conflict"
      PROVE  QuietUpserts'
  <2>1. \A v \in UpsertCalls : upserts'[v].step = IF v = u THEN step ELSE upserts[v].step
    BY <1>0, <1>1 DEF UpsertGoes
  <2>2. QED
    BY <1>1, <2>1 DEF QuietUpserts, QuietStep, OneOperation
(* A pull request of the operation, while it is a draft, is as asked for.  *)
<1>2. ASSUME OneOperation, AllDrafts, NEW n \in Numbers
      PROVE  OwnsOperation(u, pulls[n]) /\ MatchesRequestedState(u, pulls[n])
  BY <1>2 DEF QuietRepository, QuietPull, OneOperation, AllDrafts, OwnsOperation, MatchesRequestedState
<1>3. CASE ReadSourceBranch(u)
  <2>1. AllDrafts => source = Pinned
    BY DEF QuietRepository
  <2>2. QED
    BY <1>1, <1>3, <2>1, QuietUnchanged DEF ReadSourceBranch
<1>4. CASE FindNone(u)
  BY <1>1, <1>4, QuietUnchanged DEF FindNone
<1>5. CASE FindExisting(u)
  <2>1. QuietStep
    BY <1>5, QuietUnchanged DEF FindExisting
  <2>2. PICK n \in Open :
          UpsertGoes(u, CASE ~OwnsOperation(u, pulls[n]) -> "conflict"
                          [] MatchesRequestedState(u, pulls[n]) -> "returned"
                          [] OTHER -> IF Updatable(u, pulls[n]) THEN "update" ELSE "conflict", n)
    BY <1>5 DEF FindExisting
  <2>3. n \in Numbers
    BY DEF Open
  <2>4. CASE OneOperation /\ AllDrafts
    <3>1. UpsertGoes(u, "returned", n)
      BY <1>2, <2>2, <2>3, <2>4 DEF MatchesRequestedState
    <3>2. QED
      BY <1>1, <2>1, <3>1
  <2>5. CASE ~(OneOperation /\ AllDrafts)
    BY <1>1, <2>1, <2>2, <2>5
  <2>6. QED
    BY <2>1, <2>4, <2>5
<1>6. CASE Create(u)
  <2> DEFINE pull == [head |-> source, text |-> Approved, marker |-> UpsertOf[u], draft |-> TRUE,
                      mergeable |-> TRUE, state |-> "open", checks |-> "success", unresolved |-> {}]
  <2>1. /\ pulls' = Append(pulls, pull) /\ source' = source /\ source = Pinned /\ Open = {}
        /\ pull \in PullRequests
    BY <1>0, <1>6 DEF Create, PostPull, QuietRepository, PullRequests, Verdicts
  <2>2. /\ pulls' \in Seq(PullRequests) /\ Len(pulls') = Len(pulls) + 1
        /\ \A n \in 1 .. Len(pulls) : pulls'[n] = pulls[n]
        /\ pulls'[Len(pulls) + 1] = pull
    BY <1>0, <2>1, AppendProperties
  <2>3. Numbers' = 1 .. Len(pulls) + 1
    BY <1>0, <2>2 DEF Numbers
  <2>4. QuietPull(pull) /\ pull.state = "open"
    BY <2>1 DEF QuietPull
  <2> HIDE DEF pull
  <2>5. \A n \in Numbers' : n \in Numbers \/ n = Len(pulls) + 1
    BY <1>0, <2>3
  <2>6. \A n \in Numbers' : QuietPull(pulls'[n])
    BY <1>0, <2>2, <2>4, <2>5 DEF QuietRepository
  <2>7. AllDrafts' => AllDrafts
    BY <1>0, <2>2, <2>3 DEF AllDrafts
  <2>8. AllDrafts => Numbers = {}
    BY <2>1 DEF QuietRepository, Open
  <2>9. AllDrafts => Len(pulls') <= 1 /\ \A n \in Numbers' : pulls'[n].state = "open"
    BY <1>0, <2>2, <2>4, <2>5, <2>8
  <2>10. QuietStep
    BY <2>1, <2>6, <2>7, <2>9 DEF QuietStep, QuietRepository
  <2>11. QED
    BY <1>1, <1>6, <2>10 DEF Create
<1>7. CASE Update(u)
  <2> DEFINE n == upserts[u].number
             pull == [pulls[n] EXCEPT !.text = Approved, !.marker = UpsertOf[u]]
  <2>1. n \in Numbers
    BY <1>7 DEF Update, IInv, UpsertInv
  <2>2. /\ pull \in PullRequests
        /\ pull.draft = pulls[n].draft /\ pull.state = pulls[n].state /\ pull.head = pulls[n].head
        /\ pull.text = Approved /\ pull.marker = UpsertOf[u]
    <3> HIDE DEF n
    <3>1. pulls[n] \in PullRequests /\ UpsertOf[u] \in Operations \union {NoMarker}
      BY <1>0, <2>1
    <3>2. QED
      BY <1>0, <3>1 DEF PullRequests
  <2>3. pulls' = [pulls EXCEPT ![n] = pull] /\ source' = source
    BY <1>0, <1>7, <2>1 DEF Update, PatchPull, PullRequests
  <2>4. QuietPull(pull)
    BY <2>1, <2>2 DEF QuietRepository, QuietPull
  <2> HIDE DEF pull
  <2>5. QuietStep
    BY <1>0, <2>1, <2>2, <2>3, <2>4, QuietChanged DEF QuietRepository
  <2>6. QED
    BY <1>1, <1>7, <2>5 DEF Update
<1>8. CASE ReadBack(u)
  <2>1. UNCHANGED githubVars /\ upserts[u].number \in Numbers
    BY <1>8 DEF ReadBack, IInv, UpsertInv
  <2>2. AllDrafts /\ OneOperation => MatchesRequestedState(u, pulls[upserts[u].number])
    BY <1>2, <2>1
  <2>3. QuietStep
    BY <2>1, QuietUnchanged
  <2>4. CASE MatchesRequestedState(u, pulls[upserts[u].number])
    BY <1>1, <1>8, <2>3, <2>4 DEF ReadBack
  <2>5. CASE ~MatchesRequestedState(u, pulls[upserts[u].number])
    BY <1>1, <1>8, <2>2, <2>3, <2>5 DEF ReadBack
  <2>6. QED
    BY <2>3, <2>4, <2>5
<1>9. CASE UpsertFails(u)
  BY <1>1, <1>9, QuietUnchanged DEF UpsertFails
<1>10. QED
  BY <1>3, <1>4, <1>5, <1>6, <1>7, <1>8, <1>9 DEF UpsertStep

LEMMA ReadyQuiet ==
  ASSUME IInv, QuietRepository, NEW r \in ReadyCalls, RequestReady(r) \/ ReadyStep(r)
  PROVE  QuietStep
<1>0. GitHubInv /\ pulls \in [Numbers -> PullRequests]
  BY DEF IInv, GitHubInv, GitHubTypeOK, Numbers
<1>1. CASE Mutate(r)
  <2> DEFINE n == readies[r].number
             pull == [pulls[n] EXCEPT !.draft = FALSE]
  <2>1. n \in Numbers /\ pulls' = [pulls EXCEPT ![n] = pull] /\ source' = source
    BY <1>0, <1>1 DEF Mutate, ReadyPull, IInv, ReadyInv
  <2>2. /\ pull \in PullRequests /\ ~pull.draft /\ pull.state = pulls[n].state
        /\ pull.head = pulls[n].head /\ pull.text = pulls[n].text /\ pull.marker = pulls[n].marker
    BY <1>0, <2>1 DEF PullRequests
  <2>3. QuietPull(pull)
    BY <2>1, <2>2 DEF QuietRepository, QuietPull
  <2> HIDE DEF pull
  <2>4. QED
    BY <1>0, <2>1, <2>2, <2>3, QuietChanged DEF QuietRepository
<1>2. CASE ~Mutate(r)
  BY <1>2, QuietUnchanged DEF RequestReady, StartReady, ReadyStep, ReadDraft, ReadReady, ReadyFails
<1>3. QED
  BY <1>1, <1>2

LEMMA MergeQuiet ==
  ASSUME IInv, QuietRepository, QuietMerges, NEW m \in MergeCalls,
         \/ \E n \in Readied, q \in ReadinessCalls : StartMergeOf(m, n, q)
         \/ MergeStep(m) /\ UNCHANGED undisturbedRetries,
         PullsKept
  PROVE  QuietStep /\ QuietMerges'
<1>0. /\ GitHubInv /\ pulls \in [Numbers -> PullRequests]
      /\ merges \in [MergeCalls -> [step : MergeSteps, number : 0 .. MaxPulls,
                                    mergeable : BOOLEAN, adopted : BOOLEAN]]
      /\ undisturbedRetries \subseteq MergeCalls
      /\ \A o \in MergeCalls : Started(o) => merges[o].number \in Numbers
  BY MergeFacts DEF IInv, MergeInv, GitHubInv, GitHubTypeOK, Numbers
(* Only the state of m changes, and of it what is given here.              *)
<1>1. ASSUME QuietStep, \A o \in MergeCalls : o # m => merges'[o] = merges[o],
             undisturbedRetries' \subseteq undisturbedRetries \union {m},
             merges'[m].step = "deleted" => source' = NoSha,
             m \in undisturbedRetries' => Adopts(m)'
      PROVE  QuietMerges'
  <2>1. ASSUME NEW o \in undisturbedRetries', o # m PROVE Adopts(o)'
    <3>1. /\ o \in undisturbedRetries /\ o \in MergeCalls /\ Adopts(o)
          /\ merges[o].number \in Numbers /\ merges'[o] = merges[o]
      BY <1>0, <1>1, <2>1 DEF QuietMerges, Adopts
    <3>2. QED
      BY <3>1 DEF Adopts, Started, Pull, PullsKept
  <2>2. QED
    BY <1>1, <2>1 DEF QuietMerges, QuietStep
<1>2. CASE \E n \in Readied, q \in ReadinessCalls : StartMergeOf(m, n, q)
  <2>1. PICK n \in Readied, q \in ReadinessCalls : StartMergeOf(m, n, q)
    BY <1>2
  <2>2. UNCHANGED githubVars /\ merges[m].step = "idle" /\ m \notin undisturbedRetries
    BY <2>1 DEF StartMergeOf, StartMerge, QuietMerges, Adopts, Started
  <2>3. QuietStep
    BY <2>2, QuietUnchanged
  <2>4. CASE Authorized(q, n)
    <3> DEFINE new == [NoMerge EXCEPT !.step = "read", !.number = n]
    <3>1. merges' = [merges EXCEPT ![m] = new] /\ new.step = "read" /\ new.number = n
      BY <2>1, <2>4 DEF StartMergeOf, StartMerge, NoMerge
    <3> HIDE DEF new
    <3>2. m \in undisturbedRetries' => pulls'[n].state = "merged"
      BY <2>1, <2>2, <2>4 DEF StartMergeOf, githubVars
    <3>3. QED
      BY <1>0, <1>1, <2>1, <2>3, <3>1, <3>2 DEF StartMergeOf, Adopts, Started, Pull
  <2>5. CASE ~Authorized(q, n)
    <3>1. merges' = [merges EXCEPT ![m].step = "refused"] /\ undisturbedRetries' = undisturbedRetries
      BY <2>1, <2>5 DEF StartMergeOf, MergeGoes
    <3>2. QED
      BY <1>0, <1>1, <2>2, <2>3, <3>1
  <2>6. QED
    BY <2>3, <2>4, <2>5
<1>3. ASSUME MergeStep(m), UNCHANGED undisturbedRetries
      PROVE  QuietStep /\ QuietMerges'
  <2>1. /\ merges[m].number \in Numbers
        /\ m \in undisturbedRetries => Adopts(m)
        /\ QuietPull(Pull(m)) /\ source \in {Pinned, NoSha}
    BY <1>0, <1>3 DEF MergeStep, ReadPull, ReadSource, RequestMerge, ConfirmMerge, ReadMergedSource,
                      DeleteBranch, ConfirmDeletion, MergeFails, Started, QuietMerges, QuietRepository, Pull
  <2>2. Readable(m, Pull(m))
    BY <2>1 DEF QuietPull, Readable
  <2>3. ASSUME QuietStep, NEW step \in MergeSteps \ {"idle", "refused"}, MergeGoes(m, step),
               step = "deleted" => source' = NoSha,
               m \in undisturbedRetries => step \notin {"conflict", "invalid", "put", "confirm", "source"}
        PROVE  QuietMerges'
    <3>1. merges' = [merges EXCEPT ![m].step = step]
      BY <2>3 DEF MergeGoes
    <3>2. merges'[m].step = step /\ merges'[m].number = merges[m].number
      BY <1>0, <3>1
    <3>3. m \in undisturbedRetries => Adopts(m)'
      BY <2>1, <2>3, <3>2 DEF Adopts, Started, Pull, PullsKept
    <3>4. QED
      BY <1>0, <1>1, <1>3, <2>3, <3>1, <3>2, <3>3
  <2>4. CASE ReadPull(m)
    <3> DEFINE new == [merges[m] EXCEPT !.step = "source", !.mergeable = Mergeable(Pull(m)),
                                        !.adopted = Pull(m).state = "merged"]
    <3>1. UNCHANGED githubVars /\ merges' = [merges EXCEPT ![m] = new]
      BY <1>0, <2>2, <2>4 DEF ReadPull
    <3>2. new.step = "source" /\ new.number = merges[m].number /\ new.adopted = (Pull(m).state = "merged")
      BY <1>0
    <3> HIDE DEF new
    <3>3. QuietStep
      BY <3>1, QuietUnchanged
    <3>4. merges'[m] = new
      BY <1>0, <3>1
    <3>5. m \in undisturbedRetries => Adopts(m)'
      BY <2>1, <3>1, <3>2, <3>4 DEF Adopts, Started, Pull, githubVars
    <3>6. QED
      BY <1>0, <1>1, <1>3, <3>1, <3>2, <3>3, <3>4, <3>5
  <2>5. CASE ReadSource(m)
    <3>1. /\ AfterSource(m) \in {"returned", "delete", "conflict", "put"}
          /\ m \in undisturbedRetries => AfterSource(m) \in {"returned", "delete"}
      BY <2>1, <2>5 DEF ReadSource, AfterSource, Reconciled, Adopts
    <3>2. QED
      BY <2>3, <2>5, <3>1, QuietUnchanged DEF ReadSource, MergeSteps
  <2>6. CASE RequestMerge(m)
    <3> DEFINE n == merges[m].number
               pull == [pulls[n] EXCEPT !.state = "merged"]
    <3>1. pulls' = [pulls EXCEPT ![n] = pull] /\ source' = source /\ ~pulls[n].draft
      BY <1>0, <2>1, <2>6 DEF RequestMerge, MergePull
    <3>2. /\ pull \in PullRequests /\ pull.draft = pulls[n].draft /\ pull.head = pulls[n].head
          /\ pull.text = pulls[n].text /\ pull.marker = pulls[n].marker
      BY <1>0, <2>1 DEF PullRequests
    <3>3. QuietPull(pull)
      BY <2>1, <3>1, <3>2 DEF QuietPull, Pull
    <3> HIDE DEF pull
    <3>4. QuietStep
      BY <1>0, <2>1, <3>1, <3>2, <3>3, QuietChanged DEF QuietRepository
    <3>5. m \notin undisturbedRetries
      BY <2>1, <2>6 DEF RequestMerge, Adopts
    <3>6. QED
      BY <2>3, <2>6, <3>4, <3>5 DEF RequestMerge, MergeSteps
  <2>7. CASE ConfirmMerge(m)
    <3>1. m \notin undisturbedRetries
      BY <2>1, <2>7 DEF ConfirmMerge, Adopts
    <3>2. PICK step \in {"conflict", "invalid", "merged source"} : MergeGoes(m, step)
      BY <2>7 DEF ConfirmMerge
    <3>3. QED
      BY <2>3, <2>7, <3>1, <3>2, QuietUnchanged DEF ConfirmMerge, MergeSteps
  <2>8. CASE ReadMergedSource(m)
    <3>1. Reconciled \in {"returned", "delete"}
      BY <2>1 DEF Reconciled
    <3>2. QED
      BY <2>3, <2>8, <3>1, QuietUnchanged DEF ReadMergedSource, MergeSteps
  <2>9. CASE DeleteBranch(m)
    <3>1. /\ source' = NoSha /\ pulls' = [n \in Numbers |-> Closed(n)]
          /\ MergeDone(m)
      BY <2>9 DEF DeleteBranch, DeleteSource, MergeDone
    <3>2. Pull(m).state = "merged" /\ ~Pull(m).draft
      BY <2>1, <3>1, MergeFacts DEF QuietPull
    <3>3. ASSUME NEW n \in Numbers
          PROVE  Closed(n).draft = pulls[n].draft /\ QuietPull(Closed(n))
      <4>1. /\ Closed(n).head = pulls[n].head /\ Closed(n).text = pulls[n].text
            /\ Closed(n).marker = pulls[n].marker /\ Closed(n).draft = pulls[n].draft
            /\ Closed(n).state = "merged" => pulls[n].state = "merged"
        BY <1>0 DEF Closed, PullRequests
      <4>2. QED
        BY <4>1 DEF QuietPull, QuietRepository
    <3>4. Numbers' = Numbers
      BY <3>1 DEF Numbers
    <3>5. ~AllDrafts'
      BY <2>1, <3>1, <3>2, <3>3, <3>4 DEF AllDrafts, Pull
    <3>6. QuietStep
      BY <3>1, <3>3, <3>4, <3>5 DEF QuietStep, QuietRepository
    <3>7. QED
      BY <2>3, <2>9, <3>1, <3>6 DEF DeleteBranch, MergeSteps
  <2>10. CASE ConfirmDeletion(m)
    <3>1. MergeGoes(m, "returned")
      BY <2>10 DEF ConfirmDeletion, QuietMerges
    <3>2. QED
      BY <2>3, <2>10, <3>1, QuietUnchanged DEF ConfirmDeletion, MergeSteps
  <2>11. CASE MergeFails(m)
    BY <2>3, <2>11, QuietUnchanged DEF MergeFails, MergeSteps
  <2>12. QED
    BY <1>3, <2>4, <2>5, <2>6, <2>7, <2>8, <2>9, <2>10, <2>11 DEF MergeStep
<1>4. QED
  BY <1>2, <1>3

LEMMA QuietKept == IInv /\ QuietInv /\ [Next]_vars => QuietInv'
<1> SUFFICES ASSUME IInv, QuietInv, [Next]_vars, moves' = 0
             PROVE  QuietRepository' /\ QuietUpserts' /\ QuietMerges'
  BY DEF QuietInv
<1>1. moves \in Nat
  BY GitHubAssumption DEF IInv, GitHubInv, GitHubTypeOK
<1>2. ~(Others /\ UNCHANGED <<upserts, readies, gateVars, mergeVars>>)
  BY <1>1 DEF Others
<1>3. ASSUME moves = 0 PROVE QuietRepository /\ QuietUpserts /\ QuietMerges
  BY <1>3 DEF QuietInv
<1>4. CASE Upserting
  <2>1. PICK u \in UpsertCalls : UpsertStep(u)
    BY <1>4 DEF Upserting
  <2>2. moves = 0 /\ UNCHANGED mergeVars
    BY <1>4, <2>1 DEF Upserting, UpsertStep, ReadSourceBranch, FindNone, FindExisting, Create, PostPull,
                      Update, PatchPull, ReadBack, UpsertFails, githubVars
  <2>3. QED
    BY <1>3, <2>1, <2>2, UpsertKeeps, UpsertQuiet, QuietMergesFrame DEF QuietStep
<1>5. CASE Readying
  <2>1. PICK r \in ReadyCalls : RequestReady(r) \/ ReadyStep(r)
    BY <1>5 DEF Readying
  <2>2. moves = 0 /\ UNCHANGED <<upserts, mergeVars>>
    BY <1>5, <2>1 DEF Readying, RequestReady, StartReady, ReadyStep, ReadDraft, Mutate, ReadyPull,
                      ReadReady, ReadyFails, githubVars
  <2>3. QED
    BY <1>3, <2>1, <2>2, ReadyKeeps, ReadyQuiet, QuietUpsertsFrame, QuietMergesFrame DEF QuietStep
<1>6. CASE Observing \/ Deciding \/ UNCHANGED vars
  <2>1. UNCHANGED <<githubVars, upserts, mergeVars>>
    BY <1>6 DEF Observing, StartReadiness, ReadinessStep, ReadSnapshot, ReadRulesets, ReadinessFails,
                Deciding, vars
  <2>2. moves = 0 /\ PullsKept
    BY <2>1, GitHubUnchanged DEF githubVars, IInv
  <2>3. QED
    BY <1>3, <2>1, <2>2, QuietUnchanged, QuietUpsertsFrame, QuietMergesFrame DEF QuietStep
<1>7. CASE Merging
  <2>1. PICK m \in MergeCalls :
          \/ \E n \in Readied, q \in ReadinessCalls : StartMergeOf(m, n, q)
          \/ MergeStep(m) /\ UNCHANGED undisturbedRetries
    BY <1>7 DEF Merging
  <2>2. moves = 0 /\ UNCHANGED upserts
    BY <1>7, <2>1 DEF Merging, StartMergeOf, StartMerge, MergeStep, ReadPull, ReadSource, RequestMerge,
                      MergePull, ConfirmMerge, ReadMergedSource, DeleteBranch, DeleteSource,
                      ConfirmDeletion, MergeFails, githubVars
  <2>3. PullsKept
    BY <1>7, <2>1, MergeStarts, MergeKeeps DEF Merging
  <2>4. QED
    BY <1>3, <2>1, <2>2, <2>3, MergeQuiet, QuietUpsertsFrame DEF QuietStep
<1>8. QED
  BY <1>2, <1>4, <1>5, <1>6, <1>7 DEF Next

LEMMA QuietAlways == Spec => []QuietInv
<1>1. Init => QuietInv
  <2> SUFFICES ASSUME Init PROVE QuietRepository /\ QuietUpserts /\ QuietMerges
    BY DEF QuietInv
  <2>1. source = Pinned /\ Numbers = {} /\ Len(pulls) = 0
    BY EmptySeq DEF Init, GitHubInit, Numbers
  <2>2. \A m \in MergeCalls : merges[m].step = "idle"
    BY DEF Init, MergesInit, NoMerge
  <2>3. \A u \in UpsertCalls : upserts[u].step = "idle"
    BY DEF Init, UpsertsInit
  <2>4. undisturbedRetries = {}
    BY DEF Init
  <2>5. QED
    BY <2>1, <2>2, <2>3, <2>4 DEF QuietRepository, QuietUpserts, QuietMerges
<1>2. IInv /\ QuietInv /\ [Next]_vars => QuietInv'
  BY QuietKept
<1>3. QED
  BY <1>1, <1>2, Invariant, PTL DEF Spec

(* With nobody else at work, any number of attempts of one operation agree *)
(* on one pull request until it leaves draft: none is told of a conflict.  *)
THEOREM UpsertsAgree == Spec => [](OneOperation => UndisturbedUpsertsAgree)
<1>1. QuietInv => (OneOperation => UndisturbedUpsertsAgree)
  BY DEF QuietInv, QuietRepository, QuietUpserts, AllDrafts, UndisturbedUpsertsAgree
<1>2. QED
  BY <1>1, QuietAlways, PTL

(* With nobody else at work, a merge attempt that begins after the merge   *)
(* adopts it, wherever the attempt that merged was cut off.                *)
THEOREM RetryAdopts == Spec => []MergeRetryAdopts
<1>1. QuietInv => MergeRetryAdopts
  BY DEF QuietInv, QuietMerges, Adopts, MergeRetryAdopts
<1>2. QED
  BY <1>1, QuietAlways, PTL

-----------------------------------------------------------------------------
(* The deletion of the source branch by a merge script.                    *)
DeletesAfterMerge ==
  \A m \in MergeCalls : merges[m] # merges'[m] /\ source' # source =>
    /\ merges[m].step = "delete" /\ source' = NoSha
    /\ Pull(m).state = "merged" /\ Pull(m).head = Pinned
    /\ moves = 0 => source = Pinned

(* The branch is deleted only behind a merge of the approved head, and the *)
(* head deleted is that one unless somebody else pushed: nothing that the  *)
(* scripts do to each other makes the deletion hit another head.           *)
THEOREM DeletedOnlyWhenMerged == Spec => [][DeletesAfterMerge]_vars
<1>1. IInv /\ QuietInv /\ [Next]_vars => [DeletesAfterMerge]_vars
  <2> SUFFICES ASSUME IInv, QuietInv, [Next]_vars,
                      NEW m \in MergeCalls, merges[m] # merges'[m], source' # source
               PROVE  /\ merges[m].step = "delete" /\ source' = NoSha
                      /\ Pull(m).state = "merged" /\ Pull(m).head = Pinned
                      /\ moves = 0 => source = Pinned
    BY DEF DeletesAfterMerge
  <2>1. PICK o \in MergeCalls :
          \/ \E n \in Readied, q \in ReadinessCalls : StartMergeOf(o, n, q)
          \/ MergeStep(o)
    BY DEF Next, Upserting, Readying, Observing, Deciding, Merging, vars, mergeVars
  <2>2. DeleteBranch(o)
    BY <2>1
       DEF StartMergeOf, StartMerge, MergeStep, ReadPull, ReadSource, RequestMerge, MergePull,
           ConfirmMerge, ReadMergedSource, ConfirmDeletion, MergeFails, githubVars
  <2>3. o = m
    BY <2>2, MergeFacts DEF DeleteBranch, MergeGoes
  <2>4. merges[m].step = "delete" /\ source # NoSha /\ source' = NoSha
    BY <2>2, <2>3 DEF DeleteBranch, DeleteSource
  <2>5. Pull(m).state = "merged" /\ Pull(m).head = Pinned
    BY <2>4, MergeFacts DEF MergeDone
  <2>6. moves = 0 => source = Pinned
    BY <2>4 DEF QuietInv, QuietRepository
  <2>7. QED
    BY <2>4, <2>5, <2>6
<1>2. QED
  BY <1>1, Invariant, QuietAlways, PTL DEF Spec
=============================================================================
