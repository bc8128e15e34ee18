# Verification of revo-scripts in TLA+

Revo-scripts runs *deterministic scripts* for a durable host. The host hands the
facade one **attempt** — an identity `(executionId, attemptId)`, a pinned script
revision and an input — and gets a terminal result or an `uncertain` answer. In
between, the package acquires a workspace, credentials and provider clients from
the host, calls the script's handler, delivers its events to the host's sink,
enforces a wall clock, and disposes what it acquired. The built-in scripts then
work on things that others change at the same time: a git branch and its remote,
and a pull request at GitHub. Before an attempt there is a **binding**: the host
prepares it once, stores it, and may execute it in a later process built from
another release.

This directory holds TLA+ modules for the parts where order matters, the TLC
configurations that check them on small instances, and proofs, checked by TLAPS,
of the central safety properties for every instance. `PROJECT.json` is the index:
components, runs, mutants, the source lines of every definition, findings,
hazards and theorems. Paths below are relative to the package root, `src/`.

## 1. Inventory

| Component | State | Operations | Talks to | What is hard | What makes it correct |
|---|---|---|---|---|---|
| **Attempt state** `application/execution/attempt-state.ts` | maps `active`, `terminal`, `uncertain`, list `terminalOrder` | `begin`, `finish`, `markUncertain`, `cancel`, `reconcile` | called by the coordinator and the facade | duplicates, late settlement, eviction at the limit | one run per identity, bounded slots and memory, answers that never go back |
| **Coordinator** `attempt-execution-coordinator.ts` | the stack of each `execute()`, `progress.phase` | `execute`, `runAccepted`, two races, outcome precedence | everything below | five asynchronous parties race; cleanup can fail; a run can settle after its answer | every accepted call is answered; success is proven; faults keep their precedence |
| **Event lane** `attempt-event-lane.ts` | the promise chain `pending`, ordinal, latched fault, closed flag | `started`, `custom`, `drain`, `closeForUncertainty`, `sealTerminal` | the host's sink | a handler need not await its emits; the sink hangs or rejects | order, a terminal event after all others, at most one event after an uncertain answer |
| **Resources** `attempt-resource-preparer.ts`, `acquired-attempt-resources.ts` | live leases and clients | ordered acquisition, `disposeAll` | host workspace/credential ports, providers | partial failure in the middle; failing disposers | nothing is disposed in use, nothing stays held behind a terminal result |
| **Deadline** `runtime/execution/deadline/` | timer, abort controller, reason | create, expire, abort, dispose | clock, host signal | first of two reasons wins | one reason, kept |
| **Facade** `application/default-revo-scripts.ts` | one `AttemptState` | `prepareBinding`, `executeAttempt`, `cancelAttempt`, `reconcileAttempt` | host | loss of the process | a new process knows nothing and says so |
| **Binding preparer** `application/bindings/` | the stack of each `prepare()` | exact names, inspection of each resource, workspace and credential, the binding | registry, catalog, host | the host changes what a reference stands for between two inspections, and everything may change before execution | what was prepared is admitted where it was prepared, and runs only as the same code under the same grant |
| **Provider catalog** `application/providers/` | registered providers | construction, `requireCoverage`, `describe`, `validateCoordinates` | facade, preparer, coordinator | a required provider missing or short of an operation | a process that started never misses a provider |
| **Registry and registration** `runtime/registry/`, `application/registration/` | definitions by key | `register`, `resolve` (queries: `getExact`, `readDefinition`, `listManifests`) | facade | a script registered by two modules | one definition per pin |
| **Definition and manifest validation** `runtime/definition/` | none | `defineScript`, policies on collections, operations, retries, idempotency, the definition digest | registry | rules that interact | refuses what the runtime cannot enforce |
| **Built-in providers** `providers/{git,github}/` (factories) | none | which bounded client a script gets | resources | a client with more operations than the grant | a handler holds nothing beyond its grant |
| **Payload limits, redaction, results** `runtime/execution/{payload,redaction,results}/` | none | limits on JSON, redaction, result validation | coordinator, lane | boundaries | no secret and no oversized value passes |
| **Git provider** `providers/git/` | none: the repository is the state | `commit`, `push`, `readStatus` | git processes | others move the refs between any two commands; answers are lost | answers are true; nobody's work is lost; a retry adopts what an earlier attempt did |
| **GitHub provider** `providers/github/` | none: GitHub is the state | pull request upsert, ready, merge, readiness; thread respond, resolve | HTTP | the same | the same |
| **Script handlers** `scripts/` | none | checks of input and observation around one client call | clients | stale observation | fail closed |
| **Host ports, contracts** `host/`, `*/contracts/` | — | interfaces | host | — | — |
| **Testing helpers, build scripts** `testing/`, `scripts/` at the root | — | — | — | — | — |

`PROJECT.json` says of each whether it is modelled; section 8 says why not.

The runtime is a single JavaScript process: code between two `await`s is atomic,
and everything else interleaves. That is the grain of the models: **an action is
the code from one await to the next**. For the git and GitHub clients, whose state
is outside the process, an action is one git command or one HTTP request.

## 2. Modules

```
AttemptState ── AttemptSupervisor ── MCAttemptSupervisor        many calls of one facade
     │               │  │
     │               │  └─ implements AttemptLedger             what the host is promised
     │               └─ AttemptSupervisorProofs                 the theorems
     │               ▲
     │               │ implements (SupervisedRun)
AttemptOutcome ─┐    │
ScriptDeadline ─┼─ Attempt ─┬─ MCAttempt                        one attempt in full
AttemptEventLane┤           └─ AttemptProofs
AttemptResources┘

GitRepository ─┬─ GitCommit ─┬─ Git ─┬─ MCGit                   one branch and its remote
               ├─ GitPush ───┘       └─ GitProofs
               └─ GitStatus ─┬─ MCGitStatus                     one status observation
                             └─ GitStatusProofs

GitHubRepository ─┬─ PullRequestUpsert ────┐
                  ├─ PullRequestReady ─────┤
                  ├─ PullRequestReadiness ─┼─ PullRequests ─┬─ MCPullRequests
                  │    └─ PullRequestGate ─┤                └─ PullRequestsProofs
                  └─ PullRequestMerge ─────┘

ReviewThread ── ReviewThreadRespond ── ReviewThreadResolve ── ReviewThreads ─┬─ MCReviewThreads
                                                                             └─ ReviewThreadsProofs

ScriptManifest ─┬─ ScriptDeployment ── ScriptBindingPreparer ─┐
                │                       BuiltInProviders ─┬───┴─ BoundAttempt ─┐
                └─ PackageScripts ────────────────────────┘                    │
                     └─ MCReleases (data)                                      │
                                          ScriptBinding (+ PackageScripts) ────┘
                                            ├─ MCScriptBinding
                                            └─ ScriptBindingProofs
```

### 2.1 Attempts

`AttemptState` has the four collections of the class as total functions from
identities to the execute() call whose controller or result they hold; its
operators `begin`, `finish`, `markUncertain`, `reconcile`, `Cancelled` are the
methods. `AttemptSupervisor` runs any number of calls on it:

| variable | code |
|---|---|
| `call[c]` | where `execute()` is: validating (`preflight`), in the first race (`racing`), in the second (`grace`), answered `uncertain` with `terminal.then` pending (`supervised`), `returned`, `reconciled`, `rejected`; `leaked` after a rejection that left the identity in `active`; `lost` with the process |
| `run[c]` | the promise `terminal` of the call |
| `triggered` | calls whose deadline signal is aborted |

Actions: `Invoke`, `RejectPreflight`, `RejectAdmission`, `Admit`,
`AdmitWithoutDeadline` (the clock throws after `begin`), `Trigger` (wall clock,
host signal), `Cancel` (`cancelAttempt`), `Settle`, `SealThrows` (the clock throws
while the terminal event is sealed), the answers `ReturnSettled`,
`ReturnWithinGrace`, `RaceRejects`, `NoticeTrigger`, `GraceExpires`, the late
`FinishLate`, and `Restart`.

`AttemptLedger` is the abstract specification: per identity
unknown → uncertain → terminal, uncertain only into the terminal result of the
same call, terminal results immutable and forgotten oldest-first, everything
forgotten at once by a restart. The supervisor implements it with
`known[k] <- reconcile(k)`, `retained <- terminalOrder`.

`Attempt` opens one call up. `pc` is the await of `runAccepted()`; `primary` the
outcome chosen so far; `phase` the failure stage; `Progress` the stage an
uncertain answer reports. Four modules carry its parts:

- `ScriptDeadline`: the wall-clock timer, the attempt's controller and the reason
  of the deadline signal (first one wins).
- `AttemptEventLane`: `queue` is the promise chain, `working` what its first
  operation awaits, `due` how many operations the current `drain()` still waits
  for. `custom()` chains at once; a closed or latched lane refuses; the closed flag
  is read before the schema is awaited and not after, as in the code.
- `AttemptResources`: `Plan` is the sequence of acquisitions; `lease` the state of
  each handle. A failing acquisition disposes what was acquired, including a lease
  that was returned and then refused.
- `AttemptOutcome`: codes, stages, precedence and retained causes.

`Attempt` implements `AttemptSupervisor` with one identity and one call
(`SupervisedRun`), which ties the two levels: what is shown of many calls assumes of a
run only what `Attempt` does.

### 2.2 Git

`GitRepository` is a branch of the clone and the branch of that name at the
remote. git names a commit by its content and ancestors, so a head *is* the
sequence of commits on top of `Base`; of a commit the model keeps its tree, the
operation markers in its message and whether its author is the prescribed one.
`update-ref <ref> <new> <old>` and a push without force are external definitions.
Others may commit, rewrite or delete the branch, push, and replace or delete the
remote branch (`MaxMoves` bounds them).

`GitCommit` is `NodeGitCommitClient.commit()`: read the branch head; on the
expected parent, write the commit and `update-ref`; elsewhere, compare the head
with what this operation would have written (`reconcileExistingCommit`). `GitPush`
is `NodeGitPushClient.push()`: local head, `ls-remote`, `merge-base`, `push`,
`ls-remote` again. `GitStatus` is `readStatus()` with the handler's comparison:
changed paths, HEAD, tree — three processes. Every command may fail without effect,
or take effect and have its answer lost (`unavailable`), after which the host may
retry with a new call of the same operation.

### 2.3 Pull requests

`GitHubRepository` is the source branch and the pull requests opened from it, with
GitHub's own rules as external definitions: one open pull request per pair of
branches, a merge request that names a head is refused at another head, deleting a
branch closes its open pull request and pushing to it moves that pull request's head. A *text*
stands for title, base and business body — what `providerRevision` is the digest
of — and a *marker* for the two comment lines of a managed body.

`PullRequestUpsert`, `PullRequestReady` and `PullRequestMerge` are the three
clients that change something, one request per action, each of which may be refused
or have its answer lost. `PullRequestReadiness` is the observation: the GraphQL
snapshot and the request for the required checks are two steps, and how much GitHub
tells (pages, mergeability not computed yet, identities the credential may not read)
is a choice among `Answers`; `classify` has the rules of the handler in their order.
`PullRequestGate` is the host's one decision — approve a revision, or override its
unresolved threads — and `Authorized`, the guards of the merge handler on the decision
and the reading, with the two orders in which the code compares thread ids as constants.

`PullRequests` composes them the way a host does, feeding the pull request
of one result into the next input, with late attempts of earlier scripts still
running.

### 2.4 Review threads

`ReviewThread` is the threads of one pull request and, of their comments, those that
contain the key of an operation; `Proof` is `findGitHubReviewThreadReplyProof`:
nothing, the one intact reply by the credential's actor, or a conflict.
`ReviewThreadRespond` replies to a batch in order — search, second read, mutation,
search — and `ReviewThreadResolve` resolves the threads of a respond result while
their replies can be seen. `receipts` (respond) and `done` (resolve) are how far the
recursion over the items has come. `ReviewThreads` lets attempts run in turn or at
once; its history variable `overlapped` tells the two cases apart.

### 2.5 Script bindings

`ScriptManifest` is `validateScriptManifest` and the digest of a definition;
`ScriptDeployment` a *release*: the definition modules and provider modules one build of
the host composes, with registration, the catalog, coverage, and `Startable`, the releases
whose constructor does not throw. `PackageScripts` holds the package's own eleven manifests,
definitions, groups and two providers, and `BuiltInProviders` which bounded client a
provider creates from the access, the permissions, the workspace and the credential.

`ScriptBindingPreparer` is `prepare()`: resource slots, then credential slots, each
inspection of the host a step, since the code starts those of one kind together and
awaits them all. `BoundAttempt` is what `executeAttempt()` does with the binding: the
comparisons of `validateBinding` before admission, the coordinates again, then
provider by provider workspace, credentials and clients, each compared with what was
bound. `ScriptBinding` puts both in a host that changes what its references stand for,
stops the process, starts another release, and passes any stored binding under any pin.

| variable | code |
|---|---|
| `process` | the release that runs, if one does |
| `resources`, `workspaces`, `credentials` | what the host answers for a reference |
| `preparations[c]` | where a `prepare()` is, what it has inspected, the binding it returned |
| `attempts[a]` | where an `executeAttempt()` is, what it has acquired and attached |
| `deployments` | the releases the host will start, one after another |
| `answered` | history: everything a resource reference has stood for |

A provider chooses a client from the permissions and the access of the manifest
(`docs/adr/0001-script-sdk-and-runtime-boundary.md:91–93`), not from its `operations`; so
the part of `HandlerWithinGrant` about clients speaks of the package's own scripts, whose
manifests agree with themselves in this.

## 3. Runs

| Run | Asks | Result |
|---|---|---|
| `supervisor` | three calls, up to three identities, two slots, one retained result: do duplicates, capacity, eviction, late settlement, cancellation and restarts keep the ledger promise, and is every admitted call answered when nothing is assumed of the run inside it? | holds |
| `attempt` | one attempt, two providers, two leases, two events: handles, event order, precedence, success, uncertainty, refinement, closure | holds |
| `attempt_precedence` | does a cleanup failure win over a sink failure, and that over timeout and cancellation, as documented? | **violated** |
| `attempt_detached_emit` | is the terminal event last when the handler left an emit behind? | **violated** |
| `git` | two competing commits, a retry, two pushes and others | holds |
| `git_push_lease` | is the push a compare-and-swap on the expected remote head? | **violated** |
| `git_status_capture` | is a status result one capture? | **violated** |
| `pull_requests` | two upsert attempts, one mark-ready, one reading, one decision, two merge attempts and others | holds |
| `pull_request_deletion` | does the deletion remove only the branch at the merged head? | **violated** |
| `pull_request_override` | is an override accepted that lists exactly the unresolved threads? | **violated** |
| `review_threads` | two attempts of a respond operation, another operation on the same threads, a resolve, and others | holds |
| `script_binding` | a binding prepared in one release and executed in it or another, while the host changes its data | holds |

The properties, by the question they answer:

- *Is work duplicated?* `OneRunPerIdentity`, `OneWinner` (of operations with one
  parent, one commits, unless somebody takes commits off the branch),
  `UndisturbedUpsertsAgree` (one pull request, and no attempt is refused),
  `RetryPostsOnce` (attempts that follow one another reply once per thread),
  `AttemptsAgree` (attempts that run at once may post twice, but never return
  different receipts).
- *Is an answer true?* `AnswersProven`, `SuccessIsProven`,
  `UncertainAcquireNeverDispatched`, `AnswersTrue` (one of commit and push, one of
  upsert, mark-ready and merge), `ReceiptsTrue`, `ConflictMeansOvertaken`.
- *Does a retry find what was done?* `UndisturbedPushSucceeds`, `MergeRetryAdopts`,
  and the commit and upsert properties above.
- *Is other people's work safe?* `OthersWorkKept`, `MergedOnlyAsApproved`,
  `MergedAsDecided` (a merge is backed by a reading after the decision that showed nothing
  in its way).
- *Do two scripts agree?* `CleanReadingAuthorizes` (what readiness calls clean, merge
  accepts).
- *Is what runs what was prepared?* `DispatchedAsPrepared`, `PreparedIsAdmitted`,
  `ProvidersComplete`, `HandlerWithinGrant`.
- *Are resources bounded and released?* `OpenRunsBounded`, `RetentionConsistent`,
  `HandlesKeptInUse`, `SealedResultHoldsNothing`, `CleanupFailureDominates`.
- *Are events in order?* `TerminalEventIsLast`, `AtMostOneLateEvent`.
- *Does it come to an end?* `AcceptedCallsAnswered`, `LateSettlementReconciled`,
  `CooperativeAttemptCloses`.
- *Does one level implement the other?* `LedgerPromise`, `SupervisedRun`.

Each property of a passing run has a mutant in `PROJECT.json`: a plausible bug in
the mapped code under which TLC finds the property violated.

### Bounds, and why they are enough

- *supervisor*: three calls over up to three identities give a duplicate of an open, an
  uncertain and a terminal identity, and a refusal of a new identity at two open ones;
  one retained result gives eviction and a resubmission after it. TLC cannot use symmetry
  where liveness is checked, so `InOrderSpec` starts with the calls naming their identities in
  order, which any behaviour does once its identities are renamed. Nothing else is bounded, and
  the safety properties of this run are proved for every limit (section 4).
- *attempt*: `Plan` has two providers, so that an acquisition can fail with
  zero, one or two leases live; two events are enough for one to be
  delivered while another waits, is latched or is refused. The violation runs use
  one provider and one event.
- *git*: three calls — a competitor and a retry — with the same parent and the same
  tree, so only markers tell them apart; two pushes, before, between and after them;
  others commit the approved tree without marker, with one marker and with both. One move
  by others suffices for each race between a read and a write; `git_push_lease` needs one
  move to create the remote branch between the reads and allows two.
- *pull_requests*: two heads, two texts, at most two pull requests, one thread, one move by
  others; lost answers are not bounded. `pull_request_override` has two threads, which others
  open in two moves, and one attempt of each script.
- *review_threads*: a batch of two threads, so an attempt can end between items; two
  attempts of one operation and one of another; one move by others.
- *script_binding*: one preparation and one attempt, because calls neither read nor change
  each other's state; one change of the host's data, which falls between any two of their
  steps, each reference being read at most twice; one stop, so that the attempt may run in the
  release that prepared the binding or in another. Five releases can start — the first,
  one with a rebuilt script, with a changed manifest, with a rebuilt provider, with
  scripts withdrawn — and three must not: a script registered twice, a provider missing,
  an operation no provider has. The host's own script uses both providers on one of
  two repositories. Two changes take too long for the run; that they add nothing to
  its properties is proved: section 4 has all of them for any number of changes.

The identifiers of calls of one operation are symmetric in the git, pull-request and
thread runs.

Deadlock checking is off where the system really ends: an attempt, and a finite
set of client calls. It is on for the supervisor run, where `Restart` is
always possible.

### Fairness

`AttemptSupervisor` and `Attempt` assume only the event loop: a ready continuation
runs, the wall clock and the grace timer fire. Host, providers, sink and handler
may hang for ever, and `AcceptedCallsAnswered` holds nevertheless.
`CooperativeAttemptCloses` states its extra premise itself: *if* the environment
answers (`Cooperation`), the attempt closes. The git, pull-request and thread models state safety
only: every one of their commands may fail, so a call ends when its process or
request does.

## 4. Proofs

Every leaf is checked by SMT, Zenon or LS4. The theorems hold for any values of the constants
that meet the named assumptions of the modules: any sets of calls, identities, operations and
threads, any limits, and any number of moves by others. Each proof module has one inductive
invariant `IInv` (theorem `Invariant`), from which the others follow, some with a second one
on top of it. Every invariant and action property of the passing runs is the statement of a theorem; the
theorems marked * state what no run does: how far a refuted promise holds (section 5), or what is left
of a property when its premise fails.

| Module | Theorems, and the property each states |
|---|---|
| `AttemptSupervisorProofs` | `TypeCorrect`, `NoDuplicateRun` (`OneRunPerIdentity`), `RunsBounded` (`OpenRunsBounded`), `RetentionBounded` (`RetentionConsistent`), `AnswersAreProven` (`AnswersProven`), `LedgerRefinement` (`LedgerPromise`) |
| `AttemptProofs` | `TypeCorrect`, `HandlesInUseKept`, `NothingHeld` (`SealedResultHoldsNothing`), `TerminalLast`, `NeverDispatched`, `OneLateEvent`, `EventsNumberedInOrder`*, `SuccessProven`, `CleanupDominates`, `PrecedenceUntriggered`*, `SupervisedRefinement` |
| `GitProofs` | `TypeCorrect`, `ResultsTrue` (`AnswersTrue`), `RefusedOnlyWhenOvertaken` (`ConflictMeansOvertaken`), `OnlyOneWins` (`OneWinner`), `NothingLost` (`OthersWorkKept`), `PushesSucceed` (`UndisturbedPushSucceeds`), `LeaseHeldUndisturbed`* |
| `GitStatusProofs` | `TypeCorrect`, `PinnedCapturesObserved`*, `OneCaptureUndisturbed`* |
| `PullRequestsProofs` | `TypeCorrect`, `CleanIsAuthorized`, `ApprovedHeadMerged` (`MergedOnlyAsApproved`), `MergedWhenDecided` (`MergedAsDecided`), `ResultsTrue` (`AnswersTrue`), `UpsertsAgree` (`UndisturbedUpsertsAgree`), `RetryAdopts` (`MergeRetryAdopts`), `DeletedOnlyWhenMerged`*, `OverrideRefusedOnlyForOrder`*, `OneThreadAccepted`*, `OverrideAccepted`* |
| `ReviewThreadsProofs` | `TypeCorrect`, `RetriesPostOnce`, `ReturnedAgree` (`AttemptsAgree`), `ReceiptsAreTrue`, `NoReplyBesideAnother`* |
| `ScriptBindingProofs` | `NoProviderMissing` (`ProvidersComplete`), `SameCodeDispatched` (`DispatchedAsPrepared`), `PreparedAdmitted` (`PreparedIsAdmitted`), `Grants` (a second invariant), `TypeCorrect`, `HandlerGranted` (`HandlerWithinGrant`) |

Hardly any of these properties is inductive. What the invariants add:

- *Supervisor* (`StateAssumption`). `OneRunPerIdentity` speaks of calls, but `begin`
  decides by the map `active`; so `IInv` ties them both ways: an entry
  of `active` belongs to a call that holds that identity (`ActiveHeld`), and a call
  that holds an identity is its entry (`HoldersActive`). The number of holders is then the
  number of entries, which `begin` bounds (`SlotsBounded`). `TerminalClosed` says that a
  terminal identity is not open, so that `finish` never records an identity twice.
  The refinement shows each action to be one step of `AttemptLedger` or a stutter.
- *Attempt* (`AttemptAssumption`, `LaneAssumption`, `PlanAssumption`). `ControlInv` is what each
  await of `runAccepted()` has behind it, `HandlesInv` what the handles are at each of
  them, `LaneInv` counts the operations under way against what the sink was given. That the
  lane is empty while handles are disposed needs `DrainedInv`: the second drain empties it for
  good, provided the handler awaits its emits. `TerminalLast`, `SuccessProven` and
  `CleanupDominates` therefore assume `~DetachedEmits`; without it the first is finding 3.
  `EventsNumberedInOrder` does not assume it: its `OrdinalsInv` gives the terminal event its place among the
  ordinals of the others. `UnwoundInv` keeps, for `PrecedenceUntriggered`, the failed cleanup of a partial
  acquisition as the outcome up to the seal.
  `SupervisedRefinement` is the safety half of `SupervisedRun`.
- *Git* (`RepositoryAssumption`, `CommitAssumption`). `BranchGrows`: unless
  commits were taken off, every head the branch ever had is a prefix of the one it has, so two
  heads of one commit are equal and two winners have the same operation.
  `UndisturbedPushSucceeds` has its own invariant on top, `QuietInv`: with nobody else at
  work the branch takes at most one commit and the remote goes from what it was to the branch,
  once. `LeaseInv` adds, for `LeaseHeldUndisturbed`, that between the read of the remote and the push it is
  either what the push expects or already the head it publishes.
- *Git status* (`RepositoryAssumption`, and `PinnedTree \in Trees` where it is needed). What a call has
  read was a head of the branch, and is what is there as long as nobody else has moved anything.
- *Pull requests* (`GitHubAssumption`, `UpsertAssumption`, `OrderAssumption`, `MergeAssumption`).
  A merge in progress was authorized by a reading and a decision, neither of which changes
  once given (`MergeAuthorized`); pull requests are never removed and merged ones keep their head
  (`PullsKept`), so a step of one actor leaves what the others know. `QuietInv` is what is left of the
  repository when only the scripts touch it: the branch goes only with the merge, a second pull request
  is opened only when the first has left draft, and a call that began after the merge is past it.
  `UpsertsAgree` assumes that all attempts are of one operation (`OneOperation`):
  an attempt of another operation is rightly told of a conflict. The equivalence of
  `OverrideRefusedOnlyForOrder` needs no invariant; that single threads are always accepted needs both orders to list
  each thread once (`OrderAssumption`).
- *Review threads* (`ThreadAssumption`, `RespondAssumption`). `Undisturbed`: with nobody
  else at work, every receipt names the first reply of its operation (`First`), which stays the first as
  ids grow; that is why overlapping attempts cannot return different receipts although they may post twice. `InTurn`
  adds, for an operation whose attempts do not overlap, what the one running attempt knows of
  its current thread. `AloneInv` is the part of it that no move of others breaks: they can quote a reply,
  but only where there is one, so a thread searched and found without stays so until the post.
- *Script bindings* (`DefinitionAssumption`, `BindingAssumption`, `BuildDigestAssumption`, `HostAssumption`). A
  binding holds digests and public identities only. `IInv` says which definition and providers they
  were taken from and that an attempt past `validateBinding` was compared with
  them; that equal digests mean the same handler and the same provider is the assumption
  on builds. It says nothing of what the host answered, which `GrantInv` (theorem `Grants`) adds: `DataInv` types
  the data of preparations and attempts step by step, and the other parts follow each reference from
  the manifest through the inspection into the binding, and each descriptor, workspace and lease from the
  host's answer at execution into what the handler holds, in the order of the manifest's slots. Both halves
  are needed because host data changes between the two: the answer to a reference is only known to be one of
  those it ever had (`answered`). `HandlerGranted` also uses lemmas on the package's own eleven manifests, whose
  permissions and access select no client beyond their `operations`.

*Only model-checked*: the liveness properties `AcceptedCallsAnswered`, `LateSettlementReconciled` and
`CooperativeAttemptCloses`, and the fairness half of `SupervisedRun` (fairness and `ENABLED` are beyond the
prover; its safety half is `SupervisedRefinement`). The runs that refute a sentence of the documentation are
counterexamples and need no proof; what is proved about them is in section 5.

## 5. Findings

Each is a violation run; `PROJECT.json` quotes both sides with their lines.

1. **A late deadline drops a sink failure** (with 2, run `attempt_precedence`). `runAccepted` recomputes the outcome
   from the deadline signal after cleanup; `docs/specs/script-runtime-v1.spec.md:129`
   says a sink failure wins over timeout and cancellation. Proved: that re-read is the only cause
   (`PrecedenceUntriggered`, for handlers that await their emits).
2. **A late deadline drops the cleanup failure of a partial acquisition**, against
   the same sentence.
3. **The terminal event need not be last**: nothing closes the lane when the
   result is sealed, so an emit the handler left behind is delivered around it; the
   spec says (`:125`) that terminal events are sealed after the lane settles. Proved: it takes a detached
   emit (`TerminalLast`), and ordinals stay in order and gap-free even then (`EventsNumberedInOrder`).
4. **The push has no lease**: the remote is compared, then pushed to without
   `--force-with-lease`; the script's README promises an atomic compare-and-swap. No
   commit is lost (`OthersWorkKept` holds). Proved: it takes a move of the ref by somebody else; the
   provider's own pushes and commits never do it to each other (`LeaseHeldUndisturbed`).
5. **A status result can join two captures**: changed paths are read before the
   captures that are compared. Proved: the captures of a result are always the pinned ones, and it takes a
   move or an edit by somebody else for its paths not to be (`PinnedCapturesObserved`, `OneCaptureUndisturbed`).
6. **The source branch can be deleted at a head nobody merged**: the comparison and
   the DELETE are two requests, and the DELETE names no head. Proved: the deletion always follows a merge of
   the approved head, and it takes a move by somebody else to hit another (`DeletedOnlyWhenMerged`).
7. **An exact override can be impossible.** The readiness script sorts thread ids with
   `localeCompare` (`github-pull-request-readiness.handler.ts:36`,
   `github-readiness-response.ts:199`), the merge script requires strictly increasing code
   units (`github-pull-request-merge.handler.ts:196–216`) of the reading and of the audit. For ids
   that the two orders sort differently no audit is accepted, although the script's README
   (`:14`) says that a "sorted, unique, exact" one is; the repository's test uses ids on which they agree.
   Proved: an exact override is accepted if and only if the two orders agree on its threads, so always where it
   names one (`OverrideRefusedOnlyForOrder`, `OneThreadAccepted`).

## 6. Abstractions

- Validation of data (inputs, bindings, schemas, public results) is one choice:
  accepted or refused. In `Attempt`, events are of three classes — valid, refused
  before the schema, refused by it.
- A fault is its code and stage; messages, details and evidence are left out.
  Causes are a set, as the code keeps them in a canonical order.
- The host's clock may throw in `AttemptSupervisor`, not in `Attempt`.
- A workspace allocation has no disposer and none is modelled.
- `check-ref-format`, `cat-file` and `commit-tree` move no ref and are folded into
  the command that follows; which configured remote matches (`NodeGitRemoteResolver`) is
  taken as resolved; the changed paths are a function of HEAD and the tree.
- HTTP failures of every kind are one: the call has failed, with or without effect.
- What GitHub tells beyond the pull request itself is chosen when the readiness answer is parsed.
- A reading counts as later than the decision by the time stamp of its result
  (`observedAt`), as the merge handler compares it. The stamp is taken after both requests, so the
  snapshot itself may be older than the decision; `MergedAsDecided` claims no more.
- A digest is the record of what it is a digest of; a handler or a provider is its build.
- Two review-thread attempts that overlap do post twice, which cannot be taken back and
  makes every later attempt a conflict. The host contract lets a next attempt start
  only after a terminal failure of the one before (`docs/specs/script-runtime-v1.spec.md:141`),
  which is why `RetryPostsOnce` speaks of attempts in turn.

## 7. Plan

The plan of modules is carried out up to the parts below; what could be added:

1. Redaction and payload limits as recursive functions over bounded JSON values, the
   status parser, `NodeGitRemoteResolver` and the canonical remote over small alphabets. They are
   sequential functions of one value, which the repository's tests reach well.
2. An abstract specification of one provider operation — performed at most once, answered truly — that
   commit, upsert and respond would each be shown to implement while nobody interferes. Today it is spread over
   `OneWinner`, `UndisturbedUpsertsAgree`, `RetryPostsOnce` and the properties about answers.

## 8. Not modelled

- *Host ports and public contracts* are interfaces; the environment actions of the
  models are their implementations.
- *Approval and echo scripts* copy their input.
- *Payload limits, redaction, results*: one JSON value rewritten in sequence. Where they can
  refuse an event or a result, `AttemptEventLane` and `Attempt` take the refusal as a choice.
- *Of the validation of definitions*, path policy, patterns of names and the closedness of JSON schemas:
  independent checks of data.
- *Testing helpers, build scripts, generated digests* are not part of the running system.
- *An edit between the listing of a pull request and the PATCH of upsert*
  (`fetch-github-pull-request-upsert-client.ts:144`) is overwritten. The model lets it
  happen; no property forbids it, because the code has no precondition there and claims none.
