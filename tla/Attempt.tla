------------------------------ MODULE Attempt ------------------------------
(***************************************************************************)
(* One execute() call in full: runAccepted() with the deadline, the event  *)
(* lane and the live handles of the attempt, beside the part of execute()  *)
(* that answers the host.                                                  *)
(*                                                                         *)
(* pc is the await at which runAccepted() is suspended; an action is the   *)
(* code from there to the next await.  Host, providers, sink and handler   *)
(* are the environment: they answer in any order, with any of the faults   *)
(* below, or never.  The host's clock does not throw here; what a throwing *)
(* clock does to a call is part of AttemptSupervisor.                      *)
(***************************************************************************)
EXTENDS AttemptOutcome, ScriptDeadline, AttemptEventLane, AttemptResources, FiniteSets

CONSTANTS
  HostFaults,      \* codes a failed acquisition is reported with
  HandlerFaults,   \* codes a handler fails with on its own account
  DetachedEmits    \* the handler may emit after its promise has settled

ASSUME AttemptAssumption ==
  /\ HostFaults \subseteq Codes
  /\ HandlerFaults \subseteq Codes
  /\ DetachedEmits \in BOOLEAN

VARIABLES
  call,      \* where execute() is, as in AttemptSupervisor
  pc,        \* where runAccepted() is
  phase,     \* failure stage while runAccepted() is in its try block
  handler,   \* the promise of handler.execute()
  acquired,  \* the acquisition was completed
  fault,     \* the fault that ended the acquisition
  primary,   \* the outcome chosen so far
  result,    \* the sealed outcome
  stage      \* the stage an "uncertain" answer reported

runVars == <<pc, phase, handler, acquired, fault, primary, result>>
vars == <<deadlineVars, laneVars, resourceVars, runVars, call, stage>>

NoOutcome == Outcome("none", "none", "none", {})

Steps == {"none", "restore", "input", "acquire", "unwind", "started", "handler",
          "drain", "result", "redrain", "dispose", "sealed"}

(* progress.phase: the stage an uncertain answer reports.                  *)
Progress ==
  CASE pc \in {"restore", "input", "result"} -> "validation"
    [] pc \in {"acquire", "unwind"} -> "acquire"
    [] pc \in {"started", "drain", "redrain", "sealed"} -> "event_sink"
    [] pc = "handler" -> "handler"
    [] pc = "dispose" -> "cleanup"
    [] OTHER -> "none"

TypeOK ==
  /\ DeadlineTypeOK /\ LaneTypeOK /\ ResourcesTypeOK
  /\ call \in {"idle", "preflight", "rejected", "racing", "grace", "supervised",
               "returned", "reconciled"}
  /\ pc \in Steps
  /\ phase \in Phases
  /\ handler \in {"none", "running", "returned", "threw"}
  /\ acquired \in BOOLEAN
  /\ fault \in Codes \union {"none"}
  /\ stage \in {"none", "validation", "acquire", "event_sink", "handler", "cleanup"}
  /\ \A o \in {primary, result} :
       /\ o.kind \in {"none", "succeeded", "failed", "cancelled", "timedOut"}
       /\ o.code \in Codes \union {"none"}

Init ==
  /\ DeadlineInit /\ LaneInit /\ ResourcesInit
  /\ call = "idle" /\ stage = "none"
  /\ pc = "none" /\ phase = "acquire" /\ handler = "none"
  /\ acquired = FALSE /\ fault = "none"
  /\ primary = NoOutcome /\ result = NoOutcome

-----------------------------------------------------------------------------
(* execute(): admission.                                                   *)

Invoke ==
  /\ call = "idle"
  /\ call' = "preflight"
  /\ UNCHANGED <<deadlineVars, laneVars, resourceVars, runVars, stage>>

Reject ==
  /\ call = "preflight"
  /\ call' = "rejected"
  /\ UNCHANGED <<deadlineVars, laneVars, resourceVars, runVars, stage>>

Admit ==
  /\ call = "preflight"
  /\ call' = "racing"
  /\ CreateDeadline
  /\ pc' = "restore"
  /\ UNCHANGED <<laneVars, resourceVars, phase, handler, acquired, fault, primary, result, stage>>

-----------------------------------------------------------------------------
(* runAccepted().                                                          *)

Goto(step) ==
  /\ pc' = step
  /\ UNCHANGED <<phase, handler, acquired, fault, primary, result>>

(* The catch block, then the second drain.                                 *)
CatchAs(outcome) ==
  /\ pc' = "redrain"
  /\ primary' = outcome
  /\ BeginDrain

Catch(code) == CatchAs(outcomeForFault(code, aborted, phase))

Rethrow(code) ==
  /\ Catch(code)
  /\ UNCHANGED <<phase, handler, acquired, fault, result>>

\* Mutant: a cancellation is not looked at, only the wall clock.
ElapsedByClock == signal = "wall_clock"

Elapsed == signal # "none"

(* throwIfDeadlineElapsed(), then on to the next await.                    *)
Checkpoint(step) ==
  \/ ~Elapsed /\ Goto(step) /\ UNCHANGED laneVars
  \/ Elapsed /\ Rethrow(signal)

RestoreCoordinates ==
  /\ pc = "restore"
  /\ Checkpoint("input") \/ Rethrow("validation")
  /\ UNCHANGED <<deadlineVars, resourceVars, call, stage>>

ValidateInput ==
  /\ pc = "input"
  /\ Checkpoint("acquire") \/ Rethrow("validation")
  /\ UNCHANGED <<deadlineVars, resourceVars, call, stage>>

Acquire ==
  /\ pc = "acquire"
  /\ AcquireNext
  /\ UNCHANGED <<deadlineVars, laneVars, runVars, call, stage>>

(* The handles are assembled; the deadline is looked at only now.          *)
AcquireCompleted ==
  /\ pc = "acquire"
  /\ AcquiredAll
  /\ acquired' = TRUE
  /\ \/ ~Elapsed /\ pc' = "started" /\ EnqueueStarted /\ UNCHANGED primary
     \/ Elapsed /\ Catch(signal)
  /\ UNCHANGED <<deadlineVars, resourceVars, phase, handler, fault, result, call, stage>>

AcquireFails(code) ==
  /\ pc = "acquire"
  /\ \E returned \in BOOLEAN : FailAcquisition(returned)
  /\ fault' = code
  /\ pc' = "unwind"
  /\ UNCHANGED <<deadlineVars, laneVars, phase, handler, acquired, primary, result, call, stage>>

(* disposeAfterFailedAcquire() and the catch block.                        *)
Unwound ==
  /\ pc = "unwind"
  /\ DisposalsSettled
  /\ CatchAs(IF DisposalFailed
             THEN failedAfter("cleanup", "cleanup", failed(fault, stageFor(fault, "acquire")))
             ELSE outcomeForFault(fault, aborted, phase))
  /\ UNCHANGED <<deadlineVars, resourceVars, phase, handler, acquired, fault, result, call, stage>>

(* The started event was delivered: the handler is called.                 *)
StartHandler ==
  /\ pc = "started"
  /\ Drained /\ latched = "none" /\ ~Elapsed
  /\ pc' = "handler" /\ phase' = "handler" /\ handler' = "running"
  /\ UNCHANGED <<deadlineVars, laneVars, resourceVars, acquired, fault, primary, result, call, stage>>

StartFails ==
  /\ pc = "started"
  /\ Drained
  /\ \/ latched # "none" /\ Catch(latched)
     \/ latched = "none" /\ Elapsed /\ Catch(signal)
  /\ UNCHANGED <<deadlineVars, resourceVars, phase, handler, acquired, fault, result, call, stage>>

HandlerEmits(event) ==
  /\ handler = "running" \/ (DetachedEmits /\ handler # "none")
  /\ custom(event)
  /\ UNCHANGED <<deadlineVars, resourceVars, runVars, call, stage>>

HandlerReturns ==
  /\ pc = "handler"
  /\ handler' = "returned"
  /\ pc' = "drain"
  /\ BeginDrain
  /\ UNCHANGED <<deadlineVars, resourceVars, phase, acquired, fault, primary, result, call, stage>>

(* A fault of its own, the deadline's reason, or a fault of an emit that   *)
(* it awaited.                                                             *)
HandlerThrows(code) ==
  /\ pc = "handler"
  /\ handler' = "threw"
  /\ Catch(code)
  /\ UNCHANGED <<deadlineVars, resourceVars, phase, acquired, fault, result, call, stage>>

HandlerCodes == HandlerFaults \union ({signal, latched} \ {"none"})

DrainCompleted ==
  /\ pc = "drain"
  /\ Drained
  /\ \/ latched = "none" /\ Goto("result") /\ UNCHANGED laneVars
     \/ latched # "none" /\ Rethrow(latched)
  /\ UNCHANGED <<deadlineVars, resourceVars, call, stage>>

(* The handler's result is valid, not JSON, or rejected by the validation. *)
ResultOutcomes ==
  IF Elapsed THEN {outcomeForFault(signal, aborted, phase)}
  ELSE IF latched # "none" THEN {failed(latched, "handler")}
  ELSE {Succeeded, failed("validation", "handler")}

ValidateResult ==
  /\ pc = "result"
  /\ \E outcome \in ResultOutcomes \union {outcomeForFault("validation", aborted, phase)} :
       CatchAs(outcome)
  /\ UNCHANGED <<deadlineVars, resourceVars, phase, handler, acquired, fault, result, call, stage>>

\* Mutant: cleanup does not wait for the events the handler did not await.
RedrainSkipped ==
  /\ pc = "redrain"
  /\ primary' = IF latched = "none" THEN primary
                ELSE failedAfter(latched, stageFor(latched, "handler"), primary)
  /\ pc' = "dispose"
  /\ IF acquired THEN BeginDispose ELSE UNCHANGED resourceVars
  /\ UNCHANGED <<deadlineVars, laneVars, phase, handler, acquired, fault, result, call, stage>>

(* The second drain, then dispose() starts every disposer.                 *)
RedrainCompleted ==
  /\ pc = "redrain"
  /\ Drained
  /\ primary' = IF latched = "none" THEN primary
                ELSE failedAfter(latched, stageFor(latched, "handler"), primary)
  /\ pc' = "dispose"
  /\ IF acquired THEN BeginDispose ELSE UNCHANGED resourceVars
  /\ UNCHANGED <<deadlineVars, laneVars, phase, handler, acquired, fault, result, call, stage>>

\* Mutant: the deadline is not read again after the cleanup.
PrimaryAsChosen == primary

SettledPrimary ==
  IF Elapsed THEN outcomeForFault(signal, aborted, phase) ELSE primary

\* Mutant: the deadline wins over the cleanup failure.
TriggerFirst ==
  IF acquired /\ DisposalFailed /\ ~Elapsed
  THEN failedAfter("cleanup", "cleanup", SettledPrimary)
  ELSE SettledPrimary

FinalOutcome ==
  IF acquired /\ DisposalFailed
  THEN failedAfter("cleanup", "cleanup", SettledPrimary)
  ELSE SettledPrimary

\* Mutant: the disposers are started but not awaited.
SealAtOnce ==
  /\ pc = "dispose"
  /\ result' = FinalOutcome
  /\ pc' = "sealed"
  /\ sealTerminal
  /\ UNCHANGED <<deadlineVars, resourceVars, phase, handler, acquired, fault, primary, call, stage>>

Seal ==
  /\ pc = "dispose"
  /\ DisposalsSettled
  /\ result' = FinalOutcome
  /\ pc' = "sealed"
  /\ sealTerminal
  /\ UNCHANGED <<deadlineVars, resourceVars, phase, handler, acquired, fault, primary, call, stage>>

DisposerSettles(i, how) ==
  /\ SettleDispose(i, how)
  /\ UNCHANGED <<deadlineVars, laneVars, runVars, call, stage>>

LaneWorks == LaneWork /\ UNCHANGED <<deadlineVars, resourceVars, runVars, call, stage>>

SinkSettles ==
  /\ SinkAccepts \/ SinkRejects
  /\ UNCHANGED <<deadlineVars, resourceVars, runVars, call, stage>>

-----------------------------------------------------------------------------
(* execute(): the answer.                                                  *)

\* Mutant: the handles are disposed as soon as the deadline expires.
WallClockDisposes ==
  /\ Expire
  /\ BeginDispose
  /\ UNCHANGED <<laneVars, runVars, call, stage>>

WallClock ==
  /\ Expire
  /\ UNCHANGED <<laneVars, resourceVars, runVars, call, stage>>

HostAborts ==
  /\ \E reason \in Reasons : Abort(reason)
  /\ UNCHANGED <<laneVars, resourceVars, runVars, call, stage>>

finishAccepted(from, to) ==
  /\ call = from
  /\ pc = "sealed"
  /\ call' = to
  /\ DisposeDeadline
  /\ UNCHANGED <<laneVars, resourceVars, runVars, stage>>

ReturnSettled == finishAccepted("racing", "returned")
ReturnWithinGrace == finishAccepted("grace", "returned")
FinishLate == finishAccepted("supervised", "reconciled")

NoticeTrigger ==
  /\ call = "racing"
  /\ signal # "none"
  /\ call' = "grace"
  /\ UNCHANGED <<deadlineVars, laneVars, resourceVars, runVars, stage>>

(* A timer fires only when no promise reaction is left to run.             *)
ReactionsDrained ==
  /\ ~OperationReady
  /\ ~(pc = "acquire" /\ AcquiredAll)
  /\ ~(pc \in {"unwind", "dispose"} /\ DisposalsSettled)
  /\ ~(pc \in {"started", "drain", "redrain"} /\ Drained)

\* Mutant: the grace timer is not cleared by a run that settles in time.
GraceExpiresLate ==
  /\ call = "grace"
  /\ ReactionsDrained
  /\ closeForUncertainty
  /\ stage' = Progress
  /\ call' = "supervised"
  /\ UNCHANGED <<deadlineVars, resourceVars, runVars>>

GraceExpires ==
  /\ call = "grace"
  /\ pc # "sealed"
  /\ ReactionsDrained
  /\ closeForUncertainty
  /\ stage' = Progress
  /\ call' = "supervised"
  /\ UNCHANGED <<deadlineVars, resourceVars, runVars>>

Next ==
  \/ Invoke \/ Reject \/ Admit
  \/ RestoreCoordinates \/ ValidateInput
  \/ Acquire \/ AcquireCompleted \/ Unwound
  \/ \E code \in HostFaults : AcquireFails(code)
  \/ StartHandler \/ StartFails
  \/ \E event \in CustomEvents : HandlerEmits(event)
  \/ HandlerReturns
  \/ \E code \in HandlerCodes : HandlerThrows(code)
  \/ DrainCompleted \/ ValidateResult \/ RedrainCompleted \/ Seal
  \/ \E i \in DOMAIN lease, how \in {"released", "failed"} : DisposerSettles(i, how)
  \/ LaneWorks \/ SinkSettles
  \/ WallClock \/ HostAborts
  \/ ReturnSettled \/ ReturnWithinGrace \/ FinishLate
  \/ NoticeTrigger \/ GraceExpires

(* The package's own continuations run and its timers fire...              *)
Continuation ==
  \/ AcquireCompleted \/ Unwound \/ StartHandler \/ StartFails
  \/ DrainCompleted \/ RedrainCompleted \/ Seal

Answer == ReturnSettled \/ ReturnWithinGrace \/ NoticeTrigger \/ GraceExpires

Fairness ==
  /\ WF_vars(Admit \/ Reject)
  /\ WF_vars(Continuation)
  /\ WF_vars(LaneWorks)
  /\ WF_vars(WallClock)
  /\ WF_vars(Answer)
  /\ WF_vars(FinishLate)

(* ... and, where a property says so, the environment answers as well.     *)
Cooperation ==
  /\ WF_vars(RestoreCoordinates \/ ValidateInput \/ ValidateResult)
  /\ WF_vars(Acquire \/ \E code \in HostFaults : AcquireFails(code))
  /\ WF_vars(HandlerReturns \/ \E code \in HandlerCodes : HandlerThrows(code))
  /\ WF_vars(SinkSettles)
  /\ \A i \in 1..Len(Plan) : WF_vars(\E how \in {"released", "failed"} : DisposerSettles(i, how))

Spec == Init /\ [][Next]_vars /\ Fairness

-----------------------------------------------------------------------------
(* No handle is disposed while the handler may be using it: neither a      *)
(* deadline nor a cancellation takes a lease away from a handler that has  *)
(* not settled ("does not release an in-use handle").                      *)
HandlesKeptInUse ==
  handler = "running" => \A i \in DOMAIN lease : lease[i] \in {"none", "live"}

(* A terminal result is proof that nothing is still held: every disposer   *)
(* has answered when the result is sealed, on every path.                  *)
SealedResultHoldsNothing ==
  pc = "sealed" => \A i \in DOMAIN lease : lease[i] \notin {"live", "disposing"}

(* The terminal event is sealed after the live lane has settled, with an   *)
(* ordinal above that of every event the sink was given.                   *)
TerminalEventIsLast ==
  sealed # 0 =>
    /\ queue = << >>
    /\ sealed = Len(delivered) + 1
    /\ \A i \in DOMAIN delivered : delivered[i] = i

(* An "uncertain" answer in stage "acquire" tells the host that the        *)
(* handler was not dispatched, now or later: the run finds the deadline    *)
(* elapsed before it reaches the handler.                                  *)
UncertainAcquireNeverDispatched ==
  stage = "acquire" => handler = "none" /\ signal # "none"

(* Success is sealed only for a handler that returned, with no latched     *)
(* fault, every handle released and no trigger before the sealing.         *)
SuccessIsProven ==
  [][pc' = "sealed" /\ pc # "sealed" /\ result'.kind = "succeeded" =>
       /\ handler = "returned" /\ acquired /\ signal = "none" /\ latched = "none"
       /\ \A i \in DOMAIN lease : Disposable(i) => lease[i] = "released"]_vars

(* A completed acquisition whose cleanup failed is reported as a cleanup   *)
(* failure whatever happened before, and what happened before is retained  *)
(* as a cause: the deadline or cancellation, or else the latched fault.    *)
CleanupFailureDominates ==
  [][pc' = "sealed" /\ pc # "sealed" /\ acquired /\ DisposalFailed =>
       /\ result'.kind = "failed" /\ result'.code = "cleanup"
       /\ signal # "none" =>
            \E kind \in {"timedOut", "cancelled"} : PriorOutcome(kind) \in result'.causes
       /\ signal = "none" /\ latched # "none" =>
            \E s \in {"handler", "event_sink"} : Fault(latched, s) \in result'.causes]_vars

(* Once the host was told "uncertain", at most one more event reaches the  *)
(* sink: the one whose schema was being awaited when the lane was closed.  *)
AtMostOneLateEvent == late <= 1

(* As documented, "Cleanup failure wins over sink failure; sink failure     *)
(* wins over timeout, cancellation, handler/provider failure or success",  *)
(* the cleanup of a partial acquisition included.                          *)
DocumentedPrecedence ==
  pc = "sealed" =>
    /\ DisposalFailed => result.code = "cleanup"
    /\ latched = "event_sink" => result.code \in {"event_sink", "cleanup"}

(* This run, alone, is a run of AttemptSupervisor: what is shown there of  *)
(* many calls rests on the call modelled here.                             *)
Supervised == INSTANCE AttemptSupervisor WITH
  Keys <- {"identity"}, Calls <- {"call"}, NoCall <- "no call",
  OpenLimit <- 1, TerminalLimit <- 1,
  active <- [k \in {"identity"} |->
    IF call \in {"racing", "grace", "supervised"} THEN "call" ELSE "no call"],
  uncertain <- [k \in {"identity"} |-> IF call = "supervised" THEN "call" ELSE "no call"],
  terminal <- [k \in {"identity"} |->
    IF call \in {"returned", "reconciled"} THEN "call" ELSE "no call"],
  terminalOrder <- IF call \in {"returned", "reconciled"} THEN <<"identity">> ELSE << >>,
  call <- [c \in {"call"} |-> call],
  key <- [c \in {"call"} |-> "identity"],
  run <- [c \in {"call"} |->
    IF pc = "none" THEN "none" ELSE IF pc = "sealed" THEN "settled" ELSE "open"],
  triggered <- IF signal = "none" THEN {} ELSE {"call"}

SupervisedRun == Supervised!Spec

(* When host, sink and handler answer in the end, every admitted attempt   *)
(* reaches its sealed result and is closed.                                *)
CooperativeAttemptCloses ==
  Cooperation => (call = "racing" ~> call \in {"returned", "reconciled"})

=============================================================================
