--------------------------- MODULE AttemptProofs ---------------------------
(***************************************************************************)
(* Theorems about Attempt for any plan of acquisitions, any number of      *)
(* events and any faults of host and handler: the safety properties its    *)
(* TLC run checks on one instance.                                         *)
(*                                                                         *)
(* IInv follows the run.  ControlInv says what each step of runAccepted()  *)
(* has behind it, HandlesInv what the live handles are at each step,       *)
(* LaneInv relates the chain of events to what the sink was given, and     *)
(* OutcomeInv says where the chosen outcome comes from.                    *)
(***************************************************************************)
EXTENDS Attempt, FiniteSetTheorems, SequenceTheorems, TLAPS

(* The steps before the handler can be dispatched, and after it settled.   *)
Early == {"none", "restore", "input", "acquire", "unwind"}
Late == {"redrain", "dispose", "sealed"}

ControlInv ==
  /\ pc \in Early => handler = "none" /\ ~acquired /\ queue = << >>
  /\ pc \in {"started", "handler", "drain", "result"} => acquired
  /\ pc = "started" => handler = "none"
  /\ pc = "handler" <=> handler = "running"
  /\ pc \in {"drain", "result"} => handler = "returned"
  /\ acquired => AcquiredAll
  /\ pc = "unwind" => fault \in Codes
  /\ pc = "sealed" <=> sealed # 0
  /\ pc = "none" <=> call \in {"idle", "preflight", "rejected"}
  /\ call = "grace" => signal # "none"
  /\ armed => call \in {"racing", "grace", "supervised"}
  /\ signal = "aborted" => aborted
  /\ closed => signal # "none"
  /\ stage = "acquire" =>
       signal # "none" /\ handler = "none" /\ pc \in {"acquire", "unwind"} \union Late

Idle == \A i \in 1..Len(Plan) : lease[i] = "none"
Unused == \A i \in 1..Len(Plan) : lease[i] \in {"none", "live"}
Nothing(states) == \A i \in 1..Len(Plan) : lease[i] \notin states

HandlesInv ==
  /\ pc \in {"none", "restore", "input"} => Idle
  /\ pc \in {"acquire", "started", "handler", "drain", "result"} => Unused
  /\ pc = "unwind" => Nothing({"live"})
  /\ pc = "redrain" => IF acquired THEN Unused ELSE Nothing({"live", "disposing"})
  /\ pc = "dispose" => IF acquired THEN Nothing({"live"}) ELSE Nothing({"live", "disposing"})
  /\ pc = "sealed" => Nothing({"live", "disposing"})
  /\ \A i \in 1..Len(Plan) : Disposable(i) /\ i < next => lease[i] # "none"

(* The operations under way and chained are the events asked for and not   *)
(* yet handed to the sink, and the started event.                          *)
Count(condition) == IF condition THEN 1 ELSE 0

LaneInv ==
  /\ due <= Len(queue)
  /\ working # "idle" => queue # << >>
  /\ working = "sink" => Len(delivered) > 0
  /\ working = "schema" => queue[1] \in {"valid", "malformed"}
  /\ \A i \in 2..Len(queue) : queue[i] # "started"
  /\ Len(delivered) + Len(queue) <= emitted + Count(acquired) + Count(working = "sink")
  /\ ordinal = Len(delivered) + Count(sealed # 0)
  /\ sealed = 0 => \A i \in 1..Len(delivered) : delivered[i] = i
  /\ late <= Count(closed)
  /\ closed /\ working = "schema" => late = 0
  /\ closed /\ queue # << >> /\ queue[1] = "started" => working = "sink"

(* When every emit ends with the handler, the second drain empties the     *)
(* lane for good.                                                          *)
DrainedInv ==
  ~DetachedEmits =>
    /\ pc = "redrain" => due = Len(queue)
    /\ pc \in {"dispose", "sealed"} => queue = << >>
    /\ pc = "sealed" =>
         /\ sealed = Len(delivered) + 1
         /\ \A i \in 1..Len(delivered) : delivered[i] = i

OutcomeInv ==
  /\ pc \in {"redrain", "dispose"} /\ primary.kind = "succeeded" => handler = "returned" /\ acquired
  /\ ~DetachedEmits /\ pc = "dispose" /\ latched # "none" =>
       /\ primary.kind = "failed"
       /\ primary.code = latched
       /\ primary.stage \in {"handler", "event_sink"}

IInv == TypeOK /\ ControlInv /\ HandlesInv /\ LaneInv /\ DrainedInv /\ OutcomeInv

-----------------------------------------------------------------------------
(* What the steps of the lane have in common.                              *)

LaneUntouched == UNCHANGED <<deadlineVars, resourceVars, runVars, call, stage>>

LEMMA LaneSteps ==
  ASSUME LaneInv, TypeOK, LaneWorks \/ SinkSettles
  PROVE  /\ queue # << >> /\ UNCHANGED <<closed, sealed, emitted>>
         /\ LaneUntouched
BY DEF LaneInv, TypeOK, LaneTypeOK, LaneWorks, SinkSettles, LaneWork, EmitStarted, RefuseCustom,
       rejectCustomEvent, ValidateCustom, EmitCustom, RejectMalformed, SinkAccepts, SinkRejects,
       OperationReady, EndOperation, HandToSink, LaneUntouched

-----------------------------------------------------------------------------
(* Control.                                                                *)

LEMMA ControlKept ==
  ASSUME TypeOK, ControlInv, LaneInv, Next
  PROVE  ControlInv'
<1> USE DEF deadlineVars, resourceVars, runVars, Early, Late, ControlInv
<1>1. CASE Invoke \/ Reject
  BY <1>1 DEF Invoke, Reject, laneVars, AcquiredAll
<1>2. CASE Admit
  BY <1>2 DEF Admit, CreateDeadline, Reasons, laneVars, AcquiredAll
<1>3. CASE RestoreCoordinates \/ ValidateInput
  BY <1>3 DEF RestoreCoordinates, ValidateInput, Checkpoint, Goto, Rethrow, Catch, CatchAs,
              BeginDrain, laneVars, AcquiredAll
<1>4. CASE Acquire
  BY <1>4 DEF Acquire, AcquireNext, laneVars, AcquiredAll
<1>5. CASE AcquireCompleted
  BY <1>5 DEF AcquireCompleted, Catch, CatchAs, BeginDrain, EnqueueStarted, Elapsed, AcquiredAll
<1>6. CASE Unwound
  BY <1>6 DEF Unwound, CatchAs, BeginDrain, AcquiredAll
<1>7. ASSUME NEW code \in HostFaults, AcquireFails(code) PROVE ControlInv'
  BY <1>7, AttemptAssumption DEF AcquireFails, FailAcquisition, laneVars, AcquiredAll
<1>8. CASE StartHandler \/ StartFails
  BY <1>8 DEF StartHandler, StartFails, Catch, CatchAs, BeginDrain, laneVars, AcquiredAll
<1>9. ASSUME NEW event \in CustomEvents, HandlerEmits(event) PROVE ControlInv'
  BY <1>9 DEF HandlerEmits, custom, AcquiredAll
<1>10. ASSUME NEW code \in HandlerCodes, HandlerReturns \/ HandlerThrows(code) PROVE ControlInv'
  BY <1>10 DEF HandlerReturns, HandlerThrows, Catch, CatchAs, BeginDrain, AcquiredAll
<1>11. CASE HandlerReturns
  BY <1>11 DEF HandlerReturns, BeginDrain, AcquiredAll
<1>12. CASE DrainCompleted \/ ValidateResult
  BY <1>12 DEF DrainCompleted, ValidateResult, Goto, Rethrow, Catch, CatchAs, BeginDrain, laneVars, AcquiredAll
<1>13. CASE RedrainCompleted
  BY <1>13 DEF RedrainCompleted, BeginDispose, laneVars, AcquiredAll
<1>14. CASE Seal
  BY <1>14 DEF Seal, sealTerminal, AcquiredAll, TypeOK, LaneTypeOK
<1>15. ASSUME NEW i \in DOMAIN lease, NEW how \in {"released", "failed"}, DisposerSettles(i, how)
       PROVE ControlInv'
  BY <1>15 DEF DisposerSettles, SettleDispose, laneVars, AcquiredAll
<1>16. CASE LaneWorks \/ SinkSettles
  BY <1>16, LaneSteps DEF LaneUntouched, AcquiredAll
<1>17. CASE WallClock \/ HostAborts
  BY <1>17 DEF WallClock, HostAborts, Expire, Abort, Reasons, laneVars, AcquiredAll
<1>18. CASE ReturnSettled \/ ReturnWithinGrace \/ FinishLate
  BY <1>18 DEF ReturnSettled, ReturnWithinGrace, FinishLate, finishAccepted, DisposeDeadline, laneVars, AcquiredAll
<1>19. CASE NoticeTrigger
  BY <1>19 DEF NoticeTrigger, laneVars, AcquiredAll
<1>20. CASE GraceExpires
  BY <1>20 DEF GraceExpires, closeForUncertainty, Progress, AcquiredAll
<1>21. QED
  BY <1>1, <1>2, <1>3, <1>4, <1>5, <1>6, <1>7, <1>8, <1>9, <1>10, <1>11, <1>12, <1>13, <1>14,
     <1>15, <1>16, <1>17, <1>18, <1>19, <1>20 DEF Next

-----------------------------------------------------------------------------
(* The live handles.                                                       *)

LEMMA HandlesUnchanged ==
  ASSUME HandlesInv, UNCHANGED <<resourceVars, pc, acquired>>
  PROVE  HandlesInv'
BY DEF HandlesInv, resourceVars, Idle, Unused, Nothing

LEMMA HandlesKept ==
  ASSUME TypeOK, ControlInv, LaneInv, HandlesInv, Next
  PROVE  HandlesInv'
<1> USE DEF deadlineVars, resourceVars, runVars, Idle, Unused, Nothing
<1>0. /\ next \in 1..(Len(Plan) + 1) /\ Len(Plan) \in Nat
      /\ lease \in [1..Len(Plan) -> {"none", "live", "disposing", "released", "failed"}]
  BY PlanAssumption DEF TypeOK, ResourcesTypeOK
<1>1. CASE Invoke \/ Reject
  BY <1>1, HandlesUnchanged DEF Invoke, Reject
<1>2. CASE Admit
  BY <1>2 DEF Admit, HandlesInv, ControlInv
<1>3. CASE RestoreCoordinates \/ ValidateInput
  BY <1>3 DEF RestoreCoordinates, ValidateInput, Checkpoint, Goto, Rethrow, Catch, CatchAs,
              HandlesInv, ControlInv, Early
<1>4. CASE Acquire
  BY <1>0, <1>4 DEF Acquire, AcquireNext, Recorded, HandlesInv
<1>5. CASE AcquireCompleted
  BY <1>0, <1>5 DEF AcquireCompleted, Catch, CatchAs, HandlesInv
<1>6. CASE Unwound
  BY <1>0, <1>6 DEF Unwound, CatchAs, DisposalsSettled, HandlesInv, ControlInv, Early
<1>7. ASSUME NEW code \in HostFaults, AcquireFails(code) PROVE HandlesInv'
  <2>1. PICK handles \in {lease, Recorded} :
          lease' = Disposing(handles) /\ next' = next /\ next <= Len(Plan)
    BY <1>7 DEF AcquireFails, FailAcquisition
  <2>2. /\ DOMAIN handles = 1..Len(Plan)
        /\ \A i \in 1..Len(Plan) : Disposable(i) /\ i < next => handles[i] # "none"
    BY <1>0, <2>1 DEF Recorded, HandlesInv
  <2>3. pc' = "unwind"
    BY <1>7 DEF AcquireFails
  <2>4. QED
    BY <2>1, <2>2, <2>3 DEF Disposing, HandlesInv
<1>8. CASE StartHandler \/ StartFails
  BY <1>8 DEF StartHandler, StartFails, Catch, CatchAs, HandlesInv, ControlInv
<1>9. ASSUME NEW event \in CustomEvents, HandlerEmits(event) PROVE HandlesInv'
  BY <1>9, HandlesUnchanged DEF HandlerEmits
<1>10. ASSUME NEW code \in HandlerCodes, HandlerThrows(code) PROVE HandlesInv'
  BY <1>10 DEF HandlerThrows, Catch, CatchAs, HandlesInv, ControlInv
<1>11. CASE HandlerReturns
  BY <1>11 DEF HandlerReturns, HandlesInv
<1>12. CASE DrainCompleted \/ ValidateResult
  BY <1>12 DEF DrainCompleted, ValidateResult, Goto, Rethrow, Catch, CatchAs, HandlesInv, ControlInv
<1>13. CASE RedrainCompleted
  BY <1>0, <1>13 DEF RedrainCompleted, BeginDispose, Disposing, HandlesInv
<1>14. CASE Seal
  BY <1>0, <1>14 DEF Seal, DisposalsSettled, HandlesInv
<1>15. ASSUME NEW i \in DOMAIN lease, NEW how \in {"released", "failed"}, DisposerSettles(i, how)
       PROVE HandlesInv'
  BY <1>0, <1>15 DEF DisposerSettles, SettleDispose, HandlesInv
<1>16. CASE LaneWorks \/ SinkSettles
  BY <1>16, LaneSteps, HandlesUnchanged DEF LaneUntouched
<1>17. CASE WallClock \/ HostAborts
  BY <1>17, HandlesUnchanged DEF WallClock, HostAborts
<1>18. CASE ReturnSettled \/ ReturnWithinGrace \/ FinishLate
  BY <1>18, HandlesUnchanged DEF ReturnSettled, ReturnWithinGrace, FinishLate, finishAccepted
<1>19. CASE NoticeTrigger \/ GraceExpires
  BY <1>19, HandlesUnchanged DEF NoticeTrigger, GraceExpires
<1>20. QED
  BY <1>1, <1>2, <1>3, <1>4, <1>5, <1>6, <1>7, <1>8, <1>9, <1>10, <1>11, <1>12, <1>13, <1>14,
     <1>15, <1>16, <1>17, <1>18, <1>19 DEF Next

-----------------------------------------------------------------------------
(* The event lane.                                                         *)

LEMMA LaneUnchanged ==
  ASSUME LaneInv, UNCHANGED <<laneVars, acquired>>
  PROVE  LaneInv'
BY DEF LaneInv, laneVars, Count

LEMMA DrainBegins ==
  ASSUME LaneInv, TypeOK, BeginDrain, UNCHANGED acquired
  PROVE  LaneInv'
BY DEF LaneInv, TypeOK, LaneTypeOK, BeginDrain, Count

(* One operation of the lane: what the sink is given is taken from what    *)
(* was asked for, and a closed lane gives it at most one more event.       *)
LEMMA LaneWorkKept ==
  ASSUME LaneInv, LaneTypeOK, LaneWork \/ SinkAccepts \/ SinkRejects, UNCHANGED acquired
  PROVE  LaneInv'
<1> USE DEF Count
<1>1. /\ queue \in Seq({"started"} \union CustomEvents) /\ queue # << >>
      /\ delivered \in Seq(1..(MaxEvents + 2))
      /\ due \in Nat /\ emitted \in Nat /\ ordinal \in Nat /\ sealed \in Nat /\ late \in Nat
      /\ closed \in BOOLEAN
  BY LaneAssumption DEF LaneTypeOK, LaneInv, LaneWork, EmitStarted, RefuseCustom, rejectCustomEvent,
       ValidateCustom, EmitCustom, RejectMalformed, SinkAccepts, SinkRejects, OperationReady
<1>2. CASE EndOperation /\ UNCHANGED <<emitted, ordinal, delivered, closed, sealed, late>>
  <2>1. /\ Len(queue') = Len(queue) - 1
        /\ \A i \in 1..Len(queue') : queue'[i] = queue[i + 1]
    BY <1>1, <1>2 DEF EndOperation
  <2>2. due' <= Len(queue')
    BY <1>1, <1>2, <2>1 DEF EndOperation, LaneInv
  <2>3. \A i \in 1..Len(queue') : queue'[i] # "started"
    BY <1>1, <2>1 DEF LaneInv
  <2>4. queue' \in Seq({"started"} \union CustomEvents)
    BY <1>1, <1>2 DEF EndOperation
  <2>5. queue' # << >> => 1 \in 1..Len(queue')
    BY <2>4
  <2>6. QED
    BY <1>1, <1>2, <2>1, <2>2, <2>3, <2>5 DEF EndOperation, LaneInv
<1>3. CASE EmitStarted \/ EmitCustom
  <2>1. /\ working' = "sink" /\ ordinal' = ordinal + 1
        /\ delivered' = Append(delivered, ordinal + 1)
        /\ late' = IF closed THEN late + 1 ELSE late
        /\ UNCHANGED <<queue, due, emitted, closed, sealed>>
        /\ working # "sink"
        /\ closed => working = "schema"
    BY <1>1, <1>3 DEF EmitStarted, EmitCustom, HandToSink, OperationReady, LaneInv
  <2>2. Len(delivered') = Len(delivered) + 1
    BY <1>1, <2>1
  <2>3. sealed = 0 => \A i \in 1..Len(delivered') : delivered'[i] = i
    BY <1>1, <2>1, <2>2 DEF LaneInv
  <2>4. QED
    BY <1>1, <2>1, <2>2, <2>3 DEF LaneInv
<1>4. CASE ValidateCustom
  BY <1>1, <1>4 DEF ValidateCustom, OperationReady, LaneInv
<1>5. QED
  BY <1>2, <1>3, <1>4 DEF LaneWork, RefuseCustom, rejectCustomEvent, RejectMalformed,
                          SinkAccepts, SinkRejects

LEMMA LaneKept ==
  ASSUME TypeOK, ControlInv, LaneInv, Next
  PROVE  LaneInv'
<1> USE DEF deadlineVars, resourceVars, runVars, Count
<1>0. /\ queue \in Seq({"started"} \union CustomEvents)
      /\ delivered \in Seq(1..(MaxEvents + 2))
      /\ due \in Nat /\ emitted \in Nat /\ ordinal \in Nat /\ sealed \in Nat /\ late \in Nat
  BY LaneAssumption DEF TypeOK, LaneTypeOK
<1>1. CASE Invoke \/ Reject \/ Admit
  BY <1>1, LaneUnchanged DEF Invoke, Reject, Admit
<1>2. CASE RestoreCoordinates \/ ValidateInput
  BY <1>2, LaneUnchanged, DrainBegins
     DEF RestoreCoordinates, ValidateInput, Checkpoint, Goto, Rethrow, Catch, CatchAs
<1>3. CASE Acquire
  BY <1>3, LaneUnchanged DEF Acquire
<1>4. CASE AcquireCompleted
  <2>1. queue = << >> /\ ~acquired /\ acquired'
    BY <1>4 DEF AcquireCompleted, ControlInv, Early
  <2>2. CASE BeginDrain
    BY <1>0, <2>1, <2>2 DEF BeginDrain, LaneInv
  <2>3. CASE EnqueueStarted /\ ~Elapsed
    <3>1. queue' = <<"started">> /\ due' = 1 /\ ~closed
      BY <2>1, <2>3 DEF EnqueueStarted, Elapsed, ControlInv
    <3>2. QED
      BY <1>0, <2>1, <2>3, <3>1 DEF EnqueueStarted, LaneInv
  <2>4. QED
    BY <1>4, <2>2, <2>3 DEF AcquireCompleted, Catch, CatchAs
<1>5. CASE Unwound
  BY <1>5, DrainBegins DEF Unwound, CatchAs
<1>6. ASSUME NEW code \in HostFaults, AcquireFails(code) PROVE LaneInv'
  BY <1>6, LaneUnchanged DEF AcquireFails
<1>7. CASE StartHandler \/ StartFails
  BY <1>7, LaneUnchanged, DrainBegins DEF StartHandler, StartFails, Catch, CatchAs
<1>8. ASSUME NEW event \in CustomEvents, HandlerEmits(event) PROVE LaneInv'
  <2>1. /\ queue' = Append(queue, event) /\ emitted' = emitted + 1
        /\ UNCHANGED <<working, due, ordinal, delivered, latched, closed, sealed, late, acquired>>
    BY <1>8 DEF HandlerEmits, custom
  <2>2. /\ Len(queue') = Len(queue) + 1
        /\ \A i \in 1..Len(queue) : queue'[i] = queue[i]
        /\ queue'[Len(queue) + 1] = event /\ event # "started"
        /\ queue' # << >>
    BY <1>0, <2>1 DEF CustomEvents
  <2>3. \A i \in 2..Len(queue') : queue'[i] # "started"
    BY <1>0, <2>2 DEF LaneInv
  <2>4. queue # << >> => queue'[1] = queue[1]
    BY <1>0, <2>2
  <2>5. queue = << >> => queue'[1] = event
    BY <2>2
  <2>6. QED
    BY <1>0, <2>1, <2>2, <2>3, <2>4, <2>5 DEF LaneInv
<1>9. CASE HandlerReturns
  BY <1>9, DrainBegins DEF HandlerReturns
<1>10. ASSUME NEW code \in HandlerCodes, HandlerThrows(code) PROVE LaneInv'
  BY <1>10, DrainBegins DEF HandlerThrows, Catch, CatchAs
<1>11. CASE DrainCompleted \/ ValidateResult
  BY <1>11, LaneUnchanged, DrainBegins DEF DrainCompleted, ValidateResult, Goto, Rethrow, Catch, CatchAs
<1>12. CASE RedrainCompleted
  BY <1>12, LaneUnchanged DEF RedrainCompleted
<1>13. CASE Seal
  BY <1>0, <1>13 DEF Seal, sealTerminal, LaneInv
<1>14. ASSUME NEW i \in DOMAIN lease, NEW how \in {"released", "failed"}, DisposerSettles(i, how)
       PROVE LaneInv'
  BY <1>14, LaneUnchanged DEF DisposerSettles
<1>15. CASE LaneWorks \/ SinkSettles
  BY <1>15, LaneWorkKept DEF LaneWorks, SinkSettles, TypeOK
<1>16. CASE WallClock \/ HostAborts
  BY <1>16, LaneUnchanged DEF WallClock, HostAborts
<1>17. CASE ReturnSettled \/ ReturnWithinGrace \/ FinishLate \/ NoticeTrigger
  BY <1>17, LaneUnchanged DEF ReturnSettled, ReturnWithinGrace, FinishLate, NoticeTrigger, finishAccepted
<1>18. CASE GraceExpires
  <2>1. queue # << >> => working # "idle"
    BY <1>18 DEF GraceExpires, ReactionsDrained, OperationReady
  <2>2. working \in {"idle", "schema", "sink"} /\ closed \in BOOLEAN
    BY DEF TypeOK, LaneTypeOK
  <2>3. QED
    BY <1>0, <1>18, <2>1, <2>2 DEF GraceExpires, closeForUncertainty, LaneInv
<1>19. QED
  BY <1>1, <1>2, <1>3, <1>4, <1>5, <1>6, <1>7, <1>8, <1>9, <1>10, <1>11, <1>12, <1>13, <1>14,
     <1>15, <1>16, <1>17, <1>18 DEF Next

-----------------------------------------------------------------------------
(* The second drain.                                                       *)

LEMMA DrainedUnchanged ==
  ASSUME DrainedInv, UNCHANGED <<pc, due, queue, sealed, delivered>>
  PROVE  DrainedInv'
BY DEF DrainedInv

LEMMA DrainedKept ==
  ASSUME TypeOK, ControlInv, LaneInv, DrainedInv, Next
  PROVE  DrainedInv'
<1> USE DEF deadlineVars, laneVars, resourceVars, runVars
<1>0. /\ queue \in Seq({"started"} \union CustomEvents)
      /\ delivered \in Seq(1..(MaxEvents + 2))
      /\ due \in Nat /\ ordinal \in Nat /\ sealed \in Nat
      /\ pc = "sealed" => sealed # 0
  BY LaneAssumption DEF TypeOK, LaneTypeOK, ControlInv
<1>1. CASE Invoke \/ Reject
  BY <1>1, DrainedUnchanged DEF Invoke, Reject
<1>2. CASE Admit
  BY <1>2 DEF Admit, DrainedInv
<1>3. CASE RestoreCoordinates \/ ValidateInput
  BY <1>3 DEF RestoreCoordinates, ValidateInput, Checkpoint, Goto, Rethrow, Catch, CatchAs, BeginDrain,
              DrainedInv
<1>4. CASE Acquire
  BY <1>4, DrainedUnchanged DEF Acquire
<1>5. CASE AcquireCompleted
  BY <1>5 DEF AcquireCompleted, Catch, CatchAs, BeginDrain, DrainedInv
<1>6. CASE Unwound
  BY <1>6 DEF Unwound, CatchAs, BeginDrain, DrainedInv
<1>7. ASSUME NEW code \in HostFaults, AcquireFails(code) PROVE DrainedInv'
  BY <1>7 DEF AcquireFails, DrainedInv
<1>8. CASE StartHandler \/ StartFails
  BY <1>8 DEF StartHandler, StartFails, Catch, CatchAs, BeginDrain, DrainedInv
<1>9. ASSUME NEW event \in CustomEvents, HandlerEmits(event) PROVE DrainedInv'
  BY <1>9 DEF HandlerEmits, ControlInv, DrainedInv
<1>10. ASSUME NEW code \in HandlerCodes, HandlerThrows(code) PROVE DrainedInv'
  BY <1>10 DEF HandlerThrows, Catch, CatchAs, BeginDrain, DrainedInv
<1>11. CASE HandlerReturns
  BY <1>11 DEF HandlerReturns, DrainedInv
<1>12. CASE DrainCompleted \/ ValidateResult
  BY <1>12 DEF DrainCompleted, ValidateResult, Goto, Rethrow, Catch, CatchAs, BeginDrain, DrainedInv
<1>13. CASE RedrainCompleted
  BY <1>0, <1>13 DEF RedrainCompleted, Drained, DrainedInv
<1>14. CASE Seal
  BY <1>0, <1>14 DEF Seal, sealTerminal, ControlInv, LaneInv, Count, DrainedInv
<1>15. ASSUME NEW i \in DOMAIN lease, NEW how \in {"released", "failed"}, DisposerSettles(i, how)
       PROVE DrainedInv'
  BY <1>15, DrainedUnchanged DEF DisposerSettles
<1>16. CASE LaneWorks \/ SinkSettles
  <2>1. queue # << >> /\ UNCHANGED <<pc, sealed>>
    BY <1>16, LaneSteps DEF LaneUntouched
  <2>2. ASSUME EndOperation PROVE Len(queue') = Len(queue) - 1 /\ due' = IF due = 0 THEN 0 ELSE due - 1
    BY <1>0, <2>1, <2>2 DEF EndOperation
  <2>3. EndOperation \/ UNCHANGED <<queue, due>>
    BY <1>16 DEF LaneWorks, SinkSettles, LaneWork, EmitStarted, RefuseCustom, rejectCustomEvent,
                 ValidateCustom, EmitCustom, RejectMalformed, SinkAccepts, SinkRejects
  <2>4. QED
    BY <1>0, <2>1, <2>2, <2>3 DEF DrainedInv
<1>17. CASE WallClock \/ HostAborts
  BY <1>17, DrainedUnchanged DEF WallClock, HostAborts
<1>18. CASE ReturnSettled \/ ReturnWithinGrace \/ FinishLate \/ NoticeTrigger
  BY <1>18, DrainedUnchanged DEF ReturnSettled, ReturnWithinGrace, FinishLate, NoticeTrigger, finishAccepted
<1>19. CASE GraceExpires
  BY <1>19, DrainedUnchanged DEF GraceExpires, closeForUncertainty
<1>20. QED
  BY <1>1, <1>2, <1>3, <1>4, <1>5, <1>6, <1>7, <1>8, <1>9, <1>10, <1>11, <1>12, <1>13, <1>14,
     <1>15, <1>16, <1>17, <1>18, <1>19 DEF Next

-----------------------------------------------------------------------------
(* The outcome chosen so far.                                              *)

OutcomeTyped(o) ==
  /\ o.kind \in {"none", "succeeded", "failed", "cancelled", "timedOut"}
  /\ o.code \in Codes \union {"none"}

Failure(o) == OutcomeTyped(o) /\ o.kind \in {"failed", "cancelled", "timedOut"}

LEMMA FaultsFail ==
  ASSUME NEW code \in Codes, NEW wasCancelled, NEW step, NEW prior, NEW s
  PROVE  /\ Failure(outcomeForFault(code, wasCancelled, step))
         /\ Failure(failed(code, s))
         /\ Failure(failedAfter(code, s, prior))
         /\ failedAfter(code, s, prior).kind = "failed"
         /\ failedAfter(code, s, prior).code = code
         /\ failedAfter(code, s, prior).stage = s
BY DEF Failure, OutcomeTyped, outcomeForFault, failed, failedAfter, Outcome, TimedOut, Cancelled, Codes

LEMMA LatchedStage ==
  ASSUME latched \in {"event_sink", "event"}
  PROVE  stageFor(latched, "handler") \in {"handler", "event_sink"}
BY DEF stageFor

(* The outcome a step of the run chooses: a failure, or after a handler    *)
(* that returned, what its result is.                                      *)
LEMMA Chosen ==
  ASSUME TypeOK, ControlInv, Next
  PROVE  \/ UNCHANGED primary /\ (pc' = "redrain" => UNCHANGED <<pc, handler, acquired>>)
         \/ Failure(primary')
         \/ primary' = Succeeded /\ pc = "result" /\ pc' = "redrain" /\ UNCHANGED <<handler, acquired>>
<1> DEFINE ByFault(code) == primary' = outcomeForFault(code, aborted, phase)
<1>1. /\ signal \in Codes \union {"none"} /\ latched \in Codes \union {"none"}
      /\ HandlerCodes \subseteq Codes
      /\ pc = "unwind" => fault \in Codes
  BY AttemptAssumption
     DEF TypeOK, DeadlineTypeOK, LaneTypeOK, Reasons, HandlerCodes, Codes, ControlInv
<1>2. "validation" \in Codes /\ "cleanup" \in Codes
  BY DEF Codes
<1>3. \A code \in Codes : ByFault(code) => Failure(primary')
  BY FaultsFail
<1>4. CASE RestoreCoordinates \/ ValidateInput
  <2>1. \/ UNCHANGED primary /\ pc' # "redrain"
        \/ ByFault("validation")
        \/ signal # "none" /\ ByFault(signal)
    BY <1>4 DEF RestoreCoordinates, ValidateInput, Checkpoint, Goto, Rethrow, Catch, CatchAs, Elapsed
  <2>2. QED
    BY <1>1, <1>2, <1>3, <2>1
<1>5. CASE AcquireCompleted
  <2>1. \/ UNCHANGED primary /\ pc' # "redrain"
        \/ signal # "none" /\ ByFault(signal)
    BY <1>5 DEF AcquireCompleted, Catch, CatchAs, Elapsed
  <2>2. QED
    BY <1>1, <1>3, <2>1
<1>6. CASE Unwound
  <2>1. \/ ByFault(fault)
        \/ primary' = failedAfter("cleanup", "cleanup", failed(fault, stageFor(fault, "acquire")))
    BY <1>6 DEF Unwound, CatchAs
  <2>2. pc = "unwind"
    BY <1>6 DEF Unwound
  <2>3. QED
    BY <1>1, <1>2, <1>3, <2>1, <2>2, FaultsFail
<1>7. CASE StartHandler \/ StartFails
  <2>1. \/ UNCHANGED primary /\ pc' # "redrain"
        \/ latched # "none" /\ ByFault(latched)
        \/ signal # "none" /\ ByFault(signal)
    BY <1>7 DEF StartHandler, StartFails, Catch, CatchAs, Elapsed
  <2>2. QED
    BY <1>1, <1>3, <2>1
<1>8. ASSUME NEW code \in HandlerCodes, HandlerThrows(code) PROVE Failure(primary')
  BY <1>1, <1>3, <1>8 DEF HandlerThrows, Catch, CatchAs
<1>9. CASE DrainCompleted
  <2>1. \/ UNCHANGED primary /\ pc' # "redrain"
        \/ latched # "none" /\ ByFault(latched)
    BY <1>9 DEF DrainCompleted, Goto, Rethrow, Catch, CatchAs
  <2>2. QED
    BY <1>1, <1>3, <2>1
<1>10. CASE ValidateResult
  <2>1. /\ pc = "result" /\ pc' = "redrain" /\ UNCHANGED <<handler, acquired>>
        /\ primary' \in ResultOutcomes \union {outcomeForFault("validation", aborted, phase)}
    BY <1>10 DEF ValidateResult, CatchAs
  <2>2. \A o \in ResultOutcomes : o = Succeeded \/ Failure(o)
    BY <1>1, <1>2, FaultsFail DEF ResultOutcomes, Elapsed
  <2>3. QED
    BY <1>2, <2>1, <2>2, FaultsFail
<1>11. CASE RedrainCompleted
  BY <1>1, <1>11, FaultsFail DEF RedrainCompleted
<1>12. QED
  BY <1>4, <1>5, <1>6, <1>7, <1>8, <1>9, <1>10, <1>11
     DEF Next, Invoke, Reject, Admit, Acquire, AcquireFails, HandlerEmits, HandlerReturns, Seal,
         DisposerSettles, LaneWorks, SinkSettles, WallClock, HostAborts, ReturnSettled,
         ReturnWithinGrace, FinishLate, finishAccepted, NoticeTrigger, GraceExpires, runVars

(* The steps that stay in, or come to, the disposal of the handles.        *)
LEMMA DisposalSteps ==
  ASSUME TypeOK, ControlInv, Next, pc' = "dispose"
  PROVE  \/ RedrainCompleted
         \/ /\ UNCHANGED <<pc, primary, handler, acquired>>
            /\ UNCHANGED latched \/ LaneWorks \/ SinkSettles
BY DEF Next, Invoke, Reject, Admit, RestoreCoordinates, ValidateInput, Checkpoint, Goto, Rethrow,
       Catch, CatchAs, Acquire, AcquireCompleted, Unwound, AcquireFails, StartHandler, StartFails,
       HandlerEmits, custom, HandlerReturns, HandlerThrows, DrainCompleted, ValidateResult, Seal,
       DisposerSettles, LaneWorks, SinkSettles, WallClock, HostAborts, ReturnSettled,
       ReturnWithinGrace, FinishLate, finishAccepted, NoticeTrigger, GraceExpires,
       closeForUncertainty, laneVars, runVars

LEMMA OutcomeUnchanged ==
  ASSUME OutcomeInv, UNCHANGED <<pc, primary, handler, acquired, latched>>
  PROVE  OutcomeInv'
BY DEF OutcomeInv

LEMMA OutcomeKept ==
  ASSUME TypeOK, ControlInv, LaneInv, DrainedInv, OutcomeInv, Next
  PROVE  OutcomeInv'
<1>1. CASE pc' \notin {"redrain", "dispose"}
  BY <1>1 DEF OutcomeInv
<1>2. CASE pc' = "redrain"
  BY <1>2, Chosen DEF OutcomeInv, Failure, ControlInv
<1>3. CASE pc' = "dispose" /\ RedrainCompleted
  <2>1. latched \in {"none", "event_sink", "event"}
    BY DEF TypeOK, LaneTypeOK
  <2>2. UNCHANGED <<latched, handler, acquired>> /\ pc = "redrain"
    BY <1>3 DEF RedrainCompleted, laneVars
  <2>3. primary' = IF latched = "none" THEN primary
                   ELSE failedAfter(latched, stageFor(latched, "handler"), primary)
    BY <1>3 DEF RedrainCompleted
  <2>4. CASE latched = "none"
    BY <1>3, <2>2, <2>3, <2>4 DEF OutcomeInv
  <2>5. CASE latched # "none"
    <3>1. /\ primary'.kind = "failed" /\ primary'.code = latched
          /\ primary'.stage = stageFor(latched, "handler")
      BY <2>1, <2>3, <2>5, FaultsFail DEF Codes
    <3>2. QED
      BY <1>3, <2>1, <2>2, <2>5, <3>1, LatchedStage DEF OutcomeInv
  <2>6. QED
    BY <2>4, <2>5
<1>4. CASE pc' = "dispose" /\ ~RedrainCompleted
  <2>1. /\ UNCHANGED <<pc, primary, handler, acquired>>
        /\ UNCHANGED latched \/ LaneWorks \/ SinkSettles
    BY <1>4, DisposalSteps
  <2>2. ~DetachedEmits => UNCHANGED latched
    BY <1>4, <2>1, LaneSteps DEF DrainedInv
  <2>3. QED
    BY <1>4, <2>1, <2>2 DEF OutcomeInv
<1>5. QED
  BY <1>1, <1>2, <1>3, <1>4

-----------------------------------------------------------------------------
(* Types.  A step does at most one thing to the lane, and one to the live  *)
(* handles.                                                                *)

LaneMove ==
  \/ UNCHANGED laneVars
  \/ EnqueueStarted \/ BeginDrain \/ closeForUncertainty \/ sealTerminal
  \/ \E event \in CustomEvents : custom(event)
  \/ LaneWork \/ SinkAccepts \/ SinkRejects

LEMMA LaneMoves == Next => LaneMove
BY DEF Next, LaneMove, Invoke, Reject, Admit, RestoreCoordinates, ValidateInput, Checkpoint, Goto,
       Rethrow, Catch, CatchAs, Acquire, AcquireCompleted, Unwound, AcquireFails, StartHandler,
       StartFails, HandlerEmits, HandlerReturns, HandlerThrows, DrainCompleted, ValidateResult,
       RedrainCompleted, Seal, DisposerSettles, LaneWorks, SinkSettles, WallClock, HostAborts,
       ReturnSettled, ReturnWithinGrace, FinishLate, finishAccepted, NoticeTrigger, GraceExpires

LEMMA LaneTypeKept ==
  ASSUME LaneTypeOK, LaneInv, LaneInv', LaneMove
  PROVE  LaneTypeOK'
<1>1. /\ queue \in Seq({"started"} \union CustomEvents)
      /\ working \in {"idle", "schema", "sink"}
      /\ due \in Nat /\ emitted \in 0..MaxEvents /\ ordinal \in Nat /\ late \in Nat
      /\ latched \in {"none", "event_sink", "event"} /\ closed \in BOOLEAN
      /\ sealed \in 0..(MaxEvents + 2) /\ delivered \in Seq(1..(MaxEvents + 2))
      /\ MaxEvents \in Nat
      /\ working = "idle" \/ queue # << >>
  BY LaneAssumption DEF LaneTypeOK, LaneInv
<1> USE DEF LaneMove, laneVars, EnqueueStarted, BeginDrain, closeForUncertainty, sealTerminal, custom,
            LaneWork, EmitStarted, RefuseCustom, rejectCustomEvent, ValidateCustom, EmitCustom,
            RejectMalformed, SinkAccepts, SinkRejects, EndOperation, HandToSink
<1>2. queue' \in Seq({"started"} \union CustomEvents) /\ Len(queue') \in Nat
  <2>1. \/ queue' = queue
        \/ \E op \in {"started"} \union CustomEvents : queue' = Append(queue, op)
        \/ queue # << >> /\ queue' = Tail(queue)
    BY <1>1 DEF OperationReady
  <2> DEFINE Ops == {"started"} \union CustomEvents
  <2>2. queue \in Seq(Ops)
    BY <1>1
  <2> HIDE DEF Ops
  <2>3. ASSUME NEW op \in Ops, queue' = Append(queue, op) PROVE queue' \in Seq(Ops)
    BY <2>2, <2>3
  <2>4. ASSUME queue # << >>, queue' = Tail(queue) PROVE queue' \in Seq(Ops)
    BY <2>2, <2>4
  <2>5. queue' \in Seq(Ops) /\ Len(queue') \in Nat
    BY <2>1, <2>2, <2>3, <2>4 DEF Ops
  <2>6. QED
    BY <2>5 DEF Ops
<1>3. /\ working' \in {"idle", "schema", "sink"}
      /\ latched' \in {"none", "event_sink", "event"} /\ closed' \in BOOLEAN
  <2>1. working' = working \/ working' \in {"idle", "schema", "sink"}
    OBVIOUS
  <2>2. latched' = latched \/ latched' \in {"event_sink", "event"}
    OBVIOUS
  <2>3. closed' = closed \/ closed' = TRUE
    OBVIOUS
  <2>4. QED
    BY <1>1, <2>1, <2>2, <2>3
<1>4. due' \in Nat /\ emitted' \in 0..MaxEvents /\ ordinal' \in {ordinal, ordinal + 1} /\ late' \in Nat
  <2>1. due' \in {due, Len(queue), Len(queue) + 1} \/ due' = IF due = 0 THEN 0 ELSE due - 1
    OBVIOUS
  <2>2. \/ emitted' = emitted
        \/ emitted < MaxEvents /\ emitted' = emitted + 1
    OBVIOUS
  <2>3. ordinal' \in {ordinal, ordinal + 1}
    OBVIOUS
  <2>4. late' \in {late, late + 1}
    OBVIOUS
  <2>5. Len(queue) \in Nat
    BY <1>1
  <2>6. QED
    BY <1>1, <2>1, <2>2, <2>3, <2>4, <2>5
<1>5. \/ UNCHANGED <<delivered, sealed>>
      \/ delivered' = Append(delivered, ordinal') /\ ordinal' = ordinal + 1 /\ UNCHANGED sealed
      \/ sealed' = ordinal' /\ ordinal' = ordinal + 1 /\ UNCHANGED delivered
  OBVIOUS
<1> HIDE DEF LaneMove
<1>6. Len(delivered') \in Nat
  BY <1>1, <1>4, <1>5
<1>7. /\ due' <= Len(queue') /\ late' <= 1
      /\ Len(delivered') + Len(queue') <= MaxEvents + 1 + Count(working' = "sink")
      /\ working' = "sink" => Len(delivered') > 0
      /\ working' = "sink" => queue' # << >>
      /\ ordinal' <= Len(delivered') + 1
  <2>1. /\ due' <= Len(queue')
        /\ working' = "sink" => Len(delivered') > 0
        /\ working' = "sink" => queue' # << >>
    BY DEF LaneInv
  <2>2. late' <= 1
    BY <1>1, <1>4 DEF LaneInv, Count
  <2>3. Len(delivered') + Len(queue') <= MaxEvents + 1 + Count(working' = "sink")
    <3>1. Len(delivered') + Len(queue') <= emitted' + Count(acquired') + Count(working' = "sink")
      BY DEF LaneInv, Count
    <3>2. emitted' \in Nat /\ emitted' <= MaxEvents
      BY <1>1, <1>4
    <3>3. QED
      BY <1>1, <1>2, <1>6, <3>1, <3>2 DEF Count
  <2>4. ordinal' <= Len(delivered') + 1
    BY <1>6 DEF LaneInv, Count
  <2>5. QED
    BY <2>1, <2>2, <2>3, <2>4
<1>8. working' = "sink" => Len(queue') > 0
  BY <1>2, <1>7
<1>9. due' <= MaxEvents + 1 /\ ordinal' <= MaxEvents + 2 /\ late' <= MaxEvents + 1
  BY <1>1, <1>2, <1>4, <1>6, <1>7, <1>8 DEF Count
<1>10. ordinal' \in 0..(MaxEvents + 2) /\ (ordinal' = ordinal + 1 => ordinal' \in 1..(MaxEvents + 2))
  BY <1>1, <1>4, <1>9
<1>11. sealed' \in 0..(MaxEvents + 2) /\ delivered' \in Seq(1..(MaxEvents + 2))
  <2>1. CASE UNCHANGED <<delivered, sealed>>
    BY <1>1, <2>1
  <2>2. CASE delivered' = Append(delivered, ordinal') /\ ordinal' = ordinal + 1 /\ UNCHANGED sealed
    BY <1>1, <1>10, <2>2
  <2>3. CASE sealed' = ordinal' /\ ordinal' = ordinal + 1 /\ UNCHANGED delivered
    BY <1>1, <1>10, <2>3
  <2>4. QED
    BY <1>5, <2>1, <2>2, <2>3
<1>12. due' \in 0..(MaxEvents + 1) /\ late' \in 0..(MaxEvents + 1)
  BY <1>1, <1>4, <1>9
<1>13. QED
  BY <1>2, <1>3, <1>4, <1>10, <1>11, <1>12 DEF LaneTypeOK

LEMMA ResourcesTypeKept ==
  ASSUME TypeOK, Next
  PROVE  ResourcesTypeOK'
<1>1. /\ next \in 1..(Len(Plan) + 1) /\ Len(Plan) \in Nat
      /\ lease \in [1..Len(Plan) -> {"none", "live", "disposing", "released", "failed"}]
  BY PlanAssumption DEF TypeOK, ResourcesTypeOK
<1>2. \/ UNCHANGED resourceVars
      \/ AcquireNext \/ BeginDispose
      \/ \E returned \in BOOLEAN : FailAcquisition(returned)
      \/ \E i \in DOMAIN lease, how \in {"released", "failed"} : SettleDispose(i, how)
  BY DEF Next, Invoke, Reject, Admit, RestoreCoordinates, ValidateInput, Acquire, AcquireCompleted,
         Unwound, AcquireFails, StartHandler, StartFails, HandlerEmits, HandlerReturns, HandlerThrows,
         DrainCompleted, ValidateResult, RedrainCompleted, Seal, DisposerSettles, LaneWorks,
         SinkSettles, WallClock, HostAborts, ReturnSettled, ReturnWithinGrace, FinishLate,
         finishAccepted, NoticeTrigger, GraceExpires
<1>3. CASE UNCHANGED resourceVars
  BY <1>1, <1>3 DEF resourceVars, ResourcesTypeOK
<1>4. CASE AcquireNext
  BY <1>1, <1>4 DEF AcquireNext, Recorded, ResourcesTypeOK
<1>5. CASE BeginDispose
  BY <1>1, <1>5 DEF BeginDispose, Disposing, ResourcesTypeOK
<1>6. ASSUME NEW returned \in BOOLEAN, FailAcquisition(returned) PROVE ResourcesTypeOK'
  <2>1. PICK handles \in {lease, Recorded} : lease' = Disposing(handles) /\ next' = next /\ next <= Len(Plan)
    BY <1>6 DEF FailAcquisition
  <2>2. handles \in [1..Len(Plan) -> {"none", "live", "disposing", "released", "failed"}]
    BY <1>1, <2>1 DEF Recorded
  <2>3. QED
    BY <1>1, <2>1, <2>2 DEF Disposing, ResourcesTypeOK
<1>7. ASSUME NEW i \in DOMAIN lease, NEW how \in {"released", "failed"}, SettleDispose(i, how)
      PROVE ResourcesTypeOK'
  BY <1>1, <1>7 DEF SettleDispose, ResourcesTypeOK
<1>8. QED
  BY <1>2, <1>3, <1>4, <1>5, <1>6, <1>7

(* The variables of the run itself.                                        *)
LEMMA RunTypeKept ==
  ASSUME TypeOK, ControlInv, Next
  PROVE  /\ DeadlineTypeOK'
         /\ call' \in {"idle", "preflight", "rejected", "racing", "grace", "supervised",
                       "returned", "reconciled"}
         /\ pc' \in Steps /\ phase' \in Phases
         /\ handler' \in {"none", "running", "returned", "threw"}
         /\ acquired' \in BOOLEAN
         /\ fault' \in Codes \union {"none"}
         /\ stage' \in {"none", "validation", "acquire", "event_sink", "handler", "cleanup"}
         /\ OutcomeTyped(primary') /\ OutcomeTyped(result')
<1> USE DEF Invoke, Reject, Admit, RestoreCoordinates, ValidateInput, Checkpoint, Goto, Rethrow,
            Catch, CatchAs, Acquire, AcquireCompleted, Unwound, AcquireFails, StartHandler, StartFails,
            HandlerEmits, HandlerReturns, HandlerThrows, DrainCompleted, ValidateResult,
            RedrainCompleted, Seal, DisposerSettles, LaneWorks, SinkSettles, WallClock, HostAborts,
            ReturnSettled, ReturnWithinGrace, FinishLate, finishAccepted, NoticeTrigger,
            GraceExpires, deadlineVars, runVars
<1>1. DeadlineTypeOK'
  BY DEF Next, TypeOK, DeadlineTypeOK, Reasons, CreateDeadline, Expire, Abort, DisposeDeadline
<1>2. call' \in {"idle", "preflight", "rejected", "racing", "grace", "supervised",
                 "returned", "reconciled"}
  BY DEF Next, TypeOK
<1>3. pc' \in Steps /\ phase' \in Phases
  BY DEF Next, TypeOK, Steps, Phases
<1>4. handler' \in {"none", "running", "returned", "threw"}
  BY DEF Next, TypeOK
<1>5. acquired' \in BOOLEAN
  BY DEF Next, TypeOK
<1>6. fault' \in Codes \union {"none"}
  BY AttemptAssumption DEF Next, TypeOK
<1>7. stage' \in {"none", "validation", "acquire", "event_sink", "handler", "cleanup"}
  BY DEF Next, TypeOK, Progress
<1>8. OutcomeTyped(primary')
  <2>1. OutcomeTyped(primary) /\ OutcomeTyped(Succeeded)
    BY DEF TypeOK, OutcomeTyped, Succeeded, Outcome
  <2>2. QED
    BY <2>1, Chosen DEF Failure
<1>9. OutcomeTyped(result')
  <2>1. OutcomeTyped(primary) /\ OutcomeTyped(result)
    BY DEF TypeOK, OutcomeTyped
  <2>2. Seal \/ UNCHANGED result
    BY DEF Next
  <2>3. "cleanup" \in Codes /\ signal \in Codes \union {"none"}
    BY DEF TypeOK, DeadlineTypeOK, Reasons, Codes
  <2>4. OutcomeTyped(FinalOutcome)
    BY <2>1, <2>3, FaultsFail DEF FinalOutcome, SettledPrimary, Elapsed, Failure
  <2>5. QED
    BY <2>1, <2>2, <2>4
<1>10. QED
  BY <1>1, <1>2, <1>3, <1>4, <1>5, <1>6, <1>7, <1>8, <1>9

LEMMA Inductive == IInv /\ [Next]_vars => IInv'
<1> SUFFICES ASSUME IInv, [Next]_vars PROVE IInv'
  OBVIOUS
<1>1. CASE Next
  <2>1. ControlInv' /\ HandlesInv' /\ LaneInv' /\ DrainedInv' /\ OutcomeInv'
    BY <1>1, ControlKept, HandlesKept, LaneKept, DrainedKept, OutcomeKept DEF IInv
  <2>2. LaneTypeOK'
    BY <1>1, <2>1, LaneMoves, LaneTypeKept DEF IInv, TypeOK
  <2>3. TypeOK'
    BY <1>1, <2>2, ResourcesTypeKept, RunTypeKept DEF IInv, TypeOK, OutcomeTyped
  <2>4. QED
    BY <2>1, <2>3 DEF IInv
<1>2. CASE UNCHANGED vars
  <2>1. ControlInv'
    BY <1>2 DEF IInv, vars, ControlInv, deadlineVars, laneVars, resourceVars, runVars, AcquiredAll
  <2>2. HandlesInv' /\ LaneInv' /\ DrainedInv' /\ OutcomeInv'
    BY <1>2, HandlesUnchanged, LaneUnchanged, DrainedUnchanged, OutcomeUnchanged
       DEF IInv, vars, runVars, laneVars
  <2>3. TypeOK'
    BY <1>2 DEF IInv, vars, TypeOK, DeadlineTypeOK, LaneTypeOK, ResourcesTypeOK, deadlineVars,
                laneVars, resourceVars, runVars
  <2>4. QED
    BY <2>1, <2>2, <2>3 DEF IInv
<1>3. QED
  BY <1>1, <1>2

-----------------------------------------------------------------------------
(* The invariant holds of every behaviour: the steps of a run, its lane    *)
(* and its handles stay in step whatever the environment answers.          *)
THEOREM Invariant == Spec => []IInv
<1>1. Init => IInv
  <2> SUFFICES ASSUME Init PROVE IInv
    OBVIOUS
  <2> USE DEF Init, DeadlineInit, LaneInit, ResourcesInit, NoOutcome, Outcome
  <2>1. TypeOK
    <3>1. LaneTypeOK
      <4>1. /\ queue = << >> /\ delivered = << >> /\ working = "idle" /\ closed = FALSE
            /\ due = 0 /\ emitted = 0 /\ ordinal = 0 /\ sealed = 0 /\ late = 0
            /\ latched = "none"
        OBVIOUS
      <4> HIDE DEF Init
      <4>2. queue \in Seq({"started"} \union CustomEvents) /\ delivered \in Seq(1..(MaxEvents + 2))
        BY <4>1
      <4>3. \A n \in {0, 1, 2} : 0 \in 0..(MaxEvents + n)
        BY LaneAssumption
      <4>4. 0 \in 0..MaxEvents
        BY LaneAssumption
      <4>5. QED
        BY <4>1, <4>2, <4>3, <4>4 DEF LaneTypeOK
    <3>2. ResourcesTypeOK
      BY PlanAssumption DEF ResourcesTypeOK
    <3>3. DeadlineTypeOK
      BY DEF DeadlineTypeOK
    <3>4. \A o \in {primary, result} : o.kind = "none" /\ o.code = "none"
      OBVIOUS
    <3>5. QED
      BY <3>1, <3>2, <3>3, <3>4 DEF TypeOK, Steps, Phases
  <2>2. ControlInv /\ HandlesInv
    BY PlanAssumption DEF ControlInv, HandlesInv, Early, Idle
  <2>3. LaneInv
    <3>1. /\ queue = << >> /\ delivered = << >> /\ Len(<< >>) = 0
          /\ working = "idle" /\ ~closed /\ ~acquired
          /\ due = 0 /\ emitted = 0 /\ ordinal = 0 /\ sealed = 0 /\ late = 0
      OBVIOUS
    <3> HIDE DEF Init
    <3>2. QED
      BY <3>1 DEF LaneInv, Count
  <2>4. DrainedInv /\ OutcomeInv
    BY DEF DrainedInv, OutcomeInv
  <2>5. QED
    BY <2>1, <2>2, <2>3, <2>4 DEF IInv
<1>2. QED
  BY <1>1, Inductive, PTL DEF Spec

(* Type correctness of one attempt.                                        *)
THEOREM TypeCorrect == Spec => []TypeOK
BY Invariant, PTL DEF IInv

(* No handle is disposed under a handler that has not settled.             *)
THEOREM HandlesInUseKept == Spec => []HandlesKeptInUse
<1>1. IInv => HandlesKeptInUse
  BY DEF IInv, TypeOK, ResourcesTypeOK, ControlInv, HandlesInv, Unused, HandlesKeptInUse
<1>2. QED
  BY <1>1, Invariant, PTL

(* Behind a sealed result no handle is live or being disposed.             *)
THEOREM NothingHeld == Spec => []SealedResultHoldsNothing
<1>1. IInv => SealedResultHoldsNothing
  BY DEF IInv, TypeOK, ResourcesTypeOK, HandlesInv, Nothing, SealedResultHoldsNothing
<1>2. QED
  BY <1>1, Invariant, PTL

(* When every emit of the handler is made before its promise settles, the  *)
(* terminal event is the last one, after all that the sink was given.      *)
THEOREM TerminalLast == Spec => [](~DetachedEmits => TerminalEventIsLast)
<1>1. IInv => (~DetachedEmits => TerminalEventIsLast)
  <2> SUFFICES ASSUME IInv, ~DetachedEmits, sealed # 0 PROVE TerminalEventIsLast
    BY DEF TerminalEventIsLast
  <2>1. pc = "sealed" /\ delivered \in Seq(1..(MaxEvents + 2))
    BY DEF IInv, ControlInv, TypeOK, LaneTypeOK
  <2>2. QED
    BY <2>1 DEF IInv, DrainedInv, TerminalEventIsLast
<1>2. QED
  BY <1>1, Invariant, PTL

(* The stage "acquire" of an uncertain answer proves that the handler was  *)
(* not dispatched and never will be.                                       *)
THEOREM NeverDispatched == Spec => []UncertainAcquireNeverDispatched
<1>1. IInv => UncertainAcquireNeverDispatched
  BY DEF IInv, ControlInv, UncertainAcquireNeverDispatched
<1>2. QED
  BY <1>1, Invariant, PTL

(* After an uncertain answer the sink is given at most one more event.     *)
THEOREM OneLateEvent == Spec => []AtMostOneLateEvent
<1>1. IInv => AtMostOneLateEvent
  BY DEF IInv, TypeOK, LaneTypeOK, LaneInv, Count, AtMostOneLateEvent
<1>2. QED
  BY <1>1, Invariant, PTL

-----------------------------------------------------------------------------
(* The ordinals of the events, of detached emits too.                      *)

(* The sealed terminal event has a place of its own among them.            *)
OrdinalsInv ==
  sealed # 0 =>
    /\ sealed <= Len(delivered) + 1
    /\ \A i \in 1 .. Len(delivered) : delivered[i] = IF i < sealed THEN i ELSE i + 1

LEMMA OrdinalsKept ==
  ASSUME IInv, OrdinalsInv, [Next]_vars
  PROVE  OrdinalsInv'
<1>0. /\ delivered \in Seq(1..(MaxEvents + 2)) /\ sealed \in Nat /\ MaxEvents \in Nat
      /\ ordinal = Len(delivered) + Count(sealed # 0)
      /\ sealed = 0 => \A i \in 1 .. Len(delivered) : delivered[i] = i
  BY LaneAssumption DEF IInv, TypeOK, LaneTypeOK, LaneInv
<1>1. \/ UNCHANGED <<delivered, sealed>>
      \/ delivered' = Append(delivered, ordinal + 1) /\ UNCHANGED sealed
      \/ sealed = 0 /\ sealed' = ordinal + 1 /\ UNCHANGED delivered
  BY LaneMoves
  DEF vars, laneVars, LaneMove, EnqueueStarted, BeginDrain, closeForUncertainty, sealTerminal, custom,
      LaneWork, EmitStarted, RefuseCustom, rejectCustomEvent, ValidateCustom, EmitCustom,
      RejectMalformed, SinkAccepts, SinkRejects, EndOperation, HandToSink
<1>2. CASE UNCHANGED <<delivered, sealed>>
  BY <1>2 DEF OrdinalsInv
<1>3. CASE delivered' = Append(delivered, ordinal + 1) /\ UNCHANGED sealed
  <2> SUFFICES ASSUME sealed # 0
               PROVE  /\ sealed <= Len(delivered') + 1
                      /\ \A i \in 1 .. Len(delivered') :
                           delivered'[i] = IF i < sealed THEN i ELSE i + 1
    BY <1>3 DEF OrdinalsInv
  <2>1. Len(delivered) \in Nat /\ ordinal = Len(delivered) + 1
    BY <1>0 DEF Count
  <2>2. /\ Len(delivered') = Len(delivered) + 1
        /\ \A i \in 1 .. Len(delivered) : delivered'[i] = delivered[i]
        /\ delivered'[Len(delivered) + 1] = Len(delivered) + 2
    BY <1>0, <1>3, <2>1
  <2>3. /\ sealed <= Len(delivered) + 1
        /\ \A i \in 1 .. Len(delivered) : delivered[i] = IF i < sealed THEN i ELSE i + 1
    BY DEF OrdinalsInv
  <2>4. ASSUME NEW i \in 1 .. Len(delivered')
        PROVE  delivered'[i] = IF i < sealed THEN i ELSE i + 1
    <3>1. CASE i \in 1 .. Len(delivered)
      BY <2>2, <2>3, <3>1
    <3>2. CASE i = Len(delivered) + 1
      BY <1>0, <2>1, <2>2, <2>3, <3>2
    <3>3. QED
      BY <2>1, <2>2, <2>4, <3>1, <3>2
  <2>5. QED
    BY <1>0, <2>1, <2>2, <2>3, <2>4
<1>4. CASE sealed = 0 /\ sealed' = ordinal + 1 /\ UNCHANGED delivered
  <2>1. Len(delivered) \in Nat /\ ordinal = Len(delivered)
    BY <1>0, <1>4 DEF Count
  <2>2. QED
    BY <1>0, <1>4, <2>1 DEF OrdinalsInv
<1>5. QED
  BY <1>1, <1>2, <1>3, <1>4

(* The sink is given its events in the order of their ordinals, and these, *)
(* the one of the sealed terminal event among them, are 1, 2, 3 and so on: *)
(* none is given twice and none is left out.  An event that follows the    *)
(* terminal one has a greater ordinal than it.                             *)
OrdinalsInOrder ==
  /\ \A i, j \in DOMAIN delivered : i < j => delivered[i] < delivered[j]
  /\ \A i \in DOMAIN delivered : delivered[i] # sealed
  /\ \A n \in 1 .. ordinal : n = sealed \/ \E i \in DOMAIN delivered : delivered[i] = n

(* What the terminal event keeps even where the handler left an emit       *)
(* behind, and events follow it: the order and the gap-free numbering that *)
(* the host can tell the late ones by.                                     *)
THEOREM EventsNumberedInOrder == Spec => []OrdinalsInOrder
<1>1. Init => OrdinalsInv
  BY DEF Init, LaneInit, OrdinalsInv
<1>2. IInv /\ OrdinalsInv => OrdinalsInOrder
  <2> SUFFICES ASSUME IInv, OrdinalsInv PROVE OrdinalsInOrder
    OBVIOUS
  <2>0. /\ delivered \in Seq(1..(MaxEvents + 2)) /\ sealed \in Nat /\ MaxEvents \in Nat
        /\ Len(delivered) \in Nat /\ DOMAIN delivered = 1 .. Len(delivered)
        /\ ordinal = Len(delivered) + Count(sealed # 0)
        /\ sealed = 0 => \A i \in 1 .. Len(delivered) : delivered[i] = i
    BY LaneAssumption DEF IInv, TypeOK, LaneTypeOK, LaneInv
  <2>1. CASE sealed = 0
    BY <2>0, <2>1 DEF Count, OrdinalsInOrder
  <2>2. CASE sealed # 0
    <3>1. /\ ordinal = Len(delivered) + 1 /\ sealed <= Len(delivered) + 1
          /\ \A i \in 1 .. Len(delivered) : delivered[i] = IF i < sealed THEN i ELSE i + 1
      BY <2>0, <2>2 DEF Count, OrdinalsInv
    <3>2. \A i, j \in DOMAIN delivered : i < j => delivered[i] < delivered[j]
      BY <2>0, <3>1
    <3>3. \A i \in DOMAIN delivered : delivered[i] # sealed
      BY <2>0, <3>1
    <3>4. ASSUME NEW n \in 1 .. ordinal, n # sealed
          PROVE  \E i \in DOMAIN delivered : delivered[i] = n
      <4>0. n \in Nat /\ 1 <= n /\ n <= Len(delivered) + 1
        BY <2>0, <3>1
      <4>1. CASE n < sealed
        <5>1. n \in DOMAIN delivered /\ delivered[n] = n
          BY <2>0, <3>1, <4>0, <4>1
        <5>2. QED
          BY <5>1
      <4>2. CASE n > sealed
        <5>1. n - 1 \in 1 .. Len(delivered) /\ ~(n - 1 < sealed)
          BY <2>0, <2>2, <4>0, <4>2
        <5>2. delivered[n - 1] = (n - 1) + 1
          BY <3>1, <5>1
        <5>3. delivered[n - 1] = n
          BY <4>0, <5>2
        <5>4. QED
          BY <2>0, <5>1, <5>3
      <4>3. QED
        BY <2>0, <3>4, <4>1, <4>2
    <3>5. QED
      BY <3>2, <3>3, <3>4 DEF OrdinalsInOrder
  <2>3. QED
    BY <2>1, <2>2
<1>3. QED
  BY <1>1, <1>2, OrdinalsKept, Invariant, PTL DEF Spec

-----------------------------------------------------------------------------
(* The step that seals the result is the only one that reaches "sealed".   *)
LEMMA SealStep ==
  ASSUME Next, pc' = "sealed", pc # "sealed"
  PROVE  Seal
BY DEF Next, Invoke, Reject, Admit, RestoreCoordinates, ValidateInput, Checkpoint, Goto, Rethrow,
       Catch, CatchAs, Acquire, AcquireCompleted, Unwound, AcquireFails, StartHandler, StartFails,
       HandlerEmits, HandlerReturns, HandlerThrows, DrainCompleted, ValidateResult, RedrainCompleted,
       DisposerSettles, LaneWorks, SinkSettles, WallClock, HostAborts, ReturnSettled,
       ReturnWithinGrace, FinishLate, finishAccepted, NoticeTrigger, GraceExpires, runVars

(* The outcome of a deadline or a cancellation.                            *)
LEMMA TriggerOutcome ==
  ASSUME signal \in Reasons, signal = "aborted" => aborted
  PROVE  outcomeForFault(signal, aborted, phase).kind \in {"timedOut", "cancelled"}
BY DEF Reasons, outcomeForFault, TimedOut, Cancelled, Outcome

(* Success is sealed only for a handler that returned, in time, with no    *)
(* latched fault and with every handle released, when every emit of the    *)
(* handler is made before its promise settles.                             *)
THEOREM SuccessProven ==
  ASSUME ~DetachedEmits PROVE Spec => SuccessIsProven
<1>1. IInv /\ [Next]_vars =>
        [pc' = "sealed" /\ pc # "sealed" /\ result'.kind = "succeeded" =>
           /\ handler = "returned" /\ acquired /\ signal = "none" /\ latched = "none"
           /\ \A i \in DOMAIN lease : Disposable(i) => lease[i] = "released"]_vars
  <2> SUFFICES ASSUME IInv, Next, pc' = "sealed", pc # "sealed", result'.kind = "succeeded"
               PROVE  /\ handler = "returned" /\ acquired /\ signal = "none" /\ latched = "none"
                      /\ \A i \in DOMAIN lease : Disposable(i) => lease[i] = "released"
    OBVIOUS
  <2>1. pc = "dispose" /\ DisposalsSettled /\ result' = FinalOutcome
    BY SealStep DEF Seal
  <2>2. signal \in Codes \union {"none"} /\ latched \in {"none", "event_sink", "event"}
    BY DEF IInv, TypeOK, DeadlineTypeOK, LaneTypeOK, Reasons, Codes
  <2>3. ~(acquired /\ DisposalFailed) /\ result' = SettledPrimary
    BY <2>1, FaultsFail DEF FinalOutcome, Failure, Codes
  <2>4. signal = "none" /\ primary.kind = "succeeded"
    BY <2>2, <2>3, FaultsFail DEF SettledPrimary, Elapsed, Failure
  <2>5. handler = "returned" /\ acquired /\ latched = "none"
    BY <2>1, <2>2, <2>4 DEF IInv, OutcomeInv
  <2>6. ASSUME NEW i \in DOMAIN lease, Disposable(i) PROVE lease[i] = "released"
    <3>1. /\ i \in 1..Len(Plan) /\ i < next
          /\ lease[i] \in {"none", "live", "disposing", "released", "failed"}
      BY <2>5, PlanAssumption DEF IInv, TypeOK, ResourcesTypeOK, ControlInv, AcquiredAll
    <3>2. lease[i] \notin {"none", "live", "disposing", "failed"}
      BY <2>1, <2>3, <2>5, <2>6, <3>1 DEF IInv, HandlesInv, Nothing, DisposalsSettled, DisposalFailed
    <3>3. QED
      BY <3>1, <3>2
  <2>7. QED
    BY <2>4, <2>5, <2>6
<1>2. QED
  BY <1>1, Invariant, PTL DEF Spec, SuccessIsProven

(* A cleanup failure after a completed acquisition is the outcome, and     *)
(* what it replaced is among its causes, when every emit of the handler is *)
(* made before its promise settles.                                        *)
THEOREM CleanupDominates ==
  ASSUME ~DetachedEmits PROVE Spec => CleanupFailureDominates
<1>1. IInv /\ [Next]_vars =>
        [pc' = "sealed" /\ pc # "sealed" /\ acquired /\ DisposalFailed =>
           /\ result'.kind = "failed" /\ result'.code = "cleanup"
           /\ signal # "none" =>
                \E kind \in {"timedOut", "cancelled"} : PriorOutcome(kind) \in result'.causes
           /\ signal = "none" /\ latched # "none" =>
                \E s \in {"handler", "event_sink"} : Fault(latched, s) \in result'.causes]_vars
  <2> SUFFICES ASSUME IInv, Next, pc' = "sealed", pc # "sealed", acquired, DisposalFailed
               PROVE  /\ result'.kind = "failed" /\ result'.code = "cleanup"
                      /\ signal # "none" =>
                           \E kind \in {"timedOut", "cancelled"} : PriorOutcome(kind) \in result'.causes
                      /\ signal = "none" /\ latched # "none" =>
                           \E s \in {"handler", "event_sink"} : Fault(latched, s) \in result'.causes
    OBVIOUS
  <2>1. pc = "dispose" /\ result' = failedAfter("cleanup", "cleanup", SettledPrimary)
    BY SealStep DEF Seal, FinalOutcome
  <2>2. /\ result'.kind = "failed" /\ result'.code = "cleanup"
        /\ result'.causes = canonicalCauses(SettledPrimary, "cleanup", "cleanup")
    BY <2>1 DEF failedAfter, Outcome
  <2>3. ASSUME signal # "none"
        PROVE  \E kind \in {"timedOut", "cancelled"} : PriorOutcome(kind) \in result'.causes
    <3>1. signal \in Reasons /\ (signal = "aborted" => aborted)
      BY <2>3 DEF IInv, TypeOK, DeadlineTypeOK, ControlInv
    <3>2. SettledPrimary.kind \in {"timedOut", "cancelled"}
      BY <2>3, <3>1, TriggerOutcome DEF SettledPrimary, Elapsed
    <3>3. QED
      BY <2>2, <3>2 DEF canonicalCauses
  <2>4. ASSUME signal = "none", latched # "none"
        PROVE  \E s \in {"handler", "event_sink"} : Fault(latched, s) \in result'.causes
    <3>1. /\ SettledPrimary = primary
          /\ primary.kind = "failed" /\ primary.code = latched
          /\ primary.stage \in {"handler", "event_sink"}
      BY <2>1, <2>4 DEF SettledPrimary, Elapsed, IInv, OutcomeInv
    <3>2. Fault(latched, primary.stage) # Fault("cleanup", "cleanup")
      BY <3>1 DEF Fault
    <3>3. Fault(latched, primary.stage) \in result'.causes
      BY <2>2, <3>1, <3>2 DEF canonicalCauses
    <3>4. QED
      BY <3>1, <3>3
  <2>5. QED
    BY <2>2, <2>3, <2>4
<1>2. QED
  BY <1>1, Invariant, PTL DEF Spec, CleanupFailureDominates

-----------------------------------------------------------------------------
(* Where the documented precedence fails: only by a trigger that comes     *)
(* before the sealing, which overrides all but the cleanup failure of a    *)
(* completed acquisition.                                                  *)

(* An acquisition that was not completed has used no lane, and the outcome *)
(* of its failed cleanup is chosen at once.                                *)
UnwoundInv ==
  /\ ~acquired => handler = "none" /\ queue = << >> /\ latched = "none"
  /\ pc \in {"redrain", "dispose"} /\ ~acquired /\ DisposalFailed =>
       primary.kind = "failed" /\ primary.code = "cleanup"

LEMMA UnwoundUnchanged ==
  ASSUME UnwoundInv, UNCHANGED <<acquired, handler, queue, latched, pc, primary, lease>>
  PROVE  UnwoundInv'
BY DEF UnwoundInv, DisposalFailed

(* The steps that leave the handles of an attempt alone, and those that    *)
(* choose its outcome, before anything was acquired.                       *)
LEMMA UnwoundKept ==
  ASSUME IInv, UnwoundInv, Next
  PROVE  UnwoundInv'
<1> USE DEF deadlineVars, laneVars, resourceVars, runVars
<1>0. TypeOK /\ ControlInv /\ HandlesInv /\ LaneInv
  BY DEF IInv
<1>1. CASE Invoke \/ Reject \/ Admit
  BY <1>0, <1>1 DEF Invoke, Reject, Admit, UnwoundInv, DisposalFailed
<1>2. CASE RestoreCoordinates \/ ValidateInput
  <2>1. /\ UNCHANGED <<acquired, handler, queue, latched, lease>> /\ pc \in {"restore", "input"}
    BY <1>2 DEF RestoreCoordinates, ValidateInput, Checkpoint, Goto, Rethrow, Catch, CatchAs,
                BeginDrain
  <2>2. ~DisposalFailed'
    BY <1>0, <2>1, PlanAssumption DEF HandlesInv, Idle, DisposalFailed, TypeOK, ResourcesTypeOK
  <2>3. QED
    BY <2>1, <2>2 DEF UnwoundInv
<1>3. CASE Acquire
  BY <1>3 DEF Acquire, UnwoundInv
<1>4. CASE AcquireCompleted
  BY <1>4 DEF AcquireCompleted, UnwoundInv
<1>5. ASSUME NEW code \in HostFaults, AcquireFails(code) PROVE UnwoundInv'
  BY <1>5 DEF AcquireFails, UnwoundInv
<1>6. CASE Unwound
  <2>1. UNCHANGED <<acquired, handler, queue, latched, lease>>
    BY <1>6 DEF Unwound, CatchAs, BeginDrain
  <2>2. DisposalFailed => primary'.kind = "failed" /\ primary'.code = "cleanup"
    BY <1>6 DEF Unwound, CatchAs, failedAfter, Outcome
  <2>3. DisposalFailed' = DisposalFailed
    BY <2>1 DEF DisposalFailed
  <2>4. QED
    BY <2>1, <2>2, <2>3 DEF UnwoundInv
<1>7. CASE acquired /\ acquired'
  BY <1>7 DEF UnwoundInv
<1>8. CASE StartHandler \/ StartFails \/ DrainCompleted \/ ValidateResult
  <2>1. acquired
    BY <1>0, <1>8 DEF ControlInv, StartHandler, StartFails, DrainCompleted, ValidateResult
  <2>2. UNCHANGED acquired
    BY <1>8 DEF StartHandler, StartFails, DrainCompleted, ValidateResult, Goto, Rethrow, Catch, CatchAs
  <2>3. QED
    BY <1>7, <2>1, <2>2
<1>9. ASSUME NEW event \in CustomEvents, HandlerEmits(event) PROVE UnwoundInv'
  <2>1. acquired /\ UNCHANGED acquired
    BY <1>0, <1>9 DEF UnwoundInv, HandlerEmits
  <2>2. QED
    BY <1>7, <2>1
<1>10. ASSUME HandlerReturns \/ \E code \in HandlerCodes : HandlerThrows(code) PROVE UnwoundInv'
  <2>1. acquired /\ UNCHANGED acquired
    BY <1>0, <1>10 DEF ControlInv, HandlerReturns, HandlerThrows
  <2>2. QED
    BY <1>7, <2>1
<1>11. CASE RedrainCompleted
  <2>1. CASE acquired
    BY <1>7, <1>11, <2>1 DEF RedrainCompleted
  <2>2. CASE ~acquired
    BY <1>11, <2>2 DEF RedrainCompleted, UnwoundInv, DisposalFailed
  <2>3. QED
    BY <2>1, <2>2
<1>12. CASE Seal
  BY <1>12 DEF Seal, sealTerminal, UnwoundInv
<1>13. ASSUME NEW i \in DOMAIN lease, NEW how \in {"released", "failed"}, DisposerSettles(i, how)
       PROVE  UnwoundInv'
  <2>1. /\ UNCHANGED <<acquired, handler, queue, latched, pc, primary>> /\ lease[i] = "disposing"
    BY <1>13 DEF DisposerSettles, SettleDispose
  <2>2. pc \in {"redrain", "dispose"} => acquired
    BY <1>0, <2>1, PlanAssumption DEF HandlesInv, Unused, Nothing, TypeOK, ResourcesTypeOK
  <2>3. QED
    BY <2>1, <2>2 DEF UnwoundInv
<1>14. CASE LaneWorks \/ SinkSettles
  <2>1. acquired /\ UNCHANGED acquired
    BY <1>0, <1>14, LaneSteps DEF LaneUntouched, UnwoundInv
  <2>2. QED
    BY <1>7, <2>1
<1>15. CASE WallClock \/ HostAborts
  BY <1>15, UnwoundUnchanged DEF WallClock, HostAborts
<1>16. CASE ReturnSettled \/ ReturnWithinGrace \/ FinishLate
  BY <1>16, UnwoundUnchanged DEF ReturnSettled, ReturnWithinGrace, FinishLate, finishAccepted
<1>17. CASE NoticeTrigger \/ GraceExpires
  BY <1>17, UnwoundUnchanged DEF NoticeTrigger, GraceExpires, closeForUncertainty
<1>18. QED
  BY <1>1, <1>2, <1>3, <1>4, <1>5, <1>6, <1>8, <1>9, <1>10, <1>11, <1>12, <1>13, <1>14, <1>15,
     <1>16, <1>17 DEF Next

(* The documented precedence of a result that is sealed before any trigger *)
(* was noticed: neither the deadline nor a cancellation.                   *)
PrecedenceUntilTriggered ==
  [][pc' = "sealed" /\ pc # "sealed" /\ signal = "none" => DocumentedPrecedence']_vars

(* A result that no trigger preceded has the documented precedence, the    *)
(* cleanup of a partial acquisition included, when every emit of the       *)
(* handler is made before its promise settles: what overrides it is the    *)
(* deadline, read again after the cleanup, and nothing else.               *)
THEOREM PrecedenceUntriggered ==
  ASSUME ~DetachedEmits PROVE Spec => PrecedenceUntilTriggered
<1>1. Init => UnwoundInv
  BY DEF Init, LaneInit, UnwoundInv
<1>2. IInv /\ UnwoundInv /\ [Next]_vars => UnwoundInv'
  BY UnwoundKept, UnwoundUnchanged DEF vars, runVars, laneVars, resourceVars
<1>3. IInv /\ UnwoundInv /\ [Next]_vars =>
        [pc' = "sealed" /\ pc # "sealed" /\ signal = "none" => DocumentedPrecedence']_vars
  <2> SUFFICES ASSUME IInv, UnwoundInv, Next, pc' = "sealed", pc # "sealed", signal = "none"
               PROVE  DocumentedPrecedence'
    OBVIOUS
  <2>1. /\ pc = "dispose" /\ result' = FinalOutcome
        /\ UNCHANGED <<lease, latched>>
    BY SealStep DEF Seal, sealTerminal, resourceVars
  <2>2. SettledPrimary = primary
    BY DEF SettledPrimary, Elapsed
  <2>3. CASE acquired /\ DisposalFailed
    <3>1. result'.code = "cleanup"
      BY <2>1, <2>3 DEF FinalOutcome, failedAfter, Outcome
    <3>2. QED
      BY <3>1 DEF DocumentedPrecedence
  <2>4. CASE ~(acquired /\ DisposalFailed)
    <3>1. result' = primary
      BY <2>1, <2>2, <2>4 DEF FinalOutcome
    <3>2. DisposalFailed => primary.code = "cleanup"
      BY <2>1, <2>4 DEF UnwoundInv
    <3>3. latched = "event_sink" => primary.code = "event_sink"
      BY <2>1 DEF IInv, OutcomeInv
    <3>4. DisposalFailed' = DisposalFailed
      BY <2>1 DEF DisposalFailed
    <3>5. QED
      BY <2>1, <3>1, <3>2, <3>3, <3>4 DEF DocumentedPrecedence
  <2>5. QED
    BY <2>3, <2>4
<1>4. QED
  BY <1>1, <1>2, <1>3, Invariant, PTL DEF Spec, PrecedenceUntilTriggered

-----------------------------------------------------------------------------
(* A step of the run is a step of AttemptSupervisor, or a stutter.         *)

(* What AttemptSupervisor sees of the run does not change.                 *)
LEMMA Unseen ==
  ASSUME UNCHANGED <<call, signal>>, pc = "none" <=> pc' = "none", pc = "sealed" <=> pc' = "sealed"
  PROVE  UNCHANGED Supervised!vars
BY DEF Supervised!vars, Supervised!stateVars, Supervised!callVars

LEMMA FinishSimulated ==
  ASSUME call \in {"racing", "grace", "supervised"}, call' \in {"returned", "reconciled"}
  PROVE  Supervised!finish("identity", "call")
<1>1. Append(<< >>, "identity") = <<"identity">> /\ Len(<<"identity">>) <= 1
  OBVIOUS
<1>2. QED
  BY <1>1 DEF Supervised!finish

LEMMA Simulated ==
  ASSUME IInv, Next
  PROVE  Supervised!Next \/ UNCHANGED Supervised!vars
<1> USE DEF Supervised!vars, Supervised!stateVars, Supervised!callVars
<1>1. CASE Invoke
  <2>1. Supervised!Invoke("call")
    BY <1>1 DEF Invoke, deadlineVars, runVars, Supervised!Invoke
  <2>2. QED
    BY <2>1 DEF Supervised!Next
<1>2. CASE Reject
  <2>1. Supervised!RejectPreflight("call")
    BY <1>2 DEF Reject, deadlineVars, runVars, Supervised!RejectPreflight
  <2>2. QED
    BY <2>1 DEF Supervised!Next
<1>3. CASE Admit
  <2>1. Supervised!Admit("call")
    <3>1. ~Supervised!AlreadyAccepted("identity")
      BY <1>3 DEF Admit, Supervised!AlreadyAccepted
    <3>2. ~Supervised!AtCapacity
      <4> DEFINE open == [k \in {"identity"} |->
                            IF call \in {"racing", "grace", "supervised"} THEN "call" ELSE "no call"]
      <4>1. Supervised!Entries(open) = {}
        BY <1>3 DEF Admit, Supervised!Entries
      <4>2. Supervised!Cardinality({}) = Cardinality({})
        BY DEF Supervised!Cardinality, Cardinality
      <4>3. Supervised!Cardinality({}) = 0
        BY <4>2, FS_EmptySet
      <4>4. Supervised!Cardinality(Supervised!Entries(open)) = 0
        BY <4>1, <4>3
      <4>5. ~(0 >= 1)
        OBVIOUS
      <4>6. QED
        BY <4>4, <4>5, Zenon DEF Supervised!AtCapacity
    <3>3. QED
      BY <1>3, <3>1, <3>2 DEF Admit, CreateDeadline, Reasons, Supervised!Admit, Supervised!begin
  <2>2. QED
    BY <2>1 DEF Supervised!Next
<1>4. CASE ReturnSettled
  <2>1. Supervised!ReturnSettled("call")
    BY <1>4, FinishSimulated DEF ReturnSettled, finishAccepted, DisposeDeadline, runVars, Supervised!ReturnSettled,
                Supervised!finishAccepted
  <2>2. QED
    BY <2>1 DEF Supervised!Next
<1>5. CASE ReturnWithinGrace
  <2>1. Supervised!ReturnWithinGrace("call")
    BY <1>5, FinishSimulated DEF ReturnWithinGrace, finishAccepted, DisposeDeadline, runVars,
                Supervised!ReturnWithinGrace, Supervised!finishAccepted
  <2>2. QED
    BY <2>1 DEF Supervised!Next
<1>6. CASE FinishLate
  <2>1. Supervised!FinishLate("call")
    BY <1>6, FinishSimulated DEF FinishLate, finishAccepted, DisposeDeadline, runVars, Supervised!FinishLate,
                Supervised!finishAccepted
  <2>2. QED
    BY <2>1 DEF Supervised!Next
<1>7. CASE NoticeTrigger
  <2>1. Supervised!NoticeTrigger("call")
    BY <1>7 DEF NoticeTrigger, deadlineVars, runVars, Supervised!NoticeTrigger
  <2>2. QED
    BY <2>1 DEF Supervised!Next
<1>8. CASE GraceExpires
  <2>1. Supervised!GraceExpires("call")
    BY <1>8 DEF IInv, ControlInv, GraceExpires, deadlineVars, runVars, Supervised!GraceExpires,
                Supervised!markUncertain
  <2>2. QED
    BY <2>1 DEF Supervised!Next
<1>9. CASE WallClock \/ HostAborts
  <2>1. call \in {"racing", "grace", "supervised"}
    BY <1>9 DEF WallClock, HostAborts, Expire, Abort, IInv, ControlInv
  <2>2. /\ UNCHANGED <<call, pc>>
        /\ \/ signal' = signal
           \/ signal = "none" /\ signal' # "none"
    BY <1>9 DEF WallClock, HostAborts, Expire, Abort, Reasons, runVars
  <2>3. CASE signal' = signal
    BY <2>2, <2>3, Unseen
  <2>4. CASE signal = "none" /\ signal' # "none"
    <3>1. Supervised!Trigger("call")
      BY <2>1, <2>2, <2>4 DEF Supervised!Trigger
    <3>2. QED
      BY <3>1 DEF Supervised!Next
  <2>5. QED
    BY <2>2, <2>3, <2>4
<1>10. CASE Seal
  <2>1. Supervised!Settle("call")
    BY <1>10 DEF Seal, deadlineVars, Supervised!Settle
  <2>2. QED
    BY <2>1 DEF Supervised!Next
<1>11. CASE ~(Invoke \/ Reject \/ Admit \/ ReturnSettled \/ ReturnWithinGrace \/ FinishLate
              \/ NoticeTrigger \/ GraceExpires \/ WallClock \/ HostAborts \/ Seal)
  <2>1. /\ UNCHANGED <<call, signal>>
        /\ pc = "none" <=> pc' = "none"
        /\ pc = "sealed" <=> pc' = "sealed"
    BY <1>11
       DEF Next, RestoreCoordinates, ValidateInput, Checkpoint, Goto, Rethrow, Catch, CatchAs, Acquire,
           AcquireCompleted, Unwound, AcquireFails, StartHandler, StartFails, HandlerEmits,
           HandlerReturns, HandlerThrows, DrainCompleted, ValidateResult, RedrainCompleted,
           DisposerSettles, LaneWorks, SinkSettles, deadlineVars, runVars
  <2>2. QED
    BY <2>1, Unseen
<1>12. QED
  BY <1>1, <1>2, <1>3, <1>4, <1>5, <1>6, <1>7, <1>8, <1>9, <1>10, <1>11

(* The safety half of the refinement: one attempt in full is, at the level *)
(* of execute() and its promise, a run of AttemptSupervisor.               *)
THEOREM SupervisedRefinement == Spec => Supervised!SafetySpec
<1>1. Init => Supervised!Init
  BY DEF Init, DeadlineInit, Supervised!Init, Supervised!StateInit
<1>2. IInv /\ [Next]_vars => [Supervised!Next]_(Supervised!vars)
  <2>1. UNCHANGED vars => UNCHANGED Supervised!vars
    BY Unseen DEF vars, deadlineVars, runVars
  <2>2. QED
    BY <2>1, Simulated
<1>3. QED
  BY <1>1, <1>2, Invariant, PTL DEF Spec, Supervised!SafetySpec
=============================================================================
