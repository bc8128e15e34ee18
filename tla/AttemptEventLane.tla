-------------------------- MODULE AttemptEventLane --------------------------
(***************************************************************************)
(* The serial lane through which one attempt's events reach the host's     *)
(* sink: the chain of pending operations, the ordinal every emission takes,*)
(* the first fault it latches, and the sealing of the terminal event.      *)
(*                                                                         *)
(* An operation is "started", "valid" (a custom event the manifest         *)
(* declares, within its limits), "invalid" (one that is undeclared,        *)
(* unauthorized, too large or not an event) or "malformed" (one that only  *)
(* the event schema refuses).                                              *)
(***************************************************************************)
EXTENDS Naturals, Sequences

CONSTANT MaxEvents   \* bound on the custom events of an attempt

ASSUME LaneAssumption == MaxEvents \in Nat

VARIABLES
  queue,       \* operations chained on "pending", the one under way first
  working,     \* what the first operation awaits: "idle", "schema" or "sink"
  due,         \* operations of the queue the current drain still awaits
  emitted,     \* number of custom events the handler asked for
  ordinal,     \* the last emission ordinal taken
  delivered,   \* ordinals handed to sink.emit, in that order
  latched,     \* the fault the lane latched
  closed,      \* customEventsClosed
  sealed,      \* ordinal of the sealed terminal event, 0 before
  late         \* history: events handed to the sink after the lane closed

laneVars == <<queue, working, due, emitted, ordinal, delivered, latched, closed, sealed, late>>

CustomEvents == {"valid", "invalid", "malformed"}

LaneTypeOK ==
  /\ queue \in Seq({"started"} \union CustomEvents)
  /\ working \in {"idle", "schema", "sink"}
  /\ due \in 0..(MaxEvents + 1)
  /\ emitted \in 0..MaxEvents
  /\ ordinal \in 0..(MaxEvents + 2)
  /\ delivered \in Seq(1..(MaxEvents + 2))
  /\ latched \in {"none", "event_sink", "event"}
  /\ closed \in BOOLEAN
  /\ sealed \in 0..(MaxEvents + 2)
  /\ late \in 0..(MaxEvents + 1)

LaneInit ==
  /\ queue = << >> /\ working = "idle" /\ due = 0 /\ emitted = 0
  /\ ordinal = 0 /\ delivered = << >> /\ latched = "none"
  /\ closed = FALSE /\ sealed = 0 /\ late = 0

(* started(): the lane is empty, and the caller awaits the operation.      *)
EnqueueStarted ==
  /\ queue' = Append(queue, "started")
  /\ due' = Len(queue) + 1
  /\ UNCHANGED <<working, emitted, ordinal, delivered, latched, closed, sealed, late>>

(* custom(): chained at once, whether or not the handler awaits it.        *)
custom(event) ==
  /\ emitted < MaxEvents
  /\ emitted' = emitted + 1
  /\ queue' = Append(queue, event)
  /\ UNCHANGED <<working, due, ordinal, delivered, latched, closed, sealed, late>>

(* drain() awaits the chain as it is now.                                  *)
BeginDrain ==
  /\ due' = Len(queue)
  /\ UNCHANGED <<queue, working, emitted, ordinal, delivered, latched, closed, sealed, late>>

Drained == due = 0

-----------------------------------------------------------------------------
(* The operation at the head of the chain.                                 *)

OperationReady == queue # << >> /\ working = "idle"

EndOperation ==
  /\ queue' = Tail(queue)
  /\ due' = IF due = 0 THEN 0 ELSE due - 1
  /\ working' = "idle"

HandToSink ==
  /\ working' = "sink"
  /\ ordinal' = ordinal + 1
  /\ delivered' = Append(delivered, ordinal + 1)
  /\ late' = IF closed THEN late + 1 ELSE late

EmitStarted ==
  /\ OperationReady
  /\ Head(queue) = "started"
  /\ HandToSink
  /\ UNCHANGED <<queue, due, emitted, latched, closed, sealed>>

(* A closed or latched lane rejects the event and latches nothing new.     *)
RefuseCustom ==
  /\ OperationReady
  /\ Head(queue) # "started"
  /\ closed \/ latched # "none"
  /\ EndOperation
  /\ UNCHANGED <<emitted, ordinal, delivered, latched, closed, sealed, late>>

rejectCustomEvent ==
  /\ OperationReady
  /\ Head(queue) = "invalid"
  /\ ~closed /\ latched = "none"
  /\ latched' = "event"
  /\ EndOperation
  /\ UNCHANGED <<emitted, ordinal, delivered, closed, sealed, late>>

\* Mutant: the closed flag is not read before the schema is awaited.
ValidateCustomWhenClosed ==
  /\ OperationReady
  /\ Head(queue) \in {"valid", "malformed"}
  /\ latched = "none"
  /\ working' = "schema"
  /\ UNCHANGED <<queue, due, emitted, ordinal, delivered, latched, closed, sealed, late>>

ValidateCustom ==
  /\ OperationReady
  /\ Head(queue) \in {"valid", "malformed"}
  /\ ~closed /\ latched = "none"
  /\ working' = "schema"
  /\ UNCHANGED <<queue, due, emitted, ordinal, delivered, latched, closed, sealed, late>>

(* After the await on the event schema the closed flag is not read again.  *)
EmitCustom ==
  /\ working = "schema"
  /\ Head(queue) = "valid"
  /\ HandToSink
  /\ UNCHANGED <<queue, due, emitted, latched, closed, sealed>>

RejectMalformed ==
  /\ working = "schema"
  /\ Head(queue) = "malformed"
  /\ latched' = "event"
  /\ EndOperation
  /\ UNCHANGED <<emitted, ordinal, delivered, closed, sealed, late>>

SinkAccepts ==
  /\ working = "sink"
  /\ EndOperation
  /\ UNCHANGED <<emitted, ordinal, delivered, latched, closed, sealed, late>>

\* Mutant: a rejected emission breaks the chain that drain() awaits.
SinkRejectsAndHangs ==
  /\ working = "sink"
  /\ latched' = "event_sink"
  /\ queue' = Tail(queue)
  /\ working' = "idle"
  /\ UNCHANGED <<due, emitted, ordinal, delivered, closed, sealed, late>>

SinkRejects ==
  /\ working = "sink"
  /\ latched' = "event_sink"
  /\ EndOperation
  /\ UNCHANGED <<emitted, ordinal, delivered, closed, sealed, late>>

LaneWork ==
  \/ EmitStarted \/ RefuseCustom \/ rejectCustomEvent
  \/ ValidateCustom \/ EmitCustom \/ RejectMalformed

-----------------------------------------------------------------------------
closeForUncertainty ==
  /\ closed' = TRUE
  /\ UNCHANGED <<queue, working, due, emitted, ordinal, delivered, latched, sealed, late>>

sealTerminal ==
  /\ sealed = 0
  /\ sealed' = ordinal + 1
  /\ ordinal' = ordinal + 1
  /\ UNCHANGED <<queue, working, due, emitted, delivered, latched, closed, late>>
=============================================================================
