-------------------------- MODULE AttemptOutcome --------------------------
(***************************************************************************)
(* How the coordinator turns faults into the outcome of an attempt: the    *)
(* stage of a fault, the precedence of faults over one another, and the    *)
(* causes an outcome retains.                                              *)
(*                                                                         *)
(* A fault is its code, a member of Codes; codes that no function tells    *)
(* apart share a member ("event" is validation.event and                   *)
(* validation.payload_limit, "unexpected" any other execution code).       *)
(* Message, details and evidence are left out.  Causes are kept in a       *)
(* canonical order by the code, so they are a set here.                    *)
(***************************************************************************)

Codes == {"validation", "permission", "provider", "unexpected", "aborted",
          "wall_clock", "event_sink", "event", "cleanup"}

Phases == {"acquire", "handler"}

stageFor(code, phase) ==
  CASE code = "cleanup" -> "cleanup"
    [] code = "wall_clock" -> "timeout"
    [] code = "event_sink" -> "event_sink"
    [] code = "provider" -> "provider"
    [] code = "event" -> "handler"
    [] code = "permission" /\ phase = "handler" -> "provider"
    [] OTHER -> phase

Fault(code, stage) == <<"fault", stage, code>>
PriorOutcome(kind) == <<"prior_outcome", kind>>

canonicalCauses(prior, code, stage) ==
  IF prior.kind = "failed"
  THEN (prior.causes \union {Fault(prior.code, prior.stage)}) \ {Fault(code, stage)}
  ELSE {PriorOutcome(prior.kind)}

(* A failure with no earlier outcome, and one that replaces an outcome.    *)
Outcome(kind, code, stage, causes) ==
  [kind |-> kind, code |-> code, stage |-> stage, causes |-> causes]

failed(code, stage) == Outcome("failed", code, stage, {})

failedAfter(code, stage, prior) ==
  Outcome("failed", code, stage, canonicalCauses(prior, code, stage))

Succeeded == Outcome("succeeded", "none", "none", {})
Cancelled == Outcome("cancelled", "none", "none", {})
TimedOut == Outcome("timedOut", "wall_clock", "timeout", {})

outcomeForFault(code, wasCancelled, phase) ==
  IF code = "wall_clock" THEN TimedOut
  ELSE IF wasCancelled THEN Cancelled
  ELSE failed(code, stageFor(code, phase))
=============================================================================
