--------------------------- MODULE ScriptDeadline ---------------------------
(***************************************************************************)
(* The two abort signals of one attempt.  The attempt's own controller is  *)
(* aborted by the host signal or by cancelAttempt; the deadline signal is  *)
(* aborted by the first of the wall clock and the controller, and keeps    *)
(* that reason.                                                            *)
(***************************************************************************)

VARIABLES
  armed,     \* the deadline exists and has not been disposed
  aborted,   \* controller.signal.aborted
  signal     \* reason of the deadline signal, "none" until it is aborted

deadlineVars == <<armed, aborted, signal>>

(* A host may abort with a ScriptFault of its own, which becomes the       *)
(* reason: the one the code tells apart is the wall-clock fault.           *)
Reasons == {"aborted", "wall_clock"}

DeadlineTypeOK ==
  /\ armed \in BOOLEAN
  /\ aborted \in BOOLEAN
  /\ signal \in Reasons \union {"none"}

DeadlineInit == armed = FALSE /\ aborted = FALSE /\ signal = "none"

(* createScriptDeadline, with a host signal that may already be aborted.   *)
CreateDeadline ==
  /\ armed' = TRUE
  /\ \/ UNCHANGED <<aborted, signal>>
     \/ aborted' = TRUE /\ signal' \in Reasons

(* The wall-clock timer: fail() does nothing once the deadline settled.    *)
Expire ==
  /\ armed
  /\ signal = "none"
  /\ signal' = "wall_clock"
  /\ UNCHANGED <<armed, aborted>>

\* Mutant: the host's reason is passed on as it is, not as a ScriptFault.
AbortUnwrapped(reason) ==
  /\ armed
  /\ ~aborted
  /\ aborted' = TRUE
  /\ signal' = IF signal = "none" THEN "host reason" ELSE signal
  /\ UNCHANGED armed

(* forwardAbort and cancel(): abortFromCaller runs once, and loses against *)
(* a wall clock that was first.                                            *)
Abort(reason) ==
  /\ armed
  /\ ~aborted
  /\ aborted' = TRUE
  /\ signal' = IF signal = "none" THEN reason ELSE signal
  /\ UNCHANGED armed

DisposeDeadline ==
  /\ armed' = FALSE
  /\ UNCHANGED <<aborted, signal>>
=============================================================================
