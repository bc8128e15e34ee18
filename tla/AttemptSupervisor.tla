------------------------- MODULE AttemptSupervisor -------------------------
(***************************************************************************)
(* Many execute() calls of one facade sharing one AttemptState: admission, *)
(* the race of each accepted run against its deadline signal, the grace    *)
(* period, the answer given to the host, the supervision of late           *)
(* settlements, cancellation and the loss of the process.                  *)
(*                                                                         *)
(* JavaScript runs one task at a time, so an action is the code between    *)
(* two awaits.  What an accepted run does inside is the subject of module  *)
(* Attempt; here it is open until it settles (its promise resolves with a  *)
(* sealed result) or, when the host's clock throws while the terminal      *)
(* event is sealed, rejects.                                               *)
(***************************************************************************)
EXTENDS AttemptState

VARIABLES
  call,       \* where each execute() call is
  key,        \* the identity each call was given
  run,        \* the promise "terminal" of each call
  triggered   \* the calls whose deadline signal is aborted

callVars == <<call, key, run, triggered>>
vars == <<stateVars, callVars>>

(* "leaked": the call was rejected after its identity had been admitted.   *)
(* "lost": the process died under it.                                      *)
CallPhase == {"idle", "preflight", "racing", "grace", "supervised",
              "returned", "reconciled", "rejected", "leaked", "lost"}

(* Calls that hold an identity open in this process.                       *)
Holding == {"racing", "grace", "supervised", "leaked"}
Holds(c) == call[c] \in Holding

(* Calls the host has not been answered yet.                               *)
Pending(c) == call[c] \in {"preflight", "racing", "grace"}

TypeOK ==
  /\ StateTypeOK
  /\ call \in [Calls -> CallPhase]
  /\ key \in [Calls -> Keys]
  /\ run \in [Calls -> {"none", "open", "settled", "rejected"}]
  /\ triggered \subseteq Calls

Init ==
  /\ StateInit
  /\ call = [c \in Calls |-> "idle"]
  /\ key \in [Calls -> Keys]
  /\ run = [c \in Calls |-> "none"]
  /\ triggered = {}

-----------------------------------------------------------------------------
(* execute() up to its admission: input, pin and binding are validated     *)
(* across awaits before the identity is claimed.                           *)

Invoke(c) ==
  /\ call[c] = "idle"
  /\ call' = [call EXCEPT ![c] = "preflight"]
  /\ UNCHANGED <<stateVars, key, run, triggered>>

RejectPreflight(c) ==
  /\ call[c] = "preflight"
  /\ call' = [call EXCEPT ![c] = "rejected"]
  /\ UNCHANGED <<stateVars, key, run, triggered>>

RejectAdmission(c) ==
  /\ call[c] = "preflight"
  /\ AlreadyAccepted(key[c]) \/ AtCapacity
  /\ call' = [call EXCEPT ![c] = "rejected"]
  /\ UNCHANGED <<stateVars, key, run, triggered>>

(* A host signal that is already aborted triggers the deadline at once.    *)
Admit(c) ==
  /\ call[c] = "preflight"
  /\ begin(key[c], c)
  /\ call' = [call EXCEPT ![c] = "racing"]
  /\ run' = [run EXCEPT ![c] = "open"]
  /\ triggered' \in {triggered, triggered \union {c}}
  /\ UNCHANGED key

(* The deadline reads the host's clock after the identity is claimed; when *)
(* the clock throws, the call is rejected and the identity stays open.     *)
AdmitWithoutDeadline(c) ==
  /\ call[c] = "preflight"
  /\ begin(key[c], c)
  /\ call' = [call EXCEPT ![c] = "leaked"]
  /\ UNCHANGED <<key, run, triggered>>

-----------------------------------------------------------------------------
(* Events of an accepted run.                                              *)

(* Wall clock or host signal; the deadline is disposed by finishAccepted.  *)
Trigger(c) ==
  /\ call[c] \in {"racing", "grace", "supervised"}
  /\ triggered' = triggered \union {c}
  /\ UNCHANGED <<stateVars, call, key, run>>

(* cancelAttempt on an identity: only an open identity without an          *)
(* uncertain or terminal answer has its controller aborted.                *)
Cancel(k) ==
  /\ Cancelled(k) # NoCall
  /\ call[Cancelled(k)] # "leaked"
  /\ triggered' = triggered \union {Cancelled(k)}
  /\ UNCHANGED <<stateVars, call, key, run>>

Settle(c) ==
  /\ run[c] = "open"
  /\ run' = [run EXCEPT ![c] = "settled"]
  /\ UNCHANGED <<stateVars, call, key, triggered>>

SealThrows(c) ==
  /\ run[c] = "open"
  /\ run' = [run EXCEPT ![c] = "rejected"]
  /\ UNCHANGED <<stateVars, call, key, triggered>>

-----------------------------------------------------------------------------
(* execute() after its admission.                                          *)

finishAccepted(c, phase) ==
  /\ run[c] = "settled"
  /\ finish(key[c], c)
  /\ call' = [call EXCEPT ![c] = phase]
  /\ UNCHANGED <<key, run, triggered>>

ReturnSettled(c) == call[c] = "racing" /\ finishAccepted(c, "returned")

ReturnWithinGrace(c) == call[c] = "grace" /\ finishAccepted(c, "returned")

\* Mutant: the late settlement is not taken up.
FinishLateForgotten(c) == FALSE

FinishLate(c) == call[c] = "supervised" /\ finishAccepted(c, "reconciled")

(* The rejection wins the race: nothing closes the identity.               *)
RaceRejects(c) ==
  /\ call[c] = "racing"
  /\ run[c] = "rejected"
  /\ call' = [call EXCEPT ![c] = "leaked"]
  /\ UNCHANGED <<stateVars, key, run, triggered>>

NoticeTrigger(c) ==
  /\ call[c] = "racing"
  /\ c \in triggered
  /\ call' = [call EXCEPT ![c] = "grace"]
  /\ UNCHANGED <<stateVars, key, run, triggered>>

\* Mutant: without a timer, only a rejected run ends the grace period.
GraceExpiresOnRejection(c) ==
  /\ call[c] = "grace"
  /\ run[c] = "rejected"
  /\ markUncertain(key[c], c)
  /\ call' = [call EXCEPT ![c] = "supervised"]
  /\ UNCHANGED <<key, run, triggered>>

(* The grace timer fires, or the run rejects within it.  A settled run     *)
(* cancels the timer before the timer can fire.                            *)
GraceExpires(c) ==
  /\ call[c] = "grace"
  /\ run[c] \in {"open", "rejected"}
  /\ markUncertain(key[c], c)
  /\ call' = [call EXCEPT ![c] = "supervised"]
  /\ UNCHANGED <<key, run, triggered>>

(* The process is lost, with every run in it and all of the state.         *)
Restart ==
  /\ active' = [k \in Keys |-> NoCall]
  /\ terminal' = [k \in Keys |-> NoCall]
  /\ uncertain' = [k \in Keys |-> NoCall]
  /\ terminalOrder' = << >>
  /\ call' = [c \in Calls |-> IF Holds(c) \/ Pending(c) THEN "lost" ELSE call[c]]
  /\ run' = [c \in Calls |-> IF run[c] = "open" THEN "none" ELSE run[c]]
  /\ UNCHANGED <<key, triggered>>

Next ==
  \/ \E c \in Calls :
       \/ Invoke(c)
       \/ RejectPreflight(c)
       \/ RejectAdmission(c)
       \/ Admit(c)
       \/ AdmitWithoutDeadline(c)
       \/ Trigger(c)
       \/ Settle(c)
       \/ SealThrows(c)
       \/ ReturnSettled(c)
       \/ ReturnWithinGrace(c)
       \/ FinishLate(c)
       \/ RaceRejects(c)
       \/ NoticeTrigger(c)
       \/ GraceExpires(c)
  \/ \E k \in Keys : Cancel(k)
  \/ Restart

(* Only what the event loop and its timers guarantee is fair: a ready      *)
(* continuation runs, the wall clock and the grace timer fire.  Nothing is *)
(* assumed of Settle: host, providers and handler may hang for ever.       *)
Answer(c) ==
  \/ RejectAdmission(c) \/ Admit(c)
  \/ ReturnSettled(c) \/ ReturnWithinGrace(c) \/ RaceRejects(c)
  \/ NoticeTrigger(c) \/ GraceExpires(c)

Fairness ==
  \A c \in Calls :
    /\ WF_vars(Answer(c))
    /\ WF_vars(Trigger(c))
    /\ WF_vars(FinishLate(c))

SafetySpec == Init /\ [][Next]_vars

Spec == SafetySpec /\ Fairness

-----------------------------------------------------------------------------
(* At most one call holds an identity: a duplicate is never dispatched     *)
(* beside a run that is open or whose outcome is uncertain (begin).        *)
OneRunPerIdentity ==
  \A c, d \in Calls : Holds(c) /\ Holds(d) /\ key[c] = key[d] => c = d

(* The runs in the process, late ones included, never exceed the limit:    *)
(* an uncertain run keeps its slot until it settles (begin, finish).       *)
OpenRunsBounded == Cardinality({c \in Calls : Holds(c)}) <= OpenLimit

(* The first-in-first-out order and the map of terminal results describe   *)
(* the same identities, each once, within the bound (finish).              *)
RetentionConsistent ==
  /\ Len(terminalOrder) <= TerminalLimit
  /\ \A i \in 1..Len(terminalOrder) : terminal[terminalOrder[i]] # NoCall
  /\ \A k \in Entries(terminal) : \E i \in 1..Len(terminalOrder) : terminalOrder[i] = k
  /\ \A i, j \in 1..Len(terminalOrder) : terminalOrder[i] = terminalOrder[j] => i = j

(* An answer the host reads is about the identity it asked for, and only   *)
(* a run that really settled is reported terminal (reconcile, cancel).     *)
AnswersProven ==
  \A k \in Keys :
    /\ terminal[k] # NoCall =>
         /\ key[terminal[k]] = k
         /\ run[terminal[k]] = "settled"
         /\ call[terminal[k]] \in {"returned", "reconciled"}
    /\ uncertain[k] # NoCall =>
         /\ active[k] = uncertain[k]
         /\ call[uncertain[k]] = "supervised"
         /\ uncertain[k] \in triggered \/ run[uncertain[k]] = "rejected"

(* Observed from the host, the facade behaves as AttemptLedger says.       *)
Ledger_ == INSTANCE AttemptLedger
  WITH known <- [k \in Keys |-> reconcile(k)], retained <- terminalOrder

LedgerPromise == Ledger_!Spec

(* Every call that passes its validation is answered, terminal, uncertain  *)
(* or rejected, even when host, provider and handler never answer          *)
(* (settleOrTrigger, settleWithin).                                        *)
AcceptedCallsAnswered ==
  \A c \in Calls : call[c] \in {"racing", "grace"} ~> ~Pending(c)

(* A run that settles after the host was told "uncertain" is taken up and  *)
(* closes its identity, unless the process dies first (terminal.then).     *)
LateSettlementReconciled ==
  \A c \in Calls :
    call[c] = "supervised" /\ run[c] = "settled" ~> call[c] \in {"reconciled", "lost"}
=============================================================================
