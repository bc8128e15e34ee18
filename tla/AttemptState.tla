--------------------------- MODULE AttemptState ---------------------------
(***************************************************************************)
(* The process-local observation state of physical attempts, class         *)
(* AttemptState: which identities are open, uncertain or terminal, and the *)
(* bounded first-in-first-out memory of terminal results.                  *)
(*                                                                         *)
(* An identity (executionId, attemptId) is a member of Keys.  A map of the *)
(* class is a total function to Calls \union {NoCall}: the AbortController,*)
(* the uncertain result and the terminal result of an identity are all     *)
(* abstracted to the accepted execute() call they belong to, which is what *)
(* the properties tell apart.  The module holds no specification: its      *)
(* actions are the methods, which AttemptSupervisor calls.                 *)
(***************************************************************************)
EXTENDS Naturals, Sequences, FiniteSets

CONSTANTS
  Keys,           \* attempt identities, (executionId, attemptId)
  Calls,          \* execute() calls of the facade
  NoCall,         \* the map holds nothing for the identity
  OpenLimit,      \* retainedOpenAttempts
  TerminalLimit   \* retainedTerminalAttempts

ASSUME StateAssumption ==
  /\ NoCall \notin Calls
  /\ IsFiniteSet(Keys)
  /\ OpenLimit \in Nat \ {0}
  /\ TerminalLimit \in Nat \ {0}

VARIABLES
  active,         \* open identities, uncertain ones included
  terminal,       \* retained terminal results
  uncertain,      \* identities whose last answer was "uncertain"
  terminalOrder   \* identities with a terminal result, oldest first

stateVars == <<active, terminal, uncertain, terminalOrder>>

Ledger == [Keys -> Calls \union {NoCall}]

(* The identities a map has an entry for: Map.size is its cardinality.     *)
Entries(ledger) == {k \in Keys : ledger[k] # NoCall}

StateTypeOK ==
  /\ active \in Ledger
  /\ terminal \in Ledger
  /\ uncertain \in Ledger
  /\ terminalOrder \in Seq(Keys)

StateInit ==
  /\ active = [k \in Keys |-> NoCall]
  /\ terminal = [k \in Keys |-> NoCall]
  /\ uncertain = [k \in Keys |-> NoCall]
  /\ terminalOrder = << >>

-----------------------------------------------------------------------------
(* begin(): the two rejections, and the admission.                         *)

\* Mutants: only one of the two maps is looked at.
KnownTerminal(k) == terminal[k] # NoCall
KnownActive(k) == active[k] # NoCall

AlreadyAccepted(k) == active[k] # NoCall \/ terminal[k] # NoCall

\* Mutant: the comparison is off by one.
BeyondCapacity == Cardinality(Entries(active)) > OpenLimit

AtCapacity == Cardinality(Entries(active)) >= OpenLimit

begin(k, c) ==
  /\ ~AlreadyAccepted(k)
  /\ ~AtCapacity
  /\ active' = [active EXCEPT ![k] = c]
  /\ UNCHANGED <<terminal, uncertain, terminalOrder>>

\* Mutant: the order records the result instead of the identity.
finishByResult(k, c) ==
  /\ active' = [active EXCEPT ![k] = NoCall]
  /\ uncertain' = [uncertain EXCEPT ![k] = NoCall]
  /\ terminalOrder' = Append(terminalOrder, c)
  /\ terminal' = [terminal EXCEPT ![k] = c]

\* Mutant: the evicted identity keeps its entry in the map.
finishWithoutDelete(k, c) ==
  LET order == Append(terminalOrder, k)
  IN  /\ active' = [active EXCEPT ![k] = NoCall]
      /\ uncertain' = [uncertain EXCEPT ![k] = NoCall]
      /\ terminalOrder' = IF Len(order) > TerminalLimit THEN Tail(order) ELSE order
      /\ terminal' = [terminal EXCEPT ![k] = c]

(* finish(): the identity is closed, its result retained, and the oldest   *)
(* retained result evicted once there are too many.                        *)
finish(k, c) ==
  LET order == Append(terminalOrder, k)
      recorded == [terminal EXCEPT ![k] = c]
  IN  /\ active' = [active EXCEPT ![k] = NoCall]
      /\ uncertain' = [uncertain EXCEPT ![k] = NoCall]
      /\ \/ /\ Len(order) <= TerminalLimit
            /\ terminalOrder' = order
            /\ terminal' = recorded
         \/ /\ Len(order) > TerminalLimit
            /\ terminalOrder' = Tail(order)
            /\ terminal' = [recorded EXCEPT ![Head(order)] = NoCall]

\* Mutant: an uncertain identity gives its slot back.
markUncertainClosing(k, c) ==
  /\ uncertain' = [uncertain EXCEPT ![k] = c]
  /\ active' = [active EXCEPT ![k] = NoCall]
  /\ UNCHANGED <<terminal, terminalOrder>>

markUncertain(k, c) ==
  /\ uncertain' = [uncertain EXCEPT ![k] = c]
  /\ UNCHANGED <<active, terminal, terminalOrder>>

-----------------------------------------------------------------------------
(* reconcile(): what the host is told of an identity, and of which call.   *)
reconcile(k) ==
  IF terminal[k] # NoCall THEN [kind |-> "terminal", result |-> terminal[k]]
  ELSE IF uncertain[k] # NoCall THEN [kind |-> "uncertain", result |-> uncertain[k]]
  ELSE [kind |-> "unknown", result |-> NoCall]

(* cancel(): the call whose controller is aborted, if any.  A terminal or  *)
(* uncertain identity is only observed.                                    *)
Cancelled(k) ==
  IF reconcile(k).kind = "unknown" THEN active[k] ELSE NoCall
=============================================================================
