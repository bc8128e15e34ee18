--------------------------- MODULE AttemptLedger ---------------------------
(***************************************************************************)
(* What the facade promises a durable host about the identities it was     *)
(* given, whatever the interleaving of calls behind it: an identity is     *)
(* unknown, then possibly uncertain, then terminal; an uncertain identity  *)
(* can only become the terminal result of the same call; a terminal result *)
(* never changes and is forgotten only as the oldest of a full memory; and *)
(* a restart of the process forgets everything at once.                    *)
(***************************************************************************)
EXTENDS Naturals, Sequences

CONSTANTS Keys, Calls, NoCall, TerminalLimit

VARIABLES
  known,      \* what reconcileAttempt answers for each identity
  retained    \* the identities with a terminal answer, oldest first

vars == <<known, retained>>

Unknown == [kind |-> "unknown", result |-> NoCall]
Uncertain(c) == [kind |-> "uncertain", result |-> c]
Terminal(c) == [kind |-> "terminal", result |-> c]

Init ==
  /\ known = [k \in Keys |-> Unknown]
  /\ retained = << >>

BecomeUncertain(k, c) ==
  /\ known[k] = Unknown
  /\ known' = [known EXCEPT ![k] = Uncertain(c)]
  /\ UNCHANGED retained

BecomeTerminal(k, c) ==
  /\ known[k] \in {Unknown, Uncertain(c)}
  /\ Len(retained) < TerminalLimit
  /\ known' = [known EXCEPT ![k] = Terminal(c)]
  /\ retained' = Append(retained, k)

BecomeTerminalEvicting(k, c) ==
  /\ known[k] \in {Unknown, Uncertain(c)}
  /\ Len(retained) = TerminalLimit
  /\ known' = [known EXCEPT ![k] = Terminal(c), ![Head(retained)] = Unknown]
  /\ retained' = Append(Tail(retained), k)

Forget ==
  /\ known' = [k \in Keys |-> Unknown]
  /\ retained' = << >>

Next ==
  \/ \E k \in Keys, c \in Calls :
       \/ BecomeUncertain(k, c)
       \/ BecomeTerminal(k, c)
       \/ BecomeTerminalEvicting(k, c)
  \/ Forget

Spec == Init /\ [][Next]_vars
=============================================================================
