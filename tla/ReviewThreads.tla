---------------------------- MODULE ReviewThreads ----------------------------
(***************************************************************************)
(* The review-thread scripts at work on one pull request: attempts of      *)
(* respond operations and of the resolve operations that take their        *)
(* results, in turn or beside each other, and everybody else.              *)
(***************************************************************************)
EXTENDS ReviewThreadResolve, SequencesExt

VARIABLE overlapped   \* history: operations two attempts of which ran at once

vars == <<threadVars, responds, resolves, overlapped>>

Running(c) == responds[c].step \in {"find", "check", "post", "readback"}

Init == ThreadInit /\ RespondsInit /\ ResolvesInit /\ overlapped = {}

RequestRespond(c) ==
  /\ StartRespond(c)
  /\ overlapped' = overlapped \union
       {o \in {OperationOf[c]} : \E d \in RespondCalls : Running(d) /\ OperationOf[d] = o}

Next ==
  \/ \E c \in RespondCalls :
       /\ RequestRespond(c) \/ (RespondStep(c) /\ UNCHANGED overlapped)
       /\ UNCHANGED resolves
  \/ \E c \in ResolveCalls :
       /\ (\E d \in RespondCalls : StartResolve(c, d)) \/ ResolveStep(c)
       /\ UNCHANGED <<responds, overlapped>>
  \/ Others /\ UNCHANGED <<responds, resolves, overlapped>>

Spec == Init /\ [][Next]_vars

TypeOK ==
  ThreadTypeOK /\ RespondsTypeOK /\ ResolvesTypeOK /\ overlapped \subseteq Operations

-----------------------------------------------------------------------------
(* "A partial crash performs no duplicate write": attempts that follow one *)
(* another reply once to every thread, wherever the earlier ones ended,    *)
(* and are refused only by a thread resolved before it was replied to.     *)
RetryPostsOnce ==
  moves = 0 =>
    \A c \in RespondCalls : OperationOf[c] \notin overlapped =>
      /\ \A t \in Threads : Cardinality(Keyed(t, OperationOf[c])) <= 1
      /\ responds[c].step # "invalid"
      /\ responds[c].step = "conflict" =>
           \E t \in resolved : Keyed(t, OperationOf[c]) = {}

(* Attempts that run at once can post twice, but no two of them return     *)
(* different receipts: all but the first to be confirmed are refused.      *)
AttemptsAgree ==
  moves = 0 =>
    \A c, d \in RespondCalls :
      /\ responds[c].step = "returned" /\ responds[d].step = "returned"
      /\ OperationOf[c] = OperationOf[d]
      => responds[c].receipts = responds[d].receipts

OnlyReply(t, o, id) ==
  \E r \in replies[t] : Keyed(t, o) = {r} /\ r.id = id /\ Proves(r)

(* A receipt is true when it is given, duplicates, quotes and edits of     *)
(* others notwithstanding: the reply is intact and the only comment of its *)
(* operation, and a thread reported resolved is resolved.                  *)
ReceiptsTrue ==
  [][/\ \A c \in RespondCalls : responds'[c].receipts # responds[c].receipts =>
          OnlyReply(Item(c), OperationOf[c], Last(responds'[c].receipts))
     /\ \A c \in ResolveCalls : resolves'[c].done > resolves[c].done =>
          /\ OnlyReply(ResolveItem(c), OperationOf[resolves[c].of], Replied(c))
          /\ ResolveItem(c) \in resolved]_vars
=============================================================================
