------------------------- MODULE ReviewThreadRespond -------------------------
(***************************************************************************)
(* FetchGitHubReviewThreadRespondClient.respondBatch(): reply once to each *)
(* thread of a batch, in order.  A request may fail without an effect, or  *)
(* take effect and have its answer lost; either ends the batch, and the    *)
(* host may try again with a new attempt of the same operation.            *)
(***************************************************************************)
EXTENDS ReviewThread

CONSTANTS
  RespondCalls,   \* attempts of respond operations
  OperationOf,    \* the operation each one is an attempt of
  Batch           \* the selected threads, in triage order

ASSUME RespondAssumption ==
  /\ OperationOf \in [RespondCalls -> Operations]
  /\ Batch \in Seq(Threads) /\ Batch # << >>
  /\ \A i, j \in 1..Len(Batch) : Batch[i] = Batch[j] => i = j

VARIABLE responds   \* where each call is, its receipts, the comment it posted

RespondSteps ==
  {"idle", "find", "check", "post", "readback", "returned", "conflict", "invalid", "failed"}

RespondsTypeOK ==
  responds \in [RespondCalls -> [step : RespondSteps, receipts : Seq(Nat), comment : Nat]]

RespondsInit ==
  responds = [c \in RespondCalls |-> [step |-> "idle", receipts |-> << >>, comment |-> 0]]

RespondGoes(c, step) == responds' = [responds EXCEPT ![c].step = step]

(* The item under way; respondItems() goes on to the next one.             *)
Item(c) == Batch[Len(responds[c].receipts) + 1]
RespondProof(c) == Proof(Item(c), OperationOf[c])

Receipt(c, id) ==
  LET receipts == Append(responds[c].receipts, id)
  IN  responds' = [responds EXCEPT ![c] =
        [step |-> IF Len(receipts) = Len(Batch) THEN "returned" ELSE "find",
         receipts |-> receipts, comment |-> 0]]

StartRespond(c) ==
  /\ responds[c].step = "idle"
  /\ RespondGoes(c, "find")
  /\ UNCHANGED threadVars

\* Mutant: an earlier attempt's reply is not looked for.
FindNothing(c) ==
  /\ responds[c].step = "find"
  /\ RespondGoes(c, IF pinned THEN "check" ELSE "conflict")
  /\ UNCHANGED threadVars

\* Mutant: the receipt holds the key of the operation, not the id.
FindReplyKey(c) ==
  /\ responds[c].step = "find"
  /\ CASE ~pinned \/ RespondProof(c).found = "conflict" -> RespondGoes(c, "conflict")
       [] pinned /\ RespondProof(c).found = "proof" -> Receipt(c, OperationOf[c])
       [] pinned /\ RespondProof(c).found = "nothing" -> RespondGoes(c, "check")
  /\ UNCHANGED threadVars

FindReply(c) ==
  /\ responds[c].step = "find"
  /\ CASE ~pinned \/ RespondProof(c).found = "conflict" -> RespondGoes(c, "conflict")
       [] pinned /\ RespondProof(c).found = "proof" -> Receipt(c, RespondProof(c).id)
       [] pinned /\ RespondProof(c).found = "nothing" -> RespondGoes(c, "check")
  /\ UNCHANGED threadVars

(* The thread is read a second time, but not searched again.               *)
CheckThread(c) ==
  /\ responds[c].step = "check"
  /\ RespondGoes(c, IF pinned /\ Item(c) \notin resolved THEN "post" ELSE "conflict")
  /\ UNCHANGED threadVars

\* Mutant: the answer to the mutation is the receipt.
PostUnread(c) ==
  /\ responds[c].step = "post"
  /\ AddReply(Item(c), OperationOf[c])
  /\ Receipt(c, posted[Item(c)] + 1)

Post(c) ==
  /\ responds[c].step = "post"
  /\ AddReply(Item(c), OperationOf[c])
  /\ \/ responds' = [responds EXCEPT ![c].step = "readback", ![c].comment = posted[Item(c)] + 1]
     \/ RespondGoes(c, "failed")

ReadBackReply(c) ==
  /\ responds[c].step = "readback"
  /\ CASE ~pinned \/ RespondProof(c).found = "conflict" -> RespondGoes(c, "conflict")
       [] pinned /\ RespondProof(c) = [found |-> "proof", id |-> responds[c].comment] ->
            Receipt(c, responds[c].comment)
       [] OTHER -> RespondGoes(c, "invalid")
  /\ UNCHANGED threadVars

RespondFails(c) ==
  /\ responds[c].step \in {"find", "check", "post", "readback"}
  /\ RespondGoes(c, "failed")
  /\ UNCHANGED threadVars

RespondStep(c) ==
  FindReply(c) \/ CheckThread(c) \/ Post(c) \/ ReadBackReply(c) \/ RespondFails(c)
=============================================================================
