------------------------- MODULE ReviewThreadResolve -------------------------
(***************************************************************************)
(* FetchGitHubReviewThreadResolveClient.resolveBatch(): resolve each       *)
(* thread of a respond result, in order, while its reply can be seen.      *)
(***************************************************************************)
EXTENDS ReviewThreadRespond

CONSTANT ResolveCalls   \* attempts of resolve operations

VARIABLE resolves   \* where each call is: done items, and the result it is about

ResolveSteps == {"idle", "read", "mutate", "readback", "returned", "conflict", "invalid", "failed"}

ResolvesTypeOK ==
  resolves \in [ResolveCalls ->
    [step : ResolveSteps, done : 0 .. Len(Batch), of : RespondCalls \union {"none"}]]

ResolvesInit ==
  resolves = [c \in ResolveCalls |-> [step |-> "idle", done |-> 0, of |-> "none"]]

ResolveGoes(c, step) == resolves' = [resolves EXCEPT ![c].step = step]

ResolveItem(c) == Batch[resolves[c].done + 1]
Replied(c) == responds[resolves[c].of].receipts[resolves[c].done + 1]

(* The reply of the receipt is there: anything else is a conflict, and no  *)
(* reply at all a conflict at first and invalid when it is read back.      *)
ProofVisible(c) ==
  Proof(ResolveItem(c), OperationOf[resolves[c].of]) = [found |-> "proof", id |-> Replied(c)]

ProofMissing(c) == Proof(ResolveItem(c), OperationOf[resolves[c].of]).found = "nothing"

ItemResolved(c) ==
  resolves' = [resolves EXCEPT
    ![c].step = IF resolves[c].done + 1 = Len(Batch) THEN "returned" ELSE "read",
    ![c].done = @ + 1]

StartResolve(c, d) ==
  /\ resolves[c].step = "idle"
  /\ responds[d].step = "returned"
  /\ resolves' = [resolves EXCEPT ![c] = [step |-> "read", done |-> 0, of |-> d]]
  /\ UNCHANGED threadVars

ReadThread(c) ==
  /\ resolves[c].step = "read"
  /\ CASE ~pinned \/ ~ProofVisible(c) -> ResolveGoes(c, "conflict")
       [] pinned /\ ProofVisible(c) /\ ResolveItem(c) \in resolved -> ItemResolved(c)
       [] OTHER -> ResolveGoes(c, "mutate")
  /\ UNCHANGED threadVars

\* Mutant: the answer to the mutation is the answer for the item.
ResolveUnread(c) ==
  /\ resolves[c].step = "mutate"
  /\ ResolveThread(ResolveItem(c))
  /\ ItemResolved(c)

Resolve(c) ==
  /\ resolves[c].step = "mutate"
  /\ ResolveThread(ResolveItem(c))
  /\ ResolveGoes(c, "readback") \/ ResolveGoes(c, "failed")

ReadBackThread(c) ==
  /\ resolves[c].step = "readback"
  /\ CASE ~pinned -> ResolveGoes(c, "conflict")
       [] pinned /\ (ResolveItem(c) \notin resolved \/ ProofMissing(c)) -> ResolveGoes(c, "invalid")
       [] pinned /\ ResolveItem(c) \in resolved /\ ProofVisible(c) -> ItemResolved(c)
       [] OTHER -> ResolveGoes(c, "conflict")
  /\ UNCHANGED threadVars

ResolveFails(c) ==
  /\ resolves[c].step \in {"read", "mutate", "readback"}
  /\ ResolveGoes(c, "failed")
  /\ UNCHANGED threadVars

ResolveStep(c) == ReadThread(c) \/ Resolve(c) \/ ReadBackThread(c) \/ ResolveFails(c)
=============================================================================
