-------------------------- MODULE PullRequestGate --------------------------
(***************************************************************************)
(* The decision of the host's gate on one pull request, and the two checks *)
(* the merge script makes of it before it calls the provider:              *)
(* assertArtifactEquality() and assertGate().                              *)
(*                                                                         *)
(* A decision approves or overrides.  The audit of an override lists the   *)
(* threads it answers for; well formed stands for an audit by the decider  *)
(* about the pinned head, its threads in code-unit order without           *)
(* duplicates, as the merge card asks for.                                 *)
(***************************************************************************)
EXTENDS PullRequestReadiness, SequencesExt

CONSTANTS
  LocaleOrder,     \* the threads as localeCompare() sorts their ids
  CodeUnitOrder    \* and as < does

ASSUME OrderAssumption ==
  /\ LocaleOrder \in Seq(Threads) /\ CodeUnitOrder \in Seq(Threads)
  /\ ToSet(LocaleOrder) = Threads /\ ToSet(CodeUnitOrder) = Threads
  /\ IsInjective(LocaleOrder) /\ IsInjective(CodeUnitOrder)

VARIABLE decision   \* the decision of the gate, when it has been made

Undecided == [outcome |-> "none"]

Decisions ==
  [outcome : {"approved"}, revision : Shas]
    \union [outcome : {"override_merge"}, revision : Shas,
            threads : SUBSET Threads, wellFormed : BOOLEAN]

Decided == decision # Undecided

GateTypeOK == decision \in Decisions \union {Undecided}

GateInit == decision = Undecided

Decide ==
  /\ ~Decided
  /\ decision' \in Decisions

(* A sorted list of ids without duplicates: which ones, and which comes    *)
(* before which.                                                           *)
Listed(order, ids) ==
  [ids |-> ids,
   before |-> {p \in ids \X ids :
                 \E i, j \in DOMAIN order : i < j /\ order[i] = p[1] /\ order[j] = p[2]}]

(* The reading has its threads in the order of localeCompare(), the audit  *)
(* in that of the code units; both are required to be in the second one.   *)
sameSortedUniqueIds(expected, actual) ==
  /\ actual = Listed(CodeUnitOrder, actual.ids)
  /\ expected = actual

(* The request is about n at the pinned head; times are of one clock.      *)
assertArtifactEquality(q, n) ==
  /\ decision.revision = Pinned
  /\ readings[q].number = n
  /\ readings[q].seen.head = Pinned
  /\ readings[q].decided

\* Mutant: an override lifts whatever threads there are.
AuditWellFormed(q) == decision.wellFormed

AuditMatches(q) ==
  /\ decision.wellFormed
  /\ sameSortedUniqueIds(Listed(CodeUnitOrder, decision.threads),
                         Listed(LocaleOrder, readings[q].seen.unresolved))

assertGate(q) ==
  /\ ~readings[q].blocked
  /\ \/ decision.outcome = "approved" /\ readings[q].classification = "clean"
     \/ /\ decision.outcome = "override_merge"
        /\ readings[q].classification = "review_changes"
        /\ AuditMatches(q)

(* The input of a merge: a reading that was returned, and a decision.      *)
Authorized(q, n) == assertArtifactEquality(q, n) /\ assertGate(q)
=============================================================================
