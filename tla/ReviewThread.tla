---------------------------- MODULE ReviewThread ----------------------------
(***************************************************************************)
(* The review threads of one pull request, as the thread clients read and  *)
(* write them, and everybody else who works on them.  GitHub is external.  *)
(*                                                                         *)
(* Of the comments of a thread the models keep those that contain the key  *)
(* of an operation.  Everything else in a marker (pull request, head,      *)
(* thread, digest of the reply) is a function of the operation and the     *)
(* thread, because every attempt of an operation has the same input.       *)
(***************************************************************************)
EXTENDS Naturals, Sequences, FiniteSets

CONSTANTS
  Threads,      \* the selected threads
  Operations,   \* executions of the respond script
  MaxMoves      \* bound: moves by anyone else

ASSUME ThreadAssumption == MaxMoves \in Nat

VARIABLES
  pinned,    \* the pull request is open at the head every request names
  resolved,  \* the resolved threads
  replies,   \* the comments of each thread that contain an operation key
  posted,    \* how many such comments each thread was ever given
  moves      \* moves made by anyone else

threadVars == <<pinned, resolved, replies, posted, moves>>

(* intact: the comment ends with the marker, under the reply whose digest  *)
(* the marker has.                                                         *)
Comments ==
  [id : Nat, operation : Operations, author : {"actor", "other"}, intact : BOOLEAN]

ThreadTypeOK ==
  /\ pinned \in BOOLEAN
  /\ resolved \subseteq Threads
  /\ DOMAIN replies = Threads /\ \A t \in Threads : replies[t] \subseteq Comments
  /\ posted \in [Threads -> Nat]
  /\ moves \in 0 .. MaxMoves

ThreadInit ==
  /\ pinned = TRUE
  /\ resolved = {}
  /\ replies = [t \in Threads |-> {}]
  /\ posted = [t \in Threads |-> 0]
  /\ moves = 0

-----------------------------------------------------------------------------
(* findGitHubReviewThreadReplyProof().                                     *)

Keyed(t, o) == {r \in replies[t] : r.operation = o}

Proves(r) == r.author = "actor" /\ r.intact

\* Mutant: one proof among several comments of the operation is enough.
AnyProof(t, o) ==
  IF \E r \in Keyed(t, o) : Proves(r)
  THEN [found |-> "proof", id |-> (CHOOSE r \in Keyed(t, o) : Proves(r)).id]
  ELSE [found |-> IF Keyed(t, o) = {} THEN "nothing" ELSE "conflict", id |-> 0]

(* Nothing, the one reply of the operation, or a conflict.                 *)
Proof(t, o) ==
  IF Keyed(t, o) = {} THEN [found |-> "nothing", id |-> 0]
  ELSE IF \E r \in Keyed(t, o) : Keyed(t, o) = {r} /\ Proves(r)
  THEN [found |-> "proof", id |-> (CHOOSE r \in Keyed(t, o) : TRUE).id]
  ELSE [found |-> "conflict", id |-> 0]

-----------------------------------------------------------------------------
(* External: the mutations; neither compares what was read before.         *)

AddComment(t, o, author) ==
  /\ posted' = [posted EXCEPT ![t] = @ + 1]
  /\ replies' = [replies EXCEPT ![t] = @ \union
       {[id |-> posted[t] + 1, operation |-> o, author |-> author, intact |-> TRUE]}]

AddReply(t, o) ==
  /\ AddComment(t, o, "actor")
  /\ UNCHANGED <<pinned, resolved, moves>>

ResolveThread(t) ==
  /\ resolved' = resolved \union {t}
  /\ UNCHANGED <<pinned, replies, posted, moves>>

-----------------------------------------------------------------------------
(* Everybody else: a comment may be deleted, edited or quoted in full.     *)

OthersComment ==
  /\ \E t \in Threads :
       \/ \E r \in replies[t] : replies' = [replies EXCEPT ![t] = @ \ {r}] /\ UNCHANGED posted
       \/ \E r \in {r \in replies[t] : r.intact} :
            /\ replies' = [replies EXCEPT ![t] = (@ \ {r}) \union {[r EXCEPT !.intact = FALSE]}]
            /\ UNCHANGED posted
       \/ \E o \in Operations : Keyed(t, o) # {} /\ AddComment(t, o, "other")
  /\ UNCHANGED <<pinned, resolved>>

OthersResolve ==
  /\ \E t \in Threads : resolved' \in {resolved \union {t}, resolved \ {t}} \ {resolved}
  /\ UNCHANGED <<pinned, replies, posted>>

(* A push, a closing or a merge, or the way back.                          *)
OthersMove == pinned' = ~pinned /\ UNCHANGED <<resolved, replies, posted>>

Others ==
  /\ moves < MaxMoves /\ moves' = moves + 1
  /\ OthersComment \/ OthersResolve \/ OthersMove
=============================================================================
