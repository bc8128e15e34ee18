------------------------ MODULE ReviewThreadsProofs ------------------------
(***************************************************************************)
(* Theorems about ReviewThreads for any number of threads, operations,     *)
(* attempts and moves of others.                                           *)
(*                                                                         *)
(* The invariant has three parts: how far each attempt has come in the     *)
(* batch (Progress); where nobody interferes, what the comments of an      *)
(* operation are and that a receipt names the first of them (Undisturbed); *)
(* and where, besides, its attempts follow one another, what the one       *)
(* attempt that runs knows of the thread under way (InTurn).               *)
(***************************************************************************)
EXTENDS ReviewThreads, FiniteSetTheorems, SequenceTheorems, TLAPS

Resolving == {"read", "mutate", "readback"}

Progress ==
  /\ \A c \in RespondCalls :
       /\ Running(c) => Len(responds[c].receipts) < Len(Batch)
       /\ responds[c].step = "returned" => Len(responds[c].receipts) = Len(Batch)
       /\ Len(responds[c].receipts) <= Len(Batch)
       /\ responds[c].step = "idle" => responds[c].receipts = << >>
  /\ \A c \in ResolveCalls :
       resolves[c].step \in Resolving =>
         /\ resolves[c].done < Len(Batch)
         /\ resolves[c].of \in RespondCalls
         /\ responds[resolves[c].of].step = "returned"

First(t, o, id) ==
  \E r \in Keyed(t, o) : r.id = id /\ \A s \in Keyed(t, o) : id <= s.id

Undisturbed ==
  /\ pinned
  /\ \A t \in Threads : \A r \in replies[t] : Proves(r) /\ r.id <= posted[t]
  /\ \A c \in RespondCalls : \A i \in 1..Len(responds[c].receipts) :
       First(Batch[i], OperationOf[c], responds[c].receipts[i])

Single(t, o) == \A r, s \in Keyed(t, o) : r = s

Refused(o, t) == t \in resolved /\ Keyed(t, o) = {}

InTurn(o) ==
  /\ \A t \in Threads : Single(t, o)
  /\ \A c, d \in RespondCalls :
       Running(c) /\ Running(d) /\ OperationOf[c] = o /\ OperationOf[d] = o => c = d
  /\ \A c \in {c \in RespondCalls : OperationOf[c] = o} :
       /\ responds[c].step # "invalid"
       /\ responds[c].step \in {"check", "post"} => Keyed(Item(c), o) = {}
       /\ responds[c].step = "readback" =>
            \E r \in Keyed(Item(c), o) : r.id = responds[c].comment
       /\ responds[c].step = "conflict" => \E t \in Threads : Refused(o, t)
       /\ \A d \in {d \in RespondCalls : OperationOf[d] = o} :
            responds[c].step = "conflict" /\ responds[d].step = "post" =>
              \E t \in Threads \ {Item(d)} : Refused(o, t)

IInv ==
  /\ TypeOK /\ Progress
  /\ moves = 0 => Undisturbed /\ \A o \in Operations \ overlapped : InTurn(o)

-----------------------------------------------------------------------------
(* The proof of a reply, and what the external mutations do to it.         *)

LEMMA ProofCases ==
  ASSUME NEW t, NEW o
  PROVE  \/ Keyed(t, o) = {} /\ Proof(t, o) = [found |-> "nothing", id |-> 0]
         \/ \E r \in Keyed(t, o) :
              /\ Keyed(t, o) = {r} /\ Proves(r)
              /\ Proof(t, o) = [found |-> "proof", id |-> r.id]
         \/ /\ Keyed(t, o) # {}
            /\ ~\E r \in Keyed(t, o) : Keyed(t, o) = {r} /\ Proves(r)
            /\ Proof(t, o) = [found |-> "conflict", id |-> 0]
<1>1. CASE Keyed(t, o) = {}
  BY <1>1 DEF Proof
<1>2. CASE \E r \in Keyed(t, o) : Keyed(t, o) = {r} /\ Proves(r)
  <2>1. PICK r \in Keyed(t, o) : Keyed(t, o) = {r} /\ Proves(r)
    BY <1>2
  <2>2. (CHOOSE s \in Keyed(t, o) : TRUE) = r
    BY <2>1
  <2>3. QED
    BY <2>1, <2>2 DEF Proof
<1>3. CASE Keyed(t, o) # {} /\ ~\E r \in Keyed(t, o) : Keyed(t, o) = {r} /\ Proves(r)
  BY <1>3 DEF Proof
<1>4. QED
  BY <1>1, <1>2, <1>3

LEMMA SeenOnly ==
  ASSUME NEW t, NEW o, NEW id, Proof(t, o) = [found |-> "proof", id |-> id]
  PROVE  OnlyReply(t, o, id)
<1>1. Proof(t, o).found = "proof" /\ Proof(t, o).id = id
  OBVIOUS
<1>2. PICK r \in Keyed(t, o) :
        Keyed(t, o) = {r} /\ Proves(r) /\ Proof(t, o) = [found |-> "proof", id |-> r.id]
  BY <1>1, ProofCases
<1>3. r \in replies[t] /\ r.id = id
  BY <1>1, <1>2 DEF Keyed
<1>4. QED
  BY <1>2, <1>3 DEF OnlyReply

NewComment(t, o, author) ==
  [id |-> posted[t] + 1, operation |-> o, author |-> author, intact |-> TRUE]

(* The comment that a post adds, and what it leaves as it was.             *)
LEMMA CommentAdded ==
  ASSUME ThreadTypeOK, NEW t \in Threads, NEW o \in Operations, NEW author \in {"actor", "other"},
         AddComment(t, o, author)
  PROVE  /\ posted' \in [Threads -> Nat] /\ posted'[t] = posted[t] + 1
         /\ \A u \in Threads : posted[u] <= posted'[u]
         /\ DOMAIN replies' = Threads
         /\ \A u \in Threads : replies'[u] \subseteq Comments
         /\ \A u \in Threads : u # t => replies'[u] = replies[u]
         /\ replies'[t] = replies[t] \union {NewComment(t, o, author)}
<1>1. /\ DOMAIN replies = Threads /\ posted \in [Threads -> Nat]
      /\ \A u \in Threads : replies[u] \subseteq Comments
      /\ posted' = [posted EXCEPT ![t] = @ + 1]
      /\ replies' = [replies EXCEPT ![t] = @ \union {NewComment(t, o, author)}]
  BY DEF ThreadTypeOK, AddComment, NewComment
<1>2. NewComment(t, o, author) \in Comments
  BY <1>1 DEF Comments, NewComment
<1>3. /\ posted' \in [Threads -> Nat] /\ posted'[t] = posted[t] + 1
      /\ \A u \in Threads : posted[u] <= posted'[u]
  BY <1>1
<1>4. /\ DOMAIN replies' = Threads
      /\ replies'[t] = replies[t] \union {NewComment(t, o, author)}
      /\ \A u \in Threads : u # t => replies'[u] = replies[u]
  BY <1>1
<1>5. \A u \in Threads : replies'[u] \subseteq Comments
  BY <1>1, <1>2, <1>4
<1>6. QED
  BY <1>3, <1>4, <1>5

(* Only the operation's own comments on that thread change.                *)
LEMMA KeyedAfter ==
  ASSUME ThreadTypeOK, NEW t \in Threads, NEW o \in Operations, NEW author \in {"actor", "other"},
         AddComment(t, o, author)
  PROVE  /\ \A u \in Threads, p \in Operations : u # t \/ p # o => Keyed(u, p)' = Keyed(u, p)
         /\ Keyed(t, o)' = Keyed(t, o) \union {NewComment(t, o, author)}
<1>1. /\ replies'[t] = replies[t] \union {NewComment(t, o, author)}
      /\ \A u \in Threads : u # t => replies'[u] = replies[u]
  BY CommentAdded
<1>2. NewComment(t, o, author).operation = o
  BY DEF NewComment
<1>3. QED
  BY <1>1, <1>2 DEF Keyed

(* The types of the threads, whoever moves.                                *)
LEMMA ThreadsTyped ==
  ASSUME ThreadTypeOK,
         \/ UNCHANGED threadVars
         \/ \E t \in Threads, o \in Operations : AddReply(t, o)
         \/ \E t \in Threads : ResolveThread(t)
         \/ Others
  PROVE  ThreadTypeOK' /\ moves <= moves'
<1>0. /\ pinned \in BOOLEAN /\ resolved \subseteq Threads
      /\ DOMAIN replies = Threads /\ \A t \in Threads : replies[t] \subseteq Comments
      /\ posted \in [Threads -> Nat] /\ moves \in 0..MaxMoves /\ MaxMoves \in Nat
  BY ThreadAssumption DEF ThreadTypeOK
<1>1. CASE UNCHANGED threadVars
  BY <1>0, <1>1 DEF threadVars, ThreadTypeOK
<1>2. ASSUME NEW t \in Threads, NEW o \in Operations, AddReply(t, o)
      PROVE  ThreadTypeOK' /\ moves <= moves'
  <2>1. AddComment(t, o, "actor") /\ UNCHANGED <<pinned, resolved, moves>>
    BY <1>2 DEF AddReply
  <2>2. \A u \in Threads : replies'[u] \subseteq Comments
    BY <1>0, <2>1, CommentAdded
  <2>3. QED
    BY <1>0, <2>1, <2>2, CommentAdded DEF ThreadTypeOK
<1>3. ASSUME NEW t \in Threads, ResolveThread(t) PROVE ThreadTypeOK' /\ moves <= moves'
  BY <1>0, <1>3 DEF ResolveThread, ThreadTypeOK
<1>4. CASE Others
  <2>1. moves' \in 0..MaxMoves /\ moves <= moves'
    BY <1>0, <1>4 DEF Others
  <2>2. CASE OthersComment
    <3>1. UNCHANGED <<pinned, resolved>>
      BY <2>2 DEF OthersComment
    <3>2. PICK t \in Threads :
            \/ \E r \in replies[t] : replies' = [replies EXCEPT ![t] = @ \ {r}] /\ UNCHANGED posted
            \/ \E r \in {r \in replies[t] : r.intact} :
                 /\ replies' = [replies EXCEPT ![t] = (@ \ {r}) \union {[r EXCEPT !.intact = FALSE]}]
                 /\ UNCHANGED posted
            \/ \E o \in Operations : Keyed(t, o) # {} /\ AddComment(t, o, "other")
      BY <2>2 DEF OthersComment
    <3>3. ASSUME NEW r \in replies[t], replies' = [replies EXCEPT ![t] = @ \ {r}], UNCHANGED posted
          PROVE  ThreadTypeOK'
      BY <1>0, <2>1, <3>1, <3>3 DEF ThreadTypeOK
    <3>4. ASSUME NEW r \in replies[t], UNCHANGED posted,
                 replies' = [replies EXCEPT ![t] = (@ \ {r}) \union {[r EXCEPT !.intact = FALSE]}]
          PROVE  ThreadTypeOK'
      <4>1. [r EXCEPT !.intact = FALSE] \in Comments
        <5>1. r \in [id : Nat, operation : Operations, author : {"actor", "other"}, intact : BOOLEAN]
          BY <1>0 DEF Comments
        <5>2. QED
          BY <5>1 DEF Comments
      <4>2. QED
        BY <1>0, <2>1, <3>1, <3>4, <4>1 DEF ThreadTypeOK
    <3>5. ASSUME NEW o \in Operations, AddComment(t, o, "other") PROVE ThreadTypeOK'
      <4>1. \A u \in Threads : replies'[u] \subseteq Comments
        BY <1>0, <3>5, CommentAdded
      <4>2. QED
        BY <1>0, <2>1, <3>1, <3>5, <4>1, CommentAdded DEF ThreadTypeOK
    <3>6. QED
      BY <2>1, <3>2, <3>3, <3>4, <3>5
  <2>3. CASE OthersResolve
    BY <1>0, <2>1, <2>3 DEF OthersResolve, ThreadTypeOK
  <2>4. CASE OthersMove
    BY <1>0, <2>1, <2>4 DEF OthersMove, ThreadTypeOK
  <2>5. QED
    BY <1>4, <2>1, <2>2, <2>3, <2>4 DEF Others
<1>5. QED
  BY <1>1, <1>2, <1>3, <1>4

-----------------------------------------------------------------------------
(* How one attempt moves.                                                  *)

LEMMA Goes ==
  ASSUME RespondsTypeOK, NEW c \in RespondCalls, NEW s \in RespondSteps, RespondGoes(c, s)
  PROVE  /\ RespondsTypeOK'
         /\ responds'[c].step = s /\ responds'[c].receipts = responds[c].receipts
         /\ responds'[c].comment = responds[c].comment
         /\ \A d \in RespondCalls \ {c} : responds'[d] = responds[d]
BY DEF RespondsTypeOK, RespondGoes

LEMMA ReceiptAdded ==
  ASSUME RespondsTypeOK, NEW c \in RespondCalls, NEW id \in Nat, Receipt(c, id)
  PROVE  /\ RespondsTypeOK'
         /\ \A d \in RespondCalls \ {c} : responds'[d] = responds[d]
         /\ responds'[c].receipts = Append(responds[c].receipts, id)
         /\ Len(responds'[c].receipts) = Len(responds[c].receipts) + 1
         /\ \A i \in 1..Len(responds[c].receipts) :
              responds'[c].receipts[i] = responds[c].receipts[i]
         /\ responds'[c].receipts[Len(responds[c].receipts) + 1] = id
         /\ responds'[c].step =
              IF Len(responds[c].receipts) + 1 = Len(Batch) THEN "returned" ELSE "find"
<1> DEFINE receipts == Append(responds[c].receipts, id)
<1>1. responds[c].receipts \in Seq(Nat)
  BY DEF RespondsTypeOK
<1>2. /\ receipts \in Seq(Nat) /\ Len(receipts) = Len(responds[c].receipts) + 1
      /\ \A i \in 1..Len(responds[c].receipts) : receipts[i] = responds[c].receipts[i]
      /\ receipts[Len(responds[c].receipts) + 1] = id
  BY <1>1
<1>3. responds' = [responds EXCEPT ![c] =
        [step |-> IF Len(receipts) = Len(Batch) THEN "returned" ELSE "find",
         receipts |-> receipts, comment |-> 0]]
  BY DEF Receipt
<1> HIDE DEF receipts
<1>4. /\ responds'[c] = [step |-> IF Len(receipts) = Len(Batch) THEN "returned" ELSE "find",
                         receipts |-> receipts, comment |-> 0]
      /\ \A d \in RespondCalls \ {c} : responds'[d] = responds[d]
  BY <1>3 DEF RespondsTypeOK
<1>5. RespondsTypeOK'
  BY <1>2, <1>3 DEF RespondsTypeOK, RespondSteps
<1>6. QED
  BY <1>2, <1>4, <1>5 DEF receipts

LEMMA ItemTaken ==
  ASSUME RespondsTypeOK, Progress, NEW c \in RespondCalls, Running(c)
  PROVE  /\ Len(responds[c].receipts) \in Nat /\ Len(responds[c].receipts) < Len(Batch)
         /\ Item(c) \in Threads /\ Item(c) = Batch[Len(responds[c].receipts) + 1]
         /\ OperationOf[c] \in Operations
<1>1. responds[c].receipts \in Seq(Nat) /\ Len(responds[c].receipts) < Len(Batch)
  BY DEF RespondsTypeOK, Progress
<1>2. Batch \in Seq(Threads) /\ OperationOf[c] \in Operations
  BY RespondAssumption
<1>3. QED
  BY <1>1, <1>2 DEF Item

(* A receipt is given on the strength of the one reply that proves it.     *)
Given(c, id) ==
  /\ Receipt(c, id) /\ pinned /\ UNCHANGED threadVars
  /\ OnlyReply(Item(c), OperationOf[c], id)

LEMMA RespondCases ==
  ASSUME TypeOK, Progress, NEW c \in RespondCalls, RespondStep(c)
  PROVE  /\ Running(c)
         /\ \/ \E id \in Nat : Given(c, id) /\ responds[c].step \in {"find", "readback"}
            \/ /\ UNCHANGED threadVars
               /\ \/ RespondGoes(c, "failed")
                  \/ RespondGoes(c, "conflict") /\
                       \/ ~pinned
                       \/ RespondProof(c).found = "conflict"
                       \/ responds[c].step = "check" /\ Item(c) \in resolved
                  \/ RespondGoes(c, "check") /\ Keyed(Item(c), OperationOf[c]) = {}
                  \/ /\ RespondGoes(c, "post") /\ responds[c].step = "check"
                     /\ Item(c) \notin resolved
                  \/ /\ RespondGoes(c, "invalid") /\ responds[c].step = "readback"
                     /\ RespondProof(c) # [found |-> "proof", id |-> responds[c].comment]
            \/ /\ responds[c].step = "post" /\ AddReply(Item(c), OperationOf[c])
               /\ \/ RespondGoes(c, "failed")
                  \/ responds' = [responds EXCEPT ![c].step = "readback",
                                                  ![c].comment = posted[Item(c)] + 1]
<1>1. Running(c)
  BY DEF RespondStep, FindReply, CheckThread, Post, ReadBackReply, RespondFails, Running
<1>2. ThreadTypeOK /\ RespondsTypeOK
  BY DEF TypeOK
<1>3. Item(c) \in Threads /\ OperationOf[c] \in Operations
  BY <1>1, <1>2, ItemTaken
<1>4. \/ Keyed(Item(c), OperationOf[c]) = {} /\ RespondProof(c) = [found |-> "nothing", id |-> 0]
      \/ \E r \in Keyed(Item(c), OperationOf[c]) :
           /\ Keyed(Item(c), OperationOf[c]) = {r} /\ Proves(r)
           /\ RespondProof(c) = [found |-> "proof", id |-> r.id]
      \/ RespondProof(c) = [found |-> "conflict", id |-> 0]
  BY ProofCases DEF RespondProof
<1>5. RespondProof(c).found = "proof" =>
        RespondProof(c).id \in Nat /\ OnlyReply(Item(c), OperationOf[c], RespondProof(c).id)
  <2>1. ASSUME NEW r \in Keyed(Item(c), OperationOf[c]),
               Keyed(Item(c), OperationOf[c]) = {r}, Proves(r),
               RespondProof(c) = [found |-> "proof", id |-> r.id]
        PROVE  RespondProof(c).id \in Nat /\ OnlyReply(Item(c), OperationOf[c], RespondProof(c).id)
    <3>1. r \in replies[Item(c)] /\ r.id \in Nat
      BY <1>2, <1>3 DEF Keyed, ThreadTypeOK, Comments
    <3>2. QED
      BY <2>1, <3>1 DEF OnlyReply
  <2>2. QED
    BY <1>4, <2>1
<1>6. CASE FindReply(c)
  <2>1. CASE ~pinned \/ RespondProof(c).found = "conflict"
    BY <1>1, <1>6, <2>1 DEF FindReply
  <2>2. CASE pinned /\ RespondProof(c).found = "proof"
    BY <1>1, <1>5, <1>6, <2>2 DEF FindReply, Given
  <2>3. CASE pinned /\ RespondProof(c).found = "nothing"
    <3>1. Keyed(Item(c), OperationOf[c]) = {}
      BY <1>4, <2>3
    <3>2. QED
      BY <1>1, <1>6, <2>3, <3>1 DEF FindReply
  <2>4. QED
    BY <1>4, <2>1, <2>2, <2>3
<1>7. CASE CheckThread(c)
  <2>1. CASE pinned /\ Item(c) \notin resolved
    BY <1>1, <1>7, <2>1 DEF CheckThread
  <2>2. CASE ~(pinned /\ Item(c) \notin resolved)
    BY <1>1, <1>7, <2>2 DEF CheckThread
  <2>3. QED
    BY <2>1, <2>2
<1>8. CASE Post(c)
  BY <1>1, <1>8 DEF Post
<1>9. CASE ReadBackReply(c)
  <2>1. CASE ~pinned \/ RespondProof(c).found = "conflict"
    BY <1>1, <1>9, <2>1 DEF ReadBackReply
  <2>2. CASE pinned /\ RespondProof(c) = [found |-> "proof", id |-> responds[c].comment]
    BY <1>1, <1>5, <1>9, <2>2 DEF ReadBackReply, Given
  <2>3. CASE /\ ~(~pinned \/ RespondProof(c).found = "conflict")
             /\ RespondProof(c) # [found |-> "proof", id |-> responds[c].comment]
    BY <1>1, <1>9, <2>3 DEF ReadBackReply
  <2>4. QED
    BY <2>1, <2>2, <2>3
<1>10. CASE RespondFails(c)
  BY <1>1, <1>10 DEF RespondFails
<1>11. QED
  BY <1>6, <1>7, <1>8, <1>9, <1>10 DEF RespondStep

(* Receipts change only where one is given.                                *)
LEMMA ReceiptsMove ==
  ASSUME TypeOK, Progress, NEW c \in RespondCalls, StartRespond(c) \/ RespondStep(c)
  PROVE  responds'[c].receipts = responds[c].receipts \/ \E id \in Nat : Given(c, id)
<1>0. RespondsTypeOK
  BY DEF TypeOK
<1>1. CASE StartRespond(c)
  BY <1>0, <1>1, Goes DEF StartRespond, RespondSteps
<1>2. CASE RespondStep(c)
  <2>1. ASSUME NEW s \in RespondSteps, RespondGoes(c, s)
        PROVE  responds'[c].receipts = responds[c].receipts
    BY <1>0, <2>1, Goes
  <2>2. ASSUME responds' = [responds EXCEPT ![c].step = "readback", ![c].comment = posted[Item(c)] + 1]
        PROVE  responds'[c].receipts = responds[c].receipts
    BY <1>0, <2>2 DEF RespondsTypeOK
  <2>3. \/ \E id \in Nat : Given(c, id)
        \/ \E s \in RespondSteps : RespondGoes(c, s)
        \/ responds' = [responds EXCEPT ![c].step = "readback", ![c].comment = posted[Item(c)] + 1]
    BY <1>2, RespondCases DEF RespondSteps
  <2>4. QED
    BY <2>1, <2>2, <2>3
<1>3. QED
  BY <1>1, <1>2

LEMMA ResolveCases ==
  ASSUME TypeOK, Progress, NEW c \in ResolveCalls, ResolveStep(c)
  PROVE  /\ UNCHANGED threadVars \/ \E t \in Threads : ResolveThread(t)
         /\ ResolvesTypeOK'
         /\ \A d \in ResolveCalls \ {c} : resolves'[d] = resolves[d]
         /\ resolves[c].step \in Resolving /\ resolves'[c].of = resolves[c].of
         /\ resolves'[c].step \in Resolving => resolves'[c].done < Len(Batch)
         /\ resolves'[c].done > resolves[c].done => ProofVisible(c) /\ ResolveItem(c) \in resolved
<1>1. resolves[c].step \in Resolving
  BY DEF ResolveStep, ReadThread, Resolve, ReadBackThread, ResolveFails, Resolving
<1>2. /\ resolves \in [ResolveCalls ->
           [step : ResolveSteps, done : 0 .. Len(Batch), of : RespondCalls \union {"none"}]]
      /\ resolves[c].done \in Nat /\ resolves[c].done < Len(Batch)
      /\ Len(Batch) \in Nat
  BY <1>1, RespondAssumption DEF TypeOK, ResolvesTypeOK, Progress
<1>3. ResolveItem(c) \in Threads
  BY <1>2, RespondAssumption DEF ResolveItem
<1>4. ASSUME NEW s \in ResolveSteps, ResolveGoes(c, s)
      PROVE  /\ ResolvesTypeOK'
             /\ \A d \in ResolveCalls \ {c} : resolves'[d] = resolves[d]
             /\ resolves'[c].of = resolves[c].of /\ resolves'[c].done = resolves[c].done
  BY <1>2, <1>4 DEF ResolveGoes, ResolvesTypeOK
<1>5. ASSUME ItemResolved(c)
      PROVE  /\ ResolvesTypeOK'
             /\ \A d \in ResolveCalls \ {c} : resolves'[d] = resolves[d]
             /\ resolves'[c].of = resolves[c].of
             /\ resolves'[c].step \in Resolving => resolves'[c].done < Len(Batch)
  <2>1. /\ resolves'[c].step = (IF resolves[c].done + 1 = Len(Batch) THEN "returned" ELSE "read")
        /\ resolves'[c].done = resolves[c].done + 1
        /\ resolves'[c].of = resolves[c].of
        /\ \A d \in ResolveCalls \ {c} : resolves'[d] = resolves[d]
    BY <1>2, <1>5 DEF ItemResolved
  <2>2. ResolvesTypeOK'
    BY <1>2, <1>5 DEF ItemResolved, ResolvesTypeOK, ResolveSteps
  <2>3. QED
    BY <1>2, <2>1, <2>2 DEF Resolving
<1>6. \/ /\ \E s \in ResolveSteps : ResolveGoes(c, s)
         /\ UNCHANGED threadVars \/ ResolveThread(ResolveItem(c))
      \/ /\ ItemResolved(c) /\ UNCHANGED threadVars
         /\ ProofVisible(c) /\ ResolveItem(c) \in resolved
  <2>1. CASE ReadThread(c)
    <3>1. CASE ~pinned \/ ~ProofVisible(c)
      BY <2>1, <3>1 DEF ReadThread, ResolveSteps
    <3>2. CASE pinned /\ ProofVisible(c) /\ ResolveItem(c) \in resolved
      BY <2>1, <3>2 DEF ReadThread
    <3>3. CASE pinned /\ ProofVisible(c) /\ ResolveItem(c) \notin resolved
      BY <2>1, <3>3 DEF ReadThread, ResolveSteps
    <3>4. QED
      BY <3>1, <3>2, <3>3
  <2>2. CASE Resolve(c)
    BY <2>2 DEF Resolve, ResolveSteps
  <2>3. CASE ReadBackThread(c)
    <3>1. CASE ~pinned
      BY <2>3, <3>1 DEF ReadBackThread, ResolveSteps
    <3>2. CASE pinned /\ (ResolveItem(c) \notin resolved \/ ProofMissing(c))
      <4>1. ~(pinned /\ ResolveItem(c) \in resolved /\ ProofVisible(c))
        BY <3>2 DEF ProofMissing, ProofVisible
      <4>2. QED
        BY <2>3, <3>2, <4>1 DEF ReadBackThread, ResolveSteps
    <3>3. CASE /\ pinned /\ ResolveItem(c) \in resolved /\ ~ProofMissing(c) /\ ProofVisible(c)
      BY <2>3, <3>3 DEF ReadBackThread
    <3>4. CASE /\ pinned /\ ResolveItem(c) \in resolved /\ ~ProofMissing(c) /\ ~ProofVisible(c)
      BY <2>3, <3>4 DEF ReadBackThread, ResolveSteps
    <3>5. QED
      BY <3>1, <3>2, <3>3, <3>4
  <2>4. CASE ResolveFails(c)
    BY <2>4 DEF ResolveFails, ResolveSteps
  <2>5. QED
    BY <2>1, <2>2, <2>3, <2>4 DEF ResolveStep
<1>7. CASE ItemResolved(c) /\ UNCHANGED threadVars /\ ProofVisible(c) /\ ResolveItem(c) \in resolved
  BY <1>1, <1>5, <1>7
<1>8. ASSUME NEW s \in ResolveSteps, ResolveGoes(c, s),
             UNCHANGED threadVars \/ ResolveThread(ResolveItem(c))
      PROVE  /\ UNCHANGED threadVars \/ \E t \in Threads : ResolveThread(t)
             /\ ResolvesTypeOK'
             /\ \A d \in ResolveCalls \ {c} : resolves'[d] = resolves[d]
             /\ resolves'[c].of = resolves[c].of
             /\ resolves'[c].done < Len(Batch) /\ ~(resolves'[c].done > resolves[c].done)
  BY <1>2, <1>3, <1>4, <1>8
<1>9. QED
  BY <1>1, <1>6, <1>7, <1>8

-----------------------------------------------------------------------------
(* The steps, by what they do to the threads.                              *)
Ours ==
  \/ UNCHANGED threadVars
  \/ \E t \in Threads, o \in Operations : AddReply(t, o)
  \/ \E t \in Threads : ResolveThread(t)

LEMMA RespondTyped ==
  ASSUME TypeOK, Progress, NEW c \in RespondCalls, StartRespond(c) \/ RespondStep(c)
  PROVE  /\ Ours /\ RespondsTypeOK'
         /\ \A d \in RespondCalls \ {c} : responds'[d] = responds[d]
         /\ responds[c].step # "returned" /\ responds'[c].step # "idle"
         /\ Running(c)' => Len(responds'[c].receipts) < Len(Batch)
         /\ responds'[c].step = "returned" => Len(responds'[c].receipts) = Len(Batch)
         /\ Len(responds'[c].receipts) <= Len(Batch)
<1>1. RespondsTypeOK /\ responds[c].receipts \in Seq(Nat) /\ Len(Batch) \in Nat
  BY RespondAssumption DEF TypeOK, RespondsTypeOK
<1>2. CASE StartRespond(c)
  <2>1. responds[c].step = "idle" /\ responds[c].receipts = << >> /\ RespondGoes(c, "find")
    BY <1>2 DEF StartRespond, Progress
  <2>2. /\ RespondsTypeOK' /\ responds'[c].step = "find" /\ responds'[c].receipts = << >>
        /\ \A d \in RespondCalls \ {c} : responds'[d] = responds[d]
    BY <1>1, <2>1, Goes DEF RespondSteps
  <2>3. Len(Batch) > 0
    BY RespondAssumption
  <2>4. QED
    BY <1>1, <1>2, <2>1, <2>2, <2>3 DEF Ours, StartRespond
<1>3. CASE RespondStep(c)
  <2>1. Running(c)
    BY <1>3, RespondCases
  <2>2. /\ Item(c) \in Threads /\ OperationOf[c] \in Operations
        /\ Len(responds[c].receipts) \in Nat /\ Len(responds[c].receipts) < Len(Batch)
        /\ responds[c].step # "returned"
    BY <1>1, <2>1, ItemTaken DEF Running
  <2>3. ASSUME NEW id \in Nat, Given(c, id)
        PROVE  /\ Ours /\ RespondsTypeOK'
               /\ \A d \in RespondCalls \ {c} : responds'[d] = responds[d]
               /\ responds'[c].step # "idle"
               /\ Running(c)' => Len(responds'[c].receipts) < Len(Batch)
               /\ responds'[c].step = "returned" => Len(responds'[c].receipts) = Len(Batch)
               /\ Len(responds'[c].receipts) <= Len(Batch)
    <3>1. Receipt(c, id) /\ UNCHANGED threadVars
      BY <2>3 DEF Given
    <3>2. /\ RespondsTypeOK'
          /\ \A d \in RespondCalls \ {c} : responds'[d] = responds[d]
          /\ Len(responds'[c].receipts) = Len(responds[c].receipts) + 1
          /\ responds'[c].step =
               IF Len(responds[c].receipts) + 1 = Len(Batch) THEN "returned" ELSE "find"
      BY <1>1, <3>1, ReceiptAdded
    <3>3. QED
      BY <1>1, <2>2, <3>1, <3>2 DEF Ours, Running
  <2>4. ASSUME NEW s \in RespondSteps \ {"idle", "returned"}, RespondGoes(c, s)
        PROVE  /\ RespondsTypeOK'
               /\ \A d \in RespondCalls \ {c} : responds'[d] = responds[d]
               /\ responds'[c].step = s /\ Len(responds'[c].receipts) = Len(responds[c].receipts)
    BY <1>1, <2>4, Goes
  <2>5. ASSUME responds' = [responds EXCEPT ![c].step = "readback", ![c].comment = posted[Item(c)] + 1]
        PROVE  /\ RespondsTypeOK'
               /\ \A d \in RespondCalls \ {c} : responds'[d] = responds[d]
               /\ responds'[c].step = "readback"
               /\ Len(responds'[c].receipts) = Len(responds[c].receipts)
    <3>1. posted[Item(c)] + 1 \in Nat
      BY <2>2 DEF TypeOK, ThreadTypeOK
    <3>2. QED
      BY <1>1, <2>5, <3>1 DEF RespondsTypeOK, RespondSteps
  <2>6. \/ \E id \in Nat : Given(c, id)
        \/ /\ Ours
           /\ \/ \E s \in RespondSteps \ {"idle", "returned"} : RespondGoes(c, s)
              \/ responds' = [responds EXCEPT ![c].step = "readback",
                                              ![c].comment = posted[Item(c)] + 1]
    BY <1>3, <2>2, RespondCases DEF Ours, RespondSteps
  <2>7. QED
    BY <2>2, <2>3, <2>4, <2>5, <2>6
<1>4. QED
  BY <1>2, <1>3

LEMMA Typed ==
  ASSUME TypeOK, Progress, [Next]_vars
  PROVE  TypeOK' /\ Progress' /\ moves <= moves'
<1>0. /\ ThreadTypeOK /\ RespondsTypeOK /\ ResolvesTypeOK /\ overlapped \subseteq Operations
      /\ moves \in Nat
  BY ThreadAssumption DEF TypeOK, ThreadTypeOK
<1>1. ASSUME NEW c \in RespondCalls, RequestRespond(c) \/ (RespondStep(c) /\ UNCHANGED overlapped),
             UNCHANGED resolves
      PROVE  TypeOK' /\ Progress' /\ moves <= moves'
  <2>1. StartRespond(c) \/ RespondStep(c)
    BY <1>1 DEF RequestRespond
  <2>2. /\ Ours /\ RespondsTypeOK'
        /\ \A d \in RespondCalls \ {c} : responds'[d] = responds[d]
        /\ responds[c].step # "returned" /\ responds'[c].step # "idle"
        /\ Running(c)' => Len(responds'[c].receipts) < Len(Batch)
        /\ responds'[c].step = "returned" => Len(responds'[c].receipts) = Len(Batch)
        /\ Len(responds'[c].receipts) <= Len(Batch)
    BY <2>1, RespondTyped
  <2>3. ThreadTypeOK' /\ moves <= moves'
    BY <1>0, <2>2, ThreadsTyped DEF Ours
  <2>4. overlapped' \subseteq Operations
    BY <1>0, <1>1, RespondAssumption DEF RequestRespond
  <2>5. TypeOK'
    BY <1>0, <1>1, <2>2, <2>3, <2>4 DEF TypeOK, ResolvesTypeOK
  <2>6. \A d \in RespondCalls :
          /\ Running(d)' => Len(responds'[d].receipts) < Len(Batch)
          /\ responds'[d].step = "returned" => Len(responds'[d].receipts) = Len(Batch)
          /\ Len(responds'[d].receipts) <= Len(Batch)
          /\ responds'[d].step = "idle" => responds'[d].receipts = << >>
    BY <2>2 DEF Progress, Running
  <2>7. \A d \in RespondCalls : responds[d].step = "returned" => responds'[d].step = "returned"
    BY <2>2
  <2>8. \A r \in ResolveCalls :
          resolves'[r].step \in Resolving =>
            /\ resolves'[r].done < Len(Batch) /\ resolves'[r].of \in RespondCalls
            /\ responds'[resolves'[r].of].step = "returned"
    BY <1>1, <2>7 DEF Progress
  <2>9. QED
    BY <2>3, <2>5, <2>6, <2>8 DEF Progress
<1>2. ASSUME NEW c \in ResolveCalls, (\E d \in RespondCalls : StartResolve(c, d)) \/ ResolveStep(c),
             UNCHANGED <<responds, overlapped>>
      PROVE  TypeOK' /\ Progress' /\ moves <= moves'
  <2>1. /\ Ours /\ ResolvesTypeOK'
        /\ \A d \in ResolveCalls \ {c} : resolves'[d] = resolves[d]
        /\ resolves'[c].step \in Resolving =>
             /\ resolves'[c].done < Len(Batch) /\ resolves'[c].of \in RespondCalls
             /\ responds[resolves'[c].of].step = "returned"
    <3>1. ASSUME NEW d \in RespondCalls, StartResolve(c, d)
          PROVE  <2>1
      <4>1. Len(Batch) \in Nat /\ 0 < Len(Batch)
        BY RespondAssumption
      <4>2. /\ responds[d].step = "returned" /\ UNCHANGED threadVars
            /\ resolves' = [resolves EXCEPT ![c] = [step |-> "read", done |-> 0, of |-> d]]
        BY <3>1 DEF StartResolve
      <4>3. [step |-> "read", done |-> 0, of |-> d] \in
              [step : ResolveSteps, done : 0 .. Len(Batch), of : RespondCalls \union {"none"}]
        BY <4>1 DEF ResolveSteps
      <4>4. QED
        BY <1>0, <4>1, <4>2, <4>3 DEF ResolvesTypeOK, Ours
    <3>2. ASSUME ResolveStep(c) PROVE <2>1
      <4>1. resolves[c].of \in RespondCalls /\ responds[resolves[c].of].step = "returned"
        BY <3>2, ResolveCases DEF Progress
      <4>2. QED
        BY <3>2, <4>1, ResolveCases DEF Ours
    <3>3. QED
      BY <1>2, <3>1, <3>2
  <2>2. ThreadTypeOK' /\ moves <= moves'
    BY <1>0, <2>1, ThreadsTyped DEF Ours
  <2>3. TypeOK'
    BY <1>0, <1>2, <2>1, <2>2 DEF TypeOK, RespondsTypeOK
  <2>4. \A r \in ResolveCalls :
          resolves'[r].step \in Resolving =>
            /\ resolves'[r].done < Len(Batch) /\ resolves'[r].of \in RespondCalls
            /\ responds'[resolves'[r].of].step = "returned"
    BY <1>2, <2>1 DEF Progress
  <2>5. QED
    BY <1>2, <2>2, <2>3, <2>4 DEF Progress, Running
<1>3. ASSUME UNCHANGED threadVars \/ Others, UNCHANGED <<responds, resolves, overlapped>>
      PROVE  TypeOK' /\ Progress' /\ moves <= moves'
  <2>1. ThreadTypeOK' /\ moves <= moves'
    BY <1>0, <1>3, ThreadsTyped
  <2>2. TypeOK'
    BY <1>0, <1>3, <2>1 DEF TypeOK, RespondsTypeOK, ResolvesTypeOK
  <2>3. QED
    BY <1>3, <2>1, <2>2 DEF Progress, Running
<1>4. QED
  BY <1>1, <1>2, <1>3 DEF Next, vars

-----------------------------------------------------------------------------
(* Where nobody interferes.                                                *)

(* The first comment of an operation stays the first.                      *)
LEMMA FirstKept ==
  ASSUME ThreadTypeOK, Undisturbed, Ours,
         NEW t \in Threads, NEW o \in Operations, NEW id, First(t, o, id)
  PROVE  First(t, o, id)'
<1>1. CASE UNCHANGED threadVars \/ \E u \in Threads : ResolveThread(u)
  BY <1>1 DEF threadVars, ResolveThread, First, Keyed
<1>2. ASSUME NEW u \in Threads, NEW p \in Operations, AddReply(u, p) PROVE First(t, o, id)'
  <2>1. AddComment(u, p, "actor")
    BY <1>2 DEF AddReply
  <2>2. PICK r \in Keyed(t, o) : r.id = id /\ \A s \in Keyed(t, o) : id <= s.id
    BY DEF First
  <2>3. CASE t = u /\ o = p
    <3>1. Keyed(t, o)' = Keyed(t, o) \union {NewComment(t, o, "actor")}
      BY <2>1, <2>3, KeyedAfter
    <3>2. /\ r \in replies[t] /\ r.id \in Nat /\ r.id <= posted[t] /\ posted[t] \in Nat
      BY <2>2 DEF Keyed, Undisturbed, ThreadTypeOK, Comments
    <3>3. NewComment(t, o, "actor").id = posted[t] + 1
      BY DEF NewComment
    <3>4. QED
      BY <2>2, <3>1, <3>2, <3>3 DEF First
  <2>4. CASE t # u \/ o # p
    <3>1. Keyed(t, o)' = Keyed(t, o)
      BY <2>1, <2>4, KeyedAfter
    <3>2. QED
      BY <2>2, <3>1 DEF First
  <2>5. QED
    BY <2>3, <2>4
<1>3. QED
  BY <1>1, <1>2 DEF Ours

LEMMA ThreadsUndisturbed ==
  ASSUME ThreadTypeOK, Undisturbed, Ours
  PROVE  /\ pinned'
         /\ \A t \in Threads : \A r \in replies'[t] : Proves(r) /\ r.id <= posted'[t]
<1>1. CASE UNCHANGED threadVars \/ \E u \in Threads : ResolveThread(u)
  BY <1>1 DEF threadVars, ResolveThread, Undisturbed
<1>2. ASSUME NEW u \in Threads, NEW p \in Operations, AddReply(u, p)
      PROVE  /\ pinned'
             /\ \A t \in Threads : \A r \in replies'[t] : Proves(r) /\ r.id <= posted'[t]
  <2>1. AddComment(u, p, "actor") /\ pinned' = pinned
    BY <1>2 DEF AddReply
  <2>2. /\ posted' \in [Threads -> Nat] /\ posted'[u] = posted[u] + 1
        /\ \A t \in Threads : posted[t] <= posted'[t]
        /\ \A t \in Threads : t # u => replies'[t] = replies[t]
        /\ replies'[u] = replies[u] \union {NewComment(u, p, "actor")}
    BY <2>1, CommentAdded
  <2>3. Proves(NewComment(u, p, "actor")) /\ NewComment(u, p, "actor").id = posted[u] + 1
    BY DEF Proves, NewComment
  <2>4. ASSUME NEW t \in Threads, NEW r \in replies'[t]
        PROVE  Proves(r) /\ r.id <= posted'[t]
    <3>1. CASE r \in replies[t]
      <4>1. r.id \in Nat /\ posted[t] \in Nat /\ posted'[t] \in Nat
        BY <2>2, <3>1 DEF ThreadTypeOK, Comments
      <4>2. Proves(r) /\ r.id <= posted[t] /\ posted[t] <= posted'[t]
        BY <2>2, <3>1 DEF Undisturbed
      <4>3. QED
        BY <4>1, <4>2
    <3>2. CASE r \notin replies[t]
      <4>1. t = u /\ r = NewComment(u, p, "actor") /\ posted'[u] \in Nat
        BY <2>2, <2>4, <3>2
      <4>2. QED
        BY <2>2, <2>3, <4>1
    <3>3. QED
      BY <3>1, <3>2
  <2>5. QED
    BY <2>1, <2>4 DEF Undisturbed
<1>3. QED
  BY <1>1, <1>2 DEF Ours

LEMMA StaysUndisturbed ==
  ASSUME TypeOK, Progress, Undisturbed, [Next]_vars, moves' = 0
  PROVE  Ours /\ Undisturbed'
<1>0. /\ ThreadTypeOK /\ RespondsTypeOK /\ moves \in Nat /\ Batch \in Seq(Threads)
      /\ \A c \in RespondCalls : OperationOf[c] \in Operations
  BY RespondAssumption, ThreadAssumption DEF TypeOK, ThreadTypeOK
<1>1. ASSUME NEW c \in RespondCalls, StartRespond(c) \/ RespondStep(c)
      PROVE  Ours /\ Undisturbed'
  <2>1. /\ Ours /\ RespondsTypeOK' /\ Len(responds'[c].receipts) <= Len(Batch)
        /\ \A d \in RespondCalls \ {c} : responds'[d] = responds[d]
    BY <1>1, RespondTyped
  <2>2. ASSUME NEW d \in RespondCalls, NEW i \in 1..Len(responds[d].receipts), NEW id,
               id = responds[d].receipts[i]
        PROVE  First(Batch[i], OperationOf[d], id)'
    <3>1. First(Batch[i], OperationOf[d], id)
      BY <2>2 DEF Undisturbed
    <3>2. Batch[i] \in Threads
      <4>1. Len(responds[d].receipts) <= Len(Batch) /\ Len(responds[d].receipts) \in Nat
        BY <1>0 DEF Progress, RespondsTypeOK
      <4>2. QED
        BY <1>0, <4>1
    <3>3. QED
      BY <1>0, <2>1, <3>1, <3>2, FirstKept
  <2>3. responds'[c].receipts = responds[c].receipts \/ \E id \in Nat : Given(c, id)
    BY <1>1, ReceiptsMove
  <2>4. ASSUME NEW d \in RespondCalls, NEW i \in 1..Len(responds'[d].receipts), NEW id,
               id = responds'[d].receipts[i]
        PROVE  First(Batch[i], OperationOf[d], id)'
    <3>1. CASE responds'[d].receipts = responds[d].receipts
      BY <2>2, <2>4, <3>1
    <3>2. ASSUME NEW new \in Nat, Given(c, new), d = c
          PROVE  First(Batch[i], OperationOf[d], id)'
      <4>1. /\ Receipt(c, new) /\ UNCHANGED threadVars
            /\ OnlyReply(Item(c), OperationOf[c], new)
        BY <3>2 DEF Given
      <4>2. ASSUME NEW t \in Threads, t = Item(c)
            PROVE  First(t, OperationOf[c], new)'
        <5>1. PICK r \in replies[t] : Keyed(t, OperationOf[c]) = {r} /\ r.id = new
          BY <4>1, <4>2 DEF OnlyReply, Keyed
        <5>2. new <= new
          BY <3>2
        <5>3. First(t, OperationOf[c], new)
          BY <5>1, <5>2 DEF First
        <5>4. QED
          BY <1>0, <2>1, <5>3, FirstKept
      <4>3. /\ Len(responds'[c].receipts) = Len(responds[c].receipts) + 1
            /\ \A j \in 1..Len(responds[c].receipts) :
                 responds'[c].receipts[j] = responds[c].receipts[j]
            /\ responds'[c].receipts[Len(responds[c].receipts) + 1] = new
            /\ Len(responds[c].receipts) \in Nat
        BY <1>0, <4>1, ReceiptAdded DEF RespondsTypeOK
      <4>4. CASE i \in 1..Len(responds[c].receipts)
        BY <2>2, <2>4, <3>2, <4>3, <4>4
      <4>5. CASE i \notin 1..Len(responds[c].receipts)
        <5>1. i = Len(responds[c].receipts) + 1 /\ id = new
          BY <2>4, <3>2, <4>3, <4>5
        <5>2. Batch[i] = Item(c)
          BY <5>1 DEF Item
        <5>3. Batch[i] \in Threads
          BY <1>0, <2>1, <3>2, <4>3, <5>1
        <5>4. QED
          BY <3>2, <4>2, <5>1, <5>2, <5>3
      <4>6. QED
        BY <4>4, <4>5
    <3>3. QED
      BY <2>1, <2>3, <3>1, <3>2
  <2>5. QED
    BY <1>0, <2>1, <2>4, ThreadsUndisturbed DEF Undisturbed
<1>2. ASSUME Ours, UNCHANGED responds
      PROVE  Undisturbed'
  <2>1. ASSUME NEW d \in RespondCalls, NEW i \in 1..Len(responds[d].receipts), NEW id,
               id = responds[d].receipts[i]
        PROVE  First(Batch[i], OperationOf[d], id)'
    <3>1. First(Batch[i], OperationOf[d], id)
      BY <2>1 DEF Undisturbed
    <3>2. Batch[i] \in Threads
      <4>1. Len(responds[d].receipts) <= Len(Batch) /\ Len(responds[d].receipts) \in Nat
        BY <1>0 DEF Progress, RespondsTypeOK
      <4>2. QED
        BY <1>0, <4>1
    <3>3. QED
      BY <1>0, <1>2, <3>1, <3>2, FirstKept
  <2>2. QED
    BY <1>0, <1>2, <2>1, ThreadsUndisturbed DEF Undisturbed
<1>3. ASSUME NEW c \in ResolveCalls, (\E d \in RespondCalls : StartResolve(c, d)) \/ ResolveStep(c)
      PROVE  Ours
  BY <1>3, ResolveCases DEF StartResolve, Ours
<1>4. ~Others
  BY <1>0 DEF Others
<1>5. QED
  BY <1>1, <1>2, <1>3, <1>4 DEF Next, vars, RequestRespond, Ours

-----------------------------------------------------------------------------
(* Where, besides, the attempts of an operation follow one another.        *)

(* Steps of other operations, and steps that only resolve.                 *)
LEMMA InTurnOfOthers ==
  ASSUME RespondsTypeOK, Progress, NEW o \in Operations, InTurn(o),
         \A t \in Threads : Keyed(t, o)' = Keyed(t, o), resolved \subseteq resolved',
         \A c \in RespondCalls : OperationOf[c] = o => responds'[c] = responds[c]
  PROVE  InTurn(o)'
<1>1. \A t \in Threads : Single(t, o)'
  BY DEF InTurn, Single
<1>2. \A c, d \in RespondCalls :
        Running(c)' /\ Running(d)' /\ OperationOf[c] = o /\ OperationOf[d] = o => c = d
  BY DEF InTurn, Running
<1>3. \A t \in Threads : Refused(o, t) => Refused(o, t)'
  BY DEF Refused
<1>4. ASSUME NEW c \in RespondCalls, OperationOf[c] = o
      PROVE  /\ responds'[c].step # "invalid"
             /\ responds'[c].step \in {"check", "post"} => Keyed(Item(c), o)' = {}
             /\ responds'[c].step = "readback" =>
                  \E r \in Keyed(Item(c), o)' : r.id = responds'[c].comment
             /\ responds'[c].step = "conflict" => \E t \in Threads : Refused(o, t)'
             /\ \A d \in {d \in RespondCalls : OperationOf[d] = o} :
                  responds'[c].step = "conflict" /\ responds'[d].step = "post" =>
                    \E t \in Threads \ {Item(d)'} : Refused(o, t)'
  <2>1. \A d \in RespondCalls : OperationOf[d] = o => Item(d)' = Item(d)
    BY DEF Item
  <2>2. responds[c].step \in {"check", "post", "readback"} => Keyed(Item(c), o)' = Keyed(Item(c), o)
    <3>1. responds[c].step \in {"check", "post", "readback"} => Item(c) \in Threads
      BY ItemTaken DEF Running
    <3>2. ASSUME NEW t \in Threads, t = Item(c) PROVE Keyed(Item(c), o)' = Keyed(Item(c), o)
      <4>1. Item(c)' = t
        BY <1>4, <2>1, <3>2
      <4>2. Keyed(t, o)' = Keyed(t, o)
        OBVIOUS
      <4>3. QED
        BY <3>2, <4>1, <4>2 DEF Keyed
    <3>3. QED
      BY <3>1, <3>2
  <2>3. responds'[c] = responds[c]
    BY <1>4
  <2>4. /\ responds[c].step # "invalid"
        /\ responds[c].step \in {"check", "post"} => Keyed(Item(c), o) = {}
        /\ responds[c].step = "readback" =>
             \E r \in Keyed(Item(c), o) : r.id = responds[c].comment
        /\ responds[c].step = "conflict" => \E t \in Threads : Refused(o, t)
        /\ \A d \in {d \in RespondCalls : OperationOf[d] = o} :
             responds[c].step = "conflict" /\ responds[d].step = "post" =>
               \E t \in Threads \ {Item(d)} : Refused(o, t)
    BY <1>4 DEF InTurn
  <2>5. \A d \in {d \in RespondCalls : OperationOf[d] = o} :
          responds'[c].step = "conflict" /\ responds'[d].step = "post" =>
            \E t \in Threads \ {Item(d)'} : Refused(o, t)'
    BY <1>3, <2>1, <2>3, <2>4
  <2>6. QED
    BY <1>3, <2>2, <2>3, <2>4, <2>5
<1>5. QED
  BY <1>1, <1>2, <1>4 DEF InTurn

(* A step of the one attempt that runs.                                    *)
LEMMA InTurnOfOwn ==
  ASSUME NEW o \in Operations, NEW c \in RespondCalls, OperationOf[c] = o, InTurn(o),
         \A d \in RespondCalls \ {c} :
           OperationOf[d] = o => ~Running(d) /\ responds'[d] = responds[d],
         \A t \in Threads : Single(t, o)',
         responds'[c].step # "invalid",
         responds'[c].step \in {"check", "post"} => Keyed(Item(c), o)' = {},
         responds'[c].step = "readback" =>
           \E r \in Keyed(Item(c), o)' : r.id = responds'[c].comment,
         responds'[c].step = "conflict" => \E t \in Threads : Refused(o, t)',
         \A d \in RespondCalls \ {c} :
           OperationOf[d] = o /\ responds[d].step = "conflict" =>
             /\ \E t \in Threads : Refused(o, t)'
             /\ responds'[c].step = "post" => \E t \in Threads \ {Item(c)'} : Refused(o, t)'
  PROVE  InTurn(o)'
<1>1. \A d, e \in RespondCalls :
        Running(d)' /\ Running(e)' /\ OperationOf[d] = o /\ OperationOf[e] = o => d = e
  BY DEF Running
<1>2. ASSUME NEW d \in RespondCalls, OperationOf[d] = o, d # c
      PROVE  /\ responds'[d].step \notin {"invalid", "check", "post", "readback"}
             /\ responds'[d].step = "conflict" => \E t \in Threads : Refused(o, t)'
  BY <1>2 DEF InTurn, Running
<1>3. ASSUME NEW d \in RespondCalls, OperationOf[d] = o, NEW e \in RespondCalls, OperationOf[e] = o,
             responds'[d].step = "conflict", responds'[e].step = "post"
      PROVE  \E t \in Threads \ {Item(e)'} : Refused(o, t)'
  <2>1. e = c /\ d # c
    BY <1>2, <1>3
  <2>2. QED
    BY <1>3, <2>1
<1>4. QED
  BY <1>1, <1>2, <1>3 DEF InTurn

LEMMA ProvedOnly ==
  ASSUME ThreadTypeOK, Undisturbed, NEW t \in Threads, NEW o, Single(t, o)
  PROVE  /\ Proof(t, o).found # "conflict"
         /\ \A r \in Keyed(t, o) : Proof(t, o) = [found |-> "proof", id |-> r.id]
<1>1. \A r \in Keyed(t, o) : Keyed(t, o) = {r} /\ Proves(r)
  BY DEF Single, Undisturbed, Keyed
<1>2. QED
  BY <1>1, ProofCases

(* What InTurn says of the one attempt at work.                            *)
LEMMA AtWork ==
  ASSUME NEW o \in Operations, InTurn(o), NEW c \in RespondCalls, OperationOf[c] = o
  PROVE  /\ \A t \in Threads : Single(t, o)
         /\ responds[c].step # "invalid"
         /\ responds[c].step \in {"check", "post"} => Keyed(Item(c), o) = {}
         /\ responds[c].step = "readback" =>
              \E r \in Keyed(Item(c), o) : r.id = responds[c].comment
         /\ Running(c) =>
              \A d \in RespondCalls \ {c} : OperationOf[d] = o => ~Running(d)
         /\ \A d \in RespondCalls \ {c} :
              OperationOf[d] = o /\ responds[d].step = "conflict" =>
                /\ \E t \in Threads : Refused(o, t)
                /\ responds[c].step = "post" => \E t \in Threads \ {Item(c)} : Refused(o, t)
BY DEF InTurn

LEMMA StaysInTurn ==
  ASSUME TypeOK, Progress, Undisturbed, NEW o \in Operations, InTurn(o),
         NEW c \in RespondCalls, OperationOf[c] = o,
         RespondStep(c)
  PROVE  InTurn(o)'
<1>0. /\ ThreadTypeOK /\ RespondsTypeOK /\ pinned /\ Running(c)
      /\ Item(c) \in Threads
      /\ \A d \in RespondCalls \ {c} : responds'[d] = responds[d]
  BY RespondCases, RespondTyped, ItemTaken DEF TypeOK, Undisturbed
<1>1. /\ \A t \in Threads : Single(t, o)
      /\ responds[c].step \in {"check", "post"} => Keyed(Item(c), o) = {}
      /\ responds[c].step = "readback" =>
           \E r \in Keyed(Item(c), o) : r.id = responds[c].comment
      /\ \A d \in RespondCalls \ {c} : OperationOf[d] = o => ~Running(d)
      /\ \A d \in RespondCalls \ {c} :
           OperationOf[d] = o /\ responds[d].step = "conflict" =>
             /\ \E t \in Threads : Refused(o, t)
             /\ responds[c].step = "post" => \E t \in Threads \ {Item(c)} : Refused(o, t)
  BY <1>0, AtWork
<1>2. /\ RespondProof(c).found # "conflict"
      /\ \A r \in Keyed(Item(c), o) : RespondProof(c) = [found |-> "proof", id |-> r.id]
  BY <1>0, <1>1, ProvedOnly DEF RespondProof
<1>3. ASSUME UNCHANGED threadVars
      PROVE  /\ \A t \in Threads : Single(t, o)' /\ Keyed(t, o)' = Keyed(t, o)
             /\ \A t \in Threads : Refused(o, t)' <=> Refused(o, t)
  <2>1. replies' = replies /\ resolved' = resolved
    BY <1>3 DEF threadVars
  <2>2. QED
    BY <1>1, <2>1 DEF Keyed, Single, Refused
<1>4. ASSUME UNCHANGED threadVars, responds'[c].step \in {"find", "returned", "failed"}
      PROVE  InTurn(o)'
  BY <1>0, <1>1, <1>3, <1>4, InTurnOfOwn
<1>5. ASSUME NEW id \in Nat, Given(c, id) PROVE InTurn(o)'
  <2>1. UNCHANGED threadVars /\ responds'[c].step \in {"find", "returned"}
    BY <1>0, <1>5, ReceiptAdded DEF Given
  <2>2. QED
    BY <1>4, <2>1
<1>6. ASSUME UNCHANGED threadVars, RespondGoes(c, "failed") PROVE InTurn(o)'
  BY <1>0, <1>4, <1>6, Goes DEF RespondSteps
<1>7. ASSUME UNCHANGED threadVars, RespondGoes(c, "conflict"),
             ~pinned \/ RespondProof(c).found = "conflict"
               \/ (responds[c].step = "check" /\ Item(c) \in resolved)
      PROVE  InTurn(o)'
  <2>1. Refused(o, Item(c))
    BY <1>0, <1>1, <1>2, <1>7 DEF Refused
  <2>2. PICK t \in Threads : Refused(o, t)'
    BY <1>0, <1>3, <1>7, <2>1
  <2>3. responds'[c].step = "conflict"
    BY <1>0, <1>7, Goes DEF RespondSteps
  <2>4. QED
    BY <1>0, <1>1, <1>3, <1>7, <2>2, <2>3, InTurnOfOwn
<1>8. ASSUME UNCHANGED threadVars, RespondGoes(c, "check"), Keyed(Item(c), o) = {}
      PROVE  InTurn(o)'
  <2>1. responds'[c].step = "check" /\ Item(c)' = Item(c)
    BY <1>0, <1>8, Goes DEF RespondSteps, Item
  <2>2. Keyed(Item(c), o)' = {}
    BY <1>8, <2>1 DEF Keyed, threadVars
  <2>3. QED
    BY <1>0, <1>1, <1>3, <1>8, <2>1, <2>2, InTurnOfOwn
<1>9. ASSUME UNCHANGED threadVars, RespondGoes(c, "post"), responds[c].step = "check",
             Item(c) \notin resolved
      PROVE  InTurn(o)'
  <2>1. responds'[c].step = "post" /\ Item(c)' = Item(c)
    BY <1>0, <1>9, Goes DEF RespondSteps, Item
  <2>2. Keyed(Item(c), o)' = {}
    BY <1>1, <1>9, <2>1 DEF Keyed, threadVars
  <2>3. \A d \in RespondCalls \ {c} :
          OperationOf[d] = o /\ responds[d].step = "conflict" =>
            \E t \in Threads \ {Item(c)'} : Refused(o, t)'
    BY <1>1, <1>3, <1>9, <2>1 DEF Refused
  <2>4. QED
    BY <1>0, <1>1, <1>3, <1>9, <2>1, <2>2, <2>3, InTurnOfOwn
<1>10. ~(responds[c].step = "readback"
           /\ RespondProof(c) # [found |-> "proof", id |-> responds[c].comment])
  BY <1>1, <1>2
<1>11. ASSUME responds[c].step = "post", AddReply(Item(c), o),
              \/ RespondGoes(c, "failed")
              \/ responds' = [responds EXCEPT ![c].step = "readback",
                                              ![c].comment = posted[Item(c)] + 1]
       PROVE  InTurn(o)'
  <2>1. PICK t \in Threads : t = Item(c)
    BY <1>0
  <2>2. /\ responds'[c].step \in {"failed", "readback"}
        /\ responds'[c].step = "readback" => responds'[c].comment = posted[t] + 1
        /\ responds'[c].receipts = responds[c].receipts
    <3>1. CASE RespondGoes(c, "failed")
      BY <1>0, <3>1, Goes DEF RespondSteps
    <3>2. CASE responds' = [responds EXCEPT ![c].step = "readback",
                                            ![c].comment = posted[Item(c)] + 1]
      BY <1>0, <2>1, <3>2 DEF RespondsTypeOK
    <3>3. QED
      BY <1>11, <3>1, <3>2
  <2>3. Item(c)' = t
    BY <2>1, <2>2 DEF Item
  <2>4. AddComment(t, o, "actor") /\ resolved' = resolved
    BY <1>11, <2>1 DEF AddReply
  <2>5. /\ Keyed(t, o)' = {NewComment(t, o, "actor")}
        /\ \A u \in Threads \ {t} : Keyed(u, o)' = Keyed(u, o)
    <3>1. Keyed(t, o) = {}
      BY <1>1, <1>11, <2>1
    <3>2. QED
      BY <1>0, <2>4, <3>1, KeyedAfter
  <2>6. \A u \in Threads : Single(u, o)'
    BY <1>1, <2>5 DEF Single
  <2>7. responds'[c].step = "readback" =>
          \E r \in Keyed(Item(c), o)' : r.id = responds'[c].comment
    <3>1. NewComment(t, o, "actor").id = posted[t] + 1
      BY DEF NewComment
    <3>2. Keyed(Item(c), o)' = {NewComment(t, o, "actor")}
      BY <2>3, <2>5 DEF Keyed
    <3>3. QED
      BY <2>2, <3>1, <3>2
  <2>8. \A d \in RespondCalls \ {c} :
          OperationOf[d] = o /\ responds[d].step = "conflict" => \E u \in Threads : Refused(o, u)'
    BY <1>1, <1>11, <2>1, <2>4, <2>5 DEF Refused
  <2>9. QED
    BY <1>0, <1>1, <2>2, <2>6, <2>7, <2>8, InTurnOfOwn
<1>12. QED
  BY <1>5, <1>6, <1>7, <1>8, <1>9, <1>10, <1>11, RespondCases

LEMMA InTurnKept ==
  ASSUME TypeOK, Progress, Undisturbed, [Next]_vars, moves' = 0,
         NEW o \in Operations, o \notin overlapped', o \notin overlapped => InTurn(o)
  PROVE  InTurn(o)'
<1>0. /\ Ours /\ ThreadTypeOK /\ RespondsTypeOK /\ moves \in Nat
      /\ \A c \in RespondCalls : OperationOf[c] \in Operations
  BY StaysUndisturbed, RespondAssumption, ThreadAssumption DEF TypeOK, ThreadTypeOK
<1>1. InTurn(o)
  BY DEF Next, RequestRespond, vars
<1>2. ASSUME UNCHANGED threadVars, UNCHANGED responds PROVE InTurn(o)'
  <2>1. (\A t \in Threads : Keyed(t, o)' = Keyed(t, o)) /\ resolved \subseteq resolved'
    BY <1>2 DEF threadVars, Keyed
  <2>2. QED
    BY <1>0, <1>1, <1>2, <2>1, InTurnOfOthers
<1>3. ASSUME NEW t \in Threads, ResolveThread(t), UNCHANGED responds PROVE InTurn(o)'
  <2>1. (\A u \in Threads : Keyed(u, o)' = Keyed(u, o)) /\ resolved \subseteq resolved'
    BY <1>3 DEF ResolveThread, Keyed
  <2>2. QED
    BY <1>0, <1>1, <1>3, <2>1, InTurnOfOthers
<1>4. ASSUME NEW c \in RespondCalls, RequestRespond(c) PROVE InTurn(o)'
  <2>1. /\ responds[c].step = "idle" /\ RespondGoes(c, "find") /\ UNCHANGED threadVars
        /\ OperationOf[c] = o => \A d \in RespondCalls : OperationOf[d] = o => ~Running(d)
    BY <1>4 DEF RequestRespond, StartRespond
  <2>2. /\ responds'[c].step = "find"
        /\ \A d \in RespondCalls \ {c} : responds'[d] = responds[d]
    BY <1>0, <2>1, Goes DEF RespondSteps
  <2>3. /\ \A t \in Threads : Keyed(t, o)' = Keyed(t, o)
        /\ \A t \in Threads : Refused(o, t) => Refused(o, t)'
        /\ resolved \subseteq resolved'
    BY <2>1 DEF threadVars, Keyed, Refused
  <2>4. CASE OperationOf[c] # o
    <3>1. \A d \in RespondCalls : OperationOf[d] = o => responds'[d] = responds[d]
      BY <2>2, <2>4
    <3>2. QED
      BY <1>0, <1>1, <2>3, <3>1, InTurnOfOthers
  <2>5. CASE OperationOf[c] = o
    <3>1. \A t \in Threads : Single(t, o)'
      BY <1>1, <2>3 DEF InTurn, Single
    <3>2. \A d \in RespondCalls \ {c} :
            OperationOf[d] = o /\ responds[d].step = "conflict" => \E t \in Threads : Refused(o, t)'
      BY <1>1, <2>3, <2>5, AtWork
    <3>3. QED
      BY <1>1, <2>1, <2>2, <2>5, <3>1, <3>2, InTurnOfOwn
  <2>6. QED
    BY <2>4, <2>5
<1>5. ASSUME NEW c \in RespondCalls, RespondStep(c) PROVE InTurn(o)'
  <2>1. CASE OperationOf[c] = o
    BY <1>1, <1>5, <2>1, StaysInTurn
  <2>2. CASE OperationOf[c] # o
    <3>1. /\ \A d \in RespondCalls : OperationOf[d] = o => responds'[d] = responds[d]
          /\ Running(c)
      BY <1>5, <2>2, RespondTyped, RespondCases
    <3>2. UNCHANGED threadVars \/ AddReply(Item(c), OperationOf[c])
      BY <1>5, RespondCases DEF Given
    <3>3. (\A t \in Threads : Keyed(t, o)' = Keyed(t, o)) /\ resolved \subseteq resolved'
      <4>1. CASE UNCHANGED threadVars
        BY <4>1 DEF threadVars, Keyed
      <4>2. CASE AddReply(Item(c), OperationOf[c])
        <5>1. Item(c) \in Threads /\ OperationOf[c] \in Operations
          BY <1>0, <3>1, ItemTaken
        <5>2. AddComment(Item(c), OperationOf[c], "actor") /\ resolved' = resolved
          BY <4>2 DEF AddReply
        <5>3. QED
          BY <1>0, <2>2, <5>1, <5>2, KeyedAfter
      <4>3. QED
        BY <3>2, <4>1, <4>2
    <3>4. QED
      BY <1>0, <1>1, <3>1, <3>3, InTurnOfOthers
  <2>3. QED
    BY <2>1, <2>2
<1>6. ASSUME NEW c \in ResolveCalls, (\E d \in RespondCalls : StartResolve(c, d)) \/ ResolveStep(c)
      PROVE  UNCHANGED threadVars \/ \E t \in Threads : ResolveThread(t)
  BY <1>6, ResolveCases DEF StartResolve
<1>7. ~Others
  BY <1>0 DEF Others
<1>8. QED
  BY <1>2, <1>3, <1>4, <1>5, <1>6, <1>7 DEF Next, vars

-----------------------------------------------------------------------------
(* The invariant holds of every behaviour.                                 *)
THEOREM Invariant == Spec => []IInv
<1>1. Init => IInv
  <2> SUFFICES ASSUME Init PROVE IInv
    OBVIOUS
  <2>1. /\ \A c \in RespondCalls : responds[c] = [step |-> "idle", receipts |-> << >>, comment |-> 0]
        /\ \A c \in ResolveCalls : resolves[c] = [step |-> "idle", done |-> 0, of |-> "none"]
        /\ \A t \in Threads : replies[t] = {}
        /\ pinned /\ moves = 0 /\ overlapped = {}
    BY DEF Init, ThreadInit, RespondsInit, ResolvesInit
  <2>2. Len(Batch) \in Nat /\ MaxMoves \in Nat
    BY RespondAssumption, ThreadAssumption
  <2>3. ThreadTypeOK
    BY <2>2 DEF Init, ThreadInit, ThreadTypeOK
  <2>4. RespondsTypeOK /\ ResolvesTypeOK
    <3>1. << >> \in Seq(Nat)
      OBVIOUS
    <3>2. QED
      BY <2>2, <3>1 DEF Init, RespondsInit, ResolvesInit, RespondsTypeOK, ResolvesTypeOK,
                        RespondSteps, ResolveSteps
  <2>5. Progress
    BY <2>1, <2>2 DEF Progress, Running, Resolving
  <2>6. Undisturbed
    BY <2>1 DEF Undisturbed
  <2>7. ASSUME NEW o \in Operations PROVE InTurn(o)
    <3>1. \A t \in Threads : Single(t, o)
      BY <2>1 DEF Single, Keyed
    <3>2. \A c \in RespondCalls : responds[c].step = "idle"
      BY <2>1
    <3>3. QED
      BY <3>1, <3>2 DEF InTurn, Running
  <2>8. QED
    BY <2>1, <2>3, <2>4, <2>5, <2>6, <2>7 DEF IInv, TypeOK
<1>2. IInv /\ [Next]_vars => IInv'
  <2> SUFFICES ASSUME IInv, [Next]_vars PROVE IInv'
    OBVIOUS
  <2>1. TypeOK' /\ Progress' /\ moves <= moves' /\ moves \in Nat /\ moves' \in Nat
    BY Typed, ThreadAssumption DEF IInv, TypeOK, ThreadTypeOK
  <2>2. ASSUME moves' = 0
        PROVE  Undisturbed' /\ \A o \in Operations \ overlapped' : InTurn(o)'
    <3>1. Undisturbed /\ \A o \in Operations \ overlapped : InTurn(o)
      BY <2>1, <2>2 DEF IInv
    <3>2. Undisturbed'
      BY <2>2, <3>1, StaysUndisturbed DEF IInv
    <3>3. \A o \in Operations \ overlapped' : InTurn(o)'
      BY <2>2, <3>1, InTurnKept DEF IInv
    <3>4. QED
      BY <3>2, <3>3
  <2>3. QED
    BY <2>1, <2>2 DEF IInv
<1>3. QED
  BY <1>1, <1>2, PTL DEF Spec

(* Type correctness of the threads and of both clients.                    *)
THEOREM TypeCorrect == Spec => []TypeOK
BY Invariant, PTL DEF IInv

(* Attempts that follow one another reply once to every thread, wherever   *)
(* the earlier ones crashed, and are refused only by a resolved thread.    *)
THEOREM RetriesPostOnce == Spec => []RetryPostsOnce
<1>1. IInv => RetryPostsOnce
  <2> SUFFICES ASSUME IInv, moves = 0, NEW c \in RespondCalls, OperationOf[c] \notin overlapped
               PROVE  /\ \A t \in Threads : Cardinality(Keyed(t, OperationOf[c])) <= 1
                      /\ responds[c].step # "invalid"
                      /\ responds[c].step = "conflict" =>
                           \E t \in resolved : Keyed(t, OperationOf[c]) = {}
    BY DEF RetryPostsOnce
  <2>1. InTurn(OperationOf[c])
    BY RespondAssumption DEF IInv
  <2>2. ASSUME NEW t \in Threads PROVE Cardinality(Keyed(t, OperationOf[c])) <= 1
    <3>1. Single(t, OperationOf[c])
      BY <2>1 DEF InTurn
    <3>2. CASE Keyed(t, OperationOf[c]) = {}
      BY <3>2, FS_EmptySet
    <3>3. ASSUME NEW r \in Keyed(t, OperationOf[c])
          PROVE  Cardinality(Keyed(t, OperationOf[c])) <= 1
      <4>1. Keyed(t, OperationOf[c]) = {r}
        BY <3>1, <3>3 DEF Single
      <4>2. Cardinality({r}) = 1
        BY FS_Singleton
      <4>3. QED
        BY <4>1, <4>2
    <3>4. QED
      BY <3>2, <3>3
  <2>3. responds[c].step # "invalid"
    BY <2>1 DEF InTurn
  <2>4. responds[c].step = "conflict" => \E t \in resolved : Keyed(t, OperationOf[c]) = {}
    BY <2>1 DEF InTurn, Refused
  <2>5. QED
    BY <2>2, <2>3, <2>4
<1>2. QED
  BY <1>1, Invariant, PTL

(* No two attempts of one operation return different receipts, however     *)
(* they overlap.                                                           *)
THEOREM ReturnedAgree == Spec => []AttemptsAgree
<1>1. IInv => AttemptsAgree
  <2> SUFFICES ASSUME IInv, moves = 0, NEW c \in RespondCalls, NEW d \in RespondCalls,
                      responds[c].step = "returned", responds[d].step = "returned",
                      OperationOf[c] = OperationOf[d]
               PROVE  responds[c].receipts = responds[d].receipts
    BY DEF AttemptsAgree
  <2>1. /\ responds[c].receipts \in Seq(Nat) /\ responds[d].receipts \in Seq(Nat)
        /\ Len(responds[c].receipts) = Len(Batch) /\ Len(responds[d].receipts) = Len(Batch)
        /\ Batch \in Seq(Threads)
    BY RespondAssumption DEF IInv, TypeOK, RespondsTypeOK, Progress
  <2>2. ASSUME NEW i \in 1..Len(Batch)
        PROVE  responds[c].receipts[i] = responds[d].receipts[i]
    <3>1. PICK r \in Keyed(Batch[i], OperationOf[c]) :
            /\ r.id = responds[c].receipts[i]
            /\ \A s \in Keyed(Batch[i], OperationOf[c]) : responds[c].receipts[i] <= s.id
      BY <2>1 DEF IInv, Undisturbed, First
    <3>2. PICK s \in Keyed(Batch[i], OperationOf[c]) :
            /\ s.id = responds[d].receipts[i]
            /\ \A q \in Keyed(Batch[i], OperationOf[c]) : responds[d].receipts[i] <= q.id
      BY <2>1 DEF IInv, Undisturbed, First
    <3>3. responds[c].receipts[i] <= responds[d].receipts[i]
          /\ responds[d].receipts[i] <= responds[c].receipts[i]
      BY <3>1, <3>2
    <3>4. responds[c].receipts[i] \in Nat /\ responds[d].receipts[i] \in Nat
      BY <2>1
    <3>5. QED
      BY <3>3, <3>4
  <2>3. QED
    BY <2>1, <2>2, SeqEqual
<1>2. QED
  BY <1>1, Invariant, PTL

(* A receipt is true at the moment it is given, whatever others did: the   *)
(* reply is there, intact and alone, and a thread reported resolved is.    *)
THEOREM ReceiptsAreTrue == Spec => ReceiptsTrue
<1> DEFINE True ==
      /\ \A c \in RespondCalls : responds'[c].receipts # responds[c].receipts =>
           OnlyReply(Item(c), OperationOf[c], Last(responds'[c].receipts))
      /\ \A c \in ResolveCalls : resolves'[c].done > resolves[c].done =>
           /\ OnlyReply(ResolveItem(c), OperationOf[resolves[c].of], Replied(c))
           /\ ResolveItem(c) \in resolved
<1>1. IInv /\ [Next]_vars => [True]_vars
  <2> SUFFICES ASSUME IInv, Next PROVE True
    OBVIOUS
  <2>1. /\ TypeOK /\ Progress /\ RespondsTypeOK
        /\ \A c \in ResolveCalls : resolves[c].done \in Nat
    BY DEF IInv, TypeOK, ResolvesTypeOK
  <2>2. ASSUME NEW c \in RespondCalls, StartRespond(c) \/ RespondStep(c), UNCHANGED resolves
        PROVE  True
    <3>1. \A d \in RespondCalls \ {c} : responds'[d] = responds[d]
      BY <2>1, <2>2, RespondTyped
    <3>2. CASE responds'[c].receipts = responds[c].receipts
      BY <2>1, <2>2, <3>1, <3>2
    <3>3. ASSUME NEW id \in Nat, Given(c, id) PROVE True
      <4>1. /\ responds'[c].receipts[Len(responds'[c].receipts)] = id
            /\ OnlyReply(Item(c), OperationOf[c], id)
        BY <2>1, <3>3, ReceiptAdded DEF Given
      <4>2. Last(responds'[c].receipts) = id
        BY <4>1 DEF Last
      <4>3. QED
        BY <2>1, <2>2, <3>1, <4>1, <4>2
    <3>4. QED
      BY <2>1, <2>2, <3>2, <3>3, ReceiptsMove
  <2>3. ASSUME NEW c \in ResolveCalls, (\E d \in RespondCalls : StartResolve(c, d)) \/ ResolveStep(c),
               UNCHANGED responds
        PROVE  True
    <3>1. ASSUME NEW d \in RespondCalls, StartResolve(c, d) PROVE True
      <4>1. resolves'[c].done = 0 /\ \A e \in ResolveCalls \ {c} : resolves'[e] = resolves[e]
        BY <2>1, <3>1 DEF StartResolve, TypeOK, ResolvesTypeOK
      <4>2. QED
        BY <2>1, <2>3, <4>1
    <3>2. CASE ResolveStep(c)
      <4>1. /\ \A e \in ResolveCalls \ {c} : resolves'[e] = resolves[e]
            /\ resolves'[c].done > resolves[c].done => ProofVisible(c) /\ ResolveItem(c) \in resolved
        BY <2>1, <3>2, ResolveCases
      <4>2. ProofVisible(c) => OnlyReply(ResolveItem(c), OperationOf[resolves[c].of], Replied(c))
        BY SeenOnly DEF ProofVisible
      <4>3. QED
        BY <2>1, <2>3, <4>1, <4>2
    <3>3. QED
      BY <2>3, <3>1, <3>2
  <2>4. CASE Others /\ UNCHANGED <<responds, resolves>>
    BY <2>1, <2>4
  <2>5. QED
    BY <2>2, <2>3, <2>4 DEF Next, RequestRespond
<1>2. QED
  BY <1>1, Invariant, PTL DEF Spec, ReceiptsTrue

-----------------------------------------------------------------------------
(* What remains of "no duplicate write" when others are at work too.       *)

(* Of an operation whose attempts do not overlap at most one runs, and     *)
(* from its search to its post the thread has no comment of it: a comment  *)
(* can only be quoted where there is one.                                  *)
Searched(c) ==
  responds[c].step \in {"check", "post"} => Keyed(Item(c), OperationOf[c]) = {}

Alone(o) ==
  /\ \A c, d \in RespondCalls :
       Running(c) /\ Running(d) /\ OperationOf[c] = o /\ OperationOf[d] = o => c = d
  /\ \A c \in RespondCalls : OperationOf[c] = o => Searched(c)

AloneInv == \A o \in Operations \ overlapped : Alone(o)

LEMMA SearchedStill ==
  ASSUME TypeOK, Progress, NEW c \in RespondCalls, Searched(c), responds'[c] = responds[c],
         \A t \in Threads : Keyed(t, OperationOf[c]) = {} => Keyed(t, OperationOf[c])' = {}
  PROVE  Searched(c)'
<1> SUFFICES ASSUME responds[c].step \in {"check", "post"}
             PROVE  Keyed(Item(c), OperationOf[c])' = {}
  BY DEF Searched
<1>1. PICK t \in Threads : t = Item(c)
  BY ItemTaken DEF Running, TypeOK
<1>2. Item(c)' = t
  BY <1>1 DEF Item
<1>3. Keyed(t, OperationOf[c])' = {}
  BY <1>1 DEF Searched
<1>4. QED
  BY <1>2, <1>3 DEF Keyed

LEMMA OthersQuoteOnly ==
  ASSUME ThreadTypeOK, Others, NEW t \in Threads, NEW o \in Operations, Keyed(t, o) = {}
  PROVE  Keyed(t, o)' = {}
<1>1. CASE OthersResolve \/ OthersMove
  BY <1>1 DEF OthersResolve, OthersMove, Keyed
<1>2. CASE OthersComment
  <2>1. DOMAIN replies = Threads
    BY DEF ThreadTypeOK
  <2>2. CASE \E u \in Threads : \E r \in replies[u] : replies' = [replies EXCEPT ![u] = @ \ {r}]
    BY <2>1, <2>2 DEF Keyed
  <2>3. CASE \E u \in Threads : \E r \in replies[u] :
               replies' = [replies EXCEPT ![u] = (@ \ {r}) \union {[r EXCEPT !.intact = FALSE]}]
    <3>0. PICK u \in Threads : \E r \in replies[u] :
            replies' = [replies EXCEPT ![u] = (@ \ {r}) \union {[r EXCEPT !.intact = FALSE]}]
      BY <2>3
    <3>1. PICK r \in replies[u] :
            replies' = [replies EXCEPT ![u] = (@ \ {r}) \union {[r EXCEPT !.intact = FALSE]}]
      BY <3>0
    <3>2. r \in Comments
      BY DEF ThreadTypeOK
    <3>3. [r EXCEPT !.intact = FALSE].operation = r.operation
      BY <3>2 DEF Comments
    <3>4. CASE u = t
      <4>1. replies'[t] = (replies[t] \ {r}) \union {[r EXCEPT !.intact = FALSE]}
        BY <2>1, <3>1, <3>4
      <4>2. r.operation # o
        BY <3>4 DEF Keyed
      <4>3. QED
        BY <3>3, <4>1, <4>2 DEF Keyed
    <3>5. CASE u # t
      BY <2>1, <3>1, <3>5 DEF Keyed
    <3>6. QED
      BY <3>4, <3>5
  <2>4. CASE \E u \in Threads : \E p \in Operations : Keyed(u, p) # {} /\ AddComment(u, p, "other")
    <3>1. PICK u \in Threads, p \in Operations : Keyed(u, p) # {} /\ AddComment(u, p, "other")
      BY <2>4
    <3>2. u # t \/ p # o
      BY <3>1
    <3>3. QED
      BY <3>1, <3>2, KeyedAfter
  <2>5. QED
    BY <1>2, <2>2, <2>3, <2>4 DEF OthersComment
<1>3. QED
  BY <1>1, <1>2 DEF Others

LEMMA AloneKept ==
  ASSUME TypeOK, Progress, [Next]_vars, NEW o \in Operations, o \notin overlapped', AloneInv
  PROVE  Alone(o)'
<1>0. /\ overlapped \subseteq overlapped'
      /\ ThreadTypeOK /\ RespondsTypeOK
  BY DEF Next, RequestRespond, vars, TypeOK
<1>1. Alone(o)
  BY <1>0 DEF AloneInv
<1>2. ASSUME responds' = responds,
             \A t \in Threads : Keyed(t, o) = {} => Keyed(t, o)' = {}
      PROVE  Alone(o)'
  BY <1>1, <1>2, SearchedStill DEF Alone, Running
<1>3. CASE UNCHANGED vars
  BY <1>2, <1>3 DEF vars, threadVars, Keyed
<1>4. CASE Others /\ UNCHANGED <<responds, resolves, overlapped>>
  BY <1>0, <1>2, <1>4, OthersQuoteOnly
<1>5. ASSUME NEW e \in ResolveCalls, UNCHANGED <<responds, overlapped>>,
             (\E d \in RespondCalls : StartResolve(e, d)) \/ ResolveStep(e)
      PROVE  Alone(o)'
  <2>1. replies' = replies
    BY <1>5 DEF StartResolve, ResolveStep, ReadThread, Resolve, ResolveThread, ReadBackThread,
                ResolveFails, threadVars
  <2>2. QED
    BY <1>2, <1>5, <2>1 DEF Keyed
<1>6. ASSUME NEW c \in RespondCalls, RequestRespond(c) PROVE Alone(o)'
  <2>1. /\ responds'[c].step = "find" /\ replies' = replies
        /\ \A d \in RespondCalls \ {c} : responds'[d] = responds[d]
    BY <1>0, <1>6, Goes DEF RequestRespond, StartRespond, threadVars, RespondSteps
  <2>2. ASSUME OperationOf[c] = o, NEW d \in RespondCalls, OperationOf[d] = o PROVE ~Running(d)
    BY <1>6, <2>2 DEF RequestRespond
  <2>3. ASSUME NEW d \in RespondCalls, OperationOf[d] = o PROVE Searched(d)'
    <3>1. CASE d = c
      BY <2>1, <3>1 DEF Searched
    <3>2. CASE d # c
      BY <1>1, <2>1, <2>3, <3>2, SearchedStill DEF Alone, Keyed
    <3>3. QED
      BY <3>1, <3>2
  <2>4. QED
    BY <1>1, <2>1, <2>2, <2>3 DEF Alone, Running
<1>7. ASSUME NEW c \in RespondCalls, RespondStep(c) PROVE Alone(o)'
  <2>1. Running(c)
    BY <1>7, RespondCases
  <2>2. \A d \in RespondCalls \ {c} : responds'[d] = responds[d]
    BY <1>0, <1>7, RespondTyped DEF TypeOK
  <2>3. ASSUME NEW d \in RespondCalls \ {c}, OperationOf[d] = o PROVE Searched(d)'
    <3>1. CASE OperationOf[c] = o
      BY <1>1, <2>1, <2>2, <2>3, <3>1 DEF Alone, Running, Searched
    <3>2. CASE OperationOf[c] # o
      <4>1. \A t \in Threads : Keyed(t, o)' = Keyed(t, o)
        <5>1. CASE UNCHANGED threadVars
          BY <5>1 DEF threadVars, Keyed
        <5>2. CASE AddReply(Item(c), OperationOf[c])
          BY <1>0, <2>1, <3>2, <5>2, ItemTaken, KeyedAfter DEF AddReply
        <5>3. QED
          BY <1>7, <5>1, <5>2, RespondCases DEF Given
      <4>2. QED
        BY <1>1, <2>2, <2>3, <4>1, SearchedStill DEF Alone
    <3>3. QED
      BY <3>1, <3>2
  <2>4. ASSUME OperationOf[c] = o PROVE Searched(c)'
    <3>1. \/ responds'[c].step \notin {"check", "post"}
          \/ /\ UNCHANGED threadVars /\ responds'[c].receipts = responds[c].receipts
             /\ \/ Keyed(Item(c), o) = {}
                \/ responds[c].step = "check"
      <4>1. ASSUME NEW id \in Nat, Receipt(c, id) PROVE responds'[c].step \notin {"check", "post"}
        BY <1>0, <4>1, ReceiptAdded
      <4>2. ASSUME NEW step \in RespondSteps, RespondGoes(c, step)
            PROVE  responds'[c].step = step /\ responds'[c].receipts = responds[c].receipts
        BY <1>0, <4>2, Goes
      <4>3. ASSUME responds' = [responds EXCEPT ![c].step = "readback",
                                                ![c].comment = posted[Item(c)] + 1]
            PROVE  responds'[c].step = "readback"
        BY <1>0, <4>3 DEF RespondsTypeOK
      <4>4. {"failed", "conflict", "check", "post", "invalid"} \subseteq RespondSteps
        BY DEF RespondSteps
      <4>5. QED
        BY <1>7, <2>4, <4>1, <4>2, <4>3, <4>4, RespondCases DEF Given
    <3>2. Keyed(Item(c), o) = {} \/ responds[c].step # "check"
      BY <1>1, <2>4 DEF Alone, Searched
    <3>3. QED
      BY <2>4, <3>1, <3>2 DEF Searched, Keyed, Item, threadVars
  <2>5. \A d \in RespondCalls : OperationOf[d] = o => Searched(d)'
    BY <2>3, <2>4
  <2>6. \A d, e \in RespondCalls :
          Running(d)' /\ Running(e)' /\ OperationOf[d] = o /\ OperationOf[e] = o => d = e
    <3>1. \A d \in RespondCalls : Running(d)' => Running(d)
      BY <2>1, <2>2 DEF Running
    <3>2. QED
      BY <1>1, <3>1 DEF Alone
  <2>7. QED
    BY <2>5, <2>6 DEF Alone
<1>8. QED
  BY <1>3, <1>4, <1>5, <1>6, <1>7 DEF Next

(* An attempt posts only where no comment of its operation is.             *)
PostsWhereNone ==
  \A c \in RespondCalls :
    Post(c) /\ OperationOf[c] \notin overlapped => Keyed(Item(c), OperationOf[c]) = {}

(* Attempts of an operation that follow one another never post a reply     *)
(* beside a comment of it, whatever others delete, edit, quote, resolve or *)
(* push in between: a second reply is posted only after the first is gone. *)
THEOREM NoReplyBesideAnother == Spec => [][PostsWhereNone]_vars
<1>1. Init => AloneInv
  BY DEF Init, RespondsInit, AloneInv, Alone, Running, Searched
<1>2. IInv /\ AloneInv /\ [Next]_vars => AloneInv'
  BY AloneKept DEF IInv, AloneInv
<1>3. IInv /\ AloneInv /\ [Next]_vars => [PostsWhereNone]_vars
  <2> SUFFICES ASSUME AloneInv, NEW c \in RespondCalls, Post(c), OperationOf[c] \notin overlapped
               PROVE  Keyed(Item(c), OperationOf[c]) = {}
    BY DEF PostsWhereNone
  <2>1. OperationOf[c] \in Operations /\ responds[c].step = "post"
    BY RespondAssumption DEF Post
  <2>2. QED
    BY <2>1 DEF AloneInv, Alone, Searched
<1>4. QED
  BY <1>1, <1>2, <1>3, Invariant, PTL DEF Spec
=============================================================================
