----------------------------- MODULE GitProofs -----------------------------
(***************************************************************************)
(* Theorems about the git provider, for any operations and calls, any      *)
(* commits of others and any number of moves by them.                      *)
(*                                                                         *)
(* A head is the sequence of its commits.  The invariant says that, unless *)
(* somebody takes commits off the branch, every head the branch ever had   *)
(* is a prefix of the one it has; two heads of one commit are then equal.  *)
(***************************************************************************)
EXTENDS Git, TLAPS

(* What a commit call knows of the branch.                                 *)
CommitTrue(c) ==
  /\ commits[c].step = "show" => commits[c].head \in past.branch \ {NoHead, Base}
  /\ commits[c].step = "committed" =>
       /\ commits[c].head \in past.branch
       /\ Len(commits[c].head) = 1
       /\ commits[c].head[1].tree = ApprovedTree
       /\ commits[c].head[1].markers = {OperationOf[c]}
  /\ commits[c].step = "conflict" =>
       \E head \in past.branch : head \notin {NoHead, Base, OwnHead(c)}

PushTrue(p) ==
  pushes[p].step \in {"pushed", "already-published"} => pushes[p].head \in past.remote

(* Nothing is taken off the branch but by others.                          *)
BranchGrows ==
  ~rewritten => \A head \in past.branch : head # NoHead /\ IsPrefix(head, branch)

PastInv ==
  /\ DOMAIN past = {"branch", "remote"}
  /\ branch \in past.branch /\ remote \in past.remote

IInv ==
  /\ TypeOK /\ PastInv /\ BranchGrows
  /\ \A c \in CommitCalls : CommitTrue(c)
  /\ \A p \in PushCalls : PushTrue(p)

-----------------------------------------------------------------------------
(* Heads as sequences.                                                     *)

LEMMA PrefixReflexive ==
  ASSUME NEW S, NEW s \in Seq(S)
  PROVE  IsPrefix(s, s)
BY DEF IsPrefix

LEMMA PrefixExtended ==
  ASSUME NEW S, NEW s \in Seq(S), NEW t \in Seq(S), NEW e \in S, IsPrefix(s, t)
  PROVE  IsPrefix(s, Append(t, e))
BY DEF IsPrefix

(* Two prefixes of one length are one.                                     *)
LEMMA PrefixesAgree ==
  ASSUME NEW S, NEW s \in Seq(S), NEW t \in Seq(S), NEW u \in Seq(S),
         IsPrefix(s, u), IsPrefix(t, u), Len(s) = Len(t)
  PROVE  s = t
BY DEF IsPrefix

(* The head that a commit call writes.                                     *)
LEMMA OwnHeadMatches ==
  ASSUME NEW c \in CommitCalls
  PROVE  /\ OwnHead(c) \in Seq(Commits) /\ OwnHead(c) # Base
         /\ Matches(c, OwnHead(c))
BY CommitAssumption DEF OwnHead, OwnCommit, Matches, Commits, Base

LEMMA BaseIsPrefix ==
  ASSUME NEW s \in Seq(Commits)
  PROVE  IsPrefix(Base, s)
BY DEF IsPrefix, Base

LEMMA HeadsAreSequences == Base \in Heads /\ NoHead \in Heads /\ Base # NoHead
<1>1. Base \in Seq(Commits)
  BY DEF Base
<1>2. QED
  BY <1>1, RepositoryAssumption DEF Heads

-----------------------------------------------------------------------------
(* What a move of the branch has to leave true.                            *)

PastKept == past.branch \subseteq past'.branch /\ past.remote \subseteq past'.remote

RepositoryInv == RepositoryTypeOK /\ PastInv /\ BranchGrows

LEMMA BranchSet ==
  ASSUME RepositoryInv, NEW head \in Heads, SetBranch(head), remote' = remote,
         moves' \in 0 .. MaxMoves, rewritten' \in BOOLEAN,
         ~rewritten' => ~rewritten /\ head # NoHead /\ IsPrefix(head, head)
                        /\ \A old \in past.branch : IsPrefix(old, head)
  PROVE  RepositoryInv' /\ PastKept
<1>1. /\ DOMAIN past' = {"branch", "remote"}
      /\ past'.branch = past.branch \union {head} /\ past'.remote = past.remote /\ branch' = head
  BY DEF SetBranch, RepositoryInv, PastInv
<1>2. RepositoryTypeOK'
  BY <1>1 DEF RepositoryInv, RepositoryTypeOK
<1>3. PastInv' /\ PastKept
  BY <1>1 DEF RepositoryInv, PastInv, PastKept
<1>4. BranchGrows'
  BY <1>1 DEF RepositoryInv, BranchGrows
<1>5. QED
  BY <1>2, <1>3, <1>4 DEF RepositoryInv

LEMMA RemoteSet ==
  ASSUME RepositoryInv, NEW head \in Heads, SetRemote(head), branch' = branch,
         moves' \in 0 .. MaxMoves, rewritten' = rewritten
  PROVE  RepositoryInv' /\ PastKept /\ head \in past'.remote
<1>1. /\ DOMAIN past' = {"branch", "remote"}
      /\ past'.branch = past.branch /\ past'.remote = past.remote \union {head} /\ remote' = head
  BY DEF SetRemote, RepositoryInv, PastInv
<1>2. QED
  BY <1>1 DEF RepositoryInv, RepositoryTypeOK, PastInv, PastKept, BranchGrows

LEMMA RepositoryUnchanged ==
  ASSUME RepositoryInv, UNCHANGED repositoryVars
  PROVE  RepositoryInv' /\ PastKept
BY DEF RepositoryInv, RepositoryTypeOK, PastInv, PastKept, BranchGrows, repositoryVars

LEMMA OthersKeep ==
  ASSUME RepositoryInv, Others
  PROVE  RepositoryInv' /\ PastKept
<1>0. moves \in 0 .. MaxMoves /\ branch \in Heads /\ remote \in Heads /\ rewritten \in BOOLEAN
  BY DEF RepositoryInv, RepositoryTypeOK
<1>1. CASE OthersCommit
  <2>1. PICK e \in OtherCommits : SetBranch(Append(branch, e))
    BY <1>1 DEF OthersCommit
  <2>2. branch \in Seq(Commits) /\ e \in Commits /\ branch # NoHead
    BY <1>0, <1>1, RepositoryAssumption DEF OthersCommit, Heads
  <2>3. Append(branch, e) \in Seq(Commits) /\ Append(branch, e) # NoHead
    BY <2>2, RepositoryAssumption
  <2>4. ~rewritten => \A old \in past.branch : IsPrefix(old, Append(branch, e))
    <3> SUFFICES ASSUME ~rewritten, NEW old \in past.branch PROVE IsPrefix(old, Append(branch, e))
      OBVIOUS
    <3>1. old \in Seq(Commits) /\ IsPrefix(old, branch)
      BY DEF RepositoryInv, RepositoryTypeOK, BranchGrows, Heads
    <3>2. QED
      BY <2>2, <3>1, PrefixExtended
  <2>5. /\ moves' \in 0 .. MaxMoves /\ remote' = remote /\ rewritten' = rewritten
        /\ Append(branch, e) \in Heads
    BY <1>0, <1>1, <2>3, RepositoryAssumption DEF OthersCommit, Heads
  <2>6. IsPrefix(Append(branch, e), Append(branch, e))
    BY <2>3, PrefixReflexive
  <2>7. QED
    BY <1>0, <2>1, <2>3, <2>4, <2>5, <2>6, BranchSet
<1>2. CASE OthersRewrite
  <2>1. PICK head \in {NoHead, Base} \union {<<e>> : e \in OtherCommits} : SetBranch(head)
    BY <1>2 DEF OthersRewrite
  <2>2. head \in Heads
    <3>1. ASSUME NEW e \in OtherCommits PROVE <<e>> \in Seq(Commits)
      BY RepositoryAssumption
    <3>2. QED
      BY <3>1, HeadsAreSequences DEF Heads
  <2>3. moves' \in 0 .. MaxMoves /\ remote' = remote /\ rewritten' = TRUE
    BY <1>0, <1>2, RepositoryAssumption DEF OthersRewrite
  <2>4. QED
    BY <2>1, <2>2, <2>3, BranchSet
<1>3. CASE OthersPush \/ OthersReplaceRemote
  <2>1. PICK head \in Heads : SetRemote(head)
    <3>1. CASE OthersPush
      <4>1. remote \in Seq(Commits)
        BY <1>0, <3>1 DEF OthersPush, Heads
      <4>2. PICK e \in OtherCommits : SetRemote(Append(remote, e))
        BY <3>1 DEF OthersPush
      <4>3. Append(remote, e) \in Seq(Commits)
        BY <4>1, RepositoryAssumption
      <4>4. QED
        BY <4>2, <4>3 DEF Heads
    <3>2. CASE OthersReplaceRemote
      BY <3>2, HeadsAreSequences DEF OthersReplaceRemote
    <3>3. QED
      BY <1>3, <3>1, <3>2
  <2>2. moves' \in 0 .. MaxMoves /\ branch' = branch /\ rewritten' = rewritten
    BY <1>0, <1>3, RepositoryAssumption DEF OthersPush, OthersReplaceRemote
  <2>3. QED
    BY <2>1, <2>2, RemoteSet
<1>4. QED
  BY <1>1, <1>2, <1>3 DEF Others

-----------------------------------------------------------------------------
(* Calls that are not at work.                                             *)

LEMMA CommitsFrame ==
  ASSUME IInv, PastKept, UNCHANGED commits
  PROVE  CommitsTypeOK' /\ \A c \in CommitCalls : CommitTrue(c)'
<1>1. CommitsTypeOK'
  BY DEF IInv, TypeOK, CommitsTypeOK
<1>2. ASSUME NEW c \in CommitCalls PROVE CommitTrue(c)'
  BY DEF IInv, CommitTrue, PastKept
<1>3. QED
  BY <1>1, <1>2

LEMMA PushesFrame ==
  ASSUME IInv, PastKept, UNCHANGED pushes
  PROVE  PushesTypeOK' /\ \A p \in PushCalls : PushTrue(p)'
BY DEF IInv, TypeOK, PushesTypeOK, PushTrue, PastKept

LEMMA CommitMoves ==
  ASSUME IInv, PastKept, NEW c \in CommitCalls,
         NEW step \in {"update", "show", "committed", "conflict", "unavailable"},
         NEW head \in Heads, MoveTo(c, step, head),
         step = "show" => head \in past'.branch \ {NoHead, Base},
         step = "committed" => head \in past'.branch /\ Matches(c, head),
         step = "conflict" => \E h \in past'.branch : h \notin {NoHead, Base, OwnHead(c)}
  PROVE  CommitsTypeOK' /\ \A d \in CommitCalls : CommitTrue(d)'
<1>1. CommitsTypeOK'
  BY DEF IInv, TypeOK, CommitsTypeOK, MoveTo
<1>2. \A d \in CommitCalls :
        commits'[d] = IF d = c THEN [step |-> step, head |-> head] ELSE commits[d]
  BY DEF IInv, TypeOK, CommitsTypeOK, MoveTo
<1>3. ASSUME NEW d \in CommitCalls, d # c PROVE CommitTrue(d)'
  BY <1>2, <1>3 DEF IInv, CommitTrue, PastKept
<1>4. CommitTrue(c)'
  <2>1. commits'[c].step = step /\ commits'[c].head = head
    BY <1>2
  <2>2. QED
    BY <2>1 DEF CommitTrue, Matches
<1>5. QED
  BY <1>1, <1>3, <1>4

(* A commit call keeps the invariant.                                      *)
LEMMA CommitKeeps ==
  ASSUME IInv, NEW c \in CommitCalls, CommitStep(c)
  PROVE  /\ RepositoryInv' /\ PastKept /\ CommitsTypeOK'
         /\ \A d \in CommitCalls : CommitTrue(d)'
<1>0. /\ RepositoryInv /\ CommitTrue(c)
      /\ branch \in Heads /\ remote \in Heads /\ moves \in 0 .. MaxMoves /\ rewritten \in BOOLEAN
      /\ commits[c].head \in Heads
  BY DEF IInv, TypeOK, RepositoryInv, RepositoryTypeOK, CommitsTypeOK
<1>1. CASE ReadBranchHead(c)
  <2>1. RepositoryInv' /\ PastKept /\ branch \in past'.branch
    BY <1>0, <1>1, RepositoryUnchanged DEF ReadBranchHead, RepositoryInv, PastInv, repositoryVars
  <2>2. CASE branch = Base
    BY <1>0, <1>1, <2>1, <2>2, CommitMoves DEF ReadBranchHead
  <2>3. CASE branch # Base
    BY <1>0, <1>1, <2>1, <2>3, CommitMoves DEF ReadBranchHead
  <2>4. QED
    BY <2>2, <2>3
<1>2. CASE WriteCommit(c)
  <2>1. /\ branch = Base /\ SetBranch(OwnHead(c)) /\ UNCHANGED <<remote, moves, rewritten>>
    BY <1>2 DEF WriteCommit, UpdateRef
  <2>2. OwnHead(c) \in Heads /\ OwnHead(c) \in Seq(Commits) /\ OwnHead(c) # NoHead
    BY OwnHeadMatches, RepositoryAssumption DEF Heads
  <2>3. ~rewritten => \A old \in past.branch : IsPrefix(old, OwnHead(c))
    <3> SUFFICES ASSUME ~rewritten, NEW old \in past.branch PROVE IsPrefix(old, OwnHead(c))
      OBVIOUS
    <3>1. old \in Seq(Commits) /\ IsPrefix(old, Base)
      BY <1>0, <2>1 DEF RepositoryInv, RepositoryTypeOK, BranchGrows, Heads
    <3>2. IsPrefix(Base, Base) /\ Base \in Seq(Commits) /\ Len(old) = Len(Base)
      BY <3>1 DEF IsPrefix, Base
    <3>3. old = Base
      BY <3>1, <3>2, PrefixesAgree
    <3>4. QED
      BY <2>2, <3>3, BaseIsPrefix
  <2>4. RepositoryInv' /\ PastKept
    BY <1>0, <2>1, <2>2, <2>3, PrefixReflexive, BranchSet
  <2>5. OwnHead(c) \in past'.branch
    BY <1>0, <2>1 DEF SetBranch, RepositoryInv, PastInv
  <2>6. PICK step \in {"committed", "unavailable"}, head \in {OwnHead(c), NoHead} :
          /\ MoveTo(c, step, head) /\ (step = "committed" => head = OwnHead(c))
    BY <1>2 DEF WriteCommit
  <2>7. QED
    BY <2>2, <2>4, <2>5, <2>6, OwnHeadMatches, HeadsAreSequences, CommitMoves
<1>3. CASE ReconcileExistingCommit(c)
  <2>1. /\ RepositoryInv' /\ PastKept
        /\ commits[c].head \in past'.branch \ {NoHead, Base}
    BY <1>0, <1>3, RepositoryUnchanged DEF ReconcileExistingCommit, CommitTrue, PastKept
  <2>2. CASE Matches(c, commits[c].head)
    BY <1>0, <1>3, <2>1, <2>2, CommitMoves DEF ReconcileExistingCommit
  <2>3. CASE ~Matches(c, commits[c].head)
    <3>1. commits[c].head # OwnHead(c)
      BY <2>3, OwnHeadMatches
    <3>2. QED
      BY <1>3, <2>1, <2>3, <3>1, HeadsAreSequences, CommitMoves DEF ReconcileExistingCommit
  <2>4. QED
    BY <2>2, <2>3
<1>4. CASE CommitCommandFails(c)
  BY <1>0, <1>4, RepositoryUnchanged, HeadsAreSequences, CommitMoves DEF CommitCommandFails
<1>5. QED
  BY <1>1, <1>2, <1>3, <1>4 DEF CommitStep

LEMMA PushMoves ==
  ASSUME IInv, PastKept, NEW p \in PushCalls, NEW call,
         call \in [step : PushSteps, head : Heads, expected : Heads],
         pushes' = [pushes EXCEPT ![p] = call],
         call.step \in {"pushed", "already-published"} => call.head \in past'.remote
  PROVE  PushesTypeOK' /\ \A q \in PushCalls : PushTrue(q)'
<1>1. PushesTypeOK'
  BY DEF IInv, TypeOK, PushesTypeOK
<1>2. \A q \in PushCalls : pushes'[q] = IF q = p THEN call ELSE pushes[q]
  BY DEF IInv, TypeOK, PushesTypeOK
<1>3. QED
  BY <1>1, <1>2 DEF IInv, PushTrue, PastKept

(* A push call keeps the invariant.                                        *)
LEMMA PushKeeps ==
  ASSUME IInv, NEW p \in PushCalls, RequestPush(p) \/ PushStep(p)
  PROVE  /\ RepositoryInv' /\ PastKept /\ PushesTypeOK'
         /\ \A q \in PushCalls : PushTrue(q)'
<1>0. /\ RepositoryInv /\ remote \in past.remote /\ pushes[p].head \in Heads
      /\ pushes \in [PushCalls -> [step : PushSteps, head : Heads, expected : Heads]]
      /\ moves \in 0 .. MaxMoves
  BY DEF IInv, TypeOK, RepositoryInv, RepositoryTypeOK, PastInv, PushesTypeOK
<1>1. ASSUME UNCHANGED repositoryVars PROVE RepositoryInv' /\ PastKept
  BY <1>0, <1>1, RepositoryUnchanged
<1>2. ASSUME PastKept, NEW step \in PushSteps, GoTo(p, step),
             step \in {"pushed", "already-published"} => pushes[p].head \in past'.remote
      PROVE  PushesTypeOK' /\ \A q \in PushCalls : PushTrue(q)'
  <2> DEFINE call == [pushes[p] EXCEPT !.step = step]
  <2>1. pushes' = [pushes EXCEPT ![p] = call]
    BY <1>2 DEF GoTo
  <2>2. call \in [step : PushSteps, head : Heads, expected : Heads] /\ call.step = step
        /\ call.head = pushes[p].head
    BY <1>0
  <2> HIDE DEF call
  <2>3. QED
    BY <1>2, <2>1, <2>2, PushMoves
<1>3. ASSUME PastKept, Fail(p) PROVE PushesTypeOK' /\ \A q \in PushCalls : PushTrue(q)'
  <2> DEFINE call == [step |-> "unavailable", head |-> NoHead, expected |-> NoHead]
  <2>1. /\ pushes' = [pushes EXCEPT ![p] = call] /\ call.step = "unavailable"
        /\ call \in [step : PushSteps, head : Heads, expected : Heads]
    BY <1>3, HeadsAreSequences DEF Fail, PushSteps
  <2> HIDE DEF call
  <2>2. QED
    BY <1>3, <2>1, PushMoves
<1>4. CASE RequestPush(p)
  <2>1. PICK c \in CommitCalls, expected \in {NoHead, Base} : StartPush(p, commits[c].head, expected)
    BY <1>4 DEF RequestPush
  <2> DEFINE call == [step |-> "local", head |-> commits[c].head, expected |-> expected]
  <2>2. /\ pushes' = [pushes EXCEPT ![p] = call] /\ call.step = "local"
        /\ call \in [step : PushSteps, head : Heads, expected : Heads]
        /\ UNCHANGED repositoryVars
    BY <2>1, HeadsAreSequences DEF StartPush, PushSteps, IInv, TypeOK, CommitsTypeOK
  <2> HIDE DEF call
  <2>3. QED
    BY <1>1, <2>2, PushMoves
<1>5. CASE ReadLocalHead(p)
  BY <1>1, <1>2, <1>5 DEF ReadLocalHead, PushSteps
<1>6. CASE ReadRemoteHead(p)
  <2>1. RepositoryInv' /\ PastKept /\ past'.remote = past.remote
    BY <1>1, <1>6 DEF ReadRemoteHead, repositoryVars
  <2>2. PICK step \in {"already-published", "conflict", "push", "ancestry"} :
          GoTo(p, step) /\ (step = "already-published" => remote = pushes[p].head)
    BY <1>6 DEF ReadRemoteHead
  <2>3. QED
    BY <1>0, <1>2, <2>1, <2>2 DEF PushSteps
<1>7. CASE CheckAncestry(p)
  BY <1>1, <1>2, <1>7 DEF CheckAncestry, PushSteps
<1>8. CASE Push(p)
  <2>1. RepositoryInv' /\ PastKept
    BY <1>0, <1>8, RemoteSet DEF Push, PushRef
  <2>2. QED
    BY <1>2, <1>3, <1>8, <2>1 DEF Push, PushSteps
<1>9. CASE ConfirmRemoteHead(p)
  <2>1. RepositoryInv' /\ PastKept /\ past'.remote = past.remote
    BY <1>1, <1>9 DEF ConfirmRemoteHead, repositoryVars
  <2>2. PICK step \in {"pushed", "invalid"} :
          GoTo(p, step) /\ (step = "pushed" => remote = pushes[p].head)
    BY <1>9 DEF ConfirmRemoteHead
  <2>3. QED
    BY <1>0, <1>2, <2>1, <2>2 DEF PushSteps
<1>10. CASE PushCommandFails(p)
  BY <1>1, <1>3, <1>10 DEF PushCommandFails
<1>11. QED
  BY <1>4, <1>5, <1>6, <1>7, <1>8, <1>9, <1>10 DEF PushStep

-----------------------------------------------------------------------------
LEMMA Inductive == IInv /\ [Next]_vars => IInv'
<1> SUFFICES ASSUME IInv, [Next]_vars PROVE IInv'
  OBVIOUS
<1>0. RepositoryInv
  BY DEF IInv, TypeOK, RepositoryInv
<1>1. ASSUME NEW c \in CommitCalls, CommitStep(c), UNCHANGED pushes PROVE IInv'
  BY <1>1, CommitKeeps, PushesFrame DEF IInv, TypeOK, RepositoryInv
<1>2. ASSUME NEW p \in PushCalls, RequestPush(p) \/ PushStep(p), UNCHANGED commits PROVE IInv'
  BY <1>2, PushKeeps, CommitsFrame DEF IInv, TypeOK, RepositoryInv
<1>3. CASE Others /\ UNCHANGED <<commits, pushes>>
  BY <1>0, <1>3, OthersKeep, CommitsFrame, PushesFrame DEF IInv, TypeOK, RepositoryInv
<1>4. CASE UNCHANGED vars
  <2>1. RepositoryInv' /\ PastKept /\ UNCHANGED <<commits, pushes>>
    BY <1>0, <1>4, RepositoryUnchanged DEF vars
  <2>2. QED
    BY <2>1, CommitsFrame, PushesFrame DEF IInv, TypeOK, RepositoryInv
<1>5. QED
  BY <1>1, <1>2, <1>3, <1>4 DEF Next

-----------------------------------------------------------------------------
(* The invariant holds of every behaviour: the heads of an undisturbed     *)
(* branch are prefixes of one another, and calls know heads it had.        *)
THEOREM Invariant == Spec => []IInv
<1>1. Init => IInv
  <2> SUFFICES ASSUME Init PROVE IInv
    OBVIOUS
  <2>1. RepositoryTypeOK
    <3>1. /\ branch = Base /\ remote \in {NoHead, Base} /\ moves = 0 /\ rewritten = FALSE
          /\ past = [branch |-> {branch}, remote |-> {remote}]
      BY DEF Init, RepositoryInit
    <3>2. branch \in Heads /\ remote \in Heads
      BY <3>1, HeadsAreSequences
    <3>3. past \in [branch : SUBSET Heads, remote : SUBSET Heads]
      BY <3>1, <3>2
    <3>4. moves \in 0..MaxMoves
      BY <3>1, RepositoryAssumption
    <3>5. QED
      BY <3>1, <3>2, <3>3, <3>4 DEF RepositoryTypeOK
  <2>2. PastInv /\ BranchGrows
    <3>1. branch = Base /\ past = [branch |-> {branch}, remote |-> {remote}]
      BY DEF Init, RepositoryInit
    <3>2. Base \in Seq(Commits) /\ Base # NoHead
      BY HeadsAreSequences DEF Heads
    <3>3. IsPrefix(Base, Base)
      BY <3>2, PrefixReflexive
    <3>4. QED
      BY <3>1, <3>2, <3>3 DEF PastInv, BranchGrows
  <2>3. CommitsTypeOK /\ \A c \in CommitCalls : CommitTrue(c)
    BY HeadsAreSequences DEF Init, CommitsInit, CommitsTypeOK, Idle, CommitTrue
  <2>4. PushesTypeOK /\ \A p \in PushCalls : PushTrue(p)
    BY HeadsAreSequences DEF Init, PushesInit, PushesTypeOK, PushSteps, PushTrue
  <2>5. QED
    BY <2>1, <2>2, <2>3, <2>4 DEF IInv, TypeOK
<1>2. QED
  BY <1>1, Inductive, PTL DEF Spec

(* Type correctness of the git provider and the repository.                *)
THEOREM TypeCorrect == Spec => []TypeOK
BY Invariant, PTL DEF IInv

(* What commit and push report as done was done, by whichever attempt, and *)
(* whatever has moved since.                                               *)
THEOREM ResultsTrue == Spec => []AnswersTrue
<1>1. IInv => AnswersTrue
  BY DEF IInv, CommitTrue, PushTrue, AnswersTrue
<1>2. QED
  BY <1>1, Invariant, PTL

(* A commit is refused only where a commit of others had taken the branch. *)
THEOREM RefusedOnlyWhenOvertaken == Spec => []ConflictMeansOvertaken
<1>1. IInv => ConflictMeansOvertaken
  BY DEF IInv, CommitTrue, ConflictMeansOvertaken
<1>2. QED
  BY <1>1, Invariant, PTL

(* Of the operations that compete for one parent one wins, unless somebody *)
(* else takes commits off the branch.                                      *)
THEOREM OnlyOneWins == Spec => []OneWinner
<1>1. IInv => OneWinner
  <2> SUFFICES ASSUME IInv, ~rewritten, NEW c \in CommitCalls, NEW d \in CommitCalls,
                      commits[c].step = "committed", commits[d].step = "committed"
               PROVE  OperationOf[c] = OperationOf[d]
    BY DEF OneWinner
  <2>1. /\ commits[c].head \in past.branch /\ Len(commits[c].head) = 1
        /\ commits[c].head[1].markers = {OperationOf[c]}
        /\ commits[d].head \in past.branch /\ Len(commits[d].head) = 1
        /\ commits[d].head[1].markers = {OperationOf[d]}
    BY DEF IInv, CommitTrue
  <2>2. /\ branch \in Seq(Commits)
        /\ \A head \in past.branch : head \in Seq(Commits) /\ IsPrefix(head, branch)
    BY DEF IInv, BranchGrows, TypeOK, RepositoryTypeOK, PastInv, Heads
  <2>3. commits[c].head = commits[d].head
    BY <2>1, <2>2, PrefixesAgree
  <2>4. QED
    BY <2>1, <2>3
<1>2. QED
  BY <1>1, Invariant, PTL

(* No step of the provider takes a commit off the branch or the remote.    *)
THEOREM NothingLost == Spec => OthersWorkKept
<1>1. IInv /\ [Next]_vars =>
        [moves' = moves => FastForward(branch, branch') /\ FastForward(remote, remote')]_vars
  <2> SUFFICES ASSUME IInv, [Next]_vars, moves' = moves
               PROVE  FastForward(branch, branch') /\ FastForward(remote, remote')
    OBVIOUS
  <2>1. branch \in Heads /\ remote \in Heads /\ moves \in 0 .. MaxMoves
    BY DEF IInv, TypeOK, RepositoryTypeOK
  <2>2. \A head \in Heads : FastForward(head, head)
    BY PrefixReflexive DEF FastForward, Descends, Heads
  <2>3. \/ branch' = branch /\ remote' = remote
        \/ \E c \in CommitCalls : WriteCommit(c)
        \/ \E p \in PushCalls : Push(p)
    <3>1. ~Others
      BY <2>1 DEF Others, OthersCommit, OthersRewrite, OthersPush, OthersReplaceRemote
    <3>2. QED
      BY <3>1 DEF Next, vars, repositoryVars, CommitStep, ReadBranchHead, ReconcileExistingCommit,
                  CommitCommandFails, RequestPush, StartPush, PushStep, ReadLocalHead, ReadRemoteHead,
                  CheckAncestry, ConfirmRemoteHead, PushCommandFails
  <2>4. ASSUME NEW c \in CommitCalls, WriteCommit(c)
        PROVE  FastForward(branch, branch') /\ FastForward(remote, remote')
    <3>1. branch = Base /\ branch' = OwnHead(c) /\ remote' = remote
      BY <2>4 DEF WriteCommit, UpdateRef, SetBranch
    <3>2. OwnHead(c) \in Seq(Commits) /\ OwnHead(c) # NoHead
      BY OwnHeadMatches, RepositoryAssumption
    <3>3. QED
      BY <2>1, <2>2, <3>1, <3>2, BaseIsPrefix, HeadsAreSequences DEF FastForward, Descends
  <2>5. ASSUME NEW p \in PushCalls, Push(p)
        PROVE  FastForward(branch, branch') /\ FastForward(remote, remote')
    BY <2>1, <2>2, <2>5 DEF Push, PushRef, SetRemote
  <2>6. QED
    BY <2>1, <2>2, <2>3, <2>4, <2>5
<1>2. QED
  BY <1>1, Invariant, PTL DEF Spec, OthersWorkKept

-----------------------------------------------------------------------------
(* Where nobody else moves a ref: the branch takes one commit at most, the *)
(* remote goes from what it was to the branch, and no push that expects    *)
(* what it was is refused.                                                 *)

Published == {branch} \ {Base}

(* What the remote was at first, and the branch since then.                *)
RemoteMovedOnce ==
  \E first \in {NoHead, Base} : past.remote \subseteq {first} \union Published

PushExpected(p) ==
  pushes[p].step \notin {"idle", "unavailable"} =>
    /\ pushes[p].head = branch /\ branch # Base
    /\ pushes[p].expected \in {NoHead, Base}
    /\ pushes[p].step = "ancestry" => pushes[p].expected = Base
    /\ pushes[p].step = "confirm" => remote = branch
    /\ pushes[p].step \in {"conflict", "invalid"} => pushes[p].expected \notin past.remote

Quiet == ~rewritten /\ branch # NoHead /\ Len(branch) <= 1 /\ RemoteMovedOnce

QuietInv == moves = 0 => Quiet /\ \A p \in PushCalls : PushExpected(p)

(* A push call at work, where nobody else is.                              *)
LEMMA PushStaysQuiet ==
  ASSUME IInv, Quiet, \A q \in PushCalls : PushExpected(q),
         NEW p \in PushCalls, RequestPush(p) \/ PushStep(p)
  PROVE  Quiet' /\ \A q \in PushCalls : PushExpected(q)'
<1>0. /\ pushes \in [PushCalls -> [step : PushSteps, head : Heads, expected : Heads]]
      /\ branch \in Seq(Commits) /\ branch # NoHead /\ remote \in past.remote
      /\ DOMAIN past = {"branch", "remote"}
      /\ Base # NoHead /\ Base \in Heads /\ NoHead \in Heads
  BY HeadsAreSequences DEF IInv, TypeOK, PushesTypeOK, RepositoryTypeOK, Heads, PastInv, Quiet
<1>1. ASSUME UNCHANGED repositoryVars PROVE Quiet'
  BY <1>1 DEF Quiet, RemoteMovedOnce, Published, repositoryVars
<1>2. ASSUME NEW call, pushes' = [pushes EXCEPT ![p] = call], UNCHANGED repositoryVars,
             \/ call.step = "unavailable"
             \/ /\ call.head = branch /\ branch # Base /\ call.expected \in {NoHead, Base}
                /\ call.step = "ancestry" => call.expected = Base
                /\ call.step = "confirm" => remote = branch
                /\ call.step \in {"conflict", "invalid"} => call.expected \notin past.remote
      PROVE  Quiet' /\ \A q \in PushCalls : PushExpected(q)'
  <2>1. \A q \in PushCalls : pushes'[q] = IF q = p THEN call ELSE pushes[q]
    BY <1>0, <1>2
  <2>2. QED
    BY <1>1, <1>2, <2>1 DEF PushExpected, repositoryVars
<1>3. ASSUME NEW step \in PushSteps, GoTo(p, step), UNCHANGED repositoryVars,
             pushes[p].step \notin {"idle", "unavailable"},
             step = "ancestry" => pushes[p].expected = Base,
             step = "confirm" => remote = branch,
             step \in {"conflict", "invalid"} => pushes[p].expected \notin past.remote
      PROVE  Quiet' /\ \A q \in PushCalls : PushExpected(q)'
  <2> DEFINE call == [pushes[p] EXCEPT !.step = step]
  <2>1. pushes' = [pushes EXCEPT ![p] = call]
    BY <1>3 DEF GoTo
  <2>2. call.step = step /\ call.head = pushes[p].head /\ call.expected = pushes[p].expected
    BY <1>0
  <2> HIDE DEF call
  <2>3. QED
    BY <1>2, <1>3, <2>1, <2>2 DEF PushExpected
<1>4. ASSUME Fail(p), UNCHANGED repositoryVars
      PROVE  Quiet' /\ \A q \in PushCalls : PushExpected(q)'
  <2> DEFINE call == [step |-> "unavailable", head |-> NoHead, expected |-> NoHead]
  <2>1. pushes' = [pushes EXCEPT ![p] = call] /\ call.step = "unavailable"
    BY <1>4 DEF Fail
  <2> HIDE DEF call
  <2>2. QED
    BY <1>2, <1>4, <2>1
<1>5. pushes[p].step \notin {"idle", "unavailable"} =>
        /\ pushes[p].head = branch /\ branch # Base /\ pushes[p].expected \in {NoHead, Base}
        /\ pushes[p].step = "ancestry" => pushes[p].expected = Base
        /\ pushes[p].step = "confirm" => remote = branch
  BY DEF PushExpected
<1>6. CASE RequestPush(p)
  <2>1. PICK c \in CommitCalls, expected \in {NoHead, Base} :
          commits[c].step = "committed" /\ StartPush(p, commits[c].head, expected)
    BY <1>6 DEF RequestPush
  <2>2. commits[c].head = branch /\ branch # Base
    <3>1. /\ commits[c].head \in past.branch /\ Len(commits[c].head) = 1
          /\ commits[c].head # NoHead /\ IsPrefix(commits[c].head, branch)
      BY <2>1 DEF IInv, CommitTrue, BranchGrows, Quiet
    <3>2. commits[c].head \in Seq(Commits)
      BY <3>1 DEF IInv, TypeOK, CommitsTypeOK, Heads
    <3>3. Len(branch) = 1
      <4>1. Len(commits[c].head) <= Len(branch)
        BY <3>1 DEF IsPrefix
      <4>2. Len(branch) \in Nat /\ Len(branch) <= 1
        BY <1>0 DEF Quiet
      <4>3. 1 <= Len(branch)
        BY <3>1, <4>1
      <4>4. \A n \in Nat : n <= 1 /\ 1 <= n => n = 1
        OBVIOUS
      <4>5. QED
        BY <4>2, <4>3, <4>4, Zenon
    <3>4. IsPrefix(branch, branch)
      BY <1>0, PrefixReflexive
    <3>5. commits[c].head = branch
      BY <1>0, <3>1, <3>2, <3>3, <3>4, PrefixesAgree
    <3>6. Len(Base) # 1
      BY DEF Base
    <3>7. branch # Base
      BY <3>3, <3>6, Zenon
    <3>8. QED
      BY <3>5, <3>7
  <2> DEFINE call == [step |-> "local", head |-> commits[c].head, expected |-> expected]
  <2>3. /\ pushes' = [pushes EXCEPT ![p] = call] /\ UNCHANGED repositoryVars
        /\ call.step = "local" /\ call.head = branch /\ call.expected \in {NoHead, Base}
    BY <2>1, <2>2 DEF StartPush
  <2> HIDE DEF call
  <2>4. QED
    BY <1>2, <2>2, <2>3
<1>7. CASE ReadLocalHead(p)
  <2>1. /\ pushes[p].step = "local" /\ UNCHANGED repositoryVars
        /\ GoTo(p, IF branch = pushes[p].head THEN "remote" ELSE "conflict")
    BY <1>7 DEF ReadLocalHead
  <2>2. GoTo(p, "remote")
    BY <1>5, <2>1
  <2>3. QED
    BY <1>3, <2>1, <2>2 DEF PushSteps
<1>8. CASE ReadRemoteHead(p)
  <2>1. /\ pushes[p].step = "remote" /\ UNCHANGED repositoryVars
        /\ pushes[p].head = branch /\ branch # Base /\ pushes[p].expected \in {NoHead, Base}
    BY <1>5, <1>8 DEF ReadRemoteHead
  <2>2. PICK step \in {"already-published", "conflict", "push", "ancestry"} :
          /\ GoTo(p, step)
          /\ step = "conflict" => remote # pushes[p].head /\ remote # pushes[p].expected
          /\ step = "ancestry" => remote = pushes[p].expected /\ remote # NoHead
    BY <1>8 DEF ReadRemoteHead
  <2>3. step = "conflict" => pushes[p].expected \notin past.remote
    BY <1>0, <2>1, <2>2 DEF Quiet, RemoteMovedOnce, Published
  <2>4. QED
    BY <1>3, <2>1, <2>2, <2>3 DEF PushSteps
<1>9. CASE CheckAncestry(p)
  <2>1. /\ pushes[p].step = "ancestry" /\ UNCHANGED repositoryVars
        /\ pushes[p].head = branch /\ pushes[p].expected = Base
        /\ GoTo(p, IF Descends(pushes[p].expected, pushes[p].head) THEN "push" ELSE "conflict")
    BY <1>5, <1>9 DEF CheckAncestry
  <2>2. Descends(Base, branch)
    BY <1>0, BaseIsPrefix DEF Descends
  <2>3. GoTo(p, "push")
    BY <2>1, <2>2
  <2>4. QED
    BY <1>3, <2>1, <2>3 DEF PushSteps
<1>10. CASE Push(p)
  <2>1. /\ pushes[p].step = "push" /\ pushes[p].head = branch /\ branch # Base
        /\ remote' = branch /\ branch' = branch /\ rewritten' = rewritten
        /\ past' = [past EXCEPT !.remote = @ \union {branch}]
    BY <1>5, <1>10 DEF Push, PushRef, SetRemote
  <2>2. past'.remote = past.remote \union {branch}
    BY <1>0, <2>1
  <2>3. Quiet'
    BY <2>1, <2>2 DEF Quiet, RemoteMovedOnce, Published
  <2>4. \A q \in PushCalls : q # p => pushes'[q] = pushes[q]
    BY <1>0, <1>10 DEF Push, GoTo, Fail
  <2>5. /\ pushes'[p].step \in {"confirm", "unavailable"}
        /\ pushes'[p].step = "confirm" =>
             pushes'[p].head = pushes[p].head /\ pushes'[p].expected = pushes[p].expected
    <3>1. CASE GoTo(p, "confirm")
      BY <1>0, <3>1 DEF GoTo
    <3>2. CASE Fail(p)
      BY <1>0, <3>2 DEF Fail
    <3>3. QED
      BY <1>10, <3>1, <3>2 DEF Push
  <2>6. PushExpected(p)'
    BY <1>5, <2>1, <2>5 DEF PushExpected
  <2>7. ASSUME NEW q \in PushCalls, q # p PROVE PushExpected(q)'
    <3>1. pushes'[q] = pushes[q]
      BY <2>4, <2>7
    <3>2. PushExpected(q)
      OBVIOUS
    <3>3. QED
      BY <1>0, <2>1, <2>2, <3>1, <3>2 DEF PushExpected
  <2>8. QED
    BY <2>3, <2>6, <2>7
<1>11. CASE ConfirmRemoteHead(p)
  <2>1. /\ pushes[p].step = "confirm" /\ UNCHANGED repositoryVars
        /\ GoTo(p, IF remote = pushes[p].head THEN "pushed" ELSE "invalid")
    BY <1>11 DEF ConfirmRemoteHead
  <2>2. GoTo(p, "pushed")
    BY <1>5, <2>1
  <2>3. QED
    BY <1>3, <2>1, <2>2 DEF PushSteps
<1>12. CASE PushCommandFails(p)
  BY <1>4, <1>12 DEF PushCommandFails
<1>13. QED
  BY <1>6, <1>7, <1>8, <1>9, <1>10, <1>11, <1>12 DEF PushStep

(* A commit call takes the branch before any push is asked for.            *)
LEMMA CommitStaysQuiet ==
  ASSUME IInv, Quiet, \A q \in PushCalls : PushExpected(q), UNCHANGED pushes,
         NEW c \in CommitCalls, CommitStep(c)
  PROVE  Quiet' /\ \A q \in PushCalls : PushExpected(q)'
<1>1. CASE WriteCommit(c)
  <2>1. /\ branch = Base /\ branch' = OwnHead(c) /\ remote' = remote /\ rewritten' = rewritten
        /\ past' = [past EXCEPT !.branch = @ \union {OwnHead(c)}]
    BY <1>1 DEF WriteCommit, UpdateRef, SetBranch
  <2>2. past'.remote = past.remote
    BY <2>1 DEF IInv, PastInv
  <2>3. OwnHead(c) # NoHead /\ Len(OwnHead(c)) = 1
    BY OwnHeadMatches, RepositoryAssumption DEF Matches
  <2>4. Quiet'
    BY <2>1, <2>2, <2>3 DEF Quiet, RemoteMovedOnce, Published
  <2>5. \A q \in PushCalls : pushes[q].step \in {"idle", "unavailable"}
    BY <2>1 DEF PushExpected
  <2>6. QED
    BY <2>4, <2>5 DEF PushExpected
<1>2. CASE UNCHANGED repositoryVars
  BY <1>2 DEF Quiet, RemoteMovedOnce, Published, PushExpected, repositoryVars
<1>3. QED
  BY <1>1, <1>2 DEF CommitStep, ReadBranchHead, ReconcileExistingCommit, CommitCommandFails

(* Nobody else has moved a ref after a step, and so before it.             *)
LEMMA StillQuiet ==
  ASSUME IInv, [Next]_vars, moves' = 0
  PROVE  moves = 0 /\ ~Others
<1>1. moves \in Nat /\ ~Others
  BY RepositoryAssumption
  DEF IInv, TypeOK, RepositoryTypeOK, Others, OthersCommit, OthersRewrite, OthersPush,
      OthersReplaceRemote
<1>2. QED
  BY <1>1 DEF Next, vars, repositoryVars, CommitStep, ReadBranchHead, WriteCommit,
      ReconcileExistingCommit, CommitCommandFails, RequestPush, StartPush, PushStep, ReadLocalHead,
      ReadRemoteHead, CheckAncestry, Push, ConfirmRemoteHead, PushCommandFails

LEMMA QuietInitially == Init => QuietInv
<1> SUFFICES ASSUME Init PROVE QuietInv
  OBVIOUS
<1>1. /\ branch = Base /\ remote \in {NoHead, Base} /\ ~rewritten
      /\ past = [branch |-> {branch}, remote |-> {remote}]
      /\ \A p \in PushCalls : pushes[p].step = "idle"
  BY DEF Init, RepositoryInit, PushesInit
<1>2. Len(Base) = 0
  BY DEF Base
<1>3. QED
  BY <1>1, <1>2, HeadsAreSequences
  DEF QuietInv, Quiet, RemoteMovedOnce, Published, PushExpected

LEMMA QuietKept == IInv /\ QuietInv /\ [Next]_vars => QuietInv'
<1> SUFFICES ASSUME IInv, QuietInv, [Next]_vars, moves' = 0
             PROVE  Quiet' /\ \A p \in PushCalls : PushExpected(p)'
  BY DEF QuietInv
<1>1. moves = 0 /\ ~Others
  BY StillQuiet
<1>2. Quiet /\ \A p \in PushCalls : PushExpected(p)
  BY <1>1 DEF QuietInv
<1>3. CASE UNCHANGED vars
  BY <1>2, <1>3 DEF Quiet, RemoteMovedOnce, Published, PushExpected, vars, repositoryVars
<1>4. QED
  BY <1>1, <1>2, <1>3, PushStaysQuiet, CommitStaysQuiet DEF Next

(* Left alone, no push that expects what the remote was is refused, or     *)
(* told of a head it cannot confirm, before, beside or after others.       *)
THEOREM PushesSucceed == Spec => []UndisturbedPushSucceeds
<1>1. QuietInv => UndisturbedPushSucceeds
  BY DEF QuietInv, PushExpected, UndisturbedPushSucceeds
<1>2. QED
  BY <1>1, QuietInitially, QuietKept, Invariant, PTL DEF Spec

-----------------------------------------------------------------------------
(* The lease that the push card promises and git is not asked for.         *)

(* From its read of the remote on, what a push would replace is what it    *)
(* expects, unless a push beside it has published the same head.           *)
Leased(p) ==
  pushes[p].step \in {"ancestry", "push"} => remote \in {pushes[p].expected, branch}

LeaseInv == moves = 0 => \A p \in PushCalls : Leased(p)

LEMMA LeaseKept == IInv /\ QuietInv /\ LeaseInv /\ [Next]_vars => LeaseInv'
<1> SUFFICES ASSUME IInv, QuietInv, LeaseInv, [Next]_vars, moves' = 0,
                    NEW q \in PushCalls
             PROVE  Leased(q)'
  BY DEF LeaseInv
<1>1. moves = 0 /\ ~Others
  BY StillQuiet
<1>2. Leased(q) /\ \A p \in PushCalls : PushExpected(p)
  BY <1>1 DEF QuietInv, LeaseInv
<1>3. pushes \in [PushCalls -> [step : PushSteps, head : Heads, expected : Heads]]
  BY DEF IInv, TypeOK, PushesTypeOK
<1>4. CASE UNCHANGED vars
  BY <1>2, <1>4 DEF Leased, vars, repositoryVars
<1>5. ASSUME NEW c \in CommitCalls, CommitStep(c), UNCHANGED pushes PROVE Leased(q)'
  <2>1. CASE UNCHANGED repositoryVars
    BY <1>2, <1>5, <2>1 DEF Leased, repositoryVars
  <2>2. CASE WriteCommit(c)
    <3>1. branch = Base
      BY <2>2 DEF WriteCommit, UpdateRef
    <3>2. pushes[q].step \in {"idle", "unavailable"}
      BY <1>2, <3>1 DEF PushExpected
    <3>3. QED
      BY <1>5, <3>2 DEF Leased
  <2>3. QED
    BY <1>5, <2>1, <2>2 DEF CommitStep, ReadBranchHead, ReconcileExistingCommit, CommitCommandFails
<1>6. ASSUME NEW p \in PushCalls, Push(p) PROVE Leased(q)'
  BY <1>2, <1>6 DEF Push, PushRef, SetRemote, PushExpected, Leased
<1>7. ASSUME NEW p \in PushCalls, RequestPush(p) \/ PushStep(p), UNCHANGED repositoryVars
      PROVE  Leased(q)'
  <2>1. ASSUME p # q PROVE pushes'[q] = pushes[q]
    BY <1>3, <1>7, <2>1
    DEF RequestPush, StartPush, PushStep, ReadLocalHead, ReadRemoteHead, CheckAncestry, Push,
        ConfirmRemoteHead, PushCommandFails, GoTo, Fail
  <2>2. CASE p = q /\ ReadRemoteHead(p)
    BY <1>3, <1>7, <2>2 DEF ReadRemoteHead, GoTo, Leased, repositoryVars
  <2>3. CASE p = q /\ CheckAncestry(p)
    BY <1>2, <1>3, <1>7, <2>3 DEF CheckAncestry, GoTo, Leased, repositoryVars
  <2>4. CASE p = q /\ ~ReadRemoteHead(p) /\ ~CheckAncestry(p)
    <3>1. pushes'[q].step \notin {"ancestry", "push"}
      BY <1>3, <1>7, <2>4
      DEF RequestPush, StartPush, PushStep, ReadLocalHead, Push, ConfirmRemoteHead,
          PushCommandFails, GoTo, Fail
    <3>2. QED
      BY <3>1 DEF Leased
  <2>5. QED
    BY <1>2, <1>7, <2>1, <2>2, <2>3, <2>4 DEF Leased, repositoryVars
<1>8. QED
  BY <1>1, <1>4, <1>5, <1>6, <1>7
  DEF Next, RequestPush, StartPush, PushStep, ReadLocalHead, ReadRemoteHead, CheckAncestry,
      ConfirmRemoteHead, PushCommandFails

(* The lease of the push card, where nobody else has moved a ref.          *)
LeaseUndisturbed ==
  [][moves' = 0 => \A p \in PushCalls :
       Push(p) /\ remote' # remote => remote = pushes[p].expected]_vars

(* It is only somebody else's move of the ref that lets a push replace a   *)
(* remote head it did not expect: pushes and commits of the provider,      *)
(* whatever their number and order, never do that to each other.           *)
THEOREM LeaseHeldUndisturbed == Spec => LeaseUndisturbed
<1>1. Init => LeaseInv
  BY DEF Init, PushesInit, LeaseInv, Leased
<1>2. IInv /\ QuietInv /\ LeaseInv /\ [Next]_vars =>
        [moves' = 0 => \A p \in PushCalls :
           Push(p) /\ remote' # remote => remote = pushes[p].expected]_vars
  <2> SUFFICES ASSUME IInv, QuietInv, LeaseInv, [Next]_vars, moves' = 0,
                      NEW p \in PushCalls, Push(p), remote' # remote
               PROVE  remote = pushes[p].expected
    OBVIOUS
  <2>1. Leased(p) /\ PushExpected(p)
    BY StillQuiet DEF QuietInv, LeaseInv
  <2>2. QED
    BY <2>1 DEF Leased, PushExpected, Push, PushRef, SetRemote
<1>3. QED
  BY <1>1, <1>2, QuietInitially, QuietKept, LeaseKept, Invariant, PTL DEF Spec, LeaseUndisturbed
=============================================================================
