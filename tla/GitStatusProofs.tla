-------------------------- MODULE GitStatusProofs --------------------------
(***************************************************************************)
(* Theorems about git/status for any number of executions, any branch and  *)
(* workspace, and any number of moves and edits by others: what a result   *)
(* that the pinned captures let through says, and what it takes for its    *)
(* changed paths to be of another moment than its captures.                *)
(***************************************************************************)
EXTENDS GitStatus, TLAPS

Reading(s) == statuses[s].step \in {"rev-parse", "capture", "compare", "observed"}
BaseRead(s) == statuses[s].step \in {"capture", "compare", "observed"}
TreeRead(s) == statuses[s].step \in {"compare", "observed"}

(* Everything a call has read was so when it was read.                     *)
ReadTrue(s) ==
  /\ Reading(s) => statuses[s].paths[1] \in past.branch
  /\ BaseRead(s) => statuses[s].base \in past.branch \ {NoHead}
  /\ statuses[s].step = "observed" =>
       statuses[s].base = PinnedBase /\ statuses[s].tree = PinnedTree

PastInv == DOMAIN past = {"branch", "remote"} /\ branch \in past.branch

(* Where nobody else is at work, the reads are of what is there.           *)
ReadNow(s) ==
  /\ Reading(s) => statuses[s].paths = Difference(branch, workspace)
  /\ BaseRead(s) => statuses[s].base = branch
  /\ TreeRead(s) => statuses[s].tree = workspace

IInv ==
  /\ TypeOK /\ PastInv
  /\ \A s \in StatusCalls : ReadTrue(s)
  /\ moves = 0 => \A s \in StatusCalls : ReadNow(s)

-----------------------------------------------------------------------------

LEMMA Initially ==
  ASSUME PinnedTree \in Trees, Init
  PROVE  IInv
<1>1. Base \in Heads /\ NoHead \in Heads
  BY DEF Heads, Base
<1>2. RepositoryTypeOK
  <2>1. /\ branch = Base /\ remote \in {NoHead, Base} /\ moves = 0 /\ rewritten = FALSE
        /\ past = [branch |-> {branch}, remote |-> {remote}]
    BY DEF Init, RepositoryInit
  <2>2. branch \in Heads /\ remote \in Heads
    BY <1>1, <2>1
  <2>3. past.branch \subseteq Heads /\ past.remote \subseteq Heads
    BY <2>1, <2>2
  <2>4. moves \in 0 .. MaxMoves
    BY <2>1, RepositoryAssumption
  <2>5. QED
    BY <2>1, <2>2, <2>3, <2>4 DEF RepositoryTypeOK
<1>3. TypeOK
  BY <1>1, <1>2 DEF Init, TypeOK, StatusSteps, Difference
<1>4. \A s \in StatusCalls : statuses[s].step = "idle"
  BY DEF Init
<1>5. PastInv
  BY DEF Init, RepositoryInit, PastInv
<1>6. QED
  BY <1>3, <1>4, <1>5 DEF IInv, ReadTrue, ReadNow, Reading, BaseRead, TreeRead

(* A step of an execution.                                                 *)
LEMMA StatusKeeps ==
  ASSUME IInv, NEW s \in StatusCalls, StatusStep(s)
  PROVE  IInv'
<1>0. /\ statuses \in [StatusCalls ->
           [step : StatusSteps, paths : Heads \X Trees, base : Heads, tree : Trees]]
      /\ branch \in Heads /\ workspace \in Trees /\ branch \in past.branch
      /\ UNCHANGED <<branch, remote, moves, rewritten, past, workspace>>
  BY DEF IInv, TypeOK, RepositoryTypeOK, PastInv, StatusStep, repositoryVars
<1>1. ASSUME NEW t \in StatusCalls, t # s PROVE statuses'[t] = statuses[t]
  BY <1>0, <1>1
  DEF StatusStep, ReadChangedPaths, ReadBaseCommit, CaptureTree, ComparePinned, StatusCommandFails
<1>2. /\ statuses' \in [StatusCalls ->
           [step : StatusSteps, paths : Heads \X Trees, base : Heads, tree : Trees]]
      /\ ReadTrue(s)'
      /\ moves = 0 => ReadNow(s)'
  <2>0. ReadTrue(s) /\ (moves = 0 => ReadNow(s))
    BY DEF IInv
  <2>1. CASE ReadChangedPaths(s)
    <3>1. Difference(branch, workspace) \in Heads \X Trees /\ Difference(branch, workspace)[1] = branch
      BY <1>0 DEF Difference
    <3> HIDE DEF Difference
    <3>2. QED
      BY <1>0, <2>1, <3>1
      DEF ReadChangedPaths, StatusSteps, ReadTrue, ReadNow, Reading, BaseRead, TreeRead
  <2>2. CASE ReadBaseCommit(s)
    BY <1>0, <2>0, <2>2
    DEF ReadBaseCommit, StatusSteps, ReadTrue, ReadNow, Reading, BaseRead, TreeRead
  <2>3. CASE CaptureTree(s)
    BY <1>0, <2>0, <2>3
    DEF CaptureTree, StatusSteps, ReadTrue, ReadNow, Reading, BaseRead, TreeRead
  <2>4. CASE ComparePinned(s)
    BY <1>0, <2>0, <2>4
    DEF ComparePinned, StatusSteps, ReadTrue, ReadNow, Reading, BaseRead, TreeRead
  <2>5. CASE StatusCommandFails(s)
    BY <1>0, <2>0, <2>5
    DEF StatusCommandFails, StatusSteps, ReadTrue, ReadNow, Reading, BaseRead, TreeRead
  <2>6. QED
    BY <2>1, <2>2, <2>3, <2>4, <2>5 DEF StatusStep
<1>3. TypeOK' /\ PastInv'
  BY <1>0, <1>2 DEF IInv, TypeOK, RepositoryTypeOK, PastInv
<1>4. \A t \in StatusCalls : ReadTrue(t)' /\ (moves' = 0 => ReadNow(t)')
  <2> SUFFICES ASSUME NEW t \in StatusCalls, t # s
               PROVE  ReadTrue(t)' /\ (moves' = 0 => ReadNow(t)')
    BY <1>0, <1>2
  <2>1. ReadTrue(t) /\ (moves = 0 => ReadNow(t))
    BY DEF IInv
  <2>2. QED
    BY <1>0, <1>1, <2>1 DEF ReadTrue, ReadNow, Reading, BaseRead, TreeRead
<1>5. QED
  BY <1>3, <1>4 DEF IInv

(* A move of a ref, or an edit of the working tree, by anyone else.        *)
LEMMA OthersKeep ==
  ASSUME IInv, \/ Others /\ UNCHANGED <<workspace, statuses>>
               \/ OthersEdit
  PROVE  IInv'
<1>0. /\ branch \in Heads /\ remote \in Heads /\ past.branch \subseteq Heads
      /\ past.remote \subseteq Heads /\ moves \in 0 .. MaxMoves /\ rewritten \in BOOLEAN
      /\ DOMAIN past = {"branch", "remote"} /\ branch \in past.branch
      /\ statuses' = statuses
  BY DEF IInv, TypeOK, RepositoryTypeOK, PastInv, OthersEdit
<1>1. moves' = moves + 1 /\ moves' \in 0 .. MaxMoves
  BY <1>0, RepositoryAssumption
  DEF Others, OthersCommit, OthersRewrite, OthersPush, OthersReplaceRemote, OthersEdit
<1>2. \A head \in Seq(Commits), c \in Commits : Append(head, c) \in Seq(Commits)
  OBVIOUS
<1>3. /\ NoHead \in Heads /\ Base \in Heads
      /\ \A c \in OtherCommits : <<c>> \in Heads
      /\ \A head \in Heads \ {NoHead}, c \in OtherCommits : Append(head, c) \in Heads
  BY <1>2, RepositoryAssumption DEF Heads, Base
<1>4. /\ RepositoryTypeOK' /\ workspace' \in Trees
      /\ DOMAIN past' = {"branch", "remote"} /\ branch' \in past'.branch
      /\ past.branch \subseteq past'.branch
  <2>1. CASE \E head \in Heads : SetBranch(head) /\ remote' = remote /\ rewritten' \in BOOLEAN
                                 /\ workspace' = workspace
    <3>1. PICK head \in Heads : SetBranch(head) /\ remote' = remote /\ rewritten' \in BOOLEAN
                                /\ workspace' = workspace
      BY <2>1
    <3>2. /\ DOMAIN past' = {"branch", "remote"} /\ branch' = head
          /\ past'.branch = past.branch \union {head} /\ past'.remote = past.remote
      BY <1>0, <3>1 DEF SetBranch
    <3>3. QED
      BY <1>0, <1>1, <3>1, <3>2 DEF RepositoryTypeOK, IInv, TypeOK
  <2>2. CASE \E head \in Heads : SetRemote(head) /\ UNCHANGED <<branch, rewritten, workspace>>
    <3>1. PICK head \in Heads : SetRemote(head) /\ UNCHANGED <<branch, rewritten, workspace>>
      BY <2>2
    <3>2. /\ DOMAIN past' = {"branch", "remote"} /\ remote' = head
          /\ past'.branch = past.branch /\ past'.remote = past.remote \union {head}
      BY <1>0, <3>1 DEF SetRemote
    <3>3. QED
      BY <1>0, <1>1, <3>1, <3>2 DEF RepositoryTypeOK, IInv, TypeOK
  <2>3. CASE OthersEdit
    BY <1>0, <1>1, <2>3 DEF OthersEdit, RepositoryTypeOK
  <2>4. CASE OthersCommit /\ UNCHANGED <<workspace, statuses>>
    BY <1>0, <1>3, <2>1, <2>4 DEF OthersCommit
  <2>5. CASE OthersRewrite /\ UNCHANGED <<workspace, statuses>>
    BY <1>0, <1>3, <2>1, <2>5 DEF OthersRewrite
  <2>6. CASE OthersPush /\ UNCHANGED <<workspace, statuses>>
    BY <1>0, <1>3, <2>2, <2>6 DEF OthersPush
  <2>7. CASE OthersReplaceRemote /\ UNCHANGED <<workspace, statuses>>
    BY <1>0, <1>3, <2>2, <2>7 DEF OthersReplaceRemote
  <2>8. QED
    BY <2>3, <2>4, <2>5, <2>6, <2>7 DEF Others
<1>5. TypeOK' /\ PastInv'
  BY <1>0, <1>4 DEF IInv, TypeOK, PastInv
<1>6. \A s \in StatusCalls : ReadTrue(s)'
  BY <1>0, <1>4 DEF IInv, ReadTrue, Reading, BaseRead
<1>7. moves' # 0
  BY <1>0, <1>1
<1>8. QED
  BY <1>5, <1>6, <1>7 DEF IInv

(* What a call has read was so, and is so as long as nobody else works.    *)
THEOREM Invariant ==
  ASSUME PinnedTree \in Trees
  PROVE  Spec => []IInv
<1>1. IInv /\ UNCHANGED vars => IInv'
  BY DEF IInv, TypeOK, RepositoryTypeOK, PastInv, ReadTrue, ReadNow, Reading, BaseRead, TreeRead,
         vars, repositoryVars
<1>2. IInv /\ [Next]_vars => IInv'
  BY <1>1, StatusKeeps, OthersKeep DEF Next
<1>3. QED
  BY <1>2, Initially, PTL DEF Spec

-----------------------------------------------------------------------------
(* Type correctness of the repository, the workspace and the executions.   *)
THEOREM TypeCorrect ==
  ASSUME PinnedTree \in Trees
  PROVE  Spec => []TypeOK
<1>1. IInv => TypeOK
  BY DEF IInv
<1>2. QED
  BY <1>1, Invariant, PTL

(* A result is of the pinned captures, and both heads it is made from were *)
(* heads of the branch: the comparison that the handler makes fails closed *)
(* on the captures, if not on the paths.                                   *)
ResultsPinned ==
  \A s \in StatusCalls : statuses[s].step = "observed" =>
    /\ statuses[s].base = PinnedBase /\ statuses[s].tree = PinnedTree
    /\ PinnedBase \in past.branch \ {NoHead}
    /\ statuses[s].paths[1] \in past.branch

THEOREM PinnedCapturesObserved ==
  ASSUME PinnedTree \in Trees
  PROVE  Spec => []ResultsPinned
<1>1. IInv => ResultsPinned
  BY DEF IInv, ReadTrue, ResultsPinned, Reading, BaseRead
<1>2. QED
  BY <1>1, Invariant, PTL

(* It takes a move of the branch or an edit by someone else for a result   *)
(* to mix two captures: the reads and the comparison themselves, and other *)
(* executions beside them, never do.                                       *)
THEOREM OneCaptureUndisturbed ==
  ASSUME PinnedTree \in Trees
  PROVE  Spec => [](moves = 0 => StatusIsOneCapture)
<1>1. IInv => (moves = 0 => StatusIsOneCapture)
  BY DEF IInv, ReadTrue, ReadNow, StatusIsOneCapture, Reading, BaseRead, TreeRead
<1>2. QED
  BY <1>1, Invariant, PTL
=============================================================================
