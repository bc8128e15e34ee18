--------------------------- MODULE GitRepository ---------------------------
(***************************************************************************)
(* One branch of a local clone and the branch of the same name at its      *)
(* remote: what the git provider reads and moves with git commands.        *)
(*                                                                         *)
(* git names a commit by its content, its ancestors included, so a head is *)
(* the sequence of the commits on top of Base.  Of a commit the models keep*)
(* its tree, the operation markers of its message and whether its author   *)
(* is the one an operation prescribes.  Everybody else who moves a ref     *)
(* (a person, another tool, a server-side hook) is the environment.        *)
(***************************************************************************)
EXTENDS Naturals, Sequences, FiniteSets, SequencesExt

CONSTANTS
  Operations,    \* execution ids; a marker is the digest of one
  Trees,         \* contents of a commit or of a working tree
  OtherCommits,  \* commits made by anyone else
  NoHead,        \* the ref does not exist
  MaxMoves       \* bound: moves by anyone else

Commits == [tree : Trees, markers : SUBSET Operations, author : {"pinned", "other"}]

ASSUME RepositoryAssumption ==
  /\ OtherCommits \subseteq {c \in Commits : c.author = "other"}
  /\ NoHead \notin Seq(Commits)
  /\ MaxMoves \in Nat

VARIABLES
  branch,     \* refs/heads/<branch> of the clone
  remote,     \* refs/heads/<branch> of the remote
  moves,      \* moves made by anyone else
  rewritten,  \* somebody else took commits off the local branch
  past        \* every head either branch ever had

repositoryVars == <<branch, remote, moves, rewritten, past>>

Base == << >>
Heads == {NoHead} \union Seq(Commits)

Descends(old, new) == old # NoHead /\ new # NoHead /\ IsPrefix(old, new)

(* No commit of the old head is lost: what a ref update without force is.  *)
FastForward(old, new) == old = NoHead \/ Descends(old, new)

RepositoryTypeOK ==
  /\ branch \in Heads /\ remote \in Heads
  /\ moves \in 0 .. MaxMoves
  /\ rewritten \in BOOLEAN
  /\ past.branch \subseteq Heads /\ past.remote \subseteq Heads

RepositoryInit ==
  /\ branch = Base
  /\ remote \in {NoHead, Base}
  /\ moves = 0 /\ rewritten = FALSE
  /\ past = [branch |-> {branch}, remote |-> {remote}]

SetBranch(head) ==
  /\ branch' = head
  /\ past' = [past EXCEPT !.branch = @ \union {head}]

SetRemote(head) ==
  /\ remote' = head
  /\ past' = [past EXCEPT !.remote = @ \union {head}]

-----------------------------------------------------------------------------
(* External: git update-ref <ref> <new> <old>, and git push without force. *)

\* Mutant: update-ref without the old value.
UpdateRefBlindly(old, new) == branch # NoHead /\ SetBranch(new)

UpdateRef(old, new) == branch = old /\ SetBranch(new)

(* The remote is compared with what the push itself saw of it, never with  *)
(* what a caller saw earlier.                                              *)
PushRef(new) == FastForward(remote, new) /\ SetRemote(new)

-----------------------------------------------------------------------------
(* Everybody else.                                                         *)

OthersCommit ==
  /\ moves < MaxMoves /\ moves' = moves + 1
  /\ branch # NoHead
  /\ \E c \in OtherCommits : SetBranch(Append(branch, c))
  /\ UNCHANGED <<remote, rewritten>>

OthersRewrite ==
  /\ moves < MaxMoves /\ moves' = moves + 1
  /\ rewritten' = TRUE
  /\ \E head \in {NoHead, Base} \union {<<c>> : c \in OtherCommits} :
       head # branch /\ SetBranch(head)
  /\ UNCHANGED remote

OthersPush ==
  /\ moves < MaxMoves /\ moves' = moves + 1
  /\ remote # NoHead
  /\ \E c \in {c \in OtherCommits : c.markers = {}} : SetRemote(Append(remote, c))
  /\ UNCHANGED <<branch, rewritten>>

OthersReplaceRemote ==
  /\ moves < MaxMoves /\ moves' = moves + 1
  /\ \E head \in {NoHead, Base} : head # remote /\ SetRemote(head)
  /\ UNCHANGED <<branch, rewritten>>

Others ==
  OthersCommit \/ OthersRewrite \/ OthersPush \/ OthersReplaceRemote
=============================================================================
