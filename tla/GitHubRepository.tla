------------------------- MODULE GitHubRepository -------------------------
(***************************************************************************)
(* What the pull-request clients read and write at GitHub: the source      *)
(* branch and the pull requests opened from it, and everybody else who     *)
(* works on them.  GitHub itself is external: its rules are those the      *)
(* clients rely on.                                                        *)
(*                                                                         *)
(* A text stands for the title, base branch and business body of a pull    *)
(* request, which is what its providerRevision is the digest of, and what  *)
(* holds its issue reference.  A marker stands for the two comment lines   *)
(* of a managed body: it names an operation and, by digest, all that the   *)
(* operation asked for, so two operations never have the same one.         *)
(* checks is the verdict on the required checks of the head, unresolved    *)
(* the threads that are neither resolved nor outdated.                     *)
(***************************************************************************)
EXTENDS Naturals, Sequences, FiniteSets

CONSTANTS
  Shas,         \* heads of the source branch
  NoSha,        \* the branch does not exist
  Pinned,       \* the head every request is about
  Texts,        \* titles and business bodies
  Approved,     \* the text every request asks for
  Operations,   \* executions of the upsert script
  NoMarker,     \* the body is not a managed one
  Threads,      \* review threads people may open
  MaxPulls,     \* bound: pull requests opened
  MaxMoves      \* bound: moves by anyone else

ASSUME GitHubAssumption ==
  /\ Pinned \in Shas /\ NoSha \notin Shas
  /\ Approved \in Texts
  /\ NoMarker \notin Operations
  /\ MaxPulls \in Nat /\ MaxMoves \in Nat

VARIABLES
  source,  \* head of the source branch
  pulls,   \* the pull requests, by number
  moves    \* moves made by anyone else

githubVars == <<source, pulls, moves>>

Verdicts == {"success", "pending", "failure"}

PullRequests ==
  [head : Shas, text : Texts, marker : Operations \union {NoMarker},
   draft : BOOLEAN, mergeable : BOOLEAN, state : {"open", "closed", "merged"},
   checks : Verdicts, unresolved : SUBSET Threads]

Numbers == DOMAIN pulls

Open == {n \in Numbers : pulls[n].state = "open"}

GitHubTypeOK ==
  /\ source \in Shas \union {NoSha}
  /\ pulls \in Seq(PullRequests)
  /\ moves \in 0 .. MaxMoves

GitHubInit == source = Pinned /\ pulls = << >> /\ moves = 0

-----------------------------------------------------------------------------
(* External: the requests that change something, where GitHub accepts them.*)

(* POST: one open pull request per pair of branches, at the live head.     *)
PostPull(text, marker, draft) ==
  /\ source # NoSha /\ Open = {} /\ Len(pulls) < MaxPulls
  /\ pulls' = Append(pulls, [head |-> source, text |-> text, marker |-> marker,
                             draft |-> draft, mergeable |-> TRUE, state |-> "open",
                             checks |-> "success", unresolved |-> {}])
  /\ UNCHANGED <<source, moves>>

(* PATCH: title, body and base, whatever they are by then.                 *)
PatchPull(n, text, marker) ==
  /\ pulls' = [pulls EXCEPT ![n].text = text, ![n].marker = marker]
  /\ UNCHANGED <<source, moves>>

(* markPullRequestReadyForReview: no head is compared.                     *)
ReadyPull(n) ==
  /\ pulls[n].state = "open"
  /\ pulls' = [pulls EXCEPT ![n].draft = FALSE]
  /\ UNCHANGED <<source, moves>>

(* PUT merge with the sha the head must still have.                        *)
MergePull(n, sha) ==
  /\ pulls[n].state = "open" /\ ~pulls[n].draft /\ pulls[n].mergeable
  /\ pulls[n].head = sha
  /\ pulls' = [pulls EXCEPT ![n].state = "merged"]
  /\ UNCHANGED <<source, moves>>

(* An open pull request is closed with its branch, and follows its head.   *)
Closed(n) == [pulls[n] EXCEPT !.state = IF @ = "open" THEN "closed" ELSE @]
Moved(n, sha) == [pulls[n] EXCEPT !.head = IF pulls[n].state = "open" THEN sha ELSE @]

(* DELETE of the ref: no head is compared.                                 *)
DeleteSource ==
  /\ source # NoSha
  /\ source' = NoSha
  /\ pulls' = [n \in Numbers |-> Closed(n)]
  /\ UNCHANGED moves

-----------------------------------------------------------------------------
(* Everybody else.                                                         *)

OthersPush ==
  /\ \E sha \in Shas \ {source} :
       source' = sha /\ pulls' = [n \in Numbers |-> Moved(n, sha)]

OthersDeleteSource ==
  /\ source # NoSha
  /\ source' = NoSha
  /\ pulls' = [n \in Numbers |-> Closed(n)]

OthersOpen ==
  /\ source # NoSha /\ Open = {} /\ Len(pulls) < MaxPulls
  /\ \E text \in Texts :
       pulls' = Append(pulls, [head |-> source, text |-> text, marker |-> NoMarker,
                               draft |-> FALSE, mergeable |-> TRUE, state |-> "open",
                               checks |-> "success", unresolved |-> {}])
  /\ UNCHANGED source

OthersEdit ==
  /\ \E n \in Open :
       \/ \E text \in Texts \ {pulls[n].text} : pulls' = [pulls EXCEPT ![n].text = text]
       \/ pulls' = [pulls EXCEPT ![n].marker = NoMarker]
       \/ pulls' = [pulls EXCEPT ![n].draft = ~@]
       \/ pulls' = [pulls EXCEPT ![n].mergeable = ~@]
       \/ \E verdict \in Verdicts \ {pulls[n].checks} : pulls' = [pulls EXCEPT ![n].checks = verdict]
       \/ \E t \in Threads : pulls' = [pulls EXCEPT ![n].unresolved = IF t \in @ THEN @ \ {t} ELSE @ \union {t}]
       \/ pulls' = [pulls EXCEPT ![n].state = "closed"]
       \/ ~pulls[n].draft /\ pulls' = [pulls EXCEPT ![n].state = "merged"]
  /\ UNCHANGED source

Others ==
  /\ moves < MaxMoves /\ moves' = moves + 1
  /\ OthersPush \/ OthersDeleteSource \/ OthersOpen \/ OthersEdit
=============================================================================
