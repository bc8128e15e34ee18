---------------------------- MODULE MCGitStatus ----------------------------
(* One execution of git/status on a clone whose working tree is edited.    *)
EXTENDS GitStatus

CONSTANTS pinned, edited

MCOtherCommits == {[tree |-> edited, markers |-> {}, author |-> "other"]}
MCBase == << >>
=============================================================================
