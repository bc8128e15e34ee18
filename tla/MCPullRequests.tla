-------------------------- MODULE MCPullRequests --------------------------
(* Instances of PullRequests: two attempts of one upsert, the second one   *)
(* with a pinned revision, one mark-ready and two attempts of one merge,   *)
(* which no definition tells apart.                                        *)
EXTENDS PullRequests, TLC

CONSTANTS u1, u2, m1, m2, op1, op2, approved, edited, t1, t2

MCUpsertOf == (u1 :> op1) @@ (u2 :> op1)
MCRevisions == (u1 :> {approved, edited}) @@ (u2 :> {edited})

MCOneUpsert == (u1 :> op1)
MCOneRevision == (u1 :> {approved, edited})

MCOneThread == <<t1>>
MCUpperCaseFirst == <<t1, t2>>
MCLowerCaseFirst == <<t2, t1>>

Symmetry == Permutations({m1, m2})
=============================================================================
