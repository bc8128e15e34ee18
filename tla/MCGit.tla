------------------------------- MODULE MCGit -------------------------------
(* Instances of Git.  Two operations with the same parent and tree, so     *)
(* that only their markers tell them apart; the first has two attempts,    *)
(* which no definition tells apart, as it does not the two pushes.  Others *)
(* commit something else, or the approved tree without a marker, in the    *)
(* name of the first operation, or of both.                                *)
EXTENDS Git

CONSTANTS c1, c2, c3, p1, p2, op1, op2, wanted, unwanted

MCOperationOf == (c1 :> op1) @@ (c2 :> op1) @@ (c3 :> op2)

MCOneOperation == (c1 :> op1)

MCOtherCommits ==
  {[tree |-> unwanted, markers |-> {op1}, author |-> "other"]}
    \union {[tree |-> wanted, markers |-> m, author |-> "other"] :
              m \in {{}, {op1}, {op1, op2}}}

Symmetry == Permutations({c1, c2}) \union Permutations({p1, p2})
=============================================================================
