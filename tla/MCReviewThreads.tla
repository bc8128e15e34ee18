-------------------------- MODULE MCReviewThreads --------------------------
(* Instances of ReviewThreads: two attempts of one operation, which no   *)
(* definition tells apart, and one of another, over a batch of threads.    *)
EXTENDS ReviewThreads, TLC

CONSTANTS r1, r2, r3, op1, op2, t1, t2

MCOperationOf == (r1 :> op1) @@ (r2 :> op1) @@ (r3 :> op2)
MCBatch == <<t1, t2>>

Symmetry == Permutations({r1, r2})
=============================================================================
