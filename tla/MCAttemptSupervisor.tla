------------------------ MODULE MCAttemptSupervisor ------------------------
(* The instance of AttemptSupervisor that is checked.  Liveness is checked *)
(* too, so TLC cannot be told that calls and identities are symmetric;     *)
(* instead the calls name their identities in order, which every behaviour *)
(* does once they are renamed.                                             *)
EXTENDS AttemptSupervisor

CONSTANTS c1, c2, c3, k1, k2, k3

NamedInOrder ==
  <<key[c1], key[c2], key[c3]>> \in
    {<<k1, k1, k1>>, <<k1, k1, k2>>, <<k1, k2, k1>>, <<k1, k2, k2>>, <<k1, k2, k3>>}

InOrderInit == Init /\ NamedInOrder

InOrderSpec == InOrderInit /\ [][Next]_vars /\ Fairness
=============================================================================
