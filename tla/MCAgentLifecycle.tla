-------------------------- MODULE MCAgentLifecycle --------------------------
(* TLC instance of AgentLifecycle: two document ids for every client.      *)
EXTENDS AgentLifecycle, TLC

CONSTANTS d1, d2, c1, c2, r1, r2

MCClientOf == [d \in Ids |-> IF d = d1 THEN c1 ELSE IF c2 \in Clients THEN c2 ELSE c1]
Symmetry == Permutations(Requests) \union Permutations(Ids)
RequestSymmetry == Permutations(Requests)

(* Each client's document changes places with the client.                  *)
ClientSymmetry ==
    {f \in Permutations({d1, d2, c1, c2}) :
        /\ {f[d1], f[d2]} = {d1, d2}
        /\ \A d \in {d1, d2} : MCClientOf[f[d]] = f[MCClientOf[d]]}
=============================================================================
