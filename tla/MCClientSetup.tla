--------------------------- MODULE MCClientSetup ---------------------------
(* TLC instance of ClientSetup.  The names of the packages, in order:       *)
(* agent-v1.10.0-rc.1.zip, agent-v1.10.0.zip, agent-v1.9.0.zip, tool.zip.   *)
EXTENDS ClientSetup, TLC

CONSTANTS t1, t2, r1, r2, v110rc, v110, v19, tool

MCRank == [f \in Files |-> IF f = v110rc THEN 1 ELSE IF f = v110 THEN 2 ELSE IF f = v19 THEN 3 ELSE 4]
MCRelease ==
    [f \in Files |-> IF f = tool THEN <<>> ELSE IF f = v19 THEN <<1, 9, 0>> ELSE <<1, 10, 0>>]
MCCandidate == [f \in Files |-> IF f = v110rc THEN 1 ELSE 0]
MCMentions ==
    [f \in Files |-> IF f = tool THEN {} ELSE IF f = v110 THEN {v110, v110rc} \intersect Files ELSE {f}]

Symmetry == Permutations(Tenants) \union Permutations(Replicas)
=============================================================================
