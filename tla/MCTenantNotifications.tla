------------------------ MODULE MCTenantNotifications ------------------------
(* TLC instance of TenantNotifications: m1 is an alias of u1, m2 the        *)
(* address u2 signs in with.                                                *)
EXTENDS TenantNotifications, TLC

CONSTANTS u1, u2, m1, m2, t1, t2, c1, q1, q2, n1, n2

MCUserOf == [e \in Emails |-> IF e = m1 THEN u1 ELSE u2]
MCSignsInAs == [u \in Users |-> IF u = u1 THEN {} ELSE {m2}]
Symmetry == Permutations(Requests) \union Permutations(Teams)
=============================================================================
