-------------------------- MODULE MCReportLifecycle --------------------------
(* TLC instance of ReportLifecycle.                                        *)
EXTENDS ReportLifecycle, TLC

CONSTANTS p1, p2, p3, d1, d2, q1, q2

Symmetry ==
    Permutations(ReportIds) \union Permutations(DiagIds) \union Permutations(Requests)
=============================================================================
