--------------------------- MODULE MCScheduledRun ---------------------------
(* TLC instance of ScheduledRun: a cron that fires once and one that fires *)
(* twice within the bounded time.                                          *)
EXTENDS ScheduledRun, TLC

CONSTANTS s1, s2, r1, r2

MCCrons == {{2}, {2, 3}}
Symmetry == Permutations(Requests) \union Permutations(ScheduleIds)
=============================================================================
