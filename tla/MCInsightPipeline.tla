-------------------------- MODULE MCInsightPipeline --------------------------
(* TLC instance of InsightPipeline: a daily period and the total.          *)
EXTENDS InsightPipeline

CONSTANTS w1, w2, a1

MCCalendar == << [d \in 1 .. MaxDay |-> d], [d \in 1 .. MaxDay |-> 1] >>
=============================================================================
