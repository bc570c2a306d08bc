----------------------------- MODULE ReportBook -----------------------------
(***************************************************************************)
(* What the reports and diagnoses of an agent look like to those who read  *)
(* them (src/app/domains/report): each operation happens at once, on the   *)
(* documents that are stored at that moment, and changes only the fields   *)
(* it is about.  ReportLifecycle is the detailed system, where every       *)
(* operation is a read, awaits and a write, and others run in between; its *)
(* etags make it implement this book.                                      *)
(***************************************************************************)
EXTENDS Naturals, FiniteSets

CONSTANTS
    ReportIds,    \* ids of reports
    DiagIds,      \* ids of diagnoses
    NoDoc         \* "no document"

VARIABLES
    reports,      \* report id -> document or NoDoc
    diagnoses,    \* diagnosis id -> document or NoDoc
    delivered     \* reports whose command reached the agent's queue

book == <<reports, diagnoses, delivered>>

Init ==
    /\ reports = [r \in ReportIds |-> NoDoc]
    /\ diagnoses = [d \in DiagIds |-> NoDoc]
    /\ delivered = {}

Exists(r) == reports[r] # NoDoc
Findings(r) == {d \in DiagIds : diagnoses[d] # NoDoc /\ diagnoses[d].report = r}
Empty(status, initial, manual) ==
    [status |-> status, initial |-> initial, manual |-> manual, total |-> 0, resolved |-> 0]

Write(r, doc) ==
    /\ reports' = [reports EXCEPT ![r] = doc]
    /\ UNCHANGED <<diagnoses, delivered>>

Command(r) ==
    /\ delivered' = delivered \union {r}
    /\ UNCHANGED <<reports, diagnoses>>

(* A report comes into being once: a user's with its command sent or as    *)
(* FAILED, a schedule's before its command.                                *)
CreateManual(r) ==
    /\ ~Exists(r)
    /\ \E initial \in BOOLEAN, status \in {"ANALYZING", "FAILED"} :
          /\ status = "ANALYZING" => r \in delivered
          /\ Write(r, Empty(status, initial, TRUE))

CreateScheduled(r) == ~Exists(r) /\ Write(r, Empty("ANALYZING", FALSE, FALSE))

(* The trigger could not push the command of its report.                   *)
GiveUp(r) ==
    /\ Exists(r) /\ ~reports[r].manual
    /\ Write(r, Empty("FAILED", FALSE, FALSE))

(* The agent, for a report whose command it got.                           *)
Find(r, d) ==
    /\ r \in delivered
    /\ diagnoses[d] = NoDoc
    /\ diagnoses' = [diagnoses EXCEPT ![d] = [report |-> r, resolved |-> FALSE]]
    /\ UNCHANGED <<reports, delivered>>

SetStatus(r, s) ==
    /\ Exists(r) /\ r \in delivered
    /\ Write(r, [reports[r] EXCEPT !.status = s])

(* The summary counts diagnoses that are there (some may have come since). *)
Complete(r) ==
    /\ Exists(r) /\ r \in delivered
    /\ \E n \in 0 .. Cardinality(Findings(r)) : \E k \in 0 .. n :
          Write(r, [reports[r] EXCEPT !.status = "COMPLETED", !.total = n, !.resolved = k])

(* A user resolves or reopens a diagnosis; some time later its report      *)
(* counts it.                                                              *)
Resolve(d, resolved) ==
    /\ diagnoses[d] # NoDoc
    /\ diagnoses' = [diagnoses EXCEPT ![d].resolved = resolved]
    /\ UNCHANGED <<reports, delivered>>

CountUp(r) ==
    /\ Exists(r) /\ Findings(r) # {}
    /\ Write(r, [reports[r] EXCEPT !.resolved = @ + 1])

CountDown(r) ==
    /\ Exists(r) /\ Findings(r) # {}
    /\ Write(r, [reports[r] EXCEPT !.resolved = IF @ = 0 THEN 0 ELSE @ - 1])

Next ==
    \/ \E r \in ReportIds :
          \/ Command(r) \/ CreateManual(r) \/ CreateScheduled(r) \/ GiveUp(r)
          \/ \E s \in {"ANALYZING", "FAILED"} : SetStatus(r, s)
          \/ Complete(r) \/ CountUp(r) \/ CountDown(r)
          \/ \E d \in DiagIds : Find(r, d)
    \/ \E d \in DiagIds, resolved \in BOOLEAN : Resolve(d, resolved)

Spec == Init /\ [][Next]_book
=============================================================================
