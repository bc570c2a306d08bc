--------------------------- MODULE ReportLifecycle ---------------------------
(***************************************************************************)
(* The reports and diagnoses of one agent, and the handlers that write     *)
(* them: a user's or a schedule's new report, the agent's diagnoses and    *)
(* status callbacks, and the user's resolving of a diagnosis, which counts *)
(* itself into the report's summary.                                       *)
(*                                                                         *)
(* A report read by its id carries an etag: valid[q] says that nobody      *)
(* rewrote the report since request q read it, and a conditional replace   *)
(* succeeds iff it holds.  Diagnoses are upserted without one.             *)
(***************************************************************************)
EXTENDS Naturals, FiniteSets

CONSTANTS
    ReportIds,    \* uuid4 ids of reports, each issued once
    DiagIds,      \* uuid4 ids of diagnoses, each issued once
    Requests,     \* request slots: how many requests run at once
    MaxRetries,   \* max_retries of the resolution's optimistic lock
    MaxCalls,     \* bound: status callbacks and resolutions in a run
    Faults,       \* subset of FaultKinds that may happen
    NoDoc         \* "no document"

FaultKinds ==
    {"abort",        \* a replica restarts or a Cosmos call raises
     "push_error"}   \* the queue push raises, whether or not it delivered

ASSUME ReportAssumption ==
    /\ MaxRetries \in Nat \ {0}
    /\ MaxCalls \in Nat
    /\ Faults \subseteq FaultKinds
    /\ IsFiniteSet(DiagIds) /\ IsFiniteSet(Requests)

Statuses == {"ANALYZING", "COMPLETED", "FAILED"}

(* total and resolved are the two counts of the summary a decision or a    *)
(* property depends on; 0 while the summary is missing.                    *)
Report == [status : Statuses, initial : BOOLEAN, manual : BOOLEAN,
           total : Nat, resolved : Nat]
Diagnosis == [report : ReportIds, resolved : BOOLEAN]

ASSUME NoDocAssumption == NoDoc \notin Report \union Diagnosis \union ReportIds \union DiagIds

VARIABLES
    reports,      \* the reports container: id -> Report or NoDoc
    diagnoses,    \* the diagnoses container: id -> Diagnosis or NoDoc
    issued,       \* report and diagnosis ids used so far
    delivered,    \* reports whose command reached the agent's queue
    pc,           \* request -> next thing the handler does
    rid,          \* request -> the report it is about
    held,         \* request -> its private Report object
    valid,        \* request -> is the etag of its report still current?
    moved,        \* request -> is "status" among its updated_fields?
    item,         \* request -> the diagnosis it resolves
    target,       \* request -> is_resolved as requested
    tries,        \* request -> iterations of its retry loop so far
    batch,        \* request -> diagnoses it still has to store
    calls,        \* how many of MaxCalls happened
    completed,    \* history: report -> times COMPLETED was newly stored
    announced,    \* insight events published: report -> how many
    exact,        \* history: request -> will its recount be right?
    raced         \* history: reports whose count lost or doubled a resolution

containers == <<reports, diagnoses, issued, delivered>>
resolving == <<item, target, tries>>
history == <<completed, announced, exact, raced>>
vars == <<containers, pc, rid, held, valid, moved, resolving, batch, calls, history>>

HandlerStates ==
    {"idle", "push", "store", "push_scheduled", "mark_failed",
     "receive", "list", "save_status", "announce",
     "save_diagnosis", "count", "save_count"}

TypeOK ==
    /\ reports \in [ReportIds -> Report \union {NoDoc}]
    /\ diagnoses \in [DiagIds -> Diagnosis \union {NoDoc}]
    /\ issued \subseteq ReportIds \union DiagIds
    /\ delivered \subseteq ReportIds
    /\ pc \in [Requests -> HandlerStates]
    /\ rid \in [Requests -> ReportIds \union {NoDoc}]
    /\ held \in [Requests -> Report \union {NoDoc}]
    /\ valid \in [Requests -> BOOLEAN]
    /\ moved \in [Requests -> BOOLEAN]
    /\ item \in [Requests -> DiagIds \union {NoDoc}]
    /\ target \in [Requests -> BOOLEAN]
    /\ tries \in [Requests -> 0 .. MaxRetries]
    /\ batch \in [Requests -> SUBSET DiagIds]
    /\ calls \in 0 .. MaxCalls
    /\ completed \in [ReportIds -> Nat] /\ announced \in [ReportIds -> Nat]
    /\ exact \in [Requests -> BOOLEAN]
    /\ raced \subseteq ReportIds

Init ==
    /\ reports = [r \in ReportIds |-> NoDoc]
    /\ diagnoses = [d \in DiagIds |-> NoDoc]
    /\ issued = {} /\ delivered = {}
    /\ pc = [q \in Requests |-> "idle"]
    /\ rid = [q \in Requests |-> NoDoc]
    /\ held = [q \in Requests |-> NoDoc]
    /\ valid = [q \in Requests |-> FALSE]
    /\ moved = [q \in Requests |-> FALSE]
    /\ item = [q \in Requests |-> NoDoc]
    /\ target = [q \in Requests |-> FALSE]
    /\ tries = [q \in Requests |-> 0]
    /\ batch = [q \in Requests |-> {}]
    /\ calls = 0
    /\ completed = [r \in ReportIds |-> 0]
    /\ announced = [r \in ReportIds |-> 0]
    /\ exact = [q \in Requests |-> FALSE]
    /\ raced = {}

----------------------------------------------------------------------------
Stored == {r \in ReportIds : reports[r] # NoDoc}
Initials == {r \in Stored : reports[r].initial}

DiagnosesOf(r) == {d \in DiagIds : diagnoses[d] # NoDoc /\ diagnoses[d].report = r}
ResolvedOf(r) == {d \in DiagnosesOf(r) : diagnoses[d].resolved}

(* The resolutions of report r between their two writes, by direction.     *)
Uncounted(r, resolved) ==
    {q \in Requests : pc[q] \in {"count", "save_count"} /\ rid[q] = r
                      /\ target[q] = resolved}

Begin(q, next) ==
    /\ pc[q] = "idle"
    /\ pc' = [pc EXCEPT ![q] = next]

Goto(q, next) == pc' = [pc EXCEPT ![q] = next]

Finish(q) ==
    /\ pc' = [pc EXCEPT ![q] = "idle"]
    /\ rid' = [rid EXCEPT ![q] = NoDoc]
    /\ held' = [held EXCEPT ![q] = NoDoc]
    /\ moved' = [moved EXCEPT ![q] = FALSE]
    /\ item' = [item EXCEPT ![q] = NoDoc]
    /\ target' = [target EXCEPT ![q] = FALSE]
    /\ tries' = [tries EXCEPT ![q] = 0]
    /\ batch' = [batch EXCEPT ![q] = {}]

Forget(q) == valid' = [valid EXCEPT ![q] = FALSE]

(* A write of a report invalidates every etag of it that was handed out.   *)
Write(r, doc) ==
    /\ reports' = [reports EXCEPT ![r] = doc]
    /\ valid' = [q \in Requests |-> valid[q] /\ rid[q] # r]

Read(q, r) == valid' = [valid EXCEPT ![q] = TRUE] /\ rid' = [rid EXCEPT ![q] = r]

(* History: from here on the count of r misses or doubles a resolution,    *)
(* and so does a recount that read the diagnoses before.                   *)
Race(r) ==
    /\ raced' = raced \union {r}
    /\ exact' = [q \in Requests |-> exact[q] /\ rid[q] # r]

Call ==
    /\ calls < MaxCalls
    /\ calls' = calls + 1

----------------------------------------------------------------------------
(* POST /reports (create_report_use_case.py).  get_initial returns any one *)
(* of the initial reports; the command is pushed before the report exists. *)

ShouldBeInitial ==
    IF Initials = {} THEN {TRUE} ELSE {reports[r].status = "FAILED" : r \in Initials}

BugNewReport(initial, manual) ==
    [status |-> "PENDING", initial |-> initial, manual |-> manual,
     total |-> 0, resolved |-> 0]
NewReport(initial, manual) ==
    [status |-> "ANALYZING", initial |-> initial, manual |-> manual,
     total |-> 0, resolved |-> 0]

CreateReport(q) ==
    /\ Begin(q, "push")
    /\ \E r \in ReportIds \ issued, initial \in ShouldBeInitial :
         /\ issued' = issued \union {r}
         /\ rid' = [rid EXCEPT ![q] = r]
         /\ held' = [held EXCEPT ![q] = NewReport(initial, TRUE)]
    /\ UNCHANGED <<reports, diagnoses, delivered, valid, moved, resolving, batch,
                   calls, history>>

Push(q) ==
    /\ pc[q] = "push"
    /\ Goto(q, "store")
    /\ delivered' = delivered \union {rid[q]}
    /\ UNCHANGED <<reports, diagnoses, issued, rid, held, valid, moved, resolving,
                   batch, calls, history>>

BugPushFails(q) ==
    /\ pc[q] = "push"
    /\ "push_error" \in Faults
    /\ Goto(q, "store")
    /\ delivered' \in {delivered, delivered \union {rid[q]}}
    /\ UNCHANGED <<reports, diagnoses, issued, rid, held, valid, moved, resolving,
                   batch, calls, history>>

PushFails(q) ==
    /\ pc[q] = "push"
    /\ "push_error" \in Faults
    /\ Goto(q, "store")
    /\ delivered' \in {delivered, delivered \union {rid[q]}}
    /\ held' = [held EXCEPT ![q].status = "FAILED"]
    /\ UNCHANGED <<reports, diagnoses, issued, rid, valid, moved, resolving,
                   batch, calls, history>>

StoreReport(q) ==
    /\ pc[q] = "store"
    /\ Write(rid[q], held[q])
    /\ Finish(q)
    /\ UNCHANGED <<diagnoses, issued, delivered, calls, history>>

----------------------------------------------------------------------------
(* The report of a scheduled run (trigger_scheduled_run_use_case.py): here *)
(* the report is stored first, and marked FAILED, without an etag, when    *)
(* the push raises.                                                        *)

ScheduledReport(q) ==
    /\ Begin(q, "push_scheduled")
    /\ \E r \in ReportIds \ issued :
         /\ issued' = issued \union {r}
         /\ rid' = [rid EXCEPT ![q] = r]
         /\ held' = [held EXCEPT ![q] = NewReport(FALSE, FALSE)]
         /\ reports' = [reports EXCEPT ![r] = NewReport(FALSE, FALSE)]
    /\ UNCHANGED <<diagnoses, delivered, valid, moved, resolving, batch, calls, history>>

PushScheduled(q) ==
    /\ pc[q] = "push_scheduled"
    /\ delivered' = delivered \union {rid[q]}
    /\ Finish(q)
    /\ UNCHANGED <<reports, diagnoses, issued, valid, calls, history>>

PushScheduledFails(q) ==
    /\ pc[q] = "push_scheduled"
    /\ "push_error" \in Faults
    /\ Goto(q, "mark_failed")
    /\ delivered' \in {delivered, delivered \union {rid[q]}}
    /\ held' = [held EXCEPT ![q].status = "FAILED"]
    /\ UNCHANGED <<reports, diagnoses, issued, rid, valid, moved, resolving,
                   batch, calls, history>>

MarkFailed(q) ==
    /\ pc[q] = "mark_failed"
    /\ Write(rid[q], held[q])
    /\ Finish(q)
    /\ UNCHANGED <<diagnoses, issued, delivered, calls, history>>

----------------------------------------------------------------------------
(* The agent, for a command it received: POST diagnoses (one create_item   *)
(* each, gathered; nobody looks whether the report exists) ...             *)

Receive(q) ==
    /\ Begin(q, "receive")
    /\ \E r \in delivered, found \in SUBSET (DiagIds \ issued) \ {{}} :
         /\ issued' = issued \union found
         /\ rid' = [rid EXCEPT ![q] = r]
         /\ batch' = [batch EXCEPT ![q] = found]
    /\ UNCHANGED <<reports, diagnoses, delivered, held, valid, moved, resolving,
                   calls, history>>

StoreDiagnosis(q) ==
    /\ pc[q] = "receive"
    /\ \E d \in batch[q] :
         /\ diagnoses' = [diagnoses EXCEPT ![d] = [report |-> rid[q], resolved |-> FALSE]]
         /\ IF batch[q] = {d} THEN Finish(q)
            ELSE /\ batch' = [batch EXCEPT ![q] = @ \ {d}]
                 /\ UNCHANGED <<pc, rid, held, moved, resolving>>
    /\ UNCHANGED <<reports, issued, delivered, valid, calls, history>>

(* ... and PATCH /reports/{id} (update_report_status_use_case.py), with    *)
(* any status at any time.  newError: the error text differs from the      *)
(* stored one, which makes the update a write even if nothing else does.   *)

Callback(q) ==
    /\ Begin(q, "save_status")
    /\ Call
    /\ \E r \in delivered \intersect Stored, s \in {"ANALYZING", "FAILED"},
          newError \in BOOLEAN :
         LET changed == reports[r].status # s
         IN  /\ changed \/ newError
             /\ Read(q, r)
             /\ held' = [held EXCEPT ![q] = [reports[r] EXCEPT !.status = s]]
             /\ moved' = [moved EXCEPT ![q] = changed]
    /\ UNCHANGED <<containers, resolving, batch, history>>

CompletedCallback(q) ==
    /\ Begin(q, "list")
    /\ Call
    /\ \E r \in delivered \intersect Stored :
         /\ Read(q, r)
         /\ held' = [held EXCEPT ![q] = reports[r]]
    /\ UNCHANGED <<containers, moved, resolving, batch, history>>

(* list_by_report, the summary and Report.update.                          *)
BugRecount(q) ==
    /\ pc[q] = "list"
    /\ LET r == rid[q]
           new == [held[q] EXCEPT !.status = "COMPLETED",
                                  !.total = Cardinality(DiagnosesOf(r)),
                                  !.resolved = Cardinality(ResolvedOf(r))]
       IN  /\ Goto(q, "save_status")
           /\ held' = [held EXCEPT ![q] = new]
           /\ moved' = [moved EXCEPT ![q] = TRUE]
           /\ exact' = [exact EXCEPT ![q] = Uncounted(r, TRUE) \union Uncounted(r, FALSE) = {}]
           /\ UNCHANGED <<rid, valid, resolving, batch>>
    /\ UNCHANGED <<containers, calls, completed, announced, raced>>

Recount(q) ==
    /\ pc[q] = "list"
    /\ LET r == rid[q]
           new == [held[q] EXCEPT !.status = "COMPLETED",
                                  !.total = Cardinality(DiagnosesOf(r)),
                                  !.resolved = Cardinality(ResolvedOf(r))]
       IN  \/ /\ Goto(q, "save_status")    \* a difference, or a new error text
              /\ held' = [held EXCEPT ![q] = new]
              /\ moved' = [moved EXCEPT ![q] = held[q].status # "COMPLETED"]
              /\ exact' = [exact EXCEPT
                             ![q] = Uncounted(r, TRUE) \union Uncounted(r, FALSE) = {}]
              /\ UNCHANGED <<rid, valid, resolving, batch>>
           \/ /\ new = held[q]
              /\ Finish(q) /\ Forget(q)
              /\ UNCHANGED exact
    /\ UNCHANGED <<containers, calls, completed, announced, raced>>

(* Mutant: no event for a report without findings.                         *)
BugSaveStatus(q) ==
    /\ pc[q] = "save_status" /\ valid[q]
    /\ LET r == rid[q] done == held[q].status = "COMPLETED"
       IN  /\ Write(r, held[q])
           /\ completed' = IF done /\ reports[r].status # "COMPLETED"
                           THEN [completed EXCEPT ![r] = @ + 1] ELSE completed
           /\ UNCHANGED raced
           /\ exact' = [exact EXCEPT ![q] = FALSE]
           /\ IF done /\ moved[q] /\ held[q].total > 0
              THEN /\ Goto(q, "announce")
                   /\ UNCHANGED <<rid, held, moved, resolving, batch>>
              ELSE Finish(q)
    /\ UNCHANGED <<diagnoses, issued, delivered, calls, announced>>

(* update_report under the etag; a transition into COMPLETED leaves the    *)
(* notification and the insight event to a task nobody awaits.             *)
SaveStatus(q) ==
    /\ pc[q] = "save_status" /\ valid[q]
    /\ LET r == rid[q] done == held[q].status = "COMPLETED"
       IN  /\ Write(r, held[q])
           /\ completed' = IF done /\ reports[r].status # "COMPLETED"
                           THEN [completed EXCEPT ![r] = @ + 1] ELSE completed
           /\ raced' = CASE done /\ exact[q] -> raced \ {r}
                         [] done /\ ~exact[q] -> raced \union {r}
                         [] OTHER -> raced
           /\ exact' = [exact EXCEPT ![q] = FALSE]
           /\ IF done /\ moved[q]
              THEN /\ Goto(q, "announce")
                   /\ UNCHANGED <<rid, held, moved, resolving, batch>>
              ELSE Finish(q)
    /\ UNCHANGED <<diagnoses, issued, delivered, calls, announced>>

SaveStatusRefused(q) ==
    /\ pc[q] = "save_status" /\ ~valid[q]
    /\ Finish(q)
    /\ exact' = [exact EXCEPT ![q] = FALSE]
    /\ UNCHANGED <<containers, valid, calls, completed, announced, raced>>

Announce(q) ==
    /\ pc[q] = "announce"
    /\ announced' = [announced EXCEPT ![rid[q]] = @ + 1]
    /\ Finish(q)
    /\ UNCHANGED <<containers, valid, calls, completed, exact, raced>>

----------------------------------------------------------------------------
(* PATCH /reports/{id}/diagnoses/{did}                                     *)
(* (update_diagnosis_resolution_use_case.py): two documents, two writes.   *)

Resolve(q) ==
    /\ Begin(q, "save_diagnosis")
    /\ Call
    /\ \E d \in DiagIds :
         /\ diagnoses[d] # NoDoc
         /\ rid' = [rid EXCEPT ![q] = diagnoses[d].report]
         /\ item' = [item EXCEPT ![q] = d]
         /\ target' = [target EXCEPT ![q] = ~diagnoses[d].resolved]
    /\ UNCHANGED <<containers, held, valid, moved, tries, batch, history>>

SaveDiagnosis(q) ==
    /\ pc[q] = "save_diagnosis"
    /\ Goto(q, "count")
    /\ diagnoses' = [diagnoses EXCEPT ![item[q]].resolved = target[q]]
    /\ IF diagnoses[item[q]].resolved = target[q]   \* another request was faster
       THEN Race(rid[q])
       ELSE UNCHANGED <<exact, raced>>
    /\ UNCHANGED <<reports, issued, delivered, rid, held, valid, moved, resolving,
                   batch, calls, completed, announced>>

Adjusted(n, resolved) == IF resolved THEN n + 1 ELSE IF n = 0 THEN 0 ELSE n - 1

Count(q) ==
    /\ pc[q] = "count"
    /\ IF reports[rid[q]] = NoDoc
       THEN Finish(q) /\ UNCHANGED valid
       ELSE /\ Goto(q, "save_count")
            /\ valid' = [valid EXCEPT ![q] = TRUE]
            /\ tries' = [tries EXCEPT ![q] = @ + 1]
            /\ held' = [held EXCEPT ![q] =
                  [reports[rid[q]] EXCEPT !.resolved = Adjusted(@, target[q])]]
            /\ UNCHANGED <<rid, moved, item, target, batch>>
    /\ UNCHANGED <<containers, calls, history>>

BugSaveCount(q) ==
    /\ pc[q] = "save_count"
    /\ Write(rid[q], held[q])
    /\ Finish(q)
    /\ IF ~target[q] /\ reports[rid[q]].resolved = 0
       THEN Race(rid[q])
       ELSE UNCHANGED <<exact, raced>>
    /\ UNCHANGED <<diagnoses, issued, delivered, calls, completed, announced>>

SaveCount(q) ==
    /\ pc[q] = "save_count" /\ valid[q]
    /\ Write(rid[q], held[q])
    /\ Finish(q)
    /\ IF ~target[q] /\ reports[rid[q]].resolved = 0   \* max(0, ...) took effect
       THEN Race(rid[q])
       ELSE UNCHANGED <<exact, raced>>
    /\ UNCHANGED <<diagnoses, issued, delivered, calls, completed, announced>>

(* 412: try again, or give up with the diagnosis already written.          *)
SaveCountRefused(q) ==
    /\ pc[q] = "save_count" /\ ~valid[q]
    /\ IF tries[q] = MaxRetries
       THEN Finish(q) /\ Race(rid[q])
       ELSE /\ Goto(q, "count")
            /\ UNCHANGED <<rid, held, moved, resolving, batch, exact, raced>>
    /\ UNCHANGED <<containers, valid, calls, completed, announced>>

----------------------------------------------------------------------------
Abort(q) ==
    /\ "abort" \in Faults
    /\ pc[q] # "idle"
    /\ Finish(q) /\ Forget(q)
    /\ IF pc[q] \in {"count", "save_count"}
       THEN Race(rid[q])
       ELSE exact' = [exact EXCEPT ![q] = FALSE] /\ UNCHANGED raced
    /\ UNCHANGED <<containers, calls, completed, announced>>

Next ==
    \E q \in Requests :
        \/ CreateReport(q) \/ Push(q) \/ PushFails(q) \/ StoreReport(q)
        \/ ScheduledReport(q) \/ PushScheduled(q) \/ PushScheduledFails(q) \/ MarkFailed(q)
        \/ Receive(q) \/ StoreDiagnosis(q)
        \/ Callback(q) \/ CompletedCallback(q) \/ Recount(q)
        \/ SaveStatus(q) \/ SaveStatusRefused(q) \/ Announce(q)
        \/ Resolve(q) \/ SaveDiagnosis(q) \/ Count(q) \/ SaveCount(q) \/ SaveCountRefused(q)
        \/ Abort(q)

Spec == Init /\ [][Next]_vars

----------------------------------------------------------------------------
(* The agent retries a COMPLETED callback it got no answer to, and two may *)
(* run at once: however they overlap, the insight event is published at    *)
(* most once for each time the report newly became COMPLETED.              *)
AnnouncedOncePerCompletion ==
    \A r \in ReportIds : announced[r] =< completed[r]

(* The converse: each time a report newly becomes COMPLETED, under however *)
(* many overlapping callbacks, an event is published or about to be; only  *)
(* a task that stops before it has published loses one                     *)
(* (update_report_status_use_case.py:93, :125), and then for good.         *)
Announcing(r) == {q \in Requests : pc[q] = "announce" /\ rid[q] = r}
Accounted(r) == announced[r] + Cardinality(Announcing(r))

OnlyStoppedTasksLoseEvents ==
    [][\A r \in ReportIds :
          \/ completed'[r] + Accounted(r) = completed[r] + Accounted(r)'
          \/ \E q \in Announcing(r) : Abort(q)]_vars

(* Readers of the containers see whole operations: though each handler     *)
(* works on a copy and others run meanwhile, a write of a report changes   *)
(* what is stored in the fields its operation is about and loses nothing   *)
(* written since it was read (update_report under the etag,                *)
(* repositories/report.py:60); only mark_as_failed starts over, and only   *)
(* for a schedule's report.                                                *)
Book == INSTANCE ReportBook
WritesAreOperations == Book!Spec

(* A user never watches a report of theirs ANALYZING for which the agent   *)
(* received no command: the command goes first, and a failed push is       *)
(* stored as FAILED, whatever fails or stops in between.                   *)
ManualReportsHaveCommands ==
    \A r \in Stored :
        reports[r].manual /\ reports[r].status = "ANALYZING" => r \in delivered

(* The summary of a COMPLETED report and its diagnoses, two documents      *)
(* written one after the other, agree up to the resolutions between their  *)
(* two writes - unless one resolution was lost or counted twice, which     *)
(* takes two requests for one diagnosis, a recount between the two writes, *)
(* the floor, a crash or MaxRetries lost races.  Other overlaps, and       *)
(* callbacks that recount, never break it.                                 *)
CountsAgree ==
    \A r \in Stored \ raced :
        reports[r].status = "COMPLETED" =>
            reports[r].resolved + Cardinality(Uncounted(r, TRUE))
              = Cardinality(ResolvedOf(r)) + Cardinality(Uncounted(r, FALSE))
=============================================================================
