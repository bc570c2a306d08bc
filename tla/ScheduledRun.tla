---------------------------- MODULE ScheduledRun ----------------------------
(***************************************************************************)
(* The schedules of one agent and the handlers that use them: the user's   *)
(* create, update and delete, the deactivation's disable_by_agent, and the *)
(* timer poll POST trigger-scheduled-run, which claims a due schedule under*)
(* its etag, stores a report and pushes the command.  Schedules of other   *)
(* agents live in other partitions and never meet these.                   *)
(*                                                                         *)
(* Time counts units long enough for a few polls.  A cron expression is the*)
(* set of instants at which it fires.  An etag is not a number here: a     *)
(* write of schedule s by one handler drops s from the others' "valid"     *)
(* sets, and a conditional replace succeeds iff s is in the handler's set. *)
(***************************************************************************)
EXTENDS Naturals, Sequences, FiniteSets

CONSTANTS
    ScheduleIds,     \* uuid4 ids, each issued once
    Crons,           \* the cron expressions users choose: sets of instants
    MaxTime,         \* bound: the last instant
    Requests,        \* request slots: how many requests run at once
    Limit,           \* FREE_SCHEDULE_LIMIT
    MaxDisturbances, \* bound: user edits, deactivations and crashes in a run
    Faults,          \* subset of FaultKinds that may happen
    NoDoc            \* "no document"

FaultKinds ==
    {"abort",         \* a handler is cut short
     "report_error",  \* create_report raises, whether or not it stored
     "push_error"}    \* the queue push raises, whether or not it delivered

Never == 0           \* last_run_at is None
Times == 1 .. MaxTime

ASSUME ScheduleAssumption ==
    /\ MaxTime \in Nat \ {0}
    /\ Limit \in Nat
    /\ MaxDisturbances \in Nat
    /\ Crons \subseteq SUBSET Times
    /\ Faults \subseteq FaultKinds

Doc == [enabled : BOOLEAN, cron : Crons, lastRun : Times \union {Never}]

ASSUME NoDocAssumption == NoDoc \notin Doc

(* One claimed run: its report ("none" until stored) and whether its       *)
(* command was delivered to the agent's queue.                             *)
Run == [schedule : ScheduleIds, at : Times, cron : Crons,
        report : {"none", "ANALYZING", "FAILED"}, command : BOOLEAN]

VARIABLES
    now,           \* the current instant
    active,        \* the agent document says ACTIVE
    outdated,      \* a newer major version of the agent package exists
    schedules,     \* the container: schedule id -> Doc or NoDoc
    issued,        \* schedule ids used so far
    runs,          \* claimed runs in order: their reports and commands
    pc,            \* request -> next thing the handler does
    snap,          \* request -> schedules it read and still has to handle
    valid,         \* request -> schedules not rewritten since it read them
    at,            \* request -> its now_utc
    run,           \* request -> index of the run it is starting, or 0
    disturbances,  \* how many of MaxDisturbances happened
    rewound        \* history: schedules that disable_by_agent wrote back old

container == <<schedules, issued>>
request == <<pc, snap, valid, at, run>>
vars == <<now, active, outdated, container, runs, request, disturbances, rewound>>

HandlerStates ==
    {"idle", "list", "claim", "report", "push", "mark_failed",
     "create", "update", "disable_query", "disable_save"}

TypeOK ==
    /\ now \in Times
    /\ active \in BOOLEAN /\ outdated \in BOOLEAN
    /\ schedules \in [ScheduleIds -> Doc \union {NoDoc}]
    /\ issued \subseteq ScheduleIds
    /\ runs \in Seq(Run)
    /\ pc \in [Requests -> HandlerStates]
    /\ snap \in [Requests -> [ScheduleIds -> Doc \union {NoDoc}]]
    /\ valid \in [Requests -> SUBSET ScheduleIds]
    /\ at \in [Requests -> Times]
    /\ run \in [Requests -> Nat]
    /\ disturbances \in 0 .. MaxDisturbances
    /\ rewound \subseteq ScheduleIds

Nothing == [s \in ScheduleIds |-> NoDoc]

Init ==
    /\ now = 1
    /\ active = TRUE /\ outdated = FALSE
    /\ schedules = Nothing
    /\ issued = {}
    /\ runs = <<>>
    /\ pc = [r \in Requests |-> "idle"]
    /\ snap = [r \in Requests |-> Nothing]
    /\ valid = [r \in Requests |-> {}]
    /\ at = [r \in Requests |-> 1]
    /\ run = [r \in Requests |-> 0]
    /\ disturbances = 0
    /\ rewound = {}

----------------------------------------------------------------------------
Stored == {s \in ScheduleIds : schedules[s] # NoDoc}
EnabledSchedules ==
    [s \in ScheduleIds |->
        IF s \in Stored /\ schedules[s].enabled THEN schedules[s] ELSE NoDoc]

(* _is_due and CronHelper.is_time_to_run: a schedule that never ran is due *)
(* at once, else the first instant after last_run must have come.          *)
BugIsDue(d, t) == d.lastRun = Never \/ \E f \in d.cron : d.lastRun < f /\ f < t
IsDue(d, t) == d.lastRun = Never \/ \E f \in d.cron : d.lastRun < f /\ f =< t

BugNewRun(s, d, t) ==
    [schedule |-> s, at |-> t, cron |-> d.cron, report |-> "CREATED", command |-> FALSE]
NewRun(s, d, t) ==
    [schedule |-> s, at |-> t, cron |-> d.cron, report |-> "none", command |-> FALSE]

(* A write of schedule s by request r invalidates every other etag of it.  *)
Rewritten(r, s) == valid' = [q \in Requests |-> valid[q] \ {s}]

Begin(r, next) ==
    /\ pc[r] = "idle"
    /\ pc' = [pc EXCEPT ![r] = next]

Goto(r, next) == pc' = [pc EXCEPT ![r] = next]

Finish(r) ==
    /\ pc' = [pc EXCEPT ![r] = "idle"]
    /\ snap' = [snap EXCEPT ![r] = Nothing]
    /\ at' = [at EXCEPT ![r] = 1]
    /\ run' = [run EXCEPT ![r] = 0]

FinishAndForget(r) == Finish(r) /\ valid' = [valid EXCEPT ![r] = {}]

(* Bound: edits, deactivations and crashes are finitely many.              *)
Disturb ==
    /\ disturbances < MaxDisturbances
    /\ disturbances' = disturbances + 1

----------------------------------------------------------------------------
(* POST trigger-scheduled-run (trigger_scheduled_run_use_case.py).  An     *)
(* agent that is not ACTIVE or is a major version behind gets no run.      *)

Poll(r) ==
    /\ active /\ ~outdated
    /\ Begin(r, "list")
    /\ UNCHANGED <<now, active, outdated, container, runs, snap, valid, at, run,
                   disturbances, rewound>>

(* get_enabled_by_agent, then now_utc.                                     *)
ListEnabled(r) ==
    /\ pc[r] = "list"
    /\ snap' = [snap EXCEPT ![r] = EnabledSchedules]
    /\ valid' = [valid EXCEPT ![r] = Stored]
    /\ at' = [at EXCEPT ![r] = now]
    /\ Goto(r, "claim")
    /\ UNCHANGED <<now, active, outdated, container, runs, run, disturbances, rewound>>

DueFor(r) ==
    {s \in ScheduleIds : snap[r][s] # NoDoc /\ IsDue(snap[r][s], at[r])}

(* The replace under the etag succeeds: last_run_at is now_utc, the run is *)
(* this request's.                                                         *)
BugClaim(r) ==      \* an upsert instead of the conditional replace
    /\ pc[r] = "claim"
    /\ \E s \in DueFor(r) :
          /\ schedules' = [schedules EXCEPT ![s] = [snap[r][s] EXCEPT !.lastRun = at[r]]]
          /\ Rewritten(r, s)
          /\ runs' = Append(runs, NewRun(s, snap[r][s], at[r]))
          /\ run' = [run EXCEPT ![r] = Len(runs) + 1]
          /\ snap' = [snap EXCEPT ![r][s] = NoDoc]
    /\ Goto(r, "report")
    /\ UNCHANGED <<now, active, outdated, issued, at, disturbances, rewound>>

Claim(r) ==
    /\ pc[r] = "claim"
    /\ \E s \in DueFor(r) \intersect valid[r] :
          /\ schedules' = [schedules EXCEPT ![s] = [snap[r][s] EXCEPT !.lastRun = at[r]]]
          /\ Rewritten(r, s)
          /\ runs' = Append(runs, NewRun(s, snap[r][s], at[r]))
          /\ run' = [run EXCEPT ![r] = Len(runs) + 1]
          /\ snap' = [snap EXCEPT ![r][s] = NoDoc]
    /\ Goto(r, "report")
    /\ UNCHANGED <<now, active, outdated, issued, at, disturbances, rewound>>

(* 412: somebody wrote the schedule since; the loop goes on.  404: it was  *)
(* deleted; the exception ends the handler.                                *)
ClaimRefused(r) ==
    /\ pc[r] = "claim"
    /\ \E s \in DueFor(r) \ valid[r] :
          \/ /\ s \in Stored
             /\ snap' = [snap EXCEPT ![r][s] = NoDoc]
             /\ UNCHANGED <<pc, valid, at, run>>
          \/ s \notin Stored /\ FinishAndForget(r)
    /\ UNCHANGED <<now, active, outdated, container, runs, disturbances, rewound>>

NothingDue(r) ==
    /\ pc[r] = "claim"
    /\ DueFor(r) = {}
    /\ FinishAndForget(r)
    /\ UNCHANGED <<now, active, outdated, container, runs, disturbances, rewound>>

BackToLoop(r) ==
    /\ Goto(r, "claim")
    /\ run' = [run EXCEPT ![r] = 0]
    /\ UNCHANGED <<snap, valid, at>>

(* create_report; when it raises, this run is given up (the claim stays).  *)
BugCreateReport(r) ==      \* the push goes on although the report failed
    /\ pc[r] = "report"
    /\ \/ runs' = [runs EXCEPT ![run[r]].report = "ANALYZING"]
       \/ "report_error" \in Faults /\ UNCHANGED runs
    /\ Goto(r, "push")
    /\ UNCHANGED <<now, active, outdated, container, snap, valid, at, run, disturbances,
                   rewound>>

CreateReport(r) ==
    /\ pc[r] = "report"
    /\ \/ /\ runs' = [runs EXCEPT ![run[r]].report = "ANALYZING"]
          /\ Goto(r, "push")
          /\ UNCHANGED <<snap, valid, at, run>>
       \/ /\ "report_error" \in Faults
          /\ runs' = [runs EXCEPT ![run[r]].report = "ANALYZING"] \/ UNCHANGED runs
          /\ BackToLoop(r)
    /\ UNCHANGED <<now, active, outdated, container, disturbances, rewound>>

(* The push: the first run that is triggered ends the poll.                *)
Push(r) ==
    /\ pc[r] = "push"
    /\ \/ /\ runs' = [runs EXCEPT ![run[r]].command = TRUE]
          /\ FinishAndForget(r)
       \/ /\ "push_error" \in Faults
          /\ runs' = [runs EXCEPT ![run[r]].command = TRUE] \/ UNCHANGED runs
          /\ Goto(r, "mark_failed")
          /\ UNCHANGED <<snap, valid, at, run>>
    /\ UNCHANGED <<now, active, outdated, container, disturbances, rewound>>

(* mark_as_failed and a blind upsert of the report; on to the next one.    *)
MarkFailed(r) ==
    /\ pc[r] = "mark_failed"
    /\ runs' = [runs EXCEPT ![run[r]].report = "FAILED"]
    /\ BackToLoop(r)
    /\ UNCHANGED <<now, active, outdated, container, disturbances, rewound>>

----------------------------------------------------------------------------
(* POST schedules (create_schedule_use_case.py): count, validate, create.  *)

BugCreateSchedule(r) ==      \* only the enabled schedules are counted
    /\ ~outdated
    /\ Cardinality({s \in Stored : schedules[s].enabled}) < Limit
    /\ Disturb
    /\ Begin(r, "create")
    /\ UNCHANGED <<now, active, outdated, container, runs, snap, valid, at, run, rewound>>

CreateSchedule(r) ==
    /\ ~outdated
    /\ Cardinality(Stored) < Limit
    /\ Disturb
    /\ Begin(r, "create")
    /\ UNCHANGED <<now, active, outdated, container, runs, snap, valid, at, run, rewound>>

CreateScheduleSave(r) ==
    /\ pc[r] = "create"
    /\ \E s \in ScheduleIds \ issued, e \in BOOLEAN, c \in Crons :
          /\ schedules' = [schedules EXCEPT ![s] =
                              [enabled |-> e, cron |-> c, lastRun |-> Never]]
          /\ issued' = issued \union {s}
    /\ FinishAndForget(r)
    /\ UNCHANGED <<now, active, outdated, runs, disturbances, rewound>>

(* PUT schedules/{id} (update_schedule_use_case.py): enabled and cron, any *)
(* of the two, on the copy read; saved under its etag, else an error.      *)
UpdateSchedule(r, s) ==
    /\ s \in Stored
    /\ ~outdated
    /\ Disturb
    /\ Begin(r, "update")
    /\ \E e \in BOOLEAN, c \in Crons :
          snap' = [snap EXCEPT ![r][s] =
                      [schedules[s] EXCEPT !.enabled = e, !.cron = c]]
    /\ valid' = [valid EXCEPT ![r] = {s}]
    /\ UNCHANGED <<now, active, outdated, container, runs, at, run, rewound>>

BugUpdateScheduleSave(r) ==      \* _etag lost: the upsert branch of update
    /\ pc[r] = "update"
    /\ \E s \in ScheduleIds :
          /\ snap[r][s] # NoDoc
          /\ schedules' = [schedules EXCEPT ![s] = snap[r][s]]
          /\ Rewritten(r, s)
    /\ Finish(r)
    /\ UNCHANGED <<now, active, outdated, issued, runs, disturbances, rewound>>

UpdateScheduleSave(r) ==
    /\ pc[r] = "update"
    /\ \E s \in ScheduleIds :
          /\ snap[r][s] # NoDoc
          /\ IF s \in valid[r]
             THEN /\ schedules' = [schedules EXCEPT ![s] = snap[r][s]]
                  /\ Rewritten(r, s)
             ELSE /\ valid' = [valid EXCEPT ![r] = {}]
                  /\ UNCHANGED schedules
    /\ Finish(r)
    /\ UNCHANGED <<now, active, outdated, issued, runs, disturbances, rewound>>

(* DELETE schedules/{id}: what it read only matters for the 404 and 403.   *)
DeleteSchedule(s) ==
    /\ s \in Stored
    /\ Disturb
    /\ schedules' = [schedules EXCEPT ![s] = NoDoc]
    /\ valid' = [q \in Requests |-> valid[q] \ {s}]
    /\ UNCHANGED <<now, active, outdated, issued, runs, pc, snap, at, run, rewound>>

----------------------------------------------------------------------------
(* disable_by_agent, called by the deactivation and by the confirmation of *)
(* the deletion (module AgentLifecycle): query, then one batch of blind    *)
(* upserts of the bodies read.                                             *)

Deactivate(r) ==
    /\ Disturb
    /\ Begin(r, "disable_query")
    /\ active' = FALSE
    /\ UNCHANGED <<now, outdated, container, runs, snap, valid, at, run, rewound>>

DisableQuery(r) ==
    /\ pc[r] = "disable_query"
    /\ snap' = [snap EXCEPT ![r] = EnabledSchedules]
    /\ valid' = [valid EXCEPT ![r] = Stored]
    /\ Goto(r, "disable_save")
    /\ UNCHANGED <<now, active, outdated, container, runs, at, run, disturbances, rewound>>

DisableSave(r) ==
    /\ pc[r] = "disable_save"
    /\ LET read == {s \in ScheduleIds : snap[r][s] # NoDoc}
       IN  /\ schedules' = [s \in ScheduleIds |->
                               IF s \in read THEN [snap[r][s] EXCEPT !.enabled = FALSE]
                               ELSE schedules[s]]
           /\ valid' = [q \in Requests |-> IF q = r THEN {} ELSE valid[q] \ read]
           /\ rewound' = rewound \union (read \ valid[r])
    /\ Finish(r)
    /\ UNCHANGED <<now, active, outdated, issued, runs, disturbances>>

----------------------------------------------------------------------------
(* A failed deactivation patched back to ACTIVE; a major release; the      *)
(* agent's update to it; the clock.                                        *)

Reactivate ==
    /\ ~active
    /\ active' = TRUE
    /\ UNCHANGED <<now, outdated, container, runs, request, disturbances, rewound>>

MajorRelease ==
    /\ ~outdated
    /\ Disturb
    /\ outdated' = TRUE
    /\ UNCHANGED <<now, active, container, runs, request, rewound>>

AgentUpdated ==
    /\ outdated
    /\ outdated' = FALSE
    /\ UNCHANGED <<now, active, container, runs, request, disturbances, rewound>>

Tick ==
    /\ now < MaxTime
    /\ now' = now + 1
    /\ UNCHANGED <<active, outdated, container, runs, request, disturbances, rewound>>

Abort(r) ==
    /\ "abort" \in Faults
    /\ pc[r] # "idle"
    /\ Disturb
    /\ FinishAndForget(r)
    /\ UNCHANGED <<now, active, outdated, container, runs, rewound>>

----------------------------------------------------------------------------
Proceed(r) ==
    \/ ListEnabled(r) \/ Claim(r) \/ ClaimRefused(r) \/ NothingDue(r)
    \/ CreateReport(r) \/ Push(r) \/ MarkFailed(r)
    \/ CreateScheduleSave(r) \/ UpdateScheduleSave(r)
    \/ DisableQuery(r) \/ DisableSave(r)

Next ==
    \/ \E r \in Requests :
          \/ Poll(r) \/ CreateSchedule(r) \/ Deactivate(r) \/ Proceed(r) \/ Abort(r)
          \/ \E s \in ScheduleIds : UpdateSchedule(r, s)
    \/ \E s \in ScheduleIds : DeleteSchedule(s)
    \/ Reactivate \/ MajorRelease \/ AgentUpdated \/ Tick

Spec == Init /\ [][Next]_vars

(* Handlers run to their end, and the agent's timer keeps polling.         *)
Fairness ==
    /\ \A r \in Requests : WF_vars(Proceed(r))
    /\ SF_vars(\E r \in Requests : Poll(r))

FairSpec == Spec /\ Fairness

----------------------------------------------------------------------------
(* Properties.                                                             *)

Commands == {i \in DOMAIN runs : runs[i].command}

(* A cron instant lies between the two runs, the later of which it caused. *)
Separated(a, b) ==
    \/ \E f \in b.cron : a.at < f /\ f =< b.at
    \/ \E f \in a.cron : b.at < f /\ f =< a.at

(* Overlapping polls, replicas and edits never run a schedule twice for    *)
(* one cron instant (docs/scheduled-diagnosis-architecture.md:80), except  *)
(* a schedule that disable_by_agent wrote back as it was before a claim.   *)
OncePerInstantUnlessRewound ==
    \A i, j \in Commands :
        i # j /\ runs[i].schedule = runs[j].schedule
              /\ runs[i].schedule \notin rewound
            => Separated(runs[i], runs[j])

(* The agent never gets a command whose report does not exist: its         *)
(* callbacks would be answered with 404 (order of steps 2 and 3).          *)
CommandsHaveReports == \A i \in Commands : runs[i].report # "none"

(* disable_by_agent is the only writer that loses another's write: nothing *)
(* else takes last_run_at back or brings a deleted schedule back.          *)
OnlyDisableRewinds ==
    [][\A s \in issued :
          \/ schedules'[s] = NoDoc
          \/ schedules[s] # NoDoc /\ schedules[s].lastRun =< schedules'[s].lastRun
          \/ s \in rewound']_vars

(* The count is checked before an await and never again, so requests that  *)
(* overlap exceed FREE_SCHEDULE_LIMIT (create_schedule_use_case.py:55), but*)
(* never by more than there are others at work; apart from them only a     *)
(* schedule that disable_by_agent brought back exceeds it.                 *)
Creating == {r \in Requests : pc[r] = "create"}

OnlyOverlapExceedsLimit ==
    Cardinality(Stored \ rewound) + Cardinality(Creating) < Limit + Cardinality(Requests)

(* A schedule that is due ends in a command, or in a FAILED report that    *)
(* says there is none, however the polls overlap, refuse each other's      *)
(* claims and take one schedule each; unless its agent is deactivated or   *)
(* falls behind, or the schedule is disabled, deleted or edited before.    *)
(* It says this of crashless handlers whose reports can be stored: a claim *)
(* stands (trigger_scheduled_run_use_case.py:89), so a crash after it, or a*)
(* report that cannot be stored (lines 111-120), skips the instant without *)
(* a trace.                                                                *)
Eligible(s) == active /\ ~outdated /\ s \in Stored /\ schedules[s].enabled
Waiting(s) ==
    /\ Eligible(s)
    /\ schedules[s].lastRun = Never
          \/ \E f \in schedules[s].cron : f \in schedules[s].lastRun + 1 .. now
WaitingSince(s, t) == Waiting(s) /\ schedules[s].lastRun = t
Withdrawn(s, t) ==
    ~Eligible(s) \/ (schedules[s].lastRun = t /\ ~Waiting(s))
AnsweredSince(s, t) ==
    \E i \in DOMAIN runs : /\ runs[i].schedule = s
                           /\ runs[i].at > t
                           /\ runs[i].command \/ runs[i].report = "FAILED"
DueIsAnswered ==
    \A s \in ScheduleIds : \A t \in Never .. MaxTime - 1 :
        WaitingSince(s, t) ~> Withdrawn(s, t) \/ AnsweredSince(s, t)

----------------------------------------------------------------------------
(* "Preventing a duplicate run goes before missing one"                    *)
(* (docs/scheduled-diagnosis-architecture.md:80): never two commands of    *)
(* one schedule for one cron instant.                                      *)
OncePerInstant ==
    \A i, j \in Commands :
        i # j /\ runs[i].schedule = runs[j].schedule => Separated(runs[i], runs[j])
=============================================================================
