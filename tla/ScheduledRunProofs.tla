------------------------- MODULE ScheduledRunProofs -------------------------
(***************************************************************************)
(* Proofs about ScheduledRun, for any number of schedules, cron expressions*)
(* and concurrent requests, any time bound and any faults.                 *)
(***************************************************************************)
EXTENDS ScheduledRun, FiniteSetTheorems, TLAPS

(* A handler past the claim has a run.                                     *)
InRun(r) == pc[r] \in {"report", "push", "mark_failed"}

HasRun == \A r \in Requests : InRun(r) => run[r] \in DOMAIN runs

TypeInv == TypeOK /\ HasRun

(* Changing one field of one run keeps the sequence of runs.               *)
LEMMA RunsChange ==
    ASSUME TypeOK, NEW i \in DOMAIN runs, NEW x \in Run,
           runs' = [runs EXCEPT ![i] = x]
    PROVE  /\ runs' \in Seq(Run)
           /\ DOMAIN runs' = DOMAIN runs
           /\ runs'[i] = x
           /\ \A j \in DOMAIN runs : j # i => runs'[j] = runs[j]
  BY DEF TypeOK

LEMMA RunsAppend ==
    ASSUME TypeOK, NEW x \in Run, runs' = Append(runs, x)
    PROVE  /\ runs' \in Seq(Run)
           /\ DOMAIN runs' = DOMAIN runs \union {Len(runs) + 1}
           /\ Len(runs) + 1 \notin DOMAIN runs
           /\ Len(runs) + 1 \in Nat
           /\ runs'[Len(runs) + 1] = x
           /\ \A j \in DOMAIN runs : runs'[j] = runs[j]
  BY DEF TypeOK

LEMMA DocTypes ==
    ASSUME NEW d \in Doc
    PROVE  /\ \A t \in Times : [d EXCEPT !.lastRun = t] \in Doc
           /\ \A e \in BOOLEAN, c \in Crons : [d EXCEPT !.enabled = e, !.cron = c] \in Doc
           /\ [d EXCEPT !.enabled = FALSE] \in Doc
           /\ \A s \in ScheduleIds, t \in Times : NewRun(s, d, t) \in Run
  BY DEF Doc, NewRun, Run

LEMMA InitTypes == Init => TypeInv
  <1> SUFFICES ASSUME Init PROVE TypeInv
    OBVIOUS
  <1>1. 1 \in Times /\ 0 \in 0 .. MaxDisturbances
    BY ScheduleAssumption DEF Times
  <1>2. runs \in Seq(Run)
    BY DEF Init
  <1>3. Nothing \in [ScheduleIds -> Doc \union {NoDoc}]
    BY DEF Nothing
  <1>4. TypeOK
    BY <1>1, <1>2, <1>3 DEF Init, TypeOK, HandlerStates
  <1>5. HasRun
    BY DEF Init, HasRun, InRun
  <1>6. QED
    BY <1>4, <1>5 DEF TypeInv

LEMMA DisturbTypes ==
    ASSUME TypeOK, Disturb
    PROVE  disturbances' \in 0 .. MaxDisturbances
  BY ScheduleAssumption DEF TypeOK, Disturb

(* The handler ends.                                                       *)
LEMMA FinishTypes ==
    ASSUME TypeInv, NEW r \in Requests, Finish(r)
    PROVE  /\ pc' \in [Requests -> HandlerStates]
           /\ snap' \in [Requests -> [ScheduleIds -> Doc \union {NoDoc}]]
           /\ at' \in [Requests -> Times]
           /\ run' \in [Requests -> Nat]
           /\ \A q \in Requests : InRun(q)' => InRun(q) /\ run'[q] = run[q]
  BY ScheduleAssumption
     DEF TypeInv, TypeOK, Finish, Nothing, Times, HandlerStates, InRun

LEMMA TypeStep ==
    ASSUME TypeInv, [Next]_vars
    PROVE  TypeInv'
  <1> USE DEF TypeInv, container, request
  <1>1. ASSUME NEW r \in Requests, Poll(r)
        PROVE  TypeInv'
    BY <1>1 DEF Poll, Begin, TypeOK, HandlerStates, HasRun, InRun
  <1>2. ASSUME NEW r \in Requests, ListEnabled(r)
        PROVE  TypeInv'
    BY <1>2 DEF ListEnabled, Goto, TypeOK, HandlerStates, HasRun, InRun, Stored,
       EnabledSchedules
  <1>3. ASSUME NEW r \in Requests, Claim(r)
        PROVE  TypeInv'
    <2>1. PICK s \in DueFor(r) \intersect valid[r] :
              /\ schedules' = [schedules EXCEPT ![s] = [snap[r][s] EXCEPT !.lastRun = at[r]]]
              /\ Rewritten(r, s)
              /\ runs' = Append(runs, NewRun(s, snap[r][s], at[r]))
              /\ run' = [run EXCEPT ![r] = Len(runs) + 1]
              /\ snap' = [snap EXCEPT ![r][s] = NoDoc]
      BY <1>3 DEF Claim
    <2>2. s \in ScheduleIds /\ snap[r][s] \in Doc /\ at[r] \in Times
      BY DEF DueFor, TypeOK
    <2>3. /\ [snap[r][s] EXCEPT !.lastRun = at[r]] \in Doc
          /\ NewRun(s, snap[r][s], at[r]) \in Run
      BY <2>2, DocTypes
    <2>4. /\ runs' \in Seq(Run)
          /\ DOMAIN runs' = DOMAIN runs \union {Len(runs) + 1}
          /\ Len(runs) + 1 \in Nat
      BY <2>1, <2>3, RunsAppend
    <2>5. TypeOK'
      BY <1>3, <2>1, <2>2, <2>3, <2>4 DEF Claim, Goto, Rewritten, TypeOK, HandlerStates
    <2>6. HasRun'
      BY <1>3, <2>1, <2>4 DEF Claim, Goto, HasRun, InRun, TypeOK
    <2>7. QED
      BY <2>5, <2>6
  <1>4. ASSUME NEW r \in Requests, ClaimRefused(r) \/ NothingDue(r) \/ Abort(r)
        PROVE  TypeInv'
    <2>1. CASE FinishAndForget(r)
      <3>1. /\ UNCHANGED <<now, active, outdated, container, runs, rewound>>
            /\ disturbances' \in 0 .. MaxDisturbances
        BY <1>4, ScheduleAssumption DEF ClaimRefused, NothingDue, Abort, Disturb, TypeOK
      <3>2. QED
        BY <2>1, <3>1, FinishTypes DEF FinishAndForget, TypeOK, HasRun
    <2>2. CASE ~FinishAndForget(r)
      <3>1. \E s \in ScheduleIds : snap' = [snap EXCEPT ![r][s] = NoDoc]
        BY <1>4, <2>2 DEF ClaimRefused, NothingDue, Abort, DueFor
      <3>2. snap' \in [Requests -> [ScheduleIds -> Doc \union {NoDoc}]]
        BY <3>1 DEF TypeOK
      <3>3. /\ UNCHANGED <<now, active, outdated, container, runs, disturbances, rewound>>
            /\ UNCHANGED <<pc, valid, at, run>>
        BY <1>4, <2>2 DEF ClaimRefused, NothingDue, Abort
      <3>4. QED
        BY <3>2, <3>3 DEF TypeOK, HasRun, InRun
    <2>3. QED
      BY <2>1, <2>2
  <1>5. ASSUME NEW r \in Requests, CreateReport(r) \/ Push(r) \/ MarkFailed(r)
        PROVE  TypeInv'
    <2>1. run[r] \in DOMAIN runs
      BY <1>5 DEF CreateReport, Push, MarkFailed, HasRun, InRun
    <2>2. runs[run[r]] \in Run
      BY <2>1 DEF TypeOK
    <2>3. /\ [runs[run[r]] EXCEPT !.report = "ANALYZING"] \in Run
          /\ [runs[run[r]] EXCEPT !.report = "FAILED"] \in Run
          /\ [runs[run[r]] EXCEPT !.command = TRUE] \in Run
      BY <2>2 DEF Run
    <2>4. \E x \in Run : runs' = [runs EXCEPT ![run[r]] = x] \/ runs' = runs
      BY <1>5, <2>1, <2>3 DEF CreateReport, Push, MarkFailed
    <2>5. runs' \in Seq(Run) /\ DOMAIN runs' = DOMAIN runs
      BY <2>1, <2>4, RunsChange DEF TypeOK
    <2>6. CASE FinishAndForget(r)
      BY <1>5, <2>5, <2>6, FinishTypes
         DEF CreateReport, Push, MarkFailed, FinishAndForget, TypeOK, HasRun
    <2>7. CASE ~FinishAndForget(r)
      <3>1. /\ UNCHANGED <<now, active, outdated, container, disturbances, rewound>>
            /\ UNCHANGED <<snap, valid, at>>
            /\ \/ Goto(r, "claim") /\ run' = [run EXCEPT ![r] = 0]
               \/ Goto(r, "push") /\ UNCHANGED run
               \/ Goto(r, "mark_failed") /\ UNCHANGED run
        BY <1>5, <2>7 DEF CreateReport, Push, MarkFailed, BackToLoop
      <3>2. TypeOK'
        <4>1. run' \in [Requests -> Nat]
          BY <3>1 DEF TypeOK
        <4>2. pc' \in [Requests -> HandlerStates]
          BY <3>1 DEF Goto, TypeOK, HandlerStates
        <4>3. QED
          BY <2>5, <3>1, <4>1, <4>2 DEF TypeOK
      <3>3. ASSUME NEW q \in Requests, InRun(q)'
            PROVE  InRun(q) /\ run'[q] = run[q]
        <4>1. CASE q = r
          BY <1>5, <3>1, <3>3, <4>1
             DEF Goto, TypeOK, InRun, CreateReport, Push, MarkFailed
        <4>2. CASE q # r
          BY <3>1, <3>3, <4>2 DEF Goto, TypeOK, InRun
        <4>3. QED
          BY <4>1, <4>2
      <3>4. QED
        BY <2>5, <3>2, <3>3 DEF HasRun
    <2>8. QED
      BY <2>6, <2>7
  <1>6. ASSUME NEW r \in Requests, CreateSchedule(r) \/ Deactivate(r)
        PROVE  TypeInv'
    <2>1. disturbances' \in 0 .. MaxDisturbances
      BY <1>6, DisturbTypes DEF CreateSchedule, Deactivate
    <2>2. QED
      BY <1>6, <2>1
         DEF CreateSchedule, Deactivate, Begin, TypeOK, HandlerStates, HasRun, InRun
  <1>7. ASSUME NEW r \in Requests, CreateScheduleSave(r)
        PROVE  TypeInv'
    <2>1. /\ schedules' \in [ScheduleIds -> Doc \union {NoDoc}]
          /\ issued' \subseteq ScheduleIds
      BY <1>7 DEF CreateScheduleSave, TypeOK, Doc
    <2>2. QED
      BY <1>7, <2>1, FinishTypes DEF CreateScheduleSave, FinishAndForget, TypeOK, HasRun
  <1>8. ASSUME NEW r \in Requests, NEW s \in ScheduleIds, UpdateSchedule(r, s)
        PROVE  TypeInv'
    <2>1. PICK e \in BOOLEAN, c \in Crons :
              snap' = [snap EXCEPT ![r][s] = [schedules[s] EXCEPT !.enabled = e, !.cron = c]]
      BY <1>8 DEF UpdateSchedule
    <2>2. [schedules[s] EXCEPT !.enabled = e, !.cron = c] \in Doc
      BY <1>8, DocTypes DEF UpdateSchedule, Stored, TypeOK
    <2>3. disturbances' \in 0 .. MaxDisturbances
      BY <1>8, DisturbTypes DEF UpdateSchedule
    <2>4. QED
      BY <1>8, <2>1, <2>2, <2>3
         DEF UpdateSchedule, Begin, TypeOK, HandlerStates, HasRun, InRun
  <1>9. ASSUME NEW r \in Requests, UpdateScheduleSave(r)
        PROVE  TypeInv'
    <2>1. PICK s \in ScheduleIds :
              /\ snap[r][s] # NoDoc
              /\ \/ schedules' = [schedules EXCEPT ![s] = snap[r][s]] /\ Rewritten(r, s)
                 \/ schedules' = schedules /\ valid' = [valid EXCEPT ![r] = {}]
      BY <1>9 DEF UpdateScheduleSave
    <2>2. snap[r][s] \in Doc \union {NoDoc}
      BY DEF TypeOK
    <2>3. /\ schedules' \in [ScheduleIds -> Doc \union {NoDoc}]
          /\ valid' \in [Requests -> SUBSET ScheduleIds]
      <3>1. schedules' \in [ScheduleIds -> Doc \union {NoDoc}]
        BY <2>1, <2>2 DEF TypeOK
      <3>2. CASE Rewritten(r, s)
        BY <3>1, <3>2 DEF Rewritten, TypeOK
      <3>3. CASE valid' = [valid EXCEPT ![r] = {}]
        BY <3>1, <3>3 DEF TypeOK
      <3>4. QED
        BY <2>1, <3>2, <3>3
    <2>4. QED
      BY <1>9, <2>3, FinishTypes DEF UpdateScheduleSave, TypeOK, HasRun
  <1>10. ASSUME NEW r \in Requests, DisableQuery(r)
         PROVE  TypeInv'
    BY <1>10 DEF DisableQuery, Goto, TypeOK, HandlerStates, HasRun, InRun, Stored,
       EnabledSchedules
  <1>11. ASSUME NEW r \in Requests, DisableSave(r)
         PROVE  TypeInv'
    <2>1. \A s \in ScheduleIds : snap[r][s] # NoDoc
                => [snap[r][s] EXCEPT !.enabled = FALSE] \in Doc
      <3>1. SUFFICES ASSUME NEW s \in ScheduleIds, snap[r][s] # NoDoc
                     PROVE  [snap[r][s] EXCEPT !.enabled = FALSE] \in Doc
        OBVIOUS
      <3>2. snap[r][s] \in Doc
        BY <3>1 DEF TypeOK
      <3>3. QED
        BY <3>2, DocTypes
    <2>2. /\ schedules' \in [ScheduleIds -> Doc \union {NoDoc}]
          /\ valid' \in [Requests -> SUBSET ScheduleIds]
          /\ rewound' \subseteq ScheduleIds
      BY <1>11, <2>1 DEF DisableSave, TypeOK
    <2>3. QED
      BY <1>11, <2>2, FinishTypes DEF DisableSave, TypeOK, HasRun
  <1>12. ASSUME NEW s \in ScheduleIds, DeleteSchedule(s)
         PROVE  TypeInv'
    BY <1>12, ScheduleAssumption DEF DeleteSchedule, Disturb, TypeOK, HasRun, InRun
  <1>13. CASE Reactivate \/ MajorRelease \/ AgentUpdated \/ Tick
    <2>1. CASE Reactivate \/ AgentUpdated
      BY <2>1 DEF Reactivate, AgentUpdated, TypeOK, HasRun, InRun
    <2>2. CASE MajorRelease
      BY <2>2, DisturbTypes DEF MajorRelease, TypeOK, HasRun, InRun
    <2>3. CASE Tick
      <3>1. now' \in Times
        BY <2>3, ScheduleAssumption DEF Tick, Times, TypeOK
      <3>2. QED
        BY <2>3, <3>1 DEF Tick, TypeOK, HasRun, InRun
    <2>4. QED
      BY <1>13, <2>1, <2>2, <2>3
  <1>14. CASE UNCHANGED vars
    BY <1>14 DEF vars, TypeOK, HasRun, InRun
  <1>15. QED
    BY <1>1, <1>2, <1>3, <1>4, <1>5, <1>6, <1>7, <1>8, <1>9, <1>10, <1>11, <1>12, <1>13,
       <1>14 DEF Next, Proceed

(* The type invariant for every value of the constants.                    *)
THEOREM ScheduleTypes == Spec => []TypeOK
  <1>1. TypeInv => TypeOK
    BY DEF TypeInv
  <1>2. QED
    BY <1>1, InitTypes, TypeStep, PTL DEF Spec

----------------------------------------------------------------------------
(* CommandsHaveReports is inductive once the handlers between the report   *)
(* and the end of the push are known to have a report.                     *)
ReportsFirst ==
    /\ CommandsHaveReports
    /\ \A r \in Requests :
           pc[r] \in {"push", "mark_failed"} => runs[run[r]].report # "none"

(* What a step does to the runs, and to the handlers that have one.        *)
LEMMA RunSteps ==
    ASSUME TypeInv, [Next]_vars
    PROVE  \/ runs' = runs
           \/ \E r \in Requests, s \in ScheduleIds :
                 Claim(r) /\ runs' = Append(runs, NewRun(s, snap[r][s], at[r]))
           \/ \E r \in Requests :
                 \/ CreateReport(r) /\ runs' = [runs EXCEPT ![run[r]].report = "ANALYZING"]
                 \/ Push(r) /\ runs' = [runs EXCEPT ![run[r]].command = TRUE]
                 \/ MarkFailed(r) /\ runs' = [runs EXCEPT ![run[r]].report = "FAILED"]
  <1> USE DEF container, request
  <1>1. ASSUME NEW r \in Requests, Proceed(r)
        PROVE  \/ runs' = runs
               \/ \E s \in ScheduleIds :
                     Claim(r) /\ runs' = Append(runs, NewRun(s, snap[r][s], at[r]))
               \/ CreateReport(r) /\ runs' = [runs EXCEPT ![run[r]].report = "ANALYZING"]
               \/ Push(r) /\ runs' = [runs EXCEPT ![run[r]].command = TRUE]
               \/ MarkFailed(r) /\ runs' = [runs EXCEPT ![run[r]].report = "FAILED"]
    <2>1. CASE Claim(r)
      BY <2>1 DEF Claim, DueFor
    <2>2. CASE CreateReport(r) \/ Push(r) \/ MarkFailed(r)
      BY <2>2 DEF CreateReport, Push, MarkFailed
    <2>3. CASE ListEnabled(r) \/ ClaimRefused(r) \/ NothingDue(r) \/ CreateScheduleSave(r)
               \/ UpdateScheduleSave(r) \/ DisableQuery(r) \/ DisableSave(r)
      BY <2>3 DEF ListEnabled, ClaimRefused, NothingDue, CreateScheduleSave,
         UpdateScheduleSave, DisableQuery, DisableSave
    <2>4. QED
      BY <1>1, <2>1, <2>2, <2>3 DEF Proceed
  <1>2. CASE \E r \in Requests :
                \/ Poll(r) \/ CreateSchedule(r) \/ Deactivate(r) \/ Abort(r)
                \/ \E s \in ScheduleIds : UpdateSchedule(r, s)
    BY <1>2 DEF Poll, CreateSchedule, Deactivate, Abort, UpdateSchedule
  <1>3. CASE \/ \E s \in ScheduleIds : DeleteSchedule(s)
             \/ Reactivate \/ MajorRelease \/ AgentUpdated \/ Tick
             \/ UNCHANGED vars
    BY <1>3 DEF DeleteSchedule, Reactivate, MajorRelease, AgentUpdated, Tick, vars
  <1>4. QED
    BY <1>1, <1>2, <1>3 DEF Next

(* Which steps take a handler to the push or to mark_as_failed.            *)
LEMMA ToPush ==
    ASSUME TypeInv, [Next]_vars, NEW q \in Requests,
           pc'[q] \in {"push", "mark_failed"}
    PROVE  /\ run'[q] = run[q]
           /\ \/ pc[q] \in {"push", "mark_failed"}
              \/ CreateReport(q) /\ runs' = [runs EXCEPT ![run[q]].report = "ANALYZING"]
  <1> USE DEF TypeInv, TypeOK, container, request
  <1>1. ASSUME NEW r \in Requests,
               \/ ListEnabled(r) \/ ClaimRefused(r) \/ NothingDue(r) \/ CreateScheduleSave(r)
               \/ UpdateScheduleSave(r) \/ DisableQuery(r) \/ DisableSave(r) \/ Abort(r)
        PROVE  pc[q] = pc'[q] /\ run'[q] = run[q]
    BY <1>1 DEF ListEnabled, ClaimRefused, NothingDue, CreateScheduleSave,
       UpdateScheduleSave, DisableQuery, DisableSave, Abort, FinishAndForget, Finish, Goto
  <1>2. ASSUME NEW r \in Requests,
               \/ Poll(r) \/ CreateSchedule(r) \/ Deactivate(r)
               \/ \E s \in ScheduleIds : UpdateSchedule(r, s)
        PROVE  pc[q] = pc'[q] /\ run'[q] = run[q]
    BY <1>2 DEF Poll, CreateSchedule, Deactivate, UpdateSchedule, Begin
  <1>3. ASSUME NEW r \in Requests, Claim(r) \/ MarkFailed(r) \/ Push(r)
        PROVE  pc[q] \in {"push", "mark_failed"} /\ run'[q] = run[q]
    BY <1>3 DEF Claim, MarkFailed, Push, BackToLoop, FinishAndForget, Finish, Goto
  <1>4. ASSUME NEW r \in Requests, CreateReport(r)
        PROVE  /\ run'[q] = run[q]
               /\ \/ pc[q] \in {"push", "mark_failed"}
                  \/ q = r /\ runs' = [runs EXCEPT ![run[q]].report = "ANALYZING"]
    BY <1>4 DEF CreateReport, BackToLoop, Goto
  <1>5. CASE \/ \E s \in ScheduleIds : DeleteSchedule(s)
             \/ Reactivate \/ MajorRelease \/ AgentUpdated \/ Tick
             \/ UNCHANGED vars
    BY <1>5 DEF DeleteSchedule, Reactivate, MajorRelease, AgentUpdated, Tick, vars
  <1>6. QED
    BY <1>1, <1>2, <1>3, <1>4, <1>5 DEF Next, Proceed

LEMMA ReportsFirstStep ==
    ASSUME TypeInv, ReportsFirst, [Next]_vars
    PROVE  ReportsFirst'
  <1>1. ASSUME NEW i \in DOMAIN runs', runs'[i].command
        PROVE  runs'[i].report # "none"
    <2>1. CASE runs' = runs
      BY <1>1, <2>1 DEF ReportsFirst, CommandsHaveReports, Commands
    <2>2. ASSUME NEW r \in Requests, NEW s \in ScheduleIds,
                 Claim(r), runs' = Append(runs, NewRun(s, snap[r][s], at[r]))
          PROVE  runs'[i].report # "none"
      <3>1. CASE i \in DOMAIN runs
        BY <1>1, <2>2, <3>1 DEF TypeInv, TypeOK, ReportsFirst, CommandsHaveReports, Commands
      <3>2. CASE i \notin DOMAIN runs
        BY <1>1, <2>2, <3>2 DEF TypeInv, TypeOK, NewRun
      <3>3. QED
        BY <3>1, <3>2
    <2>3. ASSUME NEW r \in Requests,
                 \/ CreateReport(r) /\ runs' = [runs EXCEPT ![run[r]].report = "ANALYZING"]
                 \/ Push(r) /\ runs' = [runs EXCEPT ![run[r]].command = TRUE]
                 \/ MarkFailed(r) /\ runs' = [runs EXCEPT ![run[r]].report = "FAILED"]
          PROVE  runs'[i].report # "none"
      <3>1. run[r] \in DOMAIN runs /\ DOMAIN runs' = DOMAIN runs
        BY <2>3 DEF TypeInv, HasRun, InRun, CreateReport, Push, MarkFailed
      <3>2. runs[run[r]] \in Run /\ runs[i] \in Run
        BY <1>1, <3>1 DEF TypeInv, TypeOK
      <3>3. CASE i # run[r]
        BY <1>1, <2>3, <3>1, <3>3 DEF ReportsFirst, CommandsHaveReports, Commands
      <3>4. CASE i = run[r] /\ ~Push(r)
        BY <2>3, <3>1, <3>2, <3>4 DEF Run
      <3>5. CASE i = run[r] /\ Push(r)
        <4>1. runs[i].report # "none"
          BY <3>5 DEF ReportsFirst, Push
        <4>2. QED
          BY <2>3, <3>1, <3>2, <3>5, <4>1 DEF Run, Push, CreateReport, MarkFailed
      <3>6. QED
        BY <3>3, <3>4, <3>5
    <2>4. QED
      BY <2>1, <2>2, <2>3, RunSteps
  <1>2. ASSUME NEW q \in Requests, pc'[q] \in {"push", "mark_failed"}
        PROVE  runs'[run'[q]].report # "none"
    <2>1. run[q] \in DOMAIN runs /\ runs[run[q]] \in Run
      BY <1>2, ToPush DEF TypeInv, TypeOK, HasRun, InRun, CreateReport
    <2>2. CASE CreateReport(q) /\ runs' = [runs EXCEPT ![run[q]].report = "ANALYZING"]
      BY <1>2, <2>1, <2>2, ToPush DEF Run
    <2>3. CASE pc[q] \in {"push", "mark_failed"}
      <3>1. runs[run[q]].report # "none" /\ run'[q] = run[q]
        BY <1>2, <2>3, ToPush DEF ReportsFirst
      <3>2. ASSUME NEW r \in Requests, NEW s \in ScheduleIds,
                   runs' = Append(runs, NewRun(s, snap[r][s], at[r]))
            PROVE  runs'[run[q]] = runs[run[q]]
        BY <2>1, <3>2 DEF TypeInv, TypeOK
      <3>3. ASSUME NEW r \in Requests, run[r] \in DOMAIN runs,
                   \/ runs' = [runs EXCEPT ![run[r]].report = "ANALYZING"]
                   \/ runs' = [runs EXCEPT ![run[r]].command = TRUE]
                   \/ runs' = [runs EXCEPT ![run[r]].report = "FAILED"]
            PROVE  runs'[run[q]].report # "none"
        BY <2>1, <3>1, <3>3 DEF Run
      <3>4. QED
        BY <3>1, <3>2, <3>3, RunSteps DEF TypeInv, HasRun, InRun, CreateReport, Push,
           MarkFailed
    <2>4. QED
      BY <1>2, <2>2, <2>3, ToPush
  <1>3. QED
    BY <1>1, <1>2 DEF ReportsFirst, CommandsHaveReports, Commands

(* No command without a stored report, for every value of the constants.   *)
THEOREM CommandsBacked == Spec => []CommandsHaveReports
  <1>1. Init => ReportsFirst
    BY DEF Init, ReportsFirst, CommandsHaveReports, Commands
  <1>2. ReportsFirst => CommandsHaveReports
    BY DEF ReportsFirst
  <1>3. QED
    BY <1>1, <1>2, InitTypes, TypeStep, ReportsFirstStep, PTL DEF Spec

----------------------------------------------------------------------------
(* Why a schedule is not run twice for one instant.  last_run_at of a      *)
(* schedule that was not rewound is at or after each of its runs; a handler*)
(* whose etag is valid knows the stored last_run_at; and an id that was    *)
(* never issued has no trace.                                              *)
RunsSeparated ==
    \A i, j \in DOMAIN runs :
        i # j /\ runs[i].schedule = runs[j].schedule
              /\ runs[i].schedule \notin rewound
            => Separated(runs[i], runs[j])

RunsRecorded ==
    \A i \in DOMAIN runs :
        LET s == runs[i].schedule
        IN  s \in Stored /\ s \notin rewound => runs[i].at =< schedules[s].lastRun

EtagsHold ==
    \A r \in Requests : \A s \in valid[r] :
        snap[r][s] # NoDoc
            => s \in Stored /\ schedules[s].lastRun = snap[r][s].lastRun

IdsIssued ==
    /\ Stored \subseteq issued
    /\ \A i \in DOMAIN runs : runs[i].schedule \in issued
    /\ \A r \in Requests, s \in ScheduleIds : snap[r][s] # NoDoc => s \in issued

SafeInv == TypeInv /\ RunsSeparated /\ RunsRecorded /\ EtagsHold /\ IdsIssued

(* The step of a claim: the new last_run_at, the new run, and the cron     *)
(* instant between it and every earlier run of the schedule.               *)
LEMMA ClaimAdvances ==
    ASSUME SafeInv, NEW r \in Requests,
           NEW s \in DueFor(r) \intersect valid[r]
    PROVE  /\ s \in Stored /\ snap[r][s] \in Doc /\ at[r] \in Times
           /\ schedules[s].lastRun =< at[r]
           /\ s \notin rewound =>
                \A i \in DOMAIN runs : runs[i].schedule = s =>
                    /\ runs[i].at =< at[r]
                    /\ Separated(runs[i], NewRun(s, snap[r][s], at[r]))
                    /\ Separated(NewRun(s, snap[r][s], at[r]), runs[i])
  <1>1. /\ s \in ScheduleIds /\ snap[r][s] \in Doc /\ at[r] \in Times
        /\ IsDue(snap[r][s], at[r])
    BY DEF DueFor, SafeInv, TypeInv, TypeOK
  <1>2. s \in Stored /\ schedules[s].lastRun = snap[r][s].lastRun
    BY DEF SafeInv, EtagsHold, DueFor
  <1>3. at[r] \in Nat /\ at[r] > 0
    BY <1>1, ScheduleAssumption DEF Times
  <1>4. \A f \in snap[r][s].cron : f \in Nat
    <2>1. snap[r][s].cron \in Crons
      BY <1>1 DEF Doc
    <2>2. snap[r][s].cron \in SUBSET Times
      BY <2>1, ScheduleAssumption
    <2>3. Times \subseteq Nat
      BY ScheduleAssumption DEF Times
    <2>4. QED
      BY <2>2, <2>3
  <1>5. snap[r][s].lastRun \in Nat
    BY <1>1, ScheduleAssumption DEF Doc, Times, Never
  <1>6. schedules[s].lastRun =< at[r]
    BY <1>1, <1>2, <1>3, <1>4, <1>5 DEF IsDue, Never
  <1>7. ASSUME s \notin rewound, NEW i \in DOMAIN runs, runs[i].schedule = s
        PROVE  /\ runs[i].at =< at[r]
               /\ Separated(runs[i], NewRun(s, snap[r][s], at[r]))
               /\ Separated(NewRun(s, snap[r][s], at[r]), runs[i])
    <2>1. runs[i].at \in Nat /\ runs[i].at > 0
      <3>1. runs[i] \in Run
        BY <1>7 DEF SafeInv, TypeInv, TypeOK
      <3>2. QED
        BY <3>1, ScheduleAssumption DEF Run, Times
    <2>2. runs[i].at =< snap[r][s].lastRun
      BY <1>2, <1>7 DEF SafeInv, RunsRecorded
    <2>3. PICK f \in snap[r][s].cron : snap[r][s].lastRun < f /\ f =< at[r]
      BY <1>1, <1>5, <2>1, <2>2 DEF IsDue, Never
    <2>4. runs[i].at < f /\ f =< at[r]
      BY <1>3, <1>4, <1>5, <2>1, <2>2, <2>3
    <2>5. /\ NewRun(s, snap[r][s], at[r]).cron = snap[r][s].cron
          /\ NewRun(s, snap[r][s], at[r]).at = at[r]
      BY DEF NewRun
    <2>6. QED
      BY <1>3, <1>4, <2>1, <2>3, <2>4, <2>5 DEF Separated
  <1>8. QED
    BY <1>1, <1>2, <1>6, <1>7

(* The runs a step does not add keep their schedule, instant and cron.     *)
LEMMA RunsKept ==
    ASSUME TypeInv, [Next]_vars, ~(\E r \in Requests : Claim(r))
    PROVE  /\ DOMAIN runs' = DOMAIN runs
           /\ \A i \in DOMAIN runs : /\ runs'[i].schedule = runs[i].schedule
                                     /\ runs'[i].at = runs[i].at
                                     /\ runs'[i].cron = runs[i].cron
  <1>1. CASE runs' = runs
    BY <1>1
  <1>2. ASSUME NEW r \in Requests,
               \/ CreateReport(r) /\ runs' = [runs EXCEPT ![run[r]].report = "ANALYZING"]
               \/ Push(r) /\ runs' = [runs EXCEPT ![run[r]].command = TRUE]
               \/ MarkFailed(r) /\ runs' = [runs EXCEPT ![run[r]].report = "FAILED"]
        PROVE  /\ DOMAIN runs' = DOMAIN runs
               /\ \A i \in DOMAIN runs : /\ runs'[i].schedule = runs[i].schedule
                                         /\ runs'[i].at = runs[i].at
                                         /\ runs'[i].cron = runs[i].cron
    <2>1. run[r] \in DOMAIN runs
      BY <1>2 DEF TypeInv, HasRun, InRun, CreateReport, Push, MarkFailed
    <2>2. runs[run[r]] \in Run
      BY <2>1 DEF TypeInv, TypeOK
    <2>3. QED
      BY <1>2, <2>1, <2>2 DEF Run
  <1>3. QED
    BY <1>1, <1>2, RunSteps

(* What every step but a claim does to the documents and the ids: a stored *)
(* document keeps its last_run_at unless it is rewound or newly issued.    *)
DocsMove ==
    /\ rewound \subseteq rewound'
    /\ issued \subseteq issued'
    /\ Stored' \subseteq issued'
    /\ \A s \in Stored' :
          \/ s \in rewound'
          \/ s \in Stored /\ schedules'[s].lastRun = schedules[s].lastRun
          \/ s \in issued' \ issued

SnapsIssued ==
    \A r \in Requests, s \in ScheduleIds : snap'[r][s] # NoDoc => s \in issued'

(* A step that leaves the runs' instants alone preserves the parts of the  *)
(* invariant if it does the following to the documents.                    *)
LEMMA DocsOnly ==
    ASSUME SafeInv, TypeInv',
           DOMAIN runs' = DOMAIN runs,
           \A i \in DOMAIN runs : /\ runs'[i].schedule = runs[i].schedule
                                  /\ runs'[i].at = runs[i].at
                                  /\ runs'[i].cron = runs[i].cron,
           DocsMove
    PROVE  RunsSeparated' /\ RunsRecorded' /\ Stored' \subseteq issued'
           /\ \A i \in DOMAIN runs' : runs'[i].schedule \in issued'
  <1>1. RunsSeparated'
    BY DEF SafeInv, RunsSeparated, Separated, DocsMove
  <1>2. RunsRecorded'
    BY DEF SafeInv, RunsRecorded, IdsIssued, DocsMove
  <1>3. QED
    BY <1>1, <1>2 DEF SafeInv, IdsIssued, DocsMove

(* The handlers keep valid copies: a step that leaves the documents alone  *)
(* and gives request r a new snapshot, empty or of the stored documents.   *)
LEMMA SnapshotsOnly ==
    ASSUME SafeInv, TypeInv', UNCHANGED <<schedules, issued, rewound>>,
           NEW r \in Requests,
           \A q \in Requests \ {r} : snap'[q] = snap[q] /\ valid'[q] \subseteq valid[q],
           \A s \in ScheduleIds :
               \/ snap'[r][s] = NoDoc
               \/ /\ s \in Stored
                  /\ snap'[r][s].lastRun = schedules[s].lastRun
               \/ /\ snap'[r][s] = snap[r][s]
                  /\ s \in valid'[r] => s \in valid[r]
    PROVE  DocsMove /\ EtagsHold' /\ SnapsIssued
  <1>1. DocsMove
    BY DEF SafeInv, IdsIssued, DocsMove, Stored
  <1>2. SnapsIssued
    <2>1. ASSUME NEW q \in Requests, NEW s \in ScheduleIds, snap'[q][s] # NoDoc
          PROVE  s \in issued'
      BY <2>1 DEF SafeInv, IdsIssued
    <2>2. QED
      BY <2>1 DEF SnapsIssued
  <1>3. EtagsHold'
    <2>1. ASSUME NEW q \in Requests, NEW s \in valid'[q], snap'[q][s] # NoDoc
          PROVE  s \in Stored' /\ schedules'[s].lastRun = snap'[q][s].lastRun
      <3>1. s \in ScheduleIds
        BY DEF TypeInv, TypeOK
      <3>2. Stored' = Stored
        BY DEF Stored
      <3>3. CASE q = r
        BY <2>1, <3>1, <3>2, <3>3 DEF SafeInv, EtagsHold
      <3>4. CASE q # r
        BY <2>1, <3>1, <3>2, <3>4 DEF SafeInv, EtagsHold
      <3>5. QED
        BY <3>3, <3>4
    <2>2. QED
      BY <2>1 DEF EtagsHold
  <1>4. QED
    BY <1>1, <1>2, <1>3

LEMMA OtherSteps ==
    ASSUME SafeInv, TypeInv', [Next]_vars, ~(\E r \in Requests : Claim(r))
    PROVE  DocsMove /\ EtagsHold' /\ SnapsIssued
  <1> USE DEF container, request
  <1>0. TypeInv
    BY DEF SafeInv
  <1>1. ASSUME NEW r \in Requests, ListEnabled(r) \/ DisableQuery(r)
        PROVE  DocsMove /\ EtagsHold' /\ SnapsIssued
    <2>1. UNCHANGED <<schedules, issued, rewound>>
      BY <1>1 DEF ListEnabled, DisableQuery
    <2>2. /\ snap' = [snap EXCEPT ![r] = EnabledSchedules]
          /\ valid' = [valid EXCEPT ![r] = Stored]
      BY <1>1 DEF ListEnabled, DisableQuery
    <2>3. \A q \in Requests \ {r} : snap'[q] = snap[q] /\ valid'[q] \subseteq valid[q]
      BY <1>0, <2>2 DEF TypeInv, TypeOK
    <2>4. snap'[r] = EnabledSchedules
      BY <1>0, <2>2 DEF TypeInv, TypeOK
    <2>5. \A s \in ScheduleIds :
              \/ snap'[r][s] = NoDoc
              \/ s \in Stored /\ snap'[r][s].lastRun = schedules[s].lastRun
      BY <2>4 DEF EnabledSchedules
    <2>6. QED
      BY <2>1, <2>3, <2>5, SnapshotsOnly
  <1>2. ASSUME NEW r \in Requests,
               UNCHANGED <<schedules, issued, rewound>>, FinishAndForget(r)
        PROVE  DocsMove /\ EtagsHold' /\ SnapsIssued
    <2>1. \A q \in Requests \ {r} : snap'[q] = snap[q] /\ valid'[q] \subseteq valid[q]
      BY <1>0, <1>2 DEF FinishAndForget, Finish, TypeInv, TypeOK
    <2>2. \A s \in ScheduleIds : snap'[r][s] = NoDoc
      BY <1>0, <1>2 DEF FinishAndForget, Finish, Nothing, TypeInv, TypeOK
    <2>3. QED
      BY <1>2, <2>1, <2>2, SnapshotsOnly
  <1>3. ASSUME NEW r \in Requests,
               UNCHANGED <<schedules, issued, rewound, valid>>,
               snap' = snap \/ \E s \in ScheduleIds : snap' = [snap EXCEPT ![r][s] = NoDoc]
        PROVE  DocsMove /\ EtagsHold' /\ SnapsIssued
    <2>1. \A q \in Requests \ {r} : snap'[q] = snap[q] /\ valid'[q] \subseteq valid[q]
      BY <1>0, <1>3 DEF TypeInv, TypeOK
    <2>2. \A s \in ScheduleIds :
              \/ snap'[r][s] = NoDoc
              \/ snap'[r][s] = snap[r][s] /\ (s \in valid'[r] => s \in valid[r])
      BY <1>0, <1>3 DEF TypeInv, TypeOK
    <2>3. QED
      BY <1>3, <2>1, <2>2, SnapshotsOnly
  <1>4. ASSUME NEW r \in Requests,
               \/ ClaimRefused(r) \/ NothingDue(r) \/ CreateReport(r) \/ Push(r)
               \/ MarkFailed(r) \/ Poll(r) \/ CreateSchedule(r) \/ Deactivate(r) \/ Abort(r)
        PROVE  DocsMove /\ EtagsHold' /\ SnapsIssued
    <2>1. UNCHANGED <<schedules, issued, rewound>>
      BY <1>4 DEF ClaimRefused, NothingDue, CreateReport, Push, MarkFailed, Poll,
         CreateSchedule, Deactivate, Abort
    <2>2. \/ FinishAndForget(r)
          \/ /\ UNCHANGED valid
             /\ snap' = snap \/ \E s \in ScheduleIds : snap' = [snap EXCEPT ![r][s] = NoDoc]
      BY <1>4 DEF ClaimRefused, NothingDue, CreateReport, Push, MarkFailed, Poll,
         CreateSchedule, Deactivate, Abort, BackToLoop, DueFor
    <2>3. QED
      BY <1>2, <1>3, <2>1, <2>2
  <1>5. ASSUME NEW r \in Requests, NEW s \in ScheduleIds, UpdateSchedule(r, s)
        PROVE  DocsMove /\ EtagsHold' /\ SnapsIssued
    <2>1. PICK e \in BOOLEAN, c \in Crons :
              snap' = [snap EXCEPT ![r][s] = [schedules[s] EXCEPT !.enabled = e, !.cron = c]]
      BY <1>5 DEF UpdateSchedule
    <2>2. /\ UNCHANGED <<schedules, issued, rewound>>
          /\ valid' = [valid EXCEPT ![r] = {s}]
          /\ s \in Stored
      BY <1>5 DEF UpdateSchedule
    <2>3. \A q \in Requests \ {r} : snap'[q] = snap[q] /\ valid'[q] \subseteq valid[q]
      BY <1>0, <2>1, <2>2 DEF TypeInv, TypeOK
    <2>4. snap'[r][s].lastRun = schedules[s].lastRun
      <3>1. schedules[s] \in Doc
        BY <1>0, <2>2 DEF Stored, TypeInv, TypeOK
      <3>2. [schedules[s] EXCEPT !.enabled = e, !.cron = c].lastRun = schedules[s].lastRun
        BY <3>1 DEF Doc
      <3>3. QED
        BY <1>0, <2>1, <3>2 DEF TypeInv, TypeOK
    <2>5. \A t \in ScheduleIds \ {s} :
              /\ snap'[r][t] = snap[r][t]
              /\ t \in valid'[r] => t \in valid[r]
      BY <1>0, <2>1, <2>2 DEF TypeInv, TypeOK
    <2>6. QED
      BY <2>2, <2>3, <2>4, <2>5, SnapshotsOnly
  <1>6. ASSUME NEW r \in Requests, CreateScheduleSave(r)
        PROVE  DocsMove /\ EtagsHold' /\ SnapsIssued
    <2>1. PICK s \in ScheduleIds \ issued :
              /\ \E d : schedules' = [schedules EXCEPT ![s] = d]
              /\ issued' = issued \union {s}
      BY <1>6 DEF CreateScheduleSave
    <2>2. rewound' = rewound /\ FinishAndForget(r)
      BY <1>6 DEF CreateScheduleSave
    <2>3. \A t \in ScheduleIds \ {s} : schedules'[t] = schedules[t]
      BY <1>0, <2>1 DEF TypeInv, TypeOK
    <2>4. \A q \in Requests, t \in ScheduleIds :
              snap'[q][t] # NoDoc => snap'[q][t] = snap[q][t] /\ t \in issued /\ t # s
      <3>1. \A q \in Requests, t \in ScheduleIds :
                snap'[q][t] # NoDoc => snap'[q][t] = snap[q][t]
        BY <1>0, <2>2 DEF FinishAndForget, Finish, Nothing, TypeInv, TypeOK
      <3>2. QED
        BY <2>1, <3>1 DEF SafeInv, IdsIssued
    <2>5. \A q \in Requests : valid'[q] \subseteq valid[q] /\ valid'[q] \subseteq ScheduleIds
      BY <1>0, <2>2 DEF FinishAndForget, TypeInv, TypeOK
    <2>6. EtagsHold'
      BY <2>3, <2>4, <2>5 DEF SafeInv, EtagsHold, Stored
    <2>7. DocsMove
      BY <2>1, <2>2, <2>3 DEF SafeInv, IdsIssued, DocsMove, Stored
    <2>8. QED
      BY <2>1, <2>4, <2>6, <2>7 DEF SnapsIssued
  <1>7. ASSUME NEW r \in Requests, UpdateScheduleSave(r)
        PROVE  DocsMove /\ EtagsHold' /\ SnapsIssued
    <2>1. PICK s \in ScheduleIds :
              /\ snap[r][s] # NoDoc
              /\ \/ s \in valid[r] /\ schedules' = [schedules EXCEPT ![s] = snap[r][s]]
                 \/ schedules' = schedules
      BY <1>7 DEF UpdateScheduleSave
    <2>2. /\ issued' = issued /\ rewound' = rewound
          /\ Finish(r)
          /\ \A q \in Requests : valid'[q] \subseteq valid[q] /\ valid'[q] \subseteq ScheduleIds
      <3>1. /\ issued' = issued /\ rewound' = rewound
            /\ Finish(r)
            /\ \/ \E s1 \in ScheduleIds : Rewritten(r, s1)
               \/ valid' = [valid EXCEPT ![r] = {}]
        BY <1>7 DEF UpdateScheduleSave
      <3>2. valid \in [Requests -> SUBSET ScheduleIds]
        BY <1>0 DEF TypeInv, TypeOK
      <3>3. QED
        BY <3>1, <3>2 DEF Rewritten
    <2>3. \A t \in ScheduleIds : t \in Stored
              => schedules'[t] # NoDoc /\ schedules'[t].lastRun = schedules[t].lastRun
      <3>1. s \in valid[r] => s \in Stored /\ schedules[s].lastRun = snap[r][s].lastRun
        BY <2>1 DEF SafeInv, EtagsHold
      <3>2. QED
        BY <1>0, <2>1, <3>1 DEF Stored, TypeInv, TypeOK
    <2>4. Stored' = Stored
      <3>1. s \in valid[r] => s \in Stored
        BY <2>1 DEF SafeInv, EtagsHold
      <3>2. QED
        BY <1>0, <2>1, <2>3, <3>1 DEF Stored, TypeInv, TypeOK
    <2>5. \A q \in Requests, t \in ScheduleIds :
              snap'[q][t] # NoDoc => snap'[q][t] = snap[q][t]
      BY <1>0, <2>2 DEF Finish, Nothing, TypeInv, TypeOK
    <2>6. EtagsHold'
      BY <2>2, <2>3, <2>4, <2>5 DEF SafeInv, EtagsHold, Stored
    <2>7. DocsMove
      BY <2>2, <2>3, <2>4 DEF SafeInv, IdsIssued, DocsMove, Stored
    <2>8. QED
      BY <2>2, <2>5, <2>6, <2>7 DEF SnapsIssued, SafeInv, IdsIssued
  <1>8. ASSUME NEW r \in Requests, DisableSave(r)
        PROVE  DocsMove /\ EtagsHold' /\ SnapsIssued
    <2> DEFINE read == {s \in ScheduleIds : snap[r][s] # NoDoc}
    <2>1. /\ schedules' = [s \in ScheduleIds |->
                              IF s \in read THEN [snap[r][s] EXCEPT !.enabled = FALSE]
                              ELSE schedules[s]]
          /\ rewound' = rewound \union (read \ valid[r])
          /\ issued' = issued
          /\ Finish(r)
          /\ \A q \in Requests : valid'[q] \subseteq valid[q] \ read
      BY <1>0, <1>8 DEF DisableSave, TypeInv, TypeOK
    <2>2. \A q \in Requests, t \in ScheduleIds :
              snap'[q][t] # NoDoc => snap'[q][t] = snap[q][t]
      BY <1>0, <2>1 DEF Finish, Nothing, TypeInv, TypeOK
    <2>3. ASSUME NEW s \in read
          PROVE  /\ schedules'[s] \in Doc
                 /\ schedules'[s].lastRun = snap[r][s].lastRun
      <3>1. snap[r][s] \in Doc
        BY <1>0 DEF TypeInv, TypeOK
      <3>2. schedules'[s] = [snap[r][s] EXCEPT !.enabled = FALSE]
        BY <2>1
      <3>3. QED
        BY <3>1, <3>2, DocTypes DEF Doc
    <2>4. \A s \in ScheduleIds \ read : schedules'[s] = schedules[s]
      BY <2>1
    <2>5. valid \in [Requests -> SUBSET ScheduleIds]
      BY <1>0 DEF TypeInv, TypeOK
    <2>6. EtagsHold'
      BY <2>1, <2>2, <2>4, <2>5 DEF SafeInv, EtagsHold, Stored
    <2>7. DocsMove
      <3>1. Stored' \subseteq issued'
        BY <2>1, <2>4 DEF SafeInv, IdsIssued, Stored
      <3>2. ASSUME NEW s \in Stored'
            PROVE  \/ s \in rewound'
                   \/ s \in Stored /\ schedules'[s].lastRun = schedules[s].lastRun
        <4>1. CASE s \in read /\ s \in valid[r]
          BY <2>3, <4>1 DEF SafeInv, EtagsHold
        <4>2. CASE s \in read /\ s \notin valid[r]
          BY <2>1, <4>2
        <4>3. CASE s \notin read
          BY <2>4, <3>2, <4>3 DEF Stored
        <4>4. QED
          BY <4>1, <4>2, <4>3
      <3>3. QED
        BY <2>1, <3>1, <3>2 DEF DocsMove
    <2>8. QED
      BY <2>1, <2>2, <2>6, <2>7 DEF SnapsIssued, SafeInv, IdsIssued
  <1>9. ASSUME NEW s \in ScheduleIds, DeleteSchedule(s)
        PROVE  DocsMove /\ EtagsHold' /\ SnapsIssued
    <2>1. /\ schedules' = [schedules EXCEPT ![s] = NoDoc]
          /\ valid' = [q \in Requests |-> valid[q] \ {s}]
          /\ UNCHANGED <<issued, rewound, snap>>
      BY <1>9 DEF DeleteSchedule
    <2>2. \A t \in ScheduleIds \ {s} : schedules'[t] = schedules[t]
      BY <1>0, <2>1 DEF TypeInv, TypeOK
    <2>3. schedules'[s] = NoDoc
      BY <1>0, <2>1 DEF TypeInv, TypeOK
    <2>4. valid \in [Requests -> SUBSET ScheduleIds]
      BY <1>0 DEF TypeInv, TypeOK
    <2>5. EtagsHold'
      BY <2>1, <2>2, <2>4 DEF SafeInv, EtagsHold, Stored
    <2>6. DocsMove
      BY <2>1, <2>2, <2>3 DEF SafeInv, IdsIssued, DocsMove, Stored
    <2>7. QED
      BY <2>1, <2>5, <2>6 DEF SnapsIssued, SafeInv, IdsIssued
  <1>10. CASE \/ Reactivate \/ MajorRelease \/ AgentUpdated \/ Tick
              \/ UNCHANGED vars
    <2>1. UNCHANGED <<schedules, issued, rewound, snap, valid>>
      BY <1>10 DEF Reactivate, MajorRelease, AgentUpdated, Tick, vars
    <2>2. QED
      BY <2>1 DEF SafeInv, IdsIssued, EtagsHold, DocsMove, SnapsIssued, Stored
  <1>11. QED
    BY <1>1, <1>4, <1>5, <1>6, <1>7, <1>8, <1>9, <1>10 DEF Next, Proceed

(* Only DisableSave adds to rewound, only CreateScheduleSave to issued.    *)
LEMMA SafeStep ==
    ASSUME SafeInv, [Next]_vars
    PROVE  SafeInv'
  <1> USE DEF container, request
  <1>0. TypeInv /\ TypeInv'
    BY TypeStep DEF SafeInv
  <1>1. ASSUME NEW r \in Requests, Claim(r)
        PROVE  SafeInv'
    <2>1. PICK s \in DueFor(r) \intersect valid[r] :
              /\ schedules' = [schedules EXCEPT ![s] = [snap[r][s] EXCEPT !.lastRun = at[r]]]
              /\ Rewritten(r, s)
              /\ runs' = Append(runs, NewRun(s, snap[r][s], at[r]))
              /\ snap' = [snap EXCEPT ![r][s] = NoDoc]
      BY <1>1 DEF Claim
    <2>2. /\ rewound' = rewound /\ issued' = issued
      BY <1>1 DEF Claim
    <2>3. /\ s \in Stored /\ snap[r][s] \in Doc /\ at[r] \in Times
          /\ schedules[s].lastRun =< at[r]
          /\ s \notin rewound =>
                \A i \in DOMAIN runs : runs[i].schedule = s =>
                    /\ runs[i].at =< at[r]
                    /\ Separated(runs[i], NewRun(s, snap[r][s], at[r]))
                    /\ Separated(NewRun(s, snap[r][s], at[r]), runs[i])
      BY ClaimAdvances
    <2>4. s \in ScheduleIds /\ NewRun(s, snap[r][s], at[r]) \in Run
      BY <2>3, DocTypes DEF DueFor
    <2>5. /\ DOMAIN runs' = DOMAIN runs \union {Len(runs) + 1}
          /\ Len(runs) + 1 \notin DOMAIN runs
          /\ runs'[Len(runs) + 1] = NewRun(s, snap[r][s], at[r])
          /\ \A j \in DOMAIN runs : runs'[j] = runs[j]
      BY <1>0, <2>1, <2>4, RunsAppend DEF TypeInv
    <2>6. /\ NewRun(s, snap[r][s], at[r]).schedule = s
          /\ NewRun(s, snap[r][s], at[r]).at = at[r]
      BY DEF NewRun
    <2>7. /\ Stored' = Stored
          /\ schedules'[s].lastRun = at[r]
          /\ \A t \in ScheduleIds \ {s} : schedules'[t] = schedules[t]
      <3>1. [snap[r][s] EXCEPT !.lastRun = at[r]] \in Doc
        BY <2>3, DocTypes
      <3>2. [snap[r][s] EXCEPT !.lastRun = at[r]].lastRun = at[r]
        BY <2>3 DEF Doc
      <3>3. /\ schedules'[s] = [snap[r][s] EXCEPT !.lastRun = at[r]]
            /\ \A t \in ScheduleIds \ {s} : schedules'[t] = schedules[t]
        BY <1>0, <2>1, <2>4 DEF TypeInv, TypeOK
      <3>4. schedules'[s] # NoDoc
        BY <3>1, <3>3, NoDocAssumption
      <3>5. QED
        BY <2>3, <3>2, <3>3, <3>4 DEF Stored
    <2>8. RunsSeparated'
      BY <2>2, <2>3, <2>5, <2>6 DEF SafeInv, RunsSeparated
    <2>9. RunsRecorded'
      <3>1. ASSUME NEW i \in DOMAIN runs, runs[i].schedule \in Stored,
                   runs[i].schedule \notin rewound
            PROVE  runs[i].at =< schedules'[runs[i].schedule].lastRun
        <4>1. CASE runs[i].schedule = s
          BY <2>3, <2>7, <3>1, <4>1
        <4>2. CASE runs[i].schedule # s
          BY <2>7, <3>1, <4>2 DEF SafeInv, RunsRecorded, Stored
        <4>3. QED
          BY <4>1, <4>2
      <3>2. at[r] =< at[r]
        BY <2>3, ScheduleAssumption DEF Times
      <3>3. QED
        BY <2>2, <2>5, <2>6, <2>7, <3>1, <3>2 DEF RunsRecorded
    <2>10. EtagsHold'
      <3>1. \A q \in Requests : valid'[q] = valid[q] \ {s}
        BY <2>1 DEF Rewritten
      <3>2. \A q \in Requests, t \in ScheduleIds : snap'[q][t] # NoDoc => snap'[q][t] = snap[q][t]
        BY <1>0, <2>1, <2>4 DEF TypeInv, TypeOK
      <3>3. valid \in [Requests -> SUBSET ScheduleIds]
        BY <1>0 DEF TypeInv, TypeOK
      <3>4. QED
        BY <2>7, <3>1, <3>2, <3>3 DEF SafeInv, EtagsHold
    <2>11. IdsIssued'
      <3>1. \A q \in Requests, t \in ScheduleIds : snap'[q][t] # NoDoc => snap'[q][t] = snap[q][t]
        BY <1>0, <2>1, <2>4 DEF TypeInv, TypeOK
      <3>2. QED
        BY <2>2, <2>3, <2>5, <2>6, <2>7, <3>1 DEF SafeInv, IdsIssued
    <2>12. QED
      BY <1>0, <2>8, <2>9, <2>10, <2>11 DEF SafeInv
  <1>2. ASSUME ~(\E r \in Requests : Claim(r))
        PROVE  SafeInv'
    <2>1. /\ DOMAIN runs' = DOMAIN runs
          /\ \A i \in DOMAIN runs : /\ runs'[i].schedule = runs[i].schedule
                                    /\ runs'[i].at = runs[i].at
                                    /\ runs'[i].cron = runs[i].cron
      BY <1>0, <1>2, RunsKept
    <2>2. DocsMove /\ EtagsHold' /\ SnapsIssued
      BY <1>0, <1>2, OtherSteps
    <2>3. QED
      BY <1>0, <2>1, <2>2, DocsOnly DEF SafeInv, IdsIssued, DocsMove, SnapsIssued
  <1>3. QED
    BY <1>1, <1>2

LEMMA SafeInit == Init => SafeInv
  BY InitTypes DEF Init, SafeInv, RunsSeparated, RunsRecorded, EtagsHold, IdsIssued,
     Stored, Nothing

LEMMA SafeAlways == Spec => []SafeInv
  BY SafeInit, SafeStep, PTL DEF Spec

(* At most one command per schedule and cron instant, for any number of    *)
(* overlapping polls and edits, unless a disable wrote the schedule back.  *)
THEOREM RunsOncePerInstant == Spec => []OncePerInstantUnlessRewound
  <1>1. SafeInv => OncePerInstantUnlessRewound
    BY DEF SafeInv, RunsSeparated, OncePerInstantUnlessRewound, Commands
  <1>2. QED
    BY <1>1, SafeAlways, PTL

(* A step that is not a disable leaves stored schedules where they are.    *)
LEMMA RewindStep ==
    ASSUME SafeInv, [Next]_vars, NEW s \in issued
    PROVE  \/ schedules'[s] = NoDoc
           \/ schedules[s] # NoDoc /\ schedules[s].lastRun =< schedules'[s].lastRun
           \/ s \in rewound'
  <1>1. TypeInv /\ TypeInv' /\ s \in ScheduleIds
    BY TypeStep DEF SafeInv, TypeInv, TypeOK
  <1>2. \A t \in Stored : schedules[t].lastRun =< schedules[t].lastRun
    <2>1. \A t \in Stored : schedules[t].lastRun \in Nat
      BY <1>1, ScheduleAssumption DEF Stored, TypeInv, TypeOK, Doc, Times, Never
    <2>2. QED
      BY <2>1
  <1>3. CASE \E r \in Requests : Claim(r)
    <2>1. PICK r \in Requests, t \in ScheduleIds :
              /\ t \in DueFor(r) \intersect valid[r]
              /\ schedules' = [schedules EXCEPT ![t] = [snap[r][t] EXCEPT !.lastRun = at[r]]]
      BY <1>3 DEF Claim, DueFor
    <2>2. t \in Stored /\ snap[r][t] \in Doc /\ schedules[t].lastRun =< at[r]
      BY <2>1, ClaimAdvances
    <2>3. CASE s = t
      BY <1>1, <2>1, <2>2, <2>3 DEF Stored, TypeInv, TypeOK, Doc
    <2>4. CASE s # t
      BY <1>1, <1>2, <2>1, <2>4 DEF Stored, TypeInv, TypeOK
    <2>5. QED
      BY <2>3, <2>4
  <1>4. CASE ~(\E r \in Requests : Claim(r))
    <2>1. DocsMove
      BY <1>1, <1>4, OtherSteps
    <2>2. QED
      BY <1>1, <1>2, <2>1 DEF DocsMove, Stored
  <1>5. QED
    BY <1>3, <1>4

(* The disable is the only writer that takes last_run_at back or revives a *)
(* deleted schedule.                                                       *)
THEOREM DisableAloneRewinds == Spec => OnlyDisableRewinds
  <1>1. SafeInv /\ [Next]_vars
            => [\A s \in issued :
                   \/ schedules'[s] = NoDoc
                   \/ schedules[s] # NoDoc /\ schedules[s].lastRun =< schedules'[s].lastRun
                   \/ s \in rewound']_vars
    BY RewindStep
  <1>2. QED
    BY <1>1, SafeAlways, PTL DEF Spec, OnlyDisableRewinds
----------------------------------------------------------------------------
(* The free limit.  What counts against it are the schedules that no       *)
(* disable brought back, and the requests about to create one.             *)
Counted == Stored \ rewound

LimitInv ==
    /\ IsFiniteSet(issued)
    /\ OnlyOverlapExceedsLimit

(* Schedules become counted only by being created.                         *)
LEMMA CountedStep ==
    ASSUME SafeInv, [Next]_vars
    PROVE  Counted' \subseteq Counted \union (issued' \ issued)
  <1>1. rewound \subseteq rewound'
    BY DEF Next, vars, container, request, Poll, CreateSchedule, Deactivate, Proceed, Abort,
           UpdateSchedule, DeleteSchedule, Reactivate, MajorRelease, AgentUpdated, Tick,
           ListEnabled, Claim, ClaimRefused, NothingDue, CreateReport, Push, MarkFailed,
           CreateScheduleSave, UpdateScheduleSave, DisableQuery, DisableSave
  <1>2. SUFFICES ASSUME NEW s \in Counted', s \in issued
                 PROVE  s \in Counted
    <2>1. SafeInv'
      BY SafeStep
    <2>2. Stored' \subseteq issued'
      BY <2>1 DEF SafeInv, IdsIssued
    <2>3. QED
      BY <2>2 DEF Counted
  <1>3. schedules'[s] # NoDoc /\ s \in ScheduleIds /\ s \notin rewound'
    BY DEF Counted, Stored
  <1>4. schedules[s] # NoDoc
    BY <1>2, <1>3, RewindStep
  <1>5. QED
    BY <1>1, <1>3, <1>4 DEF Counted, Stored

LEMMA SmallerCount ==
    ASSUME NEW S, NEW T, IsFiniteSet(T), S \subseteq T
    PROVE  IsFiniteSet(S) /\ Cardinality(S) \in Nat /\ Cardinality(T) \in Nat
           /\ Cardinality(S) =< Cardinality(T)
  BY FS_Subset, FS_CardinalityType

LEMMA LimitStep ==
    ASSUME IsFiniteSet(Requests), SafeInv, LimitInv, [Next]_vars
    PROVE  LimitInv'
  <1> USE DEF container, request
  <1>1. TypeOK /\ TypeOK' /\ SafeInv'
    BY SafeStep DEF SafeInv, TypeInv
  <1>2. /\ IsFiniteSet(Stored) /\ IsFiniteSet(Counted) /\ IsFiniteSet(Creating)
        /\ Cardinality(Counted) \in Nat /\ Cardinality(Creating) \in Nat
        /\ Cardinality(Requests) \in Nat /\ Limit \in Nat
        /\ Cardinality(Counted) + Cardinality(Creating) < Limit + Cardinality(Requests)
    <2>1. Stored \subseteq issued /\ Counted \subseteq issued /\ Creating \subseteq Requests
      BY DEF SafeInv, IdsIssued, Counted, Creating
    <2>2. QED
      BY <2>1, SmallerCount, ScheduleAssumption
         DEF LimitInv, OnlyOverlapExceedsLimit, Counted
  <1>3. CASE \E r \in Requests : CreateSchedule(r)
    <2>1. PICK r \in Requests : CreateSchedule(r)
      BY <1>3
    <2>2. issued' = issued /\ Counted' \subseteq Stored /\ Creating' \subseteq Requests
      BY <2>1 DEF CreateSchedule, Counted, Stored, Creating
    <2>3. Cardinality(Stored) < Limit
      BY <2>1 DEF CreateSchedule
    <2>4. /\ Cardinality(Counted') =< Cardinality(Stored) /\ Cardinality(Counted') \in Nat
          /\ Cardinality(Creating') =< Cardinality(Requests) /\ Cardinality(Creating') \in Nat
          /\ Cardinality(Stored) \in Nat
      BY <1>2, <2>2, SmallerCount
    <2>5. Cardinality(Counted') + Cardinality(Creating') < Limit + Cardinality(Requests)
      BY <1>2, <2>3, <2>4
    <2>6. QED
      BY <2>2, <2>5 DEF LimitInv, OnlyOverlapExceedsLimit, Counted
  <1>4. CASE \E r \in Requests : CreateScheduleSave(r)
    <2>1. PICK r \in Requests : CreateScheduleSave(r)
      BY <1>4
    <2>2. PICK s \in ScheduleIds : issued' = issued \union {s}
      BY <2>1 DEF CreateScheduleSave
    <2>3. /\ r \in Creating
          /\ Creating' = Creating \ {r}
      BY <1>1, <2>1 DEF CreateScheduleSave, FinishAndForget, Finish, Creating, TypeOK
    <2>4. Counted' \subseteq Counted \union {s}
      BY <2>2, CountedStep
    <2>5. IsFiniteSet(issued')
      BY <2>2, FS_AddElement DEF LimitInv
    <2>6. Cardinality(Creating') = Cardinality(Creating) - 1
      BY <1>2, <2>3, FS_RemoveElement
    <2>7. /\ IsFiniteSet(Counted \union {s})
          /\ Cardinality(Counted \union {s}) =< Cardinality(Counted) + 1
          /\ Cardinality(Counted \union {s}) \in Nat
      <3>1. /\ IsFiniteSet(Counted \union {s})
            /\ Cardinality(Counted \union {s}) =
                  IF s \in Counted THEN Cardinality(Counted) ELSE Cardinality(Counted) + 1
        BY <1>2, FS_AddElement
      <3>2. QED
        BY <1>2, <3>1
    <2>8. /\ Cardinality(Counted') =< Cardinality(Counted \union {s})
          /\ Cardinality(Counted') \in Nat
      BY <2>4, <2>7, SmallerCount
    <2>9. Cardinality(Counted') + Cardinality(Creating') < Limit + Cardinality(Requests)
      BY <1>2, <2>6, <2>7, <2>8
    <2>10. QED
      BY <2>5, <2>9 DEF LimitInv, OnlyOverlapExceedsLimit, Counted
  <1>5. CASE ~(\E r \in Requests : CreateSchedule(r) \/ CreateScheduleSave(r))
    <2>1. issued' = issued
      BY <1>5
         DEF Next, vars, Poll, Deactivate, Proceed, Abort,
             UpdateSchedule, DeleteSchedule, Reactivate, MajorRelease, AgentUpdated, Tick,
             ListEnabled, Claim, ClaimRefused, NothingDue, CreateReport, Push, MarkFailed,
             UpdateScheduleSave, DisableQuery, DisableSave
    <2>2. Creating' \subseteq Creating
      <3>1. ASSUME NEW r \in Requests, NEW next \in HandlerStates \ {"create"},
                   pc' = [pc EXCEPT ![r] = next]
            PROVE  Creating' \subseteq Creating
        BY <1>1, <3>1 DEF Creating, TypeOK
      <3>2. CASE pc' = pc
        BY <3>2 DEF Creating
      <3>3. ASSUME NEW r \in Requests, Poll(r) \/ Deactivate(r) \/ Abort(r)
                       \/ \E s \in ScheduleIds : UpdateSchedule(r, s)
            PROVE  Creating' \subseteq Creating
        <4>1. \E next \in HandlerStates \ {"create"} : pc' = [pc EXCEPT ![r] = next]
          BY <3>3 DEF Poll, Deactivate, UpdateSchedule, Begin, Abort, FinishAndForget, Finish,
                      HandlerStates
        <4>2. QED
          BY <3>1, <4>1
      <3>4. ASSUME NEW r \in Requests, ListEnabled(r) \/ Claim(r) \/ NothingDue(r)
                       \/ CreateReport(r) \/ Push(r) \/ MarkFailed(r)
                       \/ UpdateScheduleSave(r) \/ DisableQuery(r) \/ DisableSave(r)
            PROVE  Creating' \subseteq Creating
        <4>1. \E next \in HandlerStates \ {"create"} : pc' = [pc EXCEPT ![r] = next]
          BY <3>4 DEF ListEnabled, Claim, NothingDue, CreateReport, Push, MarkFailed,
                      UpdateScheduleSave, DisableQuery, DisableSave, Goto, BackToLoop,
                      FinishAndForget, Finish, HandlerStates
        <4>2. QED
          BY <3>1, <4>1
      <3>5. ASSUME NEW r \in Requests, ClaimRefused(r)
            PROVE  Creating' \subseteq Creating
        <4>1. pc' = pc \/ pc' = [pc EXCEPT ![r] = "idle"]
          BY <3>5 DEF ClaimRefused, FinishAndForget, Finish
        <4>2. QED
          BY <3>1, <3>2, <4>1 DEF HandlerStates
      <3>6. CASE (\E s \in ScheduleIds : DeleteSchedule(s)) \/ Reactivate \/ MajorRelease
                    \/ AgentUpdated \/ Tick \/ UNCHANGED vars
        BY <3>2, <3>6 DEF DeleteSchedule, Reactivate, MajorRelease, AgentUpdated, Tick, vars
      <3>7. QED
        BY <1>5, <3>3, <3>4, <3>5, <3>6 DEF Next, Proceed
    <2>3. Counted' \subseteq Counted
      BY <2>1, CountedStep
    <2>4. /\ Cardinality(Counted') =< Cardinality(Counted) /\ Cardinality(Counted') \in Nat
          /\ Cardinality(Creating') =< Cardinality(Creating) /\ Cardinality(Creating') \in Nat
      BY <1>2, <2>2, <2>3, SmallerCount
    <2>5. Cardinality(Counted') + Cardinality(Creating') < Limit + Cardinality(Requests)
      BY <1>2, <2>4
    <2>6. QED
      BY <2>1, <2>5 DEF LimitInv, OnlyOverlapExceedsLimit, Counted
  <1>6. QED
    BY <1>3, <1>4, <1>5

(* However many requests create schedules at once, the limit is exceeded   *)
(* by fewer than there are requests, and by what disables brought back.    *)
THEOREM OverlapExceedsLimit ==
    ASSUME IsFiniteSet(Requests), Requests # {}
    PROVE  Spec => []OnlyOverlapExceedsLimit
  <1>1. Init => LimitInv
    <2>1. SUFFICES ASSUME Init PROVE LimitInv
      OBVIOUS
    <2>2. Stored \ rewound = {} /\ Creating = {} /\ issued = {}
      <3>1. schedules = Nothing /\ issued = {} /\ \A r \in Requests : pc[r] = "idle"
        BY <2>1 DEF Init
      <3>2. QED
        BY <3>1 DEF Stored, Nothing, Creating
    <2>3. Cardinality(Requests) \in Nat /\ Cardinality(Requests) # 0
      BY FS_CardinalityType, FS_EmptySet
    <2>4. Cardinality({}) = 0 /\ IsFiniteSet({})
      BY FS_EmptySet
    <2>5. OnlyOverlapExceedsLimit
      <3>1. Cardinality(Stored \ rewound) = 0 /\ Cardinality(Creating) = 0
        BY <2>2, <2>4
      <3>2. Limit \in Nat
        BY ScheduleAssumption
      <3>3. 0 + 0 < Limit + Cardinality(Requests)
        BY <2>3, <3>2
      <3>4. QED
        BY <3>1, <3>3 DEF OnlyOverlapExceedsLimit
    <2>6. QED
      BY <2>2, <2>4, <2>5 DEF LimitInv
  <1>2. SafeInv /\ LimitInv /\ [Next]_vars => LimitInv'
    BY LimitStep
  <1>3. LimitInv => OnlyOverlapExceedsLimit
    BY DEF LimitInv
  <1>4. QED
    BY <1>1, <1>2, <1>3, SafeAlways, PTL DEF Spec
----------------------------------------------------------------------------
(* With one request at a time.  The etags are not needed then, and rewound *)
(* is no way out: a handler's copy may miss a deletion, but no claim.  So  *)
(* every copy of a schedule, stored or read, knows all of its runs.        *)
OneAtATime == \A q, r \in Requests : q = r

Knows(d, s) == \A i \in DOMAIN runs : runs[i].schedule = s => runs[i].at =< d.lastRun

CopiesKnow ==
    \A s \in ScheduleIds :
        /\ s \in Stored => Knows(schedules[s], s)
        /\ \A r \in Requests : snap[r][s] # NoDoc => Knows(snap[r][s], s)

AllSeparated ==
    \A i, j \in DOMAIN runs :
        i # j /\ runs[i].schedule = runs[j].schedule => Separated(runs[i], runs[j])

SerialInv == SafeInv /\ CopiesKnow /\ AllSeparated

(* Where the last_run_at of a document comes from in a step that is not a  *)
(* claim: from the stored document or a copy of it, unless the id is new.  *)
CopiesMove ==
    \A s \in ScheduleIds :
        LET From(d) ==
                \/ s \in Stored /\ d.lastRun = schedules[s].lastRun
                \/ \E r \in Requests : snap[r][s] # NoDoc /\ d.lastRun = snap[r][s].lastRun
        IN  /\ schedules'[s] # NoDoc => s \notin issued \/ From(schedules'[s])
            /\ \A r \in Requests : snap'[r][s] # NoDoc => From(snap'[r][s])

LEMMA CopiesStep ==
    ASSUME SafeInv, [Next]_vars, ~(\E r \in Requests : Claim(r))
    PROVE  CopiesMove
  <1> USE DEF container, request
  <1>0. TypeInv
    BY DEF SafeInv
  <1> SUFFICES ASSUME NEW s \in ScheduleIds
               PROVE  /\ schedules'[s] # NoDoc =>
                          \/ s \notin issued
                          \/ s \in Stored /\ schedules'[s].lastRun = schedules[s].lastRun
                          \/ \E r \in Requests :
                                snap[r][s] # NoDoc /\ schedules'[s].lastRun = snap[r][s].lastRun
                      /\ \A q \in Requests : snap'[q][s] # NoDoc =>
                          \/ s \in Stored /\ snap'[q][s].lastRun = schedules[s].lastRun
                          \/ \E r \in Requests :
                                snap[r][s] # NoDoc /\ snap'[q][s].lastRun = snap[r][s].lastRun
    BY DEF CopiesMove
  <1>1. ASSUME NEW r \in Requests, ListEnabled(r) \/ DisableQuery(r)
        PROVE  /\ UNCHANGED schedules
               /\ \A q \in Requests : snap'[q][s] # NoDoc =>
                     \/ s \in Stored /\ snap'[q][s].lastRun = schedules[s].lastRun
                     \/ snap'[q][s] = snap[q][s]
    <2>1. snap' = [snap EXCEPT ![r] = EnabledSchedules] /\ UNCHANGED schedules
      BY <1>1 DEF ListEnabled, DisableQuery
    <2>2. EnabledSchedules[s] # NoDoc => s \in Stored /\ EnabledSchedules[s] = schedules[s]
      BY DEF EnabledSchedules
    <2>3. snap'[r] = EnabledSchedules /\ \A q \in Requests \ {r} : snap'[q] = snap[q]
      BY <1>0, <2>1 DEF TypeInv, TypeOK
    <2>4. QED
      BY <2>1, <2>2, <2>3
  <1>2. ASSUME NEW r \in Requests,
               \/ ClaimRefused(r) \/ NothingDue(r) \/ CreateReport(r) \/ Push(r)
               \/ MarkFailed(r) \/ Poll(r) \/ CreateSchedule(r) \/ Deactivate(r) \/ Abort(r)
        PROVE  /\ UNCHANGED schedules
               /\ \A q \in Requests : snap'[q][s] # NoDoc => snap'[q][s] = snap[q][s]
    <2>1. UNCHANGED schedules
      BY <1>2 DEF ClaimRefused, NothingDue, CreateReport, Push, MarkFailed, Poll,
         CreateSchedule, Deactivate, Abort
    <2>2. \/ Finish(r)
          \/ snap' = snap
          \/ \E t \in ScheduleIds : snap' = [snap EXCEPT ![r][t] = NoDoc]
      BY <1>2 DEF ClaimRefused, NothingDue, CreateReport, Push, MarkFailed, Poll,
         CreateSchedule, Deactivate, Abort, BackToLoop, DueFor, FinishAndForget
    <2>3. CASE Finish(r)
      BY <1>0, <2>1, <2>3 DEF Finish, Nothing, TypeInv, TypeOK
    <2>4. CASE snap' = snap
      BY <2>1, <2>4
    <2>5. ASSUME NEW t \in ScheduleIds, snap' = [snap EXCEPT ![r][t] = NoDoc]
          PROVE  \A q \in Requests : snap'[q][s] # NoDoc => snap'[q][s] = snap[q][s]
      BY <1>0, <2>5 DEF TypeInv, TypeOK
    <2>6. QED
      BY <2>1, <2>2, <2>3, <2>4, <2>5
  <1>3. ASSUME NEW r \in Requests, NEW t \in ScheduleIds, UpdateSchedule(r, t)
        PROVE  /\ UNCHANGED schedules
               /\ \A q \in Requests : snap'[q][s] # NoDoc =>
                     \/ s \in Stored /\ snap'[q][s].lastRun = schedules[s].lastRun
                     \/ snap'[q][s] = snap[q][s]
    <2>1. PICK e \in BOOLEAN, c \in Crons :
              snap' = [snap EXCEPT ![r][t] = [schedules[t] EXCEPT !.enabled = e, !.cron = c]]
      BY <1>3 DEF UpdateSchedule
    <2>2. t \in Stored /\ UNCHANGED schedules
      BY <1>3 DEF UpdateSchedule
    <2>3. schedules[t] \in Doc
      BY <1>0, <2>2 DEF Stored, TypeInv, TypeOK
    <2>4. [schedules[t] EXCEPT !.enabled = e, !.cron = c].lastRun = schedules[t].lastRun
      BY <2>3 DEF Doc
    <2>5. QED
      BY <1>0, <2>1, <2>2, <2>4 DEF TypeInv, TypeOK
  <1>4. ASSUME NEW r \in Requests, Finish(r)
        PROVE  \A q \in Requests : snap'[q][s] # NoDoc => snap'[q][s] = snap[q][s]
    BY <1>0, <1>4 DEF Finish, Nothing, TypeInv, TypeOK
  <1>5. ASSUME NEW r \in Requests, CreateScheduleSave(r)
        PROVE  /\ schedules'[s] = schedules[s] \/ s \notin issued
               /\ Finish(r)
    BY <1>0, <1>5 DEF CreateScheduleSave, FinishAndForget, TypeInv, TypeOK
  <1>6. ASSUME NEW r \in Requests, UpdateScheduleSave(r)
        PROVE  /\ \/ schedules'[s] = schedules[s]
                  \/ snap[r][s] # NoDoc /\ schedules'[s] = snap[r][s]
               /\ Finish(r)
    BY <1>0, <1>6 DEF UpdateScheduleSave, TypeInv, TypeOK
  <1>7. ASSUME NEW r \in Requests, DisableSave(r)
        PROVE  /\ \/ schedules'[s] = schedules[s]
                  \/ snap[r][s] # NoDoc /\ schedules'[s].lastRun = snap[r][s].lastRun
               /\ Finish(r)
    <2>1. /\ schedules'[s] = IF snap[r][s] # NoDoc THEN [snap[r][s] EXCEPT !.enabled = FALSE]
                             ELSE schedules[s]
          /\ Finish(r)
      BY <1>7 DEF DisableSave
    <2>2. ASSUME snap[r][s] # NoDoc
          PROVE  [snap[r][s] EXCEPT !.enabled = FALSE].lastRun = snap[r][s].lastRun
      <3>1. snap[r][s] \in Doc
        BY <1>0, <2>2 DEF TypeInv, TypeOK
      <3>2. QED
        BY <3>1 DEF Doc
    <2>3. QED
      BY <2>1, <2>2
  <1>8. ASSUME NEW t \in ScheduleIds, DeleteSchedule(t)
        PROVE  /\ schedules'[s] = NoDoc \/ schedules'[s] = schedules[s]
               /\ UNCHANGED snap
    BY <1>0, <1>8 DEF DeleteSchedule, TypeInv, TypeOK
  <1>9. CASE \/ Reactivate \/ MajorRelease \/ AgentUpdated \/ Tick
             \/ UNCHANGED vars
    <2>1. UNCHANGED <<schedules, snap>>
      BY <1>9 DEF Reactivate, MajorRelease, AgentUpdated, Tick, vars
    <2>2. QED
      BY <2>1 DEF Stored
  <1>10. QED
    BY <1>1, <1>2, <1>3, <1>4, <1>5, <1>6, <1>7, <1>8, <1>9 DEF Next, Proceed, Stored

(* Every step keeps each copy's knowledge: a claim adds a run of the only  *)
(* request's own copy, which then leaves the copy.                         *)
LEMMA SerialStep ==
    ASSUME OneAtATime, SerialInv, [Next]_vars
    PROVE  SerialInv'
  <1>0. SafeInv /\ SafeInv' /\ TypeInv /\ TypeInv'
    BY SafeStep DEF SerialInv, SafeInv
  <1>1. ASSUME NEW r \in Requests, Claim(r)
        PROVE  CopiesKnow' /\ AllSeparated'
    <2>1. PICK s \in DueFor(r) \intersect valid[r] :
              /\ schedules' = [schedules EXCEPT ![s] = [snap[r][s] EXCEPT !.lastRun = at[r]]]
              /\ runs' = Append(runs, NewRun(s, snap[r][s], at[r]))
              /\ snap' = [snap EXCEPT ![r][s] = NoDoc]
      BY <1>1 DEF Claim
    <2>2. /\ s \in Stored /\ snap[r][s] \in Doc /\ at[r] \in Times
          /\ schedules[s].lastRun =< at[r]
      BY <1>0, ClaimAdvances
    <2>3. s \in ScheduleIds /\ snap[r][s] # NoDoc /\ IsDue(snap[r][s], at[r])
      BY DEF DueFor
    <2>4. NewRun(s, snap[r][s], at[r]) \in Run
      BY <2>2, <2>3, DocTypes
    <2>5. /\ DOMAIN runs' = DOMAIN runs \union {Len(runs) + 1}
          /\ Len(runs) + 1 \notin DOMAIN runs
          /\ runs'[Len(runs) + 1] = NewRun(s, snap[r][s], at[r])
          /\ \A j \in DOMAIN runs : runs'[j] = runs[j]
      BY <1>0, <2>1, <2>4, RunsAppend DEF TypeInv
    <2>6. /\ NewRun(s, snap[r][s], at[r]).schedule = s
          /\ NewRun(s, snap[r][s], at[r]).at = at[r]
          /\ NewRun(s, snap[r][s], at[r]).cron = snap[r][s].cron
      BY DEF NewRun
    <2>7. at[r] \in Nat /\ at[r] > 0
      BY <2>2, ScheduleAssumption DEF Times
    <2>8. \A f \in snap[r][s].cron : f \in Nat
      <3>1. snap[r][s].cron \in Crons
        BY <2>2 DEF Doc
      <3>2. snap[r][s].cron \in SUBSET Times
        BY <3>1, ScheduleAssumption
      <3>3. Times \subseteq Nat
        BY ScheduleAssumption DEF Times
      <3>4. QED
        BY <3>2, <3>3
    <2>9. snap[r][s].lastRun \in Nat
      BY <2>2, ScheduleAssumption DEF Doc, Times, Never
    <2>10. ASSUME NEW i \in DOMAIN runs, runs[i].schedule = s
           PROVE  /\ runs[i].at =< at[r]
                  /\ Separated(runs[i], NewRun(s, snap[r][s], at[r]))
                  /\ Separated(NewRun(s, snap[r][s], at[r]), runs[i])
      <3>1. runs[i] \in Run
        BY <1>0 DEF TypeInv, TypeOK
      <3>2. runs[i].at \in Nat /\ runs[i].at > 0
        BY <3>1, ScheduleAssumption DEF Run, Times
      <3>3. runs[i].at =< snap[r][s].lastRun
        BY <2>3, <2>10 DEF SerialInv, CopiesKnow, Knows
      <3>4. PICK f \in snap[r][s].cron : snap[r][s].lastRun < f /\ f =< at[r]
        BY <2>3, <2>9, <3>2, <3>3 DEF IsDue, Never
      <3>5. runs[i].at < f /\ f =< at[r] /\ runs[i].at =< at[r]
        BY <2>7, <2>8, <2>9, <3>2, <3>3, <3>4
      <3>6. QED
        BY <2>6, <3>4, <3>5 DEF Separated
    <2>11. AllSeparated'
      <3>1. ASSUME NEW i \in DOMAIN runs', NEW j \in DOMAIN runs', i # j,
                   runs'[i].schedule = runs'[j].schedule
            PROVE  Separated(runs'[i], runs'[j])
        <4>1. CASE i \in DOMAIN runs /\ j \in DOMAIN runs
          BY <2>5, <3>1, <4>1 DEF SerialInv, AllSeparated
        <4>2. CASE i = Len(runs) + 1 \/ j = Len(runs) + 1
          BY <2>5, <2>6, <2>10, <3>1, <4>2
        <4>3. QED
          BY <2>5, <4>1, <4>2
      <3>2. QED
        BY <3>1 DEF AllSeparated, Separated
    <2>12. \A t \in ScheduleIds \ {s} :
               /\ schedules'[t] = schedules[t]
               /\ \A q \in Requests : snap'[q][t] = snap[q][t]
      BY <1>0, <2>1, <2>3 DEF TypeInv, TypeOK
    <2>13. \A q \in Requests : snap'[q][s] = NoDoc
      BY <1>0, <2>1, <2>3 DEF TypeInv, TypeOK, OneAtATime
    <2>14. schedules'[s].lastRun = at[r]
      <3>1. [snap[r][s] EXCEPT !.lastRun = at[r]].lastRun = at[r]
        BY <2>2 DEF Doc
      <3>2. QED
        BY <1>0, <2>1, <2>3, <3>1 DEF TypeInv, TypeOK
    <2>15. ASSUME NEW i \in DOMAIN runs', runs'[i].schedule = s
           PROVE  runs'[i].at =< schedules'[s].lastRun
      BY <2>5, <2>6, <2>7, <2>10, <2>14, <2>15
    <2>16. ASSUME NEW t \in ScheduleIds \ {s}, NEW i \in DOMAIN runs', runs'[i].schedule = t
           PROVE  i \in DOMAIN runs /\ runs'[i] = runs[i]
      BY <2>5, <2>6, <2>16
    <2>17. CopiesKnow'
      BY <2>12, <2>13, <2>15, <2>16 DEF SerialInv, CopiesKnow, Knows, Stored
    <2>18. QED
      BY <2>11, <2>17
  <1>2. ASSUME ~(\E r \in Requests : Claim(r))
        PROVE  CopiesKnow' /\ AllSeparated'
    <2>1. /\ DOMAIN runs' = DOMAIN runs
          /\ \A i \in DOMAIN runs : /\ runs'[i].schedule = runs[i].schedule
                                    /\ runs'[i].at = runs[i].at
                                    /\ runs'[i].cron = runs[i].cron
      BY <1>0, <1>2, RunsKept
    <2>2. AllSeparated'
      BY <2>1 DEF SerialInv, AllSeparated, Separated
    <2>3. CopiesMove
      BY <1>0, <1>2, CopiesStep
    <2>4. ASSUME NEW s \in ScheduleIds
          PROVE  /\ s \in Stored' => Knows(schedules[s], s)'
                 /\ \A r \in Requests : snap'[r][s] # NoDoc => Knows(snap[r][s], s)'
      <3>1. s \notin issued => \A i \in DOMAIN runs : runs[i].schedule # s
        BY <1>0 DEF SafeInv, IdsIssued
      <3>2. QED
        BY <2>1, <2>3, <3>1 DEF SerialInv, CopiesKnow, Knows, CopiesMove, Stored
    <2>5. QED
      BY <2>2, <2>4 DEF CopiesKnow, Knows
  <1>3. QED
    BY <1>0, <1>1, <1>2 DEF SerialInv

(* With one request at a time, whatever fails and whatever users delete in *)
(* between, no schedule runs twice for one cron instant.  So a double run  *)
(* needs requests that overlap, and by RunsOncePerInstant one of them is a *)
(* disable_by_agent.                                                       *)
THEOREM SerialRunsOncePerInstant ==
    ASSUME OneAtATime
    PROVE  Spec => []OncePerInstant
  <1>1. Init => SerialInv
    BY SafeInit DEF Init, SerialInv, CopiesKnow, AllSeparated, Stored, Nothing
  <1>2. SerialInv /\ [Next]_vars => SerialInv'
    BY SerialStep
  <1>3. SerialInv => OncePerInstant
    BY DEF SerialInv, AllSeparated, OncePerInstant, Commands
  <1>4. QED
    BY <1>1, <1>2, <1>3, PTL DEF Spec
=============================================================================
