--------------------------- MODULE InsightPipeline ---------------------------
(***************************************************************************)
(* The insight documents of one agent.  A completed report's event waits in*)
(* a Storage queue; every replica runs an InsightQueueWorker that takes    *)
(* messages, adds the report to one document per period and deletes the    *)
(* message afterwards.  A rebuild request does the same for all reports.   *)
(*                                                                         *)
(* All totals of a document are sums over reports, so a document is the    *)
(* bag of reports its totals count, and its latest_report_id.              *)
(***************************************************************************)
EXTENDS Naturals, FiniteSets, Sequences

CONSTANTS
    Reports,          \* the agent's reports, in order of created_at
    Workers,          \* one InsightQueueWorker per replica
    Rebuilds,         \* request slots for POST /insights/rebuild
    Calendar,         \* per period, in the order of the loop: its key on each day
    MaxDay,           \* bound: the last day
    MaxDisturbances,  \* bound: midnights, crashes, Cosmos errors, late
                      \* timeouts, reports completed again
    NoDoc             \* "nothing"

Days == 1 .. MaxDay
PeriodTypes == DOMAIN Calendar
Tasks == Workers \union Rebuilds

ASSUME InsightAssumption ==
    /\ Reports \subseteq Nat /\ IsFiniteSet(Reports)
    /\ MaxDay \in Nat \ {0}
    /\ Calendar \in Seq([Days -> Days]) /\ Calendar # << >>
    /\ MaxDisturbances \in Nat
    /\ Workers \intersect Rebuilds = {}

InsightDocument == [counted : [Reports -> Nat], latest : Reports]

ASSUME NoDocAssumption == NoDoc \notin InsightDocument \union Reports \union Workers

VARIABLES
    day,           \* today in KST
    completed,     \* reports whose status is COMPLETED
    summaries,     \* reports that are stored with a summary
    queue,         \* report -> where its event message is
    holder,        \* report -> worker that is handling its message, and whose
                   \* receipt is good to delete it
    insights,      \* period -> key -> InsightDocument or NoDoc
    pc,            \* task -> next thing it does; "idle" is between two reports
    todo,          \* task -> reports of its batch still to be handled
    report,        \* task -> the report it is handling
    on,            \* task -> its now_kst
    period,        \* task -> index of the period it is at
    held,          \* task -> its private InsightDocument
    etag,          \* task -> was the held document read (and so has an etag)?
    disturbances,  \* how many of MaxDisturbances happened
    lost           \* history: <<r, i>> for a report r that some step left
                   \* out of period i, or overwrote there

reports == <<completed, summaries>>
messages == <<queue, holder>>
current == <<report, on, period, held, etag>>
vars == <<day, reports, messages, insights, pc, todo, current, disturbances, lost>>

TypeOK ==
    /\ day \in Days
    /\ completed \subseteq summaries
    /\ summaries \subseteq Reports
    /\ queue \in [Reports -> {"none", "visible", "hidden", "deleted"}]
    /\ holder \in [Reports -> Workers \union {NoDoc}]
    /\ insights \in [PeriodTypes -> [Days -> InsightDocument \union {NoDoc}]]
    /\ pc \in [Tasks -> {"idle", "get", "upsert", "delete"}]
    /\ todo \in [Tasks -> SUBSET Reports]
    /\ report \in [Tasks -> Reports \union {NoDoc}]
    /\ on \in [Tasks -> Days]
    /\ period \in [Tasks -> PeriodTypes]
    /\ held \in [Tasks -> InsightDocument \union {NoDoc}]
    /\ etag \in [Tasks -> BOOLEAN]
    /\ disturbances \in 0 .. MaxDisturbances
    /\ lost \subseteq Reports \X PeriodTypes

Init ==
    /\ day = 1
    /\ completed = {} /\ summaries = {}
    /\ queue = [r \in Reports |-> "none"]
    /\ holder = [r \in Reports |-> NoDoc]
    /\ insights = [i \in PeriodTypes |-> [k \in Days |-> NoDoc]]
    /\ pc = [t \in Tasks |-> "idle"]
    /\ todo = [t \in Tasks |-> {}]
    /\ report = [t \in Tasks |-> NoDoc]
    /\ on = [t \in Tasks |-> 1]
    /\ period = [t \in Tasks |-> 1]
    /\ held = [t \in Tasks |-> NoDoc]
    /\ etag = [t \in Tasks |-> FALSE]
    /\ disturbances = 0
    /\ lost = {}

----------------------------------------------------------------------------
Key(t) == Calendar[period[t]][on[t]]
Visible == {r \in Reports : queue[r] = "visible"}

Goto(t, next) == pc' = [pc EXCEPT ![t] = next]

(* What the task knows of the report it handles is gone.                   *)
Clear(t) ==
    /\ report' = [report EXCEPT ![t] = NoDoc]
    /\ on' = [on EXCEPT ![t] = 1]
    /\ period' = [period EXCEPT ![t] = 1]
    /\ held' = [held EXCEPT ![t] = NoDoc]
    /\ etag' = [etag EXCEPT ![t] = FALSE]

(* The task no longer handles these messages; their timeouts go on.        *)
LetGo(t, msgs) ==
    holder' = [r \in Reports |->
                 IF r \in msgs /\ holder[r] = t THEN NoDoc ELSE holder[r]]

Counts(doc, r) == doc # NoDoc /\ doc.counted[r] >= 1
Counted(r, i) == \E k \in Days : Counts(insights[i][k], r)

(* These pairs of a report and a period are passed over; the pair is lost  *)
(* unless some document of the period counts the report already.           *)
PassOver(pairs) == lost' = lost \union {x \in pairs : ~Counted(x[1], x[2])}

(* Bound: what disturbs the pipeline is finitely often.                    *)
Disturb ==
    /\ disturbances < MaxDisturbances
    /\ disturbances' = disturbances + 1

(* InsightDocument.__init__ with its defaults, and the metrics of          *)
(* _update_period_insight.                                                 *)
BugIncrement(doc, r) ==
    IF doc = NoDoc
    THEN [counted |-> [x \in Reports |-> IF x = r THEN 1 ELSE 0], latest |-> NoDoc]
    ELSE [counted |-> [doc.counted EXCEPT ![r] = @ + 1], latest |-> doc.latest]

Increment(doc, r) ==
    IF doc = NoDoc
    THEN [counted |-> [x \in Reports |-> IF x = r THEN 1 ELSE 0], latest |-> r]
    ELSE [counted |-> [doc.counted EXCEPT ![r] = @ + 1], latest |-> r]

----------------------------------------------------------------------------
(* The rest of the backend, the queue service and the calendar.            *)

(* A report becomes COMPLETED; the task that publishes the event may die.  *)
(* Bound: one message per report is in the queue.                          *)
Complete(r) ==
    /\ r \notin completed
    /\ queue[r] \in {"none", "deleted"}
    /\ completed' = completed \union {r}
    /\ summaries' = summaries \union {r}
    /\ \/ queue' = [queue EXCEPT ![r] = "visible"] /\ UNCHANGED disturbances
       \/ Disturb /\ UNCHANGED queue
    /\ UNCHANGED <<day, holder, insights, pc, todo, current, lost>>

(* A later callback sets another status, which nothing prevents: the report*)
(* may then complete, and be announced, again.  It keeps its summary, but  *)
(* not when the request that created it stores it, as FAILED, a second     *)
(* time: mark_as_failed is of an object that never had one.                *)
Reopen(r) ==
    /\ r \in completed
    /\ completed' = completed \ {r}
    /\ Disturb
    /\ \/ UNCHANGED summaries
       \/ summaries' = summaries \ {r}
    /\ UNCHANGED <<day, messages, insights, pc, todo, current, lost>>

(* The visibility timeout: of a message nobody handles any more, or, when  *)
(* a worker is slow, of one that is being handled.                         *)
Reappear(r) ==
    /\ queue[r] = "hidden"
    /\ queue' = [queue EXCEPT ![r] = "visible"]
    /\ IF holder[r] # NoDoc THEN Disturb ELSE UNCHANGED disturbances
    /\ UNCHANGED <<day, reports, holder, insights, pc, todo, current, lost>>

NextDay ==
    /\ day < MaxDay
    /\ day' = day + 1
    /\ Disturb
    /\ UNCHANGED <<reports, messages, insights, pc, todo, current, lost>>

----------------------------------------------------------------------------
(* InsightQueueWorker._run and RebuildInsightUseCase.execute.              *)

Receive(w) ==
    /\ pc[w] = "idle" /\ todo[w] = {}
    /\ \E batch \in SUBSET Visible \ {{}} :
         /\ queue' = [r \in Reports |-> IF r \in batch THEN "hidden" ELSE queue[r]]
         /\ holder' = [r \in Reports |-> IF r \in batch THEN w ELSE holder[r]]
         /\ todo' = [todo EXCEPT ![w] = batch]
    /\ UNCHANGED <<day, reports, insights, pc, current, disturbances, lost>>

(* A worker takes its messages in any order and reads the report; then     *)
(* execute fixes now_kst and begins its loop.                              *)
Take(w, r) ==
    /\ pc[w] = "idle" /\ r \in todo[w]
    /\ todo' = [todo EXCEPT ![w] = @ \ {r}]
    /\ report' = [report EXCEPT ![w] = r]

Start(w) ==
    /\ \E r \in summaries : Take(w, r)
    /\ on' = [on EXCEPT ![w] = day]
    /\ Goto(w, "get")
    /\ UNCHANGED <<day, reports, messages, insights, period, held, etag,
                   disturbances, lost>>

(* The report is missing or has no summary: nothing is written, and the    *)
(* message is deleted all the same.                                        *)
StartNothing(w) ==
    /\ \E r \in Reports \ summaries :
         Take(w, r) /\ PassOver({r} \X PeriodTypes)
    /\ Goto(w, "delete")
    /\ UNCHANGED <<day, reports, messages, insights, on, period, held, etag, disturbances>>

(* A rebuild has read all its reports at once, and handles them one after  *)
(* the other by created_at.                                                *)
Advance(t, batch) ==
    /\ period' = [period EXCEPT ![t] = 1]
    /\ IF batch = {}
       THEN /\ Goto(t, "idle")
            /\ report' = [report EXCEPT ![t] = NoDoc]
            /\ on' = [on EXCEPT ![t] = 1]
            /\ UNCHANGED todo
       ELSE \E r \in batch :
              /\ \A x \in batch : r =< x
              /\ Goto(t, "get")
              /\ report' = [report EXCEPT ![t] = r]
              /\ on' = [on EXCEPT ![t] = day]
              /\ todo' = [todo EXCEPT ![t] = batch \ {r}]

Rebuild(t) ==
    /\ pc[t] = "idle" /\ completed # {}
    /\ Advance(t, completed)
    /\ UNCHANGED <<day, reports, messages, insights, held, etag, disturbances, lost>>

(* Reading the report raises: the message is left to its timeout.          *)
ReportUnreadable(w) ==
    /\ pc[w] = "idle"
    /\ Disturb
    /\ \E r \in todo[w] :
         /\ todo' = [todo EXCEPT ![w] = @ \ {r}]
         /\ LetGo(w, {r})
    /\ UNCHANGED <<day, reports, queue, insights, pc, current, lost>>

(* get_by_id: any error but "not found" is logged and returns None, too.   *)
Get(t) ==
    /\ pc[t] = "get"
    /\ \E stored \in {insights[period[t]][Key(t)], NoDoc} :
         /\ IF stored = insights[period[t]][Key(t)]
            THEN UNCHANGED disturbances ELSE Disturb
         /\ held' = [held EXCEPT ![t] = Increment(stored, report[t])]
         /\ etag' = [etag EXCEPT ![t] = stored # NoDoc]
    /\ Goto(t, "upsert")
    /\ UNCHANGED <<day, reports, messages, insights, todo, report, on, period, lost>>

(* The loop of execute goes on after a write, and after a swallowed error. *)
BugNextPeriod(t) ==
    /\ held' = [held EXCEPT ![t] = NoDoc]
    /\ etag' = [etag EXCEPT ![t] = FALSE]
    /\ IF period[t] + 1 < Len(Calendar)
       THEN /\ period' = [period EXCEPT ![t] = @ + 1]
            /\ Goto(t, "get")
            /\ UNCHANGED <<todo, report, on>>
       ELSE IF t \in Rebuilds THEN Advance(t, todo[t])
       ELSE /\ period' = [period EXCEPT ![t] = 1]
            /\ on' = [on EXCEPT ![t] = 1]
            /\ Goto(t, "delete")
            /\ UNCHANGED <<todo, report>>

NextPeriod(t) ==
    /\ held' = [held EXCEPT ![t] = NoDoc]
    /\ etag' = [etag EXCEPT ![t] = FALSE]
    /\ IF period[t] < Len(Calendar)
       THEN /\ period' = [period EXCEPT ![t] = @ + 1]
            /\ Goto(t, "get")
            /\ UNCHANGED <<todo, report, on>>
       ELSE IF t \in Rebuilds THEN Advance(t, todo[t])
       ELSE /\ period' = [period EXCEPT ![t] = 1]
            /\ on' = [on EXCEPT ![t] = 1]
            /\ Goto(t, "delete")
            /\ UNCHANGED <<todo, report>>

(* upsert of a document without etag: a blind write, which overwrites one  *)
(* that was created since, or could not be read.                           *)
Upsert(t) ==
    /\ pc[t] = "upsert" /\ ~etag[t]
    /\ insights' = [insights EXCEPT ![period[t]][Key(t)] = held[t]]
    /\ lost' = lost \union
         {<<r, period[t]>> : r \in {x \in Reports : /\ Counts(insights[period[t]][Key(t)], x)
                                                   /\ ~Counts(held[t], x)}}
    /\ NextPeriod(t)
    /\ UNCHANGED <<day, reports, messages, disturbances>>

(* upsert of a document with an etag passes match_condition=True, which is *)
(* no MatchConditions member: the SDK raises TypeError before it sends.    *)
BugUpsertRaises(t) ==
    /\ pc[t] = "upsert" /\ etag[t]
    /\ insights' = [insights EXCEPT ![period[t]][Key(t)] = held[t]]
    /\ NextPeriod(t)
    /\ UNCHANGED <<day, reports, messages, disturbances, lost>>

UpsertRaises(t) ==
    /\ pc[t] = "upsert" /\ etag[t]
    /\ PassOver({<<report[t], period[t]>>})
    /\ NextPeriod(t)
    /\ UNCHANGED <<day, reports, messages, insights, disturbances>>

(* Cosmos refuses a write; the exception is logged, the loop goes on.    *)
UpsertFails(t) ==
    /\ pc[t] = "upsert" /\ ~etag[t]
    /\ Disturb
    /\ PassOver({<<report[t], period[t]>>})
    /\ NextPeriod(t)
    /\ UNCHANGED <<day, reports, messages, insights>>

(* delete_message fails for a message that somebody else received since.   *)
BugDelete(w) ==
    /\ pc[w] = "delete"
    /\ Clear(w)
    /\ Goto(w, "idle")
    /\ UNCHANGED <<day, reports, messages, insights, todo, disturbances, lost>>

Delete(w) ==
    /\ pc[w] = "delete"
    /\ IF holder[report[w]] = w
       THEN /\ queue' = [queue EXCEPT ![report[w]] = "deleted"]
            /\ holder' = [holder EXCEPT ![report[w]] = NoDoc]
       ELSE UNCHANGED messages
    /\ Clear(w)
    /\ Goto(w, "idle")
    /\ UNCHANGED <<day, reports, insights, todo, disturbances, lost>>

(* A replica stops between two awaits.                                     *)
Crash(t) ==
    /\ pc[t] # "idle" \/ todo[t] # {}
    /\ Disturb
    /\ Clear(t)
    /\ todo' = [todo EXCEPT ![t] = {}]
    /\ LetGo(t, Reports)
    /\ Goto(t, "idle")
    /\ UNCHANGED <<day, reports, queue, insights, lost>>

----------------------------------------------------------------------------
Handle(t) ==
    Get(t) \/ Upsert(t) \/ UpsertRaises(t)

Work(w) == Receive(w) \/ Start(w) \/ StartNothing(w) \/ Handle(w) \/ Delete(w)

Next ==
    \/ NextDay
    \/ \E r \in Reports : Complete(r) \/ Reopen(r) \/ Reappear(r)
    \/ \E w \in Workers : Work(w) \/ ReportUnreadable(w)
    \/ \E t \in Rebuilds : Rebuild(t) \/ Handle(t)
    \/ \E t \in Tasks : UpsertFails(t) \/ Crash(t)

Spec == Init /\ [][Next]_vars

(* The event loop runs every worker; the queue service returns messages.   *)
FairSpec ==
    /\ Spec
    /\ WF_vars(\E w \in Workers : Work(w))
    /\ WF_vars(\E r \in Reports : Reappear(r))

----------------------------------------------------------------------------
(* Messages are redelivered, handled by two workers at once, and reports   *)
(* rebuilt: still no document counts a report twice.                       *)
CountedOnce ==
    \A i \in PeriodTypes, k \in Days :
        insights[i][k] # NoDoc => \A r \in Reports : insights[i][k].counted[r] =< 1

(* The message of a report is deleted only when, in each period, a document*)
(* counts the report, or a step that is known to lose it has done so: it   *)
(* had no summary, its write was refused, or its document was overwritten. *)
(* No crash, redelivery, late timeout or second worker makes a period be   *)
(* passed over in silence.                                                 *)
DeletedMeansCounted ==
    \A r \in Reports : queue[r] = "deleted" =>
        \A i \in PeriodTypes : Counted(r, i) \/ <<r, i>> \in lost

(* Whatever crashes and fails, and events arrive, finitely often, the queue*)
(* drains again and again: no event that waits in it, or is being handled, *)
(* stays there for ever.                                                   *)
EventsAreProcessed ==
    []<>(\A r \in Reports : queue[r] \in {"none", "deleted"})
=============================================================================
