------------------------ MODULE InsightPipelineProofs ------------------------
(***************************************************************************)
(* Theorems about InsightPipeline, for any reports, workers, rebuilds and  *)
(* periods and any number of days, crashes and redeliveries.               *)
(***************************************************************************)
EXTENDS InsightPipeline, TLAPS

(* The report is in the period, or known to be lost there.                 *)
Settled(r, i) == Counted(r, i) \/ <<r, i>> \in lost

Stays == \A r \in Reports, i \in PeriodTypes : Settled(r, i) => Settled(r, i)'

(* What a task knows while it handles a report: the document it holds      *)
(* counts it, and one without an etag was just made and counts nothing     *)
(* else; every period before the task's is settled for the report.         *)
TaskInv(t) ==
    /\ pc[t] # "idle" => report[t] \in Reports
    /\ pc[t] = "idle" => period[t] = 1
    /\ pc[t] = "upsert" =>
         /\ held[t] \in InsightDocument
         /\ held[t].counted[report[t]] >= 1
         /\ ~etag[t] => \A r \in Reports : held[t].counted[r] =< 1
    /\ \A r \in Reports, i \in PeriodTypes :
         /\ report[t] = r
         /\ pc[t] = "delete" \/ (pc[t] \in {"get", "upsert"} /\ i < period[t])
         => Settled(r, i)

IInv ==
    /\ TypeOK
    /\ \A t \in Tasks : TaskInv(t)
    /\ CountedOnce
    /\ DeletedMeansCounted

-----------------------------------------------------------------------------
(* The periods of the loop are 1, 2, ..., and each has a key on each day.  *)
LEMMA PeriodFacts ==
    /\ Len(Calendar) \in Nat \ {0}
    /\ PeriodTypes = 1 .. Len(Calendar)
    /\ \A i \in PeriodTypes, d \in Days : Calendar[i][d] \in Days
    /\ 1 \in PeriodTypes /\ 1 \in Days
<1>1. Calendar \in Seq([Days -> Days]) /\ Calendar # << >>
  BY InsightAssumption DEF InsightAssumption
<1>2. Len(Calendar) \in Nat /\ PeriodTypes = 1 .. Len(Calendar)
  BY <1>1 DEF PeriodTypes
<1>3. Len(Calendar) # 0
  BY <1>1
<1>4. \A i \in PeriodTypes : Calendar[i] \in [Days -> Days]
  BY <1>1, <1>2
<1>5. 1 \in Days
  BY InsightAssumption DEF InsightAssumption, Days
<1>. QED
  BY <1>2, <1>3, <1>4, <1>5

(* A report added to a document, or to none, gives a document.             *)
LEMMA IncrementIsDocument ==
    ASSUME NEW doc \in InsightDocument \union {NoDoc}, NEW r \in Reports
    PROVE  /\ Increment(doc, r) \in InsightDocument
           /\ Increment(doc, r).counted[r] >= 1
           /\ doc = NoDoc => \A x \in Reports : Increment(doc, r).counted[x] =< 1
  BY DEF Increment, InsightDocument

LEMMA InitHolds == Init => IInv
<1>. SUFFICES ASSUME Init PROVE IInv
  OBVIOUS
<1>1. TypeOK
  BY PeriodFacts, InsightAssumption DEF Init, TypeOK, InsightAssumption
<1>2. \A t \in Tasks : TaskInv(t)
  BY DEF Init, TaskInv
<1>3. CountedOnce /\ DeletedMeansCounted
  BY DEF Init, CountedOnce, DeletedMeansCounted
<1>. QED
  BY <1>1, <1>2, <1>3 DEF IInv

-----------------------------------------------------------------------------
(* Type correctness.                                                       *)

(* A task that goes on to its next report, or finds none, starts afresh.   *)
LEMMA AdvanceFacts ==
    ASSUME TypeOK, NEW t \in Tasks, NEW batch \in SUBSET Reports, Advance(t, batch)
    PROVE  /\ pc' \in [Tasks -> {"idle", "get", "upsert", "delete"}]
           /\ todo' \in [Tasks -> SUBSET Reports]
           /\ report' \in [Tasks -> Reports \union {NoDoc}]
           /\ on' \in [Tasks -> Days]
           /\ period' \in [Tasks -> PeriodTypes]
           /\ period'[t] = 1
           /\ pc'[t] = "idle" \/ (pc'[t] = "get" /\ report'[t] \in Reports)
           /\ \A u \in Tasks \ {t} : /\ pc'[u] = pc[u] /\ report'[u] = report[u]
                                     /\ period'[u] = period[u]
<1>1. CASE batch = {}
  BY <1>1, PeriodFacts DEF TypeOK, Advance, Goto
<1>2. CASE batch # {}
  <2>1. PICK r \in batch : /\ Goto(t, "get")
                           /\ report' = [report EXCEPT ![t] = r]
                           /\ on' = [on EXCEPT ![t] = day]
                           /\ todo' = [todo EXCEPT ![t] = batch \ {r}]
    BY <1>2 DEF Advance
  <2>2. period' = [period EXCEPT ![t] = 1]
    BY DEF Advance
  <2>. QED
    BY <2>1, <2>2, PeriodFacts DEF TypeOK, Goto
<1>. QED
  BY <1>1, <1>2

LEMMA NextPeriodTypes ==
    ASSUME TypeOK, NEW t \in Tasks, NextPeriod(t)
    PROVE  /\ pc' \in [Tasks -> {"idle", "get", "upsert", "delete"}]
           /\ todo' \in [Tasks -> SUBSET Reports]
           /\ report' \in [Tasks -> Reports \union {NoDoc}]
           /\ on' \in [Tasks -> Days]
           /\ period' \in [Tasks -> PeriodTypes]
           /\ held' \in [Tasks -> InsightDocument \union {NoDoc}]
           /\ etag' \in [Tasks -> BOOLEAN]
<1>1. period[t] \in PeriodTypes /\ todo[t] \in SUBSET Reports
  BY DEF TypeOK
<1>2. period[t] < Len(Calendar) => period[t] + 1 \in PeriodTypes
  BY <1>1, PeriodFacts
<1>3. held' \in [Tasks -> InsightDocument \union {NoDoc}] /\ etag' \in [Tasks -> BOOLEAN]
  BY DEF TypeOK, NextPeriod
<1>4. CASE ~(period[t] < Len(Calendar)) /\ t \in Rebuilds
  <2>1. Advance(t, todo[t])
    BY <1>4 DEF NextPeriod
  <2>. QED
    BY <1>1, <1>3, <2>1, AdvanceFacts
<1>5. CASE period[t] < Len(Calendar)
  <2>1. /\ period' = [period EXCEPT ![t] = period[t] + 1]
        /\ pc' = [pc EXCEPT ![t] = "get"]
        /\ UNCHANGED <<todo, report, on>>
    BY <1>5 DEF NextPeriod, Goto
  <2>. QED
    BY <1>2, <1>3, <1>5, <2>1 DEF TypeOK
<1>6. CASE ~(period[t] < Len(Calendar)) /\ t \notin Rebuilds
  <2>1. /\ period' = [period EXCEPT ![t] = 1]
        /\ on' = [on EXCEPT ![t] = 1]
        /\ pc' = [pc EXCEPT ![t] = "delete"]
        /\ UNCHANGED <<todo, report>>
    BY <1>6 DEF NextPeriod, Goto
  <2>. QED
    BY <1>3, <2>1, PeriodFacts DEF TypeOK
<1>. QED
  BY <1>4, <1>5, <1>6

LEMMA PassOverTypes ==
    ASSUME TypeOK, NEW pairs \in SUBSET (Reports \X PeriodTypes), PassOver(pairs)
    PROVE  lost' \subseteq Reports \X PeriodTypes
  BY DEF TypeOK, PassOver

LEMMA LetGoTypes ==
    ASSUME TypeOK, NEW t, NEW msgs, LetGo(t, msgs)
    PROVE  holder' \in [Reports -> Workers \union {NoDoc}]
  BY DEF TypeOK, LetGo

LEMMA DisturbTypes ==
    ASSUME TypeOK, Disturb PROVE disturbances' \in 0 .. MaxDisturbances
  BY InsightAssumption DEF TypeOK, Disturb, InsightAssumption

LEMMA TypeStep ==
    ASSUME TypeOK, \A t \in Tasks : TaskInv(t), [Next]_vars
    PROVE  TypeOK'
<1>. USE DEF TypeOK, messages, current, reports
<1>0. CASE UNCHANGED vars
  BY <1>0 DEF vars
<1>1. CASE NextDay
  <2>1. day' \in Days
    BY <1>1, InsightAssumption DEF NextDay, Days, InsightAssumption
  <2>. QED
    BY <1>1, <2>1, DisturbTypes DEF NextDay
<1>2. ASSUME NEW r \in Reports, Complete(r) PROVE TypeOK'
  <2>1. /\ completed' \subseteq summaries' /\ summaries' \subseteq Reports
        /\ queue' \in [Reports -> {"none", "visible", "hidden", "deleted"}]
    BY <1>2 DEF Complete
  <2>2. disturbances' \in 0 .. MaxDisturbances
    BY <1>2, DisturbTypes DEF Complete
  <2>. QED
    BY <1>2, <2>1, <2>2 DEF Complete
<1>2a. ASSUME NEW r \in Reports, Reopen(r) PROVE TypeOK'
  <2>1. completed' \subseteq summaries' /\ summaries' \subseteq Reports
    BY <1>2a DEF Reopen
  <2>2. disturbances' \in 0 .. MaxDisturbances
    BY <1>2a, DisturbTypes DEF Reopen
  <2>. QED
    BY <1>2a, <2>1, <2>2 DEF Reopen
<1>3. ASSUME NEW r \in Reports, Reappear(r) PROVE TypeOK'
  BY <1>3, InsightAssumption DEF Reappear, Disturb, InsightAssumption
<1>4. ASSUME NEW w \in Workers, Receive(w) PROVE TypeOK'
  BY <1>4 DEF Receive, Goto, Tasks, Visible
<1>5. ASSUME NEW t \in Rebuilds, Rebuild(t) PROVE TypeOK'
  <2>1. completed \in SUBSET Reports /\ t \in Tasks /\ Advance(t, completed)
    BY <1>5 DEF Rebuild, Tasks
  <2>. QED
    BY <1>5, <2>1, AdvanceFacts DEF Rebuild
<1>6. ASSUME NEW t \in Tasks, Handle(t) PROVE TypeOK'
  <2>3. CASE Get(t)
    <3>1. report[t] \in Reports
      BY <2>3 DEF Get, TaskInv
    <3>2. insights[period[t]][Key(t)] \in InsightDocument \union {NoDoc}
      BY PeriodFacts DEF Key
    <3>3. PICK stored \in {insights[period[t]][Key(t)], NoDoc} :
            /\ IF stored = insights[period[t]][Key(t)]
               THEN UNCHANGED disturbances ELSE Disturb
            /\ held' = [held EXCEPT ![t] = Increment(stored, report[t])]
            /\ etag' = [etag EXCEPT ![t] = stored # NoDoc]
      BY <2>3 DEF Get
    <3>4. held' \in [Tasks -> InsightDocument \union {NoDoc}] /\ etag' \in [Tasks -> BOOLEAN]
      BY <3>1, <3>2, <3>3, IncrementIsDocument
    <3>5. disturbances' \in 0 .. MaxDisturbances
      BY <3>3, InsightAssumption DEF Disturb, InsightAssumption
    <3>. QED
      BY <2>3, <3>4, <3>5 DEF Get, Goto
  <2>4. CASE Upsert(t)
    <3>1. held[t] \in InsightDocument
      BY <2>4 DEF Upsert, TaskInv
    <3>2. Key(t) \in Days /\ period[t] \in PeriodTypes
      BY PeriodFacts DEF Key
    <3>3. insights' \in [PeriodTypes -> [Days -> InsightDocument \union {NoDoc}]]
      BY <2>4, <3>1, <3>2 DEF Upsert
    <3>4. lost' \subseteq Reports \X PeriodTypes
      BY <2>4, <3>2 DEF Upsert
    <3>. QED
      BY <2>4, <3>3, <3>4, NextPeriodTypes DEF Upsert
  <2>5. CASE UpsertRaises(t)
    <3>1. <<report[t], period[t]>> \in Reports \X PeriodTypes
      BY <2>5 DEF UpsertRaises, TaskInv
    <3>2. lost' \subseteq Reports \X PeriodTypes
      BY <2>5, <3>1, PassOverTypes DEF UpsertRaises
    <3>. QED
      BY <2>5, <3>2, NextPeriodTypes DEF UpsertRaises
  <2>. QED
    BY <1>6, <2>3, <2>4, <2>5 DEF Handle
<1>6a. ASSUME NEW w \in Workers, Start(w) PROVE TypeOK'
  BY <1>6a DEF Start, Take, Goto, Tasks
<1>6b. ASSUME NEW w \in Workers, StartNothing(w) PROVE TypeOK'
  <2>1. PICK r \in Reports : Take(w, r) /\ PassOver({r} \X PeriodTypes)
    BY <1>6b DEF StartNothing
  <2>2. lost' \subseteq Reports \X PeriodTypes
    BY <2>1, PassOverTypes
  <2>. QED
    BY <1>6b, <2>1, <2>2 DEF StartNothing, Take, Goto, Tasks
<1>7. ASSUME NEW w \in Workers, Delete(w) PROVE TypeOK'
  <2>1. w \in Tasks
    BY DEF Tasks
  <2>2. report[w] \in Reports
    BY <1>7, <2>1 DEF Delete, TaskInv
  <2>. QED
    BY <1>7, <2>1, <2>2, PeriodFacts DEF Delete, Clear, Goto
<1>8. ASSUME NEW w \in Workers, ReportUnreadable(w) PROVE TypeOK'
  <2>1. holder' \in [Reports -> Workers \union {NoDoc}]
    BY <1>8, LetGoTypes DEF ReportUnreadable
  <2>. QED
    BY <1>8, <2>1, DisturbTypes DEF ReportUnreadable, Tasks
<1>9. ASSUME NEW t \in Tasks, UpsertFails(t) PROVE TypeOK'
  <2>1. <<report[t], period[t]>> \in Reports \X PeriodTypes
    BY <1>9 DEF UpsertFails, TaskInv
  <2>2. lost' \subseteq Reports \X PeriodTypes
    BY <1>9, <2>1, PassOverTypes DEF UpsertFails
  <2>. QED
    BY <1>9, <2>2, NextPeriodTypes, DisturbTypes DEF UpsertFails
<1>10. ASSUME NEW t \in Tasks, Crash(t) PROVE TypeOK'
  <2>1. holder' \in [Reports -> Workers \union {NoDoc}]
    BY <1>10, LetGoTypes DEF Crash
  <2>. QED
    BY <1>10, <2>1, DisturbTypes, PeriodFacts DEF Crash, Clear, Goto
<1>. QED
  BY <1>0, <1>1, <1>2, <1>2a, <1>3, <1>4, <1>5, <1>6, <1>6a, <1>6b, <1>7, <1>8, <1>9, <1>10
     DEF Next, Work, Tasks

-----------------------------------------------------------------------------
(* No step unsettles a report in a period, or counts it again: only a      *)
(* document that was just made is ever stored.                             *)
LEMMA NothingUnsettled ==
    ASSUME IInv, [Next]_vars
    PROVE  Stays /\ CountedOnce'
<1>1. ASSUME UNCHANGED insights, lost \subseteq lost'
      PROVE  CountedOnce' /\ Stays
  BY <1>1 DEF IInv, CountedOnce, Stays, Settled, Counted, Counts
<1>2. ASSUME NEW t \in Tasks, Upsert(t)
      PROVE  CountedOnce' /\ Stays
  <2>. DEFINE p == period[t]
              old == insights[p][Key(t)]
  <2>1. held[t] \in InsightDocument /\ \A r \in Reports : held[t].counted[r] =< 1
    BY <1>2 DEF Upsert, IInv, TaskInv
  <2>2. insights \in [PeriodTypes -> [Days -> InsightDocument \union {NoDoc}]]
    BY DEF IInv, TypeOK
  <2>3. p \in PeriodTypes /\ Key(t) \in Days
    BY PeriodFacts DEF IInv, TypeOK, Key
  <2>4. /\ insights' = [insights EXCEPT ![p][Key(t)] = held[t]]
        /\ lost' = lost \union
             {<<r, p>> : r \in {x \in Reports : Counts(old, x) /\ ~Counts(held[t], x)}}
    BY <1>2 DEF Upsert
  <2>5. \A i \in PeriodTypes, k \in Days :
          insights'[i][k] = IF i = p /\ k = Key(t) THEN held[t] ELSE insights[i][k]
    BY <2>2, <2>3, <2>4
  <2>6. CountedOnce'
    BY <2>1, <2>5 DEF IInv, CountedOnce
  <2>7. ASSUME NEW r \in Reports, NEW i \in PeriodTypes, Settled(r, i)
        PROVE  Settled(r, i)'
    <3>1. CASE <<r, i>> \in lost
      BY <2>4, <3>1 DEF Settled
    <3>2. ASSUME NEW k \in Days, Counts(insights[i][k], r) PROVE Settled(r, i)'
      <4>1. CASE i = p /\ k = Key(t) /\ ~Counts(held[t], r)
        <5>1. <<r, p>> \in lost'
          BY <2>4, <3>2, <4>1
        <5>. QED
          BY <4>1, <5>1 DEF Settled
      <4>2. CASE i = p /\ k = Key(t) /\ Counts(held[t], r)
        BY <2>3, <2>5, <4>2 DEF Settled, Counted, Counts
      <4>3. CASE ~(i = p /\ k = Key(t))
        <5>1. insights'[i][k] = insights[i][k]
          BY <2>5, <4>3
        <5>. QED
          BY <3>2, <5>1 DEF Settled, Counted, Counts
      <4>. QED
        BY <4>1, <4>2, <4>3
    <3>. QED
      BY <2>7, <3>1, <3>2 DEF Settled, Counted
  <2>. QED
    BY <2>6, <2>7 DEF Stays
<1>3. (UNCHANGED insights /\ lost \subseteq lost') \/ \E t \in Tasks : Upsert(t)
  BY DEF Next, vars, NextDay, Complete, Reopen, Reappear, Work, Receive, Handle, Start, StartNothing,
         Get, UpsertRaises, PassOver, Delete, ReportUnreadable, Rebuild, UpsertFails, Crash, Tasks
<1>. QED
  BY <1>1, <1>2, <1>3

(* A task that does not move keeps what it knows.                          *)
LEMMA OthersKnow ==
    ASSUME NEW t \in Tasks, TaskInv(t), Stays,
           pc'[t] = pc[t], report'[t] = report[t], period'[t] = period[t],
           held'[t] = held[t], etag'[t] = etag[t]
    PROVE  TaskInv(t)'
  BY DEF TaskInv, Stays

(* A task goes on to the next period when its report is settled in this    *)
(* one.                                                                    *)
LEMMA NextPeriodKnows ==
    ASSUME TypeOK, NEW t \in Tasks, TaskInv(t), NextPeriod(t), pc[t] = "upsert", Stays,
           NEW CONSTANT p \in PeriodTypes, p = period[t],
           NEW CONSTANT r \in Reports, r = report[t],
           Settled(r, p)'
    PROVE  /\ TaskInv(t)'
           /\ \A u \in Tasks \ {t} : /\ pc'[u] = pc[u] /\ report'[u] = report[u]
                                     /\ period'[u] = period[u] /\ held'[u] = held[u]
                                     /\ etag'[u] = etag[u]
<1>0. p \in Nat
  BY PeriodFacts
<1>1. \A i \in PeriodTypes : i < p + 1 => Settled(r, i)'
  <2>. SUFFICES ASSUME NEW i \in PeriodTypes, i < p + 1
                PROVE  Settled(r, i)'
    OBVIOUS
  <2>1. CASE i < p
    BY <2>1 DEF TaskInv, Stays
  <2>2. CASE i = p
    BY <2>2
  <2>. QED
    BY <1>0, <2>1, <2>2, PeriodFacts
<1>2. \A u \in Tasks \ {t} : /\ pc'[u] = pc[u] /\ report'[u] = report[u]
                             /\ period'[u] = period[u] /\ held'[u] = held[u]
                             /\ etag'[u] = etag[u]
  <2>. TypeOK /\ todo[t] \in SUBSET Reports
    BY DEF TypeOK
  <2>1. \A u \in Tasks \ {t} : held'[u] = held[u] /\ etag'[u] = etag[u]
    BY DEF TypeOK, NextPeriod
  <2>2. CASE Advance(t, todo[t])
    BY <2>1, <2>2, AdvanceFacts
  <2>3. CASE ~Advance(t, todo[t])
    BY <2>1, <2>3 DEF TypeOK, NextPeriod, Goto
  <2>. QED
    BY <2>2, <2>3
<1>3. CASE p < Len(Calendar)
  <2>1. pc'[t] = "get" /\ report'[t] = r /\ period'[t] = p + 1
    BY <1>3 DEF TypeOK, NextPeriod, Goto
  <2>. QED
    BY <1>0, <1>1, <1>2, <2>1 DEF TaskInv
<1>4. CASE ~(p < Len(Calendar))
  <2>1. \A i \in PeriodTypes : i < p + 1
    BY <1>0, <1>4, PeriodFacts
  <2>2. CASE t \in Rebuilds
    <3>1. Advance(t, todo[t]) /\ todo[t] \in SUBSET Reports
      BY <1>4, <2>2 DEF NextPeriod, TypeOK
    <3>2. period'[t] = 1 /\ (pc'[t] = "idle" \/ (pc'[t] = "get" /\ report'[t] \in Reports))
      BY <3>1, AdvanceFacts
    <3>3. \A i \in PeriodTypes : ~(i < 1)
      BY PeriodFacts
    <3>. QED
      BY <1>2, <3>2, <3>3 DEF TaskInv
  <2>3. CASE t \notin Rebuilds
    <3>1. pc'[t] = "delete" /\ report'[t] = r
      BY <1>4, <2>3 DEF TypeOK, NextPeriod, Goto
    <3>. QED
      BY <1>0, <1>1, <1>2, <2>1, <3>1 DEF TaskInv
  <2>. QED
    BY <2>2, <2>3
<1>. QED
  BY <1>3, <1>4

(* A report that is passed over in some periods is settled there.          *)
LEMMA PassedOverSettled ==
    ASSUME NEW CONSTANT r, NEW CONSTANT i, NEW CONSTANT pairs, PassOver(pairs),
           UNCHANGED insights, <<r, i>> \in pairs
    PROVE  Counted(r, i)' \/ <<r, i>> \in lost'
<1>1. Counted(r, i) \/ <<r, i>> \in lost'
  BY DEF PassOver
<1>. QED
  BY <1>1 DEF Counted, Counts

-----------------------------------------------------------------------------
LEMMA TasksKnow ==
    ASSUME IInv, [Next]_vars, NEW u \in Tasks
    PROVE  TaskInv(u)'
<1>. TypeOK /\ TypeOK' /\ (\A t \in Tasks : TaskInv(t))
  BY TypeStep DEF IInv
<1>. Stays
  BY NothingUnsettled
<1>s. ASSUME UNCHANGED <<pc, current>> PROVE TaskInv(u)'
  BY <1>s, OthersKnow DEF current
<1>0. CASE UNCHANGED vars
  BY <1>0, <1>s DEF vars
<1>1. CASE NextDay
  BY <1>1, <1>s DEF NextDay
<1>2. ASSUME NEW r \in Reports, Complete(r) PROVE TaskInv(u)'
  BY <1>2, <1>s DEF Complete
<1>3. ASSUME NEW r \in Reports, Reopen(r) PROVE TaskInv(u)'
  BY <1>3, <1>s DEF Reopen
<1>4. ASSUME NEW r \in Reports, Reappear(r) PROVE TaskInv(u)'
  BY <1>4, <1>s DEF Reappear
<1>5. ASSUME NEW w \in Workers, Receive(w) PROVE TaskInv(u)'
  BY <1>5, <1>s DEF Receive
<1>6. ASSUME NEW t \in Rebuilds, Rebuild(t) PROVE TaskInv(u)'
  <2>. t \in Tasks /\ completed \in SUBSET Reports /\ Advance(t, completed)
    BY <1>6 DEF Rebuild, Tasks, TypeOK
  <2>1. CASE u = t
    <3>1. period'[t] = 1 /\ (pc'[t] = "idle" \/ (pc'[t] = "get" /\ report'[t] \in Reports))
      BY AdvanceFacts
    <3>2. \A i \in PeriodTypes : ~(i < 1)
      BY PeriodFacts
    <3>. QED
      BY <2>1, <3>1, <3>2 DEF TaskInv
  <2>2. CASE u # t
    <3>1. pc'[u] = pc[u] /\ report'[u] = report[u] /\ period'[u] = period[u]
      BY <2>2, AdvanceFacts
    <3>. QED
      BY <1>6, <3>1, OthersKnow DEF Rebuild
  <2>. QED
    BY <2>1, <2>2
<1>7. ASSUME NEW t \in Workers, Start(t) PROVE TaskInv(u)'
  <2>. t \in Tasks
    BY DEF Tasks
  <2>1. CASE u = t
    <3>1. pc'[t] = "get" /\ report'[t] \in Reports /\ period'[t] = 1
      BY <1>7 DEF Start, Take, Goto, TypeOK, TaskInv
    <3>2. \A i \in PeriodTypes : ~(i < 1)
      BY PeriodFacts
    <3>. QED
      BY <2>1, <3>1, <3>2 DEF TaskInv
  <2>2. CASE u # t
    BY <1>7, <2>2, OthersKnow DEF Start, Take, Goto, TypeOK
  <2>. QED
    BY <2>1, <2>2
<1>8. ASSUME NEW w \in Workers, StartNothing(w) PROVE TaskInv(u)'
  <2>. w \in Tasks
    BY DEF Tasks
  <2>1. CASE u = w
    <3>1. PICK r \in Reports : Take(w, r) /\ PassOver({r} \X PeriodTypes)
      BY <1>8 DEF StartNothing
    <3>2. report'[w] = r
      BY <3>1 DEF Take, TypeOK
    <3>3. PassOver({r} \X PeriodTypes) /\ UNCHANGED insights
      BY <1>8, <3>1 DEF StartNothing
    <3>4. \A i \in PeriodTypes : Settled(r, i)'
      <4>. SUFFICES ASSUME NEW i \in PeriodTypes PROVE Settled(r, i)'
        OBVIOUS
      <4>1. <<r, i>> \in {r} \X PeriodTypes
        OBVIOUS
      <4>2. Counted(r, i)' \/ <<r, i>> \in lost'
        BY <3>3, <4>1, PassedOverSettled
      <4>. QED
        BY <4>2 DEF Settled
    <3>5. pc'[w] = "delete"
      BY <1>8 DEF StartNothing, Goto, TypeOK
    <3>. QED
      BY <2>1, <3>2, <3>4, <3>5 DEF TaskInv
  <2>2. CASE u # w
    BY <1>8, <2>2, OthersKnow DEF StartNothing, Take, Goto, TypeOK
  <2>. QED
    BY <2>1, <2>2
<1>9. ASSUME NEW t \in Tasks, Get(t) PROVE TaskInv(u)'
  <2>1. CASE u = t
    <3>1. PICK stored \in {insights[period[t]][Key(t)], NoDoc} :
            /\ held' = [held EXCEPT ![t] = Increment(stored, report[t])]
            /\ etag' = [etag EXCEPT ![t] = stored # NoDoc]
      BY <1>9 DEF Get
    <3>2. Key(t) \in Days /\ period[t] \in PeriodTypes
      BY PeriodFacts DEF Key, TypeOK
    <3>3. stored \in InsightDocument \union {NoDoc} /\ report[t] \in Reports
      BY <1>9, <3>2 DEF TypeOK, Get, TaskInv
    <3>4. held'[t] = Increment(stored, report[t]) /\ etag'[t] = (stored # NoDoc)
      BY <3>1 DEF TypeOK
    <3>5. /\ pc'[t] = "upsert" /\ pc[t] = "get"
          /\ report'[t] = report[t] /\ period'[t] = period[t]
      BY <1>9 DEF Get, Goto, TypeOK
    <3>6. ~etag'[t] => \A r \in Reports : held'[t].counted[r] =< 1
      BY <3>3, <3>4, IncrementIsDocument
    <3>7. held'[t] \in InsightDocument /\ held'[t].counted[report[t]] >= 1
      BY <3>3, <3>4, IncrementIsDocument
    <3>. QED
      BY <2>1, <3>3, <3>5, <3>6, <3>7 DEF TaskInv, Stays
  <2>2. CASE u # t
    BY <1>9, <2>2, OthersKnow DEF Get, Goto, TypeOK
  <2>. QED
    BY <2>1, <2>2
<1>10. ASSUME NEW t \in Tasks, NextPeriod(t), pc[t] = "upsert",
              NEW CONSTANT p \in PeriodTypes, p = period[t],
              NEW CONSTANT r \in Reports, r = report[t],
              Settled(r, p)'
       PROVE  TaskInv(u)'
  BY <1>10, NextPeriodKnows, OthersKnow
<1>11. ASSUME NEW t \in Tasks, Upsert(t) PROVE TaskInv(u)'
  <2>1. PICK p \in PeriodTypes, r \in Reports : p = period[t] /\ r = report[t]
    BY <1>11 DEF TypeOK, Upsert, TaskInv
  <2>2. held[t] \in InsightDocument /\ held[t].counted[r] >= 1 /\ Key(t) \in Days
    BY <1>11, <2>1, PeriodFacts DEF Upsert, TaskInv, Key, TypeOK
  <2>3. insights'[p][Key(t)] = held[t]
    BY <1>11, <2>1, <2>2 DEF Upsert, TypeOK
  <2>4. \E k \in Days : insights'[p][k] # NoDoc /\ insights'[p][k].counted[r] >= 1
    BY <2>2, <2>3, NoDocAssumption
  <2>5. Settled(r, p)'
    BY <2>4 DEF Settled, Counted, Counts
  <2>. QED
    BY <1>10, <1>11, <2>1, <2>5 DEF Upsert
<1>12. ASSUME NEW t \in Tasks, UpsertRaises(t) \/ UpsertFails(t) PROVE TaskInv(u)'
  <2>1. PICK p \in PeriodTypes, r \in Reports : p = period[t] /\ r = report[t]
    BY <1>12 DEF TypeOK, UpsertRaises, UpsertFails, TaskInv
  <2>2. PassOver({<<r, p>>}) /\ UNCHANGED insights
    BY <1>12, <2>1 DEF UpsertRaises, UpsertFails
  <2>3. Counted(r, p)' \/ <<r, p>> \in lost'
    BY <2>2, <<r, p>> \in {<<r, p>>}, PassedOverSettled
  <2>4. Settled(r, p)'
    BY <2>3 DEF Settled
  <2>. QED
    BY <1>10, <1>12, <2>1, <2>4 DEF UpsertRaises, UpsertFails
<1>13. ASSUME NEW t \in Tasks, Clear(t), Goto(t, "idle") PROVE TaskInv(u)'
  <2>1. CASE u = t
    BY <1>13, <2>1 DEF Clear, Goto, TypeOK, TaskInv
  <2>2. CASE u # t
    BY <1>13, <2>2, OthersKnow DEF Clear, Goto, TypeOK
  <2>. QED
    BY <2>1, <2>2
<1>14. ASSUME NEW w \in Workers, Delete(w) PROVE TaskInv(u)'
  BY <1>13, <1>14 DEF Delete, Tasks
<1>15. ASSUME NEW w \in Workers, ReportUnreadable(w) PROVE TaskInv(u)'
  BY <1>15, <1>s DEF ReportUnreadable
<1>16. ASSUME NEW t \in Tasks, Crash(t) PROVE TaskInv(u)'
  BY <1>13, <1>16 DEF Crash
<1>. QED
  BY <1>0, <1>1, <1>2, <1>3, <1>4, <1>5, <1>6, <1>7, <1>8, <1>9, <1>11, <1>12,
     <1>14, <1>15, <1>16
     DEF Next, Work, Handle, Tasks

(* A message is deleted by its holder after the last period.               *)
LEMMA DeletedStep ==
    ASSUME IInv, [Next]_vars
    PROVE  DeletedMeansCounted'
<1>. TypeOK /\ Stays
  BY NothingUnsettled DEF IInv
<1>1. ASSUME NEW r \in Reports, queue'[r] = "deleted"
      PROVE  queue[r] = "deleted" \/ \E w \in Workers : Delete(w) /\ r = report[w]
  <2>. queue \in [Reports -> {"none", "visible", "hidden", "deleted"}]
    BY DEF TypeOK
  <2>1. ASSUME NEW x \in Reports, Complete(x) \/ Reappear(x)
        PROVE  queue[r] = "deleted"
    BY <1>1, <2>1 DEF Complete, Reappear
  <2>2. ASSUME NEW w \in Workers, Receive(w)
        PROVE  queue[r] = "deleted"
    BY <1>1, <2>2 DEF Receive
  <2>3. ASSUME NEW w \in Workers, Delete(w), r # report[w]
        PROVE  queue[r] = "deleted"
    BY <1>1, <2>3 DEF Delete, messages
  <2>4. \/ queue' = queue
        \/ \E w \in Workers : Delete(w) \/ Receive(w)
        \/ \E x \in Reports : Complete(x) \/ Reappear(x)
    BY DEF Next, vars, messages, NextDay, Reopen, Work, Handle, Start, StartNothing, Get, Upsert,
           UpsertRaises, ReportUnreadable, Rebuild, UpsertFails, Crash
  <2>. QED
    BY <1>1, <2>1, <2>2, <2>3, <2>4
<1>2. ASSUME NEW r \in Reports, queue'[r] = "deleted", NEW i \in PeriodTypes
      PROVE  Settled(r, i)
  <2>1. CASE queue[r] = "deleted"
    BY <1>2, <2>1 DEF IInv, DeletedMeansCounted, Settled
  <2>2. ASSUME NEW w \in Workers, Delete(w), r = report[w] PROVE Settled(r, i)
    BY <1>2, <2>2 DEF IInv, TaskInv, Delete, Tasks
  <2>. QED
    BY <1>1, <1>2, <2>1, <2>2
<1>3. \A r \in Reports : queue'[r] = "deleted" => \A i \in PeriodTypes : Settled(r, i)'
  BY <1>2 DEF Stays
<1>. QED
  BY <1>3 DEF DeletedMeansCounted, Settled

-----------------------------------------------------------------------------
LEMMA Invariance == Spec => []IInv
<1>1. IInv /\ [Next]_vars => IInv'
  <2>. SUFFICES ASSUME IInv, [Next]_vars PROVE IInv'
    OBVIOUS
  <2>1. TypeOK'
    BY TypeStep DEF IInv
  <2>. QED
    BY <2>1, TasksKnow, NothingUnsettled, DeletedStep DEF IInv
<1>. QED
  BY InitHolds, <1>1, PTL DEF Spec

(* Every reachable state of the pipeline is of the declared type.          *)
THEOREM InsightTypes == Spec => []TypeOK
<1>1. IInv => TypeOK
  BY DEF IInv
<1>. QED
  BY Invariance, <1>1, PTL

(* However often messages are redelivered, handled by overlapping workers  *)
(* and rebuilt, no insight document counts a report twice                  *)
(* (update_insight_use_case.py).                                           *)
THEOREM CountedAtMostOnce == Spec => []CountedOnce
<1>1. IInv => CountedOnce
  BY DEF IInv
<1>. QED
  BY Invariance, <1>1, PTL

(* When a report's queue message is deleted, each period has a document    *)
(* that counts it, or the pair is recorded as lost: no summary, a refused  *)
(* write, a document overwritten (insight_queue_worker.py).                *)
THEOREM DeletedAreCounted == Spec => []DeletedMeansCounted
<1>1. IInv => DeletedMeansCounted
  BY DEF IInv
<1>. QED
  BY Invariance, <1>1, PTL
=============================================================================
