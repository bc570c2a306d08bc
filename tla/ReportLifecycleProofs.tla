----------------------- MODULE ReportLifecycleProofs -----------------------
(***************************************************************************)
(* Proofs about ReportLifecycle, for any number of reports, diagnoses and  *)
(* concurrent requests, any bound on calls and any faults.                 *)
(***************************************************************************)
EXTENDS ReportLifecycle, FiniteSetTheorems, TLAPS

Creating(q) == pc[q] \in {"push", "store", "push_scheduled", "mark_failed"}
Counting(q) == pc[q] \in {"count", "save_count"}
Holds(q) == Creating(q) \/ pc[q] \in {"list", "save_status", "save_count"}
Resolves(q) == Counting(q) \/ pc[q] = "save_diagnosis"

(* What a handler refers to exists.                                        *)
Pointers ==
    \A q \in Requests :
        /\ pc[q] # "idle" => rid[q] \in ReportIds
        /\ Holds(q) => held[q] \in Report
        /\ Resolves(q) => item[q] \in DiagIds /\ diagnoses[item[q]] # NoDoc
        /\ pc[q] \in {"idle", "save_diagnosis", "count"} => tries[q] < MaxRetries

TypeInv == TypeOK /\ Pointers

LEMMA Counts ==
    ASSUME NEW r \in ReportIds
    PROVE  /\ IsFiniteSet(DiagnosesOf(r)) /\ Cardinality(DiagnosesOf(r)) \in Nat
           /\ IsFiniteSet(ResolvedOf(r)) /\ Cardinality(ResolvedOf(r)) \in Nat
           /\ \A b \in BOOLEAN : /\ IsFiniteSet(Uncounted(r, b))
                                 /\ Cardinality(Uncounted(r, b)) \in Nat
  <1>1. /\ DiagnosesOf(r) \subseteq DiagIds /\ ResolvedOf(r) \subseteq DiagIds
        /\ \A b \in BOOLEAN : Uncounted(r, b) \subseteq Requests
    BY DEF DiagnosesOf, ResolvedOf, Uncounted
  <1>2. QED
    BY <1>1, ReportAssumption, FS_Subset, FS_CardinalityType

LEMMA ReportTypes ==
    ASSUME NEW x \in Report
    PROVE  /\ \A s \in Statuses : [x EXCEPT !.status = s] \in Report
           /\ \A n \in Nat, k \in Nat :
                 [x EXCEPT !.status = "COMPLETED", !.total = n, !.resolved = k] \in Report
           /\ \A b \in BOOLEAN : [x EXCEPT !.resolved = Adjusted(@, b)] \in Report
           /\ x # NoDoc
  <1>1. \A b \in BOOLEAN : Adjusted(x.resolved, b) \in Nat
    BY DEF Report, Adjusted
  <1>2. QED
    BY <1>1, NoDocAssumption DEF Report, Statuses

LEMMA NewReportTypes ==
    ASSUME NEW i \in BOOLEAN, NEW m \in BOOLEAN
    PROVE  NewReport(i, m) \in Report
  BY DEF NewReport, Report, Statuses

LEMMA InitialTypes == ASSUME TypeOK PROVE ShouldBeInitial \subseteq BOOLEAN
  BY DEF ShouldBeInitial

LEMMA CallTypes == ASSUME TypeOK, Call PROVE calls' \in 0 .. MaxCalls
  BY ReportAssumption DEF TypeOK, Call

(* The handler ends.                                                       *)
LEMMA FinishTypes ==
    ASSUME TypeInv, NEW q \in Requests, Finish(q)
    PROVE  /\ pc' \in [Requests -> HandlerStates]
           /\ rid' \in [Requests -> ReportIds \union {NoDoc}]
           /\ held' \in [Requests -> Report \union {NoDoc}]
           /\ moved' \in [Requests -> BOOLEAN]
           /\ item' \in [Requests -> DiagIds \union {NoDoc}]
           /\ target' \in [Requests -> BOOLEAN]
           /\ tries' \in [Requests -> 0 .. MaxRetries]
           /\ batch' \in [Requests -> SUBSET DiagIds]
           /\ (\A d \in DiagIds : diagnoses[d] # NoDoc => diagnoses'[d] # NoDoc) => Pointers'
  BY ReportAssumption
     DEF TypeInv, TypeOK, Finish, HandlerStates, Pointers, Creating, Counting, Holds, Resolves

LEMMA InitTypes == Init => TypeInv
  BY ReportAssumption
     DEF Init, TypeInv, TypeOK, Pointers, HandlerStates, Creating, Counting, Holds, Resolves

LEMMA TypeStep ==
    ASSUME TypeInv, [Next]_vars
    PROVE  TypeInv'
  <1> USE DEF TypeInv, containers, resolving, history
  <1>1. ASSUME NEW q \in Requests, CreateReport(q) \/ ScheduledReport(q)
        PROVE  TypeInv'
    <2>1. PICK r \in ReportIds \ issued, i \in BOOLEAN, m \in BOOLEAN :
              /\ issued' = issued \union {r}
              /\ rid' = [rid EXCEPT ![q] = r]
              /\ held' = [held EXCEPT ![q] = NewReport(i, m)]
              /\ reports' = reports \/ reports' = [reports EXCEPT ![r] = NewReport(i, m)]
      <3>1. CASE CreateReport(q)
        BY <3>1, InitialTypes DEF CreateReport
      <3>2. CASE ScheduledReport(q)
        BY <3>2 DEF ScheduledReport
      <3>3. QED
        BY <1>1, <3>1, <3>2
    <2>2. NewReport(i, m) \in Report
      BY NewReportTypes
    <2>3. /\ pc[q] = "idle"
          /\ \E next \in {"push", "push_scheduled"} : pc' = [pc EXCEPT ![q] = next]
          /\ UNCHANGED <<diagnoses, delivered, valid, moved, resolving, batch, calls, history>>
      BY <1>1 DEF CreateReport, ScheduledReport, Begin
    <2>4. QED
      BY <2>1, <2>2, <2>3
         DEF TypeOK, HandlerStates, Pointers, Creating, Counting, Holds, Resolves
  <1>2. ASSUME NEW q \in Requests, Push(q) \/ PushFails(q) \/ PushScheduledFails(q)
        PROVE  TypeInv'
    <2>1. /\ rid[q] \in ReportIds /\ held[q] \in Report
          /\ [held[q] EXCEPT !.status = "FAILED"] \in Report
      BY <1>2, ReportTypes
         DEF Push, PushFails, PushScheduledFails, Pointers, Holds, Creating, Statuses
    <2>2. /\ pc[q] \in {"push", "push_scheduled"}
          /\ \E next \in {"store", "mark_failed"} : pc' = [pc EXCEPT ![q] = next]
          /\ \/ held' = held
             \/ held' = [held EXCEPT ![q] = [held[q] EXCEPT !.status = "FAILED"]]
          /\ delivered' \in {delivered, delivered \union {rid[q]}}
          /\ UNCHANGED <<reports, diagnoses, issued, rid, valid, moved, resolving, batch,
                         calls, history>>
      BY <1>2 DEF Push, PushFails, PushScheduledFails, Goto
    <2>3. QED
      BY <2>1, <2>2
         DEF TypeOK, HandlerStates, Pointers, Creating, Counting, Holds, Resolves
  <1>3. ASSUME NEW q \in Requests, StoreReport(q) \/ MarkFailed(q) \/ PushScheduled(q)
        PROVE  TypeInv'
    <2>1. rid[q] \in ReportIds /\ held[q] \in Report
      BY <1>3 DEF StoreReport, MarkFailed, PushScheduled, Pointers, Holds, Creating
    <2>2. /\ Finish(q)
          /\ \/ Write(rid[q], held[q]) /\ UNCHANGED delivered
             \/ UNCHANGED <<reports, valid>> /\ delivered' = delivered \union {rid[q]}
          /\ UNCHANGED <<diagnoses, issued, calls, history>>
      BY <1>3 DEF StoreReport, MarkFailed, PushScheduled
    <2>3. QED
      BY <2>1, <2>2, FinishTypes DEF Write, TypeOK
  <1>4. ASSUME NEW q \in Requests, Receive(q)
        PROVE  TypeInv'
    BY <1>4 DEF Receive, Begin, TypeOK, HandlerStates, Pointers, Creating, Counting, Holds,
       Resolves
  <1>5. ASSUME NEW q \in Requests, StoreDiagnosis(q)
        PROVE  TypeInv'
    <2>1. rid[q] \in ReportIds
      BY <1>5 DEF StoreDiagnosis, Pointers
    <2>2. PICK d \in batch[q] :
              /\ diagnoses' = [diagnoses EXCEPT ![d] = [report |-> rid[q], resolved |-> FALSE]]
              /\ \/ Finish(q)
                 \/ /\ batch' = [batch EXCEPT ![q] = @ \ {d}]
                    /\ UNCHANGED <<pc, rid, held, moved, resolving>>
      BY <1>5 DEF StoreDiagnosis
    <2>3. UNCHANGED <<reports, issued, delivered, valid, calls, history>> /\ pc[q] = "receive"
      BY <1>5 DEF StoreDiagnosis
    <2>4. /\ d \in DiagIds /\ [report |-> rid[q], resolved |-> FALSE] \in Diagnosis
          /\ [report |-> rid[q], resolved |-> FALSE] # NoDoc
      <3>1. d \in DiagIds
        BY <2>2 DEF TypeOK
      <3>2. [report |-> rid[q], resolved |-> FALSE] \in Diagnosis
        BY <2>1 DEF Diagnosis
      <3>3. QED
        BY <3>1, <3>2, NoDocAssumption
    <2>5. /\ diagnoses' \in [DiagIds -> Diagnosis \union {NoDoc}]
          /\ \A x \in DiagIds : diagnoses[x] # NoDoc => diagnoses'[x] # NoDoc
      BY <2>2, <2>4 DEF TypeOK
    <2>6. CASE Finish(q)
      BY <2>3, <2>5, <2>6, FinishTypes DEF TypeOK
    <2>7. CASE ~Finish(q)
      BY <2>2, <2>3, <2>5, <2>7 DEF TypeOK, Pointers, Creating, Counting, Holds, Resolves
    <2>8. QED
      BY <2>6, <2>7
  <1>6. ASSUME NEW q \in Requests, Callback(q) \/ CompletedCallback(q)
        PROVE  TypeInv'
    <2>1. PICK r \in Stored, x \in Report :
              /\ Read(q, r)
              /\ held' = [held EXCEPT ![q] = x]
      <3>1. \A r \in Stored : reports[r] \in Report
        BY DEF Stored, TypeOK
      <3>2. CASE Callback(q)
        BY <3>1, <3>2, ReportTypes DEF Callback, Statuses
      <3>3. CASE CompletedCallback(q)
        BY <3>1, <3>3 DEF CompletedCallback
      <3>4. QED
        BY <1>6, <3>2, <3>3
    <2>2. /\ pc[q] = "idle" /\ Call
          /\ \E next \in {"save_status", "list"} : pc' = [pc EXCEPT ![q] = next]
          /\ moved' = moved \/ \E b \in BOOLEAN : moved' = [moved EXCEPT ![q] = b]
          /\ UNCHANGED <<containers, resolving, batch, history>>
      BY <1>6 DEF Callback, CompletedCallback, Begin
    <2>3. QED
      BY <2>1, <2>2, CallTypes
         DEF Read, Stored, TypeOK, HandlerStates, Pointers, Creating, Counting, Holds, Resolves
  <1>7. ASSUME NEW q \in Requests, Recount(q)
        PROVE  TypeInv'
    <2> DEFINE r == rid[q]
               new == [held[q] EXCEPT !.status = "COMPLETED",
                                      !.total = Cardinality(DiagnosesOf(r)),
                                      !.resolved = Cardinality(ResolvedOf(r))]
    <2>1. r \in ReportIds /\ held[q] \in Report /\ pc[q] = "list"
      BY <1>7 DEF Recount, Pointers, Holds
    <2>2. new \in Report
      BY <2>1, Counts, ReportTypes
    <2>3. CASE Finish(q) /\ Forget(q) /\ UNCHANGED exact
      BY <1>7, <2>3, FinishTypes DEF Recount, Forget, TypeOK
    <2>4. CASE ~(Finish(q) /\ Forget(q) /\ UNCHANGED exact)
      <3> HIDE DEF new
      <3>1. /\ Goto(q, "save_status")
            /\ held' = [held EXCEPT ![q] = new]
            /\ \E b \in BOOLEAN : moved' = [moved EXCEPT ![q] = b]
            /\ \E b \in BOOLEAN : exact' = [exact EXCEPT ![q] = b]
            /\ UNCHANGED <<rid, valid, resolving, batch>>
        BY <1>7, <2>4 DEF Recount, new
      <3>2. UNCHANGED <<containers, calls, completed, announced, raced>>
        BY <1>7 DEF Recount
      <3>3. QED
        BY <2>1, <2>2, <3>1, <3>2
           DEF Goto, TypeOK, HandlerStates, Pointers, Creating, Counting, Holds, Resolves
    <2>5. QED
      BY <2>3, <2>4
  <1>8. ASSUME NEW q \in Requests, SaveStatus(q)
        PROVE  TypeInv'
    <2>1. rid[q] \in ReportIds /\ held[q] \in Report /\ pc[q] = "save_status"
      BY <1>8 DEF SaveStatus, Pointers, Holds
    <2>2. /\ Write(rid[q], held[q])
          /\ completed' \in [ReportIds -> Nat]
          /\ raced' \subseteq ReportIds
          /\ exact' = [exact EXCEPT ![q] = FALSE]
          /\ UNCHANGED <<diagnoses, issued, delivered, calls, announced>>
      BY <1>8, <2>1 DEF SaveStatus, TypeOK
    <2>3. CASE Finish(q)
      BY <2>1, <2>2, <2>3, FinishTypes DEF Write, TypeOK
    <2>4. CASE ~Finish(q)
      <3>1. Goto(q, "announce") /\ UNCHANGED <<rid, held, moved, resolving, batch>>
        BY <1>8, <2>4 DEF SaveStatus
      <3>2. QED
        BY <2>1, <2>2, <3>1
           DEF Goto, Write, TypeOK, HandlerStates, Pointers, Creating, Counting, Holds, Resolves
    <2>5. QED
      BY <2>3, <2>4
  <1>9. ASSUME NEW q \in Requests, SaveStatusRefused(q) \/ Announce(q)
        PROVE  TypeInv'
    <2>1. /\ Finish(q)
          /\ announced' \in [ReportIds -> Nat]
          /\ exact' \in [Requests -> BOOLEAN]
          /\ UNCHANGED <<containers, valid, calls, completed, raced>>
      <3>1. CASE SaveStatusRefused(q)
        BY <3>1 DEF SaveStatusRefused, TypeOK
      <3>2. CASE Announce(q)
        <4>1. rid[q] \in ReportIds
          BY <3>2 DEF Announce, Pointers
        <4>2. QED
          BY <3>2, <4>1 DEF Announce, TypeOK
      <3>3. QED
        BY <1>9, <3>1, <3>2
    <2>2. QED
      BY <2>1, FinishTypes DEF TypeOK
  <1>10. ASSUME NEW q \in Requests, Resolve(q)
         PROVE  TypeInv'
    <2>1. PICK d \in DiagIds :
              /\ diagnoses[d] # NoDoc
              /\ rid' = [rid EXCEPT ![q] = diagnoses[d].report]
              /\ item' = [item EXCEPT ![q] = d]
              /\ target' = [target EXCEPT ![q] = ~diagnoses[d].resolved]
      BY <1>10 DEF Resolve
    <2>2. diagnoses[d].report \in ReportIds /\ diagnoses[d].resolved \in BOOLEAN
      BY <2>1 DEF TypeOK, Diagnosis
    <2>3. QED
      BY <1>10, <2>1, <2>2, CallTypes
         DEF Resolve, Begin, TypeOK, HandlerStates, Pointers, Creating, Counting, Holds, Resolves
  <1>11. ASSUME NEW q \in Requests, SaveDiagnosis(q)
         PROVE  TypeInv'
    <2>1. /\ item[q] \in DiagIds /\ diagnoses[item[q]] \in Diagnosis /\ rid[q] \in ReportIds
          /\ target[q] \in BOOLEAN /\ tries[q] < MaxRetries
      BY <1>11 DEF SaveDiagnosis, Pointers, Resolves, TypeOK
    <2>2. diagnoses' = [diagnoses EXCEPT ![item[q]] =
                           [diagnoses[item[q]] EXCEPT !.resolved = target[q]]]
      BY <1>11 DEF SaveDiagnosis
    <2>3. [diagnoses[item[q]] EXCEPT !.resolved = target[q]] \in Diagnosis
      BY <2>1 DEF Diagnosis
    <2>4. /\ diagnoses' \in [DiagIds -> Diagnosis \union {NoDoc}]
          /\ \A d \in DiagIds : diagnoses[d] # NoDoc => diagnoses'[d] # NoDoc
      BY <2>1, <2>2, <2>3, NoDocAssumption DEF TypeOK
    <2>5. exact' \in [Requests -> BOOLEAN] /\ raced' \subseteq ReportIds
      BY <1>11, <2>1 DEF SaveDiagnosis, Race, TypeOK
    <2>6. QED
      BY <1>11, <2>1, <2>4, <2>5
         DEF SaveDiagnosis, Goto, TypeOK, HandlerStates, Pointers, Creating, Counting, Holds,
             Resolves
  <1>12. ASSUME NEW q \in Requests, Count(q)
         PROVE  TypeInv'
    <2>1. rid[q] \in ReportIds /\ target[q] \in BOOLEAN
      BY <1>12 DEF Count, Pointers, TypeOK
    <2>2. CASE reports[rid[q]] = NoDoc
      BY <1>12, <2>2, FinishTypes DEF Count, TypeOK
    <2>3. CASE reports[rid[q]] # NoDoc
      <3>1. [reports[rid[q]] EXCEPT !.resolved = Adjusted(@, target[q])] \in Report
        BY <2>1, <2>3, ReportTypes DEF TypeOK
      <3>2. tries[q] + 1 \in 0 .. MaxRetries
        BY <1>12, ReportAssumption DEF Count, Pointers, TypeOK
      <3>3. PICK x \in Report, n \in 0 .. MaxRetries :
                /\ held' = [held EXCEPT ![q] = x]
                /\ tries' = [tries EXCEPT ![q] = n]
        BY <1>12, <2>3, <3>1, <3>2 DEF Count
      <3>4. /\ pc[q] = "count" /\ Goto(q, "save_count")
            /\ valid' = [valid EXCEPT ![q] = TRUE]
            /\ UNCHANGED <<containers, rid, moved, item, target, batch, calls, history>>
        BY <1>12, <2>3 DEF Count
      <3>5. QED
        BY <2>1, <3>3, <3>4
           DEF Goto, TypeOK, HandlerStates, Pointers, Creating, Counting, Holds, Resolves
    <2>4. QED
      BY <2>2, <2>3
  <1>13. ASSUME NEW q \in Requests, SaveCount(q)
         PROVE  TypeInv'
    <2>1. rid[q] \in ReportIds /\ held[q] \in Report
      BY <1>13 DEF SaveCount, Pointers, Holds
    <2>2. exact' \in [Requests -> BOOLEAN] /\ raced' \subseteq ReportIds
      BY <1>13, <2>1 DEF SaveCount, Race, TypeOK
    <2>3. QED
      BY <1>13, <2>1, <2>2, FinishTypes DEF SaveCount, Write, TypeOK
  <1>14. ASSUME NEW q \in Requests, SaveCountRefused(q)
         PROVE  TypeInv'
    <2>1. rid[q] \in ReportIds /\ item[q] \in DiagIds /\ diagnoses[item[q]] # NoDoc
      BY <1>14 DEF SaveCountRefused, Pointers, Resolves, Counting
    <2>2. CASE tries[q] = MaxRetries
      BY <1>14, <2>1, <2>2, FinishTypes DEF SaveCountRefused, Race, TypeOK
    <2>3. CASE tries[q] # MaxRetries
      <3>1. tries[q] < MaxRetries
        BY <2>3, ReportAssumption DEF TypeOK
      <3>2. QED
        BY <1>14, <2>1, <2>3, <3>1
           DEF SaveCountRefused, Goto, TypeOK, HandlerStates, Pointers, Creating, Counting,
               Holds, Resolves
    <2>4. QED
      BY <2>2, <2>3
  <1>15. ASSUME NEW q \in Requests, Abort(q)
         PROVE  TypeInv'
    <2>1. rid[q] \in ReportIds
      BY <1>15 DEF Abort, Pointers
    <2>2. exact' \in [Requests -> BOOLEAN] /\ raced' \subseteq ReportIds
      BY <1>15, <2>1 DEF Abort, Race, TypeOK
    <2>3. QED
      BY <1>15, <2>2, FinishTypes DEF Abort, Forget, TypeOK
  <1>16. CASE UNCHANGED vars
    BY <1>16 DEF vars, TypeOK, Pointers, Creating, Counting, Holds, Resolves
  <1>17. QED
    BY <1>1, <1>2, <1>3, <1>4, <1>5, <1>6, <1>7, <1>8, <1>9, <1>10, <1>11, <1>12, <1>13,
       <1>14, <1>15, <1>16 DEF Next

LEMMA TypesAlways == Spec => []TypeInv
  BY InitTypes, TypeStep, PTL DEF Spec

(* Every variable keeps its type, for every value of the constants.        *)
THEOREM ReportTypesHold == Spec => []TypeOK
  <1>1. TypeInv => TypeOK
    BY DEF TypeInv
  <1>2. QED
    BY <1>1, TypesAlways, PTL

----------------------------------------------------------------------------
(* What request q does.                                                    *)
Step(q) ==
    \/ CreateReport(q) \/ Push(q) \/ PushFails(q) \/ StoreReport(q)
    \/ ScheduledReport(q) \/ PushScheduled(q) \/ PushScheduledFails(q) \/ MarkFailed(q)
    \/ Receive(q) \/ StoreDiagnosis(q)
    \/ Callback(q) \/ CompletedCallback(q) \/ Recount(q)
    \/ SaveStatus(q) \/ SaveStatusRefused(q) \/ Announce(q)
    \/ Resolve(q) \/ SaveDiagnosis(q) \/ Count(q) \/ SaveCount(q) \/ SaveCountRefused(q)
    \/ Abort(q)

LEMMA NextIsStep == Next <=> \E q \in Requests : Step(q)
  BY DEF Next, Step

(* An id is used once: a stored document has an issued id, and a diagnosis *)
(* that is still to be stored is nowhere else.                             *)
IdInv ==
    /\ Stored \subseteq issued
    /\ \A d \in DiagIds : diagnoses[d] # NoDoc => d \in issued
    /\ \A q \in Requests :
          /\ Creating(q) => rid[q] \in issued
          /\ batch[q] \subseteq issued
          /\ \A d \in batch[q] : diagnoses[d] = NoDoc
    /\ \A q1, q2 \in Requests : q1 # q2 => batch[q1] \intersect batch[q2] = {}

(* What a current etag tells a handler about the stored report.            *)
Etag(q) ==
    valid[q] =>
        /\ pc[q] = "list" => reports[rid[q]] = held[q]
        /\ pc[q] = "save_status" =>
              /\ reports[rid[q]] # NoDoc
              /\ held[q].status = "COMPLETED"
                    => (moved[q] <=> reports[rid[q]].status # "COMPLETED")
        /\ pc[q] = "save_count" =>
              /\ reports[rid[q]] # NoDoc
              /\ held[q] = [reports[rid[q]] EXCEPT !.resolved = Adjusted(@, target[q])]

DocInv == IdInv /\ \A q \in Requests : Etag(q)

(* A step of q leaves the other requests alone, and an etag that stays     *)
(* valid says that nobody touched the report.                              *)
Alone(q) ==
    \A p \in Requests \ {q} :
        /\ pc'[p] = pc[p] /\ rid'[p] = rid[p] /\ held'[p] = held[p]
        /\ moved'[p] = moved[p] /\ item'[p] = item[p] /\ target'[p] = target[p]
        /\ batch'[p] = batch[p]
        /\ valid'[p] => valid[p]
        /\ valid'[p] /\ rid[p] \in Stored => reports'[rid[p]] = reports[rid[p]]
        /\ exact'[p] => exact[p]

Grows == issued \subseteq issued' /\ delivered \subseteq delivered'

LEMMA WriteIsSeen ==
    ASSUME TypeOK, NEW q \in Requests, NEW x, Write(rid[q], x)
    PROVE  \A p \in Requests :
              /\ valid'[p] => valid[p]
              /\ valid'[p] /\ rid[p] \in Stored => reports'[rid[p]] = reports[rid[p]]
  BY DEF TypeOK, Write, Stored

LEMMA StepIsAlone ==
    ASSUME TypeInv, IdInv, NEW q \in Requests, Step(q)
    PROVE  Alone(q) /\ Grows
  <1> USE DEF TypeInv, TypeOK, Alone, Grows, containers, resolving, history
  <1>1. CASE CreateReport(q) \/ Push(q) \/ PushFails(q)
    BY <1>1 DEF CreateReport, Push, PushFails, Begin, Goto
  <1>2. CASE ScheduledReport(q)
    <2>1. PICK r \in ReportIds \ issued :
              reports' = [reports EXCEPT ![r] = NewReport(FALSE, FALSE)]
      BY <1>2 DEF ScheduledReport
    <2>2. r \notin Stored
      BY <2>1 DEF IdInv
    <2>3. \A p \in Requests : rid[p] \in Stored => reports'[rid[p]] = reports[rid[p]]
      BY <2>1, <2>2 DEF Stored
    <2>4. QED
      BY <1>2, <2>3 DEF ScheduledReport, Begin
  <1>3. CASE PushScheduled(q) \/ PushScheduledFails(q) \/ Receive(q)
    BY <1>3 DEF PushScheduled, PushScheduledFails, Receive, Begin, Goto, Finish
  <1>4. CASE StoreDiagnosis(q)
    BY <1>4 DEF StoreDiagnosis, Finish
  <1>5. CASE StoreReport(q) \/ MarkFailed(q) \/ SaveCount(q)
    <2>1. Write(rid[q], held[q]) /\ Finish(q)
      BY <1>5 DEF StoreReport, MarkFailed, SaveCount
    <2>2. \A p \in Requests :
             /\ valid'[p] => valid[p]
             /\ valid'[p] /\ rid[p] \in Stored => reports'[rid[p]] = reports[rid[p]]
      BY <2>1, WriteIsSeen
    <2>3. issued' = issued /\ delivered' = delivered /\ \A p \in Requests : exact'[p] => exact[p]
      BY <1>5 DEF StoreReport, MarkFailed, SaveCount, Race
    <2>4. QED
      BY <2>1, <2>2, <2>3 DEF Finish
  <1>6. CASE Callback(q) \/ CompletedCallback(q)
    <2>1. /\ \E next \in HandlerStates : pc' = [pc EXCEPT ![q] = next]
          /\ \E r \in Stored : Read(q, r)
          /\ \E x \in Report \union {NoDoc} : held' = [held EXCEPT ![q] = x]
          /\ \E b \in BOOLEAN : moved' = [moved EXCEPT ![q] = b]
          /\ UNCHANGED <<containers, resolving, batch, history>>
      <3>1. \A r \in Stored : reports[r] \in Report
        BY DEF Stored
      <3>2. CASE Callback(q)
        BY <3>1, <3>2, ReportTypes DEF Callback, Begin, HandlerStates, Statuses
      <3>3. CASE CompletedCallback(q)
        <4>1. moved' = [moved EXCEPT ![q] = moved[q]] /\ moved[q] \in BOOLEAN
          BY <3>3 DEF CompletedCallback
        <4>2. QED
          BY <3>1, <3>3, <4>1 DEF CompletedCallback, Begin, HandlerStates
      <3>4. QED
        BY <1>6, <3>2, <3>3
    <2>2. QED
      BY <2>1 DEF Read
  <1>7. CASE Recount(q)
    <2>1. /\ \E next \in HandlerStates : pc' = [pc EXCEPT ![q] = next]
          /\ \A p \in Requests \ {q} :
                /\ rid'[p] = rid[p] /\ held'[p] = held[p] /\ moved'[p] = moved[p]
                /\ item'[p] = item[p] /\ target'[p] = target[p] /\ batch'[p] = batch[p]
                /\ valid'[p] = valid[p] /\ exact'[p] = exact[p]
      BY <1>7 DEF Recount, Goto, Finish, Forget, HandlerStates
    <2>2. UNCHANGED containers
      BY <1>7 DEF Recount
    <2>3. QED
      BY <2>1, <2>2
  <1>8. CASE SaveStatus(q)
    <2>1. Write(rid[q], held[q])
      BY <1>8 DEF SaveStatus
    <2>2. \A p \in Requests :
             /\ valid'[p] => valid[p]
             /\ valid'[p] /\ rid[p] \in Stored => reports'[rid[p]] = reports[rid[p]]
      BY <2>1, WriteIsSeen
    <2>3. /\ \/ Finish(q)
             \/ Goto(q, "announce") /\ UNCHANGED <<rid, held, moved, resolving, batch>>
          /\ exact' = [exact EXCEPT ![q] = FALSE]
          /\ issued' = issued /\ delivered' = delivered
      BY <1>8 DEF SaveStatus
    <2>4. QED
      BY <2>2, <2>3 DEF Finish, Goto
  <1>9. CASE SaveStatusRefused(q) \/ Announce(q)
    BY <1>9 DEF SaveStatusRefused, Announce, Finish
  <1>10. CASE Resolve(q) \/ SaveDiagnosis(q)
    BY <1>10 DEF Resolve, SaveDiagnosis, Begin, Goto, Race
  <1>11. CASE Count(q) \/ SaveCountRefused(q)
    BY <1>11 DEF Count, SaveCountRefused, Goto, Finish, Race
  <1>12. CASE Abort(q)
    BY <1>12 DEF Abort, Finish, Forget, Race
  <1>13. QED
    BY <1>1, <1>2, <1>3, <1>4, <1>5, <1>6, <1>7, <1>8, <1>9, <1>10, <1>11, <1>12 DEF Step

LEMMA InitDoc == Init => DocInv
  BY NoDocAssumption DEF Init, DocInv, IdInv, Etag, Stored, Creating

LEMMA IdStep ==
    ASSUME TypeInv, DocInv, NEW q \in Requests, Step(q)
    PROVE  IdInv'
  <1> USE DEF TypeInv, TypeOK, containers, resolving, history
  <1> DEFINE Quiet ==
        /\ UNCHANGED <<issued, diagnoses>>
        /\ \A p \in Requests : /\ batch'[p] \subseteq batch[p]
                               /\ Creating(p)' => Creating(p) /\ rid'[p] = rid[p]
        /\ Stored' \subseteq Stored \union ({rid[q]} \intersect issued)
  <1>1. ASSUME Quiet PROVE IdInv'
    BY <1>1 DEF DocInv, IdInv
  <1>2. CASE CreateReport(q) \/ ScheduledReport(q)
    <2>1. PICK r \in ReportIds \ issued :
              /\ issued' = issued \union {r}
              /\ rid' = [rid EXCEPT ![q] = r]
              /\ \A s \in ReportIds : reports'[s] = reports[s] \/ s = r
      BY <1>2 DEF CreateReport, ScheduledReport
    <2>2. UNCHANGED <<diagnoses, batch>> /\ \A p \in Requests : p # q => pc'[p] = pc[p]
      BY <1>2 DEF CreateReport, ScheduledReport, Begin
    <2>3. Stored' \subseteq Stored \union {r}
      BY <2>1 DEF Stored
    <2>4. QED
      BY <2>1, <2>2, <2>3 DEF DocInv, IdInv, Creating
  <1>3. CASE Push(q) \/ PushFails(q) \/ PushScheduledFails(q) \/ Resolve(q)
    <2>1. Quiet
      BY <1>3 DEF Push, PushFails, PushScheduledFails, Resolve, Begin, Goto, Creating, Stored
    <2>2. QED
      BY <1>1, <2>1
  <1>4. CASE Callback(q) \/ CompletedCallback(q)
    <2>1. /\ \E next \in {"save_status", "list"} : pc' = [pc EXCEPT ![q] = next]
          /\ \E r \in Stored : rid' = [rid EXCEPT ![q] = r]
          /\ UNCHANGED <<containers, batch>>
      BY <1>4 DEF Callback, CompletedCallback, Read, Begin
    <2>2. Quiet
      BY <2>1 DEF Creating, Stored
    <2>3. QED
      BY <1>1, <2>2
  <1>5. CASE PushScheduled(q) \/ SaveStatusRefused(q) \/ Announce(q) \/ Abort(q)
    <2>1. Finish(q) /\ UNCHANGED <<reports, diagnoses, issued>>
      BY <1>5 DEF PushScheduled, SaveStatusRefused, Announce, Abort
    <2>2. Quiet
      BY <2>1 DEF Finish, Creating, Stored
    <2>3. QED
      BY <1>1, <2>2
  <1>6. CASE StoreReport(q) \/ MarkFailed(q) \/ SaveStatus(q) \/ SaveCount(q)
    <2>1. /\ Write(rid[q], held[q])
          /\ \/ Finish(q)
             \/ Goto(q, "announce") /\ UNCHANGED <<rid, held, moved, resolving, batch>>
          /\ UNCHANGED <<issued, diagnoses>>
      BY <1>6 DEF StoreReport, MarkFailed, SaveStatus, SaveCount
    <2>2. rid[q] \in issued
      <3>1. CASE StoreReport(q) \/ MarkFailed(q)
        BY <3>1 DEF StoreReport, MarkFailed, DocInv, IdInv, Creating
      <3>2. CASE SaveStatus(q) \/ SaveCount(q)
        <4>1. rid[q] \in Stored
          BY <3>2 DEF SaveStatus, SaveCount, DocInv, Etag, Pointers, Stored
        <4>2. QED
          BY <4>1 DEF DocInv, IdInv
      <3>3. QED
        BY <1>6, <3>1, <3>2
    <2>3. Stored' \subseteq Stored \union {rid[q]}
      BY <2>1 DEF Write, Stored
    <2>4. Quiet
      BY <2>1, <2>2, <2>3 DEF Finish, Goto, Creating
    <2>5. QED
      BY <1>1, <2>4
  <1>7. CASE Receive(q)
    <2>1. PICK r \in delivered, found \in SUBSET (DiagIds \ issued) :
              /\ issued' = issued \union found
              /\ batch' = [batch EXCEPT ![q] = found]
      BY <1>7 DEF Receive
    <2>2. /\ pc' = [pc EXCEPT ![q] = "receive"] /\ UNCHANGED <<reports, diagnoses>>
          /\ \A p \in Requests : p # q => rid'[p] = rid[p]
      BY <1>7 DEF Receive, Begin
    <2>3. QED
      BY <2>1, <2>2 DEF DocInv, IdInv, Creating, Stored
  <1>8. CASE StoreDiagnosis(q)
    <2>1. PICK d \in batch[q] :
              /\ diagnoses' = [diagnoses EXCEPT ![d] = [report |-> rid[q], resolved |-> FALSE]]
              /\ \/ Finish(q) /\ batch[q] = {d}
                 \/ /\ batch' = [batch EXCEPT ![q] = @ \ {d}]
                    /\ UNCHANGED <<pc, rid>>
      BY <1>8 DEF StoreDiagnosis
    <2>2. UNCHANGED <<reports, issued>>
      BY <1>8 DEF StoreDiagnosis
    <2>3. batch' = [batch EXCEPT ![q] = @ \ {d}]
      BY <2>1 DEF Finish
    <2>4. \A p \in Requests : Creating(p)' => Creating(p) /\ rid'[p] = rid[p]
      BY <2>1 DEF Finish, Creating
    <2>5. d \in issued /\ \A p \in Requests : d \notin batch'[p]
      BY <2>3 DEF DocInv, IdInv
    <2>6. \A x \in DiagIds : x # d => diagnoses'[x] = diagnoses[x]
      BY <2>1
    <2>7. \A p \in Requests : batch'[p] \subseteq batch[p]
      BY <2>3
    <2>8. QED
      BY <2>2, <2>4, <2>5, <2>6, <2>7 DEF DocInv, IdInv, Stored
  <1>9. CASE SaveDiagnosis(q)
    <2>1. item[q] \in DiagIds /\ diagnoses[item[q]] # NoDoc
      BY <1>9 DEF SaveDiagnosis, Pointers, Resolves
    <2>2. \A d \in DiagIds : d # item[q] => diagnoses'[d] = diagnoses[d]
      BY <1>9 DEF SaveDiagnosis
    <2>3. /\ UNCHANGED <<reports, issued, rid, batch>>
          /\ \A p \in Requests : Creating(p)' => Creating(p)
      BY <1>9 DEF SaveDiagnosis, Goto, Creating
    <2>4. \A p \in Requests : item[q] \notin batch[p]
      BY <2>1 DEF DocInv, IdInv
    <2>5. QED
      BY <2>1, <2>2, <2>3, <2>4 DEF DocInv, IdInv, Stored
  <1>10. CASE Recount(q) \/ Count(q) \/ SaveCountRefused(q)
    <2>1. /\ \/ Finish(q)
             \/ \E next \in {"save_status", "save_count", "count"} : Goto(q, next) /\ UNCHANGED <<rid, batch>>
          /\ UNCHANGED containers
      BY <1>10 DEF Recount, Count, SaveCountRefused
    <2>2. Quiet
      BY <2>1 DEF Finish, Goto, Creating, Stored
    <2>3. QED
      BY <1>1, <2>2
  <1>11. QED
    BY <1>2, <1>3, <1>4, <1>5, <1>6, <1>7, <1>8, <1>9, <1>10 DEF Step

LEMMA EtagStep ==
    ASSUME TypeInv, DocInv, NEW q \in Requests, Step(q)
    PROVE  \A p \in Requests : Etag(p)'
  <1> USE DEF TypeInv, TypeOK, containers, resolving, history
  <1>1. Alone(q)
    BY StepIsAlone DEF DocInv
  <1>2. ASSUME NEW p \in Requests, p # q
        PROVE  Etag(p)'
    <2>1. SUFFICES ASSUME valid'[p], pc[p] \in {"list", "save_status", "save_count"}
                   PROVE  Etag(p)'
      BY <1>1, <1>2 DEF Alone, Etag
    <2>2. valid[p]
      BY <1>1, <1>2, <2>1 DEF Alone
    <2>3. rid[p] \in Stored
      BY <2>1, <2>2, NoDocAssumption DEF DocInv, Etag, Pointers, Holds, Stored
    <2>4. reports'[rid[p]] = reports[rid[p]]
      BY <1>1, <1>2, <2>1, <2>3 DEF Alone
    <2>5. QED
      BY <1>1, <1>2, <2>2, <2>4 DEF Alone, DocInv, Etag
  <1>3. Etag(q)'
    <2>1. CASE CompletedCallback(q)
      BY <2>1 DEF CompletedCallback, Begin, Read, Stored, Etag
    <2>2. CASE Callback(q)
      <3>1. PICK r \in Stored, s \in {"ANALYZING", "FAILED"} :
                /\ held' = [held EXCEPT ![q] = [reports[r] EXCEPT !.status = s]]
                /\ Read(q, r)
        BY <2>2 DEF Callback
      <3>2. reports[r] \in Report /\ reports[r] # NoDoc
        BY DEF Stored
      <3>3. rid'[q] = r /\ held'[q].status = s
        BY <3>1, <3>2 DEF Read, Report
      <3>4. pc'[q] = "save_status" /\ reports' = reports
        BY <2>2 DEF Callback, Begin
      <3>5. QED
        BY <3>2, <3>3, <3>4 DEF Etag
    <2>3. CASE Recount(q)
      <3>1. /\ pc[q] = "list" /\ reports' = reports
            /\ \/ pc'[q] = "idle"
               \/ /\ pc'[q] = "save_status" /\ rid'[q] = rid[q] /\ valid'[q] = valid[q]
                  /\ moved'[q] = (held[q].status # "COMPLETED")
        BY <2>3 DEF Recount, Goto, Finish
      <3>2. held[q] # NoDoc
        BY <3>1, NoDocAssumption DEF Pointers, Holds
      <3>3. QED
        BY <3>1, <3>2 DEF DocInv, Etag
    <2>4. CASE Count(q)
      BY <2>4 DEF Count, Goto, Finish, Etag
    <2>5. CASE ~(CompletedCallback(q) \/ Callback(q) \/ Recount(q) \/ Count(q))
      <3>1. pc'[q] \notin {"list", "save_status", "save_count"}
        <4>1. CASE Finish(q)
          BY <4>1 DEF Finish
        <4>2. CASE ~Finish(q)
          BY <2>5, <4>2
             DEF Step, CreateReport, Push, PushFails, StoreReport, ScheduledReport, PushScheduled,
                 PushScheduledFails, MarkFailed, Receive, StoreDiagnosis, SaveStatus,
                 SaveStatusRefused, Announce, Resolve, SaveDiagnosis, SaveCount,
                 SaveCountRefused, Abort, Begin, Goto
        <4>3. QED
          BY <4>1, <4>2
      <3>2. QED
        BY <3>1 DEF Etag
    <2>6. QED
      BY <2>1, <2>2, <2>3, <2>4, <2>5
  <1>4. QED
    BY <1>2, <1>3

LEMMA DocAlways == Spec => [](TypeInv /\ DocInv)
  <1>1. TypeInv /\ DocInv /\ [Next]_vars => DocInv'
    <2> SUFFICES ASSUME TypeInv, DocInv, [Next]_vars PROVE DocInv'
      OBVIOUS
    <2>1. CASE Next
      BY <2>1, NextIsStep, IdStep, EtagStep DEF DocInv
    <2>2. CASE UNCHANGED vars
      BY <2>2 DEF vars, containers, resolving, history, DocInv, IdInv, Etag, Stored, Creating
    <2>3. QED
      BY <2>1, <2>2
  <1>2. QED
    BY InitDoc, TypesAlways, <1>1, PTL DEF Spec

----------------------------------------------------------------------------
(* A report that a handler may store as ANALYZING has its command in the   *)
(* queue, unless it is a scheduled one.                                    *)
Backed(q) ==
    /\ Creating(q) => held[q].status # "COMPLETED"
    /\ pc[q] \in {"push_scheduled", "mark_failed"} => ~held[q].manual
    /\ pc[q] = "store" /\ held[q].status = "ANALYZING" => rid[q] \in delivered
    /\ pc[q] \in {"list", "save_status"} => rid[q] \in delivered
    /\ pc[q] = "save_count" /\ held[q].manual /\ held[q].status = "ANALYZING"
          => rid[q] \in delivered

BackedInv == ManualReportsHaveCommands /\ \A q \in Requests : Backed(q)

LEMMA InitBacked == Init => BackedInv
  BY NoDocAssumption
     DEF Init, BackedInv, Backed, ManualReportsHaveCommands, Stored, Creating

LEMMA OwnBacked ==
    ASSUME TypeInv, DocInv, BackedInv, NEW q \in Requests, Step(q)
    PROVE  Backed(q)'
  <1> USE DEF TypeInv, TypeOK, containers, resolving, history
  <1>1. CASE CreateReport(q) \/ ScheduledReport(q)
    <2>1. PICK i \in BOOLEAN, m \in BOOLEAN :
              /\ held'[q] = NewReport(i, m)
              /\ pc'[q] = "push" \/ (pc'[q] = "push_scheduled" /\ ~m)
      <3>1. CASE CreateReport(q)
        BY <3>1, InitialTypes DEF CreateReport, Begin
      <3>2. CASE ScheduledReport(q)
        BY <3>2 DEF ScheduledReport, Begin
      <3>3. QED
        BY <1>1, <3>1, <3>2
    <2>2. QED
      BY <2>1 DEF NewReport, Backed, Creating
  <1>2. CASE Push(q)
    BY <1>2 DEF Push, Goto, Pointers, Creating, BackedInv, Backed
  <1>3. CASE PushFails(q) \/ PushScheduledFails(q)
    <2>1. held[q] \in Report
      BY <1>3 DEF PushFails, PushScheduledFails, Pointers, Holds, Creating
    <2>2. held'[q].status = "FAILED" /\ held'[q].manual = held[q].manual
      BY <1>3, <2>1 DEF PushFails, PushScheduledFails, Report
    <2>3. \/ pc[q] = "push" /\ pc'[q] = "store"
          \/ pc[q] = "push_scheduled" /\ pc'[q] = "mark_failed"
      BY <1>3 DEF PushFails, PushScheduledFails, Goto
    <2>4. QED
      BY <2>2, <2>3 DEF BackedInv, Backed, Creating
  <1>4. CASE Callback(q) \/ CompletedCallback(q)
    <2>1. /\ pc'[q] \in {"list", "save_status"} /\ delivered' = delivered
          /\ \E r \in delivered : rid'[q] = r
      BY <1>4 DEF Callback, CompletedCallback, Begin, Read
    <2>2. QED
      BY <2>1 DEF Backed, Creating
  <1>5. CASE Recount(q)
    <2>1. /\ pc[q] = "list" /\ delivered' = delivered
          /\ pc'[q] = "idle" \/ (pc'[q] = "save_status" /\ rid'[q] = rid[q])
      BY <1>5 DEF Recount, Goto, Finish
    <2>2. QED
      BY <2>1 DEF BackedInv, Backed, Creating
  <1>6. CASE Count(q)
    <2>1. CASE reports[rid[q]] = NoDoc
      BY <1>6, <2>1 DEF Count, Finish, Backed, Creating
    <2>2. CASE reports[rid[q]] # NoDoc
      <3>1. rid[q] \in Stored /\ reports[rid[q]] \in Report
        BY <1>6, <2>2 DEF Count, Pointers, Stored
      <3>2. /\ held'[q] = [reports[rid[q]] EXCEPT !.resolved = Adjusted(@, target[q])]
            /\ pc'[q] = "save_count" /\ rid'[q] = rid[q] /\ delivered' = delivered
        BY <1>6, <2>2 DEF Count, Goto
      <3>3. /\ held'[q].status = reports[rid[q]].status
            /\ held'[q].manual = reports[rid[q]].manual
        BY <3>1, <3>2 DEF Report
      <3>4. QED
        BY <3>1, <3>2, <3>3 DEF BackedInv, ManualReportsHaveCommands, Backed, Creating
    <2>3. QED
      BY <2>1, <2>2
  <1>7. CASE ~(\/ CreateReport(q) \/ ScheduledReport(q) \/ Push(q) \/ PushFails(q)
               \/ PushScheduledFails(q) \/ Callback(q) \/ CompletedCallback(q) \/ Recount(q)
               \/ Count(q))
    <2>1. pc'[q] \in {"idle", "receive", "announce", "save_diagnosis", "count"}
      <3>1. CASE Finish(q)
        BY <3>1 DEF Finish
      <3>2. CASE ~Finish(q)
        BY <1>7, <3>2
           DEF Step, StoreReport, PushScheduled, MarkFailed, Receive, StoreDiagnosis, SaveStatus,
               SaveStatusRefused, Announce, Resolve, SaveDiagnosis, SaveCount, SaveCountRefused,
               Abort, Begin, Goto
      <3>3. QED
        BY <3>1, <3>2
    <2>2. QED
      BY <2>1 DEF Backed, Creating
  <1>8. QED
    BY <1>1, <1>2, <1>3, <1>4, <1>5, <1>6, <1>7

LEMMA BackedStep ==
    ASSUME TypeInv, DocInv, BackedInv, NEW q \in Requests, Step(q)
    PROVE  BackedInv'
  <1> USE DEF TypeInv, TypeOK, containers, resolving, history
  <1>1. Alone(q) /\ Grows
    BY StepIsAlone DEF DocInv
  <1>2. \A p \in Requests : Backed(p)'
    BY <1>1, OwnBacked DEF Alone, Grows, BackedInv, Backed, Creating
  <1>3. ManualReportsHaveCommands'
    <2>1. CASE StoreReport(q) \/ MarkFailed(q) \/ SaveStatus(q) \/ SaveCount(q)
      <3>1. Write(rid[q], held[q]) /\ rid[q] \in ReportIds
        BY <2>1 DEF StoreReport, MarkFailed, SaveStatus, SaveCount, Pointers
      <3>2. held[q].manual /\ held[q].status = "ANALYZING" => rid[q] \in delivered
        BY <2>1 DEF StoreReport, MarkFailed, SaveStatus, SaveCount, BackedInv, Backed
      <3>3. QED
        BY <1>1, <3>1, <3>2 DEF Grows, Write, Stored, BackedInv, ManualReportsHaveCommands
    <2>2. CASE ScheduledReport(q)
      <3>1. PICK r \in ReportIds : reports' = [reports EXCEPT ![r] = NewReport(FALSE, FALSE)]
        BY <2>2 DEF ScheduledReport
      <3>2. ~NewReport(FALSE, FALSE).manual
        BY DEF NewReport
      <3>3. QED
        BY <1>1, <3>1, <3>2 DEF Grows, Stored, BackedInv, ManualReportsHaveCommands
    <2>3. CASE UNCHANGED reports
      BY <1>1, <2>3 DEF Grows, Stored, BackedInv, ManualReportsHaveCommands
    <2>4. UNCHANGED reports \/ ScheduledReport(q)
            \/ StoreReport(q) \/ MarkFailed(q) \/ SaveStatus(q) \/ SaveCount(q)
      BY DEF Step, CreateReport, Push, PushFails, PushScheduled, PushScheduledFails, Receive,
             StoreDiagnosis, Callback, CompletedCallback, Recount, SaveStatusRefused, Announce,
             Resolve, SaveDiagnosis, Count, SaveCountRefused, Abort
    <2>5. QED
      BY <2>1, <2>2, <2>3, <2>4
  <1>4. QED
    BY <1>2, <1>3 DEF BackedInv

LEMMA BackedAlways == Spec => []BackedInv
  <1>1. TypeInv /\ DocInv /\ BackedInv /\ [Next]_vars => BackedInv'
    <2> SUFFICES ASSUME TypeInv, DocInv, BackedInv, [Next]_vars PROVE BackedInv'
      OBVIOUS
    <2>1. CASE Next
      BY <2>1, NextIsStep, BackedStep
    <2>2. CASE UNCHANGED vars
      BY <2>2 DEF vars, containers, BackedInv, Backed, ManualReportsHaveCommands, Stored, Creating
    <2>3. QED
      BY <2>1, <2>2
  <1>2. QED
    BY InitBacked, DocAlways, <1>1, PTL DEF Spec

(* A user's report is never ANALYZING without a command for the agent.     *)
THEOREM ManualReportsAlwaysHaveCommands == Spec => []ManualReportsHaveCommands
  <1>1. BackedInv => ManualReportsHaveCommands
    BY DEF BackedInv
  <1>2. QED
    BY <1>1, BackedAlways, PTL

----------------------------------------------------------------------------
(* An event still to be published has its own completion.                  *)
Owed(r) == Accounted(r) =< completed[r]

OwedInv == \A r \in ReportIds : Owed(r)

LEMMA InitOwed == Init => OwedInv
  <1> SUFFICES ASSUME Init, NEW r \in ReportIds PROVE Owed(r)
    BY DEF OwedInv
  <1>1. Announcing(r) = {}
    BY DEF Init, Announcing
  <1>2. announced[r] = 0 /\ completed[r] = 0
    BY DEF Init
  <1>3. QED
    BY <1>1, <1>2, FS_EmptySet DEF Owed, Accounted

LEMMA AnnouncingFinite ==
    ASSUME NEW r \in ReportIds
    PROVE  IsFiniteSet(Announcing(r)) /\ Cardinality(Announcing(r)) \in Nat
  <1>1. Announcing(r) \subseteq Requests
    BY DEF Announcing
  <1>2. QED
    BY <1>1, ReportAssumption, FS_Subset, FS_CardinalityType

(* What a step of q does to the events of r that are accounted for.        *)
LEMMA AccountedStep ==
    ASSUME TypeInv, DocInv, NEW q \in Requests, Step(q), NEW r \in ReportIds
    PROVE  \/ completed'[r] + Accounted(r) = completed[r] + Accounted(r)'
           \/ q \in Announcing(r) /\ Abort(q)
  <1> USE DEF TypeInv, TypeOK, containers, resolving, history
  <1>1. Alone(q)
    BY StepIsAlone DEF DocInv
  <1>2. /\ IsFiniteSet(Announcing(r)) /\ Cardinality(Announcing(r)) \in Nat
        /\ announced[r] \in Nat /\ completed[r] \in Nat
    BY AnnouncingFinite
  <1>3. ASSUME Announcing(r)' = Announcing(r), announced'[r] = announced[r],
               completed'[r] = completed[r]
        PROVE  completed'[r] + Accounted(r) = completed[r] + Accounted(r)'
    BY <1>2, <1>3 DEF Accounted
  <1>4. CASE Announce(q)
    <2>1. CASE rid[q] = r
      <3>1. q \in Announcing(r) /\ Announcing(r)' = Announcing(r) \ {q}
        BY <1>1, <1>4, <2>1 DEF Announce, Finish, Announcing, Alone
      <3>2. Cardinality(Announcing(r)') = Cardinality(Announcing(r)) - 1
        BY <1>2, <3>1, FS_RemoveElement
      <3>3. announced'[r] = announced[r] + 1 /\ completed'[r] = completed[r]
        BY <1>4, <2>1 DEF Announce
      <3>4. QED
        BY <1>2, <3>2, <3>3 DEF Accounted
    <2>2. CASE rid[q] # r
      <3>1. Announcing(r)' = Announcing(r)
        BY <1>1, <1>4, <2>2 DEF Announce, Finish, Announcing, Alone
      <3>2. announced'[r] = announced[r] /\ completed'[r] = completed[r]
        BY <1>4, <2>2 DEF Announce, Pointers
      <3>3. QED
        BY <1>3, <3>1, <3>2
    <2>3. QED
      BY <2>1, <2>2
  <1>5. CASE SaveStatus(q)
    <2>1. CASE rid[q] = r /\ held[q].status = "COMPLETED" /\ moved[q]
      <3>1. reports[r].status # "COMPLETED"
        BY <1>5, <2>1 DEF SaveStatus, DocInv, Etag
      <3>2. announced'[r] = announced[r] /\ completed'[r] = completed[r] + 1
        BY <1>5, <2>1, <3>1 DEF SaveStatus
      <3>3. Announcing(r)' = Announcing(r) \union {q} /\ q \notin Announcing(r)
        BY <1>1, <1>5, <2>1 DEF SaveStatus, Goto, Announcing, Alone
      <3>4. Cardinality(Announcing(r)') = Cardinality(Announcing(r)) + 1
        <4>1. Cardinality(Announcing(r) \union {q}) =
                 IF q \in Announcing(r) THEN Cardinality(Announcing(r))
                                        ELSE Cardinality(Announcing(r)) + 1
          BY <1>2, FS_AddElement
        <4>2. QED
          BY <3>3, <4>1
      <3>5. QED
        BY <1>2, <3>2, <3>4 DEF Accounted
    <2>2. CASE ~(rid[q] = r /\ held[q].status = "COMPLETED" /\ moved[q])
      <3>1. rid[q] = r /\ held[q].status = "COMPLETED" => reports[r].status = "COMPLETED"
        BY <1>5, <2>2 DEF SaveStatus, DocInv, Etag
      <3>2. announced'[r] = announced[r] /\ completed'[r] = completed[r]
        BY <1>5, <3>1 DEF SaveStatus
      <3>3. Announcing(r)' = Announcing(r)
        BY <1>1, <1>5, <2>2 DEF SaveStatus, Goto, Finish, Announcing, Alone
      <3>4. QED
        BY <1>3, <3>2, <3>3
    <2>3. QED
      BY <2>1, <2>2
  <1>6. CASE ~Announce(q) /\ ~SaveStatus(q) /\ ~(q \in Announcing(r) /\ Abort(q))
    <2>1. UNCHANGED <<announced, completed>>
      BY <1>6 DEF Step, CreateReport, Push, PushFails, StoreReport, ScheduledReport, PushScheduled,
                 PushScheduledFails, MarkFailed, Receive, StoreDiagnosis, Callback,
                 CompletedCallback, Recount, SaveStatusRefused, Resolve, SaveDiagnosis, Count,
                 SaveCount, SaveCountRefused, Abort
    <2>2. pc'[q] # "announce"
      <3>1. CASE Finish(q)
        BY <3>1 DEF Finish
      <3>2. CASE ~Finish(q)
        BY <1>6, <3>2
           DEF Step, CreateReport, Push, PushFails, StoreReport, ScheduledReport, PushScheduled,
               PushScheduledFails, MarkFailed, Receive, StoreDiagnosis, Callback,
               CompletedCallback, Recount, SaveStatusRefused, Resolve, SaveDiagnosis, Count,
               SaveCount, SaveCountRefused, Abort, Begin, Goto
      <3>3. QED
        BY <3>1, <3>2
    <2>3. q \notin Announcing(r)
      <3>1. Abort(q) \/ pc[q] # "announce"
        BY <1>6 DEF Step, CreateReport, Push, PushFails, StoreReport, ScheduledReport, PushScheduled,
                   PushScheduledFails, MarkFailed, Receive, StoreDiagnosis, Callback,
                   CompletedCallback, Recount, SaveStatusRefused, Resolve, SaveDiagnosis, Count,
                   SaveCount, SaveCountRefused, Begin
      <3>2. QED
        BY <1>6, <3>1 DEF Announcing
    <2>4. Announcing(r)' = Announcing(r)
      BY <1>1, <2>2, <2>3 DEF Announcing, Alone
    <2>5. QED
      BY <1>3, <2>1, <2>4
  <1>7. QED
    BY <1>4, <1>5, <1>6

LEMMA OwedStep ==
    ASSUME TypeInv, DocInv, OwedInv, NEW q \in Requests, Step(q)
    PROVE  OwedInv'
  <1> SUFFICES ASSUME NEW r \in ReportIds PROVE Owed(r)'
    BY DEF OwedInv
  <1>1. TypeInv'
    BY NextIsStep, TypeStep
  <1>2. /\ IsFiniteSet(Announcing(r)) /\ Cardinality(Announcing(r)) \in Nat
        /\ announced[r] \in Nat /\ completed[r] \in Nat /\ Owed(r)
    BY AnnouncingFinite DEF OwedInv, TypeInv, TypeOK
  <1>3. /\ IsFiniteSet(Announcing(r)') /\ Cardinality(Announcing(r)') \in Nat
        /\ announced'[r] \in Nat /\ completed'[r] \in Nat
    <2>1. Announcing(r)' \subseteq Requests
      BY DEF Announcing
    <2>2. QED
      BY <1>1, <2>1, ReportAssumption, FS_Subset, FS_CardinalityType DEF TypeInv, TypeOK
  <1>4. CASE completed'[r] + Accounted(r) = completed[r] + Accounted(r)'
    BY <1>2, <1>3, <1>4 DEF Owed, Accounted
  <1>5. CASE q \in Announcing(r) /\ Abort(q)
    <2>1. UNCHANGED <<announced, completed>>
      BY <1>5 DEF Abort
    <2>2. Announcing(r)' \subseteq Announcing(r)
      BY <1>5 DEF Abort, Finish, Announcing, TypeInv, TypeOK
    <2>3. Cardinality(Announcing(r)') =< Cardinality(Announcing(r))
      BY <1>2, <2>2, FS_Subset
    <2>4. QED
      BY <1>2, <1>3, <2>1, <2>3 DEF Owed, Accounted
  <1>6. QED
    BY <1>4, <1>5, AccountedStep

LEMMA OwedAlways == Spec => [](TypeInv /\ OwedInv)
  <1>1. TypeInv /\ DocInv /\ OwedInv /\ [Next]_vars => OwedInv'
    <2> SUFFICES ASSUME TypeInv, DocInv, OwedInv, [Next]_vars PROVE OwedInv'
      OBVIOUS
    <2>1. CASE Next
      BY <2>1, NextIsStep, OwedStep
    <2>2. CASE UNCHANGED vars
      BY <2>2 DEF vars, history, OwedInv, Owed, Accounted, Announcing
    <2>3. QED
      BY <2>1, <2>2
  <1>2. QED
    BY InitOwed, DocAlways, <1>1, PTL DEF Spec

(* However callbacks overlap, a report's event is published at most once   *)
(* per time it newly became COMPLETED.                                     *)
THEOREM EventsHaveCompletions == Spec => []AnnouncedOncePerCompletion
  <1>1. TypeInv /\ OwedInv => AnnouncedOncePerCompletion
    BY AnnouncingFinite DEF TypeInv, TypeOK, OwedInv, Owed, Accounted, AnnouncedOncePerCompletion
  <1>2. QED
    BY <1>1, OwedAlways, PTL

(* A completion loses its event only to a task that stopped                *)
(* (update_report_status_use_case.py:93, :125).                            *)
THEOREM StoppedTasksLoseEvents == Spec => OnlyStoppedTasksLoseEvents
  <1>1. TypeInv /\ DocInv /\ [Next]_vars =>
           [\A r \in ReportIds :
               \/ completed'[r] + Accounted(r) = completed[r] + Accounted(r)'
               \/ \E q \in Announcing(r) : Abort(q)]_vars
    <2> SUFFICES ASSUME TypeInv, DocInv, Next, NEW r \in ReportIds
                 PROVE  \/ completed'[r] + Accounted(r) = completed[r] + Accounted(r)'
                        \/ \E q \in Announcing(r) : Abort(q)
      OBVIOUS
    <2>1. PICK q \in Requests : Step(q)
      BY NextIsStep
    <2>2. QED
      BY <2>1, AccountedStep
  <1>2. QED
    BY <1>1, DocAlways, PTL DEF Spec, OnlyStoppedTasksLoseEvents

----------------------------------------------------------------------------
(* A count n of the resolved diagnoses of r is right, up to the resolutions *)
(* between their two writes.                                               *)
InBalance(n, up, done, down) == n + Cardinality(up) = Cardinality(done) + Cardinality(down)

Balanced(r, n) == InBalance(n, Uncounted(r, TRUE), ResolvedOf(r), Uncounted(r, FALSE))

(* A recount that is not raced writes a balanced summary, whatever is      *)
(* resolved before it writes.                                              *)
Recounted(q) ==
    exact[q] =>
        /\ pc[q] = "save_status" /\ held[q].status = "COMPLETED"
        /\ valid[q] => Balanced(rid[q], held[q].resolved)

Linked(q) == Resolves(q) => diagnoses[item[q]].report = rid[q]

SumInv == CountsAgree /\ \A q \in Requests : Recounted(q) /\ Linked(q)

LEMMA InitSum == Init => SumInv
  BY NoDocAssumption
     DEF Init, SumInv, CountsAgree, Recounted, Linked, Stored, Resolves, Counting

(* Nothing that the balance of r depends on changes.  Only ever applied to *)
(* a constant r: the definition primes its argument.                       *)
Same(r) ==
    /\ ResolvedOf(r)' = ResolvedOf(r)
    /\ \A b \in BOOLEAN : Uncounted(r, b)' = Uncounted(r, b)

LEMMA SameBalance ==
    ASSUME NEW r \in ReportIds, NEW n, Same(r)
    PROVE  Balanced(r, n)' <=> Balanced(r, n)
  BY DEF Same, Balanced

(* No diagnosis disappears or moves to another report.                     *)
LEMMA DiagnosesKeep ==
    ASSUME TypeInv, DocInv, NEW q \in Requests, Step(q)
    PROVE  \A d \in DiagIds : diagnoses[d] # NoDoc =>
              diagnoses'[d] # NoDoc /\ diagnoses'[d].report = diagnoses[d].report
  <1> USE DEF TypeInv, TypeOK, containers
  <1>1. CASE StoreDiagnosis(q)
    <2>1. PICK d \in batch[q] :
            diagnoses' = [diagnoses EXCEPT ![d] = [report |-> rid[q], resolved |-> FALSE]]
      BY <1>1 DEF StoreDiagnosis
    <2>2. diagnoses[d] = NoDoc
      BY DEF DocInv, IdInv
    <2>3. QED
      BY <2>1, <2>2
  <1>2. CASE SaveDiagnosis(q)
    <2>1. /\ item[q] \in DiagIds /\ diagnoses[item[q]] \in Diagnosis
          /\ target[q] \in BOOLEAN
      BY <1>2 DEF SaveDiagnosis, Pointers, Resolves
    <2>2. diagnoses' = [diagnoses EXCEPT ![item[q]] =
                           [diagnoses[item[q]] EXCEPT !.resolved = target[q]]]
      BY <1>2 DEF SaveDiagnosis
    <2>3. /\ [diagnoses[item[q]] EXCEPT !.resolved = target[q]] \in Diagnosis
          /\ [diagnoses[item[q]] EXCEPT !.resolved = target[q]].report = diagnoses[item[q]].report
      BY <2>1 DEF Diagnosis
    <2>4. QED
      BY <2>1, <2>2, <2>3, NoDocAssumption
  <1>3. CASE ~StoreDiagnosis(q) /\ ~SaveDiagnosis(q)
    <2>1. diagnoses' = diagnoses
      BY <1>3
         DEF Step, CreateReport, Push, PushFails, StoreReport, ScheduledReport, PushScheduled,
             PushScheduledFails, MarkFailed, Receive, Callback, CompletedCallback, Recount,
             SaveStatus, SaveStatusRefused, Announce, Resolve, Count, SaveCount,
             SaveCountRefused, Abort
    <2>2. QED
      BY <2>1
  <1>4. QED
    BY <1>1, <1>2, <1>3

LEMMA LinkedStep ==
    ASSUME TypeInv, DocInv, SumInv, NEW q \in Requests, Step(q), NEW p \in Requests
    PROVE  Linked(p)'
  <1> USE DEF TypeInv, TypeOK, containers, resolving, history
  <1>1. Alone(q)
    BY StepIsAlone DEF DocInv
  <1>2. \A d \in DiagIds : diagnoses[d] # NoDoc => diagnoses'[d].report = diagnoses[d].report
    BY DiagnosesKeep
  <1>3. CASE p # q
    <2>1. Resolves(p) => item[p] \in DiagIds /\ diagnoses[item[p]] # NoDoc
      BY DEF Pointers
    <2>2. QED
      BY <1>1, <1>2, <1>3, <2>1 DEF Alone, SumInv, Linked, Resolves, Counting
  <1>4. CASE p = q
    <2>1. CASE Resolve(q)
      BY <1>4, <2>1 DEF Resolve, Begin, Linked
    <2>2. CASE ~Resolve(q)
      <3>1. Resolves(q)' => Resolves(q) /\ item'[q] = item[q] /\ rid'[q] = rid[q]
        <4>1. CASE Finish(q)
          BY <4>1 DEF Finish, Resolves, Counting
        <4>2. CASE ~Finish(q)
          BY <2>2, <4>2
             DEF Step, CreateReport, Push, PushFails, StoreReport, ScheduledReport, PushScheduled,
                 PushScheduledFails, MarkFailed, Receive, StoreDiagnosis, Callback,
                 CompletedCallback, Recount, SaveStatus, SaveStatusRefused, Announce,
                 SaveDiagnosis, Count, SaveCount, SaveCountRefused, Abort, Begin, Goto,
                 Resolves, Counting
        <4>3. QED
          BY <4>1, <4>2
      <3>2. Resolves(q) => item[q] \in DiagIds /\ diagnoses[item[q]] # NoDoc
        BY DEF Pointers
      <3>3. QED
        BY <1>2, <1>4, <3>1, <3>2 DEF SumInv, Linked
    <2>3. QED
      BY <2>1, <2>2
  <1>5. QED
    BY <1>3, <1>4

(* A step that does not enter, leave or write for a resolution.            *)
LEMMA UncountedElsewhere ==
    ASSUME TypeInv, NEW q \in Requests, Alone(q), NEW r \in ReportIds,
           \/ ~Counting(q) /\ ~Counting(q)'
           \/ rid[q] # r /\ (Counting(q)' => rid'[q] = rid[q])
           \/ /\ Counting(q) /\ Counting(q)'
              /\ rid'[q] = rid[q] /\ target'[q] = target[q]
    PROVE  \A b \in BOOLEAN : Uncounted(r, b)' = Uncounted(r, b)
  <1> SUFFICES ASSUME NEW b \in BOOLEAN, NEW p \in Requests
               PROVE  p \in Uncounted(r, b)' <=> p \in Uncounted(r, b)
    BY DEF Uncounted
  <1>1. CASE p # q
    BY <1>1 DEF Alone, Uncounted
  <1>2. CASE p = q
    BY <1>2 DEF Counting, Uncounted
  <1>3. QED
    BY <1>1, <1>2

(* What remains to be shown of a step.                                     *)
LEMMA SumStep ==
    ASSUME TypeInv, DocInv, SumInv, NEW q \in Requests, Step(q),
           \A r \in ReportIds :
              r \in Stored' \ raced' /\ reports'[r].status = "COMPLETED"
                => Balanced(r, reports[r].resolved)',
           \A r \in ReportIds, p \in Requests \ {q} :
              rid[p] = r /\ exact'[p] /\ valid'[p] /\ pc[p] = "save_status" => Same(r),
           Recounted(q)'
    PROVE  SumInv'
  <1>1. Alone(q)
    BY StepIsAlone DEF DocInv
  <1>2. CountsAgree'
    BY DEF CountsAgree, Balanced, InBalance, Stored
  <1>3. ASSUME NEW p \in Requests, p # q
        PROVE  Recounted(p)'
    <2>1. /\ exact'[p] => exact[p]
          /\ valid'[p] => valid[p]
          /\ pc'[p] = pc[p] /\ held'[p] = held[p] /\ rid'[p] = rid[p]
      BY <1>1, <1>3 DEF Alone
    <2>2. Recounted(p)
      BY DEF SumInv
    <2>3. CASE exact'[p] /\ valid'[p]
      <3>1. PICK r \in ReportIds : r = rid[p]
        BY <2>1, <2>2, <2>3 DEF Recounted, TypeInv, Pointers
      <3>2. Same(r)
        BY <1>3, <2>1, <2>2, <2>3, <3>1 DEF Recounted
      <3>3. Balanced(r, held[p].resolved)
        BY <2>1, <2>2, <2>3, <3>1 DEF Recounted
      <3>4. Balanced(rid[p], held[p].resolved)'
        BY <2>1, <3>1, <3>2, <3>3 DEF Same, Balanced
      <3>5. QED
        BY <2>1, <2>2, <2>3, <3>4 DEF Recounted
    <2>4. CASE ~(exact'[p] /\ valid'[p])
      BY <2>1, <2>2, <2>4 DEF Recounted
    <2>5. QED
      BY <2>3, <2>4
  <1>4. QED
    BY <1>2, <1>3, LinkedStep DEF SumInv

LEMMA ResolvedElsewhere ==
    ASSUME TypeInv, DocInv, NEW q \in Requests, Step(q), ~SaveDiagnosis(q), NEW r \in ReportIds
    PROVE  ResolvedOf(r)' = ResolvedOf(r)
  <1> USE DEF TypeInv, TypeOK, containers, resolving, history
  <1>1. CASE StoreDiagnosis(q)
    <2>1. PICK d \in batch[q] :
            diagnoses' = [diagnoses EXCEPT ![d] = [report |-> rid[q], resolved |-> FALSE]]
      BY <1>1 DEF StoreDiagnosis
    <2>2. d \in DiagIds /\ diagnoses[d] = NoDoc /\ ~diagnoses'[d].resolved
      BY <2>1 DEF DocInv, IdInv
    <2>3. \A x \in DiagIds : x # d => diagnoses'[x] = diagnoses[x]
      BY <2>1
    <2>4. QED
      BY <2>2, <2>3 DEF ResolvedOf, DiagnosesOf
  <1>2. CASE ~StoreDiagnosis(q)
    <2>1. diagnoses' = diagnoses
      BY <1>2
         DEF Step, CreateReport, Push, PushFails, StoreReport, ScheduledReport, PushScheduled,
             PushScheduledFails, MarkFailed, Receive, Callback, CompletedCallback, Recount,
             SaveStatus, SaveStatusRefused, Announce, Resolve, Count, SaveCount,
             SaveCountRefused, Abort
    <2>2. QED
      BY <2>1 DEF ResolvedOf, DiagnosesOf
  <1>3. QED
    BY <1>1, <1>2

(* The steps of a handler that resolves nothing.                           *)
LEMMA QuietSteps ==
    ASSUME TypeInv, DocInv, NEW q \in Requests, Step(q), ~Counting(q), ~Counting(q)',
           ~SaveDiagnosis(q)
    PROVE  \A r \in ReportIds : Same(r)
  <1>1. Alone(q)
    BY StepIsAlone DEF DocInv
  <1>2. QED
    BY <1>1, ResolvedElsewhere, UncountedElsewhere DEF Same

LEMMA StillAgrees ==
    ASSUME TypeInv, SumInv, NEW r \in ReportIds, Same(r),
           r \in Stored' \ raced', reports'[r] = reports[r], raced \subseteq raced',
           reports'[r].status = "COMPLETED"
    PROVE  Balanced(r, reports[r].resolved)'
  <1>1. r \in Stored \ raced
    BY DEF Stored
  <1>2. Balanced(r, reports[r].resolved)
    BY <1>1 DEF SumInv, CountsAgree, Balanced, InBalance
  <1>3. QED
    BY <1>2 DEF Same, Balanced

LEMMA SumQuiet ==
    ASSUME TypeInv, DocInv, BackedInv, SumInv, NEW q \in Requests,
           \/ CreateReport(q) \/ Push(q) \/ PushFails(q) \/ StoreReport(q)
           \/ ScheduledReport(q) \/ PushScheduled(q) \/ PushScheduledFails(q) \/ MarkFailed(q)
           \/ Receive(q) \/ StoreDiagnosis(q) \/ Callback(q) \/ CompletedCallback(q)
           \/ SaveStatusRefused(q) \/ Announce(q) \/ Resolve(q)
           \/ Abort(q) /\ ~Counting(q)
    PROVE  SumInv'
  <1> USE DEF TypeInv, TypeOK, containers, resolving, history
  <1>1. Step(q)
    BY DEF Step
  <1>2. ~Counting(q) /\ ~Counting(q)' /\ ~SaveDiagnosis(q)
    <2>1. ~Counting(q)' /\ ~Counting(q) /\ (pc[q] = "save_diagnosis" => pc'[q] = "idle")
      <3>1. CASE Finish(q) /\ ~Counting(q)
        BY <3>1 DEF Finish, Counting
      <3>2. CASE ~Finish(q) \/ Counting(q)
        BY <3>2
           DEF CreateReport, Push, PushFails, StoreReport, ScheduledReport, PushScheduled,
               PushScheduledFails, MarkFailed, Receive, StoreDiagnosis, Callback,
               CompletedCallback, SaveStatusRefused, Announce, Resolve, Abort, Begin, Goto,
               Counting
      <3>3. QED
        BY <3>1, <3>2
    <2>2. QED
      BY <2>1 DEF SaveDiagnosis, Goto, Counting
  <1>3. \A r \in ReportIds : Same(r)
    BY <1>1, <1>2, QuietSteps
  <1>4. raced' = raced
    BY <1>2 DEF CreateReport, Push, PushFails, StoreReport, ScheduledReport, PushScheduled,
           PushScheduledFails, MarkFailed, Receive, StoreDiagnosis, Callback,
           CompletedCallback, SaveStatusRefused, Announce, Resolve, Abort, Counting
  <1>5. ~exact'[q]
    <2>1. CASE SaveStatusRefused(q) \/ Abort(q)
      BY <1>2, <2>1 DEF SaveStatusRefused, Abort, Counting
    <2>2. CASE ~(SaveStatusRefused(q) \/ Abort(q))
      <3>1. exact' = exact /\ pc[q] # "save_status"
        BY <2>2 DEF CreateReport, Push, PushFails, StoreReport, ScheduledReport, PushScheduled,
               PushScheduledFails, MarkFailed, Receive, StoreDiagnosis, Callback,
               CompletedCallback, Announce, Resolve, Begin
      <3>2. QED
        BY <3>1 DEF SumInv, Recounted
    <2>3. QED
      BY <2>1, <2>2
  <1>6. \A r \in ReportIds : reports'[r] = reports[r] \/ reports'[r].status # "COMPLETED"
    <2>1. CASE StoreReport(q) \/ MarkFailed(q)
      <3>1. Write(rid[q], held[q]) /\ held[q].status # "COMPLETED"
        BY <2>1 DEF StoreReport, MarkFailed, BackedInv, Backed, Creating
      <3>2. QED
        BY <3>1 DEF Write
    <2>2. CASE ScheduledReport(q)
      <3>1. PICK r \in ReportIds : reports' = [reports EXCEPT ![r] = NewReport(FALSE, FALSE)]
        BY <2>2 DEF ScheduledReport
      <3>2. NewReport(FALSE, FALSE).status # "COMPLETED"
        BY DEF NewReport
      <3>3. QED
        BY <3>1, <3>2
    <2>3. CASE ~(StoreReport(q) \/ MarkFailed(q) \/ ScheduledReport(q))
      BY <2>3 DEF CreateReport, Push, PushFails, PushScheduled,
           PushScheduledFails, Receive, StoreDiagnosis, Callback,
           CompletedCallback, SaveStatusRefused, Announce, Resolve, Abort
    <2>4. QED
      BY <2>1, <2>2, <2>3
  <1>7. Recounted(q)'
    BY <1>5 DEF Recounted
  <1>8. \A r \in ReportIds :
            r \in Stored' \ raced' /\ reports'[r].status = "COMPLETED"
              => Balanced(r, reports[r].resolved)'
    BY <1>3, <1>4, <1>6, StillAgrees
  <1> HIDE DEF TypeInv, TypeOK
  <1>9. QED
    BY <1>1, <1>3, <1>7, <1>8, SumStep

LEMMA SumRecount ==
    ASSUME TypeInv, DocInv, SumInv, NEW q \in Requests, Recount(q)
    PROVE  SumInv'
  <1> USE DEF TypeInv, TypeOK, containers, resolving, history
  <1>1. Step(q) /\ pc[q] = "list" /\ rid[q] \in ReportIds /\ held[q] \in Report
    BY DEF Step, Recount, Pointers, Holds
  <1>2. pc'[q] \in {"save_status", "idle"}
    BY DEF Recount, Goto, Finish
  <1>3. \A r \in ReportIds : Same(r)
    BY <1>1, <1>2, QuietSteps DEF Counting, SaveDiagnosis
  <1>4. reports' = reports /\ raced' = raced
    BY DEF Recount
  <1>5. Recounted(q)'
    <2>1. CASE exact'[q]
      <3>1. ~exact[q]
        BY <1>1 DEF SumInv, Recounted
      <3>2. /\ pc'[q] = "save_status" /\ rid'[q] = rid[q]
            /\ held'[q] = [held[q] EXCEPT !.status = "COMPLETED",
                                          !.total = Cardinality(DiagnosesOf(rid[q])),
                                          !.resolved = Cardinality(ResolvedOf(rid[q]))]
            /\ Uncounted(rid[q], TRUE) \union Uncounted(rid[q], FALSE) = {}
        BY <2>1, <3>1 DEF Recount, Goto, Finish
      <3>3. /\ held'[q].status = "COMPLETED"
            /\ held'[q].resolved = Cardinality(ResolvedOf(rid[q]))
        BY <1>1, <3>2 DEF Report
      <3>4. Uncounted(rid[q], TRUE) = {} /\ Uncounted(rid[q], FALSE) = {}
        BY <3>2
      <3>5. Balanced(rid[q], Cardinality(ResolvedOf(rid[q])))
        BY <1>1, <3>4, FS_EmptySet, Counts DEF Balanced, InBalance
      <3>6. PICK r \in ReportIds : r = rid[q]
        BY <1>1
      <3>7. Same(r)
        BY <1>3
      <3>8. Balanced(rid[q], held[q].resolved)'
        BY <3>2, <3>3, <3>5, <3>6, <3>7 DEF Same, Balanced
      <3>9. QED
        BY <3>2, <3>3, <3>8 DEF Recounted
    <2>2. CASE ~exact'[q]
      BY <2>2 DEF Recounted
    <2>3. QED
      BY <2>1, <2>2
  <1>6. \A r \in ReportIds :
            r \in Stored' \ raced' /\ reports'[r].status = "COMPLETED"
              => Balanced(r, reports[r].resolved)'
    BY <1>3, <1>4, StillAgrees
  <1> HIDE DEF TypeInv, TypeOK
  <1>7. QED
    BY <1>1, <1>3, <1>5, <1>6, SumStep

LEMMA SumSaveStatus ==
    ASSUME TypeInv, DocInv, SumInv, NEW q \in Requests, SaveStatus(q)
    PROVE  SumInv'
  <1> USE DEF TypeInv, TypeOK, containers, resolving, history
  <1>1. Step(q) /\ pc[q] = "save_status" /\ valid[q] /\ rid[q] \in ReportIds
    BY DEF Step, SaveStatus, Pointers
  <1>2. pc'[q] \in {"announce", "idle"} /\ ~exact'[q]
    BY DEF SaveStatus, Goto, Finish
  <1>3. \A r \in ReportIds : Same(r)
    BY <1>1, <1>2, QuietSteps DEF Counting, SaveDiagnosis
  <1>4. Write(rid[q], held[q])
    BY DEF SaveStatus
  <1>5. ASSUME NEW r \in ReportIds, r \in Stored' \ raced', reports'[r].status = "COMPLETED"
        PROVE  Balanced(r, reports[r].resolved)'
    <2>1. CASE r = rid[q]
      <3>1. reports'[r] = held[q]
        BY <1>4, <2>1 DEF Write
      <3>2. exact[q]
        BY <1>5, <2>1, <3>1 DEF SaveStatus
      <3>3. Balanced(r, held[q].resolved)
        BY <1>1, <2>1, <3>2 DEF SumInv, Recounted
      <3>4. QED
        BY <1>3, <3>1, <3>3 DEF Same, Balanced
    <2>2. CASE r # rid[q]
      <3>1. reports'[r] = reports[r]
        BY <1>4, <2>2 DEF Write
      <3>2. r \in Stored \ raced
        BY <1>5, <2>2, <3>1 DEF SaveStatus, Stored
      <3>3. Balanced(r, reports[r].resolved)
        BY <1>5, <3>1, <3>2 DEF SumInv, CountsAgree, Balanced, InBalance
      <3>4. QED
        BY <1>3, <3>1, <3>3 DEF Same, Balanced
    <2>3. QED
      BY <2>1, <2>2
  <1>6. Recounted(q)'
    BY <1>2 DEF Recounted
  <1> HIDE DEF TypeInv, TypeOK
  <1>7. QED
    BY <1>1, <1>3, <1>5, <1>6, SumStep

(* A step that loses or doubles a resolution of its report.                *)
LEMMA SumRaced ==
    ASSUME TypeInv, DocInv, SumInv, NEW q \in Requests, Step(q),
           rid[q] \in ReportIds, Race(rid[q]),
           \A r \in ReportIds : r # rid[q] => Same(r) /\ reports'[r] = reports[r]
    PROVE  SumInv'
  <1>1. ASSUME NEW r \in ReportIds, r \in Stored' \ raced', reports'[r].status = "COMPLETED"
        PROVE  Balanced(r, reports[r].resolved)'
    <2>1. r # rid[q] /\ raced \subseteq raced'
      BY <1>1 DEF Race
    <2>2. QED
      BY <1>1, <2>1, StillAgrees
  <1>2. ASSUME NEW r \in ReportIds, NEW p \in Requests, exact'[p], rid[p] = r
        PROVE  Same(r)
    <2>1. r # rid[q]
      BY <1>2 DEF Race
    <2>2. QED
      BY <2>1
  <1>3. Recounted(q)'
    BY DEF Race, Recounted
  <1>4. QED
    BY <1>1, <1>2, <1>3, SumStep

(* One more resolved diagnosis and one more request to count it, or one    *)
(* less and one more to discount it.                                       *)
LEMMA ResolutionCounts ==
    ASSUME NEW r \in ReportIds, NEW n \in Nat, Balanced(r, n),
           NEW q \in Requests, NEW d \in DiagIds
    PROVE  /\ q \notin Uncounted(r, TRUE) /\ d \notin ResolvedOf(r)
                => InBalance(n, Uncounted(r, TRUE) \union {q}, ResolvedOf(r) \union {d},
                             Uncounted(r, FALSE))
           /\ q \notin Uncounted(r, FALSE) /\ d \in ResolvedOf(r)
                => InBalance(n, Uncounted(r, TRUE), ResolvedOf(r) \ {d},
                             Uncounted(r, FALSE) \union {q})
  <1> DEFINE up == Uncounted(r, TRUE)
             down == Uncounted(r, FALSE)
             done == ResolvedOf(r)
  <1>1. /\ IsFiniteSet(up) /\ IsFiniteSet(down) /\ IsFiniteSet(done)
        /\ Cardinality(up) \in Nat /\ Cardinality(down) \in Nat /\ Cardinality(done) \in Nat
    BY Counts
  <1>2. n + Cardinality(up) = Cardinality(done) + Cardinality(down)
    BY DEF Balanced, InBalance
  <1> HIDE DEF up, down, done
  <1>3. /\ q \notin up => Cardinality(up \union {q}) = Cardinality(up) + 1
        /\ q \notin down => Cardinality(down \union {q}) = Cardinality(down) + 1
    BY <1>1, FS_AddElement
  <1>4. /\ d \notin done => Cardinality(done \union {d}) = Cardinality(done) + 1
        /\ d \in done => Cardinality(done \ {d}) = Cardinality(done) - 1
    BY <1>1, FS_AddElement, FS_RemoveElement
  <1>5. /\ q \notin up /\ d \notin done
              => n + Cardinality(up \union {q}) = Cardinality(done \union {d}) + Cardinality(down)
        /\ q \notin down /\ d \in done
              => n + Cardinality(up) = Cardinality(done \ {d}) + Cardinality(down \union {q})
    BY <1>1, <1>2, <1>3, <1>4
  <1>6. QED
    BY <1>5 DEF up, down, done, InBalance

(* The first write of a resolution: the diagnosis changes, and the request *)
(* becomes one of the uncounted.                                           *)
LEMMA ResolvingBalances ==
    ASSUME TypeInv, NEW q \in Requests, Alone(q),
           NEW r \in ReportIds, NEW d \in DiagIds, NEW t \in BOOLEAN,
           ~Counting(q), Counting(q)', rid'[q] = r, target'[q] = t,
           diagnoses[d] # NoDoc, diagnoses'[d] # NoDoc,
           diagnoses[d].report = r, diagnoses'[d].report = r,
           diagnoses[d].resolved = ~t, diagnoses'[d].resolved = t,
           \A x \in DiagIds : x # d => diagnoses'[x] = diagnoses[x],
           NEW n \in Nat, Balanced(r, n)
    PROVE  Balanced(r, n)'
  <1>1. q \notin Uncounted(r, TRUE) /\ q \notin Uncounted(r, FALSE)
    BY DEF Uncounted, Counting
  <1>2. /\ Uncounted(r, t)' = Uncounted(r, t) \union {q}
        /\ \A b \in BOOLEAN : b # t => Uncounted(r, b)' = Uncounted(r, b)
    <2>1. \A p \in Requests : p # q => /\ pc'[p] = pc[p] /\ rid'[p] = rid[p]
                                       /\ target'[p] = target[p]
      BY DEF Alone
    <2>2. QED
      BY <2>1, <1>1 DEF Uncounted, Counting
  <1>3. CASE t = TRUE
    <2>1. d \notin ResolvedOf(r) /\ ResolvedOf(r)' = ResolvedOf(r) \union {d}
      BY <1>3 DEF ResolvedOf, DiagnosesOf
    <2>2. Uncounted(r, TRUE)' = Uncounted(r, TRUE) \union {q}
      BY <1>2, <1>3
    <2>3. Uncounted(r, FALSE)' = Uncounted(r, FALSE)
      BY <1>2, <1>3
    <2>4. InBalance(n, Uncounted(r, TRUE) \union {q}, ResolvedOf(r) \union {d},
                    Uncounted(r, FALSE))
      BY <1>1, <2>1, ResolutionCounts
    <2>5. QED
      BY <2>1, <2>2, <2>3, <2>4 DEF Balanced
  <1>4. CASE t = FALSE
    <2>1. d \in ResolvedOf(r) /\ ResolvedOf(r)' = ResolvedOf(r) \ {d}
      BY <1>4 DEF ResolvedOf, DiagnosesOf
    <2>2. Uncounted(r, FALSE)' = Uncounted(r, FALSE) \union {q}
      BY <1>2, <1>4
    <2>3. Uncounted(r, TRUE)' = Uncounted(r, TRUE)
      BY <1>2, <1>4
    <2>4. InBalance(n, Uncounted(r, TRUE), ResolvedOf(r) \ {d},
                    Uncounted(r, FALSE) \union {q})
      BY <1>1, <2>1, ResolutionCounts
    <2>5. QED
      BY <2>1, <2>2, <2>3, <2>4 DEF Balanced
  <1>5. QED
    BY <1>3, <1>4

LEMMA SumSaveDiagnosis ==
    ASSUME TypeInv, DocInv, SumInv, NEW q \in Requests, SaveDiagnosis(q)
    PROVE  SumInv'
  <1> USE DEF TypeInv, TypeOK, containers, resolving, history
  <1>1. PICK r \in ReportIds, d \in DiagIds, t \in BOOLEAN :
            r = rid[q] /\ d = item[q] /\ t = target[q]
    BY DEF SaveDiagnosis, Pointers, Resolves
  <1>2. /\ pc[q] = "save_diagnosis" /\ pc'[q] = "count" /\ UNCHANGED <<reports, rid, target>>
        /\ diagnoses' = [diagnoses EXCEPT ![d].resolved = t]
        /\ IF diagnoses[d].resolved = t THEN Race(r) ELSE UNCHANGED <<exact, raced>>
    BY <1>1 DEF SaveDiagnosis, Goto
  <1>3. diagnoses[d] # NoDoc /\ diagnoses[d] \in Diagnosis /\ diagnoses[d].report = r
    BY <1>1, <1>2 DEF Pointers, Resolves, SumInv, Linked
  <1>4. /\ diagnoses'[d] \in Diagnosis
        /\ diagnoses'[d].report = r /\ diagnoses'[d].resolved = t
        /\ \A x \in DiagIds : x # d => diagnoses'[x] = diagnoses[x]
    BY <1>2, <1>3 DEF Diagnosis
  <1>5. Step(q) /\ Alone(q)
    BY StepIsAlone DEF DocInv, Step
  <1>6. ASSUME NEW s \in ReportIds, s # r PROVE Same(s)
    <2>1. ResolvedOf(s)' = ResolvedOf(s)
      BY <1>3, <1>4, <1>6 DEF ResolvedOf, DiagnosesOf
    <2>2. \A b \in BOOLEAN : Uncounted(s, b)' = Uncounted(s, b)
      BY <1>1, <1>2, <1>5, <1>6, UncountedElsewhere
    <2>3. QED
      BY <2>1, <2>2 DEF Same
  <1> HIDE DEF TypeInv, TypeOK
  <1>7. CASE diagnoses[d].resolved = t
    BY <1>1, <1>2, <1>5, <1>6, <1>7, SumRaced
  <1>8. CASE diagnoses[d].resolved # t
    <2>1. exact' = exact /\ raced' = raced
      BY <1>2, <1>8
    <2>2. /\ ~Counting(q) /\ Counting(q)' /\ rid'[q] = r /\ target'[q] = t
          /\ diagnoses[d].resolved = ~t /\ diagnoses'[d] # NoDoc
      BY <1>1, <1>2, <1>3, <1>4, <1>8, NoDocAssumption DEF Counting, Diagnosis
    <2>3. ASSUME NEW s \in ReportIds, NEW n \in Nat, Balanced(s, n)
          PROVE  Balanced(s, n)'
      <3>1. CASE s = r
        BY <1>3, <1>4, <1>5, <2>2, <2>3, <3>1, ResolvingBalances
      <3>2. CASE s # r
        BY <1>6, <2>3, <3>2, SameBalance
      <3>3. QED
        BY <3>1, <3>2
    <2>4. CountsAgree'
      <3>1. SUFFICES ASSUME NEW s \in ReportIds, s \in Stored' \ raced',
                            reports'[s].status = "COMPLETED"
                     PROVE  Balanced(s, reports[s].resolved)'
        BY DEF CountsAgree, Balanced, InBalance, Stored
      <3>2. s \in Stored \ raced /\ reports[s] \in Report
        BY <1>2, <2>1, <3>1 DEF Stored, TypeInv, TypeOK
      <3>3. PICK n \in Nat : n = reports[s].resolved
        BY <3>2 DEF Report
      <3>4. Balanced(s, n)
        BY <1>2, <3>1, <3>2, <3>3 DEF SumInv, CountsAgree, Balanced, InBalance
      <3>5. Balanced(s, n)'
        BY <2>3, <3>4
      <3>6. QED
        BY <1>2, <3>3, <3>5 DEF Balanced
    <2>5. ASSUME NEW p \in Requests PROVE Recounted(p)'
      <3>1. CASE exact[p]
        <4>1. pc[p] = "save_status" /\ held[p].status = "COMPLETED"
          BY <3>1 DEF SumInv, Recounted
        <4>2. p # q /\ pc'[p] = pc[p] /\ held'[p] = held[p] /\ rid'[p] = rid[p]
                /\ (valid'[p] => valid[p])
          BY <1>2, <1>5, <4>1 DEF Alone
        <4>3. rid[p] \in ReportIds /\ held[p] \in Report
          BY <4>1 DEF TypeInv, Pointers, Holds
        <4>4. PICK s \in ReportIds, n \in Nat : s = rid[p] /\ n = held[p].resolved
          BY <4>3 DEF Report
        <4>5. valid[p] => Balanced(s, n)
          BY <3>1, <4>4 DEF SumInv, Recounted
        <4>6. valid'[p] => Balanced(s, n)'
          BY <2>3, <4>2, <4>5
        <4>7. QED
          BY <4>1, <4>2, <4>4, <4>6 DEF Recounted
      <3>2. CASE ~exact[p]
        BY <2>1, <3>2 DEF Recounted
      <3>3. QED
        BY <3>1, <3>2
    <2>6. QED
      BY <1>5, <2>4, <2>5, LinkedStep DEF SumInv
  <1>9. QED
    BY <1>7, <1>8

(* The second write of a resolution, unless the floor takes effect.        *)
LEMMA CountedBalances ==
    ASSUME NEW r \in ReportIds, NEW n \in Nat, Balanced(r, n), NEW q \in Requests
    PROVE  /\ q \in Uncounted(r, TRUE)
                => InBalance(n + 1, Uncounted(r, TRUE) \ {q}, ResolvedOf(r), Uncounted(r, FALSE))
           /\ q \in Uncounted(r, FALSE) /\ n # 0
                => InBalance(n - 1, Uncounted(r, TRUE), ResolvedOf(r), Uncounted(r, FALSE) \ {q})
  <1> DEFINE up == Uncounted(r, TRUE)
             down == Uncounted(r, FALSE)
             done == ResolvedOf(r)
  <1>1. /\ IsFiniteSet(up) /\ IsFiniteSet(down)
        /\ Cardinality(up) \in Nat /\ Cardinality(down) \in Nat /\ Cardinality(done) \in Nat
    BY Counts
  <1>2. n + Cardinality(up) = Cardinality(done) + Cardinality(down)
    BY DEF Balanced, InBalance
  <1> HIDE DEF up, down, done
  <1>3. /\ q \in up => Cardinality(up \ {q}) = Cardinality(up) - 1
        /\ q \in down => Cardinality(down \ {q}) = Cardinality(down) - 1
    BY <1>1, FS_RemoveElement
  <1>4. /\ q \in up => n + 1 + Cardinality(up \ {q}) = Cardinality(done) + Cardinality(down)
        /\ q \in down /\ n # 0
              => n - 1 + Cardinality(up) = Cardinality(done) + Cardinality(down \ {q})
    BY <1>1, <1>2, <1>3
  <1>5. QED
    BY <1>4 DEF up, down, done, InBalance

LEMMA SumCount ==
    ASSUME TypeInv, DocInv, SumInv, NEW q \in Requests, Count(q)
    PROVE  SumInv'
  <1>1. Step(q) /\ Alone(q)
    BY StepIsAlone DEF DocInv, Step
  <1>2. /\ pc[q] = "count" /\ rid[q] \in ReportIds
        /\ UNCHANGED <<reports, diagnoses, exact, raced>>
    BY DEF Count, TypeInv, Pointers, containers, history
  <1>3. \A r \in ReportIds : ResolvedOf(r)' = ResolvedOf(r)
    BY <1>2 DEF ResolvedOf, DiagnosesOf
  <1>4. Recounted(q)'
    BY <1>2 DEF SumInv, Recounted
  <1>5. CASE reports[rid[q]] = NoDoc
    <2>1. pc'[q] = "idle"
      BY <1>5 DEF Count, Finish, TypeInv, TypeOK
    <2>2. ASSUME NEW r \in ReportIds, r # rid[q] PROVE Same(r)
      BY <1>1, <1>3, <2>1, <2>2, UncountedElsewhere DEF Same, Counting
    <2>3. ASSUME NEW r \in ReportIds, r \in Stored' \ raced', reports'[r].status = "COMPLETED"
          PROVE  Balanced(r, reports[r].resolved)'
      <3>1. r # rid[q]
        BY <1>2, <1>5, <2>3 DEF Stored
      <3>2. QED
        BY <1>2, <2>2, <2>3, <3>1, StillAgrees
    <2>4. ASSUME NEW r \in ReportIds, NEW p \in Requests \ {q},
                 rid[p] = r, valid'[p], pc[p] = "save_status"
          PROVE  Same(r)
      <3>1. reports[rid[p]] # NoDoc
        BY <1>1, <2>4 DEF Alone, DocInv, Etag
      <3>2. QED
        BY <1>5, <2>2, <2>4, <3>1
    <2>5. QED
      BY <1>1, <1>4, <2>3, <2>4, SumStep
  <1>6. CASE reports[rid[q]] # NoDoc
    <2>1. pc'[q] = "save_count" /\ rid' = rid /\ target' = target
      BY <1>6 DEF Count, Goto, TypeInv, TypeOK
    <2>2. ASSUME NEW r \in ReportIds PROVE Same(r)
      BY <1>1, <1>2, <1>3, <2>1, UncountedElsewhere DEF Same, Counting
    <2>3. ASSUME NEW r \in ReportIds, r \in Stored' \ raced', reports'[r].status = "COMPLETED"
          PROVE  Balanced(r, reports[r].resolved)'
      BY <1>2, <2>2, <2>3, StillAgrees
    <2>4. QED
      BY <1>1, <1>4, <2>2, <2>3, SumStep
  <1>7. QED
    BY <1>5, <1>6

LEMMA SumSaveCount ==
    ASSUME TypeInv, DocInv, SumInv, NEW q \in Requests, SaveCount(q)
    PROVE  SumInv'
  <1>1. Step(q) /\ Alone(q)
    BY StepIsAlone DEF DocInv, Step
  <1>2. PICK c \in ReportIds, t \in BOOLEAN : c = rid[q] /\ t = target[q]
    BY DEF SaveCount, TypeInv, TypeOK, Pointers
  <1>3. /\ pc[q] = "save_count" /\ pc'[q] = "idle" /\ valid[q]
        /\ Write(c, held[q]) /\ UNCHANGED diagnoses
        /\ IF ~t /\ reports[c].resolved = 0 THEN Race(c) ELSE UNCHANGED <<exact, raced>>
    BY <1>2 DEF SaveCount, Finish, TypeInv, TypeOK
  <1>4. /\ reports[c] \in Report
        /\ held[q] = [reports[c] EXCEPT !.resolved = Adjusted(@, t)]
    BY <1>2, <1>3 DEF DocInv, Etag, TypeInv, TypeOK
  <1>5. /\ reports'[c] = held[q]
        /\ \A r \in ReportIds : r # c => reports'[r] = reports[r]
        /\ \A p \in Requests : valid'[p] => rid[p] # c
    BY <1>3 DEF Write, TypeInv, TypeOK
  <1>6. \A r \in ReportIds : ResolvedOf(r)' = ResolvedOf(r)
    BY <1>3 DEF ResolvedOf, DiagnosesOf
  <1>7. ASSUME NEW r \in ReportIds, r # c PROVE Same(r)
    BY <1>1, <1>2, <1>3, <1>6, <1>7, UncountedElsewhere DEF Same, Counting
  <1>8. CASE ~t /\ reports[c].resolved = 0
    BY <1>1, <1>2, <1>3, <1>5, <1>7, <1>8, SumRaced
  <1>9. CASE t \/ reports[c].resolved # 0
    <2>1. exact' = exact /\ raced' = raced
      BY <1>3, <1>9
    <2>2. Recounted(q)'
      BY <1>3, <2>1 DEF SumInv, Recounted
    <2>3. ASSUME c \in Stored' \ raced', reports'[c].status = "COMPLETED"
          PROVE  Balanced(c, reports[c].resolved)'
      <3>1. /\ held[q].status = reports[c].status
            /\ held[q].resolved = Adjusted(reports[c].resolved, t)
        BY <1>4 DEF Report
      <3>2. c \in Stored \ raced /\ reports[c].status = "COMPLETED"
        BY <1>4, <1>5, <2>1, <2>3, <3>1, NoDocAssumption DEF Stored
      <3>3. PICK n \in Nat : n = reports[c].resolved
        BY <1>4 DEF Report
      <3>4. Balanced(c, n)
        BY <3>2, <3>3 DEF SumInv, CountsAgree, Balanced, InBalance
      <3>5. q \in Uncounted(c, t)
        BY <1>2, <1>3 DEF Uncounted
      <3>6. /\ Uncounted(c, t)' = Uncounted(c, t) \ {q}
            /\ \A b \in BOOLEAN : b # t => Uncounted(c, b)' = Uncounted(c, b)
        <4>1. \A p \in Requests : p # q => /\ pc'[p] = pc[p] /\ rid'[p] = rid[p]
                                           /\ target'[p] = target[p]
          BY <1>1 DEF Alone
        <4>2. QED
          BY <1>2, <1>3, <4>1 DEF Uncounted
      <3>7. CASE t = TRUE
        <4>1. reports'[c].resolved = n + 1
          BY <1>5, <3>1, <3>3, <3>7 DEF Adjusted
        <4>2. InBalance(n + 1, Uncounted(c, TRUE) \ {q}, ResolvedOf(c), Uncounted(c, FALSE))
          BY <3>4, <3>5, <3>7, CountedBalances
        <4>3. /\ Uncounted(c, TRUE)' = Uncounted(c, TRUE) \ {q}
              /\ Uncounted(c, FALSE)' = Uncounted(c, FALSE)
          BY <3>6, <3>7
        <4>4. QED
          BY <1>6, <4>1, <4>2, <4>3 DEF Balanced
      <3>8. CASE t = FALSE
        <4>1. reports'[c].resolved = n - 1 /\ n # 0
          BY <1>5, <1>9, <3>1, <3>3, <3>8 DEF Adjusted
        <4>2. InBalance(n - 1, Uncounted(c, TRUE), ResolvedOf(c), Uncounted(c, FALSE) \ {q})
          BY <3>4, <3>5, <3>8, <4>1, CountedBalances
        <4>3. /\ Uncounted(c, FALSE)' = Uncounted(c, FALSE) \ {q}
              /\ Uncounted(c, TRUE)' = Uncounted(c, TRUE)
          BY <3>6, <3>8
        <4>4. QED
          BY <1>6, <4>1, <4>2, <4>3 DEF Balanced
      <3>9. QED
        BY <3>7, <3>8
    <2>4. ASSUME NEW r \in ReportIds, r \in Stored' \ raced', reports'[r].status = "COMPLETED"
          PROVE  Balanced(r, reports[r].resolved)'
      <3>1. CASE r = c
        BY <2>3, <2>4, <3>1
      <3>2. CASE r # c
        BY <1>5, <1>7, <2>1, <2>4, <3>2, StillAgrees
      <3>3. QED
        BY <3>1, <3>2
    <2>5. ASSUME NEW r \in ReportIds, NEW p \in Requests, rid[p] = r, valid'[p]
          PROVE  Same(r)
      BY <1>5, <1>7, <2>5
    <2>6. QED
      BY <1>1, <2>2, <2>4, <2>5, SumStep
  <1>10. QED
    BY <1>8, <1>9

LEMMA SumRefused ==
    ASSUME TypeInv, DocInv, SumInv, NEW q \in Requests,
           SaveCountRefused(q) \/ (Abort(q) /\ Counting(q))
    PROVE  SumInv'
  <1>1. Step(q) /\ Alone(q)
    BY StepIsAlone DEF DocInv, Step
  <1>2. Counting(q) /\ rid[q] \in ReportIds /\ UNCHANGED <<reports, diagnoses>>
    BY DEF SaveCountRefused, Abort, Counting, TypeInv, Pointers, containers
  <1>3. \A r \in ReportIds : ResolvedOf(r)' = ResolvedOf(r)
    BY <1>2 DEF ResolvedOf, DiagnosesOf
  <1>4. CASE Finish(q) /\ Race(rid[q])
    <2>1. ~Counting(q)'
      BY <1>4 DEF Finish, Counting, TypeInv, TypeOK
    <2>2. ASSUME NEW r \in ReportIds, r # rid[q] PROVE Same(r)
      BY <1>1, <1>3, <2>1, <2>2, UncountedElsewhere DEF Same
    <2>3. QED
      BY <1>1, <1>2, <1>4, <2>2, SumRaced
  <1>5. CASE ~(Finish(q) /\ Race(rid[q]))
    <2>1. /\ pc'[q] = "count" /\ pc[q] = "save_count" /\ UNCHANGED <<rid, target, exact, raced>>
      BY <1>2, <1>5
         DEF SaveCountRefused, Abort, Counting, Goto, resolving, TypeInv, TypeOK
    <2>2. ASSUME NEW r \in ReportIds PROVE Same(r)
      BY <1>1, <1>3, <2>1, UncountedElsewhere DEF Same, Counting
    <2>3. Recounted(q)'
      BY <2>1 DEF SumInv, Recounted
    <2>4. ASSUME NEW r \in ReportIds, r \in Stored' \ raced', reports'[r].status = "COMPLETED"
          PROVE  Balanced(r, reports[r].resolved)'
      BY <1>2, <2>1, <2>2, <2>4, StillAgrees
    <2>5. QED
      BY <1>1, <2>2, <2>3, <2>4, SumStep
  <1>6. QED
    BY <1>4, <1>5

LEMMA SumAlways == Spec => []SumInv
  <1>1. TypeInv /\ DocInv /\ BackedInv /\ SumInv /\ [Next]_vars => SumInv'
    <2> SUFFICES ASSUME TypeInv, DocInv, BackedInv, SumInv, [Next]_vars PROVE SumInv'
      OBVIOUS
    <2>1. ASSUME NEW q \in Requests, Step(q) PROVE SumInv'
      <3>1. \/ \/ CreateReport(q) \/ Push(q) \/ PushFails(q) \/ StoreReport(q)
               \/ ScheduledReport(q) \/ PushScheduled(q) \/ PushScheduledFails(q) \/ MarkFailed(q)
               \/ Receive(q) \/ StoreDiagnosis(q) \/ Callback(q) \/ CompletedCallback(q)
               \/ SaveStatusRefused(q) \/ Announce(q) \/ Resolve(q)
               \/ Abort(q) /\ ~Counting(q)
            \/ Recount(q) \/ SaveStatus(q) \/ SaveDiagnosis(q) \/ Count(q) \/ SaveCount(q)
            \/ SaveCountRefused(q) \/ (Abort(q) /\ Counting(q))
        BY <2>1 DEF Step
      <3>2. QED
        BY <3>1, SumQuiet, SumRecount, SumSaveStatus, SumSaveDiagnosis, SumCount, SumSaveCount,
           SumRefused
    <2>2. CASE UNCHANGED vars
      <3>1. UNCHANGED <<reports, diagnoses, pc, rid, held, valid, item, target, exact, raced>>
        BY <2>2 DEF vars, containers, resolving, history
      <3>2. \A r \in ReportIds : Same(r)
        BY <3>1 DEF Same, ResolvedOf, DiagnosesOf, Uncounted
      <3>3. CountsAgree'
        BY <3>1, <3>2 DEF SumInv, CountsAgree, Same, Stored
      <3>4. ASSUME NEW q \in Requests PROVE Recounted(q)' /\ Linked(q)'
        BY <3>1 DEF SumInv, Recounted, Linked, Resolves, Counting, Balanced, ResolvedOf,
           DiagnosesOf, Uncounted
      <3>5. QED
        BY <3>3, <3>4 DEF SumInv
    <2>3. QED
      BY <2>1, <2>2, NextIsStep
  <1>2. QED
    BY InitSum, DocAlways, BackedAlways, <1>1, PTL DEF Spec

(* The summary of a completed report and its diagnoses agree, however many *)
(* diagnoses, users and callbacks there are, unless a resolution was lost  *)
(* or doubled in one of the ways that CountsAgree names.                   *)
THEOREM SummariesAgree == Spec => []CountsAgree
  <1>1. SumInv => CountsAgree
    BY DEF SumInv
  <1>2. QED
    BY <1>1, SumAlways, PTL
----------------------------------------------------------------------------
(* Each write is one operation of ReportBook: what a handler's report id   *)
(* and its copy promise while others run.                                  *)

LEMMA EmptyFails ==
    ASSUME NEW i \in BOOLEAN, NEW m \in BOOLEAN
    PROVE  [Book!Empty("ANALYZING", i, m) EXCEPT !.status = "FAILED"] = Book!Empty("FAILED", i, m)
  BY DEF Book!Empty

(* A report not stored yet is nobody else's, one that may be marked FAILED *)
(* is a schedule's.                                                        *)
Drafted(q) ==
    /\ pc[q] \in {"push", "store"} =>
          /\ reports[rid[q]] = NoDoc
          /\ \E s \in {"ANALYZING", "FAILED"}, i \in BOOLEAN : held[q] = Book!Empty(s, i, TRUE)
    /\ pc[q] \in {"push_scheduled", "mark_failed"} =>
          /\ reports[rid[q]] # NoDoc /\ ~reports[rid[q]].manual
    /\ pc[q] = "push_scheduled" => held[q] = Book!Empty("ANALYZING", FALSE, FALSE)
    /\ pc[q] = "mark_failed" => held[q] = Book!Empty("FAILED", FALSE, FALSE)

(* A status to be saved under a current etag changes nothing else, and a   *)
(* recount counts diagnoses that are there.                                *)
Copied(q) ==
    pc[q] = "save_status" =>
        /\ held[q].status = "COMPLETED" =>
              /\ held[q].total =< Cardinality(DiagnosesOf(rid[q]))
              /\ held[q].resolved =< held[q].total
        /\ valid[q] =>
              /\ held[q].initial = reports[rid[q]].initial
              /\ held[q].manual = reports[rid[q]].manual
              /\ held[q].status # "COMPLETED" =>
                    /\ held[q].total = reports[rid[q]].total
                    /\ held[q].resolved = reports[rid[q]].resolved

Asked(q) == pc[q] = "receive" => rid[q] \in delivered

BookInv ==
    /\ \A q \in Requests : Drafted(q) /\ Copied(q) /\ Asked(q)
    /\ \A p, q \in Requests : p # q /\ Creating(p) /\ Creating(q) => rid[p] # rid[q]

LEMMA InitBook == Init => BookInv
  BY DEF Init, BookInv, Drafted, Copied, Asked, Creating

(* No report disappears or changes hands, and one appears only under a new *)
(* id or under that of the handler that stores it.                         *)
LEMMA ReportsKeep ==
    ASSUME TypeInv, DocInv, BookInv, NEW q \in Requests, Step(q), NEW r \in ReportIds
    PROVE  /\ reports[r] # NoDoc => /\ reports'[r] # NoDoc
                                   /\ reports'[r].manual = reports[r].manual
           /\ reports[r] = NoDoc /\ reports'[r] # NoDoc =>
                 r \notin issued \/ (Creating(q) /\ r = rid[q])
  <1> USE DEF TypeInv, TypeOK, containers, resolving, history
  <1>1. CASE ScheduledReport(q)
    <2>1. PICK x \in ReportIds \ issued :
              reports' = [reports EXCEPT ![x] = NewReport(FALSE, FALSE)]
      BY <1>1 DEF ScheduledReport
    <2>2. reports[x] = NoDoc
      BY <2>1 DEF DocInv, IdInv, Stored
    <2>3. QED
      BY <2>1, <2>2
  <1>2. CASE StoreReport(q) \/ MarkFailed(q)
    <2>1. /\ Creating(q) /\ rid[q] \in ReportIds /\ held[q] \in Report
          /\ reports' = [reports EXCEPT ![rid[q]] = held[q]]
      BY <1>2 DEF StoreReport, MarkFailed, Write, Creating, Pointers, Holds
    <2>2. reports[rid[q]] # NoDoc => ~reports[rid[q]].manual /\ ~held[q].manual
      BY <1>2 DEF StoreReport, MarkFailed, BookInv, Drafted, Book!Empty
    <2>3. QED
      BY <2>1, <2>2, NoDocAssumption DEF Report
  <1>3. CASE SaveStatus(q) \/ SaveCount(q)
    <2>1. /\ rid[q] \in ReportIds /\ held[q] \in Report
          /\ reports' = [reports EXCEPT ![rid[q]] = held[q]]
      BY <1>3 DEF SaveStatus, SaveCount, Write, Pointers, Holds
    <2>2. reports[rid[q]] # NoDoc
      BY <1>3 DEF SaveStatus, SaveCount, DocInv, Etag
    <2>3. held[q].manual = reports[rid[q]].manual
      <3>1. CASE SaveStatus(q)
        BY <3>1 DEF SaveStatus, BookInv, Copied
      <3>2. CASE SaveCount(q)
        <4>1. reports[rid[q]] \in Report
          BY <2>1, <2>2
        <4>2. held[q] = [reports[rid[q]] EXCEPT !.resolved = Adjusted(@, target[q])]
          BY <3>2 DEF SaveCount, DocInv, Etag
        <4>3. QED
          BY <4>1, <4>2 DEF Report
      <3>3. QED
        BY <1>3, <3>1, <3>2
    <2>4. QED
      BY <2>1, <2>2, <2>3, NoDocAssumption
  <1>4. CASE ~(ScheduledReport(q) \/ StoreReport(q) \/ MarkFailed(q) \/ SaveStatus(q) \/ SaveCount(q))
    <2>1. reports' = reports
      BY <1>4 DEF Step, CreateReport, Push, PushFails, PushScheduled, PushScheduledFails,
         Receive, StoreDiagnosis, Callback, CompletedCallback, Recount, SaveStatusRefused,
         Announce, Resolve, SaveDiagnosis, Count, SaveCountRefused, Abort
    <2>2. QED
      BY <2>1
  <1>5. QED
    BY <1>1, <1>2, <1>3, <1>4

LEMMA FindingsGrow ==
    ASSUME TypeInv, DocInv, NEW q \in Requests, Step(q), NEW r \in ReportIds
    PROVE  Cardinality(DiagnosesOf(r)) =< Cardinality(DiagnosesOf(r)')
  <1>1. DiagnosesOf(r) \subseteq DiagnosesOf(r)'
    BY DiagnosesKeep DEF DiagnosesOf
  <1>2. IsFiniteSet(DiagnosesOf(r)')
    <2>1. DiagnosesOf(r)' \subseteq DiagIds
      BY DEF DiagnosesOf
    <2>2. QED
      BY <2>1, ReportAssumption, FS_Subset
  <1>3. QED
    BY <1>1, <1>2, FS_Subset

LEMMA OthersKeepBook ==
    ASSUME TypeInv, DocInv, BookInv, NEW q \in Requests, Step(q),
           NEW p \in Requests, p # q
    PROVE  Drafted(p)' /\ Copied(p)' /\ Asked(p)'
  <1>1. Alone(q) /\ Grows
    BY StepIsAlone DEF DocInv
  <1>2. /\ pc'[p] = pc[p] /\ rid'[p] = rid[p] /\ held'[p] = held[p]
        /\ valid'[p] => valid[p]
        /\ pc[p] # "idle" => rid[p] \in ReportIds
    BY <1>1 DEF Alone, TypeInv, Pointers
  <1>3. Drafted(p)'
    <2>1. SUFFICES ASSUME Creating(p) PROVE Drafted(p)'
      BY <1>2 DEF Drafted, Creating
    <2>2. /\ rid[p] \in ReportIds /\ rid[p] \in issued
          /\ Creating(q) => rid[q] # rid[p]
      BY <1>2, <2>1 DEF Creating, DocInv, IdInv, BookInv
    <2>3. /\ reports[rid[p]] = NoDoc => reports'[rid[p]] = NoDoc
          /\ reports[rid[p]] # NoDoc => /\ reports'[rid[p]] # NoDoc
                                       /\ reports'[rid[p]].manual = reports[rid[p]].manual
      BY <2>2, ReportsKeep
    <2>4. QED
      BY <1>2, <2>3 DEF BookInv, Drafted
  <1>4. Copied(p)'
    <2>1. SUFFICES ASSUME pc[p] = "save_status" PROVE Copied(p)'
      BY <1>2 DEF Copied
    <2>2. rid[p] \in ReportIds /\ held[p] \in Report
      BY <1>2, <2>1 DEF TypeInv, Pointers, Holds
    <2>3. Cardinality(DiagnosesOf(rid[p])) =< Cardinality(DiagnosesOf(rid[p]))'
      <3>1. PICK r \in ReportIds : r = rid[p]
        BY <2>2
      <3>2. DiagnosesOf(r)' = DiagnosesOf(rid[p])'
        BY <1>2, <3>1 DEF DiagnosesOf
      <3>3. QED
        BY <3>1, <3>2, FindingsGrow
    <2>4. /\ Cardinality(DiagnosesOf(rid[p])) \in Nat
          /\ Cardinality(DiagnosesOf(rid[p]))' \in Nat
      <3>1. DiagnosesOf(rid[p])' \subseteq DiagIds
        BY DEF DiagnosesOf
      <3>2. QED
        BY <2>2, <3>1, Counts, ReportAssumption, FS_Subset, FS_CardinalityType
    <2>5. valid[p] => rid[p] \in Stored
      BY <2>1, <2>2 DEF DocInv, Etag, Stored
    <2>6. valid'[p] => reports'[rid[p]] = reports[rid[p]]
      BY <1>1, <1>2, <2>5 DEF Alone
    <2>7. held[p].status = "COMPLETED" => held[p].total =< Cardinality(DiagnosesOf(rid[p]))'
      <3>1. held[p].total \in Nat
        BY <2>2 DEF Report
      <3>2. QED
        BY <2>1, <2>3, <2>4, <3>1 DEF BookInv, Copied
    <2>8. QED
      BY <1>2, <2>1, <2>6, <2>7 DEF BookInv, Copied
  <1>5. Asked(p)'
    BY <1>1, <1>2 DEF Grows, BookInv, Asked
  <1>6. QED
    BY <1>3, <1>4, <1>5

LEMMA OwnBook ==
    ASSUME TypeInv, DocInv, BookInv, NEW q \in Requests, Step(q)
    PROVE  Drafted(q)' /\ Copied(q)' /\ Asked(q)'
  <1> USE DEF TypeInv, TypeOK, containers, resolving, history
  <1> DEFINE Promising == {"push", "store", "push_scheduled", "mark_failed", "save_status", "receive"}
  <1>1. CASE pc'[q] \notin Promising
    BY <1>1 DEF Drafted, Copied, Asked
  <1>2. CASE CreateReport(q)
    <2>1. PICK r \in ReportIds \ issued, i \in BOOLEAN :
              rid'[q] = r /\ held'[q] = NewReport(i, TRUE)
      BY <1>2, InitialTypes DEF CreateReport
    <2>2. pc'[q] = "push" /\ reports' = reports
      BY <1>2 DEF CreateReport, Begin
    <2>3. reports[r] = NoDoc
      BY <2>1 DEF DocInv, IdInv, Stored
    <2>4. QED
      BY <2>1, <2>2, <2>3 DEF Drafted, Copied, Asked, NewReport, Book!Empty
  <1>3. CASE ScheduledReport(q)
    <2>1. PICK r \in ReportIds \ issued :
              /\ rid' = [rid EXCEPT ![q] = r]
              /\ held' = [held EXCEPT ![q] = NewReport(FALSE, FALSE)]
              /\ reports' = [reports EXCEPT ![r] = NewReport(FALSE, FALSE)]
      BY <1>3 DEF ScheduledReport
    <2>2. pc'[q] = "push_scheduled"
      BY <1>3 DEF ScheduledReport, Begin
    <2>3. NewReport(FALSE, FALSE) # NoDoc
      BY NewReportTypes, NoDocAssumption
    <2>4. /\ rid'[q] = r /\ held'[q] = NewReport(FALSE, FALSE)
          /\ reports'[r] = NewReport(FALSE, FALSE)
      BY <2>1
    <2>5. QED
      BY <2>2, <2>3, <2>4 DEF Drafted, Copied, Asked, NewReport, Book!Empty
  <1>4. CASE Push(q) \/ PushFails(q)
    <2>1. /\ pc[q] = "push" /\ pc'[q] = "store" /\ rid' = rid /\ reports' = reports
          /\ held' = held \/ held' = [held EXCEPT ![q].status = "FAILED"]
      BY <1>4 DEF Push, PushFails, Goto
    <2>2. PICK s \in {"ANALYZING", "FAILED"}, i \in BOOLEAN : held[q] = Book!Empty(s, i, TRUE)
      BY <2>1 DEF BookInv, Drafted
    <2>3. held'[q] \in {held[q], Book!Empty("FAILED", i, TRUE)}
      BY <2>1, <2>2 DEF Book!Empty
    <2>4. QED
      BY <2>1, <2>2, <2>3 DEF BookInv, Drafted, Copied, Asked
  <1>5. CASE PushScheduledFails(q)
    <2>1. /\ pc[q] = "push_scheduled" /\ pc'[q] = "mark_failed" /\ rid' = rid
          /\ reports' = reports
          /\ held' = [held EXCEPT ![q].status = "FAILED"]
      BY <1>5 DEF PushScheduledFails, Goto
    <2>2. held[q] = Book!Empty("ANALYZING", FALSE, FALSE)
      BY <2>1 DEF BookInv, Drafted
    <2>3. held'[q] = Book!Empty("FAILED", FALSE, FALSE)
      BY <2>1, <2>2, EmptyFails
    <2>4. reports[rid[q]] # NoDoc /\ ~reports[rid[q]].manual
      BY <2>1 DEF BookInv, Drafted
    <2>5. QED
      BY <2>1, <2>3, <2>4 DEF Drafted, Copied, Asked
  <1>6. CASE Receive(q)
    <2>1. pc'[q] = "receive" /\ rid'[q] \in delivered'
      BY <1>6 DEF Receive, Begin
    <2>2. QED
      BY <2>1 DEF Drafted, Copied, Asked
  <1>7. CASE StoreDiagnosis(q)
    <2>1. Finish(q) \/ (pc' = pc /\ rid' = rid /\ pc[q] = "receive")
      BY <1>7 DEF StoreDiagnosis
    <2>2. delivered' = delivered
      BY <1>7 DEF StoreDiagnosis
    <2>3. CASE Finish(q)
      BY <1>1, <2>3 DEF Finish
    <2>4. QED
      BY <2>1, <2>2, <2>3 DEF BookInv, Drafted, Copied, Asked
  <1>8. CASE Callback(q)
    <2>1. PICK r \in Stored, s \in {"ANALYZING", "FAILED"} :
              /\ held' = [held EXCEPT ![q] = [reports[r] EXCEPT !.status = s]]
              /\ Read(q, r)
      BY <1>8 DEF Callback
    <2>2. reports[r] \in Report
      BY DEF Stored
    <2>3. pc'[q] = "save_status" /\ reports' = reports
      BY <1>8 DEF Callback, Begin
    <2>4. rid'[q] = r /\ held'[q] = [reports[r] EXCEPT !.status = s]
      BY <2>1 DEF Read
    <2>5. QED
      BY <2>2, <2>3, <2>4 DEF Drafted, Copied, Asked, Report
  <1>9. CASE Recount(q)
    <2>1. CASE Finish(q)
      BY <1>1, <2>1 DEF Finish
    <2>2. CASE ~Finish(q)
      <3> DEFINE r == rid[q]
      <3>1. /\ pc[q] = "list" /\ pc'[q] = "save_status" /\ rid' = rid /\ valid' = valid
            /\ reports' = reports /\ diagnoses' = diagnoses
            /\ held'[q] = [held[q] EXCEPT !.status = "COMPLETED",
                                          !.total = Cardinality(DiagnosesOf(r)),
                                          !.resolved = Cardinality(ResolvedOf(r))]
        BY <1>9, <2>2 DEF Recount, Goto
      <3>2. r \in ReportIds /\ held[q] \in Report
        BY <3>1 DEF Pointers, Holds
      <3>3. /\ held'[q].status = "COMPLETED"
            /\ held'[q].total = Cardinality(DiagnosesOf(r))
            /\ held'[q].resolved = Cardinality(ResolvedOf(r))
            /\ held'[q].initial = held[q].initial /\ held'[q].manual = held[q].manual
        BY <3>1, <3>2 DEF Report
      <3>4. Cardinality(ResolvedOf(r)) =< Cardinality(DiagnosesOf(r))
        <4>1. ResolvedOf(r) \subseteq DiagnosesOf(r)
          BY DEF ResolvedOf
        <4>2. QED
          BY <3>2, <4>1, Counts, FS_Subset
      <3>5. /\ DiagnosesOf(rid[q])' = DiagnosesOf(r)
            /\ Cardinality(DiagnosesOf(r)) =< Cardinality(DiagnosesOf(r))
        <4>1. DiagnosesOf(rid[q])' = DiagnosesOf(r)
          BY <3>1 DEF DiagnosesOf
        <4>2. Cardinality(DiagnosesOf(r)) \in Nat
          BY <3>2, Counts
        <4>3. QED
          BY <4>1, <4>2
      <3>6. valid[q] => reports[r] = held[q]
        BY <3>1 DEF DocInv, Etag
      <3>7. QED
        BY <3>1, <3>3, <3>4, <3>5, <3>6 DEF Drafted, Copied, Asked
    <2>3. QED
      BY <2>1, <2>2
  <1>10. CASE ~(CreateReport(q) \/ ScheduledReport(q) \/ Push(q) \/ PushFails(q)
               \/ PushScheduledFails(q) \/ Receive(q) \/ StoreDiagnosis(q) \/ Callback(q)
               \/ Recount(q))
    <2>1. pc'[q] \notin Promising
      <3>1. CASE Finish(q)
        BY <3>1 DEF Finish
      <3>2. CASE ~Finish(q)
        BY <1>10, <3>2
           DEF Step, StoreReport, PushScheduled, MarkFailed, CompletedCallback, SaveStatus,
               SaveStatusRefused, Announce, Resolve, SaveDiagnosis, Count, SaveCount,
               SaveCountRefused, Abort, Begin, Goto
      <3>3. QED
        BY <3>1, <3>2
    <2>2. QED
      BY <1>1, <2>1
  <1>11. QED
    BY <1>2, <1>3, <1>4, <1>5, <1>6, <1>7, <1>8, <1>9, <1>10

(* The handlers of new reports work on different ones.                     *)
LEMMA SoleStep ==
    ASSUME TypeInv, DocInv, BookInv, NEW q \in Requests, Step(q)
    PROVE  \A p1, p2 \in Requests :
              p1 # p2 /\ Creating(p1)' /\ Creating(p2)' => rid'[p1] # rid'[p2]
  <1> USE DEF TypeInv, TypeOK, containers, resolving, history
  <1>1. Alone(q)
    BY StepIsAlone DEF DocInv
  <1>2. \A p \in Requests \ {q} :
           Creating(p)' => Creating(p) /\ rid'[p] = rid[p] /\ rid[p] \in issued
    BY <1>1 DEF Alone, Creating, DocInv, IdInv
  <1>3. CASE CreateReport(q) \/ ScheduledReport(q)
    <2>1. PICK r \in ReportIds \ issued : rid' = [rid EXCEPT ![q] = r]
      BY <1>3 DEF CreateReport, ScheduledReport
    <2>2. rid'[q] \notin issued
      BY <2>1
    <2>3. QED
      BY <1>2, <2>2 DEF BookInv
  <1>4. CASE ~(CreateReport(q) \/ ScheduledReport(q))
    <2>1. Creating(q)' => Creating(q) /\ rid'[q] = rid[q]
      <3>1. CASE Finish(q)
        BY <3>1 DEF Finish, Creating
      <3>2. CASE ~Finish(q)
        BY <1>4, <3>2
           DEF Step, Push, PushFails, StoreReport, PushScheduled, PushScheduledFails, MarkFailed,
               Receive, StoreDiagnosis, Callback, CompletedCallback, Recount, SaveStatus,
               SaveStatusRefused, Announce, Resolve, SaveDiagnosis, Count, SaveCount,
               SaveCountRefused, Abort, Begin, Goto, Creating
      <3>3. QED
        BY <3>1, <3>2
    <2>2. QED
      BY <1>2, <2>1 DEF BookInv
  <1>5. QED
    BY <1>3, <1>4

LEMMA BookStep ==
    ASSUME TypeInv, DocInv, BookInv, [Next]_vars
    PROVE  BookInv'
  <1>1. CASE Next
    <2>1. PICK q \in Requests : Step(q)
      BY <1>1, NextIsStep
    <2>2. \A p \in Requests : Drafted(p)' /\ Copied(p)' /\ Asked(p)'
      BY <2>1, OwnBook, OthersKeepBook
    <2>3. QED
      BY <2>1, <2>2, SoleStep DEF BookInv
  <1>2. CASE UNCHANGED vars
    BY <1>2 DEF vars, containers, BookInv, Drafted, Copied, Asked, Creating, DiagnosesOf
  <1>3. QED
    BY <1>1, <1>2

LEMMA BookAlways == Spec => [](TypeInv /\ DocInv /\ BackedInv /\ SumInv /\ BookInv)
  <1>1. TypeInv /\ DocInv /\ BookInv /\ [Next]_vars => BookInv'
    BY BookStep
  <1>2. QED
    BY <1>1, InitBook, DocAlways, BackedAlways, SumAlways, PTL DEF Spec

----------------------------------------------------------------------------
LEMMA FindingsAreDiagnoses ==
    ASSUME NEW r \in ReportIds
    PROVE  /\ Book!Findings(r) = DiagnosesOf(r)
           /\ Book!Cardinality(Book!Findings(r)) = Cardinality(DiagnosesOf(r))
  <1>1. Book!Findings(r) = DiagnosesOf(r)
    BY DEF Book!Findings, DiagnosesOf
  <1>2. \A S : Book!Cardinality(S) = Cardinality(S)
    BY DEF Book!Cardinality, Cardinality
  <1>3. QED
    BY <1>1, <1>2

LEMMA Operations ==
    ASSUME NEW r \in ReportIds
    PROVE  /\ Book!Command(r) \/ Book!CreateManual(r) \/ Book!CreateScheduled(r) => Book!Next
           /\ Book!GiveUp(r) \/ Book!Complete(r) => Book!Next
           /\ Book!CountUp(r) \/ Book!CountDown(r) => Book!Next
           /\ \A s \in {"ANALYZING", "FAILED"} : Book!SetStatus(r, s) => Book!Next
           /\ \A d \in DiagIds : Book!Find(r, d) => Book!Next
  BY DEF Book!Next

LEMMA CreatingIsOperation ==
    ASSUME TypeInv, DocInv, BackedInv, BookInv, NEW q \in Requests,
           ScheduledReport(q) \/ StoreReport(q) \/ MarkFailed(q)
    PROVE  Book!Next
  <1> USE DEF TypeInv, TypeOK, containers
  <1>1. CASE ScheduledReport(q)
    <2>1. PICK r \in ReportIds \ issued :
              reports' = [reports EXCEPT ![r] = NewReport(FALSE, FALSE)]
      BY <1>1 DEF ScheduledReport
    <2>2. reports[r] = NoDoc
      BY <2>1 DEF DocInv, IdInv, Stored
    <2>3. UNCHANGED <<diagnoses, delivered>>
      BY <1>1 DEF ScheduledReport
    <2>4. NewReport(FALSE, FALSE) = Book!Empty("ANALYZING", FALSE, FALSE)
      BY DEF NewReport, Book!Empty
    <2>5. Book!CreateScheduled(r)
      BY <2>1, <2>2, <2>3, <2>4 DEF Book!CreateScheduled, Book!Exists, Book!Write
    <2>6. QED
      BY <2>1, <2>5, Operations
  <1>2. CASE StoreReport(q)
    <2>1. /\ rid[q] \in ReportIds /\ reports[rid[q]] = NoDoc
          /\ reports' = [reports EXCEPT ![rid[q]] = held[q]]
          /\ UNCHANGED <<diagnoses, delivered>>
      BY <1>2 DEF StoreReport, Write, Pointers, BookInv, Drafted
    <2>2. PICK s \in {"ANALYZING", "FAILED"}, i \in BOOLEAN : held[q] = Book!Empty(s, i, TRUE)
      BY <1>2 DEF StoreReport, BookInv, Drafted
    <2>3. s = "ANALYZING" => rid[q] \in delivered
      <3>1. held[q].status = s
        BY <2>2 DEF Book!Empty
      <3>2. QED
        BY <1>2, <3>1 DEF StoreReport, BackedInv, Backed
    <2>4. Book!CreateManual(rid[q])
      BY <2>1, <2>2, <2>3 DEF Book!CreateManual, Book!Exists, Book!Write
    <2>5. QED
      BY <2>1, <2>4, Operations
  <1>3. CASE MarkFailed(q)
    <2>1. /\ rid[q] \in ReportIds
          /\ reports[rid[q]] # NoDoc /\ ~reports[rid[q]].manual
          /\ held[q] = Book!Empty("FAILED", FALSE, FALSE)
          /\ reports' = [reports EXCEPT ![rid[q]] = held[q]]
          /\ UNCHANGED <<diagnoses, delivered>>
      BY <1>3 DEF MarkFailed, Write, Pointers, BookInv, Drafted
    <2>2. Book!GiveUp(rid[q])
      BY <2>1 DEF Book!GiveUp, Book!Exists, Book!Write
    <2>3. QED
      BY <2>1, <2>2, Operations
  <1>4. QED
    BY <1>1, <1>2, <1>3

(* The etag makes the save of a callback one operation on the report as it *)
(* is stored now.                                                          *)
LEMMA SavingIsOperation ==
    ASSUME TypeInv, DocInv, BackedInv, BookInv, NEW q \in Requests, SaveStatus(q)
    PROVE  Book!Next
  <1> DEFINE r == rid[q]
             old == reports[rid[q]]
  <1>1. /\ pc[q] = "save_status" /\ valid[q]
        /\ reports' = [reports EXCEPT ![r] = held[q]]
        /\ UNCHANGED <<diagnoses, delivered>>
    BY DEF SaveStatus, Write
  <1>2. r \in ReportIds /\ held[q] \in Report
    BY <1>1 DEF TypeInv, Pointers, Holds
  <1>3. old # NoDoc /\ old \in Report
    BY <1>1, <1>2 DEF TypeInv, TypeOK, DocInv, Etag
  <1>4. r \in delivered
    BY <1>1 DEF BackedInv, Backed
  <1>5. held[q].initial = old.initial /\ held[q].manual = old.manual
    BY <1>1 DEF BookInv, Copied
  <1>6. CASE held[q].status = "COMPLETED"
    <2>1. /\ held[q].total =< Cardinality(DiagnosesOf(r))
          /\ held[q].resolved =< held[q].total
      BY <1>1, <1>6 DEF BookInv, Copied
    <2>2. /\ held[q].total \in 0 .. Book!Cardinality(Book!Findings(r))
          /\ held[q].resolved \in 0 .. held[q].total
      <3>1. /\ Cardinality(DiagnosesOf(r)) \in Nat
            /\ Book!Cardinality(Book!Findings(r)) = Cardinality(DiagnosesOf(r))
        BY <1>2, Counts, FindingsAreDiagnoses
      <3>2. held[q].total \in Nat /\ held[q].resolved \in Nat
        BY <1>2 DEF Report
      <3>3. QED
        BY <2>1, <3>1, <3>2
    <2>3. held[q] = [old EXCEPT !.status = "COMPLETED", !.total = held[q].total,
                                !.resolved = held[q].resolved]
      BY <1>2, <1>3, <1>5, <1>6 DEF Report
    <2>4. Book!Complete(r)
      <3>1. Book!Write(r, [old EXCEPT !.status = "COMPLETED", !.total = held[q].total,
                                      !.resolved = held[q].resolved])
        BY <1>1, <2>3 DEF Book!Write
      <3>2. Book!Exists(r) /\ r \in delivered
        BY <1>3, <1>4 DEF Book!Exists
      <3>3. QED
        BY <2>2, <3>1, <3>2 DEF Book!Complete
    <2>5. QED
      BY <1>2, <2>4, Operations
  <1>7. CASE held[q].status # "COMPLETED"
    <2>1. held[q].status \in {"ANALYZING", "FAILED"}
      BY <1>2, <1>7 DEF Report, Statuses
    <2>2. held[q].total = old.total /\ held[q].resolved = old.resolved
      BY <1>1, <1>7 DEF BookInv, Copied
    <2>3. held[q] = [old EXCEPT !.status = held[q].status]
      BY <1>2, <1>3, <1>5, <2>2 DEF Report
    <2>4. Book!SetStatus(r, held[q].status)
      BY <1>1, <1>3, <1>4, <2>3 DEF Book!SetStatus, Book!Exists, Book!Write
    <2>5. QED
      BY <1>2, <2>1, <2>4, Operations
  <1>8. QED
    BY <1>6, <1>7

LEMMA DiagnosingIsOperation ==
    ASSUME TypeInv, DocInv, BookInv, NEW q \in Requests, StoreDiagnosis(q) \/ SaveDiagnosis(q)
    PROVE  Book!Next
  <1> USE DEF TypeInv, TypeOK
  <1>1. CASE StoreDiagnosis(q)
    <2>1. rid[q] \in ReportIds /\ rid[q] \in delivered
      BY <1>1 DEF StoreDiagnosis, Pointers, BookInv, Asked
    <2>2. PICK d \in batch[q] :
            diagnoses' = [diagnoses EXCEPT ![d] = [report |-> rid[q], resolved |-> FALSE]]
      BY <1>1 DEF StoreDiagnosis
    <2>3. d \in DiagIds /\ diagnoses[d] = NoDoc
      BY <2>2 DEF DocInv, IdInv
    <2>4. UNCHANGED <<reports, delivered>>
      BY <1>1 DEF StoreDiagnosis
    <2>5. Book!Find(rid[q], d)
      BY <2>1, <2>2, <2>3, <2>4 DEF Book!Find
    <2>6. QED
      BY <2>1, <2>3, <2>5, Operations
  <1>2. CASE SaveDiagnosis(q)
    <2>1. /\ item[q] \in DiagIds /\ diagnoses[item[q]] # NoDoc /\ target[q] \in BOOLEAN
          /\ diagnoses' = [diagnoses EXCEPT ![item[q]].resolved = target[q]]
          /\ UNCHANGED <<reports, delivered>>
      BY <1>2 DEF SaveDiagnosis, Pointers, Resolves
    <2>2. Book!Resolve(item[q], target[q])
      BY <2>1 DEF Book!Resolve
    <2>3. QED
      BY <2>1, <2>2 DEF Book!Next
  <1>3. QED
    BY <1>1, <1>2

(* So does it with the count of a resolution.                              *)
LEMMA CountingIsOperation ==
    ASSUME TypeInv, DocInv, SumInv, NEW q \in Requests, SaveCount(q)
    PROVE  Book!Next
  <1> DEFINE r == rid[q]
             old == reports[rid[q]]
  <1>1. /\ pc[q] = "save_count" /\ valid[q]
        /\ reports' = [reports EXCEPT ![r] = held[q]]
        /\ UNCHANGED <<diagnoses, delivered>>
    BY DEF SaveCount, Write
  <1>2. /\ r \in ReportIds /\ target[q] \in BOOLEAN
        /\ item[q] \in DiagIds /\ diagnoses[item[q]] # NoDoc
    BY <1>1 DEF TypeInv, TypeOK, Pointers, Resolves, Counting
  <1>3. old # NoDoc /\ held[q] = [old EXCEPT !.resolved = Adjusted(@, target[q])]
    BY <1>1 DEF DocInv, Etag
  <1>4. item[q] \in Book!Findings(r)
    BY <1>1, <1>2 DEF SumInv, Linked, Resolves, Counting, Book!Findings
  <1>5. CASE target[q]
    <2>1. held[q] = [old EXCEPT !.resolved = @ + 1]
      BY <1>3, <1>5 DEF Adjusted
    <2>2. Book!CountUp(r)
      BY <1>1, <1>3, <1>4, <2>1 DEF Book!CountUp, Book!Exists, Book!Write
    <2>3. QED
      BY <1>2, <2>2, Operations
  <1>6. CASE ~target[q]
    <2>1. held[q] = [old EXCEPT !.resolved = IF @ = 0 THEN 0 ELSE @ - 1]
      BY <1>3, <1>6 DEF Adjusted
    <2>2. Book!CountDown(r)
      BY <1>1, <1>3, <1>4, <2>1 DEF Book!CountDown, Book!Exists, Book!Write
    <2>3. QED
      BY <1>2, <2>2, Operations
  <1>7. QED
    BY <1>5, <1>6

LEMMA StepIsOperation ==
    ASSUME TypeInv, DocInv, BackedInv, SumInv, BookInv, NEW q \in Requests, Step(q)
    PROVE  Book!Next \/ UNCHANGED Book!book
  <1>1. CASE Push(q) \/ PushFails(q) \/ PushScheduled(q) \/ PushScheduledFails(q)
    <2>1. /\ rid[q] \in ReportIds
          /\ delivered' \in {delivered, delivered \union {rid[q]}}
          /\ UNCHANGED <<reports, diagnoses>>
      BY <1>1 DEF Push, PushFails, PushScheduled, PushScheduledFails, TypeInv, Pointers
    <2>2. Book!Command(rid[q]) \/ UNCHANGED Book!book
      BY <2>1 DEF Book!Command, Book!book
    <2>3. QED
      BY <2>1, <2>2, Operations
  <1>2. CASE ~(Push(q) \/ PushFails(q) \/ PushScheduled(q) \/ PushScheduledFails(q)
               \/ ScheduledReport(q) \/ StoreReport(q) \/ MarkFailed(q) \/ SaveStatus(q)
               \/ StoreDiagnosis(q) \/ SaveDiagnosis(q) \/ SaveCount(q))
    <2>1. UNCHANGED <<reports, diagnoses, delivered>>
      <3>1. CASE CreateReport(q) \/ Receive(q)
        BY <3>1 DEF CreateReport, Receive
      <3>2. CASE ~(CreateReport(q) \/ Receive(q))
        <4>1. UNCHANGED containers
          BY <1>2, <3>2 DEF Step, Callback, CompletedCallback, Recount, SaveStatusRefused,
             Announce, Resolve, Count, SaveCountRefused, Abort
        <4>2. QED
          BY <4>1 DEF containers
      <3>3. QED
        BY <3>1, <3>2
    <2>2. QED
      BY <2>1 DEF Book!book
  <1>3. QED
    BY <1>1, <1>2, CreatingIsOperation, SavingIsOperation, DiagnosingIsOperation,
       CountingIsOperation

(* The handlers implement the book: however many requests overlap, fail or *)
(* stop, what is stored changes as if each operation happened at once, on  *)
(* the document stored at that moment.                                     *)
THEOREM HandlersImplementBook == Spec => WritesAreOperations
  <1>1. Init => Book!Init
    BY DEF Init, Book!Init
  <1>2. TypeInv /\ DocInv /\ BackedInv /\ SumInv /\ BookInv /\ [Next]_vars
           => [Book!Next]_(Book!book)
    <2>1. CASE Next
      BY <2>1, NextIsStep, StepIsOperation
    <2>2. CASE UNCHANGED vars
      BY <2>2 DEF vars, containers, Book!book
    <2>3. QED
      BY <2>1, <2>2
  <1>3. QED
    BY <1>1, <1>2, BookAlways, PTL DEF Spec, WritesAreOperations, Book!Spec
=============================================================================
