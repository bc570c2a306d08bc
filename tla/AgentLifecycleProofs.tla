------------------------ MODULE AgentLifecycleProofs ------------------------
(***************************************************************************)
(* Proofs about AgentLifecycle, for every set of documents, clients,       *)
(* versions and concurrent requests, every set of PATCH statuses, and      *)
(* every choice of operations and faults.                                  *)
(***************************************************************************)
EXTENDS AgentLifecycle, TLAPS

(* The type of the variables alone is not inductive: a handler past its    *)
(* first read works on a document whose copy it holds.                     *)
WorkingOn ==
    \A r \in Requests :
        pc[r] \notin {"idle", "uninst_token", "uninst_loop"}
            => target[r] \in Ids /\ Copy(r) \in Doc

TypeInv == TypeOK /\ WorkingOn

LEMMA EntityTypes ==
    ASSUME NEW a \in Doc
    PROVE  /\ \A s \in AgentStatus : WithStatus(a, s) \in Doc
           /\ Deactivated(a) \in Doc
           /\ ConfirmDeletion(a) \in Doc
           /\ \A v \in Versions : NewAgent(v) \in Doc /\ Handshaken(a, v) \in Doc
  BY DEF Doc, NewAgent, WithStatus, Deactivated, ConfirmDeletion, Handshaken,
         Activate, AgentStatus

(* What Take, Mutate, Finish and the two forms of upsert do to the types.  *)
LEMMA TakeType ==
    ASSUME TypeInv, NEW r \in Requests, NEW d \in Ids, NEW a \in Doc,
           NEW next \in HandlerStates, Take(r, d, a, next),
           UNCHANGED <<agents, enabled, azure, seenGone>>,
           trusted' \subseteq Ids
    PROVE  TypeInv'
  BY NoDocAssumption DEF TypeInv, TypeOK, WorkingOn, Take, Copy, azure, Nothing

LEMMA FinishType ==
    ASSUME TypeInv, NEW r \in Requests, Finish(r)
    PROVE  /\ pc' \in [Requests -> HandlerStates]
           /\ target' \in [Requests -> Ids \union {NoId}]
           /\ held' \in [Requests -> [Ids -> Doc \union {NoDoc}]]
           /\ stale' \in [Requests -> SUBSET Ids]
           /\ WorkingOn'
  BY DEF TypeInv, TypeOK, WorkingOn, Finish, Copy, Nothing, HandlerStates

LEMMA StoreAndFinishType ==
    ASSUME TypeInv, NEW r \in Requests, StoreAndFinish(r),
           pc[r] \notin {"idle", "uninst_token", "uninst_loop"},
           UNCHANGED <<enabled, azure, frontend>>
    PROVE  TypeInv'
  <1>1. target[r] \in Ids /\ Copy(r) \in Doc
    BY DEF TypeInv, WorkingOn
  <1>2. stale' \in [Requests -> SUBSET Ids]
    BY DEF TypeInv, TypeOK, StoreAndFinish, Outdated
  <1>3. QED
    BY <1>1, <1>2 DEF TypeInv, TypeOK, WorkingOn, StoreAndFinish, Copy, Nothing,
       HandlerStates, azure, frontend

LEMMA StoreType ==
    ASSUME TypeInv, NEW r \in Requests, NEW a \in Doc, NEW next \in HandlerStates,
           target[r] \in Ids,
           Store(r, target[r], a), Mutate(r, a, next),
           UNCHANGED <<enabled, azure, frontend, target>>
    PROVE  TypeInv'
  <1>1. stale' \in [Requests -> SUBSET Ids]
    BY DEF TypeInv, TypeOK, Store, Outdated
  <1>2. QED
    BY <1>1 DEF TypeInv, TypeOK, WorkingOn, Store, Mutate, Copy, azure, frontend

(* Every step keeps the types: one step per action of Next.                *)
LEMMA TypeStep ==
    ASSUME TypeInv, [Next]_vars
    PROVE  TypeInv'
  <1> USE ConstantsAssumption, NoDocAssumption DEF frontend
  <1>0. trusted \subseteq Ids
    BY DEF TypeInv, TypeOK
  <1>1. ASSUME NEW r \in Requests, NEW c \in Clients, Handshake(r, c)
        PROVE  TypeInv'
    <2>1. ASSUME NEW d \in Ids, agents[d] # NoDoc,
                 Take(r, d, Handshaken(agents[d], running[c]), "handshake")
          PROVE  TypeInv'
      <3>1. Handshaken(agents[d], running[c]) \in Doc
        BY EntityTypes, <2>1 DEF TypeInv, TypeOK, AgentStatus
      <3>2. QED
        BY <1>1, <2>1, <3>1, TakeType, <1>0 DEF Handshake, HandlerStates
    <2>2. ASSUME NEW d \in Ids, Take(r, d, NewAgent(running[c]), "handshake")
          PROVE  TypeInv'
      <3>1. NewAgent(running[c]) \in Doc
        BY DEF TypeInv, TypeOK, NewAgent, Doc, AgentStatus
      <3>2. QED
        BY <1>1, <2>2, <3>1, TakeType, <1>0 DEF Handshake, HandlerStates
    <2>3. QED
      BY <1>1, <2>1, <2>2 DEF Handshake, HandshakeKnown, HandshakeFirst, FirstFor,
         StoredFor, Stored
  <1>2. ASSUME NEW r \in Requests, NEW d \in Ids,
               Patch(r, d) \/ RequestUpdate(r, d) \/ Deactivate(r, d) \/ Confirm(r, d)
        PROVE  TypeInv'
    <2>1. agents[d] \in Doc
      BY <1>2 DEF TypeInv, TypeOK, Patch, RequestUpdate, Deactivate, Confirm, Stored
    <2>2. agents[d].status \in AgentStatus
      BY <2>1 DEF Doc
    <2>3. CASE Patch(r, d)
      <3>1. PICK s \in PatchStatuses \union {agents[d].status} :
                Take(r, d, WithStatus(agents[d], s), "patch")
        BY <2>3 DEF Patch
      <3>2. WithStatus(agents[d], s) \in Doc
        BY <2>1, <2>2 DEF WithStatus, Doc
      <3>3. QED
        BY <2>3, <3>1, <3>2, TakeType, <1>0 DEF Patch, HandlerStates
    <2>4. CASE RequestUpdate(r, d)
      BY <2>1, <2>4, TakeType, <1>0 DEF RequestUpdate, HandlerStates
    <2>5. CASE Deactivate(r, d)
      BY <2>1, <2>5, TakeType, <1>0 DEF Deactivate, HandlerStates
    <2>6. CASE Confirm(r, d)
      <3>1. ConfirmDeletion(agents[d]) \in Doc
        BY <2>1 DEF ConfirmDeletion, Doc, AgentStatus
      <3>2. QED
        BY <2>1, <2>6, <3>1, TakeType, <1>0 DEF Confirm, HandlerStates
    <2>7. QED
      BY <1>2, <2>3, <2>4, <2>5, <2>6
  <1>3. ASSUME NEW r \in Requests, Uninstall(r)
        PROVE  TypeInv'
    BY <1>3 DEF TypeInv, TypeOK, WorkingOn, Copy, Uninstall, HandlerStates, azure
  <1>4. ASSUME NEW r \in Requests,
               HandshakeSave(r) \/ PatchSave(r) \/ UpdateSave(r)
        PROVE  TypeInv'
    BY <1>4, StoreAndFinishType DEF HandshakeSave, PatchSave, UpdateSave
  <1>5. ASSUME NEW r \in Requests, UpdateSettings(r)
        PROVE  TypeInv'
    <2>1. target[r] \in Ids /\ Copy(r) \in Doc
      BY <1>5 DEF TypeInv, WorkingOn, UpdateSettings
    <2>2. /\ WithStatus(Copy(r), "UPDATING") \in Doc
          /\ WithStatus(Copy(r), "UPDATING_FAILED") \in Doc
      BY <2>1 DEF WithStatus, Doc, AgentStatus
    <2>3. PICK s \in {"UPDATING", "UPDATING_FAILED"} :
              Mutate(r, WithStatus(Copy(r), s), "update_save")
      BY <1>5 DEF UpdateSettings
    <2>4. installed' \in [Clients -> Versions]
      BY <1>5, <2>1 DEF UpdateSettings, TypeInv, TypeOK
    <2>5. WithStatus(Copy(r), s) \in Doc
      BY <2>2
    <2>6. QED
      BY <1>5, <2>1, <2>3, <2>4, <2>5 DEF UpdateSettings, TypeInv, TypeOK, WorkingOn,
         Mutate, Copy, HandlerStates
  <1>6. ASSUME NEW r \in Requests, DeactivateSave(r)
        PROVE  TypeInv'
    <2>1. target[r] \in Ids /\ Copy(r) \in Doc
      BY <1>6 DEF TypeInv, WorkingOn, DeactivateSave
    <2>2. Deactivated(Copy(r)) \in Doc
      BY <2>1 DEF Deactivated, WithStatus, Doc, AgentStatus
    <2>3. QED
      BY <1>6, <2>1, <2>2, StoreType DEF DeactivateSave, HandlerStates
  <1>7. ASSUME NEW r \in Requests, DeactivateAzure(r)
        PROVE  TypeInv'
    <2>1. target[r] \in Ids /\ Copy(r) \in Doc
      BY <1>7 DEF TypeInv, WorkingOn, DeactivateAzure
    <2>2. WithStatus(Copy(r), "DEACTIVATE_FAILED") \in Doc
      BY <2>1 DEF WithStatus, Doc, AgentStatus
    <2>3. PICK a \in Doc, next \in {"disable", "deact_failed"} : Mutate(r, a, next)
      BY <1>7, <2>1, <2>2 DEF DeactivateAzure
    <2>4. rg' \in [Clients -> {"present", "deleting", "gone"}]
      BY <1>7, <2>1 DEF DeactivateAzure, RequestRgDeletion, TypeInv, TypeOK
    <2>5. QED
      BY <1>7, <2>1, <2>3, <2>4 DEF DeactivateAzure, TypeInv, TypeOK, WorkingOn,
         Mutate, Copy, HandlerStates
  <1>8. ASSUME NEW r \in Requests,
               DeactivateFailedSave(r) \/ ConfirmSave(r) \/ UninstallSave(r)
        PROVE  TypeInv'
    <2>1. target[r] \in Ids /\ Copy(r) \in Doc
      BY <1>8 DEF TypeInv, WorkingOn, DeactivateFailedSave, ConfirmSave, UninstallSave
    <2>2. QED
      BY <1>8, <2>1, StoreType DEF DeactivateFailedSave, ConfirmSave, UninstallSave,
         HandlerStates
  <1>9. ASSUME NEW r \in Requests, Disable(r)
        PROVE  TypeInv'
    BY <1>9, FinishType DEF Disable, DisableSchedules, TypeInv, TypeOK, azure
  <1>10. ASSUME NEW r \in Requests, UninstallDelete(r)
         PROVE  TypeInv'
    <2>1. PICK d \in Ids :
             /\ held[r][d] # NoDoc
             /\ RequestRgDeletion(ClientOf[d]) \/ UNCHANGED rg
             /\ \/ /\ CanDeactivate(held[r][d])
                   /\ target' = [target EXCEPT ![r] = d]
                   /\ held' = [held EXCEPT ![r][d] = Deactivated(@)]
                   /\ pc' = [pc EXCEPT ![r] = "uninst_save"]
                   /\ UNCHANGED stale
                \/ /\ ~CanDeactivate(held[r][d])
                   /\ Finish(r)
      BY <1>10 DEF UninstallDelete
    <2>2. rg' \in [Clients -> {"present", "deleting", "gone"}]
      BY <2>1 DEF RequestRgDeletion, TypeInv, TypeOK
    <2>3. CASE Finish(r)
      BY <1>10, <2>2, <2>3, FinishType DEF UninstallDelete, TypeInv, TypeOK
    <2>4. CASE /\ target' = [target EXCEPT ![r] = d]
               /\ held' = [held EXCEPT ![r][d] = Deactivated(@)]
               /\ pc' = [pc EXCEPT ![r] = "uninst_save"]
               /\ UNCHANGED stale
      <3>1. held[r][d] \in Doc
        BY <2>1 DEF TypeInv, TypeOK
      <3>2. Deactivated(held[r][d]) \in Doc
        BY <3>1 DEF Deactivated, WithStatus, Doc, AgentStatus
      <3>3. held' = [held EXCEPT ![r] = [held[r] EXCEPT ![d] = Deactivated(held[r][d])]]
        BY <2>4
      <3>4. QED
        BY <1>10, <2>2, <2>4, <3>2, <3>3 DEF UninstallDelete, TypeInv, TypeOK,
           WorkingOn, Copy, HandlerStates
    <2>5. QED
      BY <2>1, <2>3, <2>4
  <1>11. ASSUME NEW r \in Requests, UninstallDisable(r)
         PROVE  TypeInv'
    <2>1. enabled' \subseteq (Ids \union Clients)
      BY <1>11 DEF UninstallDisable, DisableSchedules, TypeInv, TypeOK
    <2>2. CASE Finish(r)
      BY <1>11, <2>1, <2>2, FinishType DEF UninstallDisable, TypeInv, TypeOK, azure
    <2>3. CASE Mutate(r, NoDoc, "uninst_loop") /\ UNCHANGED <<target, stale>>
      BY <1>11, <2>1, <2>3 DEF UninstallDisable, TypeInv, TypeOK, WorkingOn, Mutate,
         Copy, HandlerStates, azure
    <2>4. QED
      BY <1>11, <2>2, <2>3 DEF UninstallDisable
  <1>12. ASSUME NEW r \in Requests, Reject(r) \/ Abort(r)
         PROVE  TypeInv'
    BY <1>12, FinishType DEF Reject, Abort, TypeInv, TypeOK, azure
  <1>13. ASSUME NEW d \in Ids, CheckResourceGroup(d) \/ EnableSchedule(d)
         PROVE  TypeInv'
    BY <1>13 DEF CheckResourceGroup, EnableSchedule, TypeInv, TypeOK, WorkingOn, Copy,
       azure, request
  <1>14. ASSUME NEW c \in Clients, Azure(c)
         PROVE  TypeInv'
    BY <1>14 DEF Azure, FunctionAppRestart, RgGone, RgDeletionFails, TypeInv, TypeOK,
       WorkingOn, Copy, request
  <1>15. CASE UNCHANGED vars
    BY <1>15 DEF vars, azure, request, TypeInv, TypeOK, WorkingOn, Copy
  <1>16. QED
    BY <1>1, <1>2, <1>3, <1>4, <1>5, <1>6, <1>7, <1>8, <1>9, <1>10, <1>11, <1>12,
       <1>13, <1>14, <1>15 DEF Next, Arrive, Proceed

(* Every reachable state is well typed: TypeOK of AgentLifecycle.          *)
THEOREM AgentTypes == Spec => []TypeOK
  <1>1. Init => TypeInv
    BY ConstantsAssumption DEF Init, TypeInv, TypeOK, WorkingOn, Nothing, HandlerStates
  <1>2. TypeInv /\ [Next]_vars => TypeInv'
    BY TypeStep
  <1>3. TypeInv => TypeOK
    BY DEF TypeInv
  <1>4. QED
    BY <1>1, <1>2, <1>3, PTL DEF Spec

----------------------------------------------------------------------------
(* The guards of the entity methods hold of the copy a handler carries from*)
(* its read to the method call.                                            *)
CopyGuards ==
    \A r \in Requests :
        /\ pc[r] = "update_checks" => ~IsDeleted(Copy(r))
        /\ pc[r] = "deact_check" => CanDeactivate(Copy(r))
        /\ pc[r] = "deact_azure" => Copy(r).status = "DEACTIVATING"

(* An uninstall lists no DELETED agent.                                    *)
UninstallStates == {"uninst_token", "uninst_loop", "uninst_save", "uninst_disable"}
UninstallCopies ==
    \A r \in Requests, d \in Ids :
        pc[r] \in UninstallStates /\ held[r][d] # NoDoc => ~IsDeleted(held[r][d])

(* Where a deletion stamp may be; the front end's knowledge is part of the *)
(* induction because a confirmation it sends is sound only by that.        *)
Vouched(d) == rg[ClientOf[d]] = "gone" \/ d \in trusted
Sound(d, a) == Deleted(a) => IsDeleted(a) /\ Vouched(d)
Stamps ==
    /\ \A d \in seenGone : rg[ClientOf[d]] = "gone"
    /\ \A d \in Ids : Sound(d, agents[d])
    /\ \A r \in Requests, d \in Ids : Sound(d, held[r][d])

(* A copy whose upsert comes next was mutated after the read.              *)
PendingStates ==
    {"handshake", "patch", "confirm", "update_save", "deact_failed", "uninst_save"}
Pending(r, d) == d = target[r] /\ pc[r] \in PendingStates

OneMove(d, a) ==
    \/ StatusOf(agents[d]) = a.status
    \/ /\ Machine!Allowed(StatusOf(agents[d]), a.status)
       /\ agents[d] = NoDoc => StoredFor(ClientOf[d]) = {}

(* A copy that is not out of date equals the stored document, or is one    *)
(* move of the entity away from it.                                        *)
FreshCopies ==
    \A r \in Requests, d \in Ids :
        held[r][d] # NoDoc /\ d \notin stale[r]
            => IF Pending(r, d) THEN OneMove(d, held[r][d]) ELSE agents[d] = held[r][d]

IInv == TypeInv /\ CopyGuards /\ UninstallCopies /\ Stamps /\ FreshCopies

LEMMA GuardsStep ==
    ASSUME TypeInv, CopyGuards, [Next]_vars
    PROVE  CopyGuards'
  <1> USE DEF CopyGuards, Copy
  <1>1. ASSUME NEW r \in Requests, Arrive(r)
        PROVE  CopyGuards'
    <2>1. CASE Uninstall(r)
      BY <2>1 DEF Uninstall, TypeInv, TypeOK
    <2>3. CASE \E c \in Clients : Handshake(r, c)
      <3>1. PICK d, a : d \in Ids /\ Take(r, d, a, "handshake")
        BY <2>3 DEF Handshake, HandshakeKnown, HandshakeFirst, FirstFor, StoredFor, Stored
      <3>2. QED
        BY <3>1 DEF Take, TypeInv, TypeOK, Nothing
    <2>4. CASE \E d \in Ids : Patch(r, d)
      BY <2>4 DEF Patch, Take, TypeInv, TypeOK, Nothing
    <2>5. ASSUME NEW d \in Ids, RequestUpdate(r, d) \/ Deactivate(r, d)
          PROVE  CopyGuards'
      <3>1. PICK next \in {"update_checks", "deact_check"} :
                /\ Take(r, d, agents[d], next)
                /\ next = "update_checks" => ~IsDeleted(agents[d])
                /\ next = "deact_check" => CanDeactivate(agents[d])
        BY <2>5 DEF RequestUpdate, Deactivate
      <3>2. /\ pc' = [pc EXCEPT ![r] = next]
            /\ target'[r] = d
            /\ held'[r][d] = agents[d]
        BY <3>1 DEF Take, TypeInv, TypeOK, Nothing
      <3>3. \A q \in Requests \ {r} : target'[q] = target[q] /\ held'[q] = held[q]
        BY <3>1 DEF Take, TypeInv, TypeOK
      <3>4. QED
        BY <3>1, <3>2, <3>3 DEF TypeInv, TypeOK
    <2>6. CASE \E d \in Ids : Confirm(r, d)
      BY <2>6 DEF Confirm, Take, TypeInv, TypeOK, Nothing
    <2>7. QED
      BY <1>1, <2>1, <2>3, <2>4, <2>5, <2>6 DEF Arrive
  <1>2. ASSUME NEW r \in Requests, HandshakeSave(r) \/ PatchSave(r) \/ UpdateSave(r)
        PROVE  CopyGuards'
    BY <1>2 DEF HandshakeSave, PatchSave, UpdateSave, StoreAndFinish, TypeInv, TypeOK
  <1>3. ASSUME NEW r \in Requests, UpdateSettings(r)
        PROVE  CopyGuards'
    BY <1>3 DEF UpdateSettings, Mutate, TypeInv, TypeOK
  <1>4. ASSUME NEW r \in Requests, DeactivateSave(r)
        PROVE  CopyGuards'
    <2>1. target[r] \in Ids /\ Copy(r) \in Doc
      BY <1>4 DEF TypeInv, WorkingOn, DeactivateSave
    <2>2. Deactivated(Copy(r)).status = "DEACTIVATING"
      BY <2>1 DEF Deactivated, WithStatus, Doc
    <2>3. QED
      BY <1>4, <2>1, <2>2 DEF DeactivateSave, Mutate, TypeInv, TypeOK
  <1>5. ASSUME NEW r \in Requests,
               \/ DeactivateAzure(r) \/ DeactivateFailedSave(r) \/ ConfirmSave(r)
               \/ UninstallSave(r)
        PROVE  CopyGuards'
    BY <1>5 DEF DeactivateAzure, DeactivateFailedSave, ConfirmSave, UninstallSave,
       Mutate, TypeInv, TypeOK
  <1>6. ASSUME NEW r \in Requests, Finish(r)
        PROVE  CopyGuards'
    BY <1>6 DEF Finish, TypeInv, TypeOK
  <1>7. ASSUME NEW r \in Requests, UninstallDelete(r) \/ UninstallDisable(r)
        PROVE  CopyGuards'
    BY <1>6, <1>7 DEF UninstallDelete, UninstallDisable, Mutate, TypeInv, TypeOK
  <1>8. CASE UNCHANGED request
    BY <1>8 DEF request
  <1>9. QED
    BY <1>1, <1>2, <1>3, <1>4, <1>5, <1>6, <1>7, <1>8
       DEF Next, Proceed, Disable, Reject, Abort, CheckResourceGroup, EnableSchedule,
           Azure, FunctionAppRestart, RgGone, RgDeletionFails, vars

(* A step of r alone, after which it runs no uninstall or has no copy it   *)
(* did not have.                                                           *)
LEMMA UninstallCopiesKept ==
    ASSUME TypeInv, UninstallCopies, NEW r \in Requests,
           \A q \in Requests \ {r} : pc'[q] = pc[q] /\ held'[q] = held[q],
           \/ pc'[r] \notin UninstallStates
           \/ /\ pc[r] \in UninstallStates
              /\ \A d \in Ids : held'[r][d] \in {held[r][d], NoDoc}
    PROVE  UninstallCopies'
  BY DEF UninstallCopies

LEMMA UninstallCopiesStep ==
    ASSUME TypeInv, UninstallCopies, [Next]_vars
    PROVE  UninstallCopies'
  <1> USE ConstantsAssumption, NoDocAssumption
  <1>1. ASSUME NEW r \in Requests, NEW d, NEW a,
               NEW next \in {"handshake", "patch", "update_checks", "deact_check", "confirm"},
               Take(r, d, a, next)
        PROVE  UninstallCopies'
    <2>1. \A q \in Requests \ {r} : pc'[q] = pc[q] /\ held'[q] = held[q]
      BY <1>1 DEF Take, TypeInv, TypeOK
    <2>2. pc'[r] \notin UninstallStates
      BY <1>1 DEF Take, TypeInv, TypeOK, UninstallStates
    <2>3. QED
      BY <2>1, <2>2, UninstallCopiesKept
  <1>2. ASSUME NEW r \in Requests, Finish(r)
        PROVE  UninstallCopies'
    <2>1. \A q \in Requests \ {r} : pc'[q] = pc[q] /\ held'[q] = held[q]
      BY <1>2 DEF Finish, TypeInv, TypeOK
    <2>2. pc'[r] \notin UninstallStates
      BY <1>2 DEF Finish, TypeInv, TypeOK, UninstallStates
    <2>3. QED
      BY <2>1, <2>2, UninstallCopiesKept
  <1>3. ASSUME NEW r \in Requests, StoreAndFinish(r)
        PROVE  UninstallCopies'
    <2>1. \A q \in Requests \ {r} : pc'[q] = pc[q] /\ held'[q] = held[q]
      BY <1>3 DEF StoreAndFinish, TypeInv, TypeOK
    <2>2. pc'[r] \notin UninstallStates
      BY <1>3 DEF StoreAndFinish, TypeInv, TypeOK, UninstallStates
    <2>3. QED
      BY <2>1, <2>2, UninstallCopiesKept
  <1>4. ASSUME NEW r \in Requests, NEW a,
               NEW next \in {"update_save", "deact_azure", "deact_failed", "disable"},
               Mutate(r, a, next)
        PROVE  UninstallCopies'
    <2>1. \A q \in Requests \ {r} : pc'[q] = pc[q] /\ held'[q] = held[q]
      BY <1>4 DEF Mutate, TypeInv, TypeOK
    <2>2. pc'[r] \notin UninstallStates
      BY <1>4 DEF Mutate, TypeInv, TypeOK, UninstallStates
    <2>3. QED
      BY <2>1, <2>2, UninstallCopiesKept
  <1>5. ASSUME NEW r \in Requests, Uninstall(r)
        PROVE  UninstallCopies'
    <2>1. \A q \in Requests \ {r} : pc'[q] = pc[q] /\ held'[q] = held[q]
      BY <1>5 DEF Uninstall, TypeInv, TypeOK
    <2>2. \A d \in Ids : held'[r][d] # NoDoc => ~IsDeleted(held'[r][d])
      BY <1>5 DEF Uninstall, TypeInv, TypeOK
    <2>3. QED
      BY <2>1, <2>2 DEF UninstallCopies
  <1>6. ASSUME NEW r \in Requests, UninstallDelete(r)
        PROVE  UninstallCopies'
    <2>1. ASSUME NEW d \in Ids, held[r][d] # NoDoc,
                 held' = [held EXCEPT ![r][d] = Deactivated(@)],
                 pc' = [pc EXCEPT ![r] = "uninst_save"]
          PROVE  UninstallCopies'
      <3>1. held[r][d] \in Doc /\ pc[r] \in UninstallStates
        BY <1>6, <2>1 DEF UninstallDelete, UninstallStates, TypeInv, TypeOK
      <3>2. ~IsDeleted(Deactivated(held[r][d]))
        BY <3>1 DEF IsDeleted, Deactivated, WithStatus, Doc
      <3>3. \A e \in Ids : held'[r][e] = IF e = d THEN Deactivated(held[r][d]) ELSE held[r][e]
        BY <2>1 DEF TypeInv, TypeOK
      <3>4. \A q \in Requests \ {r} : pc'[q] = pc[q] /\ held'[q] = held[q]
        BY <2>1 DEF TypeInv, TypeOK
      <3>5. QED
        BY <3>1, <3>2, <3>3, <3>4 DEF UninstallCopies
    <2>2. QED
      BY <1>2, <1>6, <2>1 DEF UninstallDelete
  <1>7. ASSUME NEW r \in Requests, UninstallSave(r) \/ UninstallDisable(r)
        PROVE  UninstallCopies'
    <2>1. ASSUME NEW a \in {Copy(r), NoDoc}, NEW next, Mutate(r, a, next)
          PROVE  UninstallCopies'
      <3>1. \A q \in Requests \ {r} : pc'[q] = pc[q] /\ held'[q] = held[q]
        BY <2>1 DEF Mutate, TypeInv, TypeOK
      <3>2. \A d \in Ids : held'[r][d] \in {held[r][d], NoDoc}
        BY <2>1 DEF Mutate, Copy, TypeInv, TypeOK
      <3>3. pc[r] \in UninstallStates
        BY <1>7 DEF UninstallSave, UninstallDisable, UninstallStates
      <3>4. QED
        BY <3>1, <3>2, <3>3, UninstallCopiesKept
    <2>2. QED
      BY <1>2, <1>7, <2>1 DEF UninstallSave, UninstallDisable
  <1>8. CASE UNCHANGED <<pc, held>>
    BY <1>8 DEF UninstallCopies
  <1>9. ASSUME NEW r \in Requests, Arrive(r)
        PROVE  UninstallCopies'
    BY <1>1, <1>5, <1>9 DEF Arrive, Handshake, HandshakeKnown, HandshakeFirst, Patch,
       RequestUpdate, Deactivate, Confirm
  <1>10. ASSUME NEW r \in Requests, Proceed(r) \/ Reject(r) \/ Abort(r)
         PROVE  UninstallCopies'
    <2>1. CASE UpdateSettings(r) \/ DeactivateSave(r) \/ DeactivateAzure(r)
               \/ DeactivateFailedSave(r) \/ ConfirmSave(r)
      BY <1>4, <2>1 DEF UpdateSettings, DeactivateSave, DeactivateAzure,
         DeactivateFailedSave, ConfirmSave
    <2>2. CASE HandshakeSave(r) \/ PatchSave(r) \/ UpdateSave(r)
      BY <1>3, <2>2 DEF HandshakeSave, PatchSave, UpdateSave
    <2>3. CASE Disable(r) \/ Reject(r) \/ Abort(r)
      BY <1>2, <2>3 DEF Disable, Reject, Abort
    <2>4. QED
      BY <1>6, <1>7, <1>10, <2>1, <2>2, <2>3 DEF Proceed
  <1>11. QED
    BY <1>8, <1>9, <1>10 DEF Next, CheckResourceGroup, EnableSchedule, Azure,
       FunctionAppRestart, RgGone, RgDeletionFails, request, vars

----------------------------------------------------------------------------
(* Deletion stamps.                                                        *)

(* A document stamped on a caller's word stays one, and a resource group   *)
(* that is gone stays gone.                                                *)
LEMMA TrustStays ==
    ASSUME [Next]_vars
    PROVE  trusted \subseteq trusted'
  <1> USE DEF frontend
  <1>1. ASSUME NEW r \in Requests, NEW d \in Ids, Confirm(r, d)
        PROVE  trusted \subseteq trusted'
    BY <1>1 DEF Confirm
  <1>2. CASE UNCHANGED trusted
    BY <1>2
  <1>3. QED
    BY <1>1, <1>2
       DEF Next, Arrive, Proceed, Handshake, Patch, RequestUpdate, Deactivate,
           Uninstall, HandshakeSave, PatchSave, ConfirmSave, Disable, UpdateSettings,
           UpdateSave, DeactivateSave, DeactivateAzure, DeactivateFailedSave,
           UninstallDelete, UninstallSave, UninstallDisable, Reject, Abort,
           CheckResourceGroup, EnableSchedule, Azure, FunctionAppRestart, RgGone,
           RgDeletionFails, vars

LEMMA GoneStays ==
    ASSUME TypeInv, [Next]_vars, NEW c \in Clients, rg[c] = "gone"
    PROVE  rg'[c] = "gone"
  <1>1. ASSUME NEW e \in Ids, RequestRgDeletion(ClientOf[e])
        PROVE  rg'[c] = "gone"
    BY <1>1, ConstantsAssumption DEF RequestRgDeletion, TypeInv, TypeOK
  <1>2. ASSUME NEW r \in Requests, DeactivateAzure(r)
        PROVE  rg'[c] = "gone"
    <2>1. target[r] \in Ids
      BY <1>2 DEF TypeInv, WorkingOn, DeactivateAzure
    <2>2. QED
      BY <1>1, <1>2, <2>1 DEF DeactivateAzure
  <1>3. ASSUME NEW r \in Requests, UninstallDelete(r)
        PROVE  rg'[c] = "gone"
    BY <1>1, <1>3 DEF UninstallDelete
  <1>4. ASSUME NEW e \in Clients, Azure(e)
        PROVE  rg'[c] = "gone"
    BY <1>4 DEF Azure, FunctionAppRestart, RgGone, RgDeletionFails, TypeInv, TypeOK
  <1>5. CASE UNCHANGED rg
    BY <1>5
  <1>6. QED
    BY <1>2, <1>3, <1>4, <1>5
       DEF Next, Arrive, Proceed, Handshake, Patch, RequestUpdate, Deactivate, Confirm,
           Uninstall, HandshakeSave, PatchSave, ConfirmSave, Disable, UpdateSettings,
           UpdateSave, DeactivateSave, DeactivateFailedSave, UninstallSave,
           UninstallDisable, Reject, Abort, CheckResourceGroup, EnableSchedule,
           azure, vars

LEMMA VouchedStays ==
    ASSUME TypeInv, [Next]_vars, NEW d \in Ids, Vouched(d)
    PROVE  Vouched(d)'
  BY TrustStays, GoneStays, ConstantsAssumption DEF Vouched

(* Stamps after a step that changes no document and only request r: its    *)
(* new copies have to be sound.                                            *)
LEMMA StampsKept ==
    ASSUME TypeInv, Stamps, [Next]_vars, UNCHANGED <<agents, seenGone>>,
           NEW r \in Requests,
           \A q \in Requests \ {r} : held'[q] = held[q],
           \A d \in Ids : \/ ~Deleted(held'[r][d])
                          \/ held'[r][d] = held[r][d]
                          \/ held'[r][d] = agents[d]
                          \/ IsDeleted(held'[r][d]) /\ Vouched(d)'
    PROVE  Stamps'
  <1>1. \A d \in Ids : Vouched(d) => Vouched(d)'
    BY VouchedStays
  <1>2. \A q \in Requests, d \in Ids : Sound(d, held[q][d])'
    <2>1. TAKE q \in Requests, d \in Ids
    <2>2. Sound(d, held[q][d])
      BY DEF Stamps
    <2>3. CASE q = r
      BY <1>1, <2>2, <2>3 DEF Stamps, Sound
    <2>4. CASE q # r
      BY <1>1, <2>2, <2>4 DEF Sound
    <2>5. QED
      BY <2>3, <2>4
  <1>3. \A d \in Ids : Sound(d, agents[d])'
    BY <1>1 DEF Stamps, Sound
  <1>4. \A d \in seenGone' : rg'[ClientOf[d]] = "gone"
    BY GoneStays, ConstantsAssumption DEF Stamps, TypeInv, TypeOK
  <1>5. QED
    BY <1>2, <1>3, <1>4 DEF Stamps

(* The same after an upsert of document d.                                 *)
LEMMA StampsStored ==
    ASSUME TypeInv, Stamps, UNCHANGED <<rg, frontend>>,
           NEW d \in Ids, NEW a \in Doc, Sound(d, a),
           agents' = [agents EXCEPT ![d] = a],
           \A q \in Requests, e \in Ids : held'[q][e] \in {held[q][e], agents'[e], NoDoc}
    PROVE  Stamps'
  <1> USE DEF frontend
  <1>1. \A e \in Ids : Sound(e, agents[e])'
    BY DEF Stamps, Sound, Vouched, TypeInv, TypeOK
  <1>2. \A q \in Requests, e \in Ids : Sound(e, held[q][e])'
    <2>1. TAKE q \in Requests, e \in Ids
    <2>2. Sound(e, held[q][e])
      BY DEF Stamps
    <2>3. QED
      BY <1>1, <2>2 DEF Sound, Vouched, Deleted
  <1>3. QED
    BY <1>1, <1>2 DEF Stamps

(* No entity method but confirm_deletion touches the stamp.                *)
LEMMA EntityStamps ==
    ASSUME NEW a \in Doc
    PROVE  /\ \A s \in AgentStatus : WithStatus(a, s).deletedAt = a.deletedAt
           /\ Deactivated(a).deletedAt = a.deletedAt
           /\ \A v \in Versions : Handshaken(a, v).deletedAt = a.deletedAt
           /\ \A v : NewAgent(v).deletedAt = FALSE
           /\ IsDeleted(ConfirmDeletion(a))
  BY DEF Doc, WithStatus, Deactivated, Handshaken, Activate, NewAgent, IsDeleted,
     ConfirmDeletion, AgentStatus

LEMMA StampsStep ==
    ASSUME TypeInv, CopyGuards, Stamps, [Next]_vars
    PROVE  Stamps'
  <1> USE ConstantsAssumption, NoDocAssumption DEF frontend
  <1>1. ASSUME NEW r \in Requests, NEW d \in Ids, NEW a \in Doc, NEW next,
               Take(r, d, a, next), UNCHANGED <<agents, seenGone>>,
               \/ ~Deleted(a)
               \/ a = agents[d]
               \/ IsDeleted(a) /\ Vouched(d)'
        PROVE  Stamps'
    <2>1. \A q \in Requests \ {r} : held'[q] = held[q]
      BY <1>1 DEF Take, TypeInv, TypeOK
    <2>2. \A e \in Ids : held'[r][e] = IF e = d THEN a ELSE NoDoc
      BY <1>1 DEF Take, TypeInv, TypeOK, Nothing
    <2>3. QED
      BY <1>1, <2>1, <2>2, StampsKept DEF Deleted
  <1>2. ASSUME NEW r \in Requests, NEW c \in Clients, Handshake(r, c)
        PROVE  Stamps'
    <2>1. ASSUME NEW d \in Ids, agents[d] # NoDoc, CanDeactivate(agents[d]),
                 Take(r, d, Handshaken(agents[d], running[c]), "handshake")
          PROVE  Stamps'
      <3>1. agents[d] \in Doc /\ running[c] \in Versions
        BY <2>1 DEF TypeInv, TypeOK
      <3>2. ~agents[d].deletedAt
        BY <2>1 DEF Stamps, Sound, Deleted, CanDeactivate, IsDeleted
      <3>3. Handshaken(agents[d], running[c]) \in Doc
        BY <3>1, EntityTypes
      <3>4. ~Deleted(Handshaken(agents[d], running[c]))
        BY <3>1, <3>2 DEF Deleted, Handshaken, Activate, WithStatus, Doc
      <3>5. QED
        BY <1>1, <1>2, <2>1, <3>3, <3>4 DEF Handshake
    <2>2. ASSUME NEW d \in Ids, Take(r, d, NewAgent(running[c]), "handshake")
          PROVE  Stamps'
      <3>1. NewAgent(running[c]) \in Doc /\ ~Deleted(NewAgent(running[c]))
        BY DEF TypeInv, TypeOK, NewAgent, Doc, AgentStatus, Deleted
      <3>2. QED
        BY <1>1, <1>2, <2>2, <3>1 DEF Handshake
    <2>3. QED
      BY <1>2, <2>1, <2>2 DEF Handshake, HandshakeKnown, HandshakeFirst, FirstFor,
         StoredFor, Stored
  <1>3. ASSUME NEW r \in Requests, NEW d \in Ids, Patch(r, d)
        PROVE  Stamps'
    <2>1. PICK s \in PatchStatuses \union {agents[d].status} :
              Take(r, d, WithStatus(agents[d], s), "patch")
      BY <1>3 DEF Patch
    <2>2. agents[d] \in Doc /\ s \in AgentStatus
      BY <1>3 DEF Patch, Stored, TypeInv, TypeOK, Doc
    <2>3. ~agents[d].deletedAt
      BY <1>3, <2>2 DEF Patch, Stored, Stamps, Sound, Deleted
    <2>4. WithStatus(agents[d], s) \in Doc /\ ~Deleted(WithStatus(agents[d], s))
      BY <2>2, <2>3, EntityStamps DEF Deleted, WithStatus, Doc
    <2>5. QED
      BY <1>1, <1>3, <2>1, <2>4 DEF Patch
  <1>4. ASSUME NEW r \in Requests, NEW d \in Ids, RequestUpdate(r, d) \/ Deactivate(r, d)
        PROVE  Stamps'
    <2>1. agents[d] \in Doc
      BY <1>4 DEF RequestUpdate, Deactivate, Stored, TypeInv, TypeOK
    <2>2. QED
      BY <1>1, <1>4, <2>1 DEF RequestUpdate, Deactivate
  <1>5. ASSUME NEW r \in Requests, NEW d \in Ids, Confirm(r, d)
        PROVE  Stamps'
    <2>1. agents[d] \in Doc
      BY <1>5 DEF Confirm, Stored, TypeInv, TypeOK
    <2>2. ~IsDeleted(agents[d]) => Vouched(d)'
      <3>1. CASE d \in seenGone
        BY <1>5, <3>1 DEF Stamps, Vouched, Confirm, azure
      <3>2. CASE d \notin seenGone
        BY <1>5, <3>2 DEF Vouched, Confirm
      <3>3. QED
        BY <3>1, <3>2
    <2>3. ConfirmDeletion(agents[d]) \in Doc /\ IsDeleted(ConfirmDeletion(agents[d]))
      BY <2>1 DEF ConfirmDeletion, Doc, AgentStatus, IsDeleted
    <2>4. QED
      BY <1>1, <1>5, <2>1, <2>2, <2>3 DEF Confirm
  <1>6. ASSUME NEW r \in Requests, Uninstall(r)
        PROVE  Stamps'
    <2>1. \A d \in Ids : held'[r][d] \in {agents[d], NoDoc}
      BY <1>6 DEF Uninstall, TypeInv, TypeOK
    <2>2. \A q \in Requests \ {r} : held'[q] = held[q]
      BY <1>6 DEF Uninstall, TypeInv, TypeOK
    <2>3. QED
      BY <1>6, <2>1, <2>2, StampsKept DEF Uninstall, Deleted
  <1>7. ASSUME NEW r \in Requests,
               HandshakeSave(r) \/ PatchSave(r) \/ UpdateSave(r)
        PROVE  Stamps'
    <2>1. target[r] \in Ids /\ Copy(r) \in Doc
      BY <1>7 DEF HandshakeSave, PatchSave, UpdateSave, TypeInv, WorkingOn
    <2>2. Sound(target[r], Copy(r))
      BY <2>1 DEF Stamps, Copy
    <2>3. /\ agents' = [agents EXCEPT ![target[r]] = Copy(r)]
          /\ held' = [held EXCEPT ![r] = Nothing]
          /\ UNCHANGED <<rg, frontend>>
      BY <1>7 DEF HandshakeSave, PatchSave, UpdateSave, StoreAndFinish, Copy, azure
    <2>4. \A q \in Requests, e \in Ids : held'[q][e] \in {held[q][e], agents'[e], NoDoc}
      BY <2>3 DEF TypeInv, TypeOK, Nothing
    <2>5. QED
      BY <2>1, <2>2, <2>3, <2>4, StampsStored
  <1>8. ASSUME NEW r \in Requests, UpdateSettings(r) \/ DeactivateAzure(r)
        PROVE  Stamps'
    <2>1. target[r] \in Ids /\ Copy(r) \in Doc
      BY <1>8 DEF UpdateSettings, DeactivateAzure, TypeInv, WorkingOn
    <2>2. PICK a, next : /\ Mutate(r, a, next)
                         /\ a = Copy(r) \/ \E s \in AgentStatus : a = WithStatus(Copy(r), s)
      BY <1>8 DEF UpdateSettings, DeactivateAzure, AgentStatus
    <2>3. ~Copy(r).deletedAt
      <3>1. ~IsDeleted(Copy(r))
        BY <1>8 DEF CopyGuards, UpdateSettings, DeactivateAzure, IsDeleted
      <3>2. QED
        BY <2>1, <3>1 DEF Stamps, Sound, Deleted, Copy
    <2>4. ~Deleted(a)
      BY <2>1, <2>2, <2>3, EntityStamps DEF Deleted
    <2>5. \A e \in Ids : held'[r][e] = IF e = target[r] THEN a ELSE held[r][e]
      BY <2>1, <2>2 DEF Mutate, TypeInv, TypeOK
    <2>6. \A q \in Requests \ {r} : held'[q] = held[q]
      BY <2>2 DEF Mutate, TypeInv, TypeOK
    <2>7. UNCHANGED <<agents, seenGone>>
      BY <1>8 DEF UpdateSettings, DeactivateAzure
    <2>8. QED
      BY <2>4, <2>5, <2>6, <2>7, StampsKept
  <1>9. ASSUME NEW r \in Requests,
               \/ DeactivateSave(r) \/ DeactivateFailedSave(r)
               \/ ConfirmSave(r) \/ UninstallSave(r)
        PROVE  Stamps'
    <2>1. target[r] \in Ids /\ Copy(r) \in Doc
      BY <1>9 DEF DeactivateSave, DeactivateFailedSave, ConfirmSave, UninstallSave,
         TypeInv, WorkingOn
    <2>2. Sound(target[r], Copy(r))
      BY <2>1 DEF Stamps, Copy
    <2>3. \E a \in Doc : \E next :
              /\ Sound(target[r], a)
              /\ Store(r, target[r], a)
              /\ Mutate(r, a, next)
      <3>1. CASE DeactivateSave(r)
        <4>1. ~Copy(r).deletedAt
          BY <2>1, <2>2, <3>1 DEF CopyGuards, DeactivateSave, Sound, Deleted,
             CanDeactivate, IsDeleted
        <4>2. Deactivated(Copy(r)) \in Doc /\ ~Deactivated(Copy(r)).deletedAt
          BY <2>1, <4>1 DEF Deactivated, WithStatus, Doc, AgentStatus
        <4>3. QED
          BY <3>1, <4>2 DEF DeactivateSave, Sound, Deleted
      <3>2. CASE ~DeactivateSave(r)
        BY <1>9, <2>1, <2>2, <3>2 DEF DeactivateFailedSave, ConfirmSave, UninstallSave
      <3>3. QED
        BY <3>1, <3>2
    <2>4. ASSUME NEW a \in Doc, NEW next, Sound(target[r], a),
                 Store(r, target[r], a), Mutate(r, a, next)
          PROVE  Stamps'
      <3>1. agents' = [agents EXCEPT ![target[r]] = a] /\ UNCHANGED <<rg, frontend>>
        BY <1>9, <2>4 DEF DeactivateSave, DeactivateFailedSave, ConfirmSave,
           UninstallSave, Store, azure
      <3>2. \A q \in Requests, e \in Ids : held'[q][e] \in {held[q][e], agents'[e], NoDoc}
        BY <2>1, <2>4, <3>1 DEF Mutate, TypeInv, TypeOK
      <3>3. Sound(target[r], a)
        BY <2>4
      <3>4. QED
        BY <2>1, <3>1, <3>2, <3>3, StampsStored
    <2>5. QED
      BY <2>3, <2>4
  <1>10. ASSUME NEW r \in Requests, Finish(r), UNCHANGED <<agents, seenGone>>
         PROVE  Stamps'
    <2>1. \A e \in Ids : held'[r][e] = NoDoc
      BY <1>10 DEF Finish, TypeInv, TypeOK, Nothing
    <2>2. \A q \in Requests \ {r} : held'[q] = held[q]
      BY <1>10 DEF Finish, TypeInv, TypeOK
    <2>3. QED
      BY <1>10, <2>1, <2>2, StampsKept DEF Deleted
  <1>11. ASSUME NEW r \in Requests, UninstallDelete(r)
         PROVE  Stamps'
    <2>1. UNCHANGED <<agents, seenGone>>
      BY <1>11 DEF UninstallDelete
    <2>2. ASSUME NEW d \in Ids, held[r][d] # NoDoc, CanDeactivate(held[r][d]),
                 held' = [held EXCEPT ![r][d] = Deactivated(@)]
          PROVE  Stamps'
      <3>1. held[r][d] \in Doc
        BY <2>2 DEF TypeInv, TypeOK
      <3>2. ~Deactivated(held[r][d]).deletedAt
        BY <2>2, <3>1 DEF Stamps, Sound, Deleted, CanDeactivate, IsDeleted,
           Deactivated, WithStatus, Doc
      <3>3. \A e \in Ids : held'[r][e] = IF e = d THEN Deactivated(held[r][d]) ELSE held[r][e]
        BY <2>2 DEF TypeInv, TypeOK
      <3>4. \A q \in Requests \ {r} : held'[q] = held[q]
        BY <2>2 DEF TypeInv, TypeOK
      <3>5. QED
        BY <2>1, <3>2, <3>3, <3>4, StampsKept DEF Deleted
    <2>3. QED
      BY <1>10, <1>11, <2>1, <2>2 DEF UninstallDelete
  <1>12. ASSUME NEW r \in Requests, UninstallDisable(r)
         PROVE  Stamps'
    <2>1. UNCHANGED <<agents, seenGone>>
      BY <1>12 DEF UninstallDisable
    <2>2. ASSUME Mutate(r, NoDoc, "uninst_loop")
          PROVE  Stamps'
      <3>1. \A e \in Ids : held'[r][e] \in {held[r][e], NoDoc}
        BY <2>2 DEF Mutate, TypeInv, TypeOK
      <3>2. \A q \in Requests \ {r} : held'[q] = held[q]
        BY <2>2 DEF Mutate, TypeInv, TypeOK
      <3>3. QED
        BY <2>1, <3>1, <3>2, StampsKept DEF Deleted
    <2>3. QED
      BY <1>10, <1>12, <2>1, <2>2 DEF UninstallDisable
  <1>13. ASSUME NEW d \in Ids, CheckResourceGroup(d)
         PROVE  Stamps'
    BY <1>13 DEF CheckResourceGroup, RgExists, Stamps, Sound, Vouched, request, azure
  <1>14. ASSUME UNCHANGED <<agents, seenGone, held>>
         PROVE  Stamps'
    <2>1. \A d \in Ids : Vouched(d) => Vouched(d)'
      BY VouchedStays
    <2>2. \A d \in seenGone' : rg'[ClientOf[d]] = "gone"
      BY <1>14, GoneStays DEF Stamps, TypeInv, TypeOK
    <2>3. QED
      BY <1>14, <2>1, <2>2 DEF Stamps, Sound
  <1>15. QED
    BY <1>2, <1>3, <1>4, <1>5, <1>6, <1>7, <1>8, <1>9, <1>10, <1>11, <1>12, <1>13, <1>14
       DEF Next, Arrive, Proceed, Disable, Reject, Abort, EnableSchedule, Azure,
           FunctionAppRestart, RgGone, RgDeletionFails, request, vars

(* StampedOnlyWhenGone: whatever requests interleave, a deletion stamp is  *)
(* only ever on a DELETED document (or copy), and its resource group is    *)
(* gone unless a caller confirmed the deletion without having seen that.   *)
THEOREM DeletionStampSound == Spec => []StampedOnlyWhenGone
  <1>1. Init => TypeInv /\ CopyGuards /\ Stamps
    BY ConstantsAssumption DEF Init, TypeInv, TypeOK, WorkingOn, Nothing, HandlerStates,
       CopyGuards, Stamps, Sound, Deleted
  <1>2. TypeInv /\ CopyGuards /\ Stamps /\ [Next]_vars => (TypeInv /\ CopyGuards /\ Stamps)'
    BY TypeStep, GuardsStep, StampsStep
  <1>3. Stamps => StampedOnlyWhenGone
    BY DEF Stamps, Sound, Vouched, StampedOnlyWhenGone
  <1>4. QED
    BY <1>1, <1>2, <1>3, PTL DEF Spec

----------------------------------------------------------------------------
(* Copies that are not out of date.                                        *)

Others(r) ==     \* the step leaves every other request's own state alone
    \A q \in Requests \ {r} :
        /\ pc'[q] = pc[q]
        /\ target'[q] = target[q]
        /\ held'[q] = held[q]

(* A step of r that writes no document.                                    *)
LEMMA FreshKept ==
    ASSUME TypeInv, FreshCopies, UNCHANGED agents, NEW r \in Requests, Others(r),
           \A q \in Requests \ {r} : stale'[q] = stale[q],
           \A e \in Ids : held'[r][e] # NoDoc /\ e \notin stale'[r]
               => IF Pending(r, e)' THEN OneMove(e, held'[r][e])
                                    ELSE agents[e] = held'[r][e]
    PROVE  FreshCopies'
  <1>1. SUFFICES ASSUME NEW q \in Requests, NEW e \in Ids,
                        held'[q][e] # NoDoc, e \notin stale'[q]
                 PROVE  IF Pending(q, e)' THEN OneMove(e, held[q][e])'
                                          ELSE agents'[e] = held'[q][e]
    BY DEF FreshCopies
  <1>2. \A a : OneMove(e, a) => OneMove(e, a)'
    BY DEF OneMove, StatusOf, StoredFor, Stored
  <1>3. CASE q = r
    BY <1>1, <1>3 DEF OneMove, StatusOf, StoredFor, Stored
  <1>4. CASE q # r
    <2>1. /\ pc'[q] = pc[q] /\ target'[q] = target[q]
          /\ held'[q] = held[q] /\ stale'[q] = stale[q]
      BY <1>4 DEF Others
    <2>2. IF Pending(q, e) THEN OneMove(e, held[q][e]) ELSE agents[e] = held[q][e]
      BY <1>1, <2>1 DEF FreshCopies
    <2>3. QED
      BY <2>1, <2>2 DEF Pending, OneMove, StatusOf, StoredFor, Stored
  <1>5. QED
    BY <1>3, <1>4

(* An upsert of document d by r marks every copy it makes out of date.     *)
LEMMA FreshStored ==
    ASSUME TypeInv, FreshCopies, NEW r \in Requests, Others(r),
           NEW d \in Ids, NEW a \in Doc,
           agents' = [agents EXCEPT ![d] = a],
           \A q \in Requests \ {r} : stale'[q] = stale[q] \union Outdated(q, d),
           \A e \in Ids : held'[r][e] # NoDoc /\ e \notin stale'[r]
               => ~Pending(r, e)' /\ agents'[e] = held'[r][e]
    PROVE  FreshCopies'
  <1>1. SUFFICES ASSUME NEW q \in Requests, NEW e \in Ids,
                        held'[q][e] # NoDoc, e \notin stale'[q]
                 PROVE  IF Pending(q, e)' THEN OneMove(e, held[q][e])'
                                          ELSE agents'[e] = held'[q][e]
    BY DEF FreshCopies
  <1>2. CASE q = r
    BY <1>1, <1>2
  <1>3. CASE q # r
    <2>1. /\ pc'[q] = pc[q] /\ target'[q] = target[q] /\ held'[q] = held[q]
          /\ e \notin stale[q] /\ e \notin Outdated(q, d)
      BY <1>1, <1>3 DEF Others
    <2>2. e # d /\ (agents[e] = NoDoc => ClientOf[e] # ClientOf[d])
      BY <1>1, <2>1 DEF Outdated
    <2>3. agents'[e] = agents[e]
      BY <2>2 DEF TypeInv, TypeOK
    <2>4. agents[e] = NoDoc /\ StoredFor(ClientOf[e]) = {} => StoredFor(ClientOf[e])' = {}
      BY <2>2 DEF StoredFor, Stored, TypeInv, TypeOK
    <2>5. IF Pending(q, e) THEN OneMove(e, held[q][e]) ELSE agents[e] = held[q][e]
      BY <1>1, <2>1 DEF FreshCopies
    <2>6. QED
      BY <2>1, <2>3, <2>4, <2>5 DEF Pending, OneMove, StatusOf
  <1>4. QED
    BY <1>2, <1>3

LEMMA FreshTake ==
    ASSUME TypeInv, FreshCopies, UNCHANGED agents,
           NEW r \in Requests, NEW d \in Ids, NEW a, NEW next, Take(r, d, a, next),
           IF next \in PendingStates THEN OneMove(d, a) ELSE agents[d] = a
    PROVE  FreshCopies'
  <1>1. Others(r) /\ \A q \in Requests \ {r} : stale'[q] = stale[q]
    BY DEF Take, Others, TypeInv, TypeOK
  <1>2. pc'[r] = next /\ target'[r] = d
    BY DEF Take, TypeInv, TypeOK
  <1>3. \A e \in Ids : held'[r][e] = IF e = d THEN a ELSE NoDoc
    BY DEF Take, TypeInv, TypeOK, Nothing
  <1>4. QED
    BY <1>1, <1>2, <1>3, FreshKept DEF Pending

LEMMA FreshFinish ==
    ASSUME TypeInv, FreshCopies, UNCHANGED agents, NEW r \in Requests, Finish(r)
    PROVE  FreshCopies'
  <1>1. Others(r) /\ \A q \in Requests \ {r} : stale'[q] = stale[q]
    BY DEF Finish, Others, TypeInv, TypeOK
  <1>2. \A e \in Ids : held'[r][e] = NoDoc
    BY DEF Finish, TypeInv, TypeOK, Nothing
  <1>3. QED
    BY <1>1, <1>2, FreshKept

(* A mutation with no upsert: the new copy of the target is one move away  *)
(* when it is to be written next, otherwise it is the document itself.     *)
LEMMA FreshMutate ==
    ASSUME TypeInv, FreshCopies, UNCHANGED <<agents, target, stale>>,
           NEW r \in Requests, target[r] \in Ids, pc[r] \notin PendingStates,
           NEW a, NEW next, Mutate(r, a, next),
           a # NoDoc /\ target[r] \notin stale[r] =>
               IF next \in PendingStates THEN OneMove(target[r], a)
                                         ELSE agents[target[r]] = a
    PROVE  FreshCopies'
  <1>1. Others(r) /\ \A q \in Requests \ {r} : stale'[q] = stale[q]
    BY DEF Mutate, Others, TypeInv, TypeOK
  <1>2. pc'[r] = next
    BY DEF Mutate, TypeInv, TypeOK
  <1>3. \A e \in Ids : held'[r][e] = IF e = target[r] THEN a ELSE held[r][e]
    BY DEF Mutate, TypeInv, TypeOK
  <1>4. \A e \in Ids \ {target[r]} :
            held[r][e] # NoDoc /\ e \notin stale[r] => agents[e] = held[r][e]
    BY DEF FreshCopies, Pending
  <1>5. QED
    BY <1>1, <1>2, <1>3, <1>4, FreshKept DEF Pending

LEMMA FreshStep ==
    ASSUME TypeInv, CopyGuards, FreshCopies, [Next]_vars
    PROVE  FreshCopies'
  <1> USE ConstantsAssumption, NoDocAssumption
  <1>1. ASSUME NEW r \in Requests, NEW c \in Clients, Handshake(r, c)
        PROVE  FreshCopies'
    <2>1. ASSUME NEW d \in Ids, agents[d] # NoDoc, CanDeactivate(agents[d]),
                 Take(r, d, Handshaken(agents[d], running[c]), "handshake")
          PROVE  FreshCopies'
      <3>1. agents[d] \in Doc
        BY <2>1 DEF TypeInv, TypeOK
      <3>2. OneMove(d, Handshaken(agents[d], running[c]))
        BY <2>1, <3>1 DEF OneMove, StatusOf, Handshaken, Activate, WithStatus, Doc,
           Machine!Allowed, Machine!ByHandshake
      <3>3. QED
        BY <1>1, <2>1, <3>2, FreshTake DEF Handshake, PendingStates
    <2>2. ASSUME NEW d \in Ids, agents[d] = NoDoc, StoredFor(ClientOf[d]) = {},
                 Take(r, d, NewAgent(running[c]), "handshake")
          PROVE  FreshCopies'
      <3>1. OneMove(d, NewAgent(running[c]))
        BY <2>2 DEF OneMove, StatusOf, NewAgent, Machine!Allowed, Machine!ByHandshake
      <3>2. QED
        BY <1>1, <2>2, <3>1, FreshTake DEF Handshake, PendingStates
    <2>3. QED
      BY <1>1, <2>1, <2>2 DEF Handshake, HandshakeKnown, HandshakeFirst, FirstFor,
         StoredFor, Stored, Fresh
  <1>2. ASSUME NEW r \in Requests, NEW d \in Ids, Patch(r, d)
        PROVE  FreshCopies'
    <2>1. PICK s \in PatchStatuses \union {agents[d].status} :
              Take(r, d, WithStatus(agents[d], s), "patch")
      BY <1>2 DEF Patch
    <2>2. agents[d] \in Doc /\ agents[d] # NoDoc /\ agents[d].status # "DELETED"
      BY <1>2 DEF Patch, Stored, TypeInv, TypeOK, IsDeleted
    <2>3. OneMove(d, WithStatus(agents[d], s))
      BY <2>2 DEF OneMove, StatusOf, WithStatus, Doc, AgentStatus, Machine!Allowed,
         Machine!ByPatch
    <2>4. QED
      BY <1>2, <2>1, <2>3, FreshTake DEF Patch, PendingStates
  <1>3. ASSUME NEW r \in Requests, NEW d \in Ids, RequestUpdate(r, d) \/ Deactivate(r, d)
        PROVE  FreshCopies'
    BY <1>3, FreshTake DEF RequestUpdate, Deactivate, PendingStates
  <1>4. ASSUME NEW r \in Requests, NEW d \in Ids, Confirm(r, d)
        PROVE  FreshCopies'
    <2>1. agents[d] \in Doc /\ agents[d] # NoDoc /\ CanConfirm(agents[d])
      BY <1>4 DEF Confirm, Stored, TypeInv, TypeOK
    <2>2. OneMove(d, IF IsDeleted(agents[d]) THEN agents[d] ELSE ConfirmDeletion(agents[d]))
      BY <2>1 DEF OneMove, StatusOf, ConfirmDeletion, CanConfirm, IsDeleted, Doc,
         Machine!Allowed, Machine!ByDeactivation
    <2>3. QED
      BY <1>4, <2>2, FreshTake DEF Confirm, PendingStates
  <1>5. ASSUME NEW r \in Requests, Uninstall(r)
        PROVE  FreshCopies'
    <2>1. Others(r) /\ \A q \in Requests \ {r} : stale'[q] = stale[q]
      BY <1>5 DEF Uninstall, Others, TypeInv, TypeOK
    <2>2. pc'[r] \notin PendingStates
      BY <1>5 DEF Uninstall, TypeInv, TypeOK, PendingStates
    <2>3. \A e \in Ids : held'[r][e] # NoDoc => held'[r][e] = agents[e]
      BY <1>5 DEF Uninstall, TypeInv, TypeOK
    <2>4. QED
      BY <1>5, <2>1, <2>2, <2>3, FreshKept DEF Uninstall, Pending
  <1>6. ASSUME NEW r \in Requests, HandshakeSave(r) \/ PatchSave(r) \/ UpdateSave(r)
        PROVE  FreshCopies'
    <2>1. target[r] \in Ids /\ Copy(r) \in Doc /\ StoreAndFinish(r)
      BY <1>6 DEF HandshakeSave, PatchSave, UpdateSave, TypeInv, WorkingOn
    <2>2. Others(r)
      BY <2>1 DEF StoreAndFinish, Others, TypeInv, TypeOK
    <2>3. \A q \in Requests \ {r} : stale'[q] = stale[q] \union Outdated(q, target[r])
      BY <2>1 DEF StoreAndFinish
    <2>4. \A e \in Ids : held'[r][e] = NoDoc
      BY <2>1 DEF StoreAndFinish, Nothing, TypeInv, TypeOK
    <2>5. agents' = [agents EXCEPT ![target[r]] = Copy(r)]
      BY <2>1 DEF StoreAndFinish, Copy
    <2>6. QED
      BY <2>1, <2>2, <2>3, <2>4, <2>5, FreshStored
  <1>7. ASSUME NEW r \in Requests, UpdateSettings(r)
        PROVE  FreshCopies'
    <2>1. target[r] \in Ids /\ Copy(r) \in Doc /\ Copy(r).status # "DELETED"
      BY <1>7 DEF UpdateSettings, TypeInv, WorkingOn, CopyGuards, IsDeleted
    <2>2. PICK s \in {"UPDATING", "UPDATING_FAILED"} :
              Mutate(r, WithStatus(Copy(r), s), "update_save")
      BY <1>7 DEF UpdateSettings
    <2>3. target[r] \notin stale[r] => agents[target[r]] = Copy(r)
      BY <1>7, <2>1 DEF FreshCopies, Copy, Pending, PendingStates, UpdateSettings
    <2>4. target[r] \notin stale[r] => OneMove(target[r], WithStatus(Copy(r), s))
      BY <2>1, <2>3 DEF OneMove, StatusOf, WithStatus, Doc, AgentStatus,
         Machine!Allowed, Machine!ByUpdate
    <2>5. QED
      BY <1>7, <2>1, <2>2, <2>4, FreshMutate DEF UpdateSettings, PendingStates
  <1>8. ASSUME NEW r \in Requests, DeactivateAzure(r)
        PROVE  FreshCopies'
    <2>1. /\ target[r] \in Ids /\ Copy(r) \in Doc /\ Copy(r).status = "DEACTIVATING"
      BY <1>8 DEF DeactivateAzure, TypeInv, WorkingOn, CopyGuards
    <2>2. target[r] \notin stale[r] => agents[target[r]] = Copy(r)
      BY <1>8, <2>1 DEF FreshCopies, Copy, Pending, PendingStates, DeactivateAzure
    <2>3. target[r] \notin stale[r]
              => OneMove(target[r], WithStatus(Copy(r), "DEACTIVATE_FAILED"))
      BY <2>1, <2>2 DEF OneMove, StatusOf, WithStatus, Doc, Machine!Allowed,
         Machine!ByDeactivation
    <2>4. CASE Mutate(r, Copy(r), "disable")
      BY <1>8, <2>1, <2>2, <2>4, FreshMutate DEF DeactivateAzure, PendingStates
    <2>5. CASE Mutate(r, WithStatus(Copy(r), "DEACTIVATE_FAILED"), "deact_failed")
      BY <1>8, <2>1, <2>3, <2>5, FreshMutate DEF DeactivateAzure, PendingStates
    <2>6. QED
      BY <1>8, <2>4, <2>5 DEF DeactivateAzure
  <1>9. ASSUME NEW r \in Requests, NEW a \in Doc, NEW next \in HandlerStates \ PendingStates,
               target[r] \in Ids, Store(r, target[r], a), Mutate(r, a, next),
               UNCHANGED target
        PROVE  FreshCopies'
    <2>1. Others(r)
      BY <1>9 DEF Mutate, Others, TypeInv, TypeOK
    <2>2. /\ agents' = [agents EXCEPT ![target[r]] = a]
          /\ \A q \in Requests \ {r} : stale'[q] = stale[q] \union Outdated(q, target[r])
          /\ stale'[r] = stale[r] \ {target[r]}
      BY <1>9 DEF Store
    <2>3. pc'[r] = next
      BY <1>9 DEF Mutate, TypeInv, TypeOK
    <2>4. \A e \in Ids : held'[r][e] = IF e = target[r] THEN a ELSE held[r][e]
      BY <1>9 DEF Mutate, TypeInv, TypeOK
    <2>5. \A e \in Ids : held'[r][e] # NoDoc /\ e \notin stale'[r]
                             => ~Pending(r, e)' /\ agents'[e] = held'[r][e]
      <3>1. \A e \in Ids \ {target[r]} :
                held[r][e] # NoDoc /\ e \notin stale[r] => agents[e] = held[r][e]
        BY DEF FreshCopies, Pending
      <3>2. QED
        BY <1>9, <2>2, <2>3, <2>4, <3>1 DEF Pending, TypeInv, TypeOK
    <2>6. QED
      BY <1>9, <2>1, <2>2, <2>5, FreshStored
  <1>10. ASSUME NEW r \in Requests,
                \/ DeactivateSave(r) \/ DeactivateFailedSave(r)
                \/ ConfirmSave(r) \/ UninstallSave(r)
         PROVE  FreshCopies'
    <2>1. target[r] \in Ids /\ Copy(r) \in Doc /\ UNCHANGED target
      BY <1>10 DEF DeactivateSave, DeactivateFailedSave, ConfirmSave, UninstallSave,
         TypeInv, WorkingOn
    <2>2. Deactivated(Copy(r)) \in Doc
      BY <2>1 DEF Deactivated, WithStatus, Doc, AgentStatus
    <2>3. QED
      BY <1>9, <1>10, <2>1, <2>2 DEF DeactivateSave, DeactivateFailedSave, ConfirmSave,
         UninstallSave, HandlerStates, PendingStates
  <1>11. ASSUME NEW r \in Requests, UninstallDelete(r)
         PROVE  FreshCopies'
    <2>1. ASSUME NEW d \in Ids, held[r][d] # NoDoc, CanDeactivate(held[r][d]),
                 target' = [target EXCEPT ![r] = d],
                 held' = [held EXCEPT ![r][d] = Deactivated(@)],
                 pc' = [pc EXCEPT ![r] = "uninst_save"],
                 UNCHANGED <<agents, stale>>
          PROVE  FreshCopies'
      <3>1. Others(r) /\ \A q \in Requests \ {r} : stale'[q] = stale[q]
        BY <2>1 DEF Others, TypeInv, TypeOK
      <3>2. target'[r] = d /\ pc'[r] = "uninst_save"
        BY <2>1 DEF TypeInv, TypeOK
      <3>3. \A e \in Ids : held'[r][e] = IF e = d THEN Deactivated(held[r][d]) ELSE held[r][e]
        BY <2>1 DEF TypeInv, TypeOK
      <3>4. pc[r] \notin PendingStates
        BY <1>11 DEF UninstallDelete, PendingStates
      <3>5. \A e \in Ids : held[r][e] # NoDoc /\ e \notin stale[r] => agents[e] = held[r][e]
        BY <3>4 DEF FreshCopies, Pending
      <3>6. held[r][d] \in Doc
        BY <2>1 DEF TypeInv, TypeOK
      <3>7. ASSUME d \notin stale[r]
            PROVE  OneMove(d, Deactivated(held[r][d]))
        <4>1. agents[d] = held[r][d] /\ agents[d] # NoDoc
          BY <2>1, <3>5, <3>7
        <4>2. StatusOf(agents[d]) = held[r][d].status
          BY <4>1 DEF StatusOf
        <4>3. Deactivated(held[r][d]).status = "DEACTIVATING"
          BY <3>6 DEF Deactivated, WithStatus, Doc, AgentStatus
        <4>4. held[r][d].status \in AgentStatus \ {"DEACTIVATING", "DELETED"}
          BY <2>1, <3>6 DEF CanDeactivate, Doc
        <4>5. QED
          BY <4>1, <4>2, <4>3, <4>4 DEF OneMove, AgentStatus, Machine!Allowed,
             Machine!ByDeactivation
      <3>8. QED
        BY <2>1, <3>1, <3>2, <3>3, <3>5, <3>7, FreshKept DEF Pending, PendingStates
    <2>2. UNCHANGED agents
      BY <1>11 DEF UninstallDelete
    <2>3. QED
      BY <1>11, <2>1, <2>2, FreshFinish DEF UninstallDelete
  <1>12. ASSUME NEW r \in Requests, UninstallDisable(r)
         PROVE  FreshCopies'
    <2>1. target[r] \in Ids /\ UNCHANGED agents /\ pc[r] \notin PendingStates
      BY <1>12 DEF UninstallDisable, TypeInv, WorkingOn, PendingStates
    <2>2. CASE Mutate(r, NoDoc, "uninst_loop") /\ UNCHANGED <<target, stale>>
      BY <2>1, <2>2, FreshMutate
    <2>3. QED
      BY <1>12, <2>1, <2>2, FreshFinish DEF UninstallDisable
  <1>13. ASSUME NEW r \in Requests, Disable(r) \/ Reject(r) \/ Abort(r)
         PROVE  FreshCopies'
    BY <1>13, FreshFinish DEF Disable, Reject, Abort
  <1>14. CASE UNCHANGED <<agents, request, stale>>
    BY <1>14 DEF request, FreshCopies, Pending, OneMove, StatusOf, StoredFor, Stored
  <1>15. QED
    BY <1>1, <1>2, <1>3, <1>4, <1>5, <1>6, <1>7, <1>8, <1>10, <1>11, <1>12, <1>13, <1>14
       DEF Next, Arrive, Proceed, CheckResourceGroup, EnableSchedule, Azure,
           FunctionAppRestart, RgGone, RgDeletionFails, vars

LEMMA IInvStep == IInv /\ [Next]_vars => IInv'
  BY TypeStep, GuardsStep, UninstallCopiesStep, StampsStep, FreshStep DEF IInv

LEMMA IInvInit == Init => IInv
  BY ConstantsAssumption DEF Init, IInv, TypeInv, TypeOK, WorkingOn, Nothing, HandlerStates,
     CopyGuards, UninstallCopies, UninstallStates, Stamps, Sound, Deleted, FreshCopies

(* A copy whose upsert is not next and that is not out of date is the      *)
(* stored document.                                                        *)
LEMMA RecordedCopy ==
    ASSUME IInv, NEW r \in Requests, NEW d \in Ids, held[r][d] # NoDoc,
           pc[r] \notin PendingStates, held[r][d].status = "DEACTIVATING"
    PROVE  Recorded(r, d)
  BY NoDocAssumption DEF IInv, FreshCopies, Pending, Recorded, StatusOf

(* DestructionIsRecorded: whatever requests interleave, Azure is asked to  *)
(* delete a resource group only by a deactivation that stored DEACTIVATING *)
(* before, or by an uninstall that stores it next or found it stored.      *)
THEOREM DeletionRecorded == Spec => DestructionIsRecorded
  <1> DEFINE Recording(c) ==
          \E r \in Requests, d \in Ids :
              /\ ClientOf[d] = c
              /\ held[r][d] # NoDoc
              /\ \/ pc[r] = "deact_azure" /\ target[r] = d /\ Recorded(r, d)
                 \/ /\ pc[r] \in {"uninst_token", "uninst_loop"}
                    /\ AboutToRecord(r, d)' \/ (pc'[r] = "idle" /\ Recorded(r, d))
  <1>1. ASSUME IInv, [Next]_vars, NEW c \in Clients, rg[c] = "present", rg'[c] = "deleting"
        PROVE  Recording(c)
    <2> USE ConstantsAssumption, NoDocAssumption
    <2>1. \E r \in Requests : DeactivateAzure(r) \/ UninstallDelete(r)
      BY <1>1
         DEF Next, Arrive, Proceed, Handshake, Patch, RequestUpdate, Deactivate, Confirm,
             Uninstall, HandshakeSave, PatchSave, ConfirmSave, Disable, UpdateSettings,
             UpdateSave, DeactivateSave, DeactivateFailedSave, UninstallSave,
             UninstallDisable, Reject, Abort, CheckResourceGroup, EnableSchedule,
             Azure, FunctionAppRestart, RgGone, RgDeletionFails, azure, vars,
             IInv, TypeInv, TypeOK
    <2>2. ASSUME NEW r \in Requests, DeactivateAzure(r)
          PROVE  Recording(c)
      <3>1. /\ pc[r] = "deact_azure" /\ target[r] \in Ids
            /\ held[r][target[r]] # NoDoc
            /\ held[r][target[r]].status = "DEACTIVATING"
        BY <1>1, <2>2 DEF DeactivateAzure, IInv, TypeInv, WorkingOn, CopyGuards, Copy
      <3>2. ClientOf[target[r]] = c
        BY <1>1, <2>2, <3>1 DEF DeactivateAzure, RequestRgDeletion, IInv, TypeInv, TypeOK
      <3>3. Recorded(r, target[r])
        BY <1>1, <3>1, RecordedCopy DEF PendingStates
      <3>4. QED
        BY <3>1, <3>2, <3>3
    <2>3. ASSUME NEW r \in Requests, UninstallDelete(r)
          PROVE  Recording(c)
      <3>1. PICK d \in Ids :
               /\ held[r][d] # NoDoc
               /\ RequestRgDeletion(ClientOf[d]) \/ UNCHANGED rg
               /\ \/ /\ CanDeactivate(held[r][d])
                     /\ target' = [target EXCEPT ![r] = d]
                     /\ held' = [held EXCEPT ![r][d] = Deactivated(@)]
                     /\ pc' = [pc EXCEPT ![r] = "uninst_save"]
                     /\ UNCHANGED stale
                  \/ /\ ~CanDeactivate(held[r][d])
                     /\ Finish(r)
        BY <2>3 DEF UninstallDelete
      <3>2. pc[r] \in {"uninst_token", "uninst_loop"} /\ held[r][d] \in Doc
        BY <1>1, <2>3, <3>1 DEF UninstallDelete, IInv, TypeInv, TypeOK
      <3>3. ClientOf[d] = c
        BY <1>1, <3>1 DEF RequestRgDeletion, IInv, TypeInv, TypeOK
      <3>4. CASE CanDeactivate(held[r][d])
        <4>1. /\ target' = [target EXCEPT ![r] = d]
              /\ held' = [held EXCEPT ![r][d] = Deactivated(held[r][d])]
              /\ pc' = [pc EXCEPT ![r] = "uninst_save"]
          BY <3>1, <3>4
        <4>2. pc'[r] = "uninst_save" /\ target'[r] = d /\ held'[r][d] = Deactivated(held[r][d])
          BY <1>1, <4>1 DEF IInv, TypeInv, TypeOK
        <4>3. AboutToRecord(r, d)'
          BY <3>2, <4>2 DEF AboutToRecord, Copy, Deactivated, WithStatus, Doc
        <4>4. QED
          BY <3>1, <3>2, <3>3, <4>3
      <3>5. CASE ~CanDeactivate(held[r][d])
        <4>1. held[r][d].status = "DEACTIVATING"
          BY <1>1, <3>1, <3>2, <3>5 DEF IInv, UninstallCopies, UninstallStates, CanDeactivate,
             IsDeleted
        <4>2. Recorded(r, d)
          BY <1>1, <3>1, <3>2, <4>1, RecordedCopy DEF PendingStates
        <4>3. pc'[r] = "idle"
          BY <1>1, <3>1, <3>5 DEF Finish, IInv, TypeInv, TypeOK
        <4>4. QED
          BY <3>1, <3>2, <3>3, <4>2, <4>3
      <3>6. QED
        BY <3>4, <3>5
    <2>4. QED
      BY <2>1, <2>2, <2>3
  <1>2. IInv /\ [Next]_vars =>
            [\A c \in Clients : rg[c] = "present" /\ rg'[c] = "deleting" => Recording(c)]_vars
    BY <1>1
  <1>3. QED
    BY <1>2, IInvInit, IInvStep, PTL DEF Spec, DestructionIsRecorded

----------------------------------------------------------------------------
(* Every write of a stored status is a lost update or a move of the machine.*)

(* Request r overwrites its target with a: stale copy, or one move.        *)
LEMMA WriteDeviates ==
    ASSUME TypeInv, NEW r \in Requests, NEW d \in Ids, NEW a \in Doc,
           agents' = [agents EXCEPT ![d] = a], d \notin stale'[r],
           d \notin stale[r] => OneMove(d, a)
    PROVE  LostUpdate \/ [Machine!Next]_Statuses
  <1> USE NoDocAssumption
  <1>1. CASE d \in stale[r]
    <2>1. CASE agents' = agents
      BY <2>1 DEF Statuses, StatusOf
    <2>2. CASE agents' # agents
      BY <1>1, <2>2 DEF LostUpdate
    <2>3. QED
      BY <2>1, <2>2
  <1>2. CASE d \notin stale[r]
    <2>1. OneMove(d, a)
      BY <1>2
    <2>2. \A e \in Ids : agents'[e] = IF e = d THEN a ELSE agents[e]
      BY DEF TypeInv, TypeOK
    <2>3. StatusOf(a) = a.status /\ a.status \in AgentStatus
      BY DEF StatusOf, Doc
    <2>4. Statuses' = [Statuses EXCEPT ![d] = a.status]
      <3>1. \A e \in Ids : StatusOf(agents'[e])
                               = IF e = d THEN a.status ELSE StatusOf(agents[e])
        BY <2>2, <2>3
      <3>2. Statuses' = [e \in Ids |-> StatusOf(agents'[e])]
        BY DEF Statuses, StatusOf
      <3>3. QED
        BY <3>1, <3>2 DEF Statuses
    <2>5. CASE StatusOf(agents[d]) = a.status
      BY <2>4, <2>5 DEF Statuses
    <2>6. CASE /\ Machine!Allowed(StatusOf(agents[d]), a.status)
               /\ agents[d] = NoDoc => StoredFor(ClientOf[d]) = {}
      <3>1. Statuses[d] = "none" => agents[d] = NoDoc
        BY DEF Statuses, StatusOf, TypeInv, TypeOK, Doc, AgentStatus
      <3>2. agents[d] = NoDoc => Machine!Unregistered(d)
        BY <2>6 DEF Machine!Unregistered, Statuses, StatusOf, StoredFor, Stored
      <3>3. Machine!Move(d, a.status)
        BY <2>4, <2>6, <3>1, <3>2 DEF Machine!Move, Statuses
      <3>4. QED
        BY <2>3, <3>3 DEF Machine!Next, Machine!AgentStatus, AgentStatus
    <2>7. QED
      BY <2>1, <2>5, <2>6 DEF OneMove
  <1>3. QED
    BY <1>1, <1>2

LEMMA DeviationStep ==
    ASSUME IInv, [Next]_vars
    PROVE  LostUpdate \/ [Machine!Next]_Statuses
  <1> USE NoDocAssumption DEF IInv
  <1>1. ASSUME NEW r \in Requests, HandshakeSave(r) \/ PatchSave(r) \/ UpdateSave(r)
        PROVE  LostUpdate \/ [Machine!Next]_Statuses
    <2>1. target[r] \in Ids /\ Copy(r) \in Doc /\ StoreAndFinish(r) /\ pc[r] \in PendingStates
      BY <1>1 DEF HandshakeSave, PatchSave, UpdateSave, TypeInv, WorkingOn, PendingStates
    <2>2. target[r] \notin stale[r] => OneMove(target[r], Copy(r))
      BY <2>1 DEF FreshCopies, Pending, Copy
    <2>3. agents' = [agents EXCEPT ![target[r]] = Copy(r)] /\ stale'[r] = {}
      BY <2>1 DEF StoreAndFinish, Copy
    <2>4. QED
      BY <2>1, <2>2, <2>3, WriteDeviates
  <1>2. ASSUME NEW r \in Requests, DeactivateFailedSave(r) \/ ConfirmSave(r) \/ UninstallSave(r)
        PROVE  LostUpdate \/ [Machine!Next]_Statuses
    <2>1. /\ target[r] \in Ids /\ Copy(r) \in Doc /\ pc[r] \in PendingStates
          /\ Store(r, target[r], Copy(r))
      BY <1>2 DEF DeactivateFailedSave, ConfirmSave, UninstallSave, TypeInv, WorkingOn,
         PendingStates
    <2>2. target[r] \notin stale[r] => OneMove(target[r], Copy(r))
      BY <2>1 DEF FreshCopies, Pending, Copy
    <2>3. agents' = [agents EXCEPT ![target[r]] = Copy(r)] /\ target[r] \notin stale'[r]
      BY <2>1 DEF Store
    <2>4. QED
      BY <2>1, <2>2, <2>3, WriteDeviates
  <1>3. ASSUME NEW r \in Requests, DeactivateSave(r)
        PROVE  LostUpdate \/ [Machine!Next]_Statuses
    <2>1. /\ target[r] \in Ids /\ Copy(r) \in Doc /\ CanDeactivate(Copy(r))
          /\ pc[r] \notin PendingStates /\ Store(r, target[r], Deactivated(Copy(r)))
      BY <1>3 DEF DeactivateSave, TypeInv, WorkingOn, CopyGuards, PendingStates
    <2>2. Deactivated(Copy(r)) \in Doc /\ Deactivated(Copy(r)).status = "DEACTIVATING"
      BY <2>1 DEF Deactivated, WithStatus, Doc, AgentStatus
    <2>3. ASSUME target[r] \notin stale[r]
          PROVE  OneMove(target[r], Deactivated(Copy(r)))
      <3>1. agents[target[r]] = Copy(r) /\ agents[target[r]] # NoDoc
        BY <2>1, <2>3 DEF FreshCopies, Pending, Copy
      <3>2. /\ StatusOf(agents[target[r]]) = Copy(r).status
            /\ Copy(r).status \in AgentStatus \ {"DEACTIVATING", "DELETED"}
        BY <2>1, <3>1 DEF StatusOf, CanDeactivate, Doc
      <3>3. QED
        BY <2>2, <3>1, <3>2 DEF OneMove, AgentStatus, Machine!Allowed, Machine!ByDeactivation
    <2>4. /\ agents' = [agents EXCEPT ![target[r]] = Deactivated(Copy(r))]
          /\ target[r] \notin stale'[r]
      BY <2>1 DEF Store
    <2>5. QED
      BY <2>1, <2>2, <2>3, <2>4, WriteDeviates
  <1>4. CASE UNCHANGED agents
    BY <1>4 DEF Statuses, StatusOf
  <1>5. QED
    BY <1>1, <1>2, <1>3, <1>4 DEF Next, Arrive, Proceed, Azure, Handshake, Patch,
       RequestUpdate, UpdateSettings, Deactivate, DeactivateAzure, Disable, Confirm,
       CheckResourceGroup, Uninstall, UninstallDelete, UninstallDisable, EnableSchedule,
       Reject, Abort, FunctionAppRestart, RgGone, RgDeletionFails, vars

(* OnlyLostUpdatesDeviate: however the requests interleave, a stored status*)
(* changes by a transition of the Agent entity or by a lost update.        *)
THEOREM DeviationsAreLostUpdates == Spec => OnlyLostUpdatesDeviate
  BY IInvInit, IInvStep, DeviationStep, PTL DEF Spec, OnlyLostUpdatesDeviate
----------------------------------------------------------------------------
(* Who may turn a DEACTIVATING or DELETED document ACTIVE.                 *)
Revives(d) ==
    /\ StatusOf(agents[d]) \in {"DEACTIVATING", "DELETED"}
    /\ StatusOf(agents'[d]) = "ACTIVE"

(* A handshake read a document that is neither, and unless that is out of  *)
(* date it still is; no other handler but PATCH writes ACTIVE.             *)
Reviving(r) ==
    /\ pc[r] = "handshake" /\ target[r] \notin stale[r] =>
          agents[target[r]] = NoDoc \/ CanDeactivate(agents[target[r]])
    /\ pc[r] \in {"update_save", "confirm", "deact_failed", "uninst_save"} =>
          Copy(r).status # "ACTIVE"

NoRevival == \A r \in Requests : Reviving(r)

(* What a step of r leaves of the claim about another request.             *)
LEMMA OthersNoRevival ==
    ASSUME TypeInv, NoRevival, NEW r \in Requests, Others(r),
           NEW d \in Ids,
           \A e \in Ids \ {d} : agents'[e] = agents[e],
           \A q \in Requests \ {r} : stale[q] \subseteq stale'[q],
           \/ agents' = agents
           \/ \A q \in Requests \ {r} : Outdated(q, d) \subseteq stale'[q]
    PROVE  \A q \in Requests \ {r} : Reviving(q)'
  <1> SUFFICES ASSUME NEW q \in Requests \ {r}
               PROVE  Reviving(q)'
    OBVIOUS
  <1>1. pc'[q] = pc[q] /\ target'[q] = target[q] /\ held'[q] = held[q]
    BY DEF Others
  <1>2. ASSUME pc[q] = "handshake", target[q] \notin stale'[q]
        PROVE  agents'[target[q]] = agents[target[q]]
    <2>1. target[q] \in Ids /\ held[q][target[q]] # NoDoc
      BY <1>2, NoDocAssumption DEF TypeInv, WorkingOn, Copy
    <2>2. d = target[q] => d \in Outdated(q, d)
      BY <2>1 DEF Outdated
    <2>3. QED
      BY <1>2, <2>1, <2>2
  <1>3. QED
    BY <1>1, <1>2 DEF NoRevival, Reviving, Copy

LEMMA RevivalStep ==
    ASSUME TypeInv, NoRevival, [Next]_vars
    PROVE  NoRevival'
  <1> USE NoDocAssumption
  <1>1. ASSUME NEW r \in Requests, Others(r), UNCHANGED agents, Reviving(r)',
               \A q \in Requests \ {r} : stale'[q] = stale[q]
        PROVE  NoRevival'
    <2>1. CASE Ids = {}
      BY <1>1, <2>1 DEF NoRevival, Reviving, Others, TypeInv, TypeOK, WorkingOn, Copy
    <2>2. CASE Ids # {}
      BY <1>1, <2>2, OthersNoRevival DEF NoRevival
    <2>3. QED
      BY <2>1, <2>2
  <1>2. ASSUME NEW r \in Requests, NEW d \in Ids, NEW a, NEW next, Take(r, d, a, next),
               UNCHANGED agents,
               next \in {"handshake", "patch", "update_checks", "deact_check", "confirm"},
               next = "handshake" => agents[d] = NoDoc \/ CanDeactivate(agents[d]),
               next = "confirm" => a.status # "ACTIVE"
        PROVE  NoRevival'
    <2>1. Others(r) /\ \A q \in Requests \ {r} : stale'[q] = stale[q]
      BY <1>2 DEF Take, Others, TypeInv, TypeOK
    <2>2. pc'[r] = next /\ target'[r] = d /\ held'[r][d] = a
      BY <1>2 DEF Take, TypeInv, TypeOK, Nothing
    <2>3. Reviving(r)'
      BY <1>2, <2>2 DEF Reviving, Copy
    <2>4. QED
      BY <1>1, <1>2, <2>1, <2>3
  <1>3. ASSUME NEW r \in Requests, Finish(r), UNCHANGED agents
        PROVE  NoRevival'
    <2>1. Others(r) /\ (\A q \in Requests \ {r} : stale'[q] = stale[q]) /\ pc'[r] = "idle"
      BY <1>3 DEF Finish, Others, TypeInv, TypeOK
    <2>2. QED
      BY <1>1, <1>3, <2>1 DEF Reviving
  <1>4. ASSUME NEW r \in Requests, NEW a, NEW next, Mutate(r, a, next), target[r] \in Ids,
               UNCHANGED <<agents, target, stale>>,
               next # "handshake",
               next \in {"update_save", "deact_failed"} => a.status # "ACTIVE",
               next \notin {"confirm", "uninst_save"}
        PROVE  NoRevival'
    <2>1. Others(r) /\ pc'[r] = next /\ Copy(r)' = a
      BY <1>4 DEF Mutate, Others, TypeInv, TypeOK, Copy
    <2>2. Reviving(r)'
      BY <1>4, <2>1 DEF Reviving
    <2>3. QED
      BY <1>1, <1>4, <2>1, <2>2
  <1>5. ASSUME NEW r \in Requests, HandshakeSave(r) \/ PatchSave(r) \/ UpdateSave(r)
        PROVE  NoRevival'
    <2>1. target[r] \in Ids /\ StoreAndFinish(r)
      BY <1>5 DEF HandshakeSave, PatchSave, UpdateSave, TypeInv, WorkingOn
    <2>2. /\ Others(r) /\ pc'[r] = "idle"
          /\ \A e \in Ids \ {target[r]} : agents'[e] = agents[e]
          /\ \A q \in Requests \ {r} : stale'[q] = stale[q] \union Outdated(q, target[r])
      BY <2>1 DEF StoreAndFinish, Others, TypeInv, TypeOK
    <2>3. \A q \in Requests \ {r} : Reviving(q)'
      BY <2>1, <2>2, OthersNoRevival
    <2>4. QED
      BY <2>2, <2>3 DEF NoRevival, Reviving
  <1>6. ASSUME NEW r \in Requests,
               DeactivateSave(r) \/ DeactivateFailedSave(r) \/ ConfirmSave(r) \/ UninstallSave(r)
        PROVE  NoRevival'
    <2>1. /\ target[r] \in Ids
          /\ \E a, next : /\ Store(r, target[r], a) /\ Mutate(r, a, next)
                          /\ next \in {"deact_azure", "disable", "uninst_disable"}
      BY <1>6 DEF DeactivateSave, DeactivateFailedSave, ConfirmSave, UninstallSave, TypeInv,
         WorkingOn
    <2>2. /\ Others(r) /\ pc'[r] \in {"deact_azure", "disable", "uninst_disable"}
          /\ \A e \in Ids \ {target[r]} : agents'[e] = agents[e]
          /\ \A q \in Requests \ {r} : stale'[q] = stale[q] \union Outdated(q, target[r])
      BY <1>6, <2>1 DEF DeactivateSave, DeactivateFailedSave, ConfirmSave, UninstallSave, Store,
         Mutate, Others, TypeInv, TypeOK
    <2>3. \A q \in Requests \ {r} : Reviving(q)'
      BY <2>1, <2>2, OthersNoRevival
    <2>4. QED
      BY <2>2, <2>3 DEF NoRevival, Reviving
  <1>7. ASSUME NEW r \in Requests, Arrive(r)
        PROVE  NoRevival'
    <2>1. CASE \E c \in Clients : Handshake(r, c)
      BY <1>2, <2>1 DEF Handshake, HandshakeKnown, HandshakeFirst, Fresh, FirstFor, StoredFor,
         Stored
    <2>2. CASE \E d \in Ids : Patch(r, d) \/ RequestUpdate(r, d) \/ Deactivate(r, d)
      BY <1>2, <2>2 DEF Patch, RequestUpdate, Deactivate
    <2>3. ASSUME NEW d \in Ids, Confirm(r, d)
          PROVE  NoRevival'
      <3>1. agents[d] \in Doc
        BY <2>3 DEF Confirm, Stored, TypeInv, TypeOK
      <3>2. ConfirmDeletion(agents[d]).status = "DELETED"
        BY <3>1 DEF ConfirmDeletion, Doc
      <3>3. QED
        BY <1>2, <2>3, <3>2 DEF Confirm, IsDeleted
    <2>4. CASE Uninstall(r)
      <3>1. Others(r) /\ pc'[r] = "uninst_token" /\ UNCHANGED agents
            /\ \A q \in Requests \ {r} : stale'[q] = stale[q]
        BY <2>4 DEF Uninstall, Others, TypeInv, TypeOK
      <3>2. QED
        BY <1>1, <3>1 DEF Reviving
    <2>5. QED
      BY <1>7, <2>1, <2>2, <2>3, <2>4 DEF Arrive
  <1>8. ASSUME NEW r \in Requests, UpdateSettings(r) \/ DeactivateAzure(r) \/ UninstallDisable(r)
        PROVE  NoRevival'
    <2>1. target[r] \in Ids /\ Copy(r) \in Doc
      BY <1>8 DEF UpdateSettings, DeactivateAzure, UninstallDisable, TypeInv, WorkingOn
    <2>2. \A s \in AgentStatus : WithStatus(Copy(r), s).status = s
      BY <2>1 DEF WithStatus, Doc
    <2>3. CASE UpdateSettings(r)
      BY <1>4, <2>1, <2>2, <2>3 DEF UpdateSettings, AgentStatus
    <2>4. CASE DeactivateAzure(r)
      BY <1>4, <2>1, <2>2, <2>4 DEF DeactivateAzure, AgentStatus
    <2>5. CASE UninstallDisable(r)
      BY <1>3, <1>4, <2>1, <2>5 DEF UninstallDisable
    <2>6. QED
      BY <1>8, <2>3, <2>4, <2>5
  <1>9. ASSUME NEW r \in Requests, UninstallDelete(r)
        PROVE  NoRevival'
    <2>1. CASE Finish(r)
      BY <1>3, <1>9, <2>1 DEF UninstallDelete
    <2>2. ASSUME NEW d \in Ids, held[r][d] # NoDoc,
                 target' = [target EXCEPT ![r] = d],
                 held' = [held EXCEPT ![r][d] = Deactivated(@)],
                 pc' = [pc EXCEPT ![r] = "uninst_save"],
                 UNCHANGED <<agents, stale>>
          PROVE  NoRevival'
      <3>1. Others(r) /\ pc'[r] = "uninst_save" /\ Copy(r)' = Deactivated(held[r][d])
        BY <2>2 DEF Others, Copy, TypeInv, TypeOK
      <3>2. Deactivated(held[r][d]).status = "DEACTIVATING"
        BY <2>2 DEF Deactivated, WithStatus, Doc, TypeInv, TypeOK
      <3>3. Reviving(r)'
        BY <3>1, <3>2 DEF Reviving
      <3>4. QED
        BY <1>1, <2>2, <3>1, <3>3
    <2>3. QED
      BY <1>9, <2>1, <2>2 DEF UninstallDelete
  <1>10. CASE UNCHANGED <<agents, request, stale>>
    BY <1>10 DEF request, NoRevival, Reviving, Copy
  <1>11. QED
    BY <1>3, <1>5, <1>6, <1>7, <1>8, <1>9, <1>10
       DEF Next, Proceed, Disable, Reject, Abort, CheckResourceGroup, EnableSchedule, Azure,
           FunctionAppRestart, RgGone, RgDeletionFails, vars

(* However requests interleave, an agent that is being deleted or was      *)
(* deleted becomes ACTIVE only if an operator says so or by an upsert of a *)
(* copy that was out of date (handshake_agent_use_case.py:28).             *)
THEOREM RevivalsAreLostUpdates ==
    Spec => [][\A d \in Ids : Revives(d) => LostUpdate \/ \E r \in Requests : PatchSave(r)]_vars
  <1>1. Init => NoRevival
    BY DEF Init, NoRevival, Reviving
  <1>2. IInv /\ NoRevival /\ [Next]_vars => (IInv /\ NoRevival)'
    BY IInvStep, RevivalStep DEF IInv
  <1>3. IInv /\ NoRevival /\ [Next]_vars
            => [\A d \in Ids : Revives(d) => LostUpdate \/ \E r \in Requests : PatchSave(r)]_vars
    <2> SUFFICES ASSUME IInv, NoRevival, Next, NEW d \in Ids, Revives(d), ~LostUpdate
                 PROVE  \E r \in Requests : PatchSave(r)
      BY DEF vars, Revives, StatusOf
    <2> USE NoDocAssumption DEF IInv, TypeInv, TypeOK
    <2>1. agents'[d] # agents[d] /\ agents' # agents
      BY DEF Revives
    <2>2. ASSUME NEW r \in Requests, target[r] \in Ids, NEW a \in Doc, a.status # "ACTIVE",
                 agents' = [agents EXCEPT ![target[r]] = a]
          PROVE  FALSE
      BY <2>1, <2>2 DEF Revives, StatusOf
    <2>3. ASSUME NEW r \in Requests, HandshakeSave(r)
          PROVE  FALSE
      <3>1. /\ pc[r] = "handshake" /\ target[r] \in Ids /\ stale'[r] = {}
            /\ agents' = [agents EXCEPT ![target[r]] = Copy(r)]
        BY <2>3 DEF HandshakeSave, StoreAndFinish, WorkingOn, Copy
      <3>2. target[r] \notin stale[r]
        BY <2>1, <3>1 DEF LostUpdate
      <3>3. d = target[r]
        BY <2>1, <3>1
      <3>4. agents[d] = NoDoc \/ CanDeactivate(agents[d])
        BY <3>1, <3>2, <3>3 DEF NoRevival, Reviving
      <3>5. QED
        BY <3>4 DEF Revives, StatusOf, CanDeactivate
    <2>4. ASSUME NEW r \in Requests,
                 UpdateSave(r) \/ ConfirmSave(r) \/ DeactivateFailedSave(r) \/ UninstallSave(r)
          PROVE  FALSE
      <3>1. /\ target[r] \in Ids /\ Copy(r) \in Doc
            /\ agents' = [agents EXCEPT ![target[r]] = Copy(r)]
        BY <2>4 DEF UpdateSave, ConfirmSave, DeactivateFailedSave, UninstallSave, StoreAndFinish,
           Store, WorkingOn, Copy
      <3>2. Copy(r).status # "ACTIVE"
        BY <2>4 DEF UpdateSave, ConfirmSave, DeactivateFailedSave, UninstallSave, NoRevival,
           Reviving
      <3>3. QED
        BY <2>2, <3>1, <3>2
    <2>5. ASSUME NEW r \in Requests, DeactivateSave(r)
          PROVE  FALSE
      <3>1. /\ target[r] \in Ids /\ Copy(r) \in Doc
            /\ agents' = [agents EXCEPT ![target[r]] = Deactivated(Copy(r))]
        BY <2>5 DEF DeactivateSave, Store, WorkingOn
      <3>2. Deactivated(Copy(r)) \in Doc /\ Deactivated(Copy(r)).status # "ACTIVE"
        BY <3>1 DEF Deactivated, WithStatus, Doc, AgentStatus
      <3>3. QED
        BY <2>2, <3>1, <3>2
    <2>6. QED
      BY <2>1, <2>3, <2>4, <2>5
         DEF Next, Arrive, Proceed, Azure, Handshake, Patch, RequestUpdate, UpdateSettings,
             Deactivate, DeactivateAzure, Disable, Confirm, CheckResourceGroup, Uninstall,
             UninstallDelete, UninstallDisable, EnableSchedule, Reject, Abort,
             FunctionAppRestart, RgGone, RgDeletionFails
  <1>4. QED
    BY <1>1, <1>2, <1>3, IInvInit, PTL DEF Spec
----------------------------------------------------------------------------
(* One request at a time: nothing goes stale, so nothing deviates.         *)

OneAtATime == \A q, r \in Requests : q = r
NothingStale == \A r \in Requests : stale[r] = {}

LEMMA NothingStaleStep ==
    ASSUME OneAtATime, TypeInv, NothingStale, [Next]_vars
    PROVE  NothingStale'
  <1>1. ASSUME NEW r \in Requests, stale' = [stale EXCEPT ![r] = {}]
        PROVE  NothingStale'
    BY <1>1 DEF OneAtATime, NothingStale, TypeInv, TypeOK
  <1>2. ASSUME NEW r \in Requests, Finish(r)
        PROVE  NothingStale'
    BY <1>1, <1>2 DEF Finish
  <1>3. ASSUME NEW r \in Requests, NEW d, NEW a, NEW next, Take(r, d, a, next)
        PROVE  NothingStale'
    BY <1>1, <1>3 DEF Take
  <1>4. ASSUME NEW r \in Requests, NEW d, NEW a, Store(r, d, a) \/ StoreAndFinish(r)
        PROVE  NothingStale'
    BY <1>4 DEF OneAtATime, NothingStale, Store, StoreAndFinish
  <1>5. CASE UNCHANGED stale
    BY <1>5 DEF NothingStale
  <1>6. ASSUME NEW r \in Requests, Arrive(r)
        PROVE  NothingStale'
    BY <1>1, <1>3, <1>6 DEF Arrive, Handshake, HandshakeKnown, HandshakeFirst, Patch,
       RequestUpdate, Deactivate, Confirm, Uninstall
  <1>7. ASSUME NEW r \in Requests, Proceed(r)
        PROVE  NothingStale'
    BY <1>2, <1>4, <1>5, <1>7 DEF Proceed, HandshakeSave, PatchSave, ConfirmSave, Disable,
       UpdateSettings, UpdateSave, DeactivateSave, DeactivateAzure, DeactivateFailedSave,
       UninstallDelete, UninstallSave, UninstallDisable
  <1>8. QED
    BY <1>2, <1>5, <1>6, <1>7 DEF Next, Reject, Abort, CheckResourceGroup, EnableSchedule,
       Azure, FunctionAppRestart, RgGone, RgDeletionFails, request, vars

(* SerialMachine: with one request at a time the handlers implement the    *)
(* status machine of the Agent entity.                                     *)
THEOREM SerialRefinement ==
    ASSUME OneAtATime
    PROVE  Spec => SerialMachine
  <1>1. Init => IInv /\ NothingStale /\ Machine!Init
    BY IInvInit DEF Init, NothingStale, Machine!Init, Statuses, StatusOf, Nothing
  <1>2. IInv /\ NothingStale /\ [Next]_vars => (IInv /\ NothingStale)'
    BY IInvStep, NothingStaleStep DEF IInv
  <1>3. IInv /\ NothingStale /\ [Next]_vars => [Machine!Next]_Statuses
    BY DeviationStep DEF NothingStale, LostUpdate
  <1>4. QED
    BY <1>1, <1>2, <1>3, PTL DEF Spec, SerialMachine, Machine!Spec

-----------------------------------------------------------------------------
(* One request at a time: what an uninstall has not in its list any more   *)
(* was deactivated, by itself or before it began.                          *)
UninstallProgress ==
    \A r \in Requests :
        /\ pc[r] \in {"uninst_token", "uninst_loop", "uninst_save"} =>
              \A d \in Stored : held[r][d] = NoDoc => ~CanDeactivate(agents[d])
        /\ pc[r] = "uninst_save" => ~CanDeactivate(Copy(r))
        /\ pc[r] = "uninst_disable" =>
              \A d \in Stored : held[r][d] = NoDoc \/ d = target[r] => ~CanDeactivate(agents[d])

LEMMA ProgressStep ==
    ASSUME OneAtATime, TypeInv, UninstallProgress, [Next]_vars
    PROVE  UninstallProgress'
  <1> USE DEF TypeInv, TypeOK
  <1> DEFINE Uninstalling == {"uninst_token", "uninst_loop", "uninst_save", "uninst_disable"}
  <1>1. ASSUME NEW r \in Requests, pc'[r] \notin Uninstalling
        PROVE  UninstallProgress'
    BY <1>1 DEF OneAtATime, UninstallProgress
  <1>2. ASSUME NEW r \in Requests, Uninstall(r)
        PROVE  UninstallProgress'
    <2>1. pc'[r] = "uninst_token" /\ agents' = agents
      BY <1>2 DEF Uninstall
    <2>2. \A d \in Stored : held'[r][d] = NoDoc => IsDeleted(agents[d])
      BY <1>2 DEF Uninstall, Stored
    <2>3. \A d \in Stored' : held'[r][d] = NoDoc => ~CanDeactivate(agents'[d])
      BY <2>1, <2>2 DEF Stored, IsDeleted, CanDeactivate
    <2>4. QED
      BY <2>1, <2>3 DEF OneAtATime, UninstallProgress
  <1>3. ASSUME NEW r \in Requests, UninstallDelete(r)
        PROVE  UninstallProgress'
    <2>1. CASE Finish(r)
      BY <1>1, <2>1 DEF Finish
    <2>2. ASSUME NEW d \in Ids, held[r][d] # NoDoc, CanDeactivate(held[r][d]),
                 target' = [target EXCEPT ![r] = d],
                 held' = [held EXCEPT ![r][d] = Deactivated(@)],
                 pc' = [pc EXCEPT ![r] = "uninst_save"]
          PROVE  UninstallProgress'
      <3>1. agents' = agents /\ pc[r] \in {"uninst_token", "uninst_loop"}
        BY <1>3 DEF UninstallDelete
      <3>2. pc'[r] = "uninst_save" /\ Copy(r)' = Deactivated(held[r][d])
        BY <2>2 DEF Copy
      <3>3. Copy(r)' # NoDoc /\ ~CanDeactivate(Copy(r)')
        <4>1. held[r][d] \in Doc
          BY <2>2
        <4>2. Deactivated(held[r][d]) \in Doc /\ Deactivated(held[r][d]).status = "DEACTIVATING"
          BY <4>1 DEF Deactivated, WithStatus, Doc, AgentStatus
        <4>3. QED
          BY <3>2, <4>2, NoDocAssumption DEF CanDeactivate
      <3>4. \A e \in Ids : held'[r][e] = NoDoc => held[r][e] = NoDoc
        BY <2>2, <3>3 DEF Copy
      <3>5. \A e \in Stored' : held'[r][e] = NoDoc => ~CanDeactivate(agents'[e])
        BY <3>1, <3>4 DEF UninstallProgress, Stored
      <3>6. QED
        BY <3>2, <3>3, <3>5 DEF OneAtATime, UninstallProgress
    <2>3. QED
      BY <1>3, <2>1, <2>2 DEF UninstallDelete
  <1>4. ASSUME NEW r \in Requests, UninstallSave(r)
        PROVE  UninstallProgress'
    <2>1. /\ pc[r] = "uninst_save" /\ pc'[r] = "uninst_disable" /\ target' = target
          /\ target[r] \in Ids
          /\ agents' = [agents EXCEPT ![target[r]] = Copy(r)]
          /\ held' = [held EXCEPT ![r][target[r]] = Copy(r)]
      BY <1>4 DEF UninstallSave, Store, Mutate, WorkingOn
    <2>2. held' = held
      BY <2>1 DEF Copy
    <2>3. \A e \in Stored' : held'[r][e] = NoDoc \/ e = target'[r] => ~CanDeactivate(agents'[e])
      BY <2>1, <2>2 DEF UninstallProgress, Stored
    <2>4. QED
      BY <2>1, <2>3 DEF OneAtATime, UninstallProgress
  <1>5. ASSUME NEW r \in Requests, UninstallDisable(r)
        PROVE  UninstallProgress'
    <2>1. CASE Finish(r)
      BY <1>1, <2>1 DEF Finish
    <2>2. CASE Mutate(r, NoDoc, "uninst_loop")
      <3>1. /\ pc[r] = "uninst_disable" /\ pc'[r] = "uninst_loop" /\ agents' = agents
            /\ held' = [held EXCEPT ![r][target[r]] = NoDoc]
        BY <1>5, <2>2 DEF UninstallDisable, Mutate
      <3>2. \A e \in Stored' : held'[r][e] = NoDoc => ~CanDeactivate(agents'[e])
        BY <3>1 DEF UninstallProgress, Stored
      <3>3. QED
        BY <3>1, <3>2 DEF OneAtATime, UninstallProgress
    <2>3. QED
      BY <1>5, <2>1, <2>2 DEF UninstallDisable
  <1>6. ASSUME NEW r \in Requests,
               \/ \E d, a : \E next \in {"handshake", "patch", "update_checks", "deact_check", "confirm"} :
                     Take(r, d, a, next)
               \/ pc[r] \notin Uninstalling /\ Proceed(r)
               \/ Reject(r) \/ Abort(r)
        PROVE  UninstallProgress'
    <2>1. pc'[r] \notin Uninstalling
      BY <1>6 DEF Take, Proceed, HandshakeSave, PatchSave, ConfirmSave, Disable, UpdateSettings,
         UpdateSave, DeactivateSave, DeactivateAzure, DeactivateFailedSave, UninstallDelete,
         UninstallSave, UninstallDisable, StoreAndFinish, Mutate, Finish, Reject, Abort
    <2>2. QED
      BY <1>1, <2>1
  <1>7. ASSUME NEW r \in Requests, Arrive(r)
        PROVE  UninstallProgress'
    BY <1>2, <1>6, <1>7 DEF Arrive, Handshake, HandshakeKnown, HandshakeFirst, Patch,
       RequestUpdate, Deactivate, Confirm
  <1>8. ASSUME NEW r \in Requests, Proceed(r), pc[r] \in Uninstalling
        PROVE  UninstallProgress'
    BY <1>3, <1>4, <1>5, <1>8 DEF Proceed, HandshakeSave, PatchSave, ConfirmSave, Disable,
       UpdateSettings, UpdateSave, DeactivateSave, DeactivateAzure, DeactivateFailedSave
  <1>9. CASE UNCHANGED <<agents, request>>
    BY <1>9 DEF request, UninstallProgress, Stored, Copy
  <1>10. QED
    BY <1>6, <1>7, <1>8, <1>9 DEF Next, CheckResourceGroup, EnableSchedule, Azure,
       FunctionAppRestart, RgGone, RgDeletionFails, vars

(* The loop of tenant_admin_uninstall_use_case.py:71 skips no agent, for   *)
(* any number of agents in any statuses and whatever Azure does meanwhile. *)
THEOREM UninstallSkipsNobody ==
    ASSUME OneAtATime
    PROVE  Spec => []SerialUninstallIsComplete
  <1>1. Init => UninstallProgress
    BY DEF Init, UninstallProgress
  <1>2. IInv /\ UninstallProgress /\ [Next]_vars => (IInv /\ UninstallProgress)'
    BY IInvStep, ProgressStep DEF IInv
  <1>3. IInv /\ UninstallProgress => SerialUninstallIsComplete
    BY DEF UninstallProgress, SerialUninstallIsComplete, IInv, TypeInv, TypeOK, Stored
  <1>4. QED
    BY <1>1, <1>2, <1>3, IInvInit, PTL DEF Spec

(* One request at a time and no operator who says so: then the comment of  *)
(* handshake_agent_use_case.py:28 is true, a handshake revives nobody.     *)
THEOREM SerialHandshakesReviveNobody ==
    ASSUME OneAtATime, "ACTIVE" \notin PatchStatuses
    PROVE  Spec => HandshakeNeverRevives
  <1>1. [Machine!Next]_Statuses
            => [\A d \in Ids : StatusOf(agents[d]) \in {"DEACTIVATING", "DELETED"}
                                 => StatusOf(agents'[d]) # "ACTIVE"]_vars
    <2>1. ASSUME Machine!Next, NEW d \in Ids,
                 StatusOf(agents[d]) \in {"DEACTIVATING", "DELETED"},
                 StatusOf(agents'[d]) = "ACTIVE"
          PROVE  FALSE
      <3>1. Statuses[d] = StatusOf(agents[d]) /\ Statuses'[d] = StatusOf(agents'[d])
        BY DEF Statuses, StatusOf
      <3>2. PICK e \in Ids, to \in Machine!AgentStatus :
                /\ Machine!Allowed(Statuses[e], to)
                /\ Statuses' = [Statuses EXCEPT ![e] = to]
        BY <2>1 DEF Machine!Next, Machine!Move
      <3>3. d = e /\ to = "ACTIVE"
        BY <2>1, <3>1, <3>2 DEF Statuses
      <3>4. QED
        BY <2>1, <3>1, <3>2, <3>3
           DEF Machine!Allowed, Machine!ByHandshake, Machine!ByUpdate, Machine!ByDeactivation,
               Machine!ByPatch
    <2>2. ASSUME UNCHANGED Statuses, NEW d \in Ids
          PROVE  StatusOf(agents'[d]) = StatusOf(agents[d])
      BY <2>2 DEF Statuses, StatusOf
    <2>3. QED
      BY <2>1, <2>2
  <1>2. QED
    BY <1>1, SerialRefinement, PTL DEF SerialMachine, Machine!Spec, HandshakeNeverRevives
=============================================================================
