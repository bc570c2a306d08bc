--------------------------- MODULE AgentLifecycle ---------------------------
(***************************************************************************)
(* The agent documents of one tenant in Cosmos DB and every request handler*)
(* that writes them (src/app/domains/agent).  A handler is a process: it   *)
(* reads a document, mutates its private copy, awaits Azure, and upserts   *)
(* the WHOLE copy with no etag (repositories/agent.py:105), so between two *)
(* awaits any other handler may run.  One action is the code between two   *)
(* awaits that other handlers or Azure can observe.                        *)
(*                                                                         *)
(* held[r][d] is request r's Agent object for document d.  stale[r] is a   *)
(* history variable, read by no guard: the documents of r that another     *)
(* request wrote after r read them.                                        *)
(***************************************************************************)
EXTENDS Naturals

CONSTANTS
    Ids,             \* document ids (uuid4), each usable once
    Clients,         \* client agent_ids; each is one resource group + function app
    ClientOf,        \* document id -> the client whose handshake creates it
    Versions,        \* agent versions
    BaseVersion,     \* the version a new installation runs
    Packages,        \* versions request-update can resolve to a package
    Requests,        \* request slots: how many requests run at once
    PatchStatuses,   \* statuses operators send to PATCH /agents/{id}
    Operations,      \* endpoints in use, a subset of OperationKinds
    Faults,          \* subset of FaultKinds that may happen
    NoDoc,           \* "no document"
    NoId             \* "no document id"

AgentStatus ==
    {"INITIALIZING", "ACTIVE", "UPDATING", "UPDATING_FAILED",
     "DEACTIVATING", "DEACTIVATE_FAILED", "DELETED", "UNKNOWN"}

FaultKinds ==
    {"abort",          \* a handler is cut short: replica restart, Cosmos error
     "azure_async",    \* an accepted resource group deletion fails later
     "schedule_error"} \* disable_by_agent raises

OperationKinds ==
    {"handshake", "patch", "update", "deactivate", "confirm", "uninstall", "schedule"}

ASSUME ConstantsAssumption ==
    /\ ClientOf \in [Ids -> Clients]
    /\ BaseVersion \in Versions
    /\ Packages \subseteq Versions
    /\ PatchStatuses \subseteq AgentStatus
    /\ Faults \subseteq FaultKinds
    /\ Operations \subseteq OperationKinds
    /\ NoId \notin Ids

Doc == [status : AgentStatus, version : Versions, deletedAt : BOOLEAN]

ASSUME NoDocAssumption == NoDoc \notin Doc

VARIABLES
    agents,     \* the agents container: document id -> Doc or NoDoc
    enabled,    \* keys (document or client ids) with enabled schedules
    rg,         \* client -> state of its Azure resource group
    installed,  \* client -> version its app settings point to
    running,    \* client -> version its function app runs
    seenGone,   \* documents whose resource group the front end saw as gone
    trusted,    \* documents stamped on the word of a caller who had not
                \* seen that; a history variable, read by no guard
    pc,         \* request -> next thing the handler does
    target,     \* request -> document it is working on
    held,       \* request -> document id -> its Agent object or NoDoc
    stale       \* request -> documents rewritten since it read them

azure == <<rg, installed, running>>
frontend == <<seenGone, trusted>>
request == <<pc, target, held>>
vars == <<agents, enabled, azure, frontend, request, stale>>

HandlerStates ==
    {"idle", "handshake", "patch", "confirm",
     "update_checks", "update_save",
     "deact_check", "deact_azure", "deact_failed", "disable",
     "uninst_token", "uninst_loop", "uninst_save", "uninst_disable"}

TypeOK ==
    /\ agents \in [Ids -> Doc \union {NoDoc}]
    /\ enabled \subseteq (Ids \union Clients)
    /\ rg \in [Clients -> {"present", "deleting", "gone"}]
    /\ installed \in [Clients -> Versions]
    /\ running \in [Clients -> Versions]
    /\ seenGone \subseteq Ids
    /\ trusted \subseteq Ids
    /\ pc \in [Requests -> HandlerStates]
    /\ target \in [Requests -> Ids \union {NoId}]
    /\ held \in [Requests -> [Ids -> Doc \union {NoDoc}]]
    /\ stale \in [Requests -> SUBSET Ids]

Nothing == [d \in Ids |-> NoDoc]

Init ==
    /\ agents = Nothing
    /\ enabled = {}
    /\ rg = [c \in Clients |-> "present"]
    /\ installed = [c \in Clients |-> BaseVersion]
    /\ running = [c \in Clients |-> BaseVersion]
    /\ seenGone = {}
    /\ trusted = {}
    /\ pc = [r \in Requests |-> "idle"]
    /\ target = [r \in Requests |-> NoId]
    /\ held = [r \in Requests |-> Nothing]
    /\ stale = [r \in Requests |-> {}]

----------------------------------------------------------------------------
(* The Agent entity (models/agent.py).  Operators whose name starts with   *)
(* Bug are the plausible mistakes the properties are tried against; no     *)
(* other definition uses them.                                             *)

BugNewAgent(v) == [status |-> "CREATED", version |-> v, deletedAt |-> FALSE]
NewAgent(v) == [status |-> "ACTIVE", version |-> v, deletedAt |-> FALSE]
WithStatus(a, s) == [a EXCEPT !.status = s]
IsDeleted(a) == a.status = "DELETED"
BugCanDeactivate(a) == a.status # "DEACTIVATING"
CanDeactivate(a) == a.status \notin {"DEACTIVATING", "DELETED"}
Deactivated(a) == WithStatus(a, "DEACTIVATING")
CanConfirm(a) == a.status \in {"DEACTIVATING", "DELETED"}
ConfirmDeletion(a) == [a EXCEPT !.status = "DELETED", !.deletedAt = TRUE]
Activate(a) ==
    IF a.status \in {"INITIALIZING", "UPDATING"} THEN WithStatus(a, "ACTIVE") ELSE a

(* Handshake bookkeeping: an UPDATING agent that still reports the old     *)
(* version keeps its status and version; all others activate.              *)
BugHandshaken(a, v) == [a EXCEPT !.status = "ACTIVE", !.version = v]
BugVersionTest(a, v) == IF v # a.version THEN a ELSE [Activate(a) EXCEPT !.version = v]
Handshaken(a, v) ==
    IF a.status = "UPDATING" /\ v = a.version
    THEN a
    ELSE [Activate(a) EXCEPT !.version = v]

(* get_active_agent_by_client_id: the sort key of a document, smaller      *)
(* first.  The _ts tie-break has whole-second resolution and is left open. *)
SortKey(a) ==
    CASE a.status = "ACTIVE" -> 0
      [] a.status = "INITIALIZING" -> 1
      [] a.status = "DEACTIVATING" -> 2
      [] a.status = "DEACTIVATE_FAILED" -> 3
      [] a.status = "DELETED" -> 10
      [] OTHER -> 9

Stored == {d \in Ids : agents[d] # NoDoc}
BugStoredFor(c) == {d \in Stored : ClientOf[d] = c /\ ~IsDeleted(agents[d])}
StoredFor(c) == {d \in Stored : ClientOf[d] = c}
FirstFor(c) ==
    {d \in StoredFor(c) :
        \A e \in StoredFor(c) : SortKey(agents[d]) =< SortKey(agents[e])}

----------------------------------------------------------------------------
(* Building blocks of the handlers.                                        *)

(* get_by_id (or the query by client id) followed by the mutation a of the *)
(* copy: request r now owns a private copy of document d.                  *)
Take(r, d, a, next) ==
    /\ pc[r] = "idle"
    /\ pc' = [pc EXCEPT ![r] = next]
    /\ target' = [target EXCEPT ![r] = d]
    /\ held' = [held EXCEPT ![r] = [Nothing EXCEPT ![d] = a]]
    /\ stale' = [stale EXCEPT ![r] = {}]

Mutate(r, a, next) ==
    /\ pc' = [pc EXCEPT ![r] = next]
    /\ held' = [held EXCEPT ![r][target[r]] = a]

Finish(r) ==
    /\ pc' = [pc EXCEPT ![r] = "idle"]
    /\ target' = [target EXCEPT ![r] = NoId]
    /\ held' = [held EXCEPT ![r] = Nothing]
    /\ stale' = [stale EXCEPT ![r] = {}]

(* Documents of request q that an upsert of d makes out of date: its copy  *)
(* of d, or the copy it is about to create for the same client.            *)
Outdated(q, d) ==
    {e \in Ids : /\ held[q][e] # NoDoc
                 /\ \/ e = d
                    \/ agents[e] = NoDoc /\ ClientOf[e] = ClientOf[d]}

(* upsert_agent: the whole copy a replaces whatever is stored (no etag).   *)
Store(r, d, a) ==
    /\ agents' = [agents EXCEPT ![d] = a]
    /\ stale' = [q \in Requests |->
                    IF q = r THEN stale[q] \ {d} ELSE stale[q] \union Outdated(q, d)]

(* upsert_agent as the last write of a handler, which then ends.           *)
StoreAndFinish(r) ==
    /\ agents' = [agents EXCEPT ![target[r]] = held[r][target[r]]]
    /\ stale' = [q \in Requests |->
                    IF q = r THEN {} ELSE stale[q] \union Outdated(q, target[r])]
    /\ pc' = [pc EXCEPT ![r] = "idle"]
    /\ target' = [target EXCEPT ![r] = NoId]
    /\ held' = [held EXCEPT ![r] = Nothing]

Copy(r) == held[r][target[r]]
----------------------------------------------------------------------------
(* PUT /agents/handshake (handshake_agent_use_case.py).                    *)

HandshakeKnown(r, c) ==
    \E d \in FirstFor(c) :
        /\ CanDeactivate(agents[d])    \* DEACTIVATING and DELETED are ignored
        /\ Take(r, d, Handshaken(agents[d], running[c]), "handshake")

(* uuid4: an id no document and no pending creation uses.                  *)
Fresh(d) == agents[d] = NoDoc /\ \A q \in Requests : held[q][d] = NoDoc

HandshakeFirst(r, c) ==
    /\ StoredFor(c) = {}
    /\ \E d \in Ids : /\ ClientOf[d] = c
                      /\ Fresh(d)
                      /\ Take(r, d, NewAgent(running[c]), "handshake")

Handshake(r, c) ==
    /\ rg[c] # "gone"
    /\ HandshakeKnown(r, c) \/ HandshakeFirst(r, c)
    /\ UNCHANGED <<agents, enabled, azure, frontend>>

HandshakeSave(r) ==
    /\ pc[r] = "handshake"
    /\ StoreAndFinish(r)
    /\ UNCHANGED <<enabled, azure, frontend>>

----------------------------------------------------------------------------
(* PATCH /agents/{id} (update_agent_use_case.py): any status but DELETED   *)
(* may be overwritten with the one the operator names; None keeps it.      *)

Patch(r, d) ==
    /\ d \in Stored
    /\ ~IsDeleted(agents[d])
    /\ \E s \in PatchStatuses \union {agents[d].status} :
           Take(r, d, WithStatus(agents[d], s), "patch")
    /\ UNCHANGED <<agents, enabled, azure, frontend>>

PatchSave(r) ==
    /\ pc[r] = "patch"
    /\ StoreAndFinish(r)
    /\ UNCHANGED <<enabled, azure, frontend>>

----------------------------------------------------------------------------
(* POST /agents/{id}/request-update (request_agent_update_use_case.py).    *)

RequestUpdate(r, d) ==
    /\ d \in Stored
    /\ ~IsDeleted(agents[d])
    /\ Take(r, d, agents[d], "update_checks")
    /\ UNCHANGED <<agents, enabled, azure, frontend>>

(* The PUT of the new package URL.  It may fail before or after Azure      *)
(* applied it; the document is written only by UpdateSave, afterwards.     *)
UpdateSettings(r) ==
    /\ pc[r] = "update_checks"
    /\ \E v \in Packages \ {Copy(r).version}, applied, reported \in BOOLEAN :
          /\ applied => rg[ClientOf[target[r]]] # "gone"
          /\ reported => applied
          /\ installed' =
                IF applied
                THEN [installed EXCEPT ![ClientOf[target[r]]] = v] ELSE installed
          /\ Mutate(r, WithStatus(Copy(r), IF reported THEN "UPDATING"
                                           ELSE "UPDATING_FAILED"), "update_save")
    /\ UNCHANGED <<agents, enabled, rg, running, frontend, target, stale>>

UpdateSave(r) ==
    /\ pc[r] = "update_save"
    /\ StoreAndFinish(r)
    /\ UNCHANGED <<enabled, azure, frontend>>

----------------------------------------------------------------------------
(* DELETE /agents/{id} (deactivate_agent_use_case.py).  An agent that is   *)
(* DEACTIVATING or DELETED is refused with a conflict.                     *)

Deactivate(r, d) ==
    /\ d \in Stored
    /\ CanDeactivate(agents[d])
    /\ Take(r, d, agents[d], "deact_check")
    /\ UNCHANGED <<agents, enabled, azure, frontend>>

BugDeactivateSave(r) ==     \* the upsert is left to the end
    /\ pc[r] = "deact_check"
    /\ Mutate(r, Deactivated(Copy(r)), "deact_azure")
    /\ UNCHANGED <<agents, enabled, azure, frontend, target, stale>>

DeactivateSave(r) ==
    /\ pc[r] = "deact_check"
    /\ LET a == Deactivated(Copy(r))
       IN  Store(r, target[r], a) /\ Mutate(r, a, "deact_azure")
    /\ UNCHANGED <<enabled, azure, frontend, target>>

(* delete_resource_group: 404 counts as success; the deletion Azure accepts*)
(* runs on after the call.                                                 *)
RequestRgDeletion(c) ==
    rg' = IF rg[c] = "present" THEN [rg EXCEPT ![c] = "deleting"] ELSE rg

(* The call may raise although Azure accepted it (a lost answer).          *)
DeactivateAzure(r) ==
    /\ pc[r] = "deact_azure"
    /\ \/ /\ RequestRgDeletion(ClientOf[target[r]])
          /\ Mutate(r, Copy(r), "disable")
       \/ /\ RequestRgDeletion(ClientOf[target[r]]) \/ UNCHANGED rg
          /\ Mutate(r, WithStatus(Copy(r), "DEACTIVATE_FAILED"), "deact_failed")
    /\ UNCHANGED <<agents, enabled, installed, running, frontend, target, stale>>

BugDeactivateFailedSave(r) ==     \* marked, never upserted
    /\ pc[r] = "deact_failed"
    /\ Mutate(r, Copy(r), "disable")
    /\ UNCHANGED <<agents, enabled, azure, frontend, target, stale>>

DeactivateFailedSave(r) ==
    /\ pc[r] = "deact_failed"
    /\ Store(r, target[r], Copy(r))
    /\ Mutate(r, Copy(r), "disable")
    /\ UNCHANGED <<enabled, azure, frontend, target>>

(* disable_by_agent(key) is best effort: an error is logged and dropped.   *)
DisableSchedules(key) ==
    \/ enabled' = enabled \ {key}
    \/ "schedule_error" \in Faults /\ UNCHANGED enabled

Disable(r) ==
    /\ pc[r] = "disable"
    /\ DisableSchedules(target[r])
    /\ Finish(r)
    /\ UNCHANGED <<agents, azure, frontend>>

----------------------------------------------------------------------------
(* POST /agents/{id}/confirm-deletion (confirm_agent_deletion_use_case.py)*)
(* trusts its caller: no line of it looks at the resource group.           *)

Confirm(r, d) ==
    /\ d \in Stored
    /\ CanConfirm(agents[d])
    /\ IF IsDeleted(agents[d])
       THEN /\ Take(r, d, agents[d], "confirm")
            /\ UNCHANGED trusted
       ELSE /\ Take(r, d, ConfirmDeletion(agents[d]), "confirm")
            /\ trusted' = trusted \union ({d} \ seenGone)
    /\ UNCHANGED <<agents, enabled, azure, seenGone>>

(* The front end itself calls it once azure-status said the group is gone. *)
ConfirmSeen(r, d) == d \in seenGone /\ Confirm(r, d)

ConfirmSave(r) ==
    /\ pc[r] = "confirm"
    /\ Store(r, target[r], Copy(r))
    /\ Mutate(r, Copy(r), "disable")
    /\ UNCHANGED <<enabled, azure, frontend, target>>

(* GET /agents/{id}/resource-group answers exists=false.                   *)
BugRgExists(c) == rg[c] = "present"
RgExists(c) == rg[c] # "gone"

CheckResourceGroup(d) ==
    /\ d \in Stored \ seenGone
    /\ ~IsDeleted(agents[d])
    /\ ~RgExists(ClientOf[d])
    /\ seenGone' = seenGone \union {d}
    /\ UNCHANGED <<agents, enabled, azure, trusted, request, stale>>

----------------------------------------------------------------------------
(* The tenant administrator removes the Teams app                          *)
(* (tenant_admin_uninstall_use_case.py): every agent that was not DELETED  *)
(* when the list was read, one after the other, in the query's order.      *)

(* Mutant: only the agents that are ACTIVE are listed.                     *)
BugUninstall(r) ==
    /\ pc[r] = "idle"
    /\ LET live == {d \in Stored : agents[d].status = "ACTIVE"}
       IN  /\ live # {}
           /\ held' = [held EXCEPT ![r] =
                          [d \in Ids |-> IF d \in live THEN agents[d] ELSE NoDoc]]
    /\ pc' = [pc EXCEPT ![r] = "uninst_token"]
    /\ target' = [target EXCEPT ![r] = NoId]
    /\ stale' = [stale EXCEPT ![r] = {}]
    /\ UNCHANGED <<agents, enabled, azure, frontend>>

Uninstall(r) ==
    /\ pc[r] = "idle"
    /\ LET live == {d \in Stored : ~IsDeleted(agents[d])}
       IN  /\ live # {}
           /\ held' = [held EXCEPT ![r] =
                          [d \in Ids |-> IF d \in live THEN agents[d] ELSE NoDoc]]
    /\ pc' = [pc EXCEPT ![r] = "uninst_token"]
    /\ target' = [target EXCEPT ![r] = NoId]
    /\ stale' = [stale EXCEPT ![r] = {}]
    /\ UNCHANGED <<agents, enabled, azure, frontend>>

(* The resource group goes first, whatever the agent's status; then        *)
(* deactivate() raises on an agent that was already DEACTIVATING, and the  *)
(* rest of the list is dropped.                                            *)
UninstallDelete(r) ==
    /\ pc[r] \in {"uninst_token", "uninst_loop"}
    /\ \E d \in Ids :
          /\ held[r][d] # NoDoc
          /\ RequestRgDeletion(ClientOf[d]) \/ UNCHANGED rg
          /\ \/ /\ CanDeactivate(held[r][d])
                /\ target' = [target EXCEPT ![r] = d]
                /\ held' = [held EXCEPT ![r][d] = Deactivated(@)]
                /\ pc' = [pc EXCEPT ![r] = "uninst_save"]
                /\ UNCHANGED stale
             \/ /\ ~CanDeactivate(held[r][d])
                /\ Finish(r)
    /\ UNCHANGED <<agents, enabled, installed, running, frontend>>

UninstallSave(r) ==
    /\ pc[r] = "uninst_save"
    /\ Store(r, target[r], Copy(r))
    /\ Mutate(r, Copy(r), "uninst_disable")
    /\ UNCHANGED <<enabled, azure, frontend, target>>

(* The schedules are looked up by the client id here (line 97), everywhere *)
(* else by the document id.                                                *)
UninstallDisable(r) ==
    /\ pc[r] = "uninst_disable"
    /\ DisableSchedules(ClientOf[target[r]])
    /\ IF \E d \in Ids \ {target[r]} : held[r][d] # NoDoc
       THEN Mutate(r, NoDoc, "uninst_loop") /\ UNCHANGED <<target, stale>>
       ELSE Finish(r)
    /\ UNCHANGED <<agents, azure, frontend>>

----------------------------------------------------------------------------
(* An enabled schedule of agent d appears (module ScheduledRun has it all).*)
EnableSchedule(d) ==
    /\ d \in Stored \ enabled
    /\ enabled' = enabled \union {d}
    /\ UNCHANGED <<agents, azure, frontend, request, stale>>

(* Rejections before the first write: 403, no package, no token, no bot.   *)
Reject(r) ==
    /\ pc[r] \in {"patch", "update_checks", "deact_check", "uninst_token"}
    /\ Finish(r)
    /\ UNCHANGED <<agents, enabled, azure, frontend>>

Abort(r) ==
    /\ "abort" \in Faults
    /\ pc[r] # "idle"
    /\ Finish(r)
    /\ UNCHANGED <<agents, enabled, azure, frontend>>

(* Azure and the function app.                                             *)
FunctionAppRestart(c) ==
    /\ rg[c] # "gone"
    /\ running[c] # installed[c]
    /\ running' = [running EXCEPT ![c] = installed[c]]
    /\ UNCHANGED <<agents, enabled, rg, installed, frontend, request, stale>>

RgGone(c) ==
    /\ rg[c] = "deleting"
    /\ rg' = [rg EXCEPT ![c] = "gone"]
    /\ UNCHANGED <<agents, enabled, installed, running, frontend, request, stale>>

RgDeletionFails(c) ==
    /\ "azure_async" \in Faults
    /\ rg[c] = "deleting"
    /\ rg' = [rg EXCEPT ![c] = "present"]
    /\ UNCHANGED <<agents, enabled, installed, running, frontend, request, stale>>

----------------------------------------------------------------------------
Arrive(r) ==
    \/ "handshake" \in Operations /\ \E c \in Clients : Handshake(r, c)
    \/ "patch" \in Operations /\ \E d \in Ids : Patch(r, d)
    \/ "update" \in Operations /\ \E d \in Ids : RequestUpdate(r, d)
    \/ "deactivate" \in Operations /\ \E d \in Ids : Deactivate(r, d)
    \/ "confirm" \in Operations /\ \E d \in Ids : Confirm(r, d)
    \/ "uninstall" \in Operations /\ Uninstall(r)

Proceed(r) ==
    \/ HandshakeSave(r) \/ PatchSave(r) \/ ConfirmSave(r) \/ Disable(r)
    \/ UpdateSettings(r) \/ UpdateSave(r)
    \/ DeactivateSave(r) \/ DeactivateAzure(r) \/ DeactivateFailedSave(r)
    \/ UninstallDelete(r) \/ UninstallSave(r) \/ UninstallDisable(r)

Azure(c) == FunctionAppRestart(c) \/ RgGone(c) \/ RgDeletionFails(c)

Next ==
    \/ \E r \in Requests : Arrive(r) \/ Proceed(r) \/ Reject(r) \/ Abort(r)
    \/ \E d \in Ids : CheckResourceGroup(d)
    \/ "schedule" \in Operations /\ \E d \in Ids : EnableSchedule(d)
    \/ \E c \in Clients : Azure(c)

Spec == Init /\ [][Next]_vars

(* A handler runs to its end unless cut short, Azure finishes what it      *)
(* accepted, an app restarts after a settings change and its agent repeats *)
(* the handshake, and the front end polls azure-status and confirms.  A    *)
(* request that arrives again and again is served in the end (strong       *)
(* fairness: a busy slot is an artefact of the model).                     *)
Fairness ==
    /\ \A r \in Requests : WF_vars(Proceed(r) \/ Reject(r))
    /\ \A c \in Clients : /\ WF_vars(FunctionAppRestart(c))
                          /\ WF_vars(RgGone(c))
                          /\ SF_vars(\E r \in Requests : Handshake(r, c))
    /\ \A d \in Ids : /\ WF_vars(CheckResourceGroup(d))
                      /\ SF_vars(\E r \in Requests : ConfirmSeen(r, d))

FairSpec == Spec /\ Fairness

----------------------------------------------------------------------------
(* Properties.                                                             *)

StatusOf(a) == IF a = NoDoc THEN "none" ELSE a.status
Statuses == [d \in Ids |-> StatusOf(agents[d])]
Machine == INSTANCE AgentStateMachine WITH status <- Statuses

(* With one request at a time the documents go through exactly the         *)
(* transitions the Agent entity allows, and a client has one document.     *)
SerialMachine == Machine!Spec

(* An upsert of d by a request whose copy was out of date: a lost update.  *)
LostUpdate ==
    /\ agents' # agents
    /\ \E r \in Requests : \E d \in stale[r] : d \notin stale'[r]

(* However requests interleave, every change of a stored status that is    *)
(* not a lost update is a transition the Agent entity allows; in           *)
(* particular a DELETED document comes back, and a client gets a second    *)
(* document, only through a lost update (upsert without etag).             *)
OnlyLostUpdatesDeviate == [][LostUpdate \/ [Machine!Next]_Statuses]_vars

(* deleted_at is stamped only on DELETED documents, in the container and   *)
(* in every copy in flight, and while the resource group exists only on    *)
(* the word of a caller who had not seen it gone, because                  *)
(* confirm_agent_deletion_use_case.py:31-36 does not look: confirm_deletion*)
(* is the only writer of the stamp, a group that azure-status called gone  *)
(* stays gone, and no stale copy puts the stamp on a live document.        *)
Deleted(a) == a # NoDoc /\ a.deletedAt
StampedOnlyWhenGone ==
    \A d \in Ids : \A a \in {agents[d]} \union {held[r][d] : r \in Requests} :
        Deleted(a) => /\ IsDeleted(a)
                      /\ rg[ClientOf[d]] = "gone" \/ d \in trusted

(* Nobody's resources go without a record.  In every step with which Azure *)
(* accepts the deletion of a client's resource group, the request that asks*)
(* for it works on a document d of that client, and                        *)
(*  - it is a deactivation, which stored DEACTIVATING before it asked      *)
(*    (deactivate_agent_use_case.py:58-61), or                             *)
(*  - it is an uninstall, which asks first                                 *)
(*    (tenant_admin_uninstall_use_case.py:77-94) and has the DEACTIVATING  *)
(*    copy in hand to store next, or whose deactivate() raises because d   *)
(*    was found DEACTIVATING.                                              *)
(* Recorded: DEACTIVATING is stored, unless another request overwrote the  *)
(* document after this one read or stored it.                              *)
Recorded(r, d) == d \in stale[r] \/ StatusOf(agents[d]) = "DEACTIVATING"
AboutToRecord(r, d) ==
    pc[r] = "uninst_save" /\ target[r] = d /\ Copy(r).status = "DEACTIVATING"
DestructionIsRecorded ==
    [][\A c \in Clients : rg[c] = "present" /\ rg'[c] = "deleting" =>
           \E r \in Requests, d \in Ids :
              /\ ClientOf[d] = c
              /\ held[r][d] # NoDoc
              /\ \/ pc[r] = "deact_azure" /\ target[r] = d /\ Recorded(r, d)
                 \/ /\ pc[r] \in {"uninst_token", "uninst_loop"}
                    /\ AboutToRecord(r, d)' \/ (pc'[r] = "idle" /\ Recorded(r, d))]_vars

(* With one request at a time, an uninstall whose loop comes to its end    *)
(* has left no agent of the tenant that could still be deactivated, in     *)
(* whatever statuses and order it found them                               *)
(* (tenant_admin_uninstall_use_case.py:68-110); only one that raises or    *)
(* stops on its way does.                                                  *)
SerialUninstallIsComplete ==
    \A r \in Requests :
        pc[r] = "uninst_disable" /\ (\A d \in Ids \ {target[r]} : held[r][d] = NoDoc)
            => \A d \in Stored : ~CanDeactivate(agents[d])

(* An agent does not stay DEACTIVATING: the deletion is confirmed, or it   *)
(* fails and the document says so (docs/agent-deactivation.md:67-74).      *)
DeactivatingEnds ==
    \A d \in Ids : StatusOf(agents[d]) = "DEACTIVATING"
                       ~> StatusOf(agents[d]) # "DEACTIVATING"

(* An OTA update ends.  An agent that is UPDATING while its app settings   *)
(* name another version than the one recorded, which is how request-update *)
(* leaves it, stops being UPDATING: the restarted agent's handshake reports*)
(* the other version, even when UPDATING was stored after that handshake   *)
(* (request_agent_update_use_case.py:84-107).  Two things excuse it: the   *)
(* resource group is gone, because request-update also takes an agent that *)
(* is being deactivated; and another request is about to store UPDATING in *)
(* a copy it read before the document was last written.  Such a copy may   *)
(* leave the agent UPDATING to the version it already runs, and there it   *)
(* stays: Handshaken then keeps UPDATING for ever.                         *)
UpdateUnderway(d) ==
    /\ StatusOf(agents[d]) = "UPDATING"
    /\ agents[d].version # installed[ClientOf[d]]
OutdatedUpdating(d) ==
    \E r \in Requests : /\ pc[r] \in {"handshake", "patch", "update_save"}
                        /\ d \in stale[r]
                        /\ held[r][d].status = "UPDATING"
UpdatingEnds ==
    \A d \in Ids : UpdateUnderway(d) ~> \/ StatusOf(agents[d]) # "UPDATING"
                                        \/ rg[ClientOf[d]] = "gone"
                                        \/ OutdatedUpdating(d)

----------------------------------------------------------------------------
(* What comments and documents of the repository say, and the code does    *)
(* not do.                                                                 *)

(* "A handshake of an agent that is DELETED or DEACTIVATING is ignored"    *)
(* (handshake_agent_use_case.py:28): it never turns such a document ACTIVE.*)
HandshakeNeverRevives ==
    [][\A d \in Ids : StatusOf(agents[d]) \in {"DEACTIVATING", "DELETED"}
                          => StatusOf(agents'[d]) # "ACTIVE"]_vars
=============================================================================
