------------------------- MODULE AgentStateMachine -------------------------
(***************************************************************************)
(* What the Agent entity promises about the status of one document: the    *)
(* transitions its methods allow, each method applied to the status that   *)
(* is stored at that moment (src/app/domains/agent/models/agent.py), with  *)
(* the guards of the use cases that call it.  AgentLifecycle is the        *)
(* detailed system; it implements this machine as long as no request       *)
(* overwrites a document that changed after it was read.                   *)
(***************************************************************************)
CONSTANTS
    Ids,             \* document ids
    ClientOf,        \* document id -> client agent_id that registered it
    PatchStatuses    \* statuses operators send to PATCH /agents/{id}

VARIABLE status      \* document id -> stored status, "none" when absent

AgentStatus ==
    {"INITIALIZING", "ACTIVE", "UPDATING", "UPDATING_FAILED",
     "DEACTIVATING", "DEACTIVATE_FAILED", "DELETED", "UNKNOWN"}

(* Handshake: the first one creates the document ACTIVE, later ones only   *)
(* complete an installation or an update.                                  *)
ByHandshake(from, to) ==
    /\ from \in {"none", "INITIALIZING", "UPDATING"}
    /\ to = "ACTIVE"

(* One document per client: a handshake creates one only when none exists. *)
Unregistered(d) == \A e \in Ids : ClientOf[e] = ClientOf[d] => status[e] = "none"

(* request-update: any document that is not DELETED.                       *)
ByUpdate(from, to) ==
    /\ from \notin {"none", "DELETED"}
    /\ to \in {"UPDATING", "UPDATING_FAILED"}

(* DELETE /agents/{id} and the uninstall event.                            *)
ByDeactivation(from, to) ==
    \/ /\ from \notin {"none", "DEACTIVATING", "DELETED"}
       /\ to = "DEACTIVATING"
    \/ /\ from = "DEACTIVATING"
       /\ to \in {"DEACTIVATE_FAILED", "DELETED"}

(* PATCH /agents/{id}: whatever status the operator names, unless DELETED. *)
ByPatch(from, to) ==
    /\ from \notin {"none", "DELETED"}
    /\ to \in PatchStatuses

Allowed(from, to) ==
    \/ ByHandshake(from, to)
    \/ ByUpdate(from, to)
    \/ ByDeactivation(from, to)
    \/ ByPatch(from, to)

Init == status = [d \in Ids |-> "none"]

Move(d, to) ==
    /\ Allowed(status[d], to)
    /\ status[d] = "none" => Unregistered(d)
    /\ status' = [status EXCEPT ![d] = to]

Next == \E d \in Ids, to \in AgentStatus : Move(d, to)

Spec == Init /\ [][Next]_status

=============================================================================
