------------------------- MODULE TenantRegistration -------------------------
(***************************************************************************)
(* The document of one tenant and the two handlers that write it: the      *)
(* registration (POST /tenants) and the partial update (PATCH /tenants/me).*)
(* Both read the document, call Microsoft Graph several times, and upsert  *)
(* the whole document without an etag.  Graph keeps two more pieces of     *)
(* state that no transaction ties to the document: the app roles of the    *)
(* tenant's users, without which a user cannot sign in, and the teams in   *)
(* which it was asked to install the app.                                  *)
(***************************************************************************)
EXTENDS Naturals

CONSTANTS
    Users,            \* object ids of the tenant's users
    Emails,           \* addresses by which operators are named
    UserOf,           \* the user Graph finds under each address
    DirectoryAdmins,  \* users privileged without an app role of this tenant
    Teams,            \* Teams teams of the tenant
    Channels,         \* channels of whichever teams
    Requests,         \* request slots: how many requests run at once
    MaxRequests,      \* bound: requests in a run
    None              \* "no document", "no user", "no team", "no channel"

ASSUME TenantAssumption ==
    /\ UserOf \in [Emails -> Users]
    /\ DirectoryAdmins \subseteq Users
    /\ MaxRequests \in Nat
    /\ None \notin Teams \union Channels \union Users

Roles == {"TenantAdmin", "PrivilegedUser"}

(* accounts are the addresses in privileged_accounts; the user_id stored   *)
(* with an address is UserOf of it.  team and channel are team_id and      *)
(* channel_id of teams_info, in which a missing one and None are alike;    *)
(* service_url, merged in the same way, is left out.                       *)
(* History fields: the user who registered, the users whom the last        *)
(* assignment left without a role on purpose or by a failure, and whether  *)
(* the team is still the one that came with the registration.              *)
Tenant == [accounts : SUBSET Emails,
           team : Teams \union {None}, channel : Channels \union {None},
           registrant : Users, excused : SUBSET Users, initial : BOOLEAN]

ASSUME NoneAssumption == None \notin Tenant

VARIABLES
    tenant,      \* the document in the tenants container, or None
    roles,       \* app role assignments in Entra ID: user -> roles
    tried,       \* teams Graph was asked to install the app in
    pc,          \* request -> next thing the handler does
    caller,      \* request -> identity.id while it has roles to assign, or None
    held,        \* request -> its private Tenant object
    fresh,       \* history: request -> did nobody write since it read?
    started      \* how many of MaxRequests arrived

graph == <<roles, tried>>
vars == <<tenant, graph, pc, caller, held, fresh, started>>

RegisterStates == {"admin", "others"}
UpdateStates == {"install", "assign"}
States == {"idle", "store"} \union RegisterStates \union UpdateStates

TypeOK ==
    /\ tenant \in Tenant \union {None}
    /\ roles \in [Users -> SUBSET Roles]
    /\ tried \subseteq Teams
    /\ pc \in [Requests -> States]
    /\ caller \in [Requests -> Users \union {None}]
    /\ held \in [Requests -> Tenant \union {None}]
    /\ fresh \in [Requests -> BOOLEAN]
    /\ started \in 0 .. MaxRequests

Init ==
    /\ tenant = None
    /\ roles = [u \in Users |-> {}]
    /\ tried = {}
    /\ pc = [q \in Requests |-> "idle"]
    /\ caller = [q \in Requests |-> None]
    /\ held = [q \in Requests |-> None]
    /\ fresh = [q \in Requests |-> FALSE]
    /\ started = 0

UsersOf(E) == {UserOf[e] : e \in E}
RoleHolders == {u \in Users : roles[u] # {}}

(* A request arrives and reads the document.  What the handler computes    *)
(* for itself is in this step, lookups of users included: doc is the       *)
(* object it will store, but for those it will find without a role.        *)
Begin(q, u, doc, next) ==
    /\ pc[q] = "idle" /\ started < MaxRequests
    /\ started' = started + 1
    /\ pc' = [pc EXCEPT ![q] = next]
    /\ caller' = [caller EXCEPT ![q] = u]
    /\ held' = [held EXCEPT ![q] = doc]
    /\ fresh' = [fresh EXCEPT ![q] = TRUE]
    /\ UNCHANGED <<tenant, graph>>

Proceed(q, next) ==
    /\ pc' = [pc EXCEPT ![q] = next]
    /\ UNCHANGED <<tenant, caller, held, fresh, started>>

Others(q) == UsersOf(held[q].accounts) \ {caller[q]}

(* All roles are assigned, or were not: excused are left without.          *)
Staff(q, excused) ==
    /\ pc' = [pc EXCEPT ![q] = "store"]
    /\ caller' = [caller EXCEPT ![q] = None]
    /\ held' = [held EXCEPT ![q].excused = excused]
    /\ UNCHANGED <<tenant, tried, fresh, started>>

Finish(q) ==
    /\ pc' = [pc EXCEPT ![q] = "idle"]
    /\ caller' = [caller EXCEPT ![q] = None]
    /\ held' = [held EXCEPT ![q] = None]

(* _execute_role_assignment: the users of ok get the role, or had it.      *)
Granted(ok, role) == [u \in Users |-> IF u \in ok THEN roles[u] \union {role} ELSE roles[u]]

-----------------------------------------------------------------------------
(* Mutant: the conflict check is dropped.                                  *)
BugNotRegistered == TRUE

(* A registered tenant is a conflict and ends the request.                 *)
NotRegistered == tenant = None

(* resolve_users raises unless it finds every address, and the handler     *)
(* raises as well if nobody is named.  Of two addresses of one user the    *)
(* first in the list is kept.                                              *)
Operators == {A \in SUBSET Emails : A # {} /\ \A e, f \in A : UserOf[e] = UserOf[f] => e = f}

(* POST /tenants.                                                          *)
Register(q) ==
    \E u \in Users, A \in Operators, t \in Teams \union {None}, c \in Channels \union {None} :
        /\ NotRegistered
        /\ Begin(q, u, [accounts |-> A, team |-> t, channel |-> c, registrant |-> u,
                        excused |-> {}, initial |-> TRUE], "admin")

(* Mutant: the registrant's failed assignment is skipped like the others'. *)
BugAssignAdmin(q) ==
    /\ pc[q] = "admin"
    /\ roles' \in {roles, Granted({caller[q]}, "TenantAdmin")}
    /\ Proceed(q, "others") /\ UNCHANGED tried

(* assign_user_to_app, which raises when the assignment fails.             *)
AssignAdmin(q) ==
    /\ pc[q] = "admin"
    /\ roles' = Granted({caller[q]}, "TenantAdmin")
    /\ Proceed(q, "others") /\ UNCHANGED tried

(* assign_users_to_app: a failed assignment is logged and skipped.         *)
AssignOthers(q) ==
    /\ pc[q] = "others"
    /\ \E ok \in SUBSET Others(q) :
        /\ roles' = Granted(ok, "PrivilegedUser")
        /\ Staff(q, Others(q) \ ok)

-----------------------------------------------------------------------------
(* Mutant: the app is installed only for the first team.                   *)
BugNewTeam(t) == t # None /\ tenant.team = None

(* The app is installed in a team that differs from the one the handler    *)
(* read.  A new channel installs nothing.                                  *)
NewTeam(t) == t # None /\ t # tenant.team

(* Each member of teams_info that is set replaces the stored one.          *)
WithTeam(t, c) ==
    [tenant EXCEPT !.team = IF t = None THEN @ ELSE t,
                   !.initial = @ /\ t \in {None, tenant.team},
                   !.channel = IF c = None THEN @ ELSE c]

(* Mutant: user ids get among the addresses.                               *)
BugMerged(doc, E) == doc.accounts \union UsersOf(E)

(* account_map: the operators of the document and of the payload; those    *)
(* without a user id are looked up, which raises unless all are found.     *)
Merged(doc, E) == doc.accounts \union E

(* PATCH /tenants/me, by a caller whose token names an app role, or one    *)
(* that makes him privileged besides.  Without a document the request ends *)
(* (404).  The payload has teams_info, in which anything may be missing,   *)
(* or privileged_accounts besides or instead; with neither nothing happens.*)
UpdateTeam(q) ==
    \E t \in Teams \union {None}, c \in Channels \union {None} :
        /\ RoleHolders \union DirectoryAdmins # {}
        /\ tenant # None
        /\ Begin(q, None, WithTeam(t, c), IF NewTeam(t) THEN "install" ELSE "store")

(* The stored operators are in the merger, so that it is never refused for *)
(* naming nobody.                                                          *)
UpdateOperators(q) ==
    \E u \in RoleHolders \union DirectoryAdmins, E \in SUBSET Emails,
       t \in Teams \union {None}, c \in Channels \union {None} :
        /\ tenant # None
        /\ Begin(q, u, [WithTeam(t, c) EXCEPT !.accounts = Merged(tenant, E)],
                 IF NewTeam(t) THEN "install" ELSE "assign")

(* ensure_app_installed_in_team: the handler goes on even if this fails.   *)
InstallApp(q) ==
    /\ pc[q] = "install"
    /\ tried' = tried \union {held[q].team}
    /\ Proceed(q, IF caller[q] = None THEN "store" ELSE "assign")
    /\ UNCHANGED roles

(* Mutant: only those are assigned whom the stored document does not have. *)
BugAssigned(q) == Others(q) \ UsersOf(tenant.accounts)

(* Everybody in account_map except the caller is assigned the role again.  *)
Assigned(q) == Others(q)

(* He himself is not, which leaves an administrator of the directory       *)
(* without a role if he is among the operators.                            *)
AssignMerged(q) ==
    /\ pc[q] = "assign"
    /\ \E ok \in SUBSET Assigned(q) :
        /\ roles' = Granted(ok, "PrivilegedUser")
        /\ Staff(q, (Assigned(q) \ ok) \union ({caller[q]} \intersect DirectoryAdmins))

-----------------------------------------------------------------------------
(* repository.upsert of either handler.                                    *)
Store(q) ==
    /\ pc[q] = "store"
    /\ tenant' = held[q]
    /\ fresh' = [p \in Requests |-> FALSE]
    /\ Finish(q)
    /\ UNCHANGED <<graph, started>>

(* Graph, Entra ID or Cosmos raises, nobody is named, or the replica is    *)
(* restarted.  What Graph did so far stays done.                           *)
Abort(q) ==
    /\ pc[q] # "idle"
    /\ Finish(q)
    /\ fresh' = [fresh EXCEPT ![q] = FALSE]
    /\ UNCHANGED <<tenant, graph, started>>

Step(q) ==
    \/ Register(q) \/ AssignAdmin(q) \/ AssignOthers(q)
    \/ UpdateTeam(q) \/ UpdateOperators(q) \/ InstallApp(q) \/ AssignMerged(q)
    \/ Store(q) \/ Abort(q)

Next == \E q \in Requests : Step(q)

Spec == Init /\ [][Next]_vars

-----------------------------------------------------------------------------
(* An operator, the team, the channel or the registrant that is stored     *)
(* disappears only when a request writes that read the document before     *)
(* somebody else wrote it (register_tenant_use_case.py:34 to :93,          *)
(* update_tenant_use_case.py:39 to :105): the conflict check and the merge *)
(* lose nothing else.                                                      *)
OnlyStaleWritesUndo ==
    [][\A q \in Requests :
          /\ tenant # None /\ tenant' # tenant
          /\ pc[q] = "store" /\ pc'[q] = "idle" /\ fresh[q]
          => /\ tenant.accounts \subseteq tenant'.accounts
             /\ tenant.team # None => tenant'.team # None
             /\ tenant.channel # None => tenant'.channel # None
             /\ tenant'.registrant = tenant.registrant]_vars

(* Every stored operator can sign in: he holds an app role, unless his     *)
(* assignment in the request that wrote the document failed                *)
(* (graph_service.py:71) or he is an administrator of the directory who    *)
(* named himself.  The roles are assigned before the document is stored,   *)
(* by requests that may overlap or die in between.                         *)
OperatorsHaveRoles ==
    tenant # None => UsersOf(tenant.accounts) \subseteq RoleHolders \union tenant.excused

(* Whoever registered the stored tenant is its TenantAdmin, whichever of   *)
(* two overlapping registrations wrote last                                *)
(* (register_tenant_use_case.py:80-83).                                    *)
RegistrantIsAdmin ==
    tenant # None => "TenantAdmin" \in roles[tenant.registrant]

(* Graph was asked to install the app in the stored team, unless it has    *)
(* been the team since the registration: that handler installs nothing, and*)
(* a PATCH that repeats the team skips the installation                    *)
(* (update_tenant_use_case.py:51).  Of the team of the stored channel this *)
(* says nothing, and the code does not look at it.                         *)
TeamsAreTried ==
    tenant # None /\ ~tenant.initial => tenant.team \in tried
=============================================================================
