---------------------------- MODULE AccessControl ----------------------------
(***************************************************************************)
(* What the token of a request entitles its sender to.  Every handler gets *)
(* the identity that IdentityExtractor derives from the token; a guard of  *)
(* the route and conditions of the handler decide on it.  Before it calls  *)
(* Azure the handler exchanges the token on behalf of the user (OBO),      *)
(* which Entra ID may refuse for reasons the front end must tell apart.    *)
(***************************************************************************)

AppRoles == {"PlatformAdmin", "TenantAdmin", "PrivilegedUser"}

(* platform: the token's tenant is settings.TENANT_ID.  directoryAdmin: a  *)
(* wid or group is a role that may consent for the organisation.  named:   *)
(* upn or preferred_username is there; app: appid or azp is.  delegated:   *)
(* user_impersonation is in the scopes.                                    *)
Claims == [platform : BOOLEAN, roles : SUBSET AppRoles, directoryAdmin : BOOLEAN,
           named : BOOLEAN, app : BOOLEAN,
           audience : {"backend", "ARM", "GRAPH"}, delegated : BOOLEAN]

(* signed: the signature is Entra ID's.                                    *)
Token == [claims : Claims, signed : BOOLEAN, expired : BOOLEAN]

-----------------------------------------------------------------------------
(* Mutant: the roles of the app count for more than the directory's.       *)
BugIdentityType(c) ==
    IF c.platform /\ c.roles \intersect {"PlatformAdmin", "TenantAdmin"} # {}
    THEN "PLATFORM_ADMIN"
    ELSE IF "TenantAdmin" \in c.roles THEN "TENANT_ADMIN"
    ELSE IF "PrivilegedUser" \in c.roles THEN "PRIVILEGED_USER"
    ELSE IF c.app /\ ~c.named THEN "CI_CD"
    ELSE "USER"

(* _resolve_identity_type: the first that applies.                         *)
IdentityType(c) ==
    IF c.platform /\ (c.directoryAdmin \/ c.roles \intersect {"PlatformAdmin", "TenantAdmin"} # {})
    THEN "PLATFORM_ADMIN"
    ELSE IF c.directoryAdmin \/ "TenantAdmin" \in c.roles THEN "TENANT_ADMIN"
    ELSE IF "PrivilegedUser" \in c.roles THEN "PRIVILEGED_USER"
    ELSE IF c.app /\ ~c.named THEN "CI_CD"
    ELSE "USER"

IsPrivileged(c) ==
    IdentityType(c) \in {"PLATFORM_ADMIN", "TENANT_ADMIN", "PRIVILEGED_USER", "CI_CD"}

(* decode_and_verify.  Whatever fails, the caller gets 401 AUTH_REQUIRED:  *)
(* from the guard, or from extract_payload if the token has expired too.   *)
Authentic(t) == t.signed /\ ~t.expired /\ t.claims.audience \in {"backend", "ARM"}

(* get_current_identity, and admin_verify_guard on top of it.              *)
Identified(t) == Authentic(t)
Administers(t) == Identified(t) /\ IsPrivileged(t.claims)

-----------------------------------------------------------------------------
(* The routes and the guard each declares.                                 *)
AgentAdminRoutes == {"delete_agent", "update_agent", "confirm_agent_deletion",
                     "check_azure_resource_group_status", "request_update"}
ScheduleRoutes == {"list_schedules", "create_schedule", "update_schedule", "delete_schedule"}
PackageAdminRoutes == {"upload_package", "generate_upload_url"}
AdminRoutes == AgentAdminRoutes \union ScheduleRoutes \union PackageAdminRoutes

TenantRoutes == {"get_my_tenant_status", "update_my_tenant", "register_tenant",
                 "list_available_channels", "get_team_detail", "list_available_teams",
                 "list_user_subscriptions", "get_subscription_setup_info",
                 "list_resource_groups", "list_subscription_administrators"}
ReportRoutes == {"create_report", "list_reports", "get_report", "list_diagnoses",
                 "receive_diagnoses", "update_report_status", "update_diagnosis_resolution"}

(* Of the routes behind get_current_identity, the PATCH of the tenant asks *)
(* for an administrator itself.                                            *)
AdministratorRoutes == AdminRoutes \union {"update_my_tenant"}
Routes == AdminRoutes \union TenantRoutes \union ReportRoutes

OpenTo(t) ==
    IF Administers(t) THEN Routes
    ELSE IF Identified(t) THEN Routes \ AdministratorRoutes
    ELSE {}

-----------------------------------------------------------------------------
(* What Entra ID says to an exchange: a token, nothing (the call raises),  *)
(* or an error with the symptoms found in it.                              *)
Symptoms == {"mfa", "consent", "unassigned"}
Replies == [kind : {"token", "unreachable"}, symptoms : {{}}]
             \union [kind : {"error"}, symptoms : SUBSET Symptoms]

(* _handle_msal_error: the first that applies.                             *)
OboError(symptoms) ==
    IF "mfa" \in symptoms THEN "MFA_REQUIRED"
    ELSE IF "consent" \in symptoms THEN "CONSENT_REQUIRED"
    ELSE IF "unassigned" \in symptoms THEN "NOT_ASSIGNED"
    ELSE "OBO_FAILED"

(* _is_token_already_for_target.                                           *)
AlreadyFor(c, target) == c.audience = target \/ (target = "ARM" /\ c.delegated)

(* get_obo_token; expiry is looked at again.                               *)
Exchange(t, target, reply) ==
    IF t.expired THEN "AUTH_REQUIRED"
    ELSE IF AlreadyFor(t.claims, target) \/ reply.kind = "token" THEN "ok"
    ELSE IF reply.kind = "unreachable" THEN "UNREACHABLE"
    ELSE OboError(reply.symptoms)

-----------------------------------------------------------------------------
(* GET /tenants/me.  An administrator of the directory gets past a failed  *)
(* exchange unless consent or a second factor is missing.                  *)
TenantStatus(t, registered, reply) ==
    LET obo == Exchange(t, "ARM", reply) IN
    IF obo \in {"CONSENT_REQUIRED", "MFA_REQUIRED"} THEN obo
    ELSE IF obo # "ok" /\ ~(t.claims.directoryAdmin /\ registered) THEN obo
    ELSE IF obo # "ok" THEN "ADMIN_ROLE_NOT_ASSIGNED"
    ELSE IF registered THEN "ok"
    ELSE IF t.claims.directoryAdmin THEN "TENANT_NOT_REGISTERED"
    ELSE "NOT_ASSIGNED"

(* Mutant: of a registered tenant only the stored addresses count.         *)
BugSeesSubscriptions(c, listed, registered) == IF registered THEN listed ELSE IsPrivileged(c)

(* GET /tenants/me/subscriptions and, with an empty list for an answer,    *)
(* GET /agents: listed means that the address in the token is the address  *)
(* of an operator in the document.                                         *)
SeesSubscriptions(c, listed, registered) == IsPrivileged(c) \/ (registered /\ listed)
=============================================================================
