----------------------------- MODULE ClientSetup -----------------------------
(***************************************************************************)
(* How an agent gets into a customer's subscription.  The portal link of   *)
(* GET .../setup-info leads Azure to the deployment template               *)
(* (GET /templates/client-setup.json?tenant_id=...), which names the       *)
(* principal that may send commands to the agent's queue and the version   *)
(* of the agent package that was the latest when the template was fetched. *)
(* The function app downloads that version when it is deployed, and again  *)
(* whenever it starts.  Meanwhile other packages are uploaded, and an      *)
(* update makes the app run from a link of its own.                        *)
(*                                                                         *)
(* The app's principal has another id in every tenant.  GraphService looks *)
(* it up with the tenant's token and keeps it in a field of the one        *)
(* GraphService object of the process (get_graph_service is cached).       *)
(***************************************************************************)
EXTENDS Sequences, Naturals, FiniteSets

CONSTANTS
    Tenants,     \* customers; also the id of the principal each of them has
    Replicas,    \* processes that serve the API
    Files,       \* names under which packages are uploaded, all *.zip
    Rank,        \* file -> its place in the order of the names
    Release,     \* file -> the numbers of its release, <<>> if it names none
    Candidate,   \* file -> 0 for the release itself, n for its candidate rc.n
    Mentions,    \* file -> files whose name contains the text of its version
    None         \* "nothing cached", "no principal", "no package"

ASSUME SetupAssumption ==
    /\ IsFiniteSet(Files) /\ {"latest", "unknown"} \intersect Files = {}
    /\ Rank \in [Files -> Nat]
    /\ \A f, g \in Files : Rank[f] = Rank[g] => f = g
    /\ Release \in [Files -> Seq(Nat)]
    /\ Candidate \in [Files -> Nat]
    /\ Mentions \in [Files -> SUBSET Files]
    /\ \A f \in Files : Release[f] # <<>> => f \in Mentions[f]
    /\ None \notin Tenants \union Files \union Replicas

(* The roles of a customer's user in the subscription: the required        *)
(* actions among the actions and among the notActions of each.             *)
Required == {"deployments/write", "roleDefinitions/write"}
AzureRoles == {"Owner", "Contributor", "UserAccessAdministrator"}
Actions(role) ==
    IF role = "UserAccessAdministrator" THEN {"roleDefinitions/write"} ELSE Required
NotActions(role) == IF role = "Contributor" THEN {"roleDefinitions/write"} ELSE {}

(* A version is named by the file that has it; files that name no release  *)
(* have the version "unknown".                                             *)
Versions == {f \in Files : Release[f] # <<>>}
VersionOf(f) == IF f \in Versions THEN f ELSE "unknown"

Setup ==
    [stage : {"none"}]
      \union [stage : {"linked"}, azure : SUBSET AzureRoles]
      \union [stage : {"asking"}, at : Replicas]
      \union [stage : {"listing"}, principal : Tenants \union {None}]
      \union [stage : {"template"}, principal : Tenants \union {None},
              version : Versions \union {"unknown", "latest"}]
      \union [stage : {"agent"}, version : Versions \union {"unknown", "latest"},
              runs : Files \union {None}]
      \union [stage : {"updated"}, package : Files, valid : BOOLEAN, runs : Files \union {None}]

VARIABLES
    consented,   \* tenants in which the app's principal exists
    cachedSp,    \* replica -> _cached_sp_id: a tenant's principal or None
    packages,    \* files in the container of the packages
    setup        \* tenant -> how far its agent is

vars == <<consented, cachedSp, packages, setup>>

TypeOK ==
    /\ consented \subseteq Tenants
    /\ cachedSp \in [Replicas -> Tenants \union {None}]
    /\ packages \subseteq Files
    /\ setup \in [Tenants -> Setup]

Init ==
    /\ consented = {}
    /\ cachedSp = [r \in Replicas |-> None]
    /\ packages = {}
    /\ setup = [t \in Tenants |-> [stage |-> "none"]]

At(t, stage) == setup[t].stage = stage
Becomes(t, x) == setup' = [setup EXCEPT ![t] = x]

-----------------------------------------------------------------------------
(* The numbers of a version between its dots.  Of a candidate "1.2.0-rc.1" *)
(* the part "0-rc" is no number and is left out, the 1 is a number.        *)
Numbers(f) ==
    IF Candidate[f] = 0 THEN Release[f]
    ELSE Append(SubSeq(Release[f], 1, Len(Release[f]) - 1), Candidate[f])

(* Python's order of lists.                                                *)
Less(a, b) ==
    \E i \in 1 .. Len(b) :
        /\ \A j \in 1 .. i - 1 : j <= Len(a) /\ a[j] = b[j]
        /\ i > Len(a) \/ a[i] < b[i]

(* Mutant: the order of list_all is kept.                                  *)
BugPrecedes(f, g) == Rank[f] > Rank[g]

(* list_all sorts by name, downwards; get_by_version then by the numbers,  *)
(* and keeps that order among equals.                                      *)
Precedes(f, g) ==
    \/ Less(Numbers(g), Numbers(f))
    \/ ~Less(Numbers(f), Numbers(g)) /\ Rank[f] > Rank[g]

Latest(P) ==
    IF P = {} THEN None ELSE CHOOSE f \in P : \A g \in P \ {f} : Precedes(f, g)

(* get_by_version: the first blob in whose name the version occurs.  No    *)
(* name holds the word "unknown".                                          *)
WithVersion(P, v) ==
    IF v = "latest" THEN Latest(P)
    ELSE LET found == IF v = "unknown" THEN {} ELSE P \intersect Mentions[v] IN
         IF found = {} THEN None ELSE CHOOSE f \in found : \A g \in found : Rank[f] <= Rank[g]

(* Mutant: the download leaves the version at its default.                 *)
BugDownload(P, v) == Latest(P)

(* GET /packages/download: nothing found is a 500, because the handler     *)
(* catches its own 404.                                                    *)
Download(P, v) == WithVersion(P, v)

(* Mutant: only the newest package is kept.                                *)
BugUpload(f) ==
    /\ packages' = {Latest(packages \union {f})}
    /\ UNCHANGED <<consented, cachedSp, setup>>

(* POST /packages/upload, or a PUT with the URL of /packages/upload-url at *)
(* any time while it is valid.  A package of that name is overwritten.     *)
Upload(f) ==
    /\ packages' = packages \union {f}
    /\ UNCHANGED <<consented, cachedSp, setup>>

-----------------------------------------------------------------------------
(* Mutant: what a role excludes is not looked at.                          *)
BugMayDeploy(roles) == \A a \in Required : \E r \in roles : a \in Actions(r)

(* check_deployment_permission.                                            *)
MayDeploy(roles) ==
    \A a \in Required : \E r \in roles : a \in Actions(r) /\ a \notin NotActions(r)

(* GET .../setup-info by a user with these roles; without permission, or   *)
(* if the check fails, the answer holds no link.                           *)
SetupInfo(t) ==
    /\ At(t, "none") \/ At(t, "template") \/ At(t, "agent") \/ At(t, "updated")
    /\ \E roles \in SUBSET AzureRoles :
          MayDeploy(roles) /\ Becomes(t, [stage |-> "linked", azure |-> roles])
    /\ UNCHANGED <<consented, cachedSp, packages>>

(* A tenant's administrator consents to the app.                           *)
Consent(t) ==
    /\ consented' = consented \union {t}
    /\ UNCHANGED <<cachedSp, packages, setup>>

(* The portal fetches the template (get_client_template) from a replica    *)
(* whose cache is filled ...                                               *)
FromCache(r, t) ==
    /\ At(t, "linked") /\ cachedSp[r] # None
    /\ Becomes(t, [stage |-> "listing", principal |-> cachedSp[r]])
    /\ UNCHANGED <<consented, cachedSp, packages>>

(* Mutant: the cache is filled before Graph has answered.                  *)
BugAskGraph(r, t) ==
    /\ At(t, "linked") /\ cachedSp[r] = None
    /\ Becomes(t, [stage |-> "asking", at |-> r])
    /\ cachedSp' = [cachedSp EXCEPT ![r] = t]
    /\ UNCHANGED <<consented, packages>>

(* ... or from one whose cache is empty: token and query are awaited.      *)
AskGraph(r, t) ==
    /\ At(t, "linked") /\ cachedSp[r] = None
    /\ Becomes(t, [stage |-> "asking", at |-> r])
    /\ UNCHANGED <<consented, cachedSp, packages>>

GraphAnswers(t) ==
    /\ At(t, "asking") /\ t \in consented
    /\ cachedSp' = [cachedSp EXCEPT ![setup[t].at] = t]
    /\ Becomes(t, [stage |-> "listing", principal |-> t])
    /\ UNCHANGED <<consented, packages>>

(* The lookup raises; the template goes out without the variable.          *)
GraphFails(t) ==
    /\ At(t, "asking")
    /\ Becomes(t, [stage |-> "listing", principal |-> None])
    /\ UNCHANGED <<consented, cachedSp, packages>>

(* Mutant: the name of the latest package is written, not its version.     *)
BugHandOut(t) ==
    /\ At(t, "listing")
    /\ Becomes(t, [stage |-> "template", principal |-> setup[t].principal,
                   version |-> IF packages = {} THEN "latest" ELSE Latest(packages)])
    /\ UNCHANGED <<consented, cachedSp, packages>>

(* The version of the latest package is written into the download URL;     *)
(* "latest" if there is none or the listing raises.                        *)
HandOut(t) ==
    /\ At(t, "listing")
    /\ \E version \in {"latest", IF packages = {} THEN "latest" ELSE VersionOf(Latest(packages))} :
          Becomes(t, [stage |-> "template", principal |-> setup[t].principal, version |-> version])
    /\ UNCHANGED <<consented, cachedSp, packages>>

(* The replica restarts: its cache is gone, and the requests that wait     *)
(* fail (the portal asks again).                                           *)
Restart(r) ==
    /\ cachedSp' = [cachedSp EXCEPT ![r] = None]
    /\ setup' = [t \in Tenants |->
                   IF At(t, "asking") /\ setup[t].at = r THEN [stage |-> "none"] ELSE setup[t]]
    /\ UNCHANGED <<consented, packages>>

-----------------------------------------------------------------------------
(* Azure deploys the template, and the app downloads its package; the link *)
(* is looked at again at every start, and its token does not expire.       *)
Start(t, version) ==
    /\ Becomes(t, [stage |-> "agent", version |-> version, runs |-> Download(packages, version)])
    /\ UNCHANGED <<consented, cachedSp, packages>>

Deploy(t) == At(t, "template") /\ Start(t, setup[t].version)
StartAgain(t) == At(t, "agent") /\ Start(t, setup[t].version)

(* request-update: the app is made to run from a SAS link to the package   *)
(* found, which an agent that has its version already is refused.          *)
RequestUpdate(t, v) ==
    LET package == WithVersion(packages, v) IN
    /\ At(t, "agent") \/ At(t, "updated")
    /\ setup[t].runs # None /\ package # None
    /\ VersionOf(setup[t].runs) # VersionOf(package)
    /\ Becomes(t, [stage |-> "updated", package |-> package, valid |-> TRUE, runs |-> package])
    /\ UNCHANGED <<consented, cachedSp, packages>>

(* The SAS link is valid for an hour; a start after that finds nothing.    *)
LinkExpires(t) ==
    /\ At(t, "updated") /\ setup[t].valid
    /\ Becomes(t, [setup[t] EXCEPT !.valid = FALSE])
    /\ UNCHANGED <<consented, cachedSp, packages>>

StartFromLink(t) ==
    /\ At(t, "updated")
    /\ Becomes(t, [setup[t] EXCEPT !.runs = IF setup[t].valid THEN setup[t].package ELSE None])
    /\ UNCHANGED <<consented, cachedSp, packages>>

Next ==
    \/ \E f \in Files : Upload(f)
    \/ \E t \in Tenants :
          \/ SetupInfo(t) \/ Consent(t) \/ GraphAnswers(t) \/ GraphFails(t) \/ HandOut(t)
          \/ Deploy(t) \/ StartAgain(t) \/ LinkExpires(t) \/ StartFromLink(t)
    \/ \E t \in Tenants, v \in Versions \union {"latest"} : RequestUpdate(t, v)
    \/ \E r \in Replicas, t \in Tenants : FromCache(r, t) \/ AskGraph(r, t)
    \/ \E r \in Replicas : Restart(r)

Spec == Init /\ [][Next]_vars

-----------------------------------------------------------------------------
(* A link to the portal is given to an owner of the subscription, or to a  *)
(* contributor who also administers access (arm_service.py:135-141): one   *)
(* role may grant what another excludes.                                   *)
LinkMeansPermission ==
    \A t \in Tenants : At(t, "linked") =>
        \/ "Owner" \in setup[t].azure
        \/ {"Contributor", "UserAccessAdministrator"} \subseteq setup[t].azure

(* A template names the principal of the tenant it was asked for, or none: *)
(* template.py:114 calls it the "tenant-specific SP ID", and               *)
(* functions.bicep:173 gives it the right to send commands to the agent.   *)
TemplateNamesOwnPrincipal ==
    \A t \in Tenants : At(t, "template") => setup[t].principal \in {t, None}

(* The principal in a template exists, in whichever tenant: nothing gets   *)
(* into the cache of a replica before Graph has answered                   *)
(* (graph_service.py:163).                                                 *)
PrincipalsExist ==
    \A t \in Tenants :
        At(t, "listing") \/ At(t, "template") => setup[t].principal \in consented \union {None}

(* A release that is frozen is the newest one uploaded by then, although   *)
(* the names are not in the order of the versions (repository.py:213).     *)
(* When a candidate is frozen, nothing is claimed: its number stands where *)
(* the patch level of a release does.                                      *)
Releases(P) == {f \in P \intersect Versions : Candidate[f] = 0}

FrozenReleaseIsNewest ==
    [][\A t \in Tenants :
          /\ At(t, "listing") /\ At(t, "template")'
          /\ setup'[t].version \in Releases(packages)
          => \A f \in Releases(packages) : ~Less(Release[setup'[t].version], Release[f])]_vars

(* Uploads never take away the package a template names: it can be         *)
(* deployed at any later time, and its agent can always start again        *)
(* (template.py:129, download_package_use_case.py:18).                     *)
TemplatesStayInstallable ==
    \A t \in Tenants :
        (At(t, "template") \/ At(t, "agent")) /\ setup[t].version \in Versions =>
            /\ Download(packages, setup[t].version) # None
            /\ At(t, "agent") => setup[t].runs # None

(* An agent that was deployed runs the version that was frozen, or a       *)
(* package whose name contains that version and comes before it            *)
(* (template.py:129, repository.py:221), whatever was uploaded since.      *)
RunsFrozenOrNamesake ==
    \A t \in Tenants : At(t, "agent") /\ setup[t].version \in Versions =>
        LET f == setup[t].runs  v == setup[t].version IN
        f = v \/ (f \in Mentions[v] /\ Rank[f] < Rank[v])
=============================================================================
