---------------------- MODULE TenantRegistrationProofs ----------------------
(***************************************************************************)
(* Proofs about TenantRegistration, for any users, addresses, teams,       *)
(* channels and number of requests.                                        *)
(***************************************************************************)
EXTENDS TenantRegistration, TLAPS

(* What holds of a document that is stored or about to be.                 *)
Good(doc) ==
    /\ doc \in Tenant
    /\ "TenantAdmin" \in roles[doc.registrant]
    /\ ~doc.initial => doc.team \in tried

Staffed(doc) == UsersOf(doc.accounts) \subseteq RoleHolders \union doc.excused

DocInv == tenant # None => Good(tenant) /\ Staffed(tenant)

(* What a registration has drafted, what an update holds while its team is *)
(* still to be tried, and what it makes of the document it read.           *)
Drafted(q) ==
    /\ held[q] \in Tenant
    /\ held[q].registrant = caller[q]
    /\ held[q].initial

Untried(q) ==
    /\ held[q] \in Tenant
    /\ "TenantAdmin" \in roles[held[q].registrant]
    /\ held[q].team \in Teams
    /\ caller[q] = None => Staffed(held[q])

Merges(q) ==
    /\ tenant.accounts \subseteq held[q].accounts
    /\ held[q].registrant = tenant.registrant
    /\ tenant.team # None => held[q].team # None
    /\ tenant.channel # None => held[q].channel # None

HeldInv(q) ==
    /\ pc[q] \in RegisterStates \union {"assign"} => caller[q] \in Users
    /\ pc[q] \in RegisterStates => Drafted(q)
    /\ pc[q] \in RegisterStates /\ fresh[q] => tenant = None
    /\ pc[q] = "others" => "TenantAdmin" \in roles[caller[q]]
    /\ pc[q] = "install" => Untried(q)
    /\ pc[q] \in UpdateStates /\ caller[q] # None => caller[q] \in RoleHolders \union DirectoryAdmins
    /\ pc[q] \in {"assign", "store"} => Good(held[q])
    /\ pc[q] = "store" => Staffed(held[q])
    /\ pc[q] \in UpdateStates \union {"store"} /\ fresh[q] /\ tenant # None => Merges(q)

IInv == TypeOK /\ DocInv /\ \A q \in Requests : HeldInv(q)

(* Nothing the handlers do takes a role or an offer back.                  *)
Grows == (\A u \in Users : roles[u] \subseteq roles'[u]) /\ tried \subseteq tried'

(* A step of request q, as every other request p sees it.                  *)
Apart(q) ==
    \A p \in Requests \ {q} :
        /\ pc'[p] = pc[p] /\ caller'[p] = caller[p] /\ held'[p] = held[p]
        /\ fresh'[p] => fresh[p] /\ tenant' = tenant

(* The requests that do not move keep their invariant.                     *)
LEMMA OthersStay ==
    ASSUME IInv, NEW q \in Requests, Grows, Apart(q), NEW p \in Requests \ {q}
    PROVE  HeldInv(p)'
  <1> HeldInv(p)
    BY DEF IInv
  <1> USE DEF Apart
  <1>1. RoleHolders \subseteq RoleHolders'
    BY DEF Grows, RoleHolders
  <1>2. ASSUME Good(held[p]) PROVE Good(held[p])'
    <2>1. held'[p] = held[p]
      OBVIOUS
    <2>2. QED
      BY <1>2, <2>1 DEF Grows, Good, Tenant
  <1>3. ASSUME Staffed(held[p]) PROVE Staffed(held[p])'
    BY <1>1, <1>3 DEF Staffed, UsersOf
  <1>4. Drafted(p) => Drafted(p)'
    BY DEF Drafted
  <1>5. Untried(p) => Untried(p)'
    <2>1. held'[p] = held[p] /\ caller'[p] = caller[p]
      OBVIOUS
    <2>2. QED
      BY <1>3, <2>1 DEF Untried, Grows, Tenant
  <1>6. fresh'[p] /\ Merges(p) => Merges(p)'
    BY DEF Merges
  <1>7. pc[p] = "others" => "TenantAdmin" \in roles'[caller[p]]
    BY DEF HeldInv, Grows, RegisterStates
  <1>8. QED
    BY <1>1, <1>2, <1>3, <1>4, <1>5, <1>6, <1>7 DEF HeldInv

-----------------------------------------------------------------------------
(* Shapes of the steps.                                                    *)
LEMMA GrantedTypes ==
    ASSUME TypeOK, NEW ok, NEW role \in Roles
    PROVE  /\ Granted(ok, role) \in [Users -> SUBSET Roles]
           /\ \A u \in Users : roles[u] \subseteq Granted(ok, role)[u]
           /\ \A u \in Users \intersect ok : role \in Granted(ok, role)[u]
  BY DEF Granted, TypeOK

LEMMA BeginShape ==
    ASSUME TypeOK, NEW q \in Requests, NEW u \in Users \union {None}, NEW doc \in Tenant,
           NEW next \in States, Begin(q, u, doc, next)
    PROVE  /\ TypeOK' /\ Grows /\ Apart(q)
           /\ pc'[q] = next /\ caller'[q] = u /\ held'[q] = doc /\ UNCHANGED <<tenant, graph>>
  BY TenantAssumption DEF TypeOK, Begin, Grows, Apart, graph

LEMMA ProceedShape ==
    ASSUME TypeOK, NEW q \in Requests, NEW next \in States, Proceed(q, next),
           roles' \in [Users -> SUBSET Roles], tried' \subseteq Teams
    PROVE  /\ TypeOK' /\ Apart(q)
           /\ pc'[q] = next /\ UNCHANGED <<tenant, caller, held, fresh>>
  BY DEF TypeOK, Proceed, Apart

LEMMA StaffShape ==
    ASSUME TypeOK, NEW q \in Requests, held[q] \in Tenant, NEW excused \in SUBSET Users,
           Staff(q, excused), roles' \in [Users -> SUBSET Roles]
    PROVE  /\ TypeOK' /\ Apart(q)
           /\ pc'[q] = "store" /\ UNCHANGED <<tenant, tried, fresh>>
           /\ held'[q] \in Tenant /\ held'[q].excused = excused
           /\ held'[q].accounts = held[q].accounts /\ held'[q].registrant = held[q].registrant
           /\ held'[q].initial = held[q].initial /\ held'[q].team = held[q].team
           /\ held'[q].channel = held[q].channel
  <1>1. [held[q] EXCEPT !.excused = excused] \in Tenant
    BY DEF Tenant
  <1>2. held'[q] = [held[q] EXCEPT !.excused = excused]
    BY DEF Staff, TypeOK
  <1>3. TypeOK' /\ Apart(q)
    BY <1>1 DEF TypeOK, Staff, Apart, States
  <1>4. QED
    BY <1>1, <1>2, <1>3 DEF Staff, TypeOK, Tenant

LEMMA FinishShape ==
    ASSUME TypeOK, NEW q \in Requests, Finish(q), UNCHANGED <<graph, started>>,
           tenant' \in Tenant \union {None}, fresh' \in [Requests -> BOOLEAN],
           \A p \in Requests \ {q} : fresh'[p] => fresh[p] /\ tenant' = tenant
    PROVE  TypeOK' /\ Grows /\ Apart(q)
  BY DEF TypeOK, Finish, graph, Grows, Apart, States

(* A step that leaves the document alone keeps what is known of it.        *)
LEMMA DocStays ==
    ASSUME DocInv, Grows, tenant' = tenant
    PROVE  DocInv'
  <1>1. Good(tenant) => Good(tenant)'
    BY DEF Grows, Good, Tenant
  <1>2. RoleHolders \subseteq RoleHolders'
    BY DEF Grows, RoleHolders
  <1>3. Staffed(tenant) => Staffed(tenant)'
    BY <1>2 DEF Staffed, UsersOf
  <1>4. QED
    BY <1>1, <1>3 DEF DocInv

(* It is enough to look at the request that moves.                         *)
LEMMA Assemble ==
    ASSUME IInv, NEW q \in Requests, TypeOK', Grows, Apart(q), DocInv', HeldInv(q)'
    PROVE  IInv'
  BY OthersStay DEF IInv

-----------------------------------------------------------------------------
(* A request arrives.                                                      *)
LEMMA RegisterStep ==
    ASSUME IInv, NEW q \in Requests, Register(q)
    PROVE  IInv'
  <1>1. PICK u \in Users, A \in Operators, t \in Teams \union {None}, c \in Channels \union {None} :
           /\ NotRegistered
           /\ Begin(q, u, [accounts |-> A, team |-> t, channel |-> c, registrant |-> u,
                           excused |-> {}, initial |-> TRUE], "admin")
    BY DEF Register
  <1> DEFINE doc == [accounts |-> A, team |-> t, channel |-> c, registrant |-> u,
                     excused |-> {}, initial |-> TRUE]
  <1>2. doc \in Tenant /\ doc.registrant = u /\ doc.initial
    BY DEF Tenant, Operators
  <1> Begin(q, u, doc, "admin")
    BY <1>1
  <1> HIDE DEF doc
  <1>3. /\ TypeOK' /\ Grows /\ Apart(q)
        /\ pc'[q] = "admin" /\ caller'[q] = u /\ held'[q] = doc /\ UNCHANGED tenant
    BY <1>2, BeginShape DEF IInv, States, RegisterStates
  <1>4. HeldInv(q)'
    BY <1>1, <1>2, <1>3 DEF HeldInv, Drafted, NotRegistered, RegisterStates, UpdateStates
  <1>5. DocInv'
    BY <1>3, DocStays DEF IInv
  <1>6. QED
    BY <1>3, <1>4, <1>5, Assemble

(* What the merger of teams_info keeps and changes.                        *)
LEMMA WithTeamTypes ==
    ASSUME tenant \in Tenant, NEW t \in Teams \union {None}, NEW c \in Channels \union {None}
    PROVE  /\ WithTeam(t, c) \in Tenant
           /\ WithTeam(t, c).accounts = tenant.accounts
           /\ WithTeam(t, c).registrant = tenant.registrant
           /\ WithTeam(t, c).excused = tenant.excused
           /\ tenant.team # None => WithTeam(t, c).team # None
           /\ tenant.channel # None => WithTeam(t, c).channel # None
           /\ NewTeam(t) => WithTeam(t, c).team = t /\ t \in Teams
           /\ ~NewTeam(t) => /\ WithTeam(t, c).team = tenant.team
                             /\ WithTeam(t, c).initial = tenant.initial
  BY DEF WithTeam, NewTeam, Tenant

LEMMA UpdateTeamStep ==
    ASSUME IInv, NEW q \in Requests, UpdateTeam(q)
    PROVE  IInv'
  <1>1. PICK t \in Teams \union {None}, c \in Channels \union {None} :
           /\ tenant # None
           /\ Begin(q, None, WithTeam(t, c), IF NewTeam(t) THEN "install" ELSE "store")
    BY DEF UpdateTeam
  <1> DEFINE doc == WithTeam(t, c)
             next == IF NewTeam(t) THEN "install" ELSE "store"
  <1>2. Good(tenant) /\ Staffed(tenant) /\ tenant \in Tenant
    BY <1>1 DEF IInv, DocInv, Good
  <1>3. /\ doc \in Tenant /\ doc.accounts = tenant.accounts
        /\ doc.registrant = tenant.registrant /\ doc.excused = tenant.excused
        /\ tenant.team # None => doc.team # None
        /\ tenant.channel # None => doc.channel # None
        /\ NewTeam(t) => doc.team \in Teams
        /\ ~NewTeam(t) => doc.team = tenant.team /\ doc.initial = tenant.initial
    BY <1>2, WithTeamTypes
  <1>4. next \in States
    BY DEF States, UpdateStates
  <1> Begin(q, None, doc, next)
    BY <1>1
  <1> HIDE DEF doc, next
  <1>5. /\ TypeOK' /\ Grows /\ Apart(q)
        /\ pc'[q] = next /\ caller'[q] = None /\ held'[q] = doc /\ UNCHANGED <<tenant, graph>>
    BY <1>3, <1>4, BeginShape DEF IInv
  <1>6. Staffed(held[q])' /\ "TenantAdmin" \in roles'[held'[q].registrant]
    BY <1>2, <1>3, <1>5 DEF Staffed, Good, UsersOf, RoleHolders, graph
  <1>7. NewTeam(t) => Untried(q)'
    BY <1>3, <1>5, <1>6 DEF Untried
  <1>8. ~NewTeam(t) => Good(held[q])'
    BY <1>2, <1>3, <1>5, <1>6 DEF Good, graph
  <1>9. Merges(q)'
    BY <1>3, <1>5 DEF Merges
  <1> USE DEF next
  <1>10. HeldInv(q)'
    BY <1>5, <1>6, <1>7, <1>8, <1>9 DEF HeldInv, RegisterStates, UpdateStates
  <1>11. DocInv'
    BY <1>5, DocStays DEF IInv
  <1>12. QED
    BY <1>5, <1>10, <1>11, Assemble

LEMMA UpdateOperatorsStep ==
    ASSUME IInv, NEW q \in Requests, UpdateOperators(q)
    PROVE  IInv'
  <1>1. PICK u \in RoleHolders \union DirectoryAdmins, E \in SUBSET Emails,
             t \in Teams \union {None}, c \in Channels \union {None} :
           /\ tenant # None
           /\ Begin(q, u, [WithTeam(t, c) EXCEPT !.accounts = Merged(tenant, E)],
                    IF NewTeam(t) THEN "install" ELSE "assign")
    BY DEF UpdateOperators
  <1> DEFINE w == WithTeam(t, c)
             doc == [w EXCEPT !.accounts = Merged(tenant, E)]
             next == IF NewTeam(t) THEN "install" ELSE "assign"
  <1>2. Good(tenant) /\ tenant \in Tenant /\ u \in Users /\ u # None
    BY <1>1, TenantAssumption DEF IInv, DocInv, Good, RoleHolders
  <1>3. Merged(tenant, E) \in SUBSET Emails /\ tenant.accounts \subseteq Merged(tenant, E)
    BY <1>2 DEF Merged, Tenant
  <1>4. /\ doc \in Tenant /\ doc.accounts = Merged(tenant, E)
        /\ doc.registrant = tenant.registrant
        /\ tenant.team # None => doc.team # None
        /\ tenant.channel # None => doc.channel # None
        /\ NewTeam(t) => doc.team \in Teams
        /\ ~NewTeam(t) => doc.team = tenant.team /\ doc.initial = tenant.initial
    <2>1. /\ w \in Tenant /\ w.registrant = tenant.registrant
          /\ tenant.team # None => w.team # None
          /\ tenant.channel # None => w.channel # None
          /\ NewTeam(t) => w.team \in Teams
          /\ ~NewTeam(t) => w.team = tenant.team /\ w.initial = tenant.initial
      BY <1>2, WithTeamTypes
    <2> HIDE DEF w
    <2>2. QED
      BY <1>3, <2>1 DEF Tenant
  <1>5. next \in States
    BY DEF States, UpdateStates
  <1> Begin(q, u, doc, next)
    BY <1>1
  <1> HIDE DEF doc, next
  <1>6. /\ TypeOK' /\ Grows /\ Apart(q)
        /\ pc'[q] = next /\ caller'[q] = u /\ held'[q] = doc /\ UNCHANGED <<tenant, graph>>
    BY <1>2, <1>4, <1>5, BeginShape DEF IInv
  <1>7. "TenantAdmin" \in roles'[held'[q].registrant]
    BY <1>2, <1>4, <1>6 DEF Good, graph
  <1>8. NewTeam(t) => Untried(q)'
    BY <1>2, <1>4, <1>6, <1>7 DEF Untried
  <1>9. ~NewTeam(t) => Good(held[q])'
    BY <1>2, <1>4, <1>6, <1>7 DEF Good, graph
  <1>10. Merges(q)'
    BY <1>3, <1>4, <1>6 DEF Merges
  <1>11. caller'[q] \in RoleHolders' \union DirectoryAdmins
    BY <1>6 DEF RoleHolders, graph
  <1> USE DEF next
  <1>12. HeldInv(q)'
    BY <1>2, <1>6, <1>8, <1>9, <1>10, <1>11 DEF HeldInv, RegisterStates, UpdateStates
  <1>13. DocInv'
    BY <1>6, DocStays DEF IInv
  <1>14. QED
    BY <1>6, <1>12, <1>13, Assemble

-----------------------------------------------------------------------------
(* A request installs and assigns.                                         *)
LEMMA AssignAdminStep ==
    ASSUME IInv, NEW q \in Requests, AssignAdmin(q)
    PROVE  IInv'
  <1> HeldInv(q) /\ TypeOK /\ DocInv
    BY DEF IInv
  <1>1. /\ pc[q] = "admin" /\ UNCHANGED tried
        /\ roles' = Granted({caller[q]}, "TenantAdmin")
        /\ Proceed(q, "others")
    BY DEF AssignAdmin
  <1>2. /\ roles' \in [Users -> SUBSET Roles] /\ Grows
        /\ "TenantAdmin" \in roles'[caller[q]]
    BY <1>1, GrantedTypes DEF Roles, Grows, HeldInv, RegisterStates
  <1>3. /\ TypeOK' /\ Apart(q)
        /\ pc'[q] = "others" /\ UNCHANGED <<tenant, caller, held, fresh>>
    BY <1>1, <1>2, ProceedShape DEF TypeOK, States, RegisterStates
  <1>4. Drafted(q)'
    BY <1>1, <1>3 DEF HeldInv, Drafted, RegisterStates
  <1>5. HeldInv(q)'
    BY <1>1, <1>2, <1>3, <1>4 DEF HeldInv, RegisterStates, UpdateStates
  <1>6. DocInv'
    BY <1>2, <1>3, DocStays
  <1>7. QED
    BY <1>2, <1>3, <1>5, <1>6, Assemble

(* Whoever is left without the role is excused.                            *)
LEMMA Covered ==
    ASSUME TypeOK, NEW u \in Users, NEW E \in SUBSET Emails,
           NEW ok, roles' = Granted(ok, "PrivilegedUser"),
           NEW X, (UsersOf(E) \ {u}) \ ok \subseteq X, u \in RoleHolders' \union X
    PROVE  UsersOf(E) \subseteq RoleHolders' \union X
  <1>1. UsersOf(E) \subseteq Users
    BY TenantAssumption DEF UsersOf
  <1>2. \A v \in Users \intersect ok : v \in RoleHolders'
    BY GrantedTypes DEF RoleHolders, Roles
  <1>3. QED
    BY <1>1, <1>2

LEMMA AssignOthersStep ==
    ASSUME IInv, NEW q \in Requests, AssignOthers(q)
    PROVE  IInv'
  <1> HeldInv(q) /\ TypeOK /\ DocInv
    BY DEF IInv
  <1>1. PICK ok \in SUBSET Others(q) :
          /\ roles' = Granted(ok, "PrivilegedUser")
          /\ Staff(q, Others(q) \ ok)
    BY DEF AssignOthers
  <1> DEFINE excused == Others(q) \ ok
  <1>2. pc[q] = "others" /\ Drafted(q) /\ caller[q] \in Users /\ held[q] \in Tenant
    BY DEF AssignOthers, HeldInv, RegisterStates, Drafted
  <1>3. roles' \in [Users -> SUBSET Roles] /\ Grows
    BY <1>1, GrantedTypes DEF Roles, Grows, Staff
  <1>4. "TenantAdmin" \in roles'[caller[q]] /\ caller[q] \in RoleHolders'
    BY <1>2, <1>3 DEF HeldInv, Grows, RoleHolders
  <1>5. held[q].accounts \in SUBSET Emails /\ excused \in SUBSET Users
    BY <1>2, TenantAssumption DEF Others, UsersOf, Tenant
  <1>6. /\ TypeOK' /\ Apart(q)
        /\ pc'[q] = "store" /\ UNCHANGED <<tenant, tried, fresh>>
        /\ held'[q] \in Tenant /\ held'[q].excused = excused
        /\ held'[q].accounts = held[q].accounts /\ held'[q].registrant = held[q].registrant
        /\ held'[q].initial = held[q].initial
    BY <1>1, <1>2, <1>3, <1>5, StaffShape
  <1>7. Good(held[q])'
    BY <1>2, <1>4, <1>6 DEF Good, Drafted
  <1>8. UsersOf(held[q].accounts) \subseteq RoleHolders' \union excused
    <2>1. (UsersOf(held[q].accounts) \ {caller[q]}) \ ok \subseteq excused
      BY DEF Others
    <2> HIDE DEF excused
    <2>2. QED
      BY <1>1, <1>2, <1>4, <1>5, <2>1, Covered
  <1>9. Staffed(held[q])'
    BY <1>6, <1>8 DEF Staffed, UsersOf
  <1>10. fresh[q] => tenant = None
    BY <1>2 DEF HeldInv, RegisterStates
  <1>11. HeldInv(q)'
    BY <1>6, <1>7, <1>9, <1>10 DEF HeldInv, RegisterStates, UpdateStates
  <1>12. DocInv'
    BY <1>3, <1>6, DocStays
  <1>13. QED
    BY <1>3, <1>6, <1>11, <1>12, Assemble

LEMMA InstallStep ==
    ASSUME IInv, NEW q \in Requests, InstallApp(q)
    PROVE  IInv'
  <1> HeldInv(q) /\ TypeOK /\ DocInv
    BY DEF IInv
  <1> DEFINE next == IF caller[q] = None THEN "store" ELSE "assign"
  <1>1. /\ pc[q] = "install" /\ Proceed(q, next) /\ roles' = roles
        /\ tried' = tried \union {held[q].team}
    BY DEF InstallApp
  <1>2. Untried(q)
    BY <1>1 DEF HeldInv
  <1>3. tried' \subseteq Teams /\ Grows /\ held[q].team \in tried'
    BY <1>1, <1>2 DEF Untried, Grows, TypeOK
  <1>4. next \in States
    BY DEF States, UpdateStates
  <1>5. /\ TypeOK' /\ Apart(q)
        /\ pc'[q] = next /\ UNCHANGED <<tenant, caller, held, fresh>>
    BY <1>1, <1>3, <1>4, ProceedShape DEF TypeOK
  <1>6. Good(held[q])'
    BY <1>1, <1>2, <1>3, <1>5 DEF Good, Untried
  <1>7. caller[q] = None => Staffed(held[q])'
    BY <1>1, <1>2, <1>5 DEF Untried, Staffed, UsersOf, RoleHolders
  <1>8. fresh[q] /\ tenant # None => Merges(q)'
    BY <1>1, <1>5 DEF HeldInv, Merges, UpdateStates
  <1>9. caller[q] # None => caller'[q] \in Users /\ caller'[q] \in RoleHolders' \union DirectoryAdmins
    BY <1>1, <1>5 DEF HeldInv, UpdateStates, RoleHolders, TypeOK
  <1>10. HeldInv(q)'
    BY <1>5, <1>6, <1>7, <1>8, <1>9 DEF HeldInv, RegisterStates, UpdateStates
  <1>11. DocInv'
    BY <1>3, <1>5, DocStays
  <1>12. QED
    BY <1>3, <1>5, <1>10, <1>11, Assemble

LEMMA AssignMergedStep ==
    ASSUME IInv, NEW q \in Requests, AssignMerged(q)
    PROVE  IInv'
  <1> HeldInv(q) /\ TypeOK /\ DocInv
    BY DEF IInv
  <1>1. PICK ok \in SUBSET Others(q) :
          /\ roles' = Granted(ok, "PrivilegedUser")
          /\ Staff(q, (Others(q) \ ok) \union ({caller[q]} \intersect DirectoryAdmins))
    BY DEF AssignMerged, Assigned
  <1> DEFINE excused == (Others(q) \ ok) \union ({caller[q]} \intersect DirectoryAdmins)
  <1>2. pc[q] = "assign" /\ Good(held[q]) /\ caller[q] \in Users /\ held[q] \in Tenant
    BY DEF AssignMerged, HeldInv, Good
  <1>3. roles' \in [Users -> SUBSET Roles] /\ Grows
    BY <1>1, GrantedTypes DEF Roles, Grows, Staff
  <1>4. caller[q] \in RoleHolders' \union DirectoryAdmins
    BY <1>2, <1>3, TenantAssumption DEF HeldInv, UpdateStates, Grows, RoleHolders
  <1>5. held[q].accounts \in SUBSET Emails /\ excused \in SUBSET Users
    BY <1>2, TenantAssumption DEF Others, UsersOf, Tenant
  <1>6. /\ TypeOK' /\ Apart(q)
        /\ pc'[q] = "store" /\ UNCHANGED <<tenant, tried, fresh>>
        /\ held'[q] \in Tenant /\ held'[q].excused = excused
        /\ held'[q].accounts = held[q].accounts /\ held'[q].registrant = held[q].registrant
        /\ held'[q].initial = held[q].initial /\ held'[q].team = held[q].team
        /\ held'[q].channel = held[q].channel
    BY <1>1, <1>2, <1>3, <1>5, StaffShape
  <1>7. Good(held[q])'
    BY <1>2, <1>3, <1>6 DEF Good, Tenant, Grows
  <1>8. UsersOf(held[q].accounts) \subseteq RoleHolders' \union excused
    <2>1. (UsersOf(held[q].accounts) \ {caller[q]}) \ ok \subseteq excused
      BY DEF Others
    <2>2. caller[q] \in RoleHolders' \union excused
      BY <1>4
    <2> HIDE DEF excused
    <2>3. QED
      BY <1>1, <1>2, <1>5, <2>1, <2>2, Covered
  <1>9. Staffed(held[q])'
    BY <1>6, <1>8 DEF Staffed, UsersOf
  <1>10. fresh[q] /\ tenant # None => Merges(q)'
    BY <1>2, <1>6 DEF HeldInv, Merges, UpdateStates
  <1>11. HeldInv(q)'
    BY <1>6, <1>7, <1>9, <1>10 DEF HeldInv, RegisterStates, UpdateStates
  <1>12. DocInv'
    BY <1>3, <1>6, DocStays
  <1>13. QED
    BY <1>3, <1>6, <1>11, <1>12, Assemble

-----------------------------------------------------------------------------
(* A request writes or ends.                                               *)
LEMMA StoreStep ==
    ASSUME IInv, NEW q \in Requests, Store(q)
    PROVE  IInv'
  <1> HeldInv(q) /\ TypeOK
    BY DEF IInv
  <1>1. /\ pc[q] = "store" /\ tenant' = held[q] /\ Finish(q)
        /\ fresh' = [p \in Requests |-> FALSE] /\ UNCHANGED <<graph, started>>
    BY DEF Store
  <1>2. Good(held[q]) /\ Staffed(held[q])
    BY <1>1 DEF HeldInv
  <1>3. TypeOK' /\ Grows /\ Apart(q)
    BY <1>1, <1>2, FinishShape DEF Good
  <1>4. HeldInv(q)'
    BY <1>1 DEF HeldInv, Finish, TypeOK, RegisterStates, UpdateStates
  <1>5. DocInv'
    BY <1>1, <1>2 DEF DocInv, Good, Staffed, UsersOf, RoleHolders, graph
  <1>6. QED
    BY <1>3, <1>4, <1>5, Assemble

LEMMA AbortStep ==
    ASSUME IInv, NEW q \in Requests, Abort(q)
    PROVE  IInv'
  <1> HeldInv(q) /\ TypeOK /\ DocInv
    BY DEF IInv
  <1>1. /\ Finish(q) /\ fresh' = [fresh EXCEPT ![q] = FALSE]
        /\ UNCHANGED <<tenant, graph, started>>
    BY DEF Abort
  <1>2. TypeOK' /\ Grows /\ Apart(q)
    BY <1>1, FinishShape DEF TypeOK
  <1>3. HeldInv(q)'
    BY <1>1 DEF HeldInv, Finish, TypeOK, RegisterStates, UpdateStates
  <1>4. DocInv'
    BY <1>1, <1>2, DocStays
  <1>5. QED
    BY <1>2, <1>3, <1>4, Assemble

-----------------------------------------------------------------------------
LEMMA Initially == Init => IInv
  BY TenantAssumption
     DEF Init, IInv, TypeOK, DocInv, HeldInv, States, RegisterStates, UpdateStates

LEMMA Preserved == IInv /\ [Next]_vars => IInv'
  <1> SUFFICES ASSUME IInv, [Next]_vars PROVE IInv'
    OBVIOUS
  <1>1. ASSUME NEW q \in Requests, Step(q) PROVE IInv'
    BY <1>1, RegisterStep, AssignAdminStep, AssignOthersStep, UpdateTeamStep,
       UpdateOperatorsStep, InstallStep, AssignMergedStep, StoreStep, AbortStep DEF Step
  <1>2. CASE UNCHANGED vars
    <2> TypeOK /\ DocInv /\ \A q \in Requests : HeldInv(q)
      BY DEF IInv
    <2> USE <1>2 DEF vars, graph
    <2>1. RoleHolders' = RoleHolders
      BY DEF RoleHolders
    <2>2. TypeOK'
      BY DEF TypeOK
    <2>3. Good(tenant) /\ Staffed(tenant) => Good(tenant)' /\ Staffed(tenant)'
      BY <2>1 DEF Good, Staffed, UsersOf
    <2>4. ASSUME NEW q \in Requests PROVE HeldInv(q)'
      <3>1. /\ Good(held[q]) => Good(held[q])'
            /\ Staffed(held[q]) => Staffed(held[q])'
            /\ Drafted(q) => Drafted(q)'
            /\ Untried(q) => Untried(q)'
            /\ Merges(q) => Merges(q)'
        BY <2>1 DEF Good, Staffed, Drafted, Untried, Merges, UsersOf
      <3>2. QED
        BY <2>1, <3>1 DEF HeldInv
    <2>5. QED
      BY <2>2, <2>3, <2>4 DEF IInv, DocInv
  <1>3. QED
    BY <1>1, <1>2 DEF Next

THEOREM Invariant == Spec => []IInv
  BY Initially, Preserved, PTL DEF Spec

(* The variables keep their types whatever requests overlap.               *)
THEOREM TypeCorrect == Spec => []TypeOK
  <1>1. IInv => TypeOK
    BY DEF IInv
  <1>2. QED
    BY Invariant, <1>1, PTL

(* Every stored operator can sign in, unless his assignment failed: the    *)
(* roles come before the document in both handlers.                        *)
THEOREM RolesBeforeDocument == Spec => []OperatorsHaveRoles
  <1>1. IInv => OperatorsHaveRoles
    BY DEF IInv, DocInv, Staffed, OperatorsHaveRoles
  <1>2. QED
    BY Invariant, <1>1, PTL

(* The registrant of the stored document is TenantAdmin, also when two     *)
(* registrations pass the conflict check.                                  *)
THEOREM AdminBeforeDocument == Spec => []RegistrantIsAdmin
  <1>1. IInv => RegistrantIsAdmin
    BY DEF IInv, DocInv, Good, RegistrantIsAdmin
  <1>2. QED
    BY Invariant, <1>1, PTL

(* Graph was asked to install the app in the stored team, or it is still   *)
(* the team of the registration.                                           *)
THEOREM InstallBeforeDocument == Spec => []TeamsAreTried
  <1>1. IInv => TeamsAreTried
    BY DEF IInv, DocInv, Good, TeamsAreTried
  <1>2. QED
    BY Invariant, <1>1, PTL

(* A write whose request read the latest document loses no operator and    *)
(* leaves the registrant, a team and a channel in it.                      *)
THEOREM FreshWritesMerge == Spec => OnlyStaleWritesUndo
  <1> DEFINE Kept(q) ==
        /\ tenant # None /\ tenant' # tenant
        /\ pc[q] = "store" /\ pc'[q] = "idle" /\ fresh[q]
        => /\ tenant.accounts \subseteq tenant'.accounts
           /\ tenant.team # None => tenant'.team # None
           /\ tenant.channel # None => tenant'.channel # None
           /\ tenant'.registrant = tenant.registrant
  <1>1. ASSUME IInv, [Next]_vars PROVE [\A q \in Requests : Kept(q)]_vars
    <2> SUFFICES ASSUME NEW q \in Requests, pc[q] = "store", pc'[q] = "idle", fresh[q],
                        tenant # None, tenant' # tenant
                 PROVE  Kept(q)
      OBVIOUS
    <2>1. PICK p \in Requests : Step(p)
      BY <1>1 DEF Next, vars
    <2>2. Store(p)
      BY <2>1 DEF Step, Register, UpdateTeam, UpdateOperators, Begin, AssignAdmin,
                  AssignOthers, InstallApp, AssignMerged, Proceed, Staff, Abort
    <2>3. p = q
      BY <1>1, <2>2 DEF Store, Finish, IInv, TypeOK
    <2>4. Merges(q)
      BY <1>1 DEF IInv, HeldInv
    <2>5. QED
      BY <2>2, <2>3, <2>4 DEF Store, Merges
  <1>2. QED
    BY Invariant, <1>1, PTL DEF Spec, OnlyStaleWritesUndo
=============================================================================
