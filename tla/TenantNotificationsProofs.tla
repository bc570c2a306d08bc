---------------------- MODULE TenantNotificationsProofs ----------------------
(***************************************************************************)
(* Proofs about TenantNotifications, for any number of requests and of     *)
(* notifications at once.  Sending messages leaves the registration alone, *)
(* so that what TenantRegistrationProofs shows carries over.               *)
(***************************************************************************)
EXTENDS TenantNotifications, TenantRegistrationProofs

LEMMA NextStep == [NotifyNext]_<<vars, notices>> => [Next]_vars
  BY DEF NotifyNext, notices, vars, graph

(* The composition implements the registration.                            *)
THEOREM RegistrationCarriesOver == NotifySpec => Spec
  <1>1. NotifyInit => Init
    BY DEF NotifyInit
  <1>2. QED
    BY <1>1, NextStep, PTL DEF NotifySpec, Spec

LEMMA RegistrationInvariant == NotifySpec => []IInv
  BY RegistrationCarriesOver, Invariant, PTL

-----------------------------------------------------------------------------
(* A notification never counts more successes than messages that arrived.  *)
NoticeInv(x) == x \in Notice /\ x.succeeded <= x.arrived

HistoryInv ==
    /\ notice \in [Notices -> Notice \union {None}]
    /\ \A n \in Notices : notice[n] # None => NoticeInv(notice[n])
    /\ HistoryIsHonest

(* A step that writes x into slot n, or empties it.                        *)
LEMMA SlotStep ==
    ASSUME HistoryInv, NEW n \in Notices, NEW x, x = None \/ NoticeInv(x),
           notice' = [notice EXCEPT ![n] = x], HistoryIsHonest'
    PROVE  HistoryInv'
  <1>1. x \in Notice \union {None}
    BY DEF NoticeInv
  <1>2. notice' \in [Notices -> Notice \union {None}]
    BY <1>1 DEF HistoryInv
  <1>3. ASSUME NEW m \in Notices, notice'[m] # None
        PROVE  NoticeInv(notice'[m])
    <2>1. CASE m = n
      BY <1>3, <2>1 DEF HistoryInv
    <2>2. CASE m # n
      BY <1>3, <2>2 DEF HistoryInv
    <2>3. QED
      BY <2>1, <2>2
  <1>4. QED
    BY <1>2, <1>3 DEF HistoryInv, NoticeInv

LEMMA OpenStep ==
    ASSUME IInv, HistoryInv, UNCHANGED vars, NEW n \in Notices, Announce(n) \/ Delegate(n)
    PROVE  HistoryInv'
  <1>1. tenant # None => tenant.accounts \subseteq Emails
    BY DEF IInv, DocInv, Good, Tenant
  <1>2. PICK kind \in {"analysis", "delegation"}, W \in SUBSET Messages : Open(n, kind, W)
    <2>1. CASE Announce(n)
      <3>1. PICK own \in BOOLEAN, c \in Channels \union {None} :
               Open(n, "analysis", SomeOrNone(CardChannel(own, c)) \union tenant.accounts)
        BY <2>1 DEF Announce
      <3>2. tenant # None /\ tenant.channel \in Channels \union {None}
        BY <2>1 DEF Announce, IInv, DocInv, Good, Tenant
      <3>3. SomeOrNone(CardChannel(own, c)) \subseteq Channels
        BY <3>2 DEF SomeOrNone, CardChannel
      <3>4. QED
        BY <1>1, <3>1, <3>2, <3>3 DEF Messages
    <2>2. CASE Delegate(n)
      <3>1. PICK U \in SUBSET Users :
               Open(n, "delegation", IF U # {} \/ tenant = None THEN U ELSE tenant.accounts)
        BY <2>2 DEF Delegate
      <3>2. QED
        BY <1>1, <3>1 DEF Messages
    <2>3. QED
      BY <2>1, <2>2
  <1> DEFINE x == [kind |-> kind, waiting |-> W, succeeded |-> 0, arrived |-> 0]
  <1>3. NoticeInv(x)
    BY DEF NoticeInv, Notice
  <1>4. notice' = [notice EXCEPT ![n] = x] /\ HistoryIsHonest'
    BY <1>2 DEF Open, HistoryInv, HistoryIsHonest
  <1>5. QED
    BY <1>3, <1>4, SlotStep

(* What succeeded arrived.                                                 *)
LEMMA SendStep ==
    ASSUME HistoryInv, NEW n \in Notices, PostCard(n) \/ Tell(n) \/ TellDirectly(n)
    PROVE  HistoryInv'
  <1>1. notice[n] # None
    BY DEF PostCard, Tell, TellDirectly, Sending
  <1>2. PICK m \in notice[n].waiting, o \in Outcomes : Send(n, m, o)
    BY DEF PostCard, Tell, TellDirectly
  <1> DEFINE x == notice[n]
             s == IF Succeeded(o) THEN x.succeeded + 1 ELSE x.succeeded
             a == IF o.arrived THEN x.arrived + 1 ELSE x.arrived
             y == [x EXCEPT !.waiting = x.waiting \ {m}, !.succeeded = s, !.arrived = a]
  <1>3. NoticeInv(x)
    BY <1>1 DEF HistoryInv
  <1>4. s \in Nat /\ a \in Nat /\ s <= a
    BY <1>3 DEF NoticeInv, Notice, Outcomes, Succeeded
  <1>5. notice' = [notice EXCEPT ![n] = y] /\ HistoryIsHonest'
    BY <1>2 DEF Send, HistoryInv, HistoryIsHonest
  <1>6. NoticeInv(y)
    <2> HIDE DEF s, a
    <2>1. QED
      BY <1>3, <1>4 DEF NoticeInv, Notice
  <1> HIDE DEF y
  <1>7. QED
    BY <1>5, <1>6, SlotStep

LEMMA CloseStep ==
    ASSUME HistoryInv, NEW n \in Notices, Conclude(n) \/ Answer(n) \/ Break(n)
    PROVE  HistoryInv'
  <1>1. notice' = [notice EXCEPT ![n] = None]
    BY DEF Conclude, Answer, Break, Close
  <1>2. NoticeInv(notice[n])
    BY DEF Conclude, Answer, Break, Sending, HistoryInv
  <1>3. CASE Conclude(n)
    <2> DEFINE record == [recipient_count |-> notice[n].succeeded, arrived |-> notice[n].arrived]
    <2>1. records' = records \/ (notice[n].succeeded > 0 /\ records' = records \union {record})
      BY <1>3 DEF Conclude
    <2>2. notice[n].succeeded > 0 => record.recipient_count \in 1 .. record.arrived
      BY <1>2 DEF NoticeInv, Notice
    <2>3. HistoryIsHonest'
      BY <2>1, <2>2 DEF HistoryInv, HistoryIsHonest
    <2>4. QED
      BY <1>1, <2>3, SlotStep
  <1>4. CASE Answer(n) \/ Break(n)
    BY <1>1, <1>4, SlotStep DEF Answer, Break, HistoryInv, HistoryIsHonest
  <1>5. QED
    BY <1>3, <1>4

LEMMA HistoryInvariant == NotifySpec => []HistoryInv
  <1>1. NotifyInit => HistoryInv
    BY DEF NotifyInit, HistoryInv, HistoryIsHonest
  <1>2. ASSUME IInv, HistoryInv, [NotifyNext]_<<vars, notices>>
        PROVE  HistoryInv'
    <2>1. CASE UNCHANGED notices
      BY <1>2, <2>1 DEF HistoryInv, HistoryIsHonest, NoticeInv, notices
    <2>2. ASSUME NEW n \in Notices, Notify(n), UNCHANGED vars
          PROVE  HistoryInv'
      BY <1>2, <2>2, OpenStep, SendStep, CloseStep DEF Notify
    <2>3. QED
      BY <1>2, <2>1, <2>2 DEF NotifyNext
  <1>3. QED
    BY <1>1, <1>2, RegistrationInvariant, PTL DEF NotifySpec

(* Whatever the messages of any number of announcements come to, a record  *)
(* counts somebody, and nobody who got nothing.                            *)
THEOREM RecordsAreEarned == NotifySpec => []HistoryIsHonest
  <1>1. HistoryInv => HistoryIsHonest
    BY DEF HistoryInv
  <1>2. QED
    BY <1>1, HistoryInvariant, PTL

-----------------------------------------------------------------------------
(* The identity that a user's next token gives him.                        *)
LEMMA PrivilegedExactly ==
    ASSUME TypeOK, NEW u \in Users, NEW platform \in BOOLEAN, NEW extra \in Extras
    PROVE  IsPrivileged(FreshToken(u, platform, extra).claims) <=>
              u \in RoleHolders \union DirectoryAdmins \/ (platform /\ extra # {})
  <1>1. roles[u] \subseteq {"TenantAdmin", "PrivilegedUser"} /\ extra \subseteq {"PlatformAdmin"}
    BY DEF TypeOK, Roles, Extras
  <1> DEFINE c == FreshToken(u, platform, extra).claims
  <1>2. /\ c.platform = platform /\ c.roles = roles[u] \union extra /\ c.named = TRUE
        /\ c.directoryAdmin = (u \in DirectoryAdmins)
    BY DEF FreshToken
  <1> HIDE DEF c
  <1>3. IsPrivileged(c) <=> \/ u \in DirectoryAdmins
                            \/ "TenantAdmin" \in c.roles \/ "PrivilegedUser" \in c.roles
                            \/ platform /\ "PlatformAdmin" \in c.roles
    BY <1>2 DEF IsPrivileged, IdentityType
  <1>4. u \in RoleHolders <=> "TenantAdmin" \in c.roles \/ "PrivilegedUser" \in c.roles
    BY <1>1, <1>2 DEF RoleHolders
  <1>5. extra # {} <=> "PlatformAdmin" \in c.roles
    BY <1>1, <1>2
  <1>6. QED
    BY <1>3, <1>4, <1>5 DEF c

LEMMA FreshTokenIdentifies ==
    ASSUME NEW u \in Users, NEW platform \in BOOLEAN, NEW extra \in Extras
    PROVE  Identified(FreshToken(u, platform, extra))
  BY DEF Identified, Authentic, FreshToken

(* What only administrators may do is open to the holders of a role, the   *)
(* directory's administrators, the platform's administrators at home and   *)
(* applications, to all of them and nobody else.                           *)
THEOREM GuardIsExact == NotifySpec => []GuardAdmitsExactly
  <1>1. ASSUME IInv, NEW platform \in BOOLEAN, NEW extra \in Extras, NEW u \in Users
        PROVE  OpenTo(FreshToken(u, platform, extra)) =
                  IF u \in RoleHolders \union DirectoryAdmins \/ (platform /\ extra # {})
                  THEN Routes ELSE Routes \ AdministratorRoutes
    BY <1>1, PrivilegedExactly, FreshTokenIdentifies DEF IInv, OpenTo, Administers
  <1>2. ASSUME NEW platform \in BOOLEAN, NEW extra \in Extras
        PROVE  OpenTo(MachineToken(platform, extra)) = Routes
    <2> DEFINE t == MachineToken(platform, extra)
    <2>1. /\ t.claims.named = FALSE /\ t.claims.app = TRUE /\ t.claims.audience = "backend"
          /\ t.signed = TRUE /\ t.expired = FALSE
      BY DEF MachineToken
    <2> HIDE DEF t
    <2>2. IsPrivileged(t.claims)
      BY <2>1 DEF IsPrivileged, IdentityType
    <2>3. Administers(t)
      BY <2>1, <2>2 DEF Administers, Identified, Authentic
    <2>4. QED
      BY <2>3 DEF OpenTo, t
  <1>3. IInv => GuardAdmitsExactly
    BY <1>1, <1>2 DEF GuardAdmitsExactly
  <1>4. QED
    BY <1>3, RegistrationInvariant, PTL

(* A user of a registered tenant is not told that the tenant is missing,   *)
(* nor that he lacks a role if Entra ID does not say so.                   *)
LEMMA StatusKnowsHim ==
    ASSUME NEW u \in Users, NEW reply \in OtherReplies
    PROVE  TenantStatus(FreshToken(u, FALSE, {}), TRUE, reply)
              \notin {"NOT_ASSIGNED", "TENANT_NOT_REGISTERED"}
  <1> DEFINE t == FreshToken(u, FALSE, {})
             obo == Exchange(t, "ARM", reply)
  <1>1. /\ t.expired = FALSE /\ t.claims.audience = "backend" /\ t.claims.delegated = FALSE
    BY DEF FreshToken
  <1>2. "unassigned" \notin reply.symptoms
    BY DEF OtherReplies
  <1>3. ~AlreadyFor(t.claims, "ARM")
    BY <1>1 DEF AlreadyFor
  <1>4. OboError(reply.symptoms) \in {"MFA_REQUIRED", "CONSENT_REQUIRED", "OBO_FAILED"}
    BY <1>2 DEF OboError
  <1>5. obo \in {"ok", "UNREACHABLE", "MFA_REQUIRED", "CONSENT_REQUIRED", "OBO_FAILED"}
    BY <1>1, <1>3, <1>4 DEF Exchange
  <1> HIDE DEF t, obo
  <1>6. QED
    BY <1>5 DEF TenantStatus, obo, t

(* A stored operator whose assignment did not fail passes every guard and  *)
(* sees the subscriptions whatever address he is stored under; one whose   *)
(* assignment failed sees them if he is stored under the address he signs  *)
(* in with.                                                                *)
THEOREM OperatorsEnter == NotifySpec => []OperatorsAreLetIn
  <1>1. ASSUME IInv, Registered, NEW e \in tenant.accounts
        PROVE  LET u == UserOf[e]
                   t == FreshToken(u, FALSE, {}) IN
               /\ u \notin tenant.excused => OpenTo(t) = Routes
               /\ u \notin tenant.excused \/ e \in SignsInAs[u] =>
                     SeesSubscriptions(t.claims, Listed(u), Registered)
               /\ \A reply \in OtherReplies :
                     TenantStatus(t, Registered, reply) \notin {"NOT_ASSIGNED", "TENANT_NOT_REGISTERED"}
    <2> DEFINE u == UserOf[e]
               t == FreshToken(u, FALSE, {})
    <2>1. /\ tenant \in Tenant /\ TypeOK /\ Registered = TRUE
          /\ UsersOf(tenant.accounts) \subseteq RoleHolders \union tenant.excused
      BY <1>1 DEF IInv, DocInv, Good, Staffed, Registered
    <2>2. u \in Users /\ u \in UsersOf(tenant.accounts) /\ {} \in Extras
      BY <2>1, TenantAssumption DEF UsersOf, Tenant, Extras
    <2>3. u \notin tenant.excused => Administers(t) /\ IsPrivileged(t.claims)
      BY <2>1, <2>2, PrivilegedExactly, FreshTokenIdentifies DEF Administers
    <2>4. e \in SignsInAs[u] => Listed(u)
      BY DEF Listed
    <2>5. \A reply \in OtherReplies :
             TenantStatus(t, Registered, reply) \notin {"NOT_ASSIGNED", "TENANT_NOT_REGISTERED"}
      BY <2>1, <2>2, StatusKnowsHim
    <2> HIDE DEF u, t
    <2>6. QED
      BY <1>1, <2>3, <2>4, <2>5 DEF OpenTo, SeesSubscriptions, u, t
  <1>2. IInv => OperatorsAreLetIn
    BY <1>1 DEF OperatorsAreLetIn
  <1>3. QED
    BY <1>2, RegistrationInvariant, PTL
=============================================================================
