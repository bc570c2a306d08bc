------------------------- MODULE TenantNotifications -------------------------
(***************************************************************************)
(* Registration of a tenant together with the two things that use what it  *)
(* leaves behind: the access of its users (module AccessControl, with the  *)
(* token Entra ID would issue now) and the messages sent in Teams.         *)
(* NotificationService reads the tenant once and then talks to Graph and   *)
(* to the bot connector for as long as it takes, while other requests      *)
(* change the document; nobody awaits the task that announces a report.    *)
(***************************************************************************)
EXTENDS TenantRegistration, AccessControl, FiniteSets

CONSTANTS
    Notices,      \* slots: how many notifications are sent at once
    MaxNotices,   \* bound: notifications in a run
    MaxBeside,    \* bound: requests in a run that sends notifications
    SignsInAs     \* user -> the addresses that equal, but for case, the one in his token

ASSUME SignsInAssumption == SignsInAs \in [Users -> SUBSET Emails]
ASSUME BoundAssumption == MaxNotices \in Nat

(* One message each: to the channel, to the user_id stored with an address *)
(* (a user with two addresses gets two), to a user by his id.              *)
Messages == Channels \union Emails \union Users

(* waiting: the messages still to be answered; succeeded: how many results *)
(* were True.  History: how many messages arrived.                         *)
Notice == [kind : {"analysis", "delegation"}, waiting : SUBSET Messages,
           succeeded : Nat, arrived : Nat]

ASSUME NoticeAssumption == None \notin Notice

VARIABLES
    notice,      \* slot -> what it sends, or None
    records,     \* the recipient_counts in the notifications container,
                 \* each with how many messages really arrived
    noticed      \* how many of MaxNotices began

notices == <<notice, records, noticed>>

NotifyInit ==
    /\ Init
    /\ notice = [n \in Notices |-> None]
    /\ records = {}
    /\ noticed = 0

Open(n, kind, messages) ==
    /\ notice[n] = None /\ noticed < MaxNotices
    /\ noticed' = noticed + 1
    /\ notice' = [notice EXCEPT ![n] = [kind |-> kind, waiting |-> messages,
                                       succeeded |-> 0, arrived |-> 0]]
    /\ UNCHANGED records

Close(n) ==
    /\ notice' = [notice EXCEPT ![n] = None]
    /\ UNCHANGED noticed

Sending(n, kind) == notice[n] # None /\ notice[n].kind = kind

-----------------------------------------------------------------------------
SomeOrNone(c) == {c} \ {None}

(* The teams_info of an agent that has one takes precedence, even if it    *)
(* names no channel.                                                       *)
CardChannel(own, c) == IF own THEN c ELSE tenant.channel

(* notify_analysis_completed: a report was completed.  Without a document, *)
(* or with nothing to send, the task ends.                                 *)
Announce(n) ==
    /\ tenant # None
    /\ \E own \in BOOLEAN, c \in Channels \union {None} :
          Open(n, "analysis", SomeOrNone(CardChannel(own, c)) \union tenant.accounts)

(* What a message comes to: the result of its task, and whether it arrived.*)
(* 200 and 204 are only answered to what arrived; a refusal, and what the  *)
(* code raises or catches while it waits for an answer, may follow either. *)
Outcomes == {o \in [result : {"True", "False", "raised"}, arrived : BOOLEAN] :
                o.result = "True" => o.arrived}

(* Mutant: the results are filtered by truth, and exceptions are true.     *)
BugSucceeded(o) == o.result # "False"

Succeeded(o) == o.result = "True"

Send(n, m, o) ==
    /\ notice' = [notice EXCEPT ![n].waiting = @ \ {m},
                                ![n].succeeded = IF Succeeded(o) THEN @ + 1 ELSE @,
                                ![n].arrived = IF o.arrived THEN @ + 1 ELSE @]
    /\ UNCHANGED <<records, noticed>>

(* asyncio.gather: the card of the channel, and the activity feed of each  *)
(* operator.                                                               *)
PostCard(n) ==
    /\ Sending(n, "analysis")
    /\ \E m \in notice[n].waiting \intersect Channels, o \in Outcomes : Send(n, m, o)

Tell(n) ==
    /\ Sending(n, "analysis")
    /\ \E m \in notice[n].waiting \intersect Emails, o \in Outcomes : Send(n, m, o)

(* All of gather is done.  A record is kept only if something succeeded,   *)
(* and it may fail to be stored.                                           *)
Conclude(n) ==
    /\ Sending(n, "analysis") /\ notice[n].waiting = {}
    /\ LET record == [recipient_count |-> notice[n].succeeded, arrived |-> notice[n].arrived] IN
       records' \in {records, IF notice[n].succeeded > 0 THEN records \union {record} ELSE records}
    /\ Close(n)

(* POST /notifications/delegation, by any caller who is identified: the    *)
(* users he names, or else the operators.                                  *)
Delegate(n) ==
    \E U \in SUBSET Users :
        Open(n, "delegation", IF U # {} \/ tenant = None THEN U ELSE tenant.accounts)

(* The loop over the users: a conversation with each, and a card in it.  A *)
(* post that fails is a result, and only what raises before ends the loop. *)
TellDirectly(n) ==
    /\ Sending(n, "delegation")
    /\ \E m \in notice[n].waiting, o \in Outcomes : o.result # "raised" /\ Send(n, m, o)

Answer(n) ==
    /\ Sending(n, "delegation") /\ notice[n].waiting = {}
    /\ Close(n) /\ UNCHANGED records

(* The bot's token or a new conversation cannot be had, which ends the     *)
(* loop over the users; or the replica is restarted, which ends either.    *)
Break(n) ==
    /\ notice[n] # None
    /\ Close(n) /\ UNCHANGED records

Notify(n) ==
    \/ Announce(n) \/ PostCard(n) \/ Tell(n) \/ Conclude(n)
    \/ Delegate(n) \/ TellDirectly(n) \/ Answer(n) \/ Break(n)

Room == noticed' > 0 => started' <= MaxBeside

NotifyNext ==
    \/ Next /\ UNCHANGED notices /\ Room
    \/ (\E n \in Notices : Notify(n)) /\ UNCHANGED vars /\ Room

NotifySpec == NotifyInit /\ [][NotifyNext]_<<vars, notices>>

-----------------------------------------------------------------------------
(* What a guard may be shown: the token Entra ID issues to u now, in the   *)
(* provider's own tenant or another, with the role of the provider's       *)
(* administrators or without; and the token of an application.             *)
Extras == SUBSET {"PlatformAdmin"}

FreshToken(u, platform, extra) ==
    [claims |-> [platform |-> platform, roles |-> roles[u] \union extra,
                 directoryAdmin |-> u \in DirectoryAdmins, named |-> TRUE, app |-> TRUE,
                 audience |-> "backend", delegated |-> FALSE],
     signed |-> TRUE, expired |-> FALSE]

MachineToken(platform, extra) ==
    [claims |-> [platform |-> platform, roles |-> extra, directoryAdmin |-> FALSE,
                 named |-> FALSE, app |-> TRUE, audience |-> "backend", delegated |-> FALSE],
     signed |-> TRUE, expired |-> FALSE]

(* What only administrators may do is open to exactly the users who hold a *)
(* role or administer the directory, to the platform's administrators in   *)
(* the platform's tenant, and to applications, by the next token they get  *)
(* (admin_verify_guard.py:13, update_tenant_use_case.py:34): the cascade   *)
(* of identity_extractor.py:104-123 loses none of them, and PlatformAdmin  *)
(* counts nowhere else.                                                    *)
GuardAdmitsExactly ==
    \A platform \in BOOLEAN, extra \in Extras :
        /\ \A u \in Users :
              OpenTo(FreshToken(u, platform, extra)) =
                  IF u \in RoleHolders \union DirectoryAdmins \/ (platform /\ extra # {})
                  THEN Routes ELSE Routes \ AdministratorRoutes
        /\ OpenTo(MachineToken(platform, extra)) = Routes

OtherReplies == {r \in Replies : "unassigned" \notin r.symptoms}

Registered == tenant # None
Listed(u) == tenant.accounts \intersect SignsInAs[u] # {}

(* A stored operator is let in with an ordinary token of his.  Unless his  *)
(* assignment failed, he passes every guard and sees the subscriptions,    *)
(* under whatever address he was stored; if it failed he still sees them,  *)
(* provided that the address is the one he signs in with                   *)
(* (get_subscriptions_use_case.py:29-45).  And GET /tenants/me tells       *)
(* nobody stored that the tenant is missing, nor that he lacks a role      *)
(* unless Entra ID says so (get_tenant_status_use_case.py:16-54).          *)
OperatorsAreLetIn ==
    Registered => \A e \in tenant.accounts :
        LET u == UserOf[e]
            t == FreshToken(u, FALSE, {}) IN
        /\ u \notin tenant.excused => OpenTo(t) = Routes
        /\ u \notin tenant.excused \/ e \in SignsInAs[u] =>
              SeesSubscriptions(t.claims, Listed(u), Registered)
        /\ \A reply \in OtherReplies :
              TenantStatus(t, Registered, reply) \notin {"NOT_ASSIGNED", "TENANT_NOT_REGISTERED"}

(* The history of notifications claims only what arrived: a record counts  *)
(* at least one recipient and no more than got the message, whatever the   *)
(* sends of one announcement came to while others ran or died              *)
(* (service.py:45, :182-195).                                              *)
HistoryIsHonest == \A x \in records : x.recipient_count \in 1 .. x.arrived
=============================================================================
