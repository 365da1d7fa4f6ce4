---------------------------- MODULE TenantAccess ----------------------------
(***************************************************************************)
(* What a signed-in account sees of a tenant and may change in it.  A      *)
(* handler of the console or of /v1/tenants fixes the principal once and   *)
(* then reads in several transactions, each under the row-level security   *)
(* of that moment, while tenants and accounts are deleted and grants       *)
(* revoked.  /app looks for a workspace and makes one for an account that  *)
(* has none.  A request is its handler up to the next await.               *)
(***************************************************************************)
EXTENDS Integers

CONSTANTS
    Accounts,
    Tenants,    \* ids, those of tenants not yet made included
    Roles,      \* the first memberships: [t, a, role], made by an operator or a login
    Homes,      \* the first home tenants: [t, a]
    Grants, SubjectOf, TenantOf,
    Calls

ASSUME AccessConstants ==
    /\ "none" \notin Accounts \cup Tenants \cup Grants
    /\ Roles \subseteq [t: Tenants, a: Accounts, role: {"owner", "member"}]
    /\ Homes \subseteq [t: Tenants, a: Accounts]
    /\ SubjectOf \in [Grants -> Accounts] /\ TenantOf \in [Grants -> Tenants]
    \* a home is inserted together with its owner, and a grant names a tenant that exists
    /\ \A h \in Homes : \E m \in Roles : m.t = h.t /\ m.a = h.a
    /\ \A g \in Grants : \E m \in Roles : m.t = TenantOf[g]

VARIABLES
    signedIn,   \* accounts with a console session that resolves, unless they are deleted
    account,    \* accounts.status
    tenant,     \* tenants.status; "none": not made, "gone": purged
    members,    \* tenant_memberships, the active ones
    home,       \* account_home_tenants
    grant,      \* grants.status; "active" stands for pending and suspended, too
    connected,  \* tenants whose site is active: the one site they have in this model
    log,        \* tenants with rows in audit.security_events
    call        \* requests in flight

accessVars == <<signedIn, account, tenant, members, home, grant, connected, log, call>>
rows == <<account, tenant, members, home, grant, connected, log>>

Parts == {"sites", "grants", "events"}
NoCall == [at |-> "idle", op |-> "none", a |-> "none", t |-> "none", g |-> "none",
           late |-> FALSE, left |-> {}, shown |-> {}]

CallRow ==
    [at: {"idle", "login", "asked", "known", "member", "reading", "answered", "homeless",
          "housed", "landed", "failed", "stranger"},
     op: {"none", "page", "look", "land", "revoke", "disconnect"},
     a: Accounts \cup {"none"}, t: Tenants \cup {"none"}, g: Grants \cup {"none"},
     late: BOOLEAN, left: SUBSET Parts, shown: SUBSET Parts]

AccessTypeOK ==
    /\ signedIn \subseteq Accounts /\ account \in [Accounts -> {"active", "deleted"}]
    /\ tenant \in [Tenants -> {"none", "active", "deleted", "gone"}]
    /\ members \subseteq [t: Tenants, a: Accounts, role: {"owner", "member"}]
    /\ home \in [Accounts -> Tenants \cup {"none"}]
    /\ grant \in [Grants -> {"active", "revoked", "gone"}]
    /\ connected \subseteq Tenants /\ log \subseteq Tenants
    /\ call \in [Calls -> CallRow]

AccessInit ==
    /\ signedIn = {} /\ account = [a \in Accounts |-> "active"]
    /\ members = Roles
    /\ tenant = [t \in Tenants |-> IF \E m \in Roles : m.t = t THEN "active" ELSE "none"]
    /\ home = [a \in Accounts |-> IF \E h \in Homes : h.a = a
                                  THEN (CHOOSE h \in Homes : h.a = a).t ELSE "none"]
    /\ grant = [g \in Grants |-> "active"] /\ connected = {m.t : m \in Roles}
    /\ log = {} /\ call = [r \in Calls |-> NoCall]

-----------------------------------------------------------------------------
(* Who is asking, and what row-level security lets them read. *)

Move(r, to) == call' = [call EXCEPT ![r].at = to]
Close(r) == call' = [call EXCEPT ![r] = NoCall]

Authenticated(a) == a \in signedIn /\ account[a] = "active"

\* has_active_membership does not look at the tenant's status.
Member(t, a) == \E m \in members : m.t = t /\ m.a = a
Owner(t, a) == [t |-> t, a |-> a, role |-> "owner"] \in members

\* Mutant: the list does not look at the tenant either.
ListedWhenMember(a) == {t \in Tenants : Member(t, a)}

Memberships(a) == {t \in Tenants : Member(t, a) /\ tenant[t] = "active"}

\* Mutant: only the subject may revoke a grant.
SubjectOnly(g, a) == Member(TenantOf[g], a) /\ SubjectOf[g] = a

MayRevoke(g, a) == /\ Member(TenantOf[g], a)
                   /\ (SubjectOf[g] = a \/ Owner(TenantOf[g], a))

\* grant_tenant_access: a subject sees its own grants.
VisibleGrants(t, a) == \E g \in Grants : /\ TenantOf[g] = t /\ grant[g] # "gone"
                                         /\ (SubjectOf[g] = a \/ Owner(t, a))
VisibleTenant(t, a) == Member(t, a) /\ tenant[t] # "gone"
VisibleSites(t, a) == Member(t, a) /\ tenant[t] # "gone"
VisibleEvents(t, a) == Member(t, a) /\ t \in log

\* withAuditWriter: rolled back unless the event's tenant exists; safeAudit
\* swallows that.
Audit(t) == log' = IF tenant[t] \in {"none", "gone"} THEN log ELSE log \cup {t}

-----------------------------------------------------------------------------
(* The pages of a tenant and the look at it through /v1. *)

\* A tenant that is being deleted, or one that the account is no member of
Outside(t, a) == \/ tenant[t] \in {"deleted", "gone"}
                 \/ tenant[t] = "active" /\ ~Member(t, a)

\* uiMembershipsFor: whoever has no session is sent to the login. Of the
\* memberships it lists, a page of a tenant uses none.
Admit(r, a, q) ==
    /\ call[r] = NoCall
    /\ call' = [call EXCEPT ![r] = IF Authenticated(a) THEN q ELSE [NoCall EXCEPT !.at = "login"]]

OpenPage(r, a, t) ==
    /\ Admit(r, a, [NoCall EXCEPT !.at = "asked", !.op = "page", !.a = a, !.t = t,
                                  !.late = Outside(t, a)])
    /\ UNCHANGED <<signedIn, rows>>

\* requestContext, of a reader and of a mutation
Ask(r, a, op, t, g) ==
    /\ call[r] = NoCall /\ Authenticated(a)
    /\ call' = [call EXCEPT ![r] = [NoCall EXCEPT !.at = "known", !.op = op,
                                                   !.a = a, !.t = t, !.g = g]]
    /\ UNCHANGED <<signedIn, rows>>

\* POST revoke, POST disconnect
RequestRevoke(r, a, g) == Ask(r, a, "revoke", TenantOf[g], g)
RequestDisconnect(r, a, t) == Ask(r, a, "disconnect", t, "none")

\* requestContext of a request without a principal
Refuse(t) == /\ Audit(t)
             /\ UNCHANGED <<signedIn, account, tenant, members, home, grant, connected, call>>

\* tenantPageModel authenticates again and looks the tenant up in the memberships.
Find(r) ==
    LET q == call[r] IN
    /\ q.at = "asked"
    /\ IF Authenticated(q.a) /\ q.t \in Memberships(q.a) THEN Move(r, "member") ELSE Close(r)
    /\ UNCHANGED <<signedIn, rows>>

\* findTenant; what a stranger's look leads to is audited.
Look(r) ==
    LET q == call[r] IN
    /\ \/ q.at = "member"
       \/ q.at = "known" /\ q.op = "look"
    /\ IF VisibleTenant(q.t, q.a)
       THEN IF q.op = "page"
            THEN call' = [call EXCEPT ![r].at = "reading", ![r].left = Parts]
            ELSE Move(r, "answered")
       ELSE IF q.op = "page" THEN Close(r) ELSE Move(r, "stranger")
    /\ UNCHANGED <<signedIn, rows>>

\* tenant.access_denied
Deny(r) ==
    LET q == call[r] IN
    /\ q.at = "stranger"
    /\ Audit(q.t) /\ Close(r)
    /\ UNCHANGED <<signedIn, account, tenant, members, home, grant, connected>>

\* One of the parallel reads of a page, or the list of an API, in a transaction
\* of its own; the last one completes the page.
ReadPart(r, p, visible) ==
    LET q == call[r] IN
    /\ q.at = "reading" /\ p \in q.left
    /\ call' = [call EXCEPT ![r].left = @ \ {p}, ![r].shown = IF visible THEN @ \cup {p} ELSE @,
                          ![r].at = IF q.left = {p} THEN "answered" ELSE "reading"]
    /\ UNCHANGED <<signedIn, rows>>

ReadSites(r) == ReadPart(r, "sites", VisibleSites(call[r].t, call[r].a))
ReadGrants(r) == ReadPart(r, "grants", VisibleGrants(call[r].t, call[r].a))
ReadEvents(r) == ReadPart(r, "events", VisibleEvents(call[r].t, call[r].a))

-----------------------------------------------------------------------------
(* Mutations: both answer the same whether or not a row has changed. *)

RevokeGrant(r) ==
    LET q == call[r] IN
    /\ q.at = "known" /\ q.op = "revoke"
    /\ grant' = IF /\ MayRevoke(q.g, q.a) /\ q.t = TenantOf[q.g] /\ grant[q.g] = "active"
                THEN [grant EXCEPT ![q.g] = "revoked"] ELSE grant
    /\ Move(r, "answered")
    /\ UNCHANGED <<signedIn, account, tenant, members, home, connected, log>>

DisconnectSite(r) ==
    LET q == call[r] IN
    /\ q.at = "known" /\ q.op = "disconnect"
    /\ IF Owner(q.t, q.a) /\ q.t \in connected
       THEN /\ connected' = connected \ {q.t}
            /\ grant' = [g \in Grants |-> IF TenantOf[g] = q.t /\ grant[g] = "active"
                                          THEN "revoked" ELSE grant[g]]
       ELSE UNCHANGED <<connected, grant>>
    /\ Move(r, "answered")
    /\ UNCHANGED <<signedIn, account, tenant, members, home, log>>

-----------------------------------------------------------------------------
(* /app *)

\* A redirect to the home tenant, or else to the first one
Landings(a) == {t \in Memberships(a) : home[a] \in Memberships(a) => t = home[a]}

Visit(r, a) ==
    LET q == [NoCall EXCEPT !.op = "land", !.a = a] IN
    /\ IF Memberships(a) = {}
       THEN Admit(r, a, [q EXCEPT !.at = "homeless"])
       ELSE \E t \in Landings(a) : Admit(r, a, [q EXCEPT !.at = "landed", !.t = t])
    /\ UNCHANGED <<signedIn, rows>>

\* Mutant: the home that another tab has made meanwhile is not looked for.
NoHomeSeen(a) == TRUE

NoHome(a) == home[a] = "none"

\* ensure_personal_workspace, under the account's advisory lock
Ensure(r) ==
    LET a == call[r].a IN
    /\ call[r].at = "homeless"
    /\ IF account[a] = "active" /\ NoHome(a) /\ home[a] = "none"
       THEN \E t \in Tenants :
               /\ tenant[t] = "none" /\ tenant' = [tenant EXCEPT ![t] = "active"]
               /\ members' = members \cup {[t |-> t, a |-> a, role |-> "owner"]}
               /\ home' = [home EXCEPT ![a] = t] /\ Move(r, "housed")
       ELSE /\ Move(r, IF ~NoHome(a) /\ account[a] = "active" /\ home[a] \in Memberships(a)
                       THEN "housed" ELSE "failed")   \* the key of account_home_tenants
            /\ UNCHANGED <<tenant, members, home>>
    /\ UNCHANGED <<signedIn, account, grant, connected, log>>

\* The second list: by now the workspace may be gone.
Settle(r) ==
    LET a == call[r].a IN
    /\ call[r].at = "housed"
    /\ IF Memberships(a) = {} THEN Move(r, "failed")
       ELSE \E t \in Landings(a) : call' = [call EXCEPT ![r].at = "landed", ![r].t = t]
    /\ UNCHANGED <<signedIn, rows>>

-----------------------------------------------------------------------------
(* Around the requests. *)

\* An answer, an error page included, leaves; a process may die at any await.
Finish(r) == call[r] # NoCall /\ Close(r) /\ UNCHANGED <<signedIn, rows>>

OpenSession(a) == /\ a \notin signedIn /\ account[a] = "active" /\ signedIn' = signedIn \cup {a}
                  /\ UNCHANGED <<rows, call>>
CloseSession(a) == a \in signedIn /\ signedIn' = signedIn \ {a} /\ UNCHANGED <<rows, call>>

\* What DeletionLifecycle does to these rows: the first advance of an account's
\* job, and of a tenant's, and the second one, which takes the home along.
DeleteAccount(a) ==
    /\ account[a] = "active" /\ account' = [account EXCEPT ![a] = "deleted"]
    /\ members' = {m \in members : m.a # a}
    /\ grant' = [g \in Grants |-> IF SubjectOf[g] = a /\ grant[g] = "active"
                                  THEN "revoked" ELSE grant[g]]
    /\ UNCHANGED <<signedIn, tenant, home, connected, log, call>>

DeleteTenant(t) ==
    /\ tenant[t] = "active" /\ tenant' = [tenant EXCEPT ![t] = "deleted"]
    /\ connected' = connected \ {t}
    /\ grant' = [g \in Grants |-> IF TenantOf[g] = t /\ grant[g] = "active"
                                  THEN "revoked" ELSE grant[g]]
    /\ UNCHANGED <<signedIn, account, members, home, log, call>>

PurgeTenant(t) ==
    /\ tenant[t] = "deleted" /\ tenant' = [tenant EXCEPT ![t] = "gone"]
    /\ members' = {m \in members : m.t # t} /\ log' = log \ {t}
    /\ home' = [a \in Accounts |-> IF home[a] = t THEN "none" ELSE home[a]]
    /\ grant' = [g \in Grants |-> IF TenantOf[g] = t THEN "gone" ELSE grant[g]]
    /\ UNCHANGED <<signedIn, account, connected, call>>

AccessNext ==
    \/ \E r \in Calls, a \in Accounts :
          \/ Visit(r, a)
          \/ \E t \in Tenants : \/ OpenPage(r, a, t) \/ Ask(r, a, "look", t, "none")
                                 \/ RequestDisconnect(r, a, t)
          \/ \E g \in Grants : RequestRevoke(r, a, g)
    \/ \E r \in Calls : \/ Find(r) \/ Look(r) \/ Deny(r)
                           \/ ReadSites(r) \/ ReadGrants(r) \/ ReadEvents(r)
                           \/ RevokeGrant(r) \/ DisconnectSite(r)
                           \/ Ensure(r) \/ Settle(r) \/ Finish(r)
    \/ \E a \in Accounts : OpenSession(a) \/ CloseSession(a) \/ DeleteAccount(a)
    \/ \E t \in Tenants : Refuse(t) \/ DeleteTenant(t) \/ PurgeTenant(t)

AccessSpec == AccessInit /\ [][AccessNext]_accessVars

-----------------------------------------------------------------------------
(* Properties. *)

\* A page asked for when the account was no member of a tenant in service, as
\* after the tenant's deletion has begun, shows nothing of it, although
\* row-level security would still let its rows be read.
LatePageIsEmpty ==
    \A r \in Calls : call[r].late => /\ call[r].at \notin {"member", "reading", "answered"}
                                     /\ call[r].shown = {}

\* "303" and "204" are answered without a look at what the call has changed:
\* for anyone entitled to it, the grant is dead, or the site gone, all the same.
AnswerIsTrue ==
    \A r \in Calls :
       call[r].at = "answered" =>
          /\ call[r].op = "revoke" /\ Member(call[r].t, call[r].a)
                /\ (SubjectOf[call[r].g] = call[r].a \/ Owner(call[r].t, call[r].a))
                => grant[call[r].g] # "active"
          /\ call[r].op = "disconnect" /\ Owner(call[r].t, call[r].a) => call[r].t \notin connected

\* However many tabs an account without a workspace opens at once, /app leads
\* every one of them to it: only a deletion in the meantime makes it an error.
VisitsLand ==
    [][\A r \in Calls :
          call[r].at # "failed" /\ call'[r].at = "failed" =>
             \/ account[call[r].a] # "active"
             \/ call[r].at = "homeless" /\ tenant[home[call[r].a]] = "deleted"
             \/ call[r].at = "housed" /\ Memberships(call[r].a) = {}]_accessVars
=============================================================================
