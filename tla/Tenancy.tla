------------------------------ MODULE Tenancy ------------------------------
(***************************************************************************)
(* The gateway's routes on one tenant: registration, team, invitations,    *)
(* account deletion, API keys and single sign-on.  A route is a chain of   *)
(* awaits, so the requests of several users interleave between their       *)
(* queries and their calls of the Auth0 management API.  Who a user is, a  *)
(* route learns from the token, which Auth0 fills from its own copy of the *)
(* tenant and the roles; tenant_users is only read where a query says so.  *)
(* Module Billing adds the subscription and the devices to this tenant.    *)
(***************************************************************************)
EXTENDS Naturals, FiniteSets

CONSTANTS
    Users,        \* people, each with at most one request under way
    Invites,      \* rows tenant_invites may get
    ApiKeys,      \* rows api_keys may get
    Outsiders,    \* the claims Auth0 has of each user who is not in the team
    Budgets       \* bounds: which operations, how many, how many faults

VARIABLES
    tenant,       \* the tenants row: its state, auth0_org_id, sso_connection_id
    role,         \* tenant_users: the role of each user, or "none"
    invites,      \* tenant_invites
    admitted,     \* history: how often someone joined by each invite
    apiKeys,      \* api_keys
    auth0,        \* Auth0: app_metadata.tenant_id and roles of each user
    token,        \* the claims in each user's access token
    idp,          \* Auth0: the organization, and the connections
    req,          \* the request of each user
    overlap,      \* history: two requests were under way at once
    budget, used  \* the bounds, and how much of each is used

rowVars == <<tenant, role, invites, admitted, apiKeys>>
authVars == <<auth0, token, idp, budget>>   \* and the budget, which never changes
tenancyVars == <<rowVars, authVars, req, overlap, used>>

Roles == {"member", "admin"}
Kinds == {"saml", "oidc"}
NoRequest == [op |-> "none", at |-> "idle", arg |-> "none", seen |-> 0]
NoInvite == [state |-> "none", email |-> "none", role |-> "member"]
Bounds == {"requests", "faults", "logins", "events", "periods"}
Claims == [tenant : {"none", "other", "ours"}, roles : SUBSET Roles]

\* A team that registered has an admin.
ASSUME TeamAssumption ==
    /\ IsFiniteSet(Users)
    /\ Outsiders \in [Users -> Claims]
    /\ \A u \in Users : Outsiders[u].tenant # "ours"
    /\ \A b \in Budgets :
          /\ b.team \in [Users -> Roles \cup {"none"}]
          /\ \A u \in Users : b.team[u] # "none" => \E v \in Users : b.team[v] = "admin"

TenancyTypeOK ==
    /\ tenant \in [state : {"none", "live", "gone"}, org : BOOLEAN,
                   conn : Kinds \cup {"none"}]
    /\ role \in [Users -> Roles \cup {"none"}]
    /\ \A i \in Invites :
          /\ invites[i].state \in {"none", "pending", "accepted", "expired", "deleted"}
          /\ admitted[i] \in Nat
    /\ apiKeys \in [ApiKeys -> {"none", "active", "revoked", "deleted"}]
    /\ auth0 \in [Users -> Claims] /\ token \in [Users -> Claims]
    /\ idp \in [org : BOOLEAN, conns : SUBSET Kinds, enabled : SUBSET Kinds]
    /\ idp.enabled \subseteq idp.conns
    /\ \A u \in Users : req[u].at = "idle" <=> req[u] = NoRequest

\* The tenant is not registered yet, or has the team of the budget.
TenancyInit ==
    /\ budget \in Budgets
    /\ used = [b \in Bounds |-> 0]
    /\ role = budget.team
    /\ tenant = [state |-> IF \A u \in Users : role[u] = "none" THEN "none" ELSE "live",
                 org |-> FALSE, conn |-> "none"]
    /\ auth0 = [u \in Users |-> IF role[u] = "none" THEN Outsiders[u]
                               ELSE [tenant |-> "ours", roles |-> {role[u]}]]
    /\ token = auth0
    /\ invites = [i \in Invites |-> NoInvite]
    /\ admitted = [i \in Invites |-> 0]
    /\ apiKeys = [k \in ApiKeys |-> "none"]
    /\ idp = [org |-> FALSE, conns |-> {}, enabled |-> {}]
    /\ req = [u \in Users |-> NoRequest]
    /\ overlap = FALSE

-----------------------------------------------------------------------------
(* Requests. *)

Spend(b) == used[b] < budget[b] /\ used' = [used EXCEPT ![b] = @ + 1]
MayFail(ok) == IF ok THEN UNCHANGED used ELSE Spend("faults")

\* A request arrives; its first await has arg in hand.
Begin(u, op, at, arg, seen) ==
    /\ req[u] = NoRequest /\ op \in budget.ops
    /\ Spend("requests")
    /\ req' = [req EXCEPT ![u] =
                   [op |-> op, at |-> at, arg |-> arg, seen |-> seen]]
    /\ overlap' = (overlap \/ \E v \in Users : req[v] # NoRequest)

\* A request of one query.
AtOnce(u, op) ==
    /\ req[u] = NoRequest /\ op \in budget.ops
    /\ Spend("requests")
    /\ overlap' = (overlap \/ \E v \in Users : req[v] # NoRequest)
    /\ UNCHANGED req

At(u, op, at) == req[u].op = op /\ req[u].at = at

Go(u, at) == req' = [req EXCEPT ![u].at = at]

Answer(u) == req' = [req EXCEPT ![u] = NoRequest]

\* A query or a call that only moves the request on.
GoOr(u, ok, at) == IF ok THEN Go(u, at) ELSE Answer(u)

\* authMiddleware: without a tenant in the token there is no request.
Authenticated(u) == token[u].tenant # "none"
InTenant(u) == token[u].tenant = "ours"
RequireAdmin(u) == InTenant(u) /\ "admin" \in token[u].roles

\* Auth0 issues a new access token.
Login(u) ==
    /\ token[u] # auth0[u]
    /\ Spend("logins")
    /\ token' = [token EXCEPT ![u] = auth0[u]]
    /\ UNCHANGED <<rowVars, auth0, idp, budget, req, overlap>>

\* The gateway stops, and with it whatever it was doing.
StopGateway ==
    /\ \E u \in Users : req[u] # NoRequest
    /\ Spend("faults")
    /\ req' = [u \in Users |-> NoRequest]
    /\ UNCHANGED <<rowVars, authVars, overlap>>

\* setUserTenantId and assignRoleByName after the commit: both may fail, and
\* the request succeeds all the same.
SetAuth0(u) ==
    /\ req[u].at = "auth0"
    /\ \E setTenant, assigned \in BOOLEAN :
          /\ MayFail(setTenant /\ assigned)
          /\ auth0' = [auth0 EXCEPT ![u] =
                [tenant |-> IF setTenant THEN "ours" ELSE @.tenant,
                 roles |-> IF assigned THEN @.roles \cup {req[u].arg}
                                       ELSE @.roles]]
    /\ Answer(u)
    /\ UNCHANGED <<rowVars, token, idp, budget, overlap>>

-----------------------------------------------------------------------------
(* Tenants and team. *)

\* POST /tenants/register: the transaction, then Auth0.  The slug is unique.
Register(u) ==
    /\ tenant.state = "none"
    /\ Begin(u, "register", "auth0", "admin", 0)
    /\ tenant' = [tenant EXCEPT !.state = "live"]
    /\ role' = [role EXCEPT ![u] = "admin"]
    /\ UNCHANGED <<invites, admitted, apiKeys, authVars>>

Pending(e) == {i \in Invites : invites[i].state = "pending" /\ invites[i].email = e}

\* POST /team/invite: two checks, then the row, which the foreign key refuses
\* once the tenant is gone.
Invite(u, e) ==
    /\ RequireAdmin(u)
    /\ Begin(u, "invite", "member", e, 0)
    /\ UNCHANGED <<rowVars, authVars>>

InviteChecks(u) ==
    /\ \/ /\ At(u, "invite", "member")
          /\ GoOr(u, role[req[u].arg] = "none", "pending")
       \/ /\ At(u, "invite", "pending")
          /\ GoOr(u, Pending(req[u].arg) = {}, "insert")
    /\ UNCHANGED <<rowVars, authVars, overlap, used>>

InsertInvite(u) ==
    /\ At(u, "invite", "insert")
    /\ Answer(u)
    /\ IF tenant.state = "live"
       THEN \E i \in Invites, r \in Roles :
               /\ invites[i].state = "none"
               /\ invites' = [invites EXCEPT ![i] =
                     [state |-> "pending", email |-> req[u].arg, role |-> r]]
       ELSE UNCHANGED invites
    /\ UNCHANGED <<tenant, role, admitted, apiKeys, authVars, overlap, used>>

\* Seven days go by.
ExpireInvite(i) ==
    /\ invites[i].state = "pending"
    /\ Spend("periods")
    /\ invites' = [invites EXCEPT ![i].state = "expired"]
    /\ UNCHANGED <<tenant, role, admitted, apiKeys, authVars, req, overlap>>

\* DELETE /team/invites/:id.
RevokeInvite(u, i) ==
    /\ RequireAdmin(u)
    /\ invites[i].state \notin {"none", "deleted"}
    /\ AtOnce(u, "revoke")
    /\ invites' = [invites EXCEPT ![i].state = "deleted"]
    /\ UNCHANGED <<tenant, role, admitted, apiKeys, authVars>>

\* POST /team/invite/accept, by anyone who has the link and a token.
SelectInvite(u, i) ==
    /\ Authenticated(u)
    /\ invites[i].state = "pending"
    /\ Begin(u, "accept", "insert", i, 0)
    /\ UNCHANGED <<rowVars, authVars>>

\* Variant: nothing refuses a member of a tenant that is gone.
AcceptInviteUnchecked(u) ==
    LET i == req[u].arg IN
    /\ At(u, "accept", "insert")
    /\ IF role[u] # "none"
       THEN Answer(u) /\ UNCHANGED <<role, invites, admitted>>
       ELSE /\ role' = [role EXCEPT ![u] = invites[i].role]
            /\ invites' = IF invites[i].state = "deleted" THEN invites
                          ELSE [invites EXCEPT ![i].state = "accepted"]
            /\ admitted' = [admitted EXCEPT ![i] = @ + 1]
            /\ req' = [req EXCEPT ![u].at = "auth0", ![u].arg = invites[i].role]
    /\ UNCHANGED <<tenant, apiKeys, authVars, overlap, used>>

\* Variant: the invite stays open.
AcceptInviteKeepsOpen(u) ==
    LET i == req[u].arg IN
    /\ At(u, "accept", "insert")
    /\ IF tenant.state # "live" \/ role[u] # "none"
       THEN Answer(u) /\ UNCHANGED <<role, admitted>>
       ELSE /\ role' = [role EXCEPT ![u] = invites[i].role]
            /\ admitted' = [admitted EXCEPT ![i] = @ + 1]
            /\ req' = [req EXCEPT ![u].at = "auth0", ![u].arg = invites[i].role]
    /\ UNCHANGED <<tenant, invites, apiKeys, authVars, overlap, used>>

\* The transaction: refused when the tenant is gone or the user a member.  It
\* does not look again at the invite, which may be deleted or accepted by now.
AcceptInvite(u) ==
    LET i == req[u].arg IN
    /\ At(u, "accept", "insert")
    /\ IF tenant.state # "live" \/ role[u] # "none"
       THEN Answer(u) /\ UNCHANGED <<role, invites, admitted>>
       ELSE /\ role' = [role EXCEPT ![u] = invites[i].role]
            /\ invites' = IF invites[i].state = "deleted" THEN invites
                          ELSE [invites EXCEPT ![i].state = "accepted"]
            /\ admitted' = [admitted EXCEPT ![i] = @ + 1]
            /\ req' = [req EXCEPT ![u].at = "auth0", ![u].arg = invites[i].role]
    /\ UNCHANGED <<tenant, apiKeys, authVars, overlap, used>>

\* PUT /team/members/:id/role: the row only, not Auth0's roles.
PutRole(u, v) ==
    /\ RequireAdmin(u)
    /\ role[v] # "none"
    /\ AtOnce(u, "role")
    /\ \E r \in Roles \ {role[v]} : role' = [role EXCEPT ![v] = r]
    /\ UNCHANGED <<tenant, invites, admitted, apiKeys, authVars>>

\* DELETE /team/members/:id.
SelectMember(u, v) ==
    /\ RequireAdmin(u) /\ role[v] # "none" /\ v # u
    /\ Begin(u, "remove", "delete", v, 0)
    /\ UNCHANGED <<rowVars, authVars>>

RemoveMember(u) ==
    /\ At(u, "remove", "delete")
    /\ role' = [role EXCEPT ![req[u].arg] = "none"]
    /\ Answer(u)
    /\ UNCHANGED <<tenant, invites, admitted, apiKeys, authVars, overlap, used>>

-----------------------------------------------------------------------------
(* DELETE /account/me: one transaction, read committed. *)

Admins == {u \in Users : role[u] = "admin"}

CountAdmins(u) ==
    /\ InTenant(u)
    /\ Begin(u, "leave", "self", "none", Cardinality(Admins))
    /\ UNCHANGED <<rowVars, authVars>>

\* Variant: the last two admins count as the last one.
ReadSelfEarly(u) ==
    /\ At(u, "leave", "self")
    /\ LET last == role[u] = "admin" /\ req[u].seen <= 2
       IN GoOr(u, role[u] # "none", IF last THEN "erase" ELSE "delete")
    /\ UNCHANGED <<rowVars, authVars, overlap, used>>

\* The user's own row decides between leaving and erasing the tenant.
ReadSelf(u) ==
    /\ At(u, "leave", "self")
    /\ LET last == role[u] = "admin" /\ req[u].seen = 1
       IN GoOr(u, role[u] # "none", IF last THEN "erase" ELSE "delete")
    /\ UNCHANGED <<rowVars, authVars, overlap, used>>

LeaveTenant(u) ==
    /\ At(u, "leave", "delete")
    /\ role' = [role EXCEPT ![u] = "none"]
    /\ Answer(u)
    /\ UNCHANGED <<tenant, invites, admitted, apiKeys, authVars, overlap, used>>

\* DELETE FROM tenants and COMMIT: what references the row goes with it.
CommitErase(u) ==
    /\ At(u, "leave", "commit")
    /\ tenant' = [state |-> "gone", org |-> FALSE, conn |-> "none"]
    /\ role' = [v \in Users |-> "none"]
    /\ invites' = [i \in Invites |->
                      IF invites[i].state = "none" THEN invites[i]
                      ELSE [invites[i] EXCEPT !.state = "deleted"]]
    /\ apiKeys' = [k \in ApiKeys |->
                      IF apiKeys[k] = "none" THEN "none" ELSE "deleted"]
    /\ Answer(u)
    /\ UNCHANGED <<admitted, authVars, overlap, used>>

-----------------------------------------------------------------------------
(* API keys. *)

CreateKey(u) ==
    /\ RequireAdmin(u)
    /\ tenant.state = "live"
    /\ AtOnce(u, "keys")
    /\ \E k \in ApiKeys : /\ apiKeys[k] = "none"
                          /\ apiKeys' = [apiKeys EXCEPT ![k] = "active"]
    /\ UNCHANGED <<tenant, role, invites, admitted, authVars>>

RevokeKey(u, k) ==
    /\ RequireAdmin(u)
    /\ apiKeys[k] = "active"
    /\ AtOnce(u, "keys")
    /\ apiKeys' = [apiKeys EXCEPT ![k] = "revoked"]
    /\ UNCHANGED <<tenant, role, invites, admitted, authVars>>

-----------------------------------------------------------------------------
(* Single sign-on.  A management call fails, or its answer is lost after it  *)
(* took effect; names are unique at Auth0 and connections never deleted.     *)

\* The outcomes of a management call: taking effect and being reported good.
Mgmt(done, ok) == (ok => done) /\ MayFail(ok)

\* POST /tenants/me/sso/org.
CreateOrg(u) ==
    /\ RequireAdmin(u) /\ tenant.state = "live" /\ ~tenant.org
    /\ Begin(u, "org", "create", "none", 0)
    /\ UNCHANGED <<rowVars, authVars>>

CreateOrganization(u) ==
    /\ At(u, "org", "create")
    /\ IF idp.org
       THEN Answer(u) /\ UNCHANGED <<idp, used>>
       ELSE \E done, ok \in BOOLEAN :
               /\ Mgmt(done, ok)
               /\ idp' = [idp EXCEPT !.org = done]
               /\ GoOr(u, ok, "save")
    /\ UNCHANGED <<rowVars, auth0, token, budget, overlap>>

SaveOrg(u) ==
    /\ At(u, "org", "save")
    /\ tenant' = IF tenant.state = "live" THEN [tenant EXCEPT !.org = TRUE]
                 ELSE tenant
    /\ Answer(u)
    /\ UNCHANGED <<role, invites, admitted, apiKeys, authVars, overlap, used>>

\* POST /tenants/me/sso/saml and /oidc.
ConfigureSso(u, kind) ==
    /\ RequireAdmin(u) /\ tenant.state = "live" /\ tenant.org
    /\ Begin(u, "sso", "create", kind, 0)
    /\ UNCHANGED <<rowVars, authVars>>

CreateConnection(u) ==
    LET kind == req[u].arg IN
    /\ At(u, "sso", "create")
    /\ IF kind \in idp.conns
       THEN Answer(u) /\ UNCHANGED <<idp, used>>
       ELSE \E done, ok \in BOOLEAN :
               /\ Mgmt(done, ok)
               /\ idp' = IF done THEN [idp EXCEPT !.conns = @ \cup {kind}] ELSE idp
               /\ GoOr(u, ok, "enable")
    /\ UNCHANGED <<rowVars, auth0, token, budget, overlap>>

EnableConnectionOnOrg(u) ==
    /\ At(u, "sso", "enable")
    /\ \E done, ok \in BOOLEAN :
          /\ Mgmt(done, ok)
          /\ idp' = IF done THEN [idp EXCEPT !.enabled = @ \cup {req[u].arg}]
                    ELSE idp
          /\ GoOr(u, ok, "save")
    /\ UNCHANGED <<rowVars, auth0, token, budget, overlap>>

SaveConnection(u) ==
    /\ At(u, "sso", "save")
    /\ tenant' = IF tenant.state = "live" THEN [tenant EXCEPT !.conn = req[u].arg]
                 ELSE tenant
    /\ Answer(u)
    /\ UNCHANGED <<role, invites, admitted, apiKeys, authVars, overlap, used>>

\* Variant: the connection stays enabled.
DeleteSsoKeepsEnabled(u) ==
    /\ RequireAdmin(u) /\ tenant.org /\ tenant.conn # "none"
    /\ Begin(u, "nosso", "clear", tenant.conn, 0)
    /\ UNCHANGED <<rowVars, authVars>>

\* DELETE /tenants/me/sso: the connection the row names, not the others.
DeleteSso(u) ==
    /\ RequireAdmin(u) /\ tenant.org /\ tenant.conn # "none"
    /\ Begin(u, "nosso", "disable", tenant.conn, 0)
    /\ UNCHANGED <<rowVars, authVars>>

DisableConnectionOnOrg(u) ==
    /\ At(u, "nosso", "disable")
    /\ \E done, ok \in BOOLEAN :
          /\ Mgmt(done, ok)
          /\ idp' = IF done THEN [idp EXCEPT !.enabled = @ \ {req[u].arg}] ELSE idp
          /\ GoOr(u, ok, "clear")
    /\ UNCHANGED <<rowVars, auth0, token, budget, overlap>>

ClearConnection(u) ==
    /\ At(u, "nosso", "clear")
    /\ tenant' = [tenant EXCEPT !.conn = "none"]
    /\ Answer(u)
    /\ UNCHANGED <<role, invites, admitted, apiKeys, authVars, overlap, used>>

-----------------------------------------------------------------------------
\* The awaits of a request under way; account deletion's last step is joined
\* with the billing tables by module Billing.
Continue(u) ==
    \/ SetAuth0(u) \/ InviteChecks(u) \/ InsertInvite(u) \/ AcceptInvite(u)
    \/ RemoveMember(u) \/ ReadSelf(u) \/ LeaveTenant(u)
    \/ CreateOrganization(u) \/ SaveOrg(u)
    \/ CreateConnection(u) \/ EnableConnectionOnOrg(u) \/ SaveConnection(u)
    \/ DisableConnectionOnOrg(u) \/ ClearConnection(u)

Arrive(u) ==
    \/ Register(u) \/ CountAdmins(u) \/ CreateOrg(u) \/ DeleteSso(u)
    \/ CreateKey(u) \/ \E k \in ApiKeys : RevokeKey(u, k)
    \/ \E v \in Users : Invite(u, v) \/ PutRole(u, v) \/ SelectMember(u, v)
    \/ \E i \in Invites : SelectInvite(u, i) \/ RevokeInvite(u, i)
    \/ \E kind \in Kinds : ConfigureSso(u, kind)
====
