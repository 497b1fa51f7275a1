-------------------------- MODULE TenancyInvariant --------------------------
(***************************************************************************)
(* The inductive invariant of module Tenancy, and what its proofs and      *)
(* those of module Billing say about a step.                               *)
(***************************************************************************)
EXTENDS Tenancy

-----------------------------------------------------------------------------
(* The inductive invariant. *)

\* The requests of each route: its awaits, with what it has in hand.
Registering == [op : {"register"}, at : {"auth0"}, arg : {"admin"}, seen : {0}]
Inviting == [op : {"invite"}, at : {"member", "pending", "insert"}, arg : Users, seen : {0}]
Accepting == [op : {"accept"}, at : {"insert"}, arg : Invites, seen : {0}]
Accepted == [op : {"accept"}, at : {"auth0"}, arg : Roles, seen : {0}]
Removing == [op : {"remove"}, at : {"delete"}, arg : Users, seen : {0}]
Leaving == [op : {"leave"}, at : {"self", "erase", "delete", "commit"}, arg : {"none"},
            seen : Nat]
Organizing == [op : {"org"}, at : {"create", "save"}, arg : {"none"}, seen : {0}]
Configuring == [op : {"sso"}, at : {"create", "enable", "save"}, arg : Kinds, seen : {0}]
Disabling == [op : {"nosso"}, at : {"disable", "clear"}, arg : Kinds, seen : {0}]

\* What Tenancy knows of a request, which may also be one of Billing's.
IsRequest(x) ==
    /\ x.op = "none" <=> x = NoRequest
    /\ x.at = "idle" <=> x = NoRequest
    /\ x.at = "auth0" => x.op \in {"register", "accept"}
    /\ x.op = "register" => x \in Registering
    /\ x.op = "invite" => x \in Inviting
    /\ x.op = "accept" => x \in Accepting \cup Accepted
    /\ x.op = "remove" => x \in Removing
    /\ x.op = "leave" => x \in Leaving
    /\ x.op = "org" => x \in Organizing
    /\ x.op = "sso" => x \in Configuring
    /\ x.op = "nosso" => x \in Disabling

InviteRec == [state : {"none", "pending", "accepted", "expired", "deleted"},
              email : Users \cup {"none"}, role : Roles]

RowShapes ==
    /\ tenant \in [state : {"none", "live", "gone"}, org : BOOLEAN,
                   conn : Kinds \cup {"none"}]
    /\ role \in [Users -> Roles \cup {"none"}]
    /\ invites \in [Invites -> InviteRec]
    /\ admitted \in [Invites -> Nat]
    /\ apiKeys \in [ApiKeys -> {"none", "active", "revoked", "deleted"}]
    /\ auth0 \in [Users -> Claims] /\ token \in [Users -> Claims]
    /\ idp \in [org : BOOLEAN, conns : SUBSET Kinds, enabled : SUBSET Kinds]

\* While requests do not overlap there is one at most.
ReqShapes ==
    /\ budget \in Budgets /\ used \in [Bounds -> Nat] /\ overlap \in BOOLEAN
    /\ DOMAIN req = Users
    /\ \A u \in Users : /\ IsRequest(req[u])
                        /\ req[u] # NoRequest => req[u].op \in budget.ops
    /\ ~overlap => \A u, v \in Users : req[u] # NoRequest /\ req[v] # NoRequest => u = v

\* Before the registration there is nothing.
Unregistered ==
    tenant.state = "none" =>
        /\ ~tenant.org /\ tenant.conn = "none"
        /\ ~idp.org /\ idp.conns = {} /\ idp.enabled = {}
        /\ \A u \in Users : /\ role[u] = "none" /\ req[u] = NoRequest
                            /\ auth0[u].tenant # "ours" /\ token[u].tenant # "ours"
        /\ \A i \in Invites : invites[i].state = "none"

\* Nothing outlives the tenant.
Erased ==
    tenant.state = "gone" =>
        /\ \A u \in Users : role[u] = "none"
        /\ \A i \in Invites : invites[i].state \in {"none", "deleted"}
        /\ \A k \in ApiKeys : apiKeys[k] \in {"none", "deleted"}

\* An invite that admitted somebody is closed; what a request has checked of
\* the invites holds until it writes.
InviteInv ==
    /\ \A i \in Invites : admitted[i] # 0 => invites[i].state \in {"accepted", "deleted"}
    /\ ~overlap =>
          /\ \A i \in Invites : admitted[i] <= 1
          /\ \A u \in Users : At(u, "accept", "insert") => admitted[req[u].arg] = 0
          /\ \A i, j \in Invites :
                /\ invites[i].state = "pending" /\ invites[j].state = "pending"
                /\ invites[i].email = invites[j].email
                => i = j
          /\ \A u \in Users : At(u, "invite", "insert") => Pending(req[u].arg) = {}

\* What a request that deletes an account has read of the admins still holds.
Deliberate == ~overlap /\ budget.ops \cap {"role", "remove"} = {}
LeaveInv ==
    Deliberate =>
        /\ tenant.state = "live" => Admins # {}
        /\ \A u \in Users :
              /\ At(u, "leave", "self") => req[u].seen = Cardinality(Admins)
              /\ At(u, "leave", "delete") => role[u] # "admin" \/ Cardinality(Admins) # 1
              /\ At(u, "leave", "erase") \/ At(u, "leave", "commit")
                    => Cardinality(Admins) = 1

\* The tenants row and Auth0 differ only by what the request under way has
\* done at Auth0 and not yet saved.
OneAtMost(S) == \A a, b \in S : a = b
Calm == ~overlap /\ used["faults"] = 0 /\ tenant.state = "live"
SsoInv ==
    /\ idp.enabled \subseteq idp.conns
    /\ \A u \in Users : At(u, "sso", "enable") \/ At(u, "sso", "save")
          => req[u].arg \in idp.conns
    /\ \A u \in Users : At(u, "org", "save") => idp.org
    /\ Calm =>
          /\ \/ tenant.org = idp.org
             \/ \E u \in Users : At(u, "org", "save")
          /\ \A u \in Users :
                /\ At(u, "sso", "enable") => req[u].arg \notin idp.enabled
                /\ At(u, "sso", "save") => req[u].arg \in idp.enabled
                /\ At(u, "nosso", "disable") => req[u].arg = tenant.conn
                /\ At(u, "nosso", "clear") => tenant.conn \notin idp.enabled
          /\ \/ tenant.conn \in idp.enabled \cup {"none"}
             \/ \E u \in Users : At(u, "nosso", "clear")
          /\ OneAtMost(idp.conns) =>
                \/ idp.enabled = {tenant.conn} \ {"none"}
                \/ idp.enabled = {} /\ \E u \in Users : At(u, "nosso", "clear")
                \/ /\ tenant.conn = "none"
                   /\ \E u \in Users : At(u, "sso", "save") /\ idp.enabled = {req[u].arg}

TenancyInv ==
    RowShapes /\ ReqShapes /\ Unregistered /\ Erased /\ InviteInv /\ LeaveInv /\ SsoInv

-----------------------------------------------------------------------------
(* Requests: how a step changes them. *)

Others(u) == DOMAIN req' = Users /\ \A v \in Users \ {u} : req'[v] = req[v]
Crowded == overlap \/ \E v \in Users : req[v] # NoRequest
Arrives(u) ==
    /\ req[u] = NoRequest
    /\ IsRequest(req'[u]) /\ req'[u] # NoRequest /\ req'[u].op \in budget.ops
    /\ Others(u) /\ overlap' = Crowded
Passes == req' = req /\ overlap' = Crowded
Proceeds(u) ==
    /\ req[u] # NoRequest /\ IsRequest(req'[u])
    /\ req'[u] = NoRequest \/ req'[u].op = req[u].op
    /\ Others(u) /\ overlap' = overlap
Still == UNCHANGED <<req, overlap>>

Grows == /\ budget' = budget
         /\ used' \in [Bounds -> Nat] /\ \A b \in Bounds : used[b] <= used'[b]

\* What is needed of the size of a team, from the theorems on finite sets that
\* module Billing_proofs takes in.
Counted ==
    \A S \in SUBSET Users :
        /\ Cardinality(S) \in Nat
        /\ Cardinality(S) # 1 => \A x \in S : \E y \in S : y # x

\* How a step of the subscription or the devices may change the requests: those
\* of its own routes, and an account deletion that has deleted the devices.
ShopOps == {"checkout", "devices"}
ShopMoves ==
    \/ Passes \/ Still
    \/ \E u \in Users : Arrives(u) /\ req'[u].op \in ShopOps /\ InTenant(u)
    \/ \E u \in Users : Proceeds(u) /\ req[u].op \in ShopOps
    \/ \E u \in Users : /\ Proceeds(u) /\ At(u, "leave", "erase")
                        /\ At(u, "leave", "commit")'

\* What the steps of module Tenancy mean to the subscription and the devices: no
\* request of their routes changes, and no account deletion comes to its end.
Quiet ==
    /\ Grows /\ (~overlap' => ~overlap)
    /\ tenant'.state = "gone" <=> tenant.state = "gone"
    /\ tenant'.state = "none" => tenant.state = "none"
    /\ \A v \in Users : \/ req'[v] = req[v]
                        \/ req'[v].op \notin ShopOps /\ ~At(v, "leave", "commit")'
====
