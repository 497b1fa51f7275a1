--------------------------- MODULE Tenancy_proofs ---------------------------
(***************************************************************************)
(* What the routes of module Tenancy keep true of the team, its invites,   *)
(* account deletion and single sign-on, for any number of users, invites,  *)
(* requests and faults: every step of module Tenancy keeps the invariant   *)
(* TenancyInv.  Module Billing_proofs joins these steps with those of the  *)
(* subscription and the devices.                                           *)
(***************************************************************************)
EXTENDS TenancyInvariant, TLAPS

-----------------------------------------------------------------------------
(* Requests. *)

\* Without a fault so far there was none before.
LEMMA FaultsBefore ==
    ASSUME used \in [Bounds -> Nat], Grows, used'["faults"] = 0
    PROVE  used["faults"] = 0
<1>1. "faults" \in Bounds
  BY DEF Bounds
<1> QED BY <1>1 DEF Grows

\* NoRequest is a request, and told apart by its route.
LEMMA NoRequestIs ==
    IsRequest(NoRequest) /\ NoRequest.op = "none" /\ NoRequest.at = "idle"
BY DEF IsRequest, NoRequest

\* The requests of the routes are requests.
LEMMA RouteIs ==
    ASSUME NEW x,
           \/ x \in Registering \/ x \in Inviting \/ x \in Accepting \/ x \in Accepted
           \/ x \in Removing \/ x \in Leaving \/ x \in Organizing \/ x \in Configuring
           \/ x \in Disabling
    PROVE  IsRequest(x) /\ x # NoRequest
<1>1. x.op # "none" /\ x.at # "idle" /\ x # NoRequest
  BY DEF NoRequest, Registering, Inviting, Accepting, Accepted, Removing, Leaving,
         Organizing, Configuring, Disabling
<1> QED BY <1>1 DEF IsRequest, Registering, Inviting, Accepting, Accepted, Removing,
                    Leaving, Organizing, Configuring, Disabling

\* A user who is at an await has a request, of that route.
LEMMA AtBusy ==
    ASSUME ReqShapes, NEW u \in Users, NEW op, NEW at, At(u, op, at), op # "none"
    PROVE  IsRequest(req[u]) /\ req[u] # NoRequest /\ req[u].op = op /\ req[u].at = at
BY DEF At, ReqShapes, NoRequest

\* A request that arrives.
LEMMA BeginArrives ==
    ASSUME ReqShapes, NEW u \in Users, NEW op, NEW at, NEW arg, NEW seen,
           Begin(u, op, at, arg, seen), op # "none",
           IsRequest([op |-> op, at |-> at, arg |-> arg, seen |-> seen])
    PROVE  /\ Arrives(u)
           /\ req'[u] = [op |-> op, at |-> at, arg |-> arg, seen |-> seen]
<1> DEFINE n == [op |-> op, at |-> at, arg |-> arg, seen |-> seen]
<1>1. IsRequest(n) /\ n.op = op /\ n # NoRequest
  BY DEF NoRequest
<1> HIDE DEF n
<1>2. req' = [req EXCEPT ![u] = n] /\ req[u] = NoRequest /\ op \in budget.ops
      /\ overlap' = Crowded
  BY DEF Begin, n, Crowded
<1>3. DOMAIN req = Users
  BY DEF ReqShapes
<1>4. req'[u] = n /\ Others(u)
  BY Zenon, <1>2, <1>3 DEF Others
<1> QED BY Zenon, <1>1, <1>2, <1>4 DEF Arrives, n

\* What a request has in hand when it begins.
LEMMA BeginIs ==
    ASSUME DOMAIN req = Users, NEW u \in Users, NEW op, NEW at, NEW arg, NEW seen,
           Begin(u, op, at, arg, seen), op # "none"
    PROVE  /\ req[u] = NoRequest /\ req'[u] # NoRequest
           /\ req'[u].op = op /\ req'[u].at = at /\ req'[u].arg = arg
BY Zenon DEF Begin, NoRequest

\* A request that goes on or is answered.
LEMMA MoveProceeds ==
    ASSUME ReqShapes, NEW u \in Users, NEW n, IsRequest(n), req[u] # NoRequest,
           n = NoRequest \/ n.op = req[u].op,
           req' = [req EXCEPT ![u] = n], overlap' = overlap
    PROVE  Proceeds(u) /\ req'[u] = n
<1>1. DOMAIN req = Users
  BY DEF ReqShapes
<1>2. req'[u] = n /\ Others(u)
  BY <1>1 DEF Others
<1> QED BY <1>2 DEF Proceeds

\* The same for a request that is answered.
LEMMA AnswerProceeds ==
    ASSUME ReqShapes, NEW u \in Users, req[u] # NoRequest, Answer(u), overlap' = overlap
    PROVE  Proceeds(u) /\ req'[u] = NoRequest
BY Zenon, NoRequestIs, MoveProceeds DEF Answer

\* The same for one that only moves to its next await, or is answered.
LEMMA GoOrProceeds ==
    ASSUME ReqShapes, NEW u \in Users, NEW ok, NEW at, req[u] # NoRequest,
           IsRequest([req[u] EXCEPT !.at = at]), [req[u] EXCEPT !.at = at].op = req[u].op,
           GoOr(u, ok, at), overlap' = overlap
    PROVE  /\ Proceeds(u)
           /\ ok => req'[u] = [req[u] EXCEPT !.at = at]
           /\ ~ok => req'[u] = NoRequest
<1>1. CASE ok
  <2> DEFINE n == [req[u] EXCEPT !.at = at]
  <2>1. req' = [req EXCEPT ![u] = n]
    BY <1>1 DEF GoOr, Go
  <2>2. IsRequest(n) /\ n.op = req[u].op
    OBVIOUS
  <2> HIDE DEF n
  <2>3. Proceeds(u) /\ req'[u] = n
    BY Zenon, <2>1, <2>2, MoveProceeds
  <2> QED BY <1>1, <2>3 DEF n
<1>2. CASE ~ok
  BY <1>2, AnswerProceeds DEF GoOr
<1> QED BY <1>1, <1>2

\* A request of one query.
LEMMA AtOncePasses ==
    ASSUME NEW u, NEW op, AtOnce(u, op)
    PROVE  Passes
BY DEF AtOnce, Passes, Crowded

\* While requests do not overlap, the user whose request arrives or goes on is
\* alone.
LEMMA Alone ==
    ASSUME ReqShapes, NEW u \in Users, Arrives(u) \/ Proceeds(u), ~overlap'
    PROVE  ~overlap /\ \A v \in Users \ {u} : req[v] = NoRequest /\ req'[v] = NoRequest
BY Zenon DEF ReqShapes, Arrives, Proceeds, Others, Crowded

\* And a request of one query finds none.
LEMMA PassesAlone ==
    ASSUME Passes, ~overlap'
    PROVE  ~overlap /\ \A v \in Users : req[v] = NoRequest /\ req'[v] = NoRequest
BY Zenon DEF Passes, Crowded

\* The bounds only ever count up.
LEMMA SpendGrows ==
    ASSUME ReqShapes, budget' = budget
    PROVE  /\ UNCHANGED used => Grows
           /\ \A b \in Bounds : Spend(b) => Grows
           /\ \A ok : MayFail(ok) => Grows
           /\ \A ok : MayFail(ok) /\ ~ok => used'["faults"] > 0
<1>1. used \in [Bounds -> Nat]
  BY DEF ReqShapes
<1>2. UNCHANGED used => Grows
  BY <1>1 DEF Grows
<1>3. ASSUME NEW b \in Bounds, Spend(b)
      PROVE  Grows /\ used'[b] > 0
  BY <1>1, <1>3 DEF Spend, Grows
<1>4. "faults" \in Bounds
  BY DEF Bounds
<1> QED BY <1>2, <1>3, <1>4 DEF MayFail

\* How a step changes the requests keeps their shape.
LEMMA ReqShapesStep ==
    ASSUME ReqShapes, Grows, Passes \/ Still \/ \E u \in Users : Arrives(u) \/ Proceeds(u)
    PROVE  ReqShapes'
<1>1. budget' \in Budgets /\ used' \in [Bounds -> Nat] /\ budget' = budget
  BY DEF ReqShapes, Grows
<1>2. CASE Passes \/ Still
  BY Zenon, <1>1, <1>2 DEF ReqShapes, Passes, Still, Crowded
<1>3. ASSUME NEW u \in Users, Arrives(u) \/ Proceeds(u)
      PROVE  ReqShapes'
  <2>1. overlap' \in BOOLEAN
    BY Zenon, <1>3 DEF ReqShapes, Arrives, Proceeds, Crowded
  <2>2. DOMAIN req' = Users
    BY <1>3 DEF Arrives, Proceeds, Others
  <2>3. ASSUME NEW v \in Users
        PROVE  IsRequest(req[v])' /\ (req'[v] # NoRequest => req'[v].op \in budget.ops)
    <3>1. IsRequest(req'[v])
      BY Zenon, <1>3 DEF ReqShapes, Arrives, Proceeds, Others
    <3>2. req'[v] # NoRequest => req'[v].op \in budget.ops
      BY Zenon, <1>3 DEF ReqShapes, Arrives, Proceeds, Others
    <3> QED BY Zenon, <3>1, <3>2 DEF IsRequest
  <2>4. ~overlap' => \A v, w \in Users : req'[v] # NoRequest /\ req'[w] # NoRequest => v = w
    BY Zenon, <1>3, Alone
  <2> QED BY <1>1, <2>1, <2>2, <2>3, <2>4 DEF ReqShapes
<1> QED BY <1>2, <1>3
\* Every await of a team or sign-on request moves that request on.
LEMMA ContinueProceeds ==
    ASSUME ReqShapes, RowShapes, NEW u \in Users, Continue(u)
    PROVE  Proceeds(u)
<1>1. CASE SetAuth0(u)
  <2>1. req[u] # NoRequest /\ Answer(u) /\ overlap' = overlap
    BY <1>1 DEF SetAuth0, NoRequest
  <2> QED BY Zenon, <2>1, AnswerProceeds
<1>2. CASE InviteChecks(u)
  <2>1. overlap' = overlap
    BY <1>2 DEF InviteChecks
  <2>2. ASSUME At(u, "invite", "member"), GoOr(u, role[req[u].arg] = "none", "pending")
        PROVE  Proceeds(u)
    <3>1. req[u] \in Inviting /\ req[u] # NoRequest
      BY <2>2, AtBusy DEF IsRequest
    <3>2. [req[u] EXCEPT !.at = "pending"] \in Inviting
          /\ [req[u] EXCEPT !.at = "pending"].op = req[u].op
      BY <3>1 DEF Inviting
    <3> QED BY Zenon, <2>1, <2>2, <3>1, <3>2, GoOrProceeds, RouteIs
  <2>3. ASSUME At(u, "invite", "pending"), GoOr(u, Pending(req[u].arg) = {}, "insert")
        PROVE  Proceeds(u)
    <3>1. req[u] \in Inviting /\ req[u] # NoRequest
      BY Zenon, <2>3, AtBusy DEF IsRequest
    <3>2. [req[u] EXCEPT !.at = "insert"] \in Inviting
          /\ [req[u] EXCEPT !.at = "insert"].op = req[u].op
      BY Zenon, <3>1 DEF Inviting
    <3> QED BY Zenon, <2>1, <2>3, <3>1, <3>2, GoOrProceeds, RouteIs
  <2> QED BY Zenon, <1>2, <2>2, <2>3 DEF InviteChecks
<1>3. CASE InsertInvite(u)
  <2>1. At(u, "invite", "insert") /\ Answer(u) /\ overlap' = overlap
    BY <1>3 DEF InsertInvite
  <2> QED BY Zenon, <2>1, AtBusy, AnswerProceeds
<1>4. CASE AcceptInvite(u)
  <2>1. At(u, "accept", "insert") /\ overlap' = overlap
    BY Zenon, <1>4 DEF AcceptInvite
  <2>2. req[u] \in Accepting /\ req[u] # NoRequest
    BY <2>1, AtBusy DEF IsRequest, Accepted
  <2>3. CASE tenant.state # "live" \/ role[u] # "none"
    BY Zenon, <1>4, <2>1, <2>2, <2>3, AnswerProceeds DEF AcceptInvite
  <2>4. CASE ~(tenant.state # "live" \/ role[u] # "none")
    <3> DEFINE n == [req[u] EXCEPT !.at = "auth0", !.arg = invites[req[u].arg].role]
    <3>1. invites[req[u].arg].role \in Roles
      BY <2>2 DEF Accepting, RowShapes, InviteRec
    <3>2. n \in Accepted /\ n.op = req[u].op
      BY Zenon, <2>2, <3>1 DEF Accepting, Accepted
    <3>3. req' = [req EXCEPT ![u] = n]
      BY Zenon, <1>4, <2>4 DEF AcceptInvite
    <3> HIDE DEF n
    <3> QED BY Zenon, <2>1, <2>2, <3>2, <3>3, MoveProceeds, RouteIs
  <2> QED BY Zenon, <2>3, <2>4
<1>5. CASE RemoveMember(u)
  <2>1. At(u, "remove", "delete") /\ Answer(u) /\ overlap' = overlap
    BY <1>5 DEF RemoveMember
  <2> QED BY <2>1, AtBusy, AnswerProceeds
<1>6. CASE ReadSelf(u)
  <2> DEFINE at == IF role[u] = "admin" /\ req[u].seen = 1 THEN "erase" ELSE "delete"
  <2>1. At(u, "leave", "self") /\ GoOr(u, role[u] # "none", at) /\ overlap' = overlap
    BY Zenon, <1>6 DEF ReadSelf
  <2>2. req[u] \in Leaving /\ req[u] # NoRequest
    BY <2>1, AtBusy DEF IsRequest
  <2>3. [req[u] EXCEPT !.at = at] \in Leaving /\ [req[u] EXCEPT !.at = at].op = req[u].op
    BY <2>2 DEF Leaving
  <2> HIDE DEF at
  <2> QED BY Zenon, <2>1, <2>2, <2>3, GoOrProceeds, RouteIs
<1>7. CASE LeaveTenant(u)
  <2>1. At(u, "leave", "delete") /\ Answer(u) /\ overlap' = overlap
    BY <1>7 DEF LeaveTenant
  <2> QED BY Zenon, <2>1, AtBusy, AnswerProceeds
<1>8. CASE CreateOrganization(u)
  <2>1. At(u, "org", "create") /\ overlap' = overlap
        /\ (Answer(u) \/ \E ok \in BOOLEAN : GoOr(u, ok, "save"))
    BY Zenon, <1>8 DEF CreateOrganization
  <2>2. req[u] \in Organizing /\ req[u] # NoRequest
    BY <2>1, AtBusy DEF IsRequest
  <2>3. [req[u] EXCEPT !.at = "save"] \in Organizing
        /\ [req[u] EXCEPT !.at = "save"].op = req[u].op
    BY <2>2 DEF Organizing
  <2> QED BY Zenon, <2>1, <2>2, <2>3, AnswerProceeds, GoOrProceeds, RouteIs
<1>9. CASE CreateConnection(u)
  <2>1. At(u, "sso", "create") /\ overlap' = overlap
        /\ (Answer(u) \/ \E ok \in BOOLEAN : GoOr(u, ok, "enable"))
    BY Zenon, <1>9 DEF CreateConnection
  <2>2. req[u] \in Configuring /\ req[u] # NoRequest
    BY <2>1, AtBusy DEF IsRequest
  <2>3. [req[u] EXCEPT !.at = "enable"] \in Configuring
        /\ [req[u] EXCEPT !.at = "enable"].op = req[u].op
    BY <2>2 DEF Configuring
  <2> QED BY Zenon, <2>1, <2>2, <2>3, AnswerProceeds, GoOrProceeds, RouteIs
<1>10. CASE EnableConnectionOnOrg(u)
  <2>1. At(u, "sso", "enable") /\ overlap' = overlap
        /\ \E ok \in BOOLEAN : GoOr(u, ok, "save")
    BY Zenon, <1>10 DEF EnableConnectionOnOrg
  <2>2. req[u] \in Configuring /\ req[u] # NoRequest
    BY <2>1, AtBusy DEF IsRequest
  <2>3. [req[u] EXCEPT !.at = "save"] \in Configuring
        /\ [req[u] EXCEPT !.at = "save"].op = req[u].op
    BY <2>2 DEF Configuring
  <2> QED BY Zenon, <2>1, <2>2, <2>3, GoOrProceeds, RouteIs
<1>11. CASE DisableConnectionOnOrg(u)
  <2>1. At(u, "nosso", "disable") /\ overlap' = overlap
        /\ \E ok \in BOOLEAN : GoOr(u, ok, "clear")
    BY Zenon, <1>11 DEF DisableConnectionOnOrg
  <2>2. req[u] \in Disabling /\ req[u] # NoRequest
    BY Zenon, <2>1, AtBusy DEF IsRequest
  <2>3. [req[u] EXCEPT !.at = "clear"] \in Disabling
        /\ [req[u] EXCEPT !.at = "clear"].op = req[u].op
    BY Zenon, <2>2 DEF Disabling
  <2> QED BY Zenon, <2>1, <2>2, <2>3, GoOrProceeds, RouteIs
<1>12. CASE SaveOrg(u) \/ SaveConnection(u) \/ ClearConnection(u)
  <2>1. Answer(u) /\ overlap' = overlap /\ (At(u, "org", "save") \/ At(u, "sso", "save")
                                            \/ At(u, "nosso", "clear"))
    BY Zenon, <1>12 DEF SaveOrg, SaveConnection, ClearConnection
  <2> QED BY Zenon, <2>1, AtBusy, AnswerProceeds
<1> QED BY Zenon, <1>1, <1>2, <1>3, <1>4, <1>5, <1>6, <1>7, <1>8, <1>9, <1>10, <1>11, <1>12
        DEF Continue

\* A team or sign-on request arrives, or is answered at once.
LEMMA ArriveArrives ==
    ASSUME Counted, ReqShapes, RowShapes, NEW u \in Users, Arrive(u)
    PROVE  Arrives(u) \/ Passes
<1>1. CASE Register(u)
  <2>1. Begin(u, "register", "auth0", "admin", 0)
    BY Zenon, <1>1 DEF Register
  <2>2. [op |-> "register", at |-> "auth0", arg |-> "admin", seen |-> 0] \in Registering
    BY Zenon DEF Registering
  <2> QED BY Zenon, <2>1, <2>2, BeginArrives, RouteIs
<1>2. CASE CountAdmins(u)
  <2>1. Begin(u, "leave", "self", "none", Cardinality(Admins))
    BY <1>2 DEF CountAdmins
  <2>2. Cardinality(Admins) \in Nat
    BY Zenon DEF Counted, Admins
  <2>3. [op |-> "leave", at |-> "self", arg |-> "none", seen |-> Cardinality(Admins)] \in Leaving
    BY Zenon, <2>2 DEF Leaving
  <2> QED BY Zenon, <2>1, <2>3, BeginArrives, RouteIs
<1>3. CASE CreateOrg(u)
  <2>1. Begin(u, "org", "create", "none", 0)
    BY <1>3 DEF CreateOrg
  <2>2. [op |-> "org", at |-> "create", arg |-> "none", seen |-> 0] \in Organizing
    BY Zenon DEF Organizing
  <2> QED BY Zenon, <2>1, <2>2, BeginArrives, RouteIs
<1>4. CASE DeleteSso(u)
  <2>1. Begin(u, "nosso", "disable", tenant.conn, 0) /\ tenant.conn \in Kinds
    BY Zenon, <1>4 DEF DeleteSso, RowShapes
  <2>2. [op |-> "nosso", at |-> "disable", arg |-> tenant.conn, seen |-> 0] \in Disabling
    BY <2>1 DEF Disabling
  <2> QED BY Zenon, <2>1, <2>2, BeginArrives, RouteIs
<1>5. ASSUME NEW k \in ApiKeys, CreateKey(u) \/ RevokeKey(u, k)
      PROVE  Passes
  BY Zenon, <1>5, AtOncePasses DEF CreateKey, RevokeKey
<1>6. CASE CreateKey(u)
  BY Zenon, <1>6, AtOncePasses DEF CreateKey
<1>7. ASSUME NEW v \in Users, Invite(u, v)
      PROVE  Arrives(u)
  <2>1. Begin(u, "invite", "member", v, 0)
    BY Zenon, <1>7 DEF Invite
  <2>2. [op |-> "invite", at |-> "member", arg |-> v, seen |-> 0] \in Inviting
    BY DEF Inviting
  <2> QED BY Zenon, <2>1, <2>2, BeginArrives, RouteIs
<1>8. ASSUME NEW v \in Users, PutRole(u, v)
      PROVE  Passes
  BY Zenon, <1>8, AtOncePasses DEF PutRole
<1>9. ASSUME NEW v \in Users, SelectMember(u, v)
      PROVE  Arrives(u)
  <2>1. Begin(u, "remove", "delete", v, 0)
    BY Zenon, <1>9 DEF SelectMember
  <2>2. [op |-> "remove", at |-> "delete", arg |-> v, seen |-> 0] \in Removing
    BY Zenon DEF Removing
  <2> QED BY Zenon, <2>1, <2>2, BeginArrives, RouteIs
<1>10. ASSUME NEW i \in Invites, SelectInvite(u, i)
       PROVE  Arrives(u)
  <2>1. Begin(u, "accept", "insert", i, 0)
    BY Zenon, <1>10 DEF SelectInvite
  <2>2. [op |-> "accept", at |-> "insert", arg |-> i, seen |-> 0] \in Accepting
    BY DEF Accepting
  <2> QED BY Zenon, <2>1, <2>2, BeginArrives, RouteIs
<1>11. ASSUME NEW i \in Invites, RevokeInvite(u, i)
       PROVE  Passes
  BY Zenon, <1>11, AtOncePasses DEF RevokeInvite
<1>12. ASSUME NEW kind \in Kinds, ConfigureSso(u, kind)
       PROVE  Arrives(u)
  <2>1. Begin(u, "sso", "create", kind, 0)
    BY Zenon, <1>12 DEF ConfigureSso
  <2>2. [op |-> "sso", at |-> "create", arg |-> kind, seen |-> 0] \in Configuring
    BY DEF Configuring
  <2> QED BY Zenon, <2>1, <2>2, BeginArrives, RouteIs
<1> QED BY Zenon, <1>1, <1>2, <1>3, <1>4, <1>5, <1>6, <1>7, <1>8, <1>9, <1>10, <1>11, <1>12
        DEF Arrive

-----------------------------------------------------------------------------
(* The rows keep their types. *)

\* An invite whose state changes stays an invite.
LEMMA InviteState ==
    ASSUME RowShapes, NEW i \in Invites,
           NEW s \in {"none", "pending", "accepted", "expired", "deleted"}
    PROVE  /\ [invites[i] EXCEPT !.state = s] \in InviteRec
           /\ [invites[i] EXCEPT !.state = s].state = s
           /\ [invites EXCEPT ![i].state = s] \in [Invites -> InviteRec]
<1> DEFINE n == [invites[i] EXCEPT !.state = s]
<1>1. invites \in [Invites -> InviteRec]
  BY DEF RowShapes
<1>2. n \in InviteRec /\ n.state = s
  BY <1>1 DEF InviteRec
<1>3. [invites EXCEPT ![i].state = s] = [invites EXCEPT ![i] = n]
  OBVIOUS
<1> HIDE DEF n
<1>4. [invites EXCEPT ![i] = n] \in [Invites -> InviteRec]
  BY Zenon, <1>1, <1>2
<1> QED BY Zenon, <1>2, <1>3, <1>4 DEF n

\* The awaits of a team or sign-on request.
LEMMA ContinueShapes ==
    ASSUME RowShapes, ReqShapes, NEW u \in Users, Continue(u)
    PROVE  RowShapes'
<1>1. CASE SetAuth0(u)
  <2>1. req[u].arg \in Roles
    BY <1>1 DEF SetAuth0, ReqShapes, IsRequest, Registering, Accepting, Accepted, Roles
  <2>2. PICK c : auth0' = [auth0 EXCEPT ![u] = c] /\ c \in Claims
    <3>1. PICK t, a \in BOOLEAN : auth0' = [auth0 EXCEPT ![u] =
                [tenant |-> IF t THEN "ours" ELSE @.tenant,
                 roles |-> IF a THEN @.roles \cup {req[u].arg} ELSE @.roles]]
      BY Zenon, <1>1 DEF SetAuth0
    <3>2. auth0[u] \in Claims
      BY Zenon DEF RowShapes
    <3>3. [tenant |-> IF t THEN "ours" ELSE auth0[u].tenant,
           roles |-> IF a THEN auth0[u].roles \cup {req[u].arg} ELSE auth0[u].roles]
             \in Claims
      BY Zenon, <2>1, <3>2 DEF Claims
    <3> QED BY Zenon, <3>1, <3>3
  <2>3. auth0' \in [Users -> Claims]
    BY Zenon, <2>2 DEF RowShapes
  <2> QED BY Zenon, <1>1, <2>3 DEF SetAuth0, RowShapes, rowVars
<1>2. CASE InviteChecks(u) \/ ReadSelf(u)
  BY Zenon, <1>2 DEF InviteChecks, ReadSelf, RowShapes, rowVars, authVars
<1>3. CASE InsertInvite(u)
  <2>1. req[u] \in Inviting
    BY Zenon, <1>3, AtBusy DEF InsertInvite, IsRequest
  <2>2. invites' \in [Invites -> InviteRec]
    BY <1>3, <2>1 DEF InsertInvite, RowShapes, InviteRec, Inviting
  <2> QED BY Zenon, <1>3, <2>2 DEF InsertInvite, RowShapes, authVars
<1>4. CASE AcceptInvite(u)
  <2>1. req[u] \in Accepting
    BY <1>4, AtBusy DEF AcceptInvite, IsRequest, Accepted
  <2>2. req[u].arg \in Invites /\ invites[req[u].arg].role \in Roles
    BY Zenon, <2>1 DEF Accepting, RowShapes, InviteRec
  <2>3. role' \in [Users -> Roles \cup {"none"}]
    BY <1>4, <2>2 DEF AcceptInvite, RowShapes
  <2>4. invites' \in [Invites -> InviteRec]
    <3>1. \/ invites' = invites
          \/ invites' = [invites EXCEPT ![req[u].arg].state = "accepted"]
      BY <1>4 DEF AcceptInvite
    <3>2. [invites EXCEPT ![req[u].arg].state = "accepted"] \in [Invites -> InviteRec]
      BY Zenon, <2>2, InviteState
    <3> QED BY Zenon, <3>1, <3>2 DEF RowShapes
  <2>5. admitted' \in [Invites -> Nat]
    BY <1>4, <2>2 DEF AcceptInvite, RowShapes
  <2> QED BY Zenon, <1>4, <2>3, <2>4, <2>5 DEF AcceptInvite, RowShapes, authVars
<1>5. CASE RemoveMember(u) \/ LeaveTenant(u)
  <2>1. role' \in [Users -> Roles \cup {"none"}]
    BY Zenon, <1>5 DEF RemoveMember, LeaveTenant, RowShapes
  <2> QED BY Zenon, <1>5, <2>1 DEF RemoveMember, LeaveTenant, RowShapes, authVars
<1>6. CASE CreateOrganization(u) \/ CreateConnection(u) \/ EnableConnectionOnOrg(u)
           \/ DisableConnectionOnOrg(u)
  <2>1. At(u, "sso", "create") \/ At(u, "sso", "enable") \/ At(u, "nosso", "disable")
           => req[u].arg \in Kinds
    BY Zenon, AtBusy DEF IsRequest, Configuring, Disabling
  <2>2. idp' \in [org : BOOLEAN, conns : SUBSET Kinds, enabled : SUBSET Kinds]
    <3>1. CASE CreateOrganization(u)
      BY Zenon, <3>1 DEF CreateOrganization, RowShapes
    <3>2. CASE CreateConnection(u)
      BY <3>2, <2>1 DEF CreateConnection, RowShapes
    <3>3. CASE EnableConnectionOnOrg(u)
      BY <3>3, <2>1 DEF EnableConnectionOnOrg, RowShapes
    <3>4. CASE DisableConnectionOnOrg(u)
      BY <3>4 DEF DisableConnectionOnOrg, RowShapes
    <3> QED BY Zenon, <1>6, <3>1, <3>2, <3>3, <3>4
  <2> QED BY Zenon, <1>6, <2>2 DEF CreateOrganization, CreateConnection, EnableConnectionOnOrg,
                            DisableConnectionOnOrg, RowShapes, rowVars
<1>7. CASE SaveOrg(u) \/ SaveConnection(u) \/ ClearConnection(u)
  <2>1. At(u, "sso", "save") => req[u].arg \in Kinds
    BY AtBusy DEF IsRequest, Configuring
  <2>2. tenant' \in [state : {"none", "live", "gone"}, org : BOOLEAN,
                     conn : Kinds \cup {"none"}]
    BY Zenon, <1>7, <2>1 DEF SaveOrg, SaveConnection, ClearConnection, RowShapes
  <2> QED BY Zenon, <1>7, <2>2 DEF SaveOrg, SaveConnection, ClearConnection, RowShapes, authVars
<1> QED BY Zenon, <1>1, <1>2, <1>3, <1>4, <1>5, <1>6, <1>7 DEF Continue

\* The arrivals.
LEMMA ArriveShapes ==
    ASSUME RowShapes, NEW u \in Users, Arrive(u)
    PROVE  RowShapes'
<1>1. CASE Register(u)
  BY <1>1 DEF Register, RowShapes, authVars, Roles
<1>2. CASE CountAdmins(u) \/ CreateOrg(u) \/ DeleteSso(u)
  BY <1>2 DEF CountAdmins, CreateOrg, DeleteSso, RowShapes, rowVars, authVars
<1>3. ASSUME NEW k \in ApiKeys, CreateKey(u) \/ RevokeKey(u, k)
      PROVE  RowShapes'
  BY <1>3 DEF CreateKey, RevokeKey, RowShapes, authVars
<1>4. CASE CreateKey(u)
  BY Zenon, <1>4 DEF CreateKey, RowShapes, authVars
<1>5. ASSUME NEW v \in Users, Invite(u, v) \/ SelectMember(u, v)
      PROVE  RowShapes'
  BY Zenon, <1>5 DEF Invite, SelectMember, RowShapes, rowVars, authVars
<1>6. ASSUME NEW v \in Users, PutRole(u, v)
      PROVE  RowShapes'
  BY <1>6 DEF PutRole, RowShapes, authVars
<1>7. ASSUME NEW i \in Invites, SelectInvite(u, i)
      PROVE  RowShapes'
  BY <1>7 DEF SelectInvite, RowShapes, rowVars, authVars
<1>8. ASSUME NEW i \in Invites, RevokeInvite(u, i)
      PROVE  RowShapes'
  BY Zenon, <1>8, InviteState DEF RevokeInvite, RowShapes, authVars
<1>9. ASSUME NEW kind \in Kinds, ConfigureSso(u, kind)
      PROVE  RowShapes'
  BY Zenon, <1>9 DEF ConfigureSso, RowShapes, rowVars, authVars
<1> QED BY <1>1, <1>2, <1>3, <1>4, <1>5, <1>6, <1>7, <1>8, <1>9 DEF Arrive

\* A new token, an invite that expires, the erasure.
LEMMA OtherShapes ==
    ASSUME RowShapes,
           \/ \E u \in Users : Login(u) \/ CommitErase(u)
           \/ \E i \in Invites : ExpireInvite(i)
    PROVE  RowShapes'
<1>1. ASSUME NEW u \in Users, Login(u)
      PROVE  RowShapes'
  BY Zenon, <1>1 DEF Login, RowShapes, rowVars
<1>2. ASSUME NEW u \in Users, CommitErase(u)
      PROVE  RowShapes'
  <2>1. invites' \in [Invites -> InviteRec]
    <3>1. \A i \in Invites : invites[i] \in InviteRec
                             /\ [invites[i] EXCEPT !.state = "deleted"] \in InviteRec
      BY Zenon, InviteState DEF RowShapes
    <3> QED BY <1>2, <3>1 DEF CommitErase
  <2>2. tenant' \in [state : {"none", "live", "gone"}, org : BOOLEAN,
                     conn : Kinds \cup {"none"}]
    BY <1>2 DEF CommitErase
  <2>3. role' \in [Users -> Roles \cup {"none"}]
        /\ apiKeys' \in [ApiKeys -> {"none", "active", "revoked", "deleted"}]
    BY <1>2 DEF CommitErase
  <2> QED BY Zenon, <1>2, <2>1, <2>2, <2>3 DEF CommitErase, RowShapes, authVars
<1>3. ASSUME NEW i \in Invites, ExpireInvite(i)
      PROVE  RowShapes'
  BY Zenon, <1>3, InviteState DEF ExpireInvite, RowShapes, authVars
<1> QED BY Zenon, <1>1, <1>2, <1>3

-----------------------------------------------------------------------------
(* Before the tenant is registered, and after it was erased. *)

\* The awaits of a request leave the tenant registered or erased as it is.
LEMMA ContinueTenant ==
    ASSUME RowShapes, NEW u \in Users, Continue(u)
    PROVE  tenant'.state = tenant.state
<1>1. CASE SaveOrg(u) \/ SaveConnection(u) \/ ClearConnection(u)
  BY <1>1 DEF SaveOrg, SaveConnection, ClearConnection, RowShapes
<1>2. CASE ~(SaveOrg(u) \/ SaveConnection(u) \/ ClearConnection(u))
  <2>1. UNCHANGED tenant
    BY Zenon, <1>2 DEF Continue, SetAuth0, InviteChecks, InsertInvite, AcceptInvite, RemoveMember,
                ReadSelf, LeaveTenant, CreateOrganization, CreateConnection,
                EnableConnectionOnOrg, DisableConnectionOnOrg, rowVars
  <2> QED BY Zenon, <2>1
<1> QED BY Zenon, <1>1, <1>2

\* Nothing happens to a tenant that is not registered but its registration.
LEMMA ArriveUnregistered ==
    ASSUME RowShapes, Unregistered, NEW u \in Users, Arrive(u)
    PROVE  /\ tenant.state = "none" => Register(u)
           /\ ~Register(u) => UNCHANGED tenant
<1>1. ASSUME tenant.state = "none"
      PROVE  Register(u)
  <2>1. ~InTenant(u) /\ ~RequireAdmin(u) /\ \A i \in Invites : invites[i].state = "none"
    BY Zenon, <1>1 DEF Unregistered, InTenant, RequireAdmin
  <2> QED BY Zenon, <2>1 DEF Arrive, CountAdmins, CreateOrg, DeleteSso, CreateKey, RevokeKey, Invite,
                      PutRole, SelectMember, SelectInvite, RevokeInvite, ConfigureSso
<1>2. ~Register(u) => UNCHANGED tenant
  BY Zenon DEF Arrive, CountAdmins, CreateOrg, DeleteSso, CreateKey, RevokeKey, Invite,
         PutRole, SelectMember, SelectInvite, RevokeInvite, ConfigureSso, rowVars
<1> QED BY Zenon, <1>1, <1>2

\* Every step of Tenancy keeps Unregistered.
LEMMA UnregisteredStep ==
    ASSUME RowShapes, ReqShapes, Unregistered,
           \/ \E u \in Users : Continue(u) \/ Arrive(u) \/ Login(u) \/ CommitErase(u)
           \/ \E i \in Invites : ExpireInvite(i)
    PROVE  Unregistered'
<1>1. ASSUME NEW u \in Users, Continue(u)
      PROVE  Unregistered'
  <2>1. req[u] # NoRequest
    BY Zenon, <1>1, ContinueProceeds DEF Proceeds
  <2> QED BY Zenon, <1>1, <2>1, ContinueTenant DEF Unregistered
<1>2. ASSUME NEW u \in Users, Arrive(u)
      PROVE  Unregistered'
  <2>1. Register(u) => tenant'.state = "live"
    BY Zenon DEF Register, RowShapes
  <2> QED BY Zenon, <1>2, <2>1, ArriveUnregistered DEF Unregistered
<1>3. ASSUME NEW u \in Users, Login(u)
      PROVE  Unregistered'
  <2>1. UNCHANGED <<tenant, role, invites, auth0, idp, req>>
    BY Zenon, <1>3 DEF Login, rowVars
  <2>2. ASSUME tenant.state = "none", NEW v \in Users
        PROVE  token'[v].tenant # "ours"
    BY Zenon, <1>3, <2>2 DEF Login, RowShapes, Unregistered
  <2> QED BY Zenon, <2>1, <2>2 DEF Unregistered
<1>4. ASSUME NEW u \in Users, CommitErase(u)
      PROVE  Unregistered'
  BY Zenon, <1>4 DEF CommitErase, Unregistered
<1>5. ASSUME NEW i \in Invites, ExpireInvite(i)
      PROVE  Unregistered'
  BY Zenon, <1>5 DEF ExpireInvite, Unregistered
<1> QED BY Zenon, <1>1, <1>2, <1>3, <1>4, <1>5

\* Every step of Tenancy keeps Erased.
LEMMA ErasedStep ==
    ASSUME RowShapes, ReqShapes, Unregistered, Erased,
           \/ \E u \in Users : Continue(u) \/ Arrive(u) \/ Login(u) \/ CommitErase(u)
           \/ \E i \in Invites : ExpireInvite(i)
    PROVE  Erased'
<1>1. ASSUME NEW u \in Users, Continue(u), tenant.state = "gone"
      PROVE  Erased'
  <2>1. UNCHANGED apiKeys
    BY Zenon, <1>1 DEF Continue, SetAuth0, InviteChecks, InsertInvite, AcceptInvite, RemoveMember,
                ReadSelf, LeaveTenant, CreateOrganization, CreateConnection,
                EnableConnectionOnOrg, DisableConnectionOnOrg, SaveOrg, SaveConnection,
                ClearConnection, rowVars
  <2>2. UNCHANGED invites
    BY Zenon, <1>1 DEF Continue, SetAuth0, InviteChecks, InsertInvite, AcceptInvite, RemoveMember,
                ReadSelf, LeaveTenant, CreateOrganization, CreateConnection,
                EnableConnectionOnOrg, DisableConnectionOnOrg, SaveOrg, SaveConnection,
                ClearConnection, rowVars
  <2>3. \A v \in Users : role'[v] = "none"
    <3>1. CASE RemoveMember(u) \/ LeaveTenant(u)
      BY Zenon, <1>1, <3>1 DEF RemoveMember, LeaveTenant, RowShapes, Erased
    <3>2. CASE ~(RemoveMember(u) \/ LeaveTenant(u))
      <4>1. UNCHANGED role
        BY Zenon, <1>1, <3>2 DEF Continue, SetAuth0, InviteChecks, InsertInvite, AcceptInvite,
                ReadSelf, CreateOrganization, CreateConnection,
                EnableConnectionOnOrg, DisableConnectionOnOrg, SaveOrg, SaveConnection,
                ClearConnection, rowVars
      <4> QED BY Zenon, <1>1, <4>1 DEF Erased
    <3> QED BY Zenon, <3>1, <3>2
  <2> QED BY Zenon, <1>1, <2>1, <2>2, <2>3 DEF Erased
<1>2. ASSUME NEW u \in Users, Arrive(u), tenant.state = "gone"
      PROVE  Erased'
  <2>1. \A v \in Users : role[v] = "none"
    BY Zenon, <1>2 DEF Erased
  <2>2. \A k \in ApiKeys : apiKeys[k] # "active"
    BY Zenon, <1>2 DEF Erased
  <2>3. UNCHANGED <<role, apiKeys>>
    BY Zenon, <1>2, <2>1, <2>2 DEF Arrive, Register, CountAdmins, CreateOrg, DeleteSso, CreateKey,
         RevokeKey, Invite, PutRole, SelectMember, SelectInvite, RevokeInvite, ConfigureSso,
         rowVars
  <2>4. \/ UNCHANGED invites
        \/ \E i \in Invites : invites' = [invites EXCEPT ![i].state = "deleted"]
    BY Zenon, <1>2 DEF Arrive, Register, CountAdmins, CreateOrg, DeleteSso, CreateKey,
         RevokeKey, Invite, PutRole, SelectMember, SelectInvite, RevokeInvite, ConfigureSso,
         rowVars
  <2>5. \A i \in Invites : invites'[i].state \in {"none", "deleted"}
    BY <1>2, <2>4 DEF Erased, RowShapes, InviteRec
  <2> QED BY Zenon, <1>2, <2>3, <2>5 DEF Erased
<1>3. ASSUME NEW u \in Users, Login(u)
      PROVE  Erased'
  BY Zenon, <1>3 DEF Login, Erased, rowVars
<1>4. ASSUME NEW u \in Users, CommitErase(u)
      PROVE  Erased'
  <2>1. \A i \in Invites : invites'[i].state \in {"none", "deleted"}
    <3>1. \A i \in Invites : [invites[i] EXCEPT !.state = "deleted"].state = "deleted"
      BY Zenon, InviteState
    <3> QED BY Zenon, <1>4, <3>1 DEF CommitErase
  <2> QED BY Zenon, <1>4, <2>1 DEF CommitErase, Erased
<1>5. ASSUME NEW i \in Invites, ExpireInvite(i)
      PROVE  Erased'
  BY Zenon, <1>5 DEF ExpireInvite, Erased
<1>6. ASSUME NEW u \in Users, Continue(u) \/ Arrive(u), tenant.state # "gone"
      PROVE  Erased'
  <2>1. Register(u) => tenant'.state = "live"
    BY Zenon DEF Register, RowShapes
  <2>2. tenant'.state # "gone"
    BY Zenon, <1>6, <2>1, ContinueTenant, ArriveUnregistered
  <2> QED BY Zenon, <2>2 DEF Erased
<1> QED BY Zenon, <1>1, <1>2, <1>3, <1>4, <1>5, <1>6

-----------------------------------------------------------------------------
(* Invites. *)

\* No request of the routes is new, or went on.
NotNew(ops) == \A v \in Users : req'[v] = req[v] \/ req'[v].op \notin ops

\* What leaves the invites alone.
LEMMA InviteFrame ==
    ASSUME InviteInv, UNCHANGED <<invites, admitted>>, ~overlap' => ~overlap,
           NotNew({"invite", "accept"})
    PROVE  InviteInv'
<1>1. \A e : Pending(e)' = Pending(e)
  BY Zenon DEF Pending
<1>2. ASSUME NEW u \in Users
      PROVE  /\ At(u, "accept", "insert")' => At(u, "accept", "insert") /\ req'[u] = req[u]
             /\ At(u, "invite", "insert")' => At(u, "invite", "insert") /\ req'[u] = req[u]
  BY Zenon DEF NotNew, At
<1> QED BY Zenon, <1>1, <1>2 DEF InviteInv

\* A request of another route that goes on is not one of the invites'.
LEMMA ProceedsNotNew ==
    ASSUME NEW u \in Users, NEW ops, Proceeds(u), "none" \notin ops, req[u].op \notin ops
    PROVE  NotNew(ops)
BY Zenon, NoRequestIs DEF Proceeds, Others, NotNew

\* Nor is one that arrives.
LEMMA ArrivesNotNew ==
    ASSUME NEW u \in Users, NEW ops, Arrives(u), req'[u].op \notin ops
    PROVE  NotNew(ops)
BY DEF Arrives, Others, NotNew

\* The checks of a new invite.
LEMMA InviteChecksInv ==
    ASSUME RowShapes, ReqShapes, InviteInv, NEW u \in Users, InviteChecks(u)
    PROVE  InviteInv'
<1>1. Proceeds(u) /\ UNCHANGED <<invites, admitted, overlap>>
  BY Zenon, ContinueProceeds DEF Continue, InviteChecks, rowVars
<1>2. CASE overlap'
  BY Zenon, <1>1, <1>2 DEF InviteInv
<1>3. CASE ~overlap'
  <2>1. ~overlap /\ \A v \in Users \ {u} : req'[v] = NoRequest
    BY Zenon, <1>1, <1>3, Alone
  <2>2. \A e : Pending(e)' = Pending(e)
    BY Zenon, <1>1 DEF Pending
  <2>3. req[u].op = "invite" /\ (req'[u] = NoRequest \/ req'[u].op = "invite")
    BY Zenon, <1>1 DEF InviteChecks, At, Proceeds
  <2>4. \A v \in Users : ~At(v, "accept", "insert")'
    BY Zenon, <2>1, <2>3, NoRequestIs DEF At
  <2>5. At(u, "invite", "insert")' => Pending(req'[u].arg) = {}
    <3>1. req[u] \in Inviting
      BY AtBusy DEF InviteChecks, IsRequest
    <3>2. [req[u] EXCEPT !.at = "insert"].arg = req[u].arg
          /\ [req[u] EXCEPT !.at = "pending"].at = "pending"
      BY Zenon, <3>1 DEF Inviting
    <3>3. DOMAIN req = Users
      BY DEF ReqShapes
    <3>4. CASE At(u, "invite", "member")
      BY Zenon, <3>2, <3>3, <3>4, NoRequestIs DEF InviteChecks, GoOr, Go, Answer, At
    <3>5. CASE At(u, "invite", "pending")
      BY Zenon, <3>2, <3>3, <3>5, NoRequestIs DEF InviteChecks, GoOr, Go, Answer, At
    <3> QED BY Zenon, <3>4, <3>5 DEF InviteChecks
  <2>6. \A v \in Users : At(v, "invite", "insert")' => Pending(req[v].arg)' = {}
    <3>1. \A v \in Users \ {u} : ~At(v, "invite", "insert")'
      BY Zenon, <2>1, NoRequestIs DEF At
    <3> QED BY Zenon, <2>2, <2>5, <3>1
  <2> QED BY Zenon, <1>1, <2>1, <2>4, <2>6 DEF InviteInv
<1> QED BY Zenon, <1>2, <1>3

\* The row of a new invite: its address had no pending one.
LEMMA InsertInviteInv ==
    ASSUME RowShapes, ReqShapes, InviteInv, NEW u \in Users, InsertInvite(u)
    PROVE  InviteInv'
<1>1. Proceeds(u) /\ UNCHANGED <<admitted, overlap>> /\ At(u, "invite", "insert")
  BY Zenon, ContinueProceeds DEF Continue, InsertInvite
<1>2. req'[u] = NoRequest
  BY Zenon DEF InsertInvite, Answer, ReqShapes
<1>3. NotNew({"invite", "accept"})
  BY Zenon, <1>1, <1>2, NoRequestIs DEF Proceeds, Others, NotNew
<1>4. CASE UNCHANGED invites
  BY Zenon, <1>1, <1>3, <1>4, InviteFrame
<1>5. ASSUME NEW i \in Invites, NEW r \in Roles, invites[i].state = "none",
             invites' = [invites EXCEPT ![i] =
                   [state |-> "pending", email |-> req[u].arg, role |-> r]]
      PROVE  InviteInv'
  <2>1. /\ invites'[i].state = "pending" /\ invites'[i].email = req[u].arg
        /\ \A j \in Invites \ {i} : invites'[j] = invites[j]
    BY Zenon, <1>5 DEF RowShapes
  <2>2. admitted[i] = 0
    BY Zenon, <1>5 DEF InviteInv
  <2>3. \A j \in Invites : admitted'[j] # 0 => invites'[j].state \in {"accepted", "deleted"}
    BY Zenon, <1>1, <2>1, <2>2 DEF InviteInv
  <2>4. ASSUME ~overlap'
        PROVE  /\ \A v \in Users : ~At(v, "accept", "insert")' /\ ~At(v, "invite", "insert")'
               /\ Pending(req[u].arg) = {}
    <3>1. \A v \in Users : req'[v] = NoRequest
      BY Zenon, <1>1, <1>2, <2>4, Alone
    <3> QED BY Zenon, <1>1, <2>4, <3>1, NoRequestIs DEF At, InviteInv
  <2>5. ASSUME ~overlap', NEW j \in Invites, NEW k \in Invites,
               invites'[j].state = "pending", invites'[k].state = "pending",
               invites'[j].email = invites'[k].email
        PROVE  j = k
    <3>1. \A m \in Invites : ~(invites[m].state = "pending" /\ invites[m].email = req[u].arg)
      BY Zenon, <2>4, <2>5 DEF Pending
    <3> QED BY <1>1, <2>1, <2>5, <3>1 DEF InviteInv
  <2> QED BY Zenon, <1>1, <2>3, <2>4, <2>5 DEF InviteInv
<1> QED BY <1>4, <1>5 DEF InsertInvite

\* An invite is accepted once.
LEMMA AcceptInviteInv ==
    ASSUME RowShapes, ReqShapes, InviteInv, NEW u \in Users, AcceptInvite(u)
    PROVE  InviteInv'
<1> DEFINE i == req[u].arg
<1>1. Proceeds(u) /\ overlap' = overlap /\ At(u, "accept", "insert") /\ DOMAIN req = Users
  BY Zenon, ContinueProceeds DEF Continue, AcceptInvite, ReqShapes
<1>2. req[u] \in Accepting /\ i \in Invites
  BY <1>1, AtBusy DEF IsRequest, Accepting, Accepted
<1>3. ~At(u, "accept", "insert")' /\ ~At(u, "invite", "insert")'
  <2>1. [req[u] EXCEPT !.at = "auth0", !.arg = invites[i].role].at = "auth0"
    BY <1>2 DEF Accepting
  <2> QED BY Zenon, <1>1, <2>1, NoRequestIs DEF AcceptInvite, At, Answer
<1>4. CASE UNCHANGED <<invites, admitted>>
  <2>1. \A e : Pending(e)' = Pending(e)
    BY <1>4 DEF Pending
  <2>2. ASSUME NEW v \in Users
        PROVE  /\ At(v, "accept", "insert")' => At(v, "accept", "insert") /\ req'[v] = req[v]
               /\ At(v, "invite", "insert")' => At(v, "invite", "insert") /\ req'[v] = req[v]
    BY Zenon, <1>1, <1>3 DEF Proceeds, Others, At
  <2> QED BY Zenon, <1>1, <1>4, <2>1, <2>2 DEF InviteInv
<1>5. CASE ~UNCHANGED <<invites, admitted>>
  <2>1. admitted' = [admitted EXCEPT ![i] = @ + 1]
    BY <1>5 DEF AcceptInvite
  <2>2. /\ invites'[i].state \in {"accepted", "deleted"}
        /\ \A j \in Invites \ {i} : invites'[j] = invites[j]
    <3>1. invites \in [Invites -> InviteRec]
      BY Zenon DEF RowShapes
    <3>2. [invites[i] EXCEPT !.state = "accepted"].state = "accepted"
      BY Zenon, <1>2, InviteState
    <3>3. \/ invites' = invites /\ invites[i].state = "deleted"
          \/ invites' = [invites EXCEPT ![i] = [invites[i] EXCEPT !.state = "accepted"]]
      BY <1>5 DEF AcceptInvite
    <3> QED BY Zenon, <1>2, <3>1, <3>2, <3>3
  <2>3. \A j \in Invites : admitted'[j] # 0 => invites'[j].state \in {"accepted", "deleted"}
    BY Zenon, <1>2, <2>1, <2>2 DEF InviteInv, RowShapes
  <2>4. ASSUME ~overlap'
        PROVE  /\ \A v \in Users : ~At(v, "accept", "insert")' /\ ~At(v, "invite", "insert")'
               /\ admitted[i] = 0
    <3>1. \A v \in Users \ {u} : req'[v] = NoRequest
      BY Zenon, <1>1, <2>4, Alone
    <3>2. \A v \in Users \ {u} : ~At(v, "accept", "insert")' /\ ~At(v, "invite", "insert")'
      BY Zenon, <3>1, NoRequestIs DEF At
    <3> QED BY Zenon, <1>1, <1>3, <2>4, <3>2 DEF InviteInv
  <2>5. ~overlap' => \A j \in Invites : admitted'[j] <= 1
    BY <1>1, <1>2, <2>1, <2>4 DEF InviteInv, RowShapes
  <2>6. ASSUME ~overlap', NEW j \in Invites, NEW k \in Invites,
               invites'[j].state = "pending", invites'[k].state = "pending",
               invites'[j].email = invites'[k].email
        PROVE  j = k
    BY Zenon, <1>1, <2>2, <2>6 DEF InviteInv
  <2> QED BY Zenon, <2>3, <2>4, <2>5, <2>6 DEF InviteInv
<1> QED BY Zenon, <1>4, <1>5

\* An invite that is closed, by its age or by an admin.
LEMMA CloseInviteInv ==
    ASSUME RowShapes, InviteInv, NEW i \in Invites, NEW s \in {"expired", "deleted"},
           s = "expired" => invites[i].state = "pending",
           invites' = [invites EXCEPT ![i].state = s], admitted' = admitted,
           ~overlap' => ~overlap, NotNew({"invite", "accept"})
    PROVE  InviteInv'
<1>1. /\ invites'[i].state = s
      /\ \A j \in Invites \ {i} : invites'[j] = invites[j]
  BY InviteState DEF RowShapes
<1>2. s = "expired" => admitted[i] = 0
  BY Zenon DEF InviteInv
<1>3. \A j \in Invites : admitted'[j] # 0 => invites'[j].state \in {"accepted", "deleted"}
  BY Zenon, <1>1, <1>2 DEF InviteInv
<1>4. \A e : Pending(e)' \subseteq Pending(e)
  BY Zenon, <1>1 DEF Pending
<1>5. ASSUME NEW u \in Users
      PROVE  /\ At(u, "accept", "insert")' => At(u, "accept", "insert") /\ req'[u] = req[u]
             /\ At(u, "invite", "insert")' => At(u, "invite", "insert") /\ req'[u] = req[u]
  BY Zenon DEF NotNew, At
<1>6. ASSUME ~overlap', NEW j \in Invites, NEW k \in Invites,
             invites'[j].state = "pending", invites'[k].state = "pending",
             invites'[j].email = invites'[k].email
      PROVE  j = k
  BY <1>1, <1>6 DEF InviteInv
<1>7. ASSUME ~overlap', NEW u \in Users, At(u, "invite", "insert")'
      PROVE  Pending(req[u].arg)' = {}
  <2>1. Pending(req[u].arg) = {} /\ req'[u] = req[u]
    BY Zenon, <1>5, <1>7 DEF InviteInv
  <2> QED BY Zenon, <1>4, <2>1
<1>8. ASSUME ~overlap', NEW u \in Users, At(u, "accept", "insert")'
      PROVE  admitted'[req'[u].arg] = 0
  BY Zenon, <1>5, <1>8 DEF InviteInv
<1>9. ~overlap' => \A j \in Invites : admitted'[j] <= 1
  BY Zenon DEF InviteInv
<1> QED BY <1>3, <1>6, <1>7, <1>8, <1>9 DEF InviteInv

\* Every step of Tenancy keeps InviteInv.
LEMMA InviteStep ==
    ASSUME Counted, RowShapes, ReqShapes, InviteInv,
           \/ \E u \in Users : Continue(u) \/ Arrive(u) \/ Login(u) \/ CommitErase(u)
           \/ \E i \in Invites : ExpireInvite(i)
    PROVE  InviteInv'
<1>1. ASSUME NEW u \in Users, Continue(u)
      PROVE  InviteInv'
  <2>1. CASE InviteChecks(u) \/ InsertInvite(u) \/ AcceptInvite(u)
    BY Zenon, <2>1, InviteChecksInv, InsertInviteInv, AcceptInviteInv
  <2>2. CASE SetAuth0(u)
    <3>1. Proceeds(u) /\ req'[u] = NoRequest
      BY Zenon, <1>1, <2>2, ContinueProceeds DEF SetAuth0, Answer, ReqShapes
    <3>2. NotNew({"invite", "accept"})
      BY <3>1, NoRequestIs DEF Proceeds, Others, NotNew
    <3> QED BY Zenon, <2>2, <3>1, <3>2, InviteFrame DEF SetAuth0, rowVars
  <2>3. CASE ~(InviteChecks(u) \/ InsertInvite(u) \/ AcceptInvite(u) \/ SetAuth0(u))
    <3>1. UNCHANGED <<invites, admitted, overlap>> /\ req[u].op \notin {"invite", "accept"}
      BY Zenon, <1>1, <2>3 DEF Continue, RemoveMember, ReadSelf, LeaveTenant, CreateOrganization,
            CreateConnection, EnableConnectionOnOrg, DisableConnectionOnOrg, SaveOrg,
            SaveConnection, ClearConnection, rowVars, At
    <3> QED BY Zenon, <1>1, <3>1, ContinueProceeds, ProceedsNotNew, InviteFrame
  <2> QED BY Zenon, <2>1, <2>2, <2>3
<1>2. ASSUME NEW u \in Users, Arrive(u)
      PROVE  InviteInv'
  <2>1. ASSUME NEW i \in Invites, RevokeInvite(u, i)
        PROVE  InviteInv'
    <3>1. Passes
      BY Zenon, <2>1, AtOncePasses DEF RevokeInvite
    <3> QED BY Zenon, <2>1, <3>1, CloseInviteInv DEF RevokeInvite, Passes, Crowded, NotNew
  <2>2. ASSUME NEW i \in Invites, SelectInvite(u, i)
        PROVE  InviteInv'
    <3>1. Arrives(u) /\ UNCHANGED <<invites, admitted>>
      <4>1. req[u] = NoRequest /\ req'[u].op = "accept" /\ UNCHANGED <<invites, admitted>>
        BY Zenon, <2>2 DEF SelectInvite, rowVars, Begin, ReqShapes
      <4>2. ~Passes
        BY Zenon, <4>1, NoRequestIs DEF Passes
      <4> QED BY Zenon, <1>2, <4>1, <4>2, ArriveArrives
    <3>2. req'[u].arg = i /\ req'[u].op = "accept"
      BY Zenon, <2>2 DEF SelectInvite, Begin, ReqShapes
    <3>3. admitted[i] = 0
      BY Zenon, <2>2 DEF SelectInvite, InviteInv
    <3>4. ASSUME ~overlap'
          PROVE  /\ ~overlap
                 /\ \A v \in Users : /\ At(v, "accept", "insert")' => v = u
                                     /\ ~At(v, "invite", "insert")'
      BY Zenon, <3>1, <3>2, <3>4, Alone, NoRequestIs DEF At
    <3>5. \A e : Pending(e)' = Pending(e)
      BY Zenon, <3>1 DEF Pending
    <3> QED BY Zenon, <3>1, <3>2, <3>3, <3>4 DEF InviteInv
  <2>3. ASSUME NEW v \in Users, Invite(u, v)
        PROVE  InviteInv'
    <3>1. Arrives(u) /\ UNCHANGED <<invites, admitted>>
      <4>1. req[u] = NoRequest /\ req'[u].op = "invite" /\ UNCHANGED <<invites, admitted>>
        BY Zenon, <2>3 DEF Invite, rowVars, Begin, ReqShapes
      <4>2. ~Passes
        BY Zenon, <4>1, NoRequestIs DEF Passes
      <4> QED BY Zenon, <1>2, <4>1, <4>2, ArriveArrives
    <3>2. req'[u].at = "member"
      BY Zenon, <2>3 DEF Invite, Begin, ReqShapes
    <3>3. \A e : Pending(e)' = Pending(e)
      BY Zenon, <3>1 DEF Pending
    <3>4. ASSUME ~overlap'
          PROVE  /\ ~overlap
                 /\ \A w \in Users : ~At(w, "accept", "insert")' /\ ~At(w, "invite", "insert")'
      BY Zenon, <3>1, <3>2, <3>4, Alone, NoRequestIs DEF At
    <3> QED BY Zenon, <3>1, <3>4 DEF InviteInv
  <2>4. CASE /\ \A i \in Invites : ~RevokeInvite(u, i) /\ ~SelectInvite(u, i)
             /\ \A v \in Users : ~Invite(u, v)
    <3>1. UNCHANGED <<invites, admitted>>
          /\ (req' = req \/ req'[u].op \notin {"invite", "accept"})
      BY <1>2, <2>4 DEF Arrive, Register, CountAdmins, CreateOrg, DeleteSso, CreateKey,
         RevokeKey, PutRole, SelectMember, ConfigureSso, rowVars, Begin, AtOnce, ReqShapes
    <3>2. Arrives(u) \/ Passes
      BY Zenon, <1>2, ArriveArrives
    <3>3. NotNew({"invite", "accept"}) /\ (~overlap' => ~overlap)
      BY Zenon, <3>1, <3>2 DEF Arrives, Passes, Others, NotNew, Crowded
    <3> QED BY Zenon, <3>1, <3>3, InviteFrame
  <2> QED BY Zenon, <2>1, <2>2, <2>3, <2>4
<1>3. ASSUME NEW u \in Users, Login(u)
      PROVE  InviteInv'
  BY Zenon, <1>3, InviteFrame DEF Login, rowVars, NotNew
<1>4. ASSUME NEW u \in Users, CommitErase(u)
      PROVE  InviteInv'
  <2>1. req[u] # NoRequest /\ req'[u] = NoRequest /\ Proceeds(u) /\ overlap' = overlap
    BY <1>4, AtBusy, AnswerProceeds DEF CommitErase
  <2>2. NotNew({"invite", "accept"}) /\ admitted' = admitted
    BY <1>4, <2>1, NoRequestIs DEF Proceeds, Others, NotNew, CommitErase
  <2>3. \A i \in Invites : \/ invites'[i] = invites[i] /\ invites[i].state = "none"
                           \/ invites'[i].state = "deleted"
    <3>1. \A i \in Invites : [invites[i] EXCEPT !.state = "deleted"].state = "deleted"
      BY Zenon, InviteState
    <3> QED BY Zenon, <1>4, <3>1 DEF CommitErase
  <2>4. \A e : Pending(e)' = {}
    BY Zenon, <2>3 DEF Pending
  <2>5. ASSUME NEW v \in Users
        PROVE  At(v, "accept", "insert")' => At(v, "accept", "insert") /\ req'[v] = req[v]
    BY Zenon, <2>2 DEF NotNew, At
  <2>6. \A v \in Users : At(v, "invite", "insert")' => Pending(req[v].arg)' = {}
    BY <2>4
  <2>7. \A i \in Invites : invites'[i].state # "pending"
    BY Zenon, <2>3
  <2>8. \A i \in Invites : admitted'[i] # 0 => invites'[i].state \in {"accepted", "deleted"}
    BY Zenon, <2>2, <2>3 DEF InviteInv
  <2> QED BY Zenon, <2>1, <2>2, <2>5, <2>6, <2>7, <2>8 DEF InviteInv
<1>5. ASSUME NEW i \in Invites, ExpireInvite(i)
      PROVE  InviteInv'
  BY Zenon, <1>5, CloseInviteInv DEF ExpireInvite, NotNew
<1> QED BY Zenon, <1>1, <1>2, <1>3, <1>4, <1>5

-----------------------------------------------------------------------------
(* Deleting an account. *)

\* What leaves the team alone, the erasure of the devices included.
LEMMA LeaveFrame ==
    ASSUME LeaveInv, role' = role, tenant'.state = tenant.state, budget' = budget,
           ~overlap' => ~overlap,
           \A v \in Users : \/ req'[v] = req[v] \/ req'[v].op # "leave"
                            \/ At(v, "leave", "erase") /\ At(v, "leave", "commit")'
    PROVE  LeaveInv'
<1>1. Admins' = Admins
  BY Zenon DEF Admins
<1>2. Deliberate' => Deliberate
  BY Zenon DEF Deliberate
<1>3. ASSUME NEW u \in Users
      PROVE  /\ At(u, "leave", "self")' => At(u, "leave", "self") /\ req'[u] = req[u]
             /\ At(u, "leave", "delete")' => At(u, "leave", "delete")
             /\ At(u, "leave", "erase")' => At(u, "leave", "erase")
             /\ At(u, "leave", "commit")' => At(u, "leave", "erase") \/ At(u, "leave", "commit")
  BY Zenon DEF At
<1> QED BY Zenon, <1>1, <1>2, <1>3 DEF LeaveInv

\* Every await of a team or sign-on request keeps LeaveInv.
LEMMA LeaveContinue ==
    ASSUME Counted, RowShapes, ReqShapes, LeaveInv, NEW u \in Users, Continue(u)
    PROVE  LeaveInv'
<1>1. Proceeds(u) /\ tenant'.state = tenant.state /\ DOMAIN req = Users
  BY Zenon, ContinueProceeds, ContinueTenant DEF ReqShapes
<1>2. budget' = budget /\ overlap' = overlap
  BY Zenon, <1>1 DEF Proceeds, Continue, SetAuth0, InviteChecks, InsertInvite, AcceptInvite,
              RemoveMember, ReadSelf, LeaveTenant, CreateOrganization, CreateConnection,
              EnableConnectionOnOrg, DisableConnectionOnOrg, SaveOrg, SaveConnection,
              ClearConnection, authVars
<1>3. \A v \in Users \ {u} : req'[v] = req[v]
  BY <1>1 DEF Proceeds, Others
<1>4. ASSUME Deliberate'
      PROVE  Deliberate /\ \A v \in Users \ {u} : req'[v].op = "none"
  BY Zenon, <1>1, <1>2, <1>4, Alone, NoRequestIs DEF Deliberate
<1>5. CASE ReadSelf(u)
  <2>1. role' = role /\ Admins' = Admins
    BY Zenon, <1>5 DEF ReadSelf, rowVars, Admins
  <2>2. req[u] \in Leaving /\ At(u, "leave", "self")
    BY Zenon, <1>5, AtBusy DEF ReadSelf, IsRequest
  <2> DEFINE at == IF role[u] = "admin" /\ req[u].seen = 1 THEN "erase" ELSE "delete"
  <2>3. GoOr(u, role[u] # "none", at)
    BY <1>5 DEF ReadSelf
  <2>4. [req[u] EXCEPT !.at = at].at = at
    BY <2>2 DEF Leaving
  <2>5. req'[u] = NoRequest \/ req'[u].at = at
    BY Zenon, <1>1, <2>3, <2>4 DEF GoOr, Go, Answer
  <2>6. ASSUME Deliberate'
        PROVE  /\ req[u].seen = Cardinality(Admins)
               /\ tenant'.state = "live" => Admins # {}
    BY Zenon, <1>1, <1>4, <2>2, <2>6 DEF LeaveInv
  <2>7. ASSUME Deliberate'
        PROVE  /\ ~At(u, "leave", "self")' /\ ~At(u, "leave", "commit")'
               /\ At(u, "leave", "delete")' => role[u] # "admin" \/ Cardinality(Admins) # 1
               /\ At(u, "leave", "erase")' => Cardinality(Admins) = 1
    BY Zenon, <2>5, <2>6, <2>7, NoRequestIs DEF At
  <2>8. ASSUME Deliberate', NEW v \in Users
        PROVE  /\ ~At(v, "leave", "self")' /\ ~At(v, "leave", "commit")'
               /\ At(v, "leave", "delete")' => role[v] # "admin" \/ Cardinality(Admins) # 1
               /\ At(v, "leave", "erase")' => Cardinality(Admins) = 1
    <3>1. CASE v = u
      BY Zenon, <2>7, <2>8, <3>1
    <3>2. CASE v # u
      BY Zenon, <1>4, <2>8, <3>2 DEF At
    <3> QED BY Zenon, <3>1, <3>2
  <2> QED BY Zenon, <2>1, <2>6, <2>8 DEF LeaveInv
<1>6. CASE LeaveTenant(u)
  <2>1. At(u, "leave", "delete") /\ role' = [role EXCEPT ![u] = "none"] /\ req'[u] = NoRequest
    BY Zenon, <1>1, <1>6 DEF LeaveTenant, Answer
  <2>2. Admins' = Admins \ {u}
    BY <2>1 DEF Admins, RowShapes
  <2>3. ASSUME Deliberate', tenant'.state = "live"
        PROVE  Admins' # {}
    <3>1. Admins # {} /\ (role[u] # "admin" \/ Cardinality(Admins) # 1)
      BY Zenon, <1>1, <1>4, <2>1, <2>3 DEF LeaveInv
    <3>2. CASE u \notin Admins
      BY Zenon, <2>2, <3>1, <3>2
    <3>3. CASE u \in Admins
      <4>1. \E v \in Admins : v # u
        BY <3>1, <3>3 DEF Counted, Admins
      <4> QED BY Zenon, <2>2, <4>1
    <3> QED BY Zenon, <3>2, <3>3
  <2>4. ASSUME Deliberate', NEW v \in Users
        PROVE  req'[v].op = "none"
    BY Zenon, <1>4, <2>1, <2>4, NoRequestIs
  <2> QED BY Zenon, <2>3, <2>4 DEF LeaveInv, At
<1>7. CASE AcceptInvite(u)
  <2>1. req[u].op = "accept" /\ req'[u].op \in {"accept", "none"}
    BY Zenon, <1>1, <1>7, NoRequestIs DEF AcceptInvite, At, Proceeds
  <2>2. role' = role \/ (role[u] = "none" /\ \E r : role' = [role EXCEPT ![u] = r])
    BY Zenon, <1>7 DEF AcceptInvite
  <2>3. Admins \subseteq Admins'
    BY Zenon, <2>2 DEF Admins, RowShapes
  <2>4. ASSUME Deliberate', tenant'.state = "live"
        PROVE  Admins' # {}
    BY Zenon, <1>1, <1>4, <2>3, <2>4 DEF LeaveInv
  <2>5. ASSUME Deliberate', NEW v \in Users
        PROVE  req'[v].op # "leave"
    BY Zenon, <1>4, <2>1, <2>5
  <2> QED BY Zenon, <2>4, <2>5 DEF LeaveInv, At
<1>8. CASE RemoveMember(u)
  <2>1. "remove" \in budget.ops
    BY <1>8, AtBusy DEF RemoveMember, ReqShapes
  <2> QED BY Zenon, <1>2, <2>1 DEF LeaveInv, Deliberate
<1>9. CASE ~(ReadSelf(u) \/ LeaveTenant(u) \/ AcceptInvite(u) \/ RemoveMember(u))
  <2>1. role' = role
    BY Zenon, <1>9 DEF Continue, SetAuth0, InviteChecks, InsertInvite, CreateOrganization,
              CreateConnection, EnableConnectionOnOrg, DisableConnectionOnOrg, SaveOrg,
              SaveConnection, ClearConnection, rowVars
  <2>2. req[u].op # "leave"
    <3>1. SetAuth0(u) => req[u].op \in {"register", "accept"}
      BY Zenon DEF SetAuth0, ReqShapes, IsRequest
    <3> QED
      BY Zenon, <1>9, <3>1 DEF Continue, InviteChecks, InsertInvite, CreateOrganization,
              CreateConnection, EnableConnectionOnOrg, DisableConnectionOnOrg, SaveOrg,
              SaveConnection, ClearConnection, At
  <2>3. \A v \in Users : req'[v] = req[v] \/ req'[v].op # "leave"
    BY Zenon, <1>1, <1>3, <2>2, NoRequestIs DEF Proceeds
  <2> QED BY Zenon, <1>1, <1>2, <2>1, <2>3, LeaveFrame
<1> QED BY Zenon, <1>5, <1>6, <1>7, <1>8, <1>9

\* Every step of Tenancy keeps LeaveInv.
LEMMA LeaveStep ==
    ASSUME Counted, RowShapes, ReqShapes, Unregistered, LeaveInv,
           \/ \E u \in Users : Continue(u) \/ Arrive(u) \/ Login(u) \/ CommitErase(u)
           \/ \E i \in Invites : ExpireInvite(i)
    PROVE  LeaveInv'
<1>1. ASSUME NEW u \in Users, Continue(u)
      PROVE  LeaveInv'
  BY Zenon, <1>1, LeaveContinue
<1>2. ASSUME NEW u \in Users, Arrive(u)
      PROVE  LeaveInv'
  <2>1. (Arrives(u) \/ Passes) /\ (~overlap' => ~overlap) /\ DOMAIN req = Users
    BY Zenon, <1>2, ArriveArrives DEF Arrives, Passes, Crowded, ReqShapes
  <2>2. budget' = budget
    BY Zenon, <1>2 DEF Arrive, Register, CountAdmins, CreateOrg, DeleteSso, CreateKey,
         RevokeKey, Invite, PutRole, SelectMember, SelectInvite, RevokeInvite, ConfigureSso,
         authVars
  <2>3. CASE Register(u)
    <3>1. req'[u].op = "register" /\ Arrives(u)
      <4>1. req'[u].op = "register" /\ req[u] = NoRequest
        BY Zenon, <2>1, <2>3 DEF Register, Begin
      <4> QED BY Zenon, <2>1, <4>1, NoRequestIs DEF Passes
    <3>2. u \in Admins'
      BY Zenon, <2>3 DEF Register, RowShapes, Admins
    <3>3. \A v \in Users : req[v] = NoRequest
      BY Zenon, <2>3 DEF Register, Unregistered
    <3>4. \A v \in Users : req'[v].op # "leave"
      BY Zenon, <3>1, <3>3, NoRequestIs DEF Arrives, Others
    <3> QED BY Zenon, <3>2, <3>4 DEF LeaveInv, At
  <2>4. CASE CountAdmins(u)
    <3>1. /\ req[u] = NoRequest /\ req'[u].op = "leave" /\ req'[u].at = "self"
          /\ req'[u].seen = Cardinality(Admins) /\ role' = role /\ tenant' = tenant
      BY Zenon, <2>1, <2>4 DEF CountAdmins, Begin, rowVars
    <3>2. Arrives(u)
      BY Zenon, <2>1, <3>1, NoRequestIs DEF Passes
    <3>3. Admins' = Admins
      BY Zenon, <3>1 DEF Admins
    <3>4. ASSUME Deliberate'
          PROVE  Deliberate /\ \A v \in Users \ {u} : req'[v].op = "none"
      BY Zenon, <2>1, <2>2, <3>2, <3>4, Alone, NoRequestIs DEF Deliberate
    <3>5. ASSUME Deliberate', NEW v \in Users
          PROVE  /\ At(v, "leave", "self")' => v = u
                 /\ ~At(v, "leave", "delete")' /\ ~At(v, "leave", "erase")'
                 /\ ~At(v, "leave", "commit")'
      BY Zenon, <3>1, <3>4, <3>5 DEF At
    <3> QED BY Zenon, <3>1, <3>3, <3>4, <3>5 DEF LeaveInv
  <2>5. ASSUME NEW v \in Users, PutRole(u, v)
        PROVE  LeaveInv'
    <3>1. "role" \in budget.ops
      BY Zenon, <2>5 DEF PutRole, AtOnce
    <3> QED BY Zenon, <2>2, <3>1 DEF LeaveInv, Deliberate
  <2>6. CASE ~Register(u) /\ ~CountAdmins(u) /\ \A v \in Users : ~PutRole(u, v)
    <3>1. role' = role
      BY Zenon, <1>2, <2>6 DEF Arrive, CreateOrg, DeleteSso, CreateKey, RevokeKey, Invite,
         SelectMember, SelectInvite, RevokeInvite, ConfigureSso, rowVars
    <3>2. req' = req \/ req'[u].op # "leave"
      BY <1>2, <2>1, <2>6 DEF Arrive, CreateOrg, DeleteSso, CreateKey, RevokeKey, Invite,
         SelectMember, SelectInvite, RevokeInvite, ConfigureSso, Begin, AtOnce
    <3>3. \A v \in Users : req'[v] = req[v] \/ req'[v].op # "leave"
      BY Zenon, <2>1, <3>2 DEF Arrives, Passes, Others
    <3> QED BY Zenon, <1>2, <2>1, <2>2, <2>6, <3>1, <3>3, ArriveUnregistered, LeaveFrame
  <2> QED BY Zenon, <2>3, <2>4, <2>5, <2>6
<1>3. ASSUME NEW u \in Users, Login(u)
      PROVE  LeaveInv'
  BY Zenon, <1>3, LeaveFrame DEF Login, rowVars
<1>4. ASSUME NEW u \in Users, CommitErase(u)
      PROVE  LeaveInv'
  <2>1. Proceeds(u) /\ req'[u] = NoRequest /\ tenant'.state = "gone"
    BY Zenon, <1>4, AtBusy, AnswerProceeds DEF CommitErase
  <2>2. ASSUME Deliberate', NEW v \in Users
        PROVE  req'[v].op = "none"
    BY Zenon, <2>1, <2>2, Alone, NoRequestIs DEF Deliberate
  <2> QED BY Zenon, <2>1, <2>2 DEF LeaveInv, At
<1>5. ASSUME NEW i \in Invites, ExpireInvite(i)
      PROVE  LeaveInv'
  BY Zenon, <1>5, LeaveFrame DEF ExpireInvite, authVars
<1> QED BY Zenon, <1>1, <1>2, <1>3, <1>4, <1>5

-----------------------------------------------------------------------------
(* Single sign-on. *)

\* Every await of a team or sign-on request counts its bounds up, if any; a
\* management call that does not succeed is a fault.
LEMMA ContinueGrows ==
    ASSUME ReqShapes, NEW u \in Users, Continue(u)
    PROVE  Grows
<1>1. budget' = budget
  BY Zenon DEF Continue, SetAuth0, InviteChecks, InsertInvite, AcceptInvite, RemoveMember,
         ReadSelf, LeaveTenant, CreateOrganization, CreateConnection,
         EnableConnectionOnOrg, DisableConnectionOnOrg, SaveOrg, SaveConnection,
         ClearConnection, authVars
<1>2. UNCHANGED used \/ \E ok \in BOOLEAN : MayFail(ok)
  <2>1. CASE SetAuth0(u)
    BY Zenon, <2>1 DEF SetAuth0
  <2>2. CASE CreateOrganization(u)
    BY Zenon, <2>2 DEF CreateOrganization, Mgmt
  <2>3. CASE CreateConnection(u)
    BY Zenon, <2>3 DEF CreateConnection, Mgmt
  <2>4. CASE EnableConnectionOnOrg(u) \/ DisableConnectionOnOrg(u)
    BY Zenon, <2>4 DEF EnableConnectionOnOrg, DisableConnectionOnOrg, Mgmt
  <2>5. CASE ~(\/ SetAuth0(u) \/ CreateOrganization(u) \/ CreateConnection(u)
               \/ EnableConnectionOnOrg(u) \/ DisableConnectionOnOrg(u))
    BY Zenon, <2>5 DEF Continue, InviteChecks, InsertInvite, AcceptInvite, RemoveMember,
         ReadSelf, LeaveTenant, SaveOrg, SaveConnection, ClearConnection
  <2> QED BY Zenon, <2>1, <2>2, <2>3, <2>4, <2>5
<1> QED BY Zenon, <1>1, <1>2, SpendGrows

\* So does every request that arrives, a login and an invite that expires.
LEMMA ArriveGrows ==
    ASSUME ReqShapes, NEW u \in Users, Arrive(u) \/ Login(u) \/ \E i \in Invites : ExpireInvite(i)
    PROVE  Grows
<1>1. budget' = budget /\ \E b \in Bounds : Spend(b)
  BY DEF Arrive, Register, CountAdmins, CreateOrg, DeleteSso, CreateKey, RevokeKey, Invite,
         PutRole, SelectMember, SelectInvite, RevokeInvite, ConfigureSso, Login, ExpireInvite,
         Begin, AtOnce, authVars, Bounds
<1> QED BY Zenon, <1>1, SpendGrows

SsoOps == {"org", "sso", "nosso"}

\* SsoInv of the one user who has a request.
SsoCore(u) ==
    /\ tenant.org = idp.org \/ At(u, "org", "save")
    /\ At(u, "sso", "enable") => req[u].arg \notin idp.enabled
    /\ At(u, "sso", "save") => req[u].arg \in idp.enabled
    /\ At(u, "nosso", "disable") => req[u].arg = tenant.conn
    /\ At(u, "nosso", "clear") => tenant.conn \notin idp.enabled
    /\ tenant.conn \in idp.enabled \cup {"none"} \/ At(u, "nosso", "clear")
    /\ OneAtMost(idp.conns) =>
          \/ idp.enabled = {tenant.conn} \ {"none"}
          \/ idp.enabled = {} /\ At(u, "nosso", "clear")
          \/ tenant.conn = "none" /\ At(u, "sso", "save") /\ idp.enabled = {req[u].arg}

\* SsoInv says SsoCore of a user who is alone.
LEMMA SsoCoreHolds ==
    ASSUME SsoInv, Calm, NEW u \in Users, \A v \in Users \ {u} : req[v] = NoRequest
    PROVE  SsoCore(u)
<1>1. \A v \in Users : \A at : \A op \in SsoOps : At(v, op, at) => v = u
  BY Zenon, NoRequestIs DEF At, SsoOps
<1>2. /\ \A v \in Users : At(v, "org", "save") => v = u
      /\ \A v \in Users : At(v, "sso", "save") => v = u
      /\ \A v \in Users : At(v, "nosso", "clear") => v = u
  BY Zenon, <1>1 DEF SsoOps
<1> QED BY Zenon, <1>2 DEF SsoInv, SsoCore

\* And a step of the request of u keeps SsoInv when it leaves SsoCore true.
LEMMA SsoCoreStep ==
    ASSUME ReqShapes, SsoInv, NEW u \in Users, Arrives(u) \/ Proceeds(u),
           idp'.enabled \subseteq idp'.conns, idp.conns \subseteq idp'.conns,
           idp.org => idp'.org,
           At(u, "sso", "enable")' \/ At(u, "sso", "save")' => req'[u].arg \in idp'.conns,
           At(u, "org", "save")' => idp'.org,
           Calm' => SsoCore(u)'
    PROVE  SsoInv'
<1>1. \A v \in Users \ {u} : req'[v] = req[v]
  BY Zenon DEF Arrives, Proceeds, Others
<1>2. ASSUME NEW v \in Users, At(v, "sso", "enable")' \/ At(v, "sso", "save")'
      PROVE  req'[v].arg \in idp'.conns
  BY <1>1, <1>2 DEF SsoInv, At
<1>3. ASSUME NEW v \in Users, At(v, "org", "save")'
      PROVE  idp'.org
  BY Zenon, <1>1, <1>3 DEF SsoInv, At
<1>4. ASSUME Calm'
      PROVE  /\ SsoCore(u)'
             /\ \A v \in Users : \A at : \A op \in SsoOps : At(v, op, at)' => v = u
  <2>1. \A v \in Users \ {u} : req'[v].op = "none"
    BY Zenon, <1>4, Alone, NoRequestIs DEF Calm
  <2> QED BY Zenon, <1>4, <2>1 DEF At, SsoOps
<1>5. ASSUME Calm'
      PROVE  /\ \A v \in Users : At(v, "sso", "enable")' => v = u
             /\ \A v \in Users : At(v, "sso", "save")' => v = u
             /\ \A v \in Users : At(v, "nosso", "disable")' => v = u
             /\ \A v \in Users : At(v, "nosso", "clear")' => v = u
  BY Zenon, <1>4, <1>5 DEF SsoOps
<1> QED BY Zenon, <1>2, <1>3, <1>4, <1>5 DEF SsoInv, SsoCore

\* What leaves single sign-on alone; a request of it ends only with a fault.
LEMMA SsoFrame ==
    ASSUME SsoInv, Grows, UNCHANGED <<tenant, idp>>, ~overlap' => ~overlap,
           used \in [Bounds -> Nat],
           \A v \in Users : \/ req'[v] = req[v]
                            \/ /\ req'[v].op \notin SsoOps
                               /\ req[v].op \notin SsoOps \/ used'["faults"] > 0
    PROVE  SsoInv'
<1>1. Calm' => Calm
  BY DEF Calm, Grows, Bounds
<1>2. \A v \in Users : \A op \in SsoOps : \A at :
         At(v, op, at)' => At(v, op, at) /\ req'[v] = req[v]
  BY DEF At
<1>3. Calm' => \A v \in Users : \A op \in SsoOps : \A at : At(v, op, at) => At(v, op, at)'
  BY DEF At, Calm
<1>4. /\ \A v \in Users : At(v, "sso", "enable")' => At(v, "sso", "enable") /\ req'[v] = req[v]
      /\ \A v \in Users : At(v, "sso", "save")' => At(v, "sso", "save") /\ req'[v] = req[v]
      /\ \A v \in Users : At(v, "org", "save")' => At(v, "org", "save")
      /\ \A v \in Users : At(v, "nosso", "disable")' => At(v, "nosso", "disable") /\ req'[v] = req[v]
      /\ \A v \in Users : At(v, "nosso", "clear")' => At(v, "nosso", "clear")
  BY Zenon, <1>2 DEF SsoOps
<1>5. ASSUME Calm'
      PROVE  /\ \A v \in Users : At(v, "sso", "save") => At(v, "sso", "save")' /\ req'[v] = req[v]
             /\ \A v \in Users : At(v, "org", "save") => At(v, "org", "save")'
             /\ \A v \in Users : At(v, "nosso", "clear") => At(v, "nosso", "clear")'
  BY Zenon, <1>2, <1>3, <1>5 DEF SsoOps
<1> QED BY ZenonT(30), <1>1, <1>4, <1>5 DEF SsoInv

\* A sign-on request that arrives.
LEMMA SsoArrives ==
    ASSUME Counted, RowShapes, ReqShapes, SsoInv, NEW u \in Users,
           CreateOrg(u) \/ DeleteSso(u) \/ \E kind \in Kinds : ConfigureSso(u, kind)
    PROVE  SsoInv'
<1>1. Arrive(u) /\ UNCHANGED <<tenant, idp>> /\ DOMAIN req = Users
  BY Zenon DEF Arrive, CreateOrg, DeleteSso, ConfigureSso, rowVars, authVars, ReqShapes
<1>2. /\ req[u] = NoRequest /\ req'[u] # NoRequest
      /\ \/ req'[u].op = "org" /\ req'[u].at = "create"
         \/ req'[u].op = "sso" /\ req'[u].at = "create"
         \/ req'[u].op = "nosso" /\ req'[u].at = "disable" /\ req'[u].arg = tenant.conn
  <2>1. CASE CreateOrg(u)
    BY <1>1, <2>1, BeginIs DEF CreateOrg
  <2>2. CASE DeleteSso(u)
    BY <1>1, <2>2, BeginIs DEF DeleteSso
  <2>3. CASE \E kind \in Kinds : ConfigureSso(u, kind)
    <3>1. PICK kind \in Kinds : Begin(u, "sso", "create", kind, 0)
      BY Zenon, <2>3 DEF ConfigureSso
    <3>2. "sso" # "none"
      OBVIOUS
    <3>3. /\ req[u] = NoRequest /\ req'[u] # NoRequest
          /\ req'[u].op = "sso" /\ req'[u].at = "create"
      BY <1>1, <3>1, <3>2, BeginIs
    <3> QED BY Zenon, <3>3
  <2> QED BY Zenon, <2>1, <2>2, <2>3
<1>3. Arrives(u) /\ Grows
  BY Zenon, <1>1, <1>2, ArriveArrives, ArriveGrows DEF Passes
<1>4. /\ ~At(u, "sso", "enable")' /\ ~At(u, "sso", "save")' /\ ~At(u, "org", "save")'
      /\ ~At(u, "nosso", "clear")'
      /\ At(u, "nosso", "disable")' => req'[u].arg = tenant.conn
  BY Zenon, <1>2 DEF At
<1>5. ASSUME Calm' PROVE SsoCore(u)'
  <2>1. Calm /\ \A v \in Users \ {u} : req[v] = NoRequest
    <3>1. ~overlap /\ \A v \in Users \ {u} : req[v] = NoRequest
      BY Zenon, <1>3, <1>5, Alone DEF Calm
    <3>2. used["faults"] = 0
      BY Zenon, <1>3, <1>5, FaultsBefore DEF Calm, ReqShapes
    <3> QED BY Zenon, <1>1, <1>5, <3>1, <3>2 DEF Calm
  <2>2. SsoCore(u) /\ ~At(u, "org", "save") /\ ~At(u, "nosso", "clear") /\ ~At(u, "sso", "save")
    BY Zenon, <1>2, <2>1, SsoCoreHolds, NoRequestIs DEF At
  <2> QED BY Zenon, <1>1, <1>4, <2>2 DEF SsoCore
<1> QED BY Zenon, <1>1, <1>3, <1>4, <1>5, SsoCoreStep DEF SsoInv

\* What a management call reports, without a fault, is what it did.
LEMMA MgmtCalm ==
    ASSUME ReqShapes, budget' = budget, NEW done \in BOOLEAN, NEW ok \in BOOLEAN,
           Mgmt(done, ok)
    PROVE  (ok => done) /\ (Calm' => ok)
<1>1. ~ok => used'["faults"] > 0
  BY Zenon, SpendGrows DEF Mgmt
<1>2. ~ok => used' \in [Bounds -> Nat]
  BY Zenon, SpendGrows DEF Mgmt, Grows
<1> QED BY <1>1, <1>2 DEF Mgmt, Calm, Bounds

\* A user's sign-on request at an await, and where GoOr leaves it.
LEMMA SsoGoOr ==
    ASSUME ReqShapes, NEW u \in Users, req[u] \in Organizing \cup Configuring \cup Disabling,
           NEW ok, NEW at, GoOr(u, ok, at)
    PROVE  /\ ok => req'[u].op = req[u].op /\ req'[u].at = at /\ req'[u].arg = req[u].arg
           /\ ~ok => req'[u].op = "none"
<1>1. DOMAIN req = Users
  BY Zenon DEF ReqShapes
<1> DEFINE n == [req[u] EXCEPT !.at = at]
<1>2. n.op = req[u].op /\ n.at = at /\ n.arg = req[u].arg
  BY DEF Organizing, Configuring, Disabling
<1> HIDE DEF n
<1>3. ok => req'[u] = n
  BY Zenon, <1>1 DEF GoOr, Go, n
<1>4. ~ok => req'[u] = NoRequest
  BY Zenon, <1>1 DEF GoOr, Answer
<1> QED BY Zenon, <1>2, <1>3, <1>4, NoRequestIs

\* The organization is created at Auth0, then saved in the row.
LEMMA SsoOrg ==
    ASSUME RowShapes, ReqShapes, SsoInv, NEW u \in Users, CreateOrganization(u) \/ SaveOrg(u)
    PROVE  SsoInv'
<1>1. /\ Proceeds(u) /\ Grows /\ tenant'.state = tenant.state /\ budget' = budget
      /\ DOMAIN req = Users
  BY Zenon, ContinueProceeds, ContinueGrows, ContinueTenant DEF Continue, Grows, ReqShapes
<1>2. req[u].op = "org" /\ req[u] \in Organizing
  BY Zenon, AtBusy DEF CreateOrganization, SaveOrg, IsRequest
<1>3. req'[u].op \in {"org", "none"}
  BY Zenon, <1>1, <1>2, NoRequestIs DEF Proceeds
<1>4. /\ ~At(u, "sso", "enable") /\ ~At(u, "sso", "save") /\ ~At(u, "nosso", "disable")
      /\ ~At(u, "nosso", "clear")
      /\ ~At(u, "sso", "enable")' /\ ~At(u, "sso", "save")' /\ ~At(u, "nosso", "disable")'
      /\ ~At(u, "nosso", "clear")'
  BY Zenon, <1>2, <1>3 DEF At
<1>5. ASSUME Calm' PROVE Calm /\ SsoCore(u)
  <2>1. Calm /\ \A v \in Users \ {u} : req[v] = NoRequest
    BY <1>1, <1>5, Alone DEF Calm, Grows, Bounds, ReqShapes
  <2> QED BY Zenon, <2>1, SsoCoreHolds
<1>6. CASE SaveOrg(u)
  <2>1. At(u, "org", "save") /\ idp' = idp /\ idp.org /\ ~At(u, "org", "save")'
    BY Zenon, <1>1, <1>6, NoRequestIs DEF SaveOrg, Answer, At, SsoInv, authVars
  <2>2. tenant.state = "live" => tenant'.org = TRUE /\ tenant'.conn = tenant.conn
    BY Zenon, <1>6 DEF SaveOrg, RowShapes
  <2>3. ASSUME Calm' PROVE SsoCore(u)'
    BY Zenon, <1>1, <1>4, <1>5, <2>1, <2>2, <2>3 DEF SsoCore, Calm, RowShapes
  <2> QED BY Zenon, <1>1, <1>4, <2>1, <2>3, SsoCoreStep DEF SsoInv
<1>7. CASE CreateOrganization(u)
  <2>1. tenant' = tenant /\ ~At(u, "org", "save")
    BY Zenon, <1>7 DEF CreateOrganization, At, rowVars
  <2>2. CASE idp.org
    <3>1. idp' = idp /\ ~At(u, "org", "save")'
      BY Zenon, <1>1, <1>7, <2>2, NoRequestIs DEF CreateOrganization, Answer, At
    <3>2. ASSUME Calm' PROVE SsoCore(u)'
      BY Zenon, <1>4, <1>5, <2>1, <3>1, <3>2 DEF SsoCore
    <3> QED BY Zenon, <1>1, <1>4, <3>1, <3>2, SsoCoreStep DEF SsoInv
  <2>3. CASE ~idp.org
    <3>1. PICK done \in BOOLEAN, ok \in BOOLEAN :
             Mgmt(done, ok) /\ idp' = [idp EXCEPT !.org = done] /\ GoOr(u, ok, "save")
      BY Zenon, <1>7, <2>3 DEF CreateOrganization
    <3>2. idp'.org = done /\ idp'.conns = idp.conns /\ idp'.enabled = idp.enabled
      BY Zenon, <3>1 DEF RowShapes
    <3>3. (ok => done) /\ (Calm' => ok)
      BY Zenon, <1>1, <3>1, MgmtCalm
    <3>4. (ok => At(u, "org", "save")') /\ (~ok => ~At(u, "org", "save")')
      BY Zenon, <1>2, <3>1, SsoGoOr DEF At
    <3>5. ASSUME Calm' PROVE SsoCore(u)'
      BY Zenon, <1>4, <1>5, <2>1, <3>2, <3>3, <3>4, <3>5 DEF SsoCore
    <3> QED BY Zenon, <1>1, <1>4, <2>3, <3>2, <3>3, <3>4, <3>5, SsoCoreStep DEF SsoInv
  <2> QED BY Zenon, <2>2, <2>3
<1> QED BY Zenon, <1>6, <1>7

\* A connection is created at Auth0, enabled, then saved in the row.
LEMMA SsoConnect ==
    ASSUME RowShapes, ReqShapes, SsoInv, NEW u \in Users,
           CreateConnection(u) \/ EnableConnectionOnOrg(u) \/ SaveConnection(u)
    PROVE  SsoInv'
<1> DEFINE kind == req[u].arg
<1>1. /\ Proceeds(u) /\ Grows /\ tenant'.state = tenant.state /\ budget' = budget
      /\ DOMAIN req = Users
  BY Zenon, ContinueProceeds, ContinueGrows, ContinueTenant DEF Continue, Grows, ReqShapes
<1>2. req[u].op = "sso" /\ req[u] \in Configuring
  BY Zenon, AtBusy DEF CreateConnection, EnableConnectionOnOrg, SaveConnection, IsRequest
<1>3. kind \in Kinds /\ kind # "none"
  BY Zenon, <1>2 DEF Configuring, Kinds
<1>4. req'[u].op \in {"sso", "none"}
  BY Zenon, <1>1, <1>2, NoRequestIs DEF Proceeds
<1>5. /\ ~At(u, "org", "save") /\ ~At(u, "nosso", "disable") /\ ~At(u, "nosso", "clear")
      /\ ~At(u, "org", "save")' /\ ~At(u, "nosso", "disable")' /\ ~At(u, "nosso", "clear")'
  BY Zenon, <1>2, <1>4 DEF At
<1>6. ASSUME Calm' PROVE Calm /\ SsoCore(u)
  <2>1. Calm /\ \A v \in Users \ {u} : req[v] = NoRequest
    BY <1>1, <1>6, Alone DEF Calm, Grows, Bounds, ReqShapes
  <2> QED BY Zenon, <2>1, SsoCoreHolds
<1> HIDE DEF kind
<1>7. CASE SaveConnection(u)
  <2>1. At(u, "sso", "save") /\ idp' = idp /\ ~At(u, "sso", "save")' /\ ~At(u, "sso", "enable")'
    BY Zenon, <1>1, <1>7, NoRequestIs DEF SaveConnection, Answer, At, authVars
  <2>2. tenant.state = "live" => tenant'.org = tenant.org /\ tenant'.conn = kind
    BY Zenon, <1>7 DEF SaveConnection, RowShapes, kind
  <2>3. ASSUME Calm' PROVE SsoCore(u)'
    <3>1. Calm /\ SsoCore(u) /\ tenant'.org = tenant.org /\ tenant'.conn = kind
      BY Zenon, <1>6, <2>2, <2>3 DEF Calm
    <3>2. kind \in idp.enabled
      BY Zenon, <2>1, <3>1 DEF SsoCore, kind
    <3>3. OneAtMost(idp.conns) => idp.enabled = {kind} \ {"none"}
      BY Zenon, <1>3, <1>5, <3>1, <3>2 DEF SsoCore, kind
    <3> QED BY Zenon, <1>5, <2>1, <3>1, <3>2, <3>3 DEF SsoCore
  <2> QED BY Zenon, <1>1, <1>5, <2>1, <2>3, SsoCoreStep DEF SsoInv
<1>8. CASE CreateConnection(u)
  <2>1. tenant' = tenant /\ ~At(u, "sso", "save") /\ ~At(u, "sso", "enable")
    BY Zenon, <1>8 DEF CreateConnection, At, rowVars
  <2>2. CASE kind \in idp.conns
    <3>1. idp' = idp /\ ~At(u, "sso", "save")' /\ ~At(u, "sso", "enable")'
      BY Zenon, <1>1, <1>8, <2>2, NoRequestIs DEF CreateConnection, Answer, At, kind
    <3>2. ASSUME Calm' PROVE SsoCore(u)'
      BY Zenon, <1>5, <1>6, <2>1, <3>1, <3>2 DEF SsoCore
    <3> QED BY Zenon, <1>1, <1>5, <3>1, <3>2, SsoCoreStep DEF SsoInv
  <2>3. CASE kind \notin idp.conns
    <3>1. PICK done \in BOOLEAN, ok \in BOOLEAN :
             /\ Mgmt(done, ok) /\ GoOr(u, ok, "enable")
             /\ idp' = IF done THEN [idp EXCEPT !.conns = @ \cup {kind}] ELSE idp
      BY Zenon, <1>8, <2>3 DEF CreateConnection, kind
    <3>2. /\ idp'.org = idp.org /\ idp'.enabled = idp.enabled
          /\ idp'.conns = IF done THEN idp.conns \cup {kind} ELSE idp.conns
      BY Zenon, <3>1 DEF RowShapes
    <3>3. (ok => done) /\ (Calm' => ok)
      BY Zenon, <1>1, <3>1, MgmtCalm
    <3>4. /\ ~At(u, "sso", "save")'
          /\ At(u, "sso", "enable")' => ok /\ req'[u].arg = kind
      BY <1>2, <3>1, SsoGoOr DEF At, kind
    <3>5. kind \notin idp.enabled
      BY Zenon, <2>3 DEF SsoInv
    <3>6. ASSUME Calm' PROVE SsoCore(u)'
      <4>1. OneAtMost(idp'.conns) => OneAtMost(idp.conns)
        BY Zenon, <3>2 DEF OneAtMost
      <4> QED BY Zenon, <1>5, <1>6, <2>1, <3>2, <3>4, <3>5, <3>6, <4>1 DEF SsoCore
    <3> QED BY Zenon, <1>1, <1>5, <3>2, <3>3, <3>4, <3>6, SsoCoreStep DEF SsoInv
  <2> QED BY Zenon, <2>2, <2>3
<1>9. CASE EnableConnectionOnOrg(u)
  <2>1. tenant' = tenant /\ At(u, "sso", "enable") /\ ~At(u, "sso", "save")
    BY <1>9 DEF EnableConnectionOnOrg, At, rowVars
  <2>2. kind \in idp.conns
    BY Zenon, <2>1 DEF SsoInv, kind
  <2>3. PICK done \in BOOLEAN, ok \in BOOLEAN :
           /\ Mgmt(done, ok) /\ GoOr(u, ok, "save")
           /\ idp' = IF done THEN [idp EXCEPT !.enabled = @ \cup {kind}] ELSE idp
    BY Zenon, <1>9 DEF EnableConnectionOnOrg, kind
  <2>4. /\ idp'.org = idp.org /\ idp'.conns = idp.conns
        /\ idp'.enabled = IF done THEN idp.enabled \cup {kind} ELSE idp.enabled
    BY Zenon, <2>3 DEF RowShapes
  <2>5. (ok => done) /\ (Calm' => ok)
    BY Zenon, <1>1, <2>3, MgmtCalm
  <2>6. /\ ~At(u, "sso", "enable")'
        /\ ok => At(u, "sso", "save")' /\ req'[u].arg = kind
        /\ At(u, "sso", "save")' => ok
    BY <1>2, <2>3, SsoGoOr DEF At, kind
  <2>7. ASSUME Calm' PROVE SsoCore(u)'
    <3>1. SsoCore(u) /\ idp'.enabled = idp.enabled \cup {kind} /\ ok
      BY Zenon, <1>6, <2>4, <2>5, <2>7
    <3>2. kind \notin idp.enabled
      BY Zenon, <2>1, <3>1 DEF SsoCore, kind
    <3>3. OneAtMost(idp.conns) => idp.enabled = {}
      BY Zenon, <2>2, <3>2 DEF OneAtMost, SsoInv
    <3>4. OneAtMost(idp.conns) => tenant.conn = "none"
      BY Zenon, <1>5, <2>1, <3>1, <3>3 DEF SsoCore
    <3> QED BY Zenon, <1>5, <2>1, <2>4, <2>6, <3>1, <3>3, <3>4 DEF SsoCore
  <2> QED BY Zenon, <1>1, <1>5, <2>2, <2>4, <2>6, <2>7, SsoCoreStep DEF SsoInv
<1> QED BY Zenon, <1>7, <1>8, <1>9

\* The connection of the row is disabled at Auth0, then the row is cleared.
LEMMA SsoDisconnect ==
    ASSUME RowShapes, ReqShapes, SsoInv, NEW u \in Users,
           DisableConnectionOnOrg(u) \/ ClearConnection(u)
    PROVE  SsoInv'
<1>1. /\ Proceeds(u) /\ Grows /\ tenant'.state = tenant.state /\ budget' = budget
      /\ DOMAIN req = Users
  BY Zenon, ContinueProceeds, ContinueGrows, ContinueTenant DEF Continue, Grows, ReqShapes
<1>2. req[u].op = "nosso" /\ req[u] \in Disabling
  BY Zenon, AtBusy DEF DisableConnectionOnOrg, ClearConnection, IsRequest
<1>3. req'[u].op \in {"nosso", "none"}
  BY Zenon, <1>1, <1>2, NoRequestIs DEF Proceeds
<1>4. /\ ~At(u, "org", "save") /\ ~At(u, "sso", "enable") /\ ~At(u, "sso", "save")
      /\ ~At(u, "org", "save")' /\ ~At(u, "sso", "enable")' /\ ~At(u, "sso", "save")'
  BY Zenon, <1>2, <1>3 DEF At
<1>5. ASSUME Calm' PROVE SsoCore(u)
  <2>1. Calm /\ \A v \in Users \ {u} : req[v] = NoRequest
    BY <1>1, <1>5, Alone DEF Calm, Grows, Bounds, ReqShapes
  <2> QED BY Zenon, <2>1, SsoCoreHolds
<1>6. CASE ClearConnection(u)
  <2>1. /\ At(u, "nosso", "clear") /\ idp' = idp
        /\ ~At(u, "nosso", "clear")' /\ ~At(u, "nosso", "disable")'
    BY Zenon, <1>1, <1>6, NoRequestIs DEF ClearConnection, Answer, At, authVars
  <2>2. tenant'.org = tenant.org /\ tenant'.conn = "none"
    BY Zenon, <1>6 DEF ClearConnection, RowShapes
  <2>3. ASSUME Calm' PROVE SsoCore(u)'
    <3>1. OneAtMost(idp.conns) => idp.enabled = {}
      BY Zenon, <1>4, <1>5, <2>1, <2>3 DEF SsoCore
    <3> QED BY Zenon, <1>4, <1>5, <2>1, <2>2, <2>3, <3>1 DEF SsoCore
  <2> QED BY Zenon, <1>1, <1>4, <2>1, <2>3, SsoCoreStep DEF SsoInv
<1>7. CASE DisableConnectionOnOrg(u)
  <2>1. tenant' = tenant /\ At(u, "nosso", "disable") /\ ~At(u, "nosso", "clear")
    BY Zenon, <1>7 DEF DisableConnectionOnOrg, At, rowVars
  <2>2. PICK done \in BOOLEAN, ok \in BOOLEAN :
           /\ Mgmt(done, ok) /\ GoOr(u, ok, "clear")
           /\ idp' = IF done THEN [idp EXCEPT !.enabled = @ \ {req[u].arg}] ELSE idp
    BY Zenon, <1>7 DEF DisableConnectionOnOrg
  <2>3. /\ idp'.org = idp.org /\ idp'.conns = idp.conns
        /\ idp'.enabled = IF done THEN idp.enabled \ {req[u].arg} ELSE idp.enabled
    BY Zenon, <2>2 DEF RowShapes
  <2>4. (ok => done) /\ (Calm' => ok)
    BY Zenon, <1>1, <2>2, MgmtCalm
  <2>5. ~At(u, "nosso", "disable")' /\ (ok => At(u, "nosso", "clear")')
    BY <1>2, <2>2, SsoGoOr DEF At
  <2>6. ASSUME Calm' PROVE SsoCore(u)'
    <3>1. SsoCore(u) /\ idp'.enabled = idp.enabled \ {tenant.conn} /\ ok
      BY Zenon, <1>5, <2>1, <2>3, <2>4, <2>6 DEF SsoCore
    <3>2. OneAtMost(idp.conns) => idp'.enabled = {}
      BY Zenon, <1>4, <2>1, <3>1 DEF SsoCore
    <3> QED BY Zenon, <1>4, <2>1, <2>3, <2>5, <3>1, <3>2 DEF SsoCore
  <2> QED BY Zenon, <1>1, <1>4, <2>3, <2>6, SsoCoreStep DEF SsoInv
<1> QED BY <1>6, <1>7

\* Every step of Tenancy keeps SsoInv.
LEMMA SsoStep ==
    ASSUME Counted, RowShapes, ReqShapes, Unregistered, SsoInv,
           \/ \E u \in Users : Continue(u) \/ Arrive(u) \/ Login(u) \/ CommitErase(u)
           \/ \E i \in Invites : ExpireInvite(i)
    PROVE  SsoInv'
<1>0. used \in [Bounds -> Nat] /\ DOMAIN req = Users
  BY Zenon DEF ReqShapes
<1>1. ASSUME NEW u \in Users, Continue(u)
      PROVE  SsoInv'
  <2>1. CASE \/ CreateOrganization(u) \/ SaveOrg(u) \/ CreateConnection(u)
             \/ EnableConnectionOnOrg(u) \/ SaveConnection(u)
             \/ DisableConnectionOnOrg(u) \/ ClearConnection(u)
    BY Zenon, <2>1, SsoOrg, SsoConnect, SsoDisconnect
  <2>2. CASE \/ SetAuth0(u) \/ InviteChecks(u) \/ InsertInvite(u) \/ AcceptInvite(u)
             \/ RemoveMember(u) \/ ReadSelf(u) \/ LeaveTenant(u)
    <3>1. UNCHANGED <<tenant, idp>>
      BY Zenon, <2>2 DEF SetAuth0, InviteChecks, InsertInvite, AcceptInvite, RemoveMember,
                  ReadSelf, LeaveTenant, rowVars, authVars
    <3>2. SetAuth0(u) => req[u].op \in {"register", "accept"}
      BY Zenon DEF SetAuth0, ReqShapes, IsRequest
    <3>3. req[u].op \notin SsoOps
      BY Zenon, <2>2, <3>2 DEF InviteChecks, InsertInvite, AcceptInvite, RemoveMember,
                  ReadSelf, LeaveTenant, At, SsoOps
    <3>4. Proceeds(u) /\ Grows
      BY Zenon, <1>1, ContinueProceeds, ContinueGrows
    <3>5. req'[u].op \notin SsoOps
      BY Zenon, <3>3, <3>4, NoRequestIs DEF Proceeds, SsoOps
    <3>6. \A v \in Users : \/ req'[v] = req[v]
                           \/ req'[v].op \notin SsoOps /\ req[v].op \notin SsoOps
      BY Zenon, <3>3, <3>4, <3>5 DEF Proceeds, Others
    <3> QED BY Zenon, <1>0, <3>1, <3>4, <3>6, SsoFrame DEF Proceeds
  <2> QED BY Zenon, <1>1, <2>1, <2>2 DEF Continue
<1>2. ASSUME NEW u \in Users, Arrive(u)
      PROVE  SsoInv'
  <2>1. CASE CreateOrg(u) \/ DeleteSso(u) \/ \E kind \in Kinds : ConfigureSso(u, kind)
    BY Zenon, <2>1, SsoArrives
  <2>2. (Arrives(u) \/ Passes) /\ Grows
    BY Zenon, <1>2, ArriveArrives, ArriveGrows
  <2>3. CASE Register(u)
    <3>1. req'[u].op = "register" /\ req[u] = NoRequest
      BY Zenon, <1>0, <2>3 DEF Register, Begin
    <3>2. Arrives(u)
      BY Zenon, <2>2, <3>1, NoRequestIs DEF Passes
    <3>3. /\ idp' = idp /\ tenant'.org = tenant.org /\ tenant'.conn = tenant.conn
      BY Zenon, <2>3 DEF Register, RowShapes, authVars
    <3>4. ~tenant.org /\ tenant.conn = "none" /\ ~idp.org /\ idp.conns = {} /\ idp.enabled = {}
      BY Zenon, <2>3 DEF Register, Unregistered
    <3>5. tenant'.org = idp'.org
      BY Zenon, <3>3, <3>4 DEF RowShapes
    <3>6. SsoCore(u)'
      BY Zenon, <3>1, <3>3, <3>4, <3>5 DEF SsoCore, At
    <3>7. ~At(u, "sso", "enable")' /\ ~At(u, "sso", "save")' /\ ~At(u, "org", "save")'
      BY Zenon, <3>1 DEF At
    <3> QED BY Zenon, <3>2, <3>3, <3>6, <3>7, SsoCoreStep DEF SsoInv
  <2>4. CASE ~(\/ Register(u) \/ CreateOrg(u) \/ DeleteSso(u)
               \/ \E kind \in Kinds : ConfigureSso(u, kind))
    <3>1. UNCHANGED <<tenant, idp>> /\ (~overlap' => ~overlap)
      BY Zenon, <1>2, <2>4 DEF Arrive, CountAdmins, CreateKey, RevokeKey, Invite, PutRole,
             SelectMember, SelectInvite, RevokeInvite, Begin, AtOnce, rowVars, authVars
    <3>2. req' = req \/ (req[u] = NoRequest /\ req'[u].op \notin SsoOps)
      <4>1. CASE CountAdmins(u)
        BY Zenon, <1>0, <4>1 DEF CountAdmins, Begin, SsoOps
      <4>2. ASSUME NEW v \in Users, Invite(u, v) \/ PutRole(u, v) \/ SelectMember(u, v)
            PROVE  req' = req \/ (req[u] = NoRequest /\ req'[u].op \notin SsoOps)
        BY <1>0, <4>2 DEF Invite, PutRole, SelectMember, Begin, AtOnce, SsoOps
      <4>3. ASSUME NEW i \in Invites, SelectInvite(u, i) \/ RevokeInvite(u, i)
            PROVE  req' = req \/ (req[u] = NoRequest /\ req'[u].op \notin SsoOps)
        BY <1>0, <4>3 DEF SelectInvite, RevokeInvite, Begin, AtOnce, SsoOps
      <4>4. CreateKey(u) \/ (\E k \in ApiKeys : RevokeKey(u, k)) => req' = req
        BY Zenon DEF CreateKey, RevokeKey, AtOnce
      <4> QED BY Zenon, <1>2, <2>4, <4>1, <4>2, <4>3, <4>4 DEF Arrive
    <3>3. NoRequest.op \notin SsoOps
      BY Zenon, NoRequestIs DEF SsoOps
    <3>4. \A v \in Users : \/ req'[v] = req[v]
                           \/ req'[v].op \notin SsoOps /\ req[v].op \notin SsoOps
      BY Zenon, <2>2, <3>2, <3>3 DEF Arrives, Passes, Others
    <3> QED BY Zenon, <1>0, <2>2, <3>1, <3>4, SsoFrame
  <2> QED BY Zenon, <2>1, <2>3, <2>4
<1>3. ASSUME NEW u \in Users, Login(u)
      PROVE  SsoInv'
  <2>1. Grows
    BY <1>3, ArriveGrows
  <2> QED BY Zenon, <1>0, <1>3, <2>1, SsoFrame DEF Login, rowVars
<1>4. ASSUME NEW u \in Users, CommitErase(u)
      PROVE  SsoInv'
  <2>1. Proceeds(u) /\ req'[u].op = "none" /\ tenant'.state = "gone" /\ idp' = idp
    BY <1>4, AtBusy, AnswerProceeds, NoRequestIs DEF CommitErase, authVars
  <2>2. ~Calm' /\ ~At(u, "sso", "enable")' /\ ~At(u, "sso", "save")' /\ ~At(u, "org", "save")'
    BY Zenon, <2>1 DEF At, Calm
  <2> QED BY Zenon, <2>1, <2>2, SsoCoreStep DEF SsoInv
<1>5. ASSUME NEW i \in Invites, ExpireInvite(i)
      PROVE  SsoInv'
  <2>1. budget' = budget /\ "periods" \in Bounds /\ Spend("periods")
    BY <1>5 DEF ExpireInvite, authVars, Bounds
  <2>2. Grows
    BY <2>1, SpendGrows
  <2> QED BY <1>0, <1>5, <2>2, SsoFrame DEF ExpireInvite, authVars
<1> QED BY <1>1, <1>2, <1>3, <1>4, <1>5

-----------------------------------------------------------------------------
(* The invariant. *)

TeamStep ==
    \/ \E u \in Users : Continue(u) \/ Arrive(u) \/ Login(u) \/ CommitErase(u)
    \/ \E i \in Invites : ExpireInvite(i)

\* It holds before anybody registered, or with the team that did.
LEMMA TenancyInvInit == TenancyInit => TenancyInv
<1> SUFFICES ASSUME TenancyInit PROVE TenancyInv
  OBVIOUS
<1>1. budget \in Budgets /\ role = budget.team /\ role \in [Users -> Roles \cup {"none"}]
  BY Zenon, TeamAssumption DEF TenancyInit
<1>2. /\ req \in [Users -> {NoRequest}] /\ \A u \in Users : req[u] = NoRequest
      /\ \A u \in Users : \A op, at : op # "none" => ~At(u, op, at)
  BY Zenon, NoRequestIs DEF TenancyInit, At
<1>3. NoInvite \in InviteRec /\ NoInvite.state = "none"
  BY DEF NoInvite, InviteRec, Roles
<1>4. \A u \in Users : [tenant |-> "ours", roles |-> {role[u]}] \in Claims \/ role[u] = "none"
  BY Zenon, <1>1 DEF Claims
<1>5. auth0 \in [Users -> Claims] /\ token = auth0
  BY Zenon, <1>1, <1>4, TeamAssumption DEF TenancyInit
<1>6. tenant \in [state : {"none", "live", "gone"}, org : BOOLEAN, conn : Kinds \cup {"none"}]
      /\ ~tenant.org /\ tenant.conn = "none"
  BY Zenon DEF TenancyInit
<1>7. tenant.state = IF \A u \in Users : role[u] = "none" THEN "none" ELSE "live"
  BY Zenon DEF TenancyInit
<1>8. RowShapes
  BY Zenon, <1>1, <1>3, <1>5, <1>6 DEF TenancyInit, RowShapes
<1>9. ReqShapes
  BY Zenon, <1>1, <1>2, NoRequestIs DEF TenancyInit, ReqShapes
<1>10. Unregistered
  BY ZenonT(30), <1>2, <1>3, <1>5, <1>6, <1>7, TeamAssumption DEF TenancyInit, Unregistered
<1>11. Erased
  BY Zenon, <1>7 DEF Erased
<1>12. InviteInv
  <2>1. \A i \in Invites : invites[i].state = "none" /\ admitted[i] = 0
    BY Zenon, <1>3 DEF TenancyInit
  <2>2. \A u \in Users : ~At(u, "accept", "insert") /\ ~At(u, "invite", "insert")
    BY <1>2
  <2> QED BY <2>1, <2>2 DEF InviteInv
<1>13. LeaveInv
  BY Zenon, <1>1, <1>2, <1>7, TeamAssumption DEF LeaveInv, Admins, At, NoRequest
<1>14. SsoInv
  BY Zenon, <1>2, <1>6 DEF TenancyInit, SsoInv, At, NoRequest, OneAtMost
<1> QED BY <1>8, <1>9, <1>10, <1>11, <1>12, <1>13, <1>14 DEF TenancyInv

\* The gateway's routes keep it.
LEMMA TeamStepInv ==
    ASSUME Counted, TenancyInv, TeamStep
    PROVE  TenancyInv' /\ Grows
<1> USE DEF TenancyInv
<1>1. ASSUME NEW u \in Users, CommitErase(u)
      PROVE  Proceeds(u) /\ Grows
  <2>1. UNCHANGED <<budget, used>>
    BY Zenon, <1>1 DEF CommitErase, authVars
  <2> QED BY Zenon, <1>1, <2>1, AtBusy, AnswerProceeds, SpendGrows DEF CommitErase
<1>2. ASSUME NEW i \in Invites, ExpireInvite(i)
      PROVE  Still /\ Grows
  <2>1. budget' = budget /\ "periods" \in Bounds /\ Spend("periods")
    BY Zenon, <1>2 DEF ExpireInvite, authVars, Bounds
  <2> QED BY Zenon, <1>2, <2>1, SpendGrows DEF ExpireInvite, Still
<1>3. ASSUME NEW u \in Users, Login(u)
      PROVE  Still /\ Grows
  BY Zenon, <1>3, ArriveGrows DEF Login, Still
<1>4. Grows
  BY Zenon, <1>1, <1>2, <1>3, ContinueGrows, ArriveGrows DEF TeamStep
<1>5. Passes \/ Still \/ \E u \in Users : Arrives(u) \/ Proceeds(u)
  BY Zenon, <1>1, <1>2, <1>3, ContinueProceeds, ArriveArrives DEF TeamStep
<1>6. ReqShapes'
  BY Zenon, <1>4, <1>5, ReqShapesStep
<1>7. RowShapes'
  BY Zenon, ContinueShapes, ArriveShapes, OtherShapes DEF TeamStep
<1>8. Unregistered' /\ Erased'
  BY Zenon, UnregisteredStep, ErasedStep DEF TeamStep
<1>9. InviteInv' /\ LeaveInv' /\ SsoInv'
  BY Zenon, InviteStep, LeaveStep, SsoStep DEF TeamStep
<1> QED BY Zenon, <1>4, <1>6, <1>7, <1>8, <1>9

\* So does a gateway that stops: what its requests knew is gone with them.
LEMMA StopGatewayInv ==
    ASSUME TenancyInv, StopGateway
    PROVE  TenancyInv' /\ Grows
<1> USE DEF TenancyInv
<1>1. /\ UNCHANGED <<tenant, role, invites, admitted, apiKeys, auth0, token, idp, budget>>
      /\ overlap' = overlap /\ req' = [u \in Users |-> NoRequest]
  BY DEF StopGateway, rowVars, authVars
<1>2. Grows /\ used'["faults"] > 0
  <2>1. Spend("faults") /\ "faults" \in Bounds /\ MayFail(FALSE)
    BY Zenon DEF StopGateway, Bounds, MayFail
  <2> QED BY Zenon, <1>1, <2>1, SpendGrows
<1>3. RowShapes'
  BY Zenon, <1>1 DEF RowShapes
<1>4. ReqShapes'
  <2>1. \A u \in Users : req'[u] = NoRequest /\ IsRequest(req'[u])
    BY Zenon, <1>1, NoRequestIs
  <2>2. budget \in Budgets /\ used' \in [Bounds -> Nat] /\ overlap \in BOOLEAN
    BY Zenon, <1>2 DEF ReqShapes, Grows
  <2> QED BY Zenon, <1>1, <2>1, <2>2 DEF ReqShapes
<1>5. Unregistered'
  BY Zenon, <1>1 DEF Unregistered
<1>6. Erased'
  BY Zenon, <1>1 DEF Erased
<1>7. InviteInv'
  BY Zenon, <1>1, NoRequestIs, InviteFrame DEF NotNew
<1>8. LeaveInv'
  BY Zenon, <1>1, NoRequestIs, LeaveFrame
<1>9. SsoInv'
  BY Zenon, <1>1, <1>2, NoRequestIs, SsoFrame DEF SsoOps, ReqShapes
<1> QED BY Zenon, <1>2, <1>3, <1>4, <1>5, <1>6, <1>7, <1>8, <1>9

\* Such a step keeps the invariant of the tenant.
LEMMA ShopStepInv ==
    ASSUME TenancyInv, UNCHANGED <<rowVars, authVars>>, Grows, ShopMoves
    PROVE  TenancyInv'
<1> USE DEF TenancyInv
<1>1. UNCHANGED <<tenant, role, invites, admitted, apiKeys, auth0, token, idp, budget>>
  BY Zenon DEF rowVars, authVars
<1>2. (~overlap' => ~overlap) /\ used \in [Bounds -> Nat]
  BY Zenon DEF ShopMoves, Passes, Still, Arrives, Proceeds, Crowded, ReqShapes
<1>3. ASSUME NEW v \in Users
      PROVE  \/ req'[v] = req[v]
             \/ req'[v].op \in ShopOps \cup {"none"} /\ req[v].op \in ShopOps \cup {"none"}
             \/ At(v, "leave", "erase") /\ At(v, "leave", "commit")'
  BY Zenon, NoRequestIs DEF ShopMoves, Passes, Still, Arrives, Proceeds, Others
<1>4. RowShapes'
  BY Zenon, <1>1 DEF RowShapes
<1>5. ReqShapes'
  BY Zenon, ReqShapesStep DEF ShopMoves
<1>6. Unregistered'
  BY Zenon, <1>1 DEF Unregistered, ShopMoves, Passes, Still, Arrives, Proceeds, InTenant
<1>7. Erased'
  BY Zenon, <1>1 DEF Erased
<1>8. InviteInv'
  <2>1. NotNew({"invite", "accept"})
    BY Zenon, <1>3 DEF NotNew, ShopOps, At
  <2> QED BY Zenon, <1>1, <1>2, <2>1, InviteFrame
<1>9. LeaveInv'
  BY Zenon, <1>1, <1>2, <1>3, LeaveFrame DEF ShopOps
<1>10. SsoInv'
  <2>1. \A v \in Users : \/ req'[v] = req[v]
                         \/ req'[v].op \notin SsoOps /\ req[v].op \notin SsoOps
    BY Zenon, <1>3 DEF ShopOps, SsoOps, At
  <2> QED BY Zenon, <1>1, <1>2, <2>1, SsoFrame
<1> QED BY Zenon, <1>4, <1>5, <1>6, <1>7, <1>8, <1>9, <1>10

\* The tenant is erased by its only admin, where roles do not change under a
\* deletion that is under way.
LEMMA ErasedByLast ==
    ASSUME TenancyInv, NEW u \in Users, CommitErase(u), Deliberate'
    PROVE  Cardinality(Admins) = 1
<1>1. Deliberate /\ At(u, "leave", "commit")
  BY Zenon DEF CommitErase, Deliberate, authVars
<1> QED BY Zenon, <1>1 DEF TenancyInv, LeaveInv

\* They are all quiet but the erasure of the tenant.
LEMMA TeamQuiet ==
    ASSUME Counted, TenancyInv,
           \/ \E u \in Users : Continue(u) \/ Arrive(u) \/ Login(u)
           \/ \E i \in Invites : ExpireInvite(i)
           \/ StopGateway
    PROVE  TenancyInv' /\ Quiet
<1> USE DEF TenancyInv
<1>0. TenancyInv' /\ Grows /\ DOMAIN req = Users
  BY Zenon, TeamStepInv, StopGatewayInv DEF TeamStep, ReqShapes
<1>1. ASSUME NEW u \in Users, Continue(u)
      PROVE  Quiet
  <2>1. Proceeds(u) /\ tenant'.state = tenant.state
    BY Zenon, <1>1, ContinueProceeds, ContinueTenant
  <2>2. SetAuth0(u) => req[u].op \in {"register", "accept"}
    BY Zenon DEF SetAuth0, ReqShapes, IsRequest
  <2>3. req[u].op \notin ShopOps
    BY Zenon, <1>1, <2>2 DEF Continue, InviteChecks, InsertInvite, AcceptInvite, RemoveMember,
         ReadSelf, LeaveTenant, CreateOrganization, CreateConnection,
         EnableConnectionOnOrg, DisableConnectionOnOrg, SaveOrg, SaveConnection,
         ClearConnection, At, ShopOps
  <2>4. req'[u].op \notin ShopOps
    BY Zenon, <2>1, <2>3, NoRequestIs DEF Proceeds, ShopOps
  <2>5. ~At(u, "leave", "commit")'
    <3>1. CASE req[u].op # "leave"
      BY Zenon, <2>1, <3>1, NoRequestIs DEF Proceeds, At
    <3>2. CASE req[u].op = "leave"
      <4>1. ReadSelf(u) \/ LeaveTenant(u)
        BY Zenon, <1>1, <2>2, <3>2 DEF Continue, InviteChecks, InsertInvite, AcceptInvite,
             RemoveMember, CreateOrganization, CreateConnection,
             EnableConnectionOnOrg, DisableConnectionOnOrg, SaveOrg, SaveConnection,
             ClearConnection, At
      <4>2. req[u] \in Leaving
        BY Zenon, <3>2 DEF ReqShapes, IsRequest
      <4>3. [req[u] EXCEPT !.at = "erase"].at = "erase"
            /\ [req[u] EXCEPT !.at = "delete"].at = "delete"
        BY Zenon, <4>2 DEF Leaving
      <4>4. \/ req'[u] = NoRequest \/ req'[u] = [req[u] EXCEPT !.at = "erase"]
            \/ req'[u] = [req[u] EXCEPT !.at = "delete"]
        BY Zenon, <1>0, <4>1 DEF ReadSelf, LeaveTenant, GoOr, Go, Answer
      <4> QED BY Zenon, <4>3, <4>4, NoRequestIs DEF At
    <3> QED BY Zenon, <3>1, <3>2
  <2> QED BY Zenon, <1>0, <2>1, <2>4, <2>5 DEF Quiet, Proceeds, Others
<1>2. ASSUME NEW u \in Users, Arrive(u)
      PROVE  Quiet
  <2>1. /\ Arrives(u) \/ Passes
        /\ tenant'.state = tenant.state \/ (tenant.state = "none" /\ tenant'.state = "live")
    <3>1. Register(u) => tenant.state = "none" /\ tenant'.state = "live"
      BY Zenon DEF Register, RowShapes
    <3> QED BY Zenon, <1>2, <3>1, ArriveArrives, ArriveUnregistered
  <2>2. req' = req \/ (req'[u].op \notin ShopOps /\ ~At(u, "leave", "commit")')
    <3>0. ASSUME NEW op, NEW at, NEW arg, NEW seen, Begin(u, op, at, arg, seen),
                 op \notin {"none", "checkout", "devices"}, at # "commit"
          PROVE  req'[u].op \notin ShopOps /\ ~At(u, "leave", "commit")'
      BY Zenon, <1>0, <3>0, BeginIs DEF ShopOps, At
    <3>1. CASE \/ Register(u) \/ CountAdmins(u) \/ CreateOrg(u) \/ DeleteSso(u)
               \/ \E kind \in Kinds : ConfigureSso(u, kind)
      <4>1. \/ Begin(u, "register", "auth0", "admin", 0)
            \/ Begin(u, "leave", "self", "none", Cardinality(Admins))
            \/ Begin(u, "org", "create", "none", 0)
            \/ Begin(u, "nosso", "disable", tenant.conn, 0)
            \/ \E kind \in Kinds : Begin(u, "sso", "create", kind, 0)
        BY Zenon, <3>1 DEF Register, CountAdmins, CreateOrg, DeleteSso, ConfigureSso
      <4> QED BY Zenon, <3>0, <4>1
    <3>2. CASE \E v \in Users : Invite(u, v) \/ PutRole(u, v) \/ SelectMember(u, v)
      <4>1. \/ \E v \in Users : Begin(u, "invite", "member", v, 0)
                               \/ Begin(u, "remove", "delete", v, 0)
            \/ req' = req
        BY Zenon, <3>2 DEF Invite, PutRole, SelectMember, AtOnce
      <4> QED BY Zenon, <3>0, <4>1
    <3>3. CASE \E i \in Invites : SelectInvite(u, i) \/ RevokeInvite(u, i)
      <4>1. (\E i \in Invites : Begin(u, "accept", "insert", i, 0)) \/ req' = req
        BY Zenon, <3>3 DEF SelectInvite, RevokeInvite, AtOnce
      <4> QED BY Zenon, <3>0, <4>1
    <3>4. CreateKey(u) \/ (\E k \in ApiKeys : RevokeKey(u, k)) => req' = req
      BY Zenon DEF CreateKey, RevokeKey, AtOnce
    <3> QED BY Zenon, <1>2, <3>1, <3>2, <3>3, <3>4 DEF Arrive
  <2> QED BY Zenon, <1>0, <2>1, <2>2 DEF Quiet, Arrives, Passes, Others, Crowded
<1>3. ASSUME NEW u \in Users, Login(u)
      PROVE  Quiet
  BY Zenon, <1>0, <1>3 DEF Login, Quiet, rowVars
<1>4. ASSUME NEW i \in Invites, ExpireInvite(i)
      PROVE  Quiet
  BY Zenon, <1>0, <1>4 DEF ExpireInvite, Quiet
<1>5. ASSUME StopGateway
      PROVE  Quiet
  BY Zenon, <1>0, <1>5, NoRequestIs DEF StopGateway, Quiet, rowVars, ShopOps, At
<1> QED BY Zenon, <1>0, <1>1, <1>2, <1>3, <1>4, <1>5
====
