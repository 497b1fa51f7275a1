----------------------------- MODULE MCBilling -----------------------------
(* Instances of Billing for TLC.  Every behaviour has one of the budgets.     *)
EXTENDS Billing

MCLimits == [starter |-> 2, enterprise |-> -1]

\* Users outside the team have an account with another tenant.
MCOutsiders == [u \in Users |-> [tenant |-> "other", roles |-> {}]]

Nobody == [u \in Users |-> "none"]
TwoAdmins == [u \in Users |-> "admin"]
AdminAnd(other) ==
    LET a == CHOOSE u \in Users : TRUE
    IN [u \in Users |-> IF u = a THEN "admin" ELSE other]

Budget(team, ops, workers, nested, requests, faults, logins, evts, periods) ==
    [team |-> team, ops |-> ops, workers |-> workers, nested |-> nested,
     requests |-> requests, faults |-> faults, logins |-> logins,
     events |-> evts, periods |-> periods]

OneWorker == {CHOOSE w \in Workers : TRUE}

MCBudgets ==
    {\* registration that Auth0 may miss
     Budget(Nobody, {"register", "invite"}, {}, FALSE, 2, 1, 1, 0, 0),
     \* invites sent, taken, revoked and expired; the only admin leaves
     Budget(AdminAnd("none"), {"invite", "accept", "revoke", "leave", "keys"},
            {}, FALSE, 4, 0, 1, 0, 1),
     \* two admins remove each other, change roles, leave
     Budget(TwoAdmins, {"leave", "remove", "role"}, {}, FALSE, 4, 1, 0, 0, 0),
     \* single sign-on set up, switched and removed
     Budget(TwoAdmins, {"org", "sso", "nosso"}, {}, FALSE, 5, 1, 0, 0, 0),
     \* the subscription changes, its devices follow
     Budget(AdminAnd("none"), {"checkout", "devices"}, OneWorker, FALSE, 2, 0, 0, 3, 0),
     \* a period passes
     Budget(AdminAnd("none"), {"checkout"}, OneWorker, FALSE, 1, 0, 0, 3, 1),
     \* one worker fails twice, payloads are nested
     Budget(AdminAnd("none"), {"checkout"}, OneWorker, TRUE, 1, 2, 0, 2, 0),
     \* two workers and a fault
     Budget(AdminAnd("none"), {"checkout"}, Workers, FALSE, 1, 1, 0, 2, 0),
     \* two admins create and delete devices
     Budget(TwoAdmins, {"devices", "delete"}, {}, FALSE, 4, 0, 0, 0, 0),
     \* the quota check or a row fails
     Budget(TwoAdmins, {"devices"}, {}, FALSE, 2, 1, 0, 0, 0),
     \* the tenant is erased, the quota check or a row fails
     Budget(AdminAnd("member"), {"leave", "devices"}, {}, FALSE, 3, 1, 0, 0, 0),
     \* the tenant is erased under requests and events
     Budget(AdminAnd("member"), {"leave", "checkout", "devices"}, OneWorker,
            FALSE, 3, 0, 0, 1, 0)}

\* One checkout and its event.
OneEvent == {Budget(AdminAnd("none"), {"checkout"}, OneWorker, FALSE, 1, 0, 0, 1, 0)}
====
