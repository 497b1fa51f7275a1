---------------------------- MODULE MCDashboard ----------------------------
(***************************************************************************)
(* The dashboard's pages on small instances.  A budget says which page     *)
(* each open tab shows and how many clicks, faults and ticks happen.       *)
(***************************************************************************)
EXTENDS Dashboard

CONSTANTS T1, T2

Scenario(page, clicks, faults, ticks, limited) ==
    [page |-> page, clicks |-> clicks, faults |-> faults, ticks |-> ticks,
     limited |-> limited]

Pages == {"rules", "webhooks", "keys", "team", "settings", "sso", "import"}

\* One tab: two clicks that may overlap, and one fault anywhere.
OneTab == {Scenario(T1 :> p, 2, 1, 0, FALSE) : p \in Pages}

\* Two tabs on one page, and a login that fails.
TwoTabs == {Scenario(T1 :> p @@ T2 :> p, 2, 0, 0, FALSE) : p \in Pages \ {"import"}}
Logins == {Scenario(T1 :> p, 1, 2, 0, FALSE) : p \in {"rules", "team", "import"}}

\* Uploads among other requests of the address, counted by the limiters.
Limited == {Scenario(T1 :> "import" @@ T2 :> "rules", 1, 0, 1, TRUE),
            Scenario(T1 :> "import", 2, 0, 1, TRUE),
            Scenario(T1 :> "import", 1, 1, 0, TRUE)}

MCBudgets == OneTab \cup TwoTabs \cup Logins \cup Limited
====
