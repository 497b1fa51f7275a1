---------------------------- MODULE MCAlertJobs ----------------------------
(* Instances of AlertJobs for TLC. *)
EXTENDS AlertJobs

Risk(i, l) == [id |-> i, device |-> "d1", level |-> l]

\* A score, a worse one of the same device, the first repeated, a safe one.
RepeatedTopic == <<Risk("e1", "warn"), Risk("e2", "critical"),
                   Risk("e1", "warn"), Risk("e3", "safe")>>
TwoRecipients == <<"ann", "bob">>
OneRecipient == <<"ann">>
OneEndpoint == {"hook"}

\* Nobody set preferences, or one recipient wants only critical alerts.
DefaultOrCritical ==
    {[r \in Range1(Recipients) |-> NoRow],
     [r \in Range1(Recipients) |->
        [alerts |-> TRUE, digest |-> TRUE, levels |-> {"critical"}]]}

OneExport == {<<"exports", <<"export", "x1">>>>, <<"emails", Malformed>>}
MCRetries == [alerts |-> 2, emails |-> 2, webhooks |-> 2, exports |-> 2]

Budget(events, jobs, ticks, restarts, digests, edits, failures, faults) ==
    [events |-> events, jobs |-> jobs, ticks |-> ticks, restarts |-> restarts,
     digests |-> digests, edits |-> edits, failures |-> failures,
     faults |-> faults]

MCBudgets ==
    {Budget(1, 0, 0, 0, 0, 0, 3, 1),    \* one alert and a fault anywhere
     Budget(4, 0, 2, 0, 0, 0, 0, 0),    \* repetitions, and time for them to count
     Budget(2, 0, 0, 1, 0, 0, 1, 0),    \* a restart that forgets the first alert
     Budget(0, 2, 0, 0, 1, 0, 3, 1),    \* an export, an unreadable message, a digest
     Budget(1, 0, 0, 0, 0, 1, 2, 0)}    \* settings edited on the way
====
