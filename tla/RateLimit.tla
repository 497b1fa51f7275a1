----------------------------- MODULE RateLimit -----------------------------
(***************************************************************************)
(* The gateway's rate limiter: a Redis sorted set of the passes an address *)
(* made within the window.  Every limiter uses the address's one set, and  *)
(* a limiter that a router applies to all its paths also counts the        *)
(* requests that only pass through on their way to a later router.         *)
(***************************************************************************)
EXTENDS Naturals, Sequences, FiniteSets, Bags

CONSTANTS
    Window,   \* windowSeconds in ticks
    ApiMax,   \* maxRequests of apiRateLimiter
    BulkMax   \* maxRequests of bulkRateLimiter

ASSUME WindowAssumption == Window \in Nat \ {0}

VARIABLES
    passes,   \* the sorted set, as a bag: which handler passed a limiter, and when
    clock     \* Date.now() in ticks, from 1

limitVars == <<passes, clock>>

\* The routers with a limiter of their own in the order the server mounts
\* them.  alertRulesRouter, without one, comes between sso and devices.
RouterOrder == <<"webhooks", "keys", "settings", "team", "sso", "devices">>

\* The limiters on the way to a page's routes, which come before the login is
\* checked, so that the address is what identifies the request.
Limiters(page) ==
    LET upTo == CASE page = "rules" -> "sso"
                  [] page = "import" -> "devices"
                  [] OTHER -> page
        own == [i \in 1 .. CHOOSE i \in DOMAIN RouterOrder : RouterOrder[i] = upTo
                    |-> ApiMax]
    IN IF page = "import" THEN Append(own, BulkMax) ELSE own

\* Variant: nothing is ever removed.
TrimNothing(s) == s

\* zremrangebyscore(key, 0, windowStart)
Trim(s) == [p \in {p \in BagToSet(s) : p.at + Window > clock} |-> s[p]]

LimitInit == passes = EmptyBag /\ clock = 1

\* The pipeline's first half, as seen by one request: trim, then zcard.
CountPasses == passes' = Trim(passes) /\ UNCHANGED clock

\* Its second half: zadd, whether or not the request is refused.
AddPass(by, now) ==
    passes' = passes (+) SetToBag({[by |-> by, at |-> now]}) /\ UNCHANGED clock

Exceeded(seen, max) == BagCardinality(seen) >= max
====
