----------------------------- MODULE RateLimit -----------------------------
(***************************************************************************)
(* The limit of an endpoint of auth_router.py (@limiter.limit: sign-ins    *)
(* 10, refreshes 20 per minute).  The limiter counts in the memory of the  *)
(* worker that got the request, per client address, by the default         *)
(* strategy of slowapi: a window opens with the first request and ends a   *)
(* period later; requests beyond the limit are counted but do not prolong  *)
(* it.  The workers (start.sh: --workers 2) share nothing.  Time passes in *)
(* ticks, of which a minute has Period.                                    *)
(***************************************************************************)
EXTENDS Naturals

CONSTANTS
    Workers,
    Addresses,  \* what get_remote_address finds: of a client, or of a proxy
    Limit,
    Period      \* ticks

ASSUME RateLimitAssumption ==
    /\ Limit \in Nat \ {0}
    /\ Period \in Nat \ {0}

Counters == Workers \X Addresses
Recent == 1 .. 2 * Limit

VARIABLES
    hits,     \* hits[c]: requests counted in the window; Limit + 1 stands for more
    expires,  \* ticks until the window ends, 0 if there is none
    served    \* history: served[c][n], how long ago the n-th latest request was let
              \* through, Period if longer ago or never

vars == <<hits, expires, served>>

TypeOK ==
    /\ hits \in [Counters -> 0 .. Limit + 1]
    /\ expires \in [Counters -> 0 .. Period]
    /\ served \in [Counters -> [Recent -> 0 .. Period]]

Init ==
    /\ hits = [c \in Counters |-> 0]
    /\ expires = [c \in Counters |-> 0]
    /\ served = [c \in Counters |-> [n \in Recent |-> Period]]

----------------------------------------------------------------------------

Capped(n) == IF n > Limit THEN Limit + 1 ELSE n

\* A request that is let through becomes the latest.
Latest(ages) == [n \in Recent |-> IF n = 1 THEN 0 ELSE ages[n - 1]]

Older(age) == IF age = Period THEN Period ELSE age + 1

\* The request is counted in a window that ends in so many ticks, and then
\* compared with the limit.
Admit(c, ticks) ==
    /\ hits' = [hits EXCEPT ![c] = Capped(@ + 1)]
    /\ expires' = [expires EXCEPT ![c] = ticks]
    /\ served' = [served EXCEPT ![c] = IF hits[c] < Limit THEN Latest(@) ELSE @]

\* Mutant of Hit: a new window is a tick too long.
HitLongWindow(c) == Admit(c, IF expires[c] = 0 THEN Period + 1 ELSE expires[c])

\* Mutant of Hit: a new window ends one tick early.
HitShortWindow(c) == Admit(c, IF expires[c] = 0 THEN Period - 1 ELSE expires[c])

\* Mutant of Hit: every request opens the window anew.
HitProlongs(c) == Admit(c, Period)

\* A request from an address reaches a worker, and is let through or answered
\* with 429; it opens a window if there is none.
Hit(c) == Admit(c, IF expires[c] = 0 THEN Period ELSE expires[c])

Tick ==
    /\ expires' = [c \in Counters |-> IF expires[c] = 0 THEN 0 ELSE expires[c] - 1]
    /\ hits' = [c \in Counters |-> IF expires[c] <= 1 THEN 0 ELSE hits[c]]
    /\ served' = [c \in Counters |-> [n \in Recent |-> Older(served[c][n])]]

\* uvicorn replaces a worker that has died; its counts are gone.
Restart(w) ==
    /\ hits' = [c \in Counters |-> IF c[1] = w THEN 0 ELSE hits[c]]
    /\ expires' = [c \in Counters |-> IF c[1] = w THEN 0 ELSE expires[c]]
    /\ served' = [c \in Counters |-> IF c[1] = w THEN [n \in Recent |-> Period] ELSE served[c]]

Next == (\E c \in Counters : Hit(c)) \/ Tick \/ \E w \in Workers : Restart(w)

\* Time passes.
Spec == Init /\ [][Next]_vars /\ WF_vars(Tick)

----------------------------------------------------------------------------

\* Across the edge of two windows, no address gets 2 * Limit requests through
\* one worker within a period: of so many in a row, the first is a period old
\* by the time of the last (@limiter.limit counts by fixed windows).
BurstBounded == \A c \in Counters : served[c][2 * Limit] = Period

\* A client that is refused, and keeps trying, is let through again: its
\* attempts do not keep the window open.
RefusedGetsThrough ==
    \A c \in Counters : hits[c] >= Limit ~> hits[c] = 0
=============================================================================
