------------------------------ MODULE RateLimit ------------------------------
(***************************************************************************)
(* RateLimitMiddleware of core/middleware.py: the counters in Redis that   *)
(* all requests of all API processes share.  A counter belongs to a client *)
(* address and to the login path or to all other paths.  A request sends   *)
(* up to three commands, each of them an await:                            *)
(*   Incr       INCR, whose answer decides whether the request is refused; *)
(*   ExpireKey  EXPIRE, only by the request that read 1;                   *)
(*   Answer     TTL for the headers; then 429 or the handler.              *)
(* Time passes in ticks.  A process may die, or lose Redis, between two    *)
(* commands, and Redis may restart without its data.                       *)
(***************************************************************************)
EXTENDS Naturals

CONSTANTS
    Requests,
    Keys,      \* rl:login:<ip> and rl:default:<ip>
    Limit,     \* of each key
    Window,    \* the 60 seconds, in ticks
    MaxRestarts

ASSUME LimitAssumption == Limit \in [Keys -> Nat \ {0}]
ASSUME WindowAssumption == Window \in Nat \ {0}
ASSUME MaxRestartsAssumption == MaxRestarts \in Nat

VARIABLES
    count,    \* the counter of a key, 0 when Redis has no such key; a counter
              \* over the limit stays one over it, which is all that is told apart
    ttl,      \* ticks until the key expires, 0 when it has no expiry
    req,      \* the key a request counts on, and whether it has still to set
              \* the expiry
    restarts, \* of Redis
    admitted, \* history: the requests let in, by the tick of the last Window
    forgone   \* history: keys whose expiry a request did not live to set

limiterVars == <<count, ttl, req, restarts, admitted, forgone>>

Idle == [at |-> "idle"]
InFlight == [at : {"expire", "answer"}, key : Keys]

LimiterTypeOK ==
    /\ \A k \in Keys : count[k] \in 0..(Limit[k] + 1) /\ ttl[k] \in 0..Window
    /\ req \in [Requests -> InFlight \cup {Idle}]
    /\ restarts \in 0..MaxRestarts
    /\ admitted \in [Keys -> [1..Window -> Nat]]
    /\ forgone \subseteq Keys

LimiterInit ==
    /\ count = [k \in Keys |-> 0]
    /\ ttl = [k \in Keys |-> 0]
    /\ req = [q \in Requests |-> Idle]
    /\ restarts = 0
    /\ admitted = [k \in Keys |-> [n \in 1..Window |-> 0]]
    /\ forgone = {}

-----------------------------------------------------------------------------
\* Mutant: one request more than the limit is let in.
AdmittedOneMore(k, current) == current <= Limit[k] + 1

Admitted(k, current) == current <= Limit[k]

\* Mutant: every request sets the expiry anew.
SetsExpiryAlways(current) == TRUE

\* Mutant: INCR is taken to answer with the value before it.
SetsExpiryNever(current) == current = 0

SetsExpiry(current) == current = 1

\* INCR creates the key with 1 when it is not there.
Incr(q, k) ==
    LET current == count[k] + 1
    IN  /\ req[q] = Idle
        /\ count' = [count EXCEPT ![k] = IF current <= Limit[k] + 1 THEN current ELSE @]
        /\ req' = [req EXCEPT ![q] =
                      [at |-> IF SetsExpiry(current) THEN "expire" ELSE "answer",
                       key |-> k]]
        /\ admitted' = IF Admitted(k, current)
                         THEN [admitted EXCEPT ![k][1] = @ + 1] ELSE admitted
        /\ UNCHANGED <<ttl, restarts, forgone>>

\* EXPIRE of a key that is gone does nothing.
ExpireKey(q) ==
    LET k == req[q].key
    IN  /\ req[q].at = "expire"
        /\ ttl' = IF count[k] > 0 THEN [ttl EXCEPT ![k] = Window] ELSE ttl
        /\ req' = [req EXCEPT ![q].at = "answer"]
        /\ forgone' = forgone \ {k}
        /\ UNCHANGED <<count, restarts, admitted>>

Answer(q) ==
    /\ req[q].at = "answer"
    /\ req' = [req EXCEPT ![q] = Idle]
    /\ UNCHANGED <<count, ttl, restarts, admitted, forgone>>

\* The process dies or is refused by Redis: the next command is not sent.
Die(q) ==
    /\ req[q] # Idle
    /\ forgone' = IF req[q].at = "expire" THEN forgone \cup {req[q].key} ELSE forgone
    /\ req' = [req EXCEPT ![q] = Idle]
    /\ UNCHANGED <<count, ttl, restarts, admitted>>

\* Redis comes back empty; the requests in flight go on with a new connection.
RedisRestarts ==
    /\ restarts < MaxRestarts
    /\ restarts' = restarts + 1
    /\ count' = [k \in Keys |-> 0]
    /\ ttl' = [k \in Keys |-> 0]
    /\ forgone' = {}
    /\ UNCHANGED <<req, admitted>>

\* A tick passes; keys whose time is up are gone.
LimiterTick ==
    LET gone == {k \in Keys : ttl[k] = 1}
    IN  /\ ttl' = [k \in Keys |-> IF ttl[k] > 0 THEN ttl[k] - 1 ELSE 0]
        /\ count' = [k \in Keys |-> IF k \in gone THEN 0 ELSE count[k]]
        /\ admitted' = [k \in Keys |-> [n \in 1..Window |->
                            IF n = 1 THEN 0 ELSE admitted[k][n - 1]]]
        /\ UNCHANGED <<req, restarts, forgone>>

RequestStep(q) == ExpireKey(q) \/ Answer(q)

LimiterNext ==
    \/ \E q \in Requests : (\E k \in Keys : Incr(q, k)) \/ RequestStep(q) \/ Die(q)
    \/ RedisRestarts
    \/ LimiterTick

\* Time passes and a request that has begun goes on; clients owe nothing.
Fairness == WF_limiterVars(LimiterTick) /\ \A q \in Requests : WF_limiterVars(RequestStep(q))

LimiterSpec == LimiterInit /\ [][LimiterNext]_limiterVars /\ Fairness

-----------------------------------------------------------------------------
(* Properties. *)

\* What the last n ticks let in, given what each of them did.
Sum(f) ==
    LET sum[n \in 0..Window] == IF n = 0 THEN 0 ELSE sum[n - 1] + f[n]
    IN  sum

\* The window is a fixed one that starts with a client's first request, so that
\* any span of Window ticks lets in twice the limit at most, and one limit more
\* for each restart of Redis: the limiter is no sliding window
\* (middleware.py:122), but it bounds what a client gets in.
BurstBounded ==
    \A k \in Keys : Sum(admitted[k])[Window] <= (2 + restarts) * Limit[k]

\* docs/runbooks/backup-restore.md:127, "Rate-limit keys expire within 60 seconds":
\* a counter without an expiry has a request about to set it, or one that did not
\* live to.
CountersExpire ==
    \A k \in Keys :
        count[k] > 0 /\ ttl[k] = 0 =>
            k \in forgone \/ \E q \in Requests : req[q] = [at |-> "expire", key |-> k]

\* A client that is refused is let in again, however many requests it goes on
\* sending, unless the expiry of its counter has been lost.
RefusedGetIn ==
    \A k \in Keys : count[k] > Limit[k] ~> count[k] = 0 \/ k \in forgone
=============================================================================
