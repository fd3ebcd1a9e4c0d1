----------------------------- MODULE AuthSessions -----------------------------
(***************************************************************************)
(* Login, logout, tenant switch and password reset of one account: the     *)
(* handlers of auth/router.py with the service functions they call.        *)
(* Accounts are independent, since no statement of these functions touches *)
(* the rows of two users.                                                  *)
(*                                                                         *)
(* Each request reads in one statement and commits later, under READ       *)
(* COMMITTED and without SELECT ... FOR UPDATE: the row locks of its       *)
(* UPDATEs only order the commits.  So a request is two actions, and the   *)
(* requests of other API workers run in between.  A request that fails     *)
(* commits nothing.                                                        *)
(***************************************************************************)
EXTENDS Naturals, FiniteSets

CONSTANTS
    Requests,   \* requests in flight at once
    Sessions,   \* pool of session rows (bound: how many are ever created)
    Tokens,     \* pool of reset tokens (bound: how many are ever created)
    Passwords,
    ResetLimit  \* _RESET_RATE_LIMIT

ASSUME RequestsAssumption == IsFiniteSet(Requests) /\ Requests # {}
ASSUME TokensAssumption == IsFiniteSet(Tokens)
ASSUME ResetLimitAssumption == ResetLimit \in Nat \ {0}

VARIABLES
    password,  \* the password that users.password_hash verifies
    outdated,  \* whether the hash uses old argon2 parameters (needs_rehash)
    session,   \* sessions rows: "none" before creation, "live", "deleted"
    token,     \* password_reset_tokens rows: "none" before creation, "unused",
               \* "used", "old" once an hour old: expired and no longer counted
    at,        \* the handler each request is in, past its reads
    using,     \* the session or token row each request has read
    given,     \* the password each request was given or its session goes back to
    login,     \* the login that the session of each request goes back to
    rehash,    \* whether a login has decided to write a new hash
    chosen,    \* history: the password last chosen by the user
    opened,    \* history: the password each live session goes back to
    origin,    \* history: the login each live session goes back to
    ended,     \* history: the logins that were logged out
    resets,    \* the password_reset entries of audit_log, per token
    overtaken, \* history: logins and switches in flight while a reset committed
    late,      \* history: sessions since the last reset that go back to one of them
    reverted,  \* history: an overtaken rehash has undone the last reset
    shared     \* history: logins and tokens that two requests held at once, and
               \* "limit" if two held the count of the hour's tokens

rowVars == <<password, outdated, session, token>>
requestVars == <<at, using, given, login, rehash>>
sessionVars == <<opened, origin>>
historyVars == <<chosen, sessionVars, ended, resets>>
overlapVars == <<overtaken, late, reverted, shared>>
vars == <<rowVars, requestVars, historyVars, overlapVars>>

Handlers == {"idle", "login", "logout", "switch", "forgot", "reset"}

TypeOK ==
    /\ password \in Passwords
    /\ outdated \in BOOLEAN
    /\ session \in [Sessions -> {"none", "live", "deleted"}]
    /\ token \in [Tokens -> {"none", "unused", "used", "old"}]
    /\ at \in [Requests -> Handlers]
    /\ using \in [Requests -> Sessions \cup Tokens \cup {"none"}]
    /\ given \in [Requests -> Passwords \cup {"none"}]
    /\ login \in [Requests -> Sessions \cup {"none"}]
    /\ rehash \in [Requests -> BOOLEAN]
    /\ chosen \in Passwords
    /\ opened \in [Sessions -> Passwords \cup {"none"}]
    /\ origin \in [Sessions -> Sessions \cup {"none"}]
    /\ ended \subseteq Sessions
    /\ resets \in [Tokens -> Nat]
    /\ overtaken \subseteq Requests
    /\ late \subseteq Sessions
    /\ reverted \in BOOLEAN
    /\ shared \subseteq Sessions \cup Tokens \cup {"limit"}

\* An account that has just registered, with the session this opens.
Init ==
    /\ password \in Passwords
    /\ outdated \in BOOLEAN
    /\ \E first \in Sessions :
          /\ session = [s \in Sessions |-> IF s = first THEN "live" ELSE "none"]
          /\ opened = [s \in Sessions |-> IF s = first THEN password ELSE "none"]
          /\ origin = [s \in Sessions |-> IF s = first THEN first ELSE "none"]
    /\ token = [t \in Tokens |-> "none"]
    /\ at = [q \in Requests |-> "idle"]
    /\ using = [q \in Requests |-> "none"]
    /\ given = [q \in Requests |-> "none"]
    /\ login = [q \in Requests |-> "none"]
    /\ rehash = [q \in Requests |-> FALSE]
    /\ chosen = password
    /\ ended = {}
    /\ resets = [t \in Tokens |-> 0]
    /\ overtaken = {} /\ late = {} /\ reverted = FALSE /\ shared = {}

-----------------------------------------------------------------------------
Live == {s \in Sessions : session[s] = "live"}
FreshTokens == {t \in Tokens : token[t] \in {"unused", "used"}}

\* A request forgets what it has read.
Forget(q) ==
    /\ at' = [at EXCEPT ![q] = "idle"]
    /\ using' = [using EXCEPT ![q] = "none"]
    /\ given' = [given EXCEPT ![q] = "none"]
    /\ login' = [login EXCEPT ![q] = "none"]
    /\ rehash' = [rehash EXCEPT ![q] = FALSE]

\* ... and returns.
Return(q) == Forget(q) /\ overtaken' = overtaken \ {q}

\* A reset returns; what the other requests in flight have read is outdated.
ReturnFromReset(q) ==
    /\ Forget(q)
    /\ overtaken' = {other \in Requests \ {q} : at[other] \in {"login", "switch"}}
    /\ late' = {} /\ reverted' = FALSE

\* A row of the login or the token k that another request has also read.
Share(q, k, row) ==
    shared' = IF \E other \in Requests \ {q} : using[other] = row
              THEN shared \cup {k} ELSE shared

\* The rows in S are deleted.
Delete(S) ==
    /\ session' = [s \in Sessions |-> IF s \in S THEN "deleted" ELSE session[s]]
    /\ opened' = [s \in Sessions |-> IF s \in S THEN "none" ELSE opened[s]]
    /\ origin' = [s \in Sessions |-> IF s \in S THEN "none" ELSE origin[s]]

\* The request q deletes the rows in S and opens a session for the login l.
Replace(q, S, s, l) ==
    /\ session[s] = "none"
    /\ session' = [r \in Sessions |-> IF r = s THEN "live"
                                      ELSE IF r \in S THEN "deleted" ELSE session[r]]
    /\ opened' = [r \in Sessions |-> IF r = s THEN given[q]
                                     ELSE IF r \in S THEN "none" ELSE opened[r]]
    /\ origin' = [r \in Sessions |-> IF r = s THEN l
                                     ELSE IF r \in S THEN "none" ELSE origin[r]]

-----------------------------------------------------------------------------
(* login_user *)

\* The right password; anything else is refused.
ReadLogin(q) ==
    /\ at[q] = "idle"
    /\ at' = [at EXCEPT ![q] = "login"]
    /\ given' = [given EXCEPT ![q] = password]
    /\ rehash' = [rehash EXCEPT ![q] = outdated]
    /\ UNCHANGED <<rowVars, using, login, historyVars, overlapVars>>

\* Mutant: the rehash stores the wrong password.
CommitLoginWrongHash(q) ==
    /\ at[q] = "login"
    /\ \E s \in Sessions :
          /\ Replace(q, {}, s, s)
          /\ late' = IF q \in overtaken THEN late \cup {s} ELSE late
    /\ password' \in (IF rehash[q] THEN Passwords ELSE {password})
    /\ outdated' = (outdated /\ ~rehash[q])
    /\ reverted' = (reverted \/ (q \in overtaken /\ rehash[q]))
    /\ Return(q)
    /\ UNCHANGED <<token, chosen, ended, resets, shared>>

\* The session row, and the hash of the given password when a rehash is due.
CommitLogin(q) ==
    /\ at[q] = "login"
    /\ \E s \in Sessions :
          /\ Replace(q, {}, s, s)
          /\ late' = IF q \in overtaken THEN late \cup {s} ELSE late
    /\ password' = (IF rehash[q] THEN given[q] ELSE password)
    /\ outdated' = (outdated /\ ~rehash[q])
    /\ reverted' = (reverted \/ (q \in overtaken /\ rehash[q]))
    /\ Return(q)
    /\ UNCHANGED <<token, chosen, ended, resets, shared>>

-----------------------------------------------------------------------------
(* get_current_user followed by logout_user or switch_tenant *)

\* The session the cookie names.
ReadSession(q) ==
    /\ at[q] = "idle"
    /\ \E s \in Live, h \in {"logout", "switch"} :
          /\ at' = [at EXCEPT ![q] = h]
          /\ using' = [using EXCEPT ![q] = s]
          /\ given' = [given EXCEPT ![q] = opened[s]]
          /\ login' = [login EXCEPT ![q] = origin[s]]
          /\ overtaken' = IF s \in late THEN overtaken \cup {q} ELSE overtaken
          /\ Share(q, origin[s], s)
    /\ UNCHANGED <<rowVars, rehash, historyVars, late, reverted>>

\* Mutant: only the cookie is cleared.
CommitLogoutCookie(q) ==
    /\ at[q] = "logout"
    /\ ended' = ended \cup {login[q]}
    /\ Return(q)
    /\ UNCHANGED <<rowVars, chosen, sessionVars, resets, late, reverted, shared>>

CommitLogout(q) ==
    /\ at[q] = "logout"
    /\ Delete({using[q]})
    /\ ended' = ended \cup {login[q]}
    /\ Return(q)
    /\ UNCHANGED <<password, outdated, token, chosen, resets, late, reverted, shared>>

\* Mutant: the session that is switched away from is kept.
CommitSwitchKeeping(q) ==
    /\ at[q] = "switch"
    /\ \E s \in Sessions :
          /\ Replace(q, {}, s, login[q])
          /\ late' = IF q \in overtaken THEN late \cup {s} ELSE late
    /\ Return(q)
    /\ UNCHANGED <<password, outdated, token, chosen, ended, resets, reverted, shared>>

\* Deletes the session it was called with, if it is still there, and opens one
\* for the other tenant either way.
CommitSwitch(q) ==
    /\ at[q] = "switch"
    /\ \E s \in Sessions :
          /\ Replace(q, {using[q]}, s, login[q])
          /\ late' = IF q \in overtaken THEN late \cup {s} ELSE late
    /\ Return(q)
    /\ UNCHANGED <<password, outdated, token, chosen, ended, resets, reverted, shared>>

\* SESSION_TTL_SECONDS go by: get_session_by_token no longer finds the row.
SessionExpires(s) ==
    /\ s \in Live
    /\ Delete({s})
    /\ UNCHANGED <<password, outdated, token, requestVars, chosen, ended, resets,
                   overlapVars>>

-----------------------------------------------------------------------------
(* request_password_reset *)

\* Mutant: the limit is off by one.
ReadResetCountLate(q) ==
    /\ at[q] = "idle"
    /\ Cardinality(FreshTokens) <= ResetLimit
    /\ at' = [at EXCEPT ![q] = "forgot"]
    /\ shared' = IF \E other \in Requests : at[other] = "forgot"
                 THEN shared \cup {"limit"} ELSE shared
    /\ UNCHANGED <<rowVars, using, given, login, rehash, historyVars, overtaken, late, reverted>>

\* Counts the tokens of the last hour; at the limit the request is refused.
ReadResetCount(q) ==
    /\ at[q] = "idle"
    /\ Cardinality(FreshTokens) < ResetLimit
    /\ at' = [at EXCEPT ![q] = "forgot"]
    /\ shared' = IF \E other \in Requests : at[other] = "forgot"
                 THEN shared \cup {"limit"} ELSE shared
    /\ UNCHANGED <<rowVars, using, given, login, rehash, historyVars, overtaken, late, reverted>>

CommitResetToken(q) ==
    /\ at[q] = "forgot"
    /\ \E t \in Tokens :
          /\ token[t] = "none"
          /\ token' = [token EXCEPT ![t] = "unused"]
    /\ Return(q)
    /\ UNCHANGED <<password, outdated, session, historyVars, late, reverted, shared>>

\* The token's TTL and the window of the limit are the same hour.
HourPasses(t) ==
    /\ t \in FreshTokens
    /\ token' = [token EXCEPT ![t] = "old"]
    /\ UNCHANGED <<password, outdated, session, requestVars, historyVars, overlapVars>>

-----------------------------------------------------------------------------
(* confirm_password_reset *)

\* Mutant: a used token is accepted.
ReadResetUsed(q) ==
    /\ at[q] = "idle"
    /\ \E t \in FreshTokens, pw \in Passwords :
          /\ at' = [at EXCEPT ![q] = "reset"]
          /\ using' = [using EXCEPT ![q] = t]
          /\ given' = [given EXCEPT ![q] = pw]
          /\ Share(q, t, t)
    /\ UNCHANGED <<rowVars, login, rehash, historyVars, overtaken, late, reverted>>

\* A known, unexpired and unused token, and a password that is strong enough.
ReadReset(q) ==
    /\ at[q] = "idle"
    /\ \E t \in FreshTokens, pw \in Passwords :
          /\ token[t] = "unused"
          /\ at' = [at EXCEPT ![q] = "reset"]
          /\ using' = [using EXCEPT ![q] = t]
          /\ given' = [given EXCEPT ![q] = pw]
          /\ Share(q, t, t)
    /\ UNCHANGED <<rowVars, login, rehash, historyVars, overtaken, late, reverted>>

\* Mutant: the sessions of the account survive the reset.
CommitResetKeeping(q) ==
    /\ at[q] = "reset"
    /\ password' = given[q]
    /\ outdated' = FALSE
    /\ token' = [token EXCEPT ![using[q]] = IF @ = "old" THEN "old" ELSE "used"]
    /\ chosen' = given[q]
    /\ resets' = [resets EXCEPT ![using[q]] = @ + 1]
    /\ ReturnFromReset(q)
    /\ UNCHANGED <<session, sessionVars, ended, shared>>

\* The new hash, used_at, the deletion of every session of the account and the
\* audit entry, in one transaction.
CommitReset(q) ==
    /\ at[q] = "reset"
    /\ password' = given[q]
    /\ outdated' = FALSE
    /\ token' = [token EXCEPT ![using[q]] = IF @ = "old" THEN "old" ELSE "used"]
    /\ Delete(Live)
    /\ chosen' = given[q]
    /\ resets' = [resets EXCEPT ![using[q]] = @ + 1]
    /\ ReturnFromReset(q)
    /\ UNCHANGED <<ended, shared>>

-----------------------------------------------------------------------------
\* A request dies before its commit: an error, or its API process goes down.
Abort(q) ==
    /\ at[q] # "idle"
    /\ Return(q)
    /\ UNCHANGED <<rowVars, historyVars, late, reverted, shared>>

Read(q) == ReadLogin(q) \/ ReadSession(q) \/ ReadResetCount(q) \/ ReadReset(q)

Commit(q) ==
    \/ CommitLogin(q) \/ CommitLogout(q) \/ CommitSwitch(q)
    \/ CommitResetToken(q) \/ CommitReset(q)

Next ==
    \/ \E q \in Requests : Read(q) \/ Commit(q) \/ Abort(q)
    \/ \E s \in Sessions : SessionExpires(s)
    \/ \E t \in Tokens : HourPasses(t)

Spec == Init /\ [][Next]_vars

-----------------------------------------------------------------------------
(* Properties. *)

\* service.py:283, "force re-login": every session was opened with the password
\* the user chose last, but for those of a login or switch that a reset has
\* overtaken, and after an overtaken rehash.
SessionsKnowPassword ==
    \A s \in Live : opened[s] = chosen \/ s \in late \/ reverted

\* Nothing but the user's own choice decides which password is in force; the
\* rehash of a login only re-encodes it, unless a reset has overtaken it.
PasswordAsChosen == password = chosen \/ reverted

\* service.py:156: a switch replaces the session, so that one login never has
\* two sessions at a time unless two requests held its session at once.
OneSessionPerLogin ==
    \A s1, s2 \in Live : origin[s1] = origin[s2] => s1 = s2 \/ origin[s1] \in shared

\* service.py:129: a login that was logged out has no session left, unless the
\* logout overlapped with another request of the same session.
LogoutEndsLogin == \A s \in Live : origin[s] \in ended => origin[s] \in shared

\* service.py:192, "max requests per email per hour": requests that count the
\* tokens at once exceed the limit, each but the first by at most one token.
ResetLimitHeld ==
    Cardinality(FreshTokens) <=
        IF "limit" \in shared THEN ResetLimit + Cardinality(Requests) - 1 ELSE ResetLimit

\* service.py:250: a used token does not reset the password again, except by
\* requests that all read it unused.
TokenUsedOnce ==
    \A t \in Tokens : resets[t] <=
        IF t \in shared THEN Cardinality(Requests) ELSE 1
=============================================================================
