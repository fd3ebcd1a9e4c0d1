------------------------ MODULE AuthSessionsProofs ------------------------
(***************************************************************************)
(* Theorems about AuthSessions, for any number of requests, sessions,      *)
(* tokens and passwords, and any limit.                                    *)
(***************************************************************************)
EXTENDS AuthSessions, FiniteSetTheorems, TLAPS

\* Requests past get_current_user.
Busy(q) == at[q] \in {"logout", "switch"}

\* What a request in flight has read, and the rows it has read it from, exist.
RequestInv ==
    \A q \in Requests :
        /\ at[q] \in {"login", "reset"} => given[q] \in Passwords
        /\ at[q] = "reset" => using[q] \in Tokens /\ token[using[q]] # "none"
        /\ Busy(q) => /\ given[q] \in Passwords
                      /\ using[q] \in Sessions /\ session[using[q]] # "none"
                      /\ login[q] \in Sessions /\ session[login[q]] # "none"

\* A live session goes back to a password and to a login that took place.
SessionInv ==
    /\ \A s \in Live : /\ opened[s] \in Passwords
                       /\ origin[s] \in Sessions /\ session[origin[s]] # "none"
    /\ \A s \in ended : session[s] # "none"

TypeInv == TypeOK /\ RequestInv /\ SessionInv

LEMMA TypeInit == Init => TypeInv
<1> SUFFICES ASSUME Init
             PROVE  TypeInv
  OBVIOUS
<1>1. TypeOK
  <2>1. /\ session \in [Sessions -> {"none", "live", "deleted"}]
        /\ opened \in [Sessions -> Passwords \cup {"none"}]
        /\ origin \in [Sessions -> Sessions \cup {"none"}]
    BY DEF Init
  <2>2. at \in [Requests -> Handlers]
    BY DEF Init, Handlers
  <2>3. /\ token \in [Tokens -> {"none", "unused", "used", "old"}]
        /\ resets \in [Tokens -> Nat]
    BY DEF Init
  <2>4. /\ using \in [Requests -> Sessions \cup Tokens \cup {"none"}]
        /\ given \in [Requests -> Passwords \cup {"none"}]
        /\ login \in [Requests -> Sessions \cup {"none"}]
        /\ rehash \in [Requests -> BOOLEAN]
    BY DEF Init
  <2>5. /\ password \in Passwords /\ chosen \in Passwords
        /\ outdated \in BOOLEAN /\ reverted \in BOOLEAN
        /\ ended \subseteq Sessions /\ late \subseteq Sessions
        /\ overtaken \subseteq Requests
        /\ shared \subseteq Sessions \cup Tokens \cup {"limit"}
    BY DEF Init
  <2> QED
    BY <2>1, <2>2, <2>3, <2>4, <2>5 DEF TypeOK
<1>2. RequestInv
  BY DEF Init, RequestInv, Busy
<1>3. SessionInv
  BY DEF Init, SessionInv, Live
<1> QED
  BY <1>1, <1>2, <1>3 DEF TypeInv

LEMMA TypeStep == TypeInv /\ [Next]_vars => TypeOK'
<1> SUFFICES ASSUME TypeInv, [Next]_vars
             PROVE  TypeOK'
  OBVIOUS
<1> USE DEF TypeInv
<1>1. ASSUME NEW q \in Requests, ReadLogin(q)
      PROVE  TypeOK'
  BY <1>1
     DEF ReadLogin, rowVars, historyVars, overlapVars, sessionVars, TypeOK,
         RequestInv, SessionInv, Handlers, Busy, Live
<1>2. ASSUME NEW q \in Requests, ReadSession(q)
      PROVE  TypeOK'
  BY <1>2
     DEF ReadSession, rowVars, historyVars, sessionVars, Share, Live, TypeOK,
         RequestInv, SessionInv, Handlers, Busy, Live
<1>3. ASSUME NEW q \in Requests, ReadResetCount(q)
      PROVE  TypeOK'
  BY <1>3
     DEF ReadResetCount, rowVars, historyVars, sessionVars, TypeOK, RequestInv,
         SessionInv, Handlers, Busy, Live
<1>4. ASSUME NEW q \in Requests, ReadReset(q)
      PROVE  TypeOK'
  BY <1>4
     DEF ReadReset, rowVars, historyVars, sessionVars, Share, FreshTokens,
         TypeOK, RequestInv, SessionInv, Handlers, Busy, Live
<1>5. ASSUME NEW q \in Requests, CommitLogin(q)
      PROVE  TypeOK'
  BY <1>5
     DEF CommitLogin, Replace, Return, Forget, TypeOK, RequestInv, SessionInv,
         Handlers, Busy, Live
<1>6. ASSUME NEW q \in Requests, CommitLogout(q)
      PROVE  TypeOK'
  BY <1>6
     DEF CommitLogout, Delete, Return, Forget, TypeOK, RequestInv, SessionInv,
         Handlers, Busy, Live
<1>7. ASSUME NEW q \in Requests, CommitSwitch(q)
      PROVE  TypeOK'
  BY <1>7
     DEF CommitSwitch, Replace, Return, Forget, TypeOK, RequestInv, SessionInv,
         Handlers, Busy, Live
<1>8. ASSUME NEW q \in Requests, CommitResetToken(q)
      PROVE  TypeOK'
  BY <1>8
     DEF CommitResetToken, Return, Forget, historyVars, sessionVars, TypeOK,
         RequestInv, SessionInv, Handlers, Busy, Live
<1>9. ASSUME NEW q \in Requests, CommitReset(q)
      PROVE  TypeOK'
  <2>1. using[q] \in Tokens /\ given[q] \in Passwords
    BY <1>9 DEF CommitReset, RequestInv
  <2>2. token' \in [Tokens -> {"none", "unused", "used", "old"}]
    BY <1>9, <2>1 DEF CommitReset, TypeOK
  <2>3. resets' \in [Tokens -> Nat]
    <3>1. resets[using[q]] \in Nat
      BY <2>1 DEF TypeOK
    <3>2. resets[using[q]] + 1 \in Nat
      BY <3>1
    <3> QED
      BY <1>9, <2>1, <3>2 DEF CommitReset, TypeOK
  <2>4. /\ session' \in [Sessions -> {"none", "live", "deleted"}]
        /\ opened' \in [Sessions -> Passwords \cup {"none"}]
        /\ origin' \in [Sessions -> Sessions \cup {"none"}]
    BY <1>9 DEF CommitReset, Delete, Live, TypeOK
  <2> QED
    BY <1>9, <2>1, <2>2, <2>3, <2>4
       DEF CommitReset, ReturnFromReset, Forget, TypeOK, Handlers
<1>10. ASSUME NEW q \in Requests, Abort(q)
      PROVE  TypeOK'
  BY <1>10
     DEF Abort, Return, Forget, rowVars, historyVars, sessionVars, TypeOK,
         RequestInv, SessionInv, Handlers, Busy, Live
<1>11. ASSUME NEW s \in Sessions, SessionExpires(s)
      PROVE  TypeOK'
  BY <1>11
     DEF SessionExpires, Delete, requestVars, overlapVars, Live, TypeOK,
         RequestInv, SessionInv, Handlers, Busy, Live
<1>12. ASSUME NEW t \in Tokens, HourPasses(t)
      PROVE  TypeOK'
  BY <1>12
     DEF HourPasses, FreshTokens, requestVars, historyVars, sessionVars,
         overlapVars, TypeOK, RequestInv, SessionInv, Handlers, Busy, Live
<1>13. CASE UNCHANGED vars
  BY <1>13
     DEF vars, rowVars, requestVars, sessionVars, historyVars, overlapVars,
         TypeOK, RequestInv, SessionInv, Handlers, Busy, Live
<1> QED
  BY <1>1, <1>2, <1>3, <1>4, <1>5, <1>6, <1>7, <1>8, <1>9, <1>10, <1>11, <1>12,
     <1>13
     DEF Next, Read, Commit

LEMMA RequestStep == TypeInv /\ [Next]_vars => RequestInv'
<1> SUFFICES ASSUME TypeInv, [Next]_vars
             PROVE  RequestInv'
  OBVIOUS
<1> USE DEF TypeInv
<1>1. ASSUME NEW q \in Requests, ReadLogin(q)
      PROVE  RequestInv'
  BY <1>1
     DEF ReadLogin, rowVars, historyVars, overlapVars, sessionVars, TypeOK,
         RequestInv, SessionInv, Busy, Live
<1>2. ASSUME NEW q \in Requests, ReadSession(q)
      PROVE  RequestInv'
  BY <1>2
     DEF ReadSession, rowVars, historyVars, sessionVars, Share, Live, TypeOK,
         RequestInv, SessionInv, Busy, Live
<1>3. ASSUME NEW q \in Requests, ReadResetCount(q)
      PROVE  RequestInv'
  BY <1>3
     DEF ReadResetCount, rowVars, historyVars, sessionVars, TypeOK, RequestInv,
         SessionInv, Busy, Live
<1>4. ASSUME NEW q \in Requests, ReadReset(q)
      PROVE  RequestInv'
  BY <1>4
     DEF ReadReset, rowVars, historyVars, sessionVars, Share, FreshTokens,
         TypeOK, RequestInv, SessionInv, Busy, Live
<1>5. ASSUME NEW q \in Requests, CommitLogin(q)
      PROVE  RequestInv'
  BY <1>5
     DEF CommitLogin, Replace, Return, Forget, TypeOK, RequestInv, SessionInv,
         Busy, Live
<1>6. ASSUME NEW q \in Requests, CommitLogout(q)
      PROVE  RequestInv'
  BY <1>6
     DEF CommitLogout, Delete, Return, Forget, TypeOK, RequestInv, SessionInv,
         Busy, Live
<1>7. ASSUME NEW q \in Requests, CommitSwitch(q)
      PROVE  RequestInv'
  BY <1>7
     DEF CommitSwitch, Replace, Return, Forget, TypeOK, RequestInv, SessionInv,
         Busy, Live
<1>8. ASSUME NEW q \in Requests, CommitResetToken(q)
      PROVE  RequestInv'
  BY <1>8
     DEF CommitResetToken, Return, Forget, historyVars, sessionVars, TypeOK,
         RequestInv, SessionInv, Busy, Live
<1>9. ASSUME NEW q \in Requests, CommitReset(q)
      PROVE  RequestInv'
  BY <1>9
     DEF CommitReset, Delete, ReturnFromReset, Forget, Live, TypeOK, RequestInv,
         SessionInv, Busy, Live
<1>10. ASSUME NEW q \in Requests, Abort(q)
      PROVE  RequestInv'
  BY <1>10
     DEF Abort, Return, Forget, rowVars, historyVars, sessionVars, TypeOK,
         RequestInv, SessionInv, Busy, Live
<1>11. ASSUME NEW s \in Sessions, SessionExpires(s)
      PROVE  RequestInv'
  BY <1>11
     DEF SessionExpires, Delete, requestVars, overlapVars, Live, TypeOK,
         RequestInv, SessionInv, Busy, Live
<1>12. ASSUME NEW t \in Tokens, HourPasses(t)
      PROVE  RequestInv'
  BY <1>12
     DEF HourPasses, FreshTokens, requestVars, historyVars, sessionVars,
         overlapVars, TypeOK, RequestInv, SessionInv, Busy, Live
<1>13. CASE UNCHANGED vars
  BY <1>13
     DEF vars, rowVars, requestVars, sessionVars, historyVars, overlapVars,
         TypeOK, RequestInv, SessionInv, Busy, Live
<1> QED
  BY <1>1, <1>2, <1>3, <1>4, <1>5, <1>6, <1>7, <1>8, <1>9, <1>10, <1>11, <1>12,
     <1>13
     DEF Next, Read, Commit

LEMMA SessionStep == TypeInv /\ [Next]_vars => SessionInv'
<1> SUFFICES ASSUME TypeInv, [Next]_vars
             PROVE  SessionInv'
  OBVIOUS
<1> USE DEF TypeInv
<1>1. ASSUME NEW q \in Requests, ReadLogin(q)
      PROVE  SessionInv'
  BY <1>1
     DEF ReadLogin, rowVars, historyVars, overlapVars, sessionVars, TypeOK,
         RequestInv, SessionInv, Busy, Live
<1>2. ASSUME NEW q \in Requests, ReadSession(q)
      PROVE  SessionInv'
  BY <1>2
     DEF ReadSession, rowVars, historyVars, sessionVars, Share, Live, TypeOK,
         RequestInv, SessionInv, Busy, Live
<1>3. ASSUME NEW q \in Requests, ReadResetCount(q)
      PROVE  SessionInv'
  BY <1>3
     DEF ReadResetCount, rowVars, historyVars, sessionVars, TypeOK, RequestInv,
         SessionInv, Busy, Live
<1>4. ASSUME NEW q \in Requests, ReadReset(q)
      PROVE  SessionInv'
  BY <1>4
     DEF ReadReset, rowVars, historyVars, sessionVars, Share, FreshTokens,
         TypeOK, RequestInv, SessionInv, Busy, Live
<1>5. ASSUME NEW q \in Requests, CommitLogin(q)
      PROVE  SessionInv'
  BY <1>5
     DEF CommitLogin, Replace, Return, Forget, TypeOK, RequestInv, SessionInv,
         Busy, Live
<1>6. ASSUME NEW q \in Requests, CommitLogout(q)
      PROVE  SessionInv'
  BY <1>6
     DEF CommitLogout, Delete, Return, Forget, TypeOK, RequestInv, SessionInv,
         Busy, Live
<1>7. ASSUME NEW q \in Requests, CommitSwitch(q)
      PROVE  SessionInv'
  BY <1>7
     DEF CommitSwitch, Replace, Return, Forget, TypeOK, RequestInv, SessionInv,
         Busy, Live
<1>8. ASSUME NEW q \in Requests, CommitResetToken(q)
      PROVE  SessionInv'
  BY <1>8
     DEF CommitResetToken, Return, Forget, historyVars, sessionVars, TypeOK,
         RequestInv, SessionInv, Busy, Live
<1>9. ASSUME NEW q \in Requests, CommitReset(q)
      PROVE  SessionInv'
  BY <1>9
     DEF CommitReset, Delete, ReturnFromReset, Forget, Live, TypeOK, RequestInv,
         SessionInv, Busy, Live
<1>10. ASSUME NEW q \in Requests, Abort(q)
      PROVE  SessionInv'
  BY <1>10
     DEF Abort, Return, Forget, rowVars, historyVars, sessionVars, TypeOK,
         RequestInv, SessionInv, Busy, Live
<1>11. ASSUME NEW s \in Sessions, SessionExpires(s)
      PROVE  SessionInv'
  BY <1>11
     DEF SessionExpires, Delete, requestVars, overlapVars, Live, TypeOK,
         RequestInv, SessionInv, Busy, Live
<1>12. ASSUME NEW t \in Tokens, HourPasses(t)
      PROVE  SessionInv'
  BY <1>12
     DEF HourPasses, FreshTokens, requestVars, historyVars, sessionVars,
         overlapVars, TypeOK, RequestInv, SessionInv, Busy, Live
<1>13. CASE UNCHANGED vars
  BY <1>13
     DEF vars, rowVars, requestVars, sessionVars, historyVars, overlapVars,
         TypeOK, RequestInv, SessionInv, Busy, Live
<1> QED
  BY <1>1, <1>2, <1>3, <1>4, <1>5, <1>6, <1>7, <1>8, <1>9, <1>10, <1>11, <1>12,
     <1>13
     DEF Next, Read, Commit

LEMMA TypeInvariant == Spec => []TypeInv
<1>1. TypeInv /\ [Next]_vars => TypeInv'
  BY TypeStep, RequestStep, SessionStep DEF TypeInv
<1> QED
  BY <1>1, TypeInit, PTL DEF Spec

\* Every row, request and history variable has its type.
THEOREM TypeCorrect == Spec => []TypeOK
<1>1. TypeInv => TypeOK
  BY DEF TypeInv
<1> QED
  BY <1>1, TypeInvariant, PTL

-----------------------------------------------------------------------------
(* Logins and their sessions. *)

\* While a login is not shared, the session a request has read is its only
\* live one, and nobody has logged it out.
HeldAlone ==
    \A q \in Requests : Busy(q) /\ login[q] \notin shared =>
        /\ login[q] \notin ended
        /\ \A s \in Live : origin[s] = login[q] => s = using[q]

\* Two requests that hold sessions of one login share it.
SharedByTwo ==
    \A q1, q2 \in Requests :
        Busy(q1) /\ Busy(q2) /\ q1 # q2 /\ login[q1] = login[q2] => login[q1] \in shared

LoginInv == HeldAlone /\ SharedByTwo /\ OneSessionPerLogin /\ LogoutEndsLogin

LEMMA LoginInit == Init => LoginInv
BY DEF Init, LoginInv, HeldAlone, SharedByTwo, OneSessionPerLogin,
       LogoutEndsLogin, Busy, Live

LEMMA LoginStep == TypeInv /\ LoginInv /\ [Next]_vars => LoginInv'
<1> SUFFICES ASSUME TypeInv, LoginInv, [Next]_vars
             PROVE  LoginInv'
  OBVIOUS
<1> USE DEF TypeInv, LoginInv
<1>1. ASSUME NEW q \in Requests, ReadLogin(q)
      PROVE  LoginInv'
  BY <1>1
     DEF ReadLogin, rowVars, historyVars, overlapVars, sessionVars, TypeOK,
         RequestInv, SessionInv, HeldAlone, SharedByTwo, OneSessionPerLogin,
         LogoutEndsLogin, Busy, Live
<1>2. ASSUME NEW q \in Requests, ReadSession(q)
      PROVE  LoginInv'
  BY <1>2
     DEF ReadSession, rowVars, historyVars, sessionVars, Share, Live, TypeOK,
         RequestInv, SessionInv, HeldAlone, SharedByTwo, OneSessionPerLogin,
         LogoutEndsLogin, Busy, Live
<1>3. ASSUME NEW q \in Requests, ReadResetCount(q)
      PROVE  LoginInv'
  BY <1>3
     DEF ReadResetCount, rowVars, historyVars, sessionVars, TypeOK, RequestInv,
         SessionInv, HeldAlone, SharedByTwo, OneSessionPerLogin,
         LogoutEndsLogin, Busy, Live
<1>4. ASSUME NEW q \in Requests, ReadReset(q)
      PROVE  LoginInv'
  BY <1>4
     DEF ReadReset, rowVars, historyVars, sessionVars, Share, FreshTokens,
         TypeOK, RequestInv, SessionInv, HeldAlone, SharedByTwo,
         OneSessionPerLogin, LogoutEndsLogin, Busy, Live
<1>5. ASSUME NEW q \in Requests, CommitLogin(q)
      PROVE  LoginInv'
  BY <1>5
     DEF CommitLogin, Replace, Return, Forget, TypeOK, RequestInv, SessionInv,
         HeldAlone, SharedByTwo, OneSessionPerLogin, LogoutEndsLogin, Busy, Live
<1>6. ASSUME NEW q \in Requests, CommitLogout(q)
      PROVE  LoginInv'
  BY <1>6
     DEF CommitLogout, Delete, Return, Forget, TypeOK, RequestInv, SessionInv,
         HeldAlone, SharedByTwo, OneSessionPerLogin, LogoutEndsLogin, Busy, Live
<1>7. ASSUME NEW q \in Requests, CommitSwitch(q)
      PROVE  LoginInv'
  BY <1>7
     DEF CommitSwitch, Replace, Return, Forget, TypeOK, RequestInv, SessionInv,
         HeldAlone, SharedByTwo, OneSessionPerLogin, LogoutEndsLogin, Busy, Live
<1>8. ASSUME NEW q \in Requests, CommitResetToken(q)
      PROVE  LoginInv'
  BY <1>8
     DEF CommitResetToken, Return, Forget, historyVars, sessionVars, TypeOK,
         RequestInv, SessionInv, HeldAlone, SharedByTwo, OneSessionPerLogin,
         LogoutEndsLogin, Busy, Live
<1>9. ASSUME NEW q \in Requests, CommitReset(q)
      PROVE  LoginInv'
  BY <1>9
     DEF CommitReset, Delete, ReturnFromReset, Forget, Live, TypeOK, RequestInv,
         SessionInv, HeldAlone, SharedByTwo, OneSessionPerLogin,
         LogoutEndsLogin, Busy, Live
<1>10. ASSUME NEW q \in Requests, Abort(q)
      PROVE  LoginInv'
  BY <1>10
     DEF Abort, Return, Forget, rowVars, historyVars, sessionVars, TypeOK,
         RequestInv, SessionInv, HeldAlone, SharedByTwo, OneSessionPerLogin,
         LogoutEndsLogin, Busy, Live
<1>11. ASSUME NEW s \in Sessions, SessionExpires(s)
      PROVE  LoginInv'
  BY <1>11
     DEF SessionExpires, Delete, requestVars, overlapVars, Live, TypeOK,
         RequestInv, SessionInv, HeldAlone, SharedByTwo, OneSessionPerLogin,
         LogoutEndsLogin, Busy, Live
<1>12. ASSUME NEW t \in Tokens, HourPasses(t)
      PROVE  LoginInv'
  BY <1>12
     DEF HourPasses, FreshTokens, requestVars, historyVars, sessionVars,
         overlapVars, TypeOK, RequestInv, SessionInv, HeldAlone, SharedByTwo,
         OneSessionPerLogin, LogoutEndsLogin, Busy, Live
<1>13. CASE UNCHANGED vars
  BY <1>13
     DEF vars, rowVars, requestVars, sessionVars, historyVars, overlapVars,
         TypeOK, RequestInv, SessionInv, HeldAlone, SharedByTwo,
         OneSessionPerLogin, LogoutEndsLogin, Busy, Live
<1> QED
  BY <1>1, <1>2, <1>3, <1>4, <1>5, <1>6, <1>7, <1>8, <1>9, <1>10, <1>11, <1>12,
     <1>13
     DEF Next, Read, Commit

LEMMA LoginInvariant == Spec => []LoginInv
<1> QED
  BY TypeInvariant, LoginInit, LoginStep, PTL DEF Spec

\* OneSessionPerLogin: however logins, switches and logouts interleave, only
\* requests that held its session at once give a login a second session.
THEOREM SwitchReplacesSession == Spec => []OneSessionPerLogin
<1>1. LoginInv => OneSessionPerLogin
  BY DEF LoginInv
<1> QED
  BY <1>1, LoginInvariant, PTL

\* LogoutEndsLogin: a logout that met no other request of its session leaves
\* the login without a session for good.
THEOREM LogoutIsFinal == Spec => []LogoutEndsLogin
<1>1. LoginInv => LogoutEndsLogin
  BY DEF LoginInv
<1> QED
  BY <1>1, LoginInvariant, PTL

-----------------------------------------------------------------------------
(* The password in force. *)

\* What a login or a switch carries is the chosen password, unless a reset has
\* overtaken it.
CarriesChosen ==
    \A q \in Requests : at[q] \in {"login", "switch"} /\ q \notin overtaken =>
        given[q] = chosen \/ reverted

PasswordInv == CarriesChosen /\ PasswordAsChosen /\ SessionsKnowPassword

LEMMA PasswordInit == Init => PasswordInv
BY DEF Init, PasswordInv, CarriesChosen, PasswordAsChosen, SessionsKnowPassword,
       Live

LEMMA PasswordStep == TypeInv /\ PasswordInv /\ [Next]_vars => PasswordInv'
<1> SUFFICES ASSUME TypeInv, PasswordInv, [Next]_vars
             PROVE  PasswordInv'
  OBVIOUS
<1> USE DEF TypeInv, PasswordInv
<1>1. ASSUME NEW q \in Requests, ReadLogin(q)
      PROVE  PasswordInv'
  BY <1>1
     DEF ReadLogin, rowVars, historyVars, overlapVars, sessionVars, TypeOK,
         RequestInv, CarriesChosen, PasswordAsChosen, SessionsKnowPassword,
         Busy, Live
<1>2. ASSUME NEW q \in Requests, ReadSession(q)
      PROVE  PasswordInv'
  BY <1>2
     DEF ReadSession, rowVars, historyVars, sessionVars, Share, Live, TypeOK,
         RequestInv, CarriesChosen, PasswordAsChosen, SessionsKnowPassword,
         Busy, Live
<1>3. ASSUME NEW q \in Requests, ReadResetCount(q)
      PROVE  PasswordInv'
  BY <1>3
     DEF ReadResetCount, rowVars, historyVars, sessionVars, TypeOK, RequestInv,
         CarriesChosen, PasswordAsChosen, SessionsKnowPassword, Busy, Live
<1>4. ASSUME NEW q \in Requests, ReadReset(q)
      PROVE  PasswordInv'
  BY <1>4
     DEF ReadReset, rowVars, historyVars, sessionVars, Share, FreshTokens,
         TypeOK, RequestInv, CarriesChosen, PasswordAsChosen,
         SessionsKnowPassword, Busy, Live
<1>5. ASSUME NEW q \in Requests, CommitLogin(q)
      PROVE  PasswordInv'
  BY <1>5
     DEF CommitLogin, Replace, Return, Forget, TypeOK, RequestInv,
         CarriesChosen, PasswordAsChosen, SessionsKnowPassword, Busy, Live
<1>6. ASSUME NEW q \in Requests, CommitLogout(q)
      PROVE  PasswordInv'
  BY <1>6
     DEF CommitLogout, Delete, Return, Forget, TypeOK, RequestInv,
         CarriesChosen, PasswordAsChosen, SessionsKnowPassword, Busy, Live
<1>7. ASSUME NEW q \in Requests, CommitSwitch(q)
      PROVE  PasswordInv'
  BY <1>7
     DEF CommitSwitch, Replace, Return, Forget, TypeOK, RequestInv,
         CarriesChosen, PasswordAsChosen, SessionsKnowPassword, Busy, Live
<1>8. ASSUME NEW q \in Requests, CommitResetToken(q)
      PROVE  PasswordInv'
  BY <1>8
     DEF CommitResetToken, Return, Forget, historyVars, sessionVars, TypeOK,
         RequestInv, CarriesChosen, PasswordAsChosen, SessionsKnowPassword,
         Busy, Live
<1>9. ASSUME NEW q \in Requests, CommitReset(q)
      PROVE  PasswordInv'
  BY <1>9
     DEF CommitReset, Delete, ReturnFromReset, Forget, Live, TypeOK, RequestInv,
         CarriesChosen, PasswordAsChosen, SessionsKnowPassword, Busy, Live
<1>10. ASSUME NEW q \in Requests, Abort(q)
      PROVE  PasswordInv'
  BY <1>10
     DEF Abort, Return, Forget, rowVars, historyVars, sessionVars, TypeOK,
         RequestInv, CarriesChosen, PasswordAsChosen, SessionsKnowPassword,
         Busy, Live
<1>11. ASSUME NEW s \in Sessions, SessionExpires(s)
      PROVE  PasswordInv'
  BY <1>11
     DEF SessionExpires, Delete, requestVars, overlapVars, Live, TypeOK,
         RequestInv, CarriesChosen, PasswordAsChosen, SessionsKnowPassword,
         Busy, Live
<1>12. ASSUME NEW t \in Tokens, HourPasses(t)
      PROVE  PasswordInv'
  BY <1>12
     DEF HourPasses, FreshTokens, requestVars, historyVars, sessionVars,
         overlapVars, TypeOK, RequestInv, CarriesChosen, PasswordAsChosen,
         SessionsKnowPassword, Busy, Live
<1>13. CASE UNCHANGED vars
  BY <1>13
     DEF vars, rowVars, requestVars, sessionVars, historyVars, overlapVars,
         TypeOK, RequestInv, CarriesChosen, PasswordAsChosen,
         SessionsKnowPassword, Busy, Live
<1> QED
  BY <1>1, <1>2, <1>3, <1>4, <1>5, <1>6, <1>7, <1>8, <1>9, <1>10, <1>11, <1>12,
     <1>13
     DEF Next, Read, Commit

LEMMA PasswordInvariant == Spec => []PasswordInv
<1> QED
  BY TypeInvariant, PasswordInit, PasswordStep, PTL DEF Spec

\* SessionsKnowPassword: after a reset, the only sessions with an older password
\* are those of a login or switch that was in flight when it committed.
THEOREM ResetForcesLogin == Spec => []SessionsKnowPassword
<1>1. PasswordInv => SessionsKnowPassword
  BY DEF PasswordInv
<1> QED
  BY <1>1, PasswordInvariant, PTL

\* PasswordAsChosen: only the rehash of a login that a reset has overtaken puts
\* another password in force than the one chosen last.
THEOREM PasswordIsChosen == Spec => []PasswordAsChosen
<1>1. PasswordInv => PasswordAsChosen
  BY DEF PasswordInv
<1> QED
  BY <1>1, PasswordInvariant, PTL

-----------------------------------------------------------------------------
(* Reset tokens. *)

\* The requests that are about to use the token t.
Users(t) == {q \in Requests : at[q] = "reset" /\ using[q] = t}

\* A request alone with its token finds it unused.
TokenInv ==
    /\ \A t \in Tokens : token[t] \in {"none", "unused"} => resets[t] = 0
    /\ \A q \in Requests :
          at[q] = "reset" /\ using[q] \notin shared => resets[using[q]] = 0
    /\ \A q1, q2 \in Requests :
          at[q1] = "reset" /\ at[q2] = "reset" /\ q1 # q2 /\ using[q1] = using[q2] =>
              using[q1] \in shared
    /\ \A t \in Tokens : t \notin shared => resets[t] <= 1

\* Every use of a token takes a request that has read it unused.
UsesInv == \A t \in Tokens : resets[t] + Cardinality(Users(t)) <= Cardinality(Requests)

LEMMA TokenInit == Init => TokenInv
BY DEF Init, TokenInv

LEMMA TokenStep == TypeInv /\ TokenInv /\ [Next]_vars => TokenInv'
<1> SUFFICES ASSUME TypeInv, TokenInv, [Next]_vars
             PROVE  TokenInv'
  OBVIOUS
<1> USE DEF TypeInv
<1>1. ASSUME NEW q \in Requests, ReadLogin(q)
      PROVE  TokenInv'
  BY <1>1
     DEF ReadLogin, rowVars, historyVars, overlapVars, sessionVars, TypeOK,
         RequestInv, TokenInv
<1>2. ASSUME NEW q \in Requests, ReadSession(q)
      PROVE  TokenInv'
  BY <1>2
     DEF ReadSession, rowVars, historyVars, sessionVars, Share, Live, TypeOK,
         RequestInv, TokenInv
<1>3. ASSUME NEW q \in Requests, ReadResetCount(q)
      PROVE  TokenInv'
  BY <1>3
     DEF ReadResetCount, rowVars, historyVars, sessionVars, TypeOK, RequestInv,
         TokenInv
<1>4. ASSUME NEW q \in Requests, ReadReset(q)
      PROVE  TokenInv'
  BY <1>4
     DEF ReadReset, rowVars, historyVars, sessionVars, Share, FreshTokens,
         TypeOK, RequestInv, TokenInv
<1>5. ASSUME NEW q \in Requests, CommitLogin(q)
      PROVE  TokenInv'
  BY <1>5 DEF CommitLogin, Replace, Return, Forget, TypeOK, RequestInv, TokenInv
<1>6. ASSUME NEW q \in Requests, CommitLogout(q)
      PROVE  TokenInv'
  BY <1>6 DEF CommitLogout, Delete, Return, Forget, TypeOK, RequestInv, TokenInv
<1>7. ASSUME NEW q \in Requests, CommitSwitch(q)
      PROVE  TokenInv'
  BY <1>7 DEF CommitSwitch, Replace, Return, Forget, TypeOK, RequestInv, TokenInv
<1>8. ASSUME NEW q \in Requests, CommitResetToken(q)
      PROVE  TokenInv'
  BY <1>8
     DEF CommitResetToken, Return, Forget, historyVars, sessionVars, TypeOK,
         RequestInv, TokenInv
<1>9. ASSUME NEW q \in Requests, CommitReset(q)
      PROVE  TokenInv'
  BY <1>9
     DEF CommitReset, Delete, ReturnFromReset, Forget, Live, TypeOK, RequestInv,
         TokenInv
<1>10. ASSUME NEW q \in Requests, Abort(q)
      PROVE  TokenInv'
  BY <1>10
     DEF Abort, Return, Forget, rowVars, historyVars, sessionVars, TypeOK,
         RequestInv, TokenInv
<1>11. ASSUME NEW s \in Sessions, SessionExpires(s)
      PROVE  TokenInv'
  BY <1>11
     DEF SessionExpires, Delete, requestVars, overlapVars, Live, TypeOK,
         RequestInv, TokenInv
<1>12. ASSUME NEW t \in Tokens, HourPasses(t)
      PROVE  TokenInv'
  BY <1>12
     DEF HourPasses, FreshTokens, requestVars, historyVars, sessionVars,
         overlapVars, TypeOK, RequestInv, TokenInv
<1>13. CASE UNCHANGED vars
  BY <1>13
     DEF vars, rowVars, requestVars, sessionVars, historyVars, overlapVars,
         TypeOK, RequestInv, TokenInv
<1> QED
  BY <1>1, <1>2, <1>3, <1>4, <1>5, <1>6, <1>7, <1>8, <1>9, <1>10, <1>11, <1>12,
     <1>13
     DEF Next, Read, Commit

LEMMA TokenInvariant == Spec => []TokenInv
<1> QED
  BY TypeInvariant, TokenInit, TokenStep, PTL DEF Spec

LEMMA UsersAreFinite ==
  ASSUME NEW t \in Tokens
  PROVE  /\ IsFiniteSet(Users(t)) /\ Cardinality(Users(t)) \in Nat
         /\ Cardinality(Users(t)) <= Cardinality(Requests)
         /\ Cardinality(Requests) \in Nat
<1>1. Users(t) \subseteq Requests
  BY DEF Users
<1> QED
  BY <1>1, RequestsAssumption, FS_Subset, FS_CardinalityType

\* Requests that stop using a token only help.
LEMMA FewerUsers ==
  ASSUME TypeOK, UsesInv, \A t \in Tokens : Users(t)' \subseteq Users(t), UNCHANGED resets
  PROVE  UsesInv'
<1> SUFFICES ASSUME NEW t \in Tokens
             PROVE  resets[t] + Cardinality(Users(t)') <= Cardinality(Requests)
  BY DEF UsesInv
<1>1. /\ Cardinality(Users(t)') <= Cardinality(Users(t))
      /\ Cardinality(Users(t)') \in Nat /\ Cardinality(Users(t)) \in Nat
  BY UsersAreFinite, FS_Subset, FS_CardinalityType
<1>2. resets[t] \in Nat /\ Cardinality(Requests) \in Nat
  BY UsersAreFinite DEF TypeOK
<1> QED
  BY <1>1, <1>2 DEF UsesInv

LEMMA UsesInit == Init => UsesInv
<1> SUFFICES ASSUME Init, NEW t \in Tokens
             PROVE  resets[t] + Cardinality(Users(t)) <= Cardinality(Requests)
  BY DEF UsesInv
<1>1. Users(t) = {} /\ resets[t] = 0
  BY DEF Init, Users
<1> QED
  BY <1>1, UsersAreFinite

LEMMA UsesStep == TypeInv /\ TokenInv /\ UsesInv /\ [Next]_vars => UsesInv'
<1> SUFFICES ASSUME TypeInv, TokenInv, UsesInv, [Next]_vars
             PROVE  UsesInv'
  OBVIOUS
<1> USE DEF TypeInv
<1>1. ASSUME NEW q \in Requests, ReadLogin(q)
      PROVE  UsesInv'
  <2>1. /\ \A t \in Tokens : Users(t)' \subseteq Users(t)
        /\ UNCHANGED resets
    BY <1>1
       DEF ReadLogin, rowVars, historyVars, overlapVars, sessionVars, Users,
           TypeOK
  <2> QED
    BY <2>1, FewerUsers
<1>2. ASSUME NEW q \in Requests, ReadSession(q)
      PROVE  UsesInv'
  <2>1. /\ \A t \in Tokens : Users(t)' \subseteq Users(t)
        /\ UNCHANGED resets
    BY <1>2
       DEF ReadSession, rowVars, historyVars, sessionVars, Share, Live, Users,
           TypeOK
  <2> QED
    BY <2>1, FewerUsers
<1>3. ASSUME NEW q \in Requests, ReadResetCount(q)
      PROVE  UsesInv'
  <2>1. /\ \A t \in Tokens : Users(t)' \subseteq Users(t)
        /\ UNCHANGED resets
    BY <1>3 DEF ReadResetCount, rowVars, historyVars, sessionVars, Users, TypeOK
  <2> QED
    BY <2>1, FewerUsers
<1>4. ASSUME NEW q \in Requests, ReadReset(q)
      PROVE  UsesInv'
  <2>1. PICK t \in FreshTokens, pw \in Passwords :
            token[t] = "unused" /\ using' = [using EXCEPT ![q] = t]
    BY <1>4 DEF ReadReset
  <2>2. \A u \in Tokens : u # t => Users(u)' \subseteq Users(u)
    BY <1>4, <2>1 DEF ReadReset, Users, TypeOK
  <2>3. resets[t] = 0 /\ UNCHANGED resets
    BY <1>4, <2>1 DEF ReadReset, TokenInv, FreshTokens, historyVars
  <2> SUFFICES ASSUME NEW u \in Tokens
               PROVE  resets[u] + Cardinality(Users(u)') <= Cardinality(Requests)
    BY <2>3 DEF UsesInv
  <2>4. /\ Cardinality(Users(u)') \in Nat /\ Cardinality(Users(u)') <= Cardinality(Requests)
        /\ Cardinality(Requests) \in Nat
    <3>1. Users(u)' \subseteq Requests
      BY DEF Users
    <3> QED
      BY <3>1, RequestsAssumption, FS_Subset, FS_CardinalityType
  <2>5. CASE u = t
    BY <2>3, <2>4, <2>5
  <2>6. CASE u # t
    <3>1. Users(u)' \subseteq Users(u)
      BY <2>2, <2>6
    <3>2. Cardinality(Users(u)') <= Cardinality(Users(u)) /\ Cardinality(Users(u)) \in Nat
      BY <3>1, UsersAreFinite, FS_Subset
    <3> QED
      BY <2>4, <3>2 DEF UsesInv, TypeOK
  <2> QED
    BY <2>5, <2>6
<1>5. ASSUME NEW q \in Requests, CommitLogin(q)
      PROVE  UsesInv'
  <2>1. /\ \A t \in Tokens : Users(t)' \subseteq Users(t)
        /\ UNCHANGED resets
    BY <1>5 DEF CommitLogin, Replace, Return, Forget, Users, TypeOK
  <2> QED
    BY <2>1, FewerUsers
<1>6. ASSUME NEW q \in Requests, CommitLogout(q)
      PROVE  UsesInv'
  <2>1. /\ \A t \in Tokens : Users(t)' \subseteq Users(t)
        /\ UNCHANGED resets
    BY <1>6 DEF CommitLogout, Delete, Return, Forget, Users, TypeOK
  <2> QED
    BY <2>1, FewerUsers
<1>7. ASSUME NEW q \in Requests, CommitSwitch(q)
      PROVE  UsesInv'
  <2>1. /\ \A t \in Tokens : Users(t)' \subseteq Users(t)
        /\ UNCHANGED resets
    BY <1>7 DEF CommitSwitch, Replace, Return, Forget, Users, TypeOK
  <2> QED
    BY <2>1, FewerUsers
<1>8. ASSUME NEW q \in Requests, CommitResetToken(q)
      PROVE  UsesInv'
  <2>1. /\ \A t \in Tokens : Users(t)' \subseteq Users(t)
        /\ UNCHANGED resets
    BY <1>8
       DEF CommitResetToken, Return, Forget, historyVars, sessionVars, Users,
           TypeOK
  <2> QED
    BY <2>1, FewerUsers
<1>9. ASSUME NEW q \in Requests, CommitReset(q)
      PROVE  UsesInv'
  <2> DEFINE t == using[q]
  <2>1. t \in Tokens /\ q \in Users(t)
    BY <1>9 DEF CommitReset, RequestInv, Users
  <2>2. /\ \A u \in Tokens : Users(u)' = Users(u) \ {q}
        /\ resets' = [resets EXCEPT ![t] = resets[t] + 1]
    BY <1>9 DEF CommitReset, ReturnFromReset, Forget, Users, TypeOK
  <2> SUFFICES ASSUME NEW u \in Tokens
               PROVE  resets'[u] + Cardinality(Users(u)') <= Cardinality(Requests)
    BY DEF UsesInv
  <2>3. /\ Cardinality(Users(u) \ {q}) =
              (IF q \in Users(u) THEN Cardinality(Users(u)) - 1 ELSE Cardinality(Users(u)))
        /\ Cardinality(Users(u)) \in Nat /\ Cardinality(Requests) \in Nat
        /\ Users(u)' = Users(u) \ {q}
    BY <2>2, UsersAreFinite, FS_RemoveElement
  <2>4. resets[u] \in Nat /\ resets[u] + Cardinality(Users(u)) <= Cardinality(Requests)
    BY DEF UsesInv, TypeOK
  <2>5. resets'[u] = (IF u = t THEN resets[u] + 1 ELSE resets[u])
    BY <2>1, <2>2 DEF TypeOK
  <2>6. u # t => q \notin Users(u)
    BY DEF Users
  <2> QED
    BY <2>1, <2>3, <2>4, <2>5, <2>6
<1>10. ASSUME NEW q \in Requests, Abort(q)
      PROVE  UsesInv'
  <2>1. /\ \A t \in Tokens : Users(t)' \subseteq Users(t)
        /\ UNCHANGED resets
    BY <1>10
       DEF Abort, Return, Forget, rowVars, historyVars, sessionVars, Users,
           TypeOK
  <2> QED
    BY <2>1, FewerUsers
<1>11. ASSUME NEW s \in Sessions, SessionExpires(s)
      PROVE  UsesInv'
  <2>1. /\ \A t \in Tokens : Users(t)' \subseteq Users(t)
        /\ UNCHANGED resets
    BY <1>11 DEF SessionExpires, requestVars, Users
  <2> QED
    BY <2>1, FewerUsers
<1>12. ASSUME NEW t \in Tokens, HourPasses(t)
      PROVE  UsesInv'
  <2>1. /\ \A u \in Tokens : Users(u)' \subseteq Users(u)
        /\ UNCHANGED resets
    BY <1>12 DEF HourPasses, requestVars, historyVars, Users
  <2> QED
    BY <2>1, FewerUsers
<1>13. CASE UNCHANGED vars
  BY <1>13 DEF vars, requestVars, historyVars, UsesInv, Users
<1> QED
  BY <1>1, <1>2, <1>3, <1>4, <1>5, <1>6, <1>7, <1>8, <1>9, <1>10, <1>11, <1>12,
     <1>13
     DEF Next, Read, Commit

LEMMA UsesInvariant == Spec => []UsesInv
<1> QED
  BY TypeInvariant, TokenInvariant, UsesInit, UsesStep, PTL DEF Spec

\* TokenUsedOnce: a token resets the password once, or at most once for each
\* request if several read it unused.
THEOREM TokensAreUsedOnce == Spec => []TokenUsedOnce
<1>1. TypeOK /\ TokenInv /\ UsesInv => TokenUsedOnce
  <2> SUFFICES ASSUME TypeOK, TokenInv, UsesInv, NEW t \in Tokens
               PROVE  resets[t] <= IF t \in shared THEN Cardinality(Requests) ELSE 1
    BY DEF TokenUsedOnce
  <2>1. /\ resets[t] \in Nat /\ Cardinality(Users(t)) \in Nat /\ Cardinality(Requests) \in Nat
        /\ resets[t] + Cardinality(Users(t)) <= Cardinality(Requests)
    BY UsersAreFinite DEF TypeOK, UsesInv
  <2> QED
    BY <2>1 DEF TokenInv
<1> QED
  BY <1>1, TypeCorrect, TokenInvariant, UsesInvariant, PTL

-----------------------------------------------------------------------------
(* The limit of reset tokens. *)

\* The requests that have counted the tokens and are about to add one.
Counting == {q \in Requests : at[q] = "forgot"}

LimitInv ==
    Cardinality(FreshTokens) + Cardinality(Counting) <=
        IF "limit" \in shared THEN ResetLimit + Cardinality(Requests) - 1 ELSE ResetLimit

LEMMA LimitTypes ==
  /\ IsFiniteSet(FreshTokens) /\ Cardinality(FreshTokens) \in Nat
  /\ IsFiniteSet(Counting) /\ Cardinality(Counting) \in Nat
  /\ Cardinality(Requests) \in Nat /\ Cardinality(Requests) >= 1
  /\ ResetLimit \in Nat
<1>1. FreshTokens \subseteq Tokens /\ Counting \subseteq Requests
  BY DEF FreshTokens, Counting
<1>2. Cardinality(Requests) \in Nat /\ Cardinality(Requests) # 0
  BY RequestsAssumption, FS_CardinalityType, FS_EmptySet
<1> QED
  BY <1>1, <1>2, RequestsAssumption, TokensAssumption, ResetLimitAssumption,
     FS_Subset,
     FS_CardinalityType

\* Tokens that get old and requests that give up only help.
LEMMA FewerTokens ==
  ASSUME LimitInv, FreshTokens' \subseteq FreshTokens, Counting' \subseteq Counting,
         "limit" \in shared => "limit" \in shared'
  PROVE  LimitInv'
<1>1. /\ Cardinality(FreshTokens') <= Cardinality(FreshTokens)
      /\ Cardinality(Counting') <= Cardinality(Counting)
      /\ Cardinality(FreshTokens') \in Nat /\ Cardinality(Counting') \in Nat
  BY LimitTypes, FS_Subset, FS_CardinalityType
<1> QED
  BY <1>1, LimitTypes DEF LimitInv

LEMMA LimitInit == Init => LimitInv
<1> SUFFICES ASSUME Init
             PROVE  LimitInv
  OBVIOUS
<1>1. FreshTokens = {} /\ Counting = {}
  BY DEF Init, FreshTokens, Counting
<1> QED
  BY <1>1, LimitTypes, FS_EmptySet DEF LimitInv

LEMMA LimitStep == TypeInv /\ LimitInv /\ [Next]_vars => LimitInv'
<1> SUFFICES ASSUME TypeInv, LimitInv, [Next]_vars
             PROVE  LimitInv'
  OBVIOUS
<1> USE DEF TypeInv
<1>1. ASSUME NEW q \in Requests, ReadLogin(q)
      PROVE  LimitInv'
  <2>1. FreshTokens' \subseteq FreshTokens /\ Counting' \subseteq Counting
    BY <1>1
       DEF ReadLogin, rowVars, historyVars, overlapVars, sessionVars, Counting,
           FreshTokens, TypeOK
  <2>2. "limit" \in shared => "limit" \in shared'
    BY <1>1 DEF ReadLogin, rowVars, historyVars, overlapVars, sessionVars
  <2> QED
    BY <2>1, <2>2, FewerTokens
<1>2. ASSUME NEW q \in Requests, ReadSession(q)
      PROVE  LimitInv'
  <2>1. FreshTokens' \subseteq FreshTokens /\ Counting' \subseteq Counting
    BY <1>2
       DEF ReadSession, rowVars, historyVars, sessionVars, Share, Live,
           Counting, FreshTokens, TypeOK
  <2>2. "limit" \in shared => "limit" \in shared'
    BY <1>2 DEF ReadSession, rowVars, historyVars, sessionVars, Share, Live
  <2> QED
    BY <2>1, <2>2, FewerTokens
<1>3. ASSUME NEW q \in Requests, ReadResetCount(q)
      PROVE  LimitInv'
  <2>1. FreshTokens' = FreshTokens /\ Cardinality(FreshTokens) < ResetLimit
    BY <1>3 DEF ReadResetCount, FreshTokens, rowVars
  <2>2. Counting' = Counting \cup {q} /\ q \notin Counting
    BY <1>3 DEF ReadResetCount, Counting, TypeOK
  <2>3. /\ Cardinality(Counting') = Cardinality(Counting) + 1
        /\ Cardinality(Counting') <= Cardinality(Requests)
    <3>1. Counting' \subseteq Requests
      BY DEF Counting
    <3> QED
      BY <2>2, <3>1, LimitTypes, RequestsAssumption, FS_AddElement, FS_Subset
  <2>4. CASE Counting = {}
    <3>1. Cardinality(Counting') = 1 /\ Cardinality(FreshTokens') + 1 <= ResetLimit
      BY <2>1, <2>3, <2>4, LimitTypes, FS_EmptySet
    <3> QED
      BY <2>1, <3>1, LimitTypes DEF LimitInv
  <2>5. CASE Counting # {}
    <3>1. "limit" \in shared'
      BY <1>3, <2>5 DEF ReadResetCount, Counting
    <3> QED
      BY <2>1, <2>3, <3>1, LimitTypes DEF LimitInv
  <2> QED
    BY <2>4, <2>5
<1>4. ASSUME NEW q \in Requests, ReadReset(q)
      PROVE  LimitInv'
  <2>1. FreshTokens' \subseteq FreshTokens /\ Counting' \subseteq Counting
    BY <1>4
       DEF ReadReset, rowVars, historyVars, sessionVars, Share, FreshTokens,
           Counting, FreshTokens, TypeOK
  <2>2. "limit" \in shared => "limit" \in shared'
    BY <1>4 DEF ReadReset, rowVars, historyVars, sessionVars, Share, FreshTokens
  <2> QED
    BY <2>1, <2>2, FewerTokens
<1>5. ASSUME NEW q \in Requests, CommitLogin(q)
      PROVE  LimitInv'
  <2>1. FreshTokens' \subseteq FreshTokens /\ Counting' \subseteq Counting
    BY <1>5 DEF CommitLogin, Replace, Return, Forget, Counting, FreshTokens, TypeOK
  <2>2. "limit" \in shared => "limit" \in shared'
    BY <1>5 DEF CommitLogin, Replace, Return, Forget
  <2> QED
    BY <2>1, <2>2, FewerTokens
<1>6. ASSUME NEW q \in Requests, CommitLogout(q)
      PROVE  LimitInv'
  <2>1. FreshTokens' \subseteq FreshTokens /\ Counting' \subseteq Counting
    BY <1>6 DEF CommitLogout, Delete, Return, Forget, Counting, FreshTokens, TypeOK
  <2>2. "limit" \in shared => "limit" \in shared'
    BY <1>6 DEF CommitLogout, Delete, Return, Forget
  <2> QED
    BY <2>1, <2>2, FewerTokens
<1>7. ASSUME NEW q \in Requests, CommitSwitch(q)
      PROVE  LimitInv'
  <2>1. FreshTokens' \subseteq FreshTokens /\ Counting' \subseteq Counting
    BY <1>7 DEF CommitSwitch, Replace, Return, Forget, Counting, FreshTokens, TypeOK
  <2>2. "limit" \in shared => "limit" \in shared'
    BY <1>7 DEF CommitSwitch, Replace, Return, Forget
  <2> QED
    BY <2>1, <2>2, FewerTokens
<1>8. ASSUME NEW q \in Requests, CommitResetToken(q)
      PROVE  LimitInv'
  <2>1. PICK t \in Tokens : token[t] = "none" /\ token' = [token EXCEPT ![t] = "unused"]
    BY <1>8 DEF CommitResetToken
  <2>2. FreshTokens' = FreshTokens \cup {t} /\ t \notin FreshTokens
    BY <2>1 DEF FreshTokens, TypeOK
  <2>3. Counting' = Counting \ {q} /\ q \in Counting /\ UNCHANGED shared
    BY <1>8 DEF CommitResetToken, Counting, Return, Forget, TypeOK
  <2>4. /\ Cardinality(FreshTokens') = Cardinality(FreshTokens) + 1
        /\ Cardinality(Counting') = Cardinality(Counting) - 1
    BY <2>2, <2>3, LimitTypes, FS_AddElement, FS_RemoveElement
  <2> QED
    BY <2>3, <2>4, LimitTypes DEF LimitInv
<1>9. ASSUME NEW q \in Requests, CommitReset(q)
      PROVE  LimitInv'
  <2>1. FreshTokens' \subseteq FreshTokens /\ Counting' \subseteq Counting
    BY <1>9
       DEF CommitReset, Delete, ReturnFromReset, Forget, Live, Counting,
           FreshTokens, TypeOK, RequestInv
  <2>2. "limit" \in shared => "limit" \in shared'
    BY <1>9 DEF CommitReset, Delete, ReturnFromReset, Forget, Live
  <2> QED
    BY <2>1, <2>2, FewerTokens
<1>10. ASSUME NEW q \in Requests, Abort(q)
      PROVE  LimitInv'
  <2>1. FreshTokens' \subseteq FreshTokens /\ Counting' \subseteq Counting
    BY <1>10
       DEF Abort, Return, Forget, rowVars, historyVars, sessionVars, Counting,
           FreshTokens, TypeOK
  <2>2. "limit" \in shared => "limit" \in shared'
    BY <1>10 DEF Abort, Return, Forget, rowVars, historyVars, sessionVars
  <2> QED
    BY <2>1, <2>2, FewerTokens
<1>11. ASSUME NEW s \in Sessions, SessionExpires(s)
      PROVE  LimitInv'
  <2>1. FreshTokens' \subseteq FreshTokens /\ Counting' \subseteq Counting
    BY <1>11
       DEF SessionExpires, Delete, requestVars, overlapVars, Live, Counting,
           FreshTokens, TypeOK
  <2>2. "limit" \in shared => "limit" \in shared'
    BY <1>11 DEF SessionExpires, Delete, requestVars, overlapVars, Live
  <2> QED
    BY <2>1, <2>2, FewerTokens
<1>12. ASSUME NEW t \in Tokens, HourPasses(t)
      PROVE  LimitInv'
  <2>1. FreshTokens' \subseteq FreshTokens /\ Counting' \subseteq Counting
    BY <1>12
       DEF HourPasses, FreshTokens, requestVars, historyVars, sessionVars,
           overlapVars, Counting, FreshTokens, TypeOK
  <2>2. "limit" \in shared => "limit" \in shared'
    BY <1>12
       DEF HourPasses, FreshTokens, requestVars, historyVars, sessionVars,
           overlapVars
  <2> QED
    BY <2>1, <2>2, FewerTokens
<1>13. CASE UNCHANGED vars
  BY <1>13
     DEF vars, rowVars, requestVars, overlapVars, LimitInv, FreshTokens,
         Counting
<1> QED
  BY <1>1, <1>2, <1>3, <1>4, <1>5, <1>6, <1>7, <1>8, <1>9, <1>10, <1>11, <1>12,
     <1>13
     DEF Next, Read, Commit

LEMMA LimitInvariant == Spec => []LimitInv
<1> QED
  BY TypeInvariant, LimitInit, LimitStep, PTL DEF Spec

\* ResetLimitHeld: no more than ResetLimit tokens are ever fresh, but for one
\* more for each further request if several count them at once.
THEOREM ResetsAreLimited == Spec => []ResetLimitHeld
<1>1. LimitInv => ResetLimitHeld
  BY LimitTypes DEF LimitInv, ResetLimitHeld
<1> QED
  BY <1>1, LimitInvariant, PTL

=============================================================================
