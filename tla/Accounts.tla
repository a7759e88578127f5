------------------------------ MODULE Accounts ------------------------------
(***************************************************************************)
(* The Dashboard's account: sign-in with the counter of failures, sessions *)
(* and the version that revokes them, the change of the password and its   *)
(* reset from the command line.  Every await between two calls to MySQL or *)
(* Redis is a step at which the other callers may run.                     *)
(***************************************************************************)
EXTENDS Naturals

CONSTANTS
  Callers,       \* requests under way at once
  Passwords,
  FailThreshold, \* FAIL_THRESHOLD
  MaxFails,      \* bounds the counter, which parallel sign-ins take past it
  MaxVersion,    \* bounds users.token_version
  MaxAccountFaults

ASSUME AccountsAssumption ==
  /\ FailThreshold \in Nat /\ MaxFails \in Nat /\ MaxVersion \in Nat /\ MaxAccountFaults \in Nat

VARIABLES
  user,      \* the row: password, version, and whether last_login_at is set
  fails,     \* auth:fail:<username>
  expires,   \* that key has a time to live
  sessions,  \* tokens that are signed and not expired
  call,      \* per caller: where it is, with what it read
  accountFaults
accountVars == <<user, fails, expires, sessions, call, accountFaults>>

Out == [at |-> "out"]
AccountsInit ==
  /\ user \in [password : Passwords, version : {0}, welcomed : {TRUE}]
  /\ fails = 0 /\ expires = FALSE /\ sessions = {}
  /\ call = [c \in Callers |-> Out] /\ accountFaults = 0

At(c, place) == call[c].at = place
To(c, state) == call' = [call EXCEPT ![c] = state]

Session(version, proved) == [version |-> version, proved |-> proved]
---------------------------------------------------------------------------
(* assertNotLocked.                                                        *)
TryLogin(c, password) ==
  /\ At(c, "out") /\ fails < FailThreshold
  /\ To(c, [at |-> "asked", password |-> password])
  /\ UNCHANGED <<user, fails, expires, sessions, accountFaults>>

ReadUser(c) ==
  /\ At(c, "asked")
  /\ To(c, [at |-> "compared", password |-> call[c].password, row |-> user])
  /\ UNCHANGED <<user, fails, expires, sessions, accountFaults>>

(* recordFailure: INCR, and EXPIRE by the caller that made it one.         *)
RecordFailureForever(c) ==
  /\ At(c, "compared") /\ call[c].password # call[c].row.password
  /\ fails < MaxFails /\ fails' = fails + 1
  /\ To(c, Out)
  /\ UNCHANGED <<user, expires, sessions, accountFaults>>

RecordFailure(c) ==
  /\ At(c, "compared") /\ call[c].password # call[c].row.password
  /\ fails < MaxFails /\ fails' = fails + 1
  /\ To(c, IF fails = 0 THEN [at |-> "expire"] ELSE Out)
  /\ UNCHANGED <<user, expires, sessions, accountFaults>>

ExpireCounter(c) ==
  /\ At(c, "expire") /\ expires' = (fails > 0) /\ To(c, Out)
  /\ UNCHANGED <<user, fails, sessions, accountFaults>>

ClearFailures(c) ==
  /\ At(c, "compared") /\ call[c].password = call[c].row.password
  /\ fails' = 0 /\ expires' = FALSE
  /\ To(c, [call[c] EXCEPT !.at = "proved"])
  /\ UNCHANGED <<user, sessions, accountFaults>>

TouchLastLogin(c) ==
  /\ At(c, "proved") /\ user' = [user EXCEPT !.welcomed = TRUE]
  /\ To(c, [call[c] EXCEPT !.at = "signing"])
  /\ UNCHANGED <<fails, expires, sessions, accountFaults>>

(* The token has the version that was read with the password's hash.       *)
SignSessionLate(c) ==
  /\ At(c, "signing")
  /\ sessions' = sessions \cup {Session(user.version, call[c].password)}
  /\ To(c, Out)
  /\ UNCHANGED <<user, fails, expires, accountFaults>>

SignSession(c) ==
  /\ At(c, "signing")
  /\ sessions' = sessions \cup {Session(call[c].row.version, call[c].password)}
  /\ To(c, Out)
  /\ UNCHANGED <<user, fails, expires, accountFaults>>
---------------------------------------------------------------------------
(* JwtAuthGuard, before each of the three handlers below.                  *)
Authorized(s) == s \in sessions /\ s.version = user.version

PassGuard(c, s, handler) ==
  /\ At(c, "out") /\ Authorized(s)
  /\ To(c, [at |-> handler, session |-> s])
  /\ UNCHANGED <<user, fails, expires, sessions, accountFaults>>

ReadPassword(c, old, new) ==
  /\ At(c, "change") /\ old = user.password /\ new # old
  /\ To(c, [at |-> "write", password |-> new])
  /\ UNCHANGED <<user, fails, expires, sessions, accountFaults>>

RefuseChange(c) ==
  /\ At(c, "change") /\ To(c, Out)
  /\ UNCHANGED <<user, fails, expires, sessions, accountFaults>>

NewVersion == user.version < MaxVersion

WritePassword(c) ==
  /\ At(c, "write") /\ NewVersion
  /\ user' = [password |-> call[c].password, version |-> user.version + 1, welcomed |-> TRUE]
  /\ To(c, Out)
  /\ UNCHANGED <<fails, expires, sessions, accountFaults>>

Logout(c) ==
  /\ At(c, "logout") /\ NewVersion
  /\ user' = [user EXCEPT !.version = @ + 1]
  /\ To(c, Out)
  /\ UNCHANGED <<fails, expires, sessions, accountFaults>>

(* updateAccount answers with a token of the session that asked.           *)
RefreshSession(c) ==
  /\ At(c, "account")
  /\ sessions' = sessions \cup {call[c].session}
  /\ To(c, Out)
  /\ UNCHANGED <<user, fails, expires, accountFaults>>

(* The command line: a temporary password.                                 *)
ResetPassword(password) ==
  /\ NewVersion
  /\ user' = [password |-> password, version |-> user.version + 1, welcomed |-> FALSE]
  /\ UNCHANGED <<fails, expires, sessions, call, accountFaults>>
---------------------------------------------------------------------------
SessionExpires(s) ==
  /\ s \in sessions /\ sessions' = sessions \ {s}
  /\ UNCHANGED <<user, fails, expires, call, accountFaults>>

CounterExpires ==
  /\ expires /\ expires' = FALSE /\ fails' = 0
  /\ UNCHANGED <<user, sessions, call, accountFaults>>

(* The server stops, or MySQL or Redis refuses the next call of a handler. *)
CallFails(c) ==
  /\ ~At(c, "out") /\ accountFaults < MaxAccountFaults
  /\ accountFaults' = accountFaults + 1 /\ To(c, Out)
  /\ UNCHANGED <<user, fails, expires, sessions>>

CallerStep(c) ==
  \/ ReadUser(c) \/ RecordFailure(c) \/ ExpireCounter(c)
  \/ ClearFailures(c) \/ TouchLastLogin(c) \/ SignSession(c)

AccountsNext ==
  \/ \E c \in Callers :
       \/ CallerStep(c) \/ CallFails(c)
       \/ RefuseChange(c) \/ WritePassword(c) \/ Logout(c) \/ RefreshSession(c)
       \/ \E p \in Passwords : TryLogin(c, p)
       \/ \E s \in sessions, handler \in {"change", "logout", "account"} : PassGuard(c, s, handler)
       \/ \E old, new \in Passwords : ReadPassword(c, old, new)
  \/ \E p \in Passwords : ResetPassword(p)
  \/ \E s \in sessions : SessionExpires(s)
  \/ CounterExpires

AccountsSpec == AccountsInit /\ [][AccountsNext]_accountVars

(* Node resumes awaited calls, and Redis drops a key whose time is up; which *)
(* of them comes next does not matter.                                     *)
AccountsStep == CounterExpires \/ \E c \in Callers : CallerStep(c)
AccountsFairness == WF_accountVars(AccountsStep)
---------------------------------------------------------------------------
AccountsTypeOK ==
  /\ user \in [password : Passwords, version : 0 .. MaxVersion, welcomed : BOOLEAN]
  /\ fails \in 0 .. MaxFails /\ expires \in BOOLEAN
  /\ sessions \subseteq [version : 0 .. MaxVersion, proved : Passwords]

\* A session that the guard lets through was opened with the password that is
\* valid now, however sign-ins, changes, resets and sign-outs interleave: a
\* sign-in that read the row before a change does not outlive it.
SessionsProved == \A s \in sessions : Authorized(s) => s.proved = user.password

\* A locked account opens again by itself, unless a call was lost between the
\* increment of the counter and the setting of its time to live.
LockEnds == []<>(fails < FailThreshold \/ accountFaults > 0)
=============================================================================
