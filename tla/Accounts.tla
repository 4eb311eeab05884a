------------------------------ MODULE Accounts ------------------------------
(***************************************************************************)
(* Accounts and sessions (src/src/auth.rs, src/src/api/auth.rs,            *)
(* src/src/api/users.rs): login with lockout, the middleware that admits   *)
(* requests, activity, logout, change of password, the administration of   *)
(* users and the hourly clean-up.                                          *)
(*                                                                         *)
(* A request is admitted in one database call (require_auth) and does its  *)
(* work in another; it carries the user and the role it was admitted with. *)
(* Between the two the account may be demoted, disabled, deleted or given  *)
(* a new password by somebody else.  Times are counted in ticks.           *)
(***************************************************************************)
EXTENDS Integers

CONSTANTS
  Account,      \* users.id; one that is deleted may be given out again
  First,        \* the account made at the first start
  Token,        \* the tokens of sessions
  Request,      \* bounds the requests that are under way at once
  MaxFailed,    \* MAX_FAILED_ATTEMPTS
  Lockout,      \* LOCKOUT_MS
  AdminIdle,    \* admin_idle_minutes
  AdminLimit,   \* effective_admin_session_hours, at least one
  UserLimit,    \* operator_session_days, at least one
  MaxFaults,    \* bound on calls that break off between two statements
  NoSession, NoRequest

ASSUME AccountsAssumption ==
  /\ First \in Account
  /\ MaxFailed \in Nat \ {0}
  /\ AdminIdle \in Nat \ {0} /\ AdminLimit \in Nat \ {0} /\ UserLimit \in Nat \ {0}
  /\ Lockout \in Nat \ {0}
  /\ MaxFaults \in Nat

Role == {"admin", "user"}

VARIABLES
  role,      \* users.role, "none" for an account that does not exist
  disabled,  \* users.disabled
  failed,    \* users.failed_attempts
  locked,    \* users.locked_until, as the time left
  guesses,   \* history: wrong passwords looked at by login since the account was
             \* last free of them (a right one, a new one, the end of a lock)
  session,   \* the sessions table, by token
  request,   \* what a request under way was admitted with
  faults,
  torn       \* history: accounts whose revocation broke off

users == <<role, disabled, failed, locked, guesses>>
vars  == <<users, session, request, faults, torn>>

(* left is the time until expires_at, idle that since last_activity, age   *)
(* that since created_at.  policy and current are history: the role that   *)
(* expires_at was computed for, and whether the session was made or kept   *)
(* under the account's present password.                                   *)
Session == [user : Account, policy : Role, current : BOOLEAN, left : Nat,
            idle : 0..AdminIdle, age : 0..AdminLimit]

Admitted == [user : Account, role : Role, token : Token]

Live      == {t \in Token : session[t] # NoSession}
Of(u)     == {t \in Live : session[t].user = u}
UnderWay  == {r \in Request : request[r] # NoRequest}
Exists(u) == role[u] # "none"
Admins    == {u \in Account : role[u] = "admin" /\ ~disabled[u]}

Without(S) == [t \in Token |-> IF t \in S THEN NoSession ELSE session[t]]

-----------------------------------------------------------------------------
(* bootstrap_admin has run.                                                *)
Init ==
  /\ role = [u \in Account |-> IF u = First THEN "admin" ELSE "none"]
  /\ disabled = [u \in Account |-> FALSE]
  /\ failed = [u \in Account |-> 0]
  /\ locked = [u \in Account |-> 0]
  /\ guesses = [u \in Account |-> 0]
  /\ session = [t \in Token |-> NoSession]
  /\ request = [r \in Request |-> NoRequest]
  /\ faults = 0
  /\ torn = {}

Limit(policy) == IF policy = "admin" THEN AdminLimit ELSE UserLimit

(* A token is 32 random bytes: it was never given out before.              *)
Unused(t) == t \notin Live /\ \A r \in UnderWay : request[r].token # t

(* Mutant: the lock is not looked at.                                      *)
MayTryLocked(u) == Exists(u)

MayTry(u) == Exists(u) /\ locked[u] = 0

(* login with the right password, and create_session.                      *)
Login(u, t) ==
  /\ MayTry(u) /\ ~disabled[u] /\ Unused(t)
  /\ failed' = [failed EXCEPT ![u] = 0]
  /\ guesses' = [guesses EXCEPT ![u] = 0]
  /\ session' = [session EXCEPT ![t] =
       [user |-> u, policy |-> role[u], current |-> TRUE,
        left |-> Limit(role[u]), idle |-> 0, age |-> 0]]
  /\ UNCHANGED <<role, disabled, locked, request, faults, torn>>

(* login with a wrong one, disabled or not.                                *)
LoginFails(u) ==
  /\ MayTry(u)
  /\ guesses' = [guesses EXCEPT ![u] = @ + 1]
  /\ IF failed[u] + 1 >= MaxFailed
     THEN /\ failed' = [failed EXCEPT ![u] = 0]
          /\ locked' = [locked EXCEPT ![u] = Lockout]
     ELSE /\ failed' = [failed EXCEPT ![u] = @ + 1]
          /\ UNCHANGED locked
  /\ UNCHANGED <<role, disabled, session, request, faults, torn>>

Expired(t) ==
  \/ session[t].left = 0
  \/ /\ role[session[t].user] = "admin"
     /\ session[t].idle >= AdminIdle \/ session[t].age >= AdminLimit

(* require_auth and require_admin: look the session up and pass the user   *)
(* on with the role of this moment.                                        *)
Admit(r, t) ==
  /\ request[r] = NoRequest
  /\ t \in Live /\ ~Expired(t) /\ ~disabled[session[t].user]
  /\ request' = [request EXCEPT ![r] =
       [user |-> session[t].user, role |-> role[session[t].user], token |-> t]]
  /\ UNCHANGED <<users, session, faults, torn>>

(* The same for a session that has run out: it is deleted on the way.      *)
Reject(t) ==
  /\ t \in Live /\ Expired(t)
  /\ session' = Without({t})
  /\ UNCHANGED <<users, request, faults, torn>>

-----------------------------------------------------------------------------
(* What an admitted request does.                                          *)

Finish(r) == r \in UnderWay /\ request' = [request EXCEPT ![r] = NoRequest]

(* Anything that leaves users and sessions alone: a request that only      *)
(* reads, or one that is refused without a look at a password.             *)
Serve(r) ==
  /\ Finish(r)
  /\ UNCHANGED <<users, session, faults, torn>>

(* Mutant: activity prolongs any session.                                  *)
TouchedProlongs(s, by) ==
  [user |-> s.user, policy |-> s.policy, current |-> s.current,
   left |-> Limit(by), idle |-> 0, age |-> s.age]

(* touch_session: only a user's session is prolonged.                      *)
Touched(s, by) ==
  IF by = "admin" THEN [s EXCEPT !.idle = 0]
  ELSE [user |-> s.user, policy |-> "user", current |-> s.current,
        left |-> UserLimit, idle |-> 0, age |-> s.age]

(* activity, with the role the request was admitted with.                  *)
Touch(r) ==
  LET t == request[r].token IN
  /\ Finish(r)
  /\ t \in Live
  /\ session' = [session EXCEPT ![t] = Touched(@, request[r].role)]
  /\ UNCHANGED <<users, faults, torn>>

Logout(r) ==
  /\ Finish(r)
  /\ session' = Without({request[r].token})
  /\ UNCHANGED <<users, faults, torn>>

(* u has a new password, given by the session keep if any; those in gone   *)
(* are deleted.                                                            *)
Renewed(u, keep, gone) ==
  [t \in Token |-> IF t \in gone THEN NoSession
                   ELSE IF t \in Of(u) THEN [session[t] EXCEPT !.current = (t = keep)]
                   ELSE session[t]]

Unlock(u) ==
  /\ failed' = [failed EXCEPT ![u] = 0]
  /\ locked' = [locked EXCEPT ![u] = 0]
  /\ guesses' = [guesses EXCEPT ![u] = 0]

(* Mutant: the other sessions stay.                                        *)
ChangePasswordQuietly(r) ==
  /\ Finish(r)
  /\ Exists(request[r].user)
  /\ Unlock(request[r].user)
  /\ session' = Renewed(request[r].user, request[r].token, {})
  /\ UNCHANGED <<role, disabled, faults, torn>>

(* change_password, the present password being right: all other sessions   *)
(* of the user go.                                                         *)
ChangePassword(r) ==
  LET u == request[r].user
      t == request[r].token
  IN
  /\ Finish(r)
  /\ Exists(u)
  /\ Unlock(u)
  /\ session' = Renewed(u, t, Of(u) \ {t})
  /\ UNCHANGED <<role, disabled, faults, torn>>

(* change_password, the present password being wrong: it is looked at      *)
(* whatever the lock says, and nothing counts it.                          *)
ChangePasswordRefused(r) ==
  /\ Finish(r)
  /\ Exists(request[r].user)
  /\ UNCHANGED <<users, session, faults, torn>>

ByAdmin(r) == Finish(r) /\ request[r].role = "admin"

CreateUser(r, u, new) ==
  /\ ByAdmin(r)
  /\ role[u] = "none"
  /\ role' = [role EXCEPT ![u] = new]
  /\ UNCHANGED <<disabled, failed, locked, guesses, session, faults, torn>>

(* Mutant: it is enough that nobody removes himself.                       *)
MayLoseAny(u) == TRUE

(* An administrator may go only while two are able to work.                *)
MayLose(u) == role[u] = "admin" => \E a, b \in Admins : a # b

(* The body of an update: each part may be missing.                        *)
Patch == [role : Role \cup {"keep"}, disabled : {"yes", "no", "keep"},
          password : BOOLEAN]

RoleAfter(u, p) == IF p.role = "keep" THEN role[u] ELSE p.role
DisabledAfter(u, p) == IF p.disabled = "keep" THEN disabled[u] ELSE p.disabled = "yes"

MayUpdate(r, u, p) ==
  /\ ByAdmin(r)
  /\ Exists(u)
  /\ p.role # "keep" \/ p.disabled # "keep" => u # request[r].user
  /\ p.role = "user" \/ p.disabled = "yes" => MayLose(u)

(* Mutant: a change of role leaves the sessions to run out.                *)
RevokesUnlessRole(u, p) == p.disabled = "yes" \/ p.password

(* The parts of an update that end every session of the account.           *)
Revokes(u, p) == RoleAfter(u, p) # role[u] \/ p.disabled = "yes" \/ p.password

UpdateUser(r, u, p) ==
  LET gone == IF Revokes(u, p) THEN Of(u) ELSE {} IN
  /\ MayUpdate(r, u, p)
  /\ role' = [role EXCEPT ![u] = RoleAfter(u, p)]
  /\ disabled' = [disabled EXCEPT ![u] = DisabledAfter(u, p)]
  /\ IF p.password
     THEN Unlock(u) /\ session' = Renewed(u, NoSession, gone)
     ELSE session' = Without(gone) /\ UNCHANGED <<failed, locked, guesses>>
  /\ torn' = IF Revokes(u, p) THEN torn \ {u} ELSE torn
  /\ UNCHANGED faults

(* The row goes, and the sessions with it (ON DELETE CASCADE).             *)
DeleteUser(r, u) ==
  /\ ByAdmin(r)
  /\ Exists(u) /\ u # request[r].user /\ MayLose(u)
  /\ role' = [role EXCEPT ![u] = "none"]
  /\ disabled' = [disabled EXCEPT ![u] = FALSE]
  /\ Unlock(u)
  /\ session' = Without(Of(u))
  /\ torn' = torn \ {u}
  /\ UNCHANGED faults

-----------------------------------------------------------------------------
(* Faults: a call breaks off (an error, or the end of the process) between *)
(* two of its statements.  A change of role is a transaction with the      *)
(* deletion of the sessions; what comes after it is not.                   *)
BreakOff(r, u) ==
  /\ Finish(r)
  /\ faults < MaxFaults /\ faults' = faults + 1
  /\ torn' = torn \cup {u}
  /\ UNCHANGED role

(* change_password, before the other sessions are deleted.                 *)
ChangePasswordTorn(r) ==
  LET u == request[r].user IN
  /\ BreakOff(r, u)
  /\ Exists(u)
  /\ Unlock(u)
  /\ session' = Renewed(u, request[r].token, {})
  /\ UNCHANGED disabled

(* update, after the account was disabled or after it got its password.    *)
(* With a change of role in it the sessions are gone already, and what has *)
(* been done is a smaller update.                                          *)
UpdateUserTorn(r, u, p) ==
  /\ MayUpdate(r, u, p) /\ RoleAfter(u, p) = role[u]
  /\ BreakOff(r, u)
  /\ disabled' = [disabled EXCEPT ![u] = DisabledAfter(u, p)]
  /\ \/ p.disabled = "yes" /\ UNCHANGED <<failed, locked, guesses, session>>
     \/ /\ p.disabled # "yes" /\ p.password
        /\ Unlock(u) /\ session' = Renewed(u, NoSession, {})

Restart ==
  /\ UnderWay # {}
  /\ request' = [r \in Request |-> NoRequest]
  /\ UNCHANGED <<users, session, faults, torn>>

-----------------------------------------------------------------------------
(* Mutant: the clean-up goes by the administrators' idle limit.            *)
OverdueWhenIdle == {t \in Live : session[t].idle >= AdminIdle /\ session[t].policy = "admin"}

Overdue == {t \in Live : session[t].left = 0}

(* run_janitor.                                                            *)
Janitor ==
  /\ Overdue # {}
  /\ session' = Without(Overdue)
  /\ UNCHANGED <<users, request, faults, torn>>

Less(n) == IF n > 0 THEN n - 1 ELSE 0
More(n, top) == IF n < top THEN n + 1 ELSE n

Older(s) ==
  [user |-> s.user, policy |-> s.policy, current |-> s.current, left |-> Less(s.left),
   idle |-> More(s.idle, AdminIdle), age |-> More(s.age, AdminLimit)]

Tick ==
  /\ locked' = [u \in Account |-> Less(locked[u])]
  /\ guesses' = [u \in Account |-> IF locked[u] = 1 THEN 0 ELSE guesses[u]]
  /\ session' = [t \in Token |-> IF t \in Live THEN Older(session[t]) ELSE NoSession]
  /\ UNCHANGED <<role, disabled, failed, request, faults, torn>>

Handle(r) ==
  \/ Serve(r) \/ Touch(r) \/ Logout(r)
  \/ ChangePassword(r) \/ ChangePasswordRefused(r) \/ ChangePasswordTorn(r)
  \/ \E u \in Account :
       \/ \E new \in Role : CreateUser(r, u, new)
       \/ \E p \in Patch : UpdateUser(r, u, p) \/ UpdateUserTorn(r, u, p)
       \/ DeleteUser(r, u)

Next ==
  \/ \E u \in Account : LoginFails(u) \/ \E t \in Token : Login(u, t)
  \/ \E t \in Token : Reject(t) \/ \E r \in Request : Admit(r, t)
  \/ \E r \in Request : Handle(r)
  \/ Restart
  \/ Janitor
  \/ Tick

Spec == Init /\ [][Next]_vars

(* The clean-up comes round every hour, and time goes on.  Nobody has to   *)
(* send requests.                                                          *)
FairSpec == Spec /\ WF_vars(Janitor) /\ WF_vars(Tick)

-----------------------------------------------------------------------------
TypeOK ==
  /\ role \in [Account -> Role \cup {"none"}]
  /\ disabled \in [Account -> BOOLEAN]
  /\ failed \in [Account -> 0..(MaxFailed - 1)]
  /\ locked \in [Account -> 0..Lockout]
  /\ guesses \in [Account -> Nat]
  /\ session \in [Token -> Session \cup {NoSession}]
  /\ request \in [Request -> Admitted \cup {NoRequest}]
  /\ faults \in 0..MaxFaults
  /\ torn \subseteq Account

(* Somebody can always administer the system: however many administrators  *)
(* demote, disable or delete each other at the same time, one who is       *)
(* enabled remains.                                                        *)
AdminRemains == Admins # {}

(* A session lives by the rules of the role its account has now.  A change *)
(* of role takes effect at once, and no activity that was admitted under   *)
(* the old role can prolong a session by the old rules (users.rs:181-182). *)
SessionFollowsRole ==
  \A t \in Live : session[t].policy = role[session[t].user]

(* An administrator's session ends AdminLimit after the login: nothing he  *)
(* or anybody else does moves that end (auth.rs:307-309).                  *)
AbsoluteLimit ==
  \A t \in Live : role[session[t].user] = "admin" =>
    session[t].left + session[t].age <= AdminLimit

(* Guessing from outside is slow: whatever logins, password changes and    *)
(* clock ticks do to the counter and the lock, MaxFailed wrong passwords   *)
(* are the most that login looks at before a lock has run out or somebody  *)
(* knew a right one.  This is about those who are not logged in: from      *)
(* within a session change_password looks at any number of wrong ones, and *)
(* leaves the counter and the lock as they are (api/auth.rs:356-363).      *)
GuessesLimited == \A u \in Account : guesses[u] <= MaxFailed

(* A disabled account has no sessions, and every session was made under    *)
(* the present password or is the one that set it, except where the call   *)
(* that should have seen to it broke off.                                  *)
RevocationComplete ==
  \A u \in Account \ torn : \A t \in Of(u) : ~disabled[u] /\ session[t].current

(* The table does not fill up: a session of an administrator disappears    *)
(* however much it is used, any other one once it is used no more.         *)
SessionsEnd ==
  \A t \in Token :
    /\ (t \in Live /\ session[t].policy = "admin") ~> (t \notin Live)
    /\ <>[](~(t \in Live /\ session[t].idle = 0)) => <>[](t \notin Live)
=============================================================================
