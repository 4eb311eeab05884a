--------------------------- MODULE AccountsProof ---------------------------
(***************************************************************************)
(* What holds of Accounts for every number of accounts, sessions and       *)
(* requests, every limit and any number of calls that break off.           *)
(***************************************************************************)
EXTENDS Accounts, TLAPS

(***************************************************************************)
(* The invariant.  A request that is under way carries a user and a role   *)
(* of the past; while its session is still there they are the present ones *)
(* (RequestInv), because whatever changes them deletes the session in the  *)
(* same database call, and a token is never given out twice.  That is what *)
(* keeps the limits of a session those of its account (RoleInv).           *)
(***************************************************************************)
RequestInv ==
  \A r \in UnderWay : request[r].token \in Live =>
    /\ session[request[r].token].user = request[r].user
    /\ session[request[r].token].policy = request[r].role

RoleInv == SessionFollowsRole

LimitInv ==
  \A t \in Live : session[t].policy = "admin" =>
    session[t].left + session[t].age <= AdminLimit

(* What has been looked at is in the counter, or the account is locked.    *)
GuessInv ==
  \A u \in Account :
    IF locked[u] > 0 THEN failed[u] = 0 /\ guesses[u] = MaxFailed
                     ELSE guesses[u] = failed[u]

IInv == TypeOK /\ AdminRemains /\ RequestInv /\ RoleInv /\ LimitInv /\ GuessInv
                /\ RevocationComplete

-----------------------------------------------------------------------------
LEMMA InitInv == Init => IInv
<1> SUFFICES ASSUME Init PROVE IInv
  OBVIOUS
<1>1. Live = {} /\ UnderWay = {}
  BY DEF Init, Live, UnderWay
<1>2. TypeOK
  BY AccountsAssumption DEF Init, TypeOK, Role
<1>3. AdminRemains
  BY AccountsAssumption DEF Init, AdminRemains, Admins
<1>4. RequestInv /\ RoleInv /\ LimitInv /\ RevocationComplete
  BY <1>1 DEF RequestInv, RoleInv, SessionFollowsRole, LimitInv, RevocationComplete, Of
<1>5. ASSUME NEW u \in Account PROVE locked[u] = 0 /\ guesses[u] = 0 /\ failed[u] = 0
  BY DEF Init
<1>6. QED
  BY <1>2, <1>3, <1>4, <1>5 DEF IInv, GuessInv

(* The updates of single fields keep a session a session.                  *)
LEMMA SessionFields ==
  ASSUME NEW s \in Session
  PROVE  /\ \A by : Touched(s, by) \in Session
         /\ \A c \in BOOLEAN : [s EXCEPT !.current = c] \in Session
         /\ Older(s) \in Session
<1>1. \A by : Touched(s, by) \in Session
  BY AccountsAssumption DEF Session, Role, Touched
<1>2. \A c \in BOOLEAN : [s EXCEPT !.current = c] \in Session
  BY DEF Session, Role
<1>3. Older(s) \in Session
  <2>1. /\ Less(s.left) \in Nat
        /\ More(s.idle, AdminIdle) \in 0..AdminIdle
        /\ More(s.age, AdminLimit) \in 0..AdminLimit
    BY AccountsAssumption DEF Session, Less, More
  <2>2. QED
    BY <2>1 DEF Session, Older
<1>4. QED
  BY <1>1, <1>2, <1>3

(* What Renewed and Without make of the table.                             *)
LEMMA TableType ==
  ASSUME TypeOK, NEW S \in SUBSET Token, NEW u, NEW keep
  PROVE  /\ Without(S) \in [Token -> Session \cup {NoSession}]
         /\ Renewed(u, keep, S) \in [Token -> Session \cup {NoSession}]
<1>1. Without(S) \in [Token -> Session \cup {NoSession}]
  BY DEF Without, TypeOK
<1>2. ASSUME NEW t \in Token PROVE Renewed(u, keep, S)[t] \in Session \cup {NoSession}
  <2>1. CASE t \in Of(u)
    BY <2>1, SessionFields DEF Renewed, Of, Live, TypeOK
  <2>2. CASE t \notin Of(u)
    BY <2>2 DEF Renewed, TypeOK
  <2>3. QED
    BY <2>1, <2>2
<1>3. QED
  BY <1>1, <1>2 DEF Renewed

(* Every step keeps the types.                                             *)
LEMMA TypeNext == IInv /\ [Next]_vars => TypeOK'
<1> SUFFICES ASSUME TypeOK, RoleInv, [Next]_vars PROVE TypeOK'
  BY DEF IInv
<1> USE DEF users
<1>1. ASSUME NEW u \in Account, NEW t \in Token, Login(u, t) PROVE TypeOK'
  <2>1. [user |-> u, policy |-> role[u], current |-> TRUE,
         left |-> Limit(role[u]), idle |-> 0, age |-> 0] \in Session
    BY <1>1, AccountsAssumption DEF TypeOK, Login, MayTry, Exists, Session, Limit, Role
  <2>2. QED
    BY <1>1, <2>1, AccountsAssumption DEF TypeOK, Login
<1>2. ASSUME NEW u \in Account, LoginFails(u) PROVE TypeOK'
  BY <1>2, AccountsAssumption DEF TypeOK, LoginFails
<1>3. ASSUME NEW r \in Request, NEW t \in Token, Admit(r, t) PROVE TypeOK'
  <2>1. session[t] \in Session /\ role[session[t].user] \in Role
    BY <1>3 DEF TypeOK, Admit, Live, Session, RoleInv, SessionFollowsRole
  <2>2. QED
    BY <1>3, <2>1 DEF TypeOK, Admit, Admitted, Session
<1>4. ASSUME NEW t \in Token, Reject(t) PROVE TypeOK'
  BY <1>4, TableType DEF TypeOK, Reject
<1>5. ASSUME NEW r \in Request, Serve(r) \/ ChangePasswordRefused(r) PROVE TypeOK'
  BY <1>5 DEF TypeOK, Serve, ChangePasswordRefused, Finish
<1>6. ASSUME NEW r \in Request, Touch(r) PROVE TypeOK'
  BY <1>6, SessionFields DEF TypeOK, Touch, Finish, Live
<1>7. ASSUME NEW r \in Request, Logout(r) PROVE TypeOK'
  <2>1. request[r].token \in Token
    BY <1>7 DEF TypeOK, Logout, Finish, UnderWay, Admitted
  <2>2. QED
    BY <1>7, <2>1, TableType DEF TypeOK, Logout, Finish
<1>8. ASSUME NEW r \in Request, ChangePassword(r) \/ ChangePasswordTorn(r) PROVE TypeOK'
  <2>1. request[r] \in Admitted
    BY <1>8 DEF TypeOK, ChangePassword, ChangePasswordTorn, BreakOff, Finish, UnderWay
  <2>2. session' \in [Token -> Session \cup {NoSession}]
    <3>1. Of(request[r].user) \ {request[r].token} \in SUBSET Token
      BY DEF Of, Live
    <3>2. QED
      BY <1>8, <3>1, TableType DEF ChangePassword, ChangePasswordTorn
  <2>3. QED
    BY <1>8, <2>1, <2>2, AccountsAssumption
       DEF TypeOK, ChangePassword, ChangePasswordTorn, BreakOff, Finish, Unlock, Admitted
<1>9. ASSUME NEW r \in Request, NEW u \in Account, NEW new \in Role, CreateUser(r, u, new)
      PROVE TypeOK'
  BY <1>9 DEF TypeOK, CreateUser, ByAdmin, Finish
<1>10. ASSUME NEW r \in Request, NEW u \in Account, NEW p \in Patch,
              UpdateUser(r, u, p) \/ UpdateUserTorn(r, u, p)
       PROVE TypeOK'
  <2>1. RoleAfter(u, p) \in Role
    BY <1>10 DEF TypeOK, Patch, RoleAfter, UpdateUser, UpdateUserTorn, MayUpdate, Exists
  <2>2. DisabledAfter(u, p) \in BOOLEAN
    BY DEF TypeOK, Patch, DisabledAfter
  <2>3. session' \in [Token -> Session \cup {NoSession}]
    <3>1. Of(u) \in SUBSET Token /\ session \in [Token -> Session \cup {NoSession}]
      BY DEF Of, Live, TypeOK
    <3>2. \/ \E S \in SUBSET Token :
                session' = Without(S) \/ session' = Renewed(u, NoSession, S)
          \/ session' = session
      BY <1>10, <3>1 DEF UpdateUser, UpdateUserTorn
    <3>3. QED
      BY <3>1, <3>2, TableType
  <2>4. /\ role' \in [Account -> Role \cup {"none"}]
        /\ disabled' \in [Account -> BOOLEAN]
    BY <1>10, <2>1, <2>2 DEF TypeOK, UpdateUser, UpdateUserTorn, BreakOff
  <2>5. /\ failed' \in [Account -> 0..(MaxFailed - 1)]
        /\ locked' \in [Account -> 0..Lockout]
        /\ guesses' \in [Account -> Nat]
    BY <1>10, AccountsAssumption DEF TypeOK, UpdateUser, UpdateUserTorn, Unlock
  <2>6. /\ request' \in [Request -> Admitted \cup {NoRequest}]
        /\ faults' \in 0..MaxFaults
        /\ torn' \subseteq Account
    BY <1>10, AccountsAssumption
       DEF TypeOK, UpdateUser, UpdateUserTorn, MayUpdate, ByAdmin, BreakOff, Finish
  <2>7. QED
    BY <2>3, <2>4, <2>5, <2>6 DEF TypeOK
<1>11. ASSUME NEW r \in Request, NEW u \in Account, DeleteUser(r, u) PROVE TypeOK'
  <2>1. session' \in [Token -> Session \cup {NoSession}]
    BY <1>11, TableType DEF DeleteUser, Of, Live
  <2>2. QED
    BY <1>11, <2>1, AccountsAssumption DEF TypeOK, DeleteUser, ByAdmin, Finish, Unlock
<1>12. CASE Restart
  BY <1>12 DEF TypeOK, Restart
<1>13. CASE Janitor
  BY <1>13, TableType DEF TypeOK, Janitor, Overdue, Live
<1>14. CASE Tick
  <2>1. session' \in [Token -> Session \cup {NoSession}]
    BY <1>14, SessionFields DEF TypeOK, Tick, Live
  <2>2. locked' \in [Account -> 0..Lockout] /\ guesses' \in [Account -> Nat]
    BY <1>14, AccountsAssumption DEF TypeOK, Tick, Less
  <2>3. QED
    BY <1>14, <2>1, <2>2 DEF TypeOK, Tick
<1>15. CASE UNCHANGED vars
  BY <1>15 DEF TypeOK, vars
<1>16. QED
  BY <1>1, <1>2, <1>3, <1>4, <1>5, <1>6, <1>7, <1>8, <1>9, <1>10, <1>11, <1>12, <1>13,
     <1>14, <1>15 DEF Next, Handle

(* Whoever loses the right to administer, another one keeps it.            *)
LEMMA AdminNext == TypeOK /\ AdminRemains /\ [Next]_vars => AdminRemains'
<1> SUFFICES ASSUME TypeOK, AdminRemains, [Next]_vars PROVE AdminRemains'
  OBVIOUS
<1> USE DEF AdminRemains, Admins
<1>1. CASE UNCHANGED <<role, disabled>>
  BY <1>1
<1>2. ASSUME NEW r \in Request, NEW u \in Account, NEW new \in Role, CreateUser(r, u, new)
      PROVE AdminRemains'
  BY <1>2 DEF TypeOK, CreateUser
<1>3. ASSUME NEW r \in Request, NEW u \in Account, NEW p \in Patch,
             UpdateUser(r, u, p) \/ UpdateUserTorn(r, u, p)
      PROVE AdminRemains'
  <2>1. /\ MayUpdate(r, u, p)
        /\ role' = [role EXCEPT ![u] = RoleAfter(u, p)]
        /\ disabled' = [disabled EXCEPT ![u] = DisabledAfter(u, p)]
    BY <1>3 DEF TypeOK, UpdateUser, UpdateUserTorn, BreakOff
  <2>2. CASE role[u] = "admin" /\ (p.role = "user" \/ p.disabled = "yes")
    <3>1. PICK a, b \in Admins : a # b
      BY <2>1, <2>2 DEF MayUpdate, MayLose
    <3>2. QED
      BY <2>1, <3>1 DEF TypeOK
  <2>3. CASE role[u] # "admin" \/ ~(p.role = "user" \/ p.disabled = "yes")
    <3>1. u \in Admins => RoleAfter(u, p) = "admin" /\ ~DisabledAfter(u, p)
      BY <2>3 DEF Patch, Role, RoleAfter, DisabledAfter
    <3>2. QED
      BY <2>1, <3>1 DEF TypeOK
  <2>4. QED
    BY <2>2, <2>3
<1>4. ASSUME NEW r \in Request, NEW u \in Account, DeleteUser(r, u) PROVE AdminRemains'
  <2>1. CASE role[u] = "admin"
    <3>1. PICK a, b \in Admins : a # b
      BY <1>4, <2>1 DEF DeleteUser, MayLose
    <3>2. QED
      BY <1>4, <3>1 DEF TypeOK, DeleteUser
  <2>2. CASE role[u] # "admin"
    BY <1>4, <2>2 DEF TypeOK, DeleteUser
  <2>3. QED
    BY <2>1, <2>2
<1>5. QED
  BY <1>1, <1>2, <1>3, <1>4
     DEF Next, Handle, Login, LoginFails, Admit, Reject, Serve, ChangePasswordRefused,
         Touch, Logout, ChangePassword,
         ChangePasswordTorn, BreakOff, Restart, Janitor, Tick, vars, users
-----------------------------------------------------------------------------
(* What a step leaves of a session that was there and still is.            *)
Kept(t) ==
  /\ session'[t].user = session[t].user
  /\ session'[t].policy = session[t].policy
  /\ role'[session[t].user] = role[session[t].user]
  /\ session[t].policy = "admin" => session'[t].left + session'[t].age <= AdminLimit

(* A session that is not touched, of an account that keeps its role.       *)
LEMMA Untouched ==
  ASSUME IInv, NEW t \in Live, session'[t] = session[t],
         role'[session[t].user] = role[session[t].user]
  PROVE  Kept(t)
BY DEF IInv, LimitInv, Kept

(* The sessions of u go or only change their mark; the others stay.        *)
LEMMA TableKept ==
  ASSUME NEW t \in Live, NEW u, NEW keep, NEW S \in SUBSET Token, TypeOK
  PROVE  /\ Without(S)[t] # NoSession => t \notin S /\ Without(S)[t] = session[t]
         /\ Renewed(u, keep, S)[t] # NoSession =>
              /\ t \notin S
              /\ \/ Renewed(u, keep, S)[t] = session[t]
                 \/ Renewed(u, keep, S)[t] = [session[t] EXCEPT !.current = (t = keep)]
BY DEF Without, Renewed, Live

LEMMA Marked ==
  ASSUME IInv, NEW t \in Live, NEW c \in BOOLEAN,
         session'[t] = [session[t] EXCEPT !.current = c],
         role'[session[t].user] = role[session[t].user]
  PROVE  Kept(t)
<1>1. session[t] \in Session
  BY DEF IInv, TypeOK, Live
<1>2. /\ session'[t].user = session[t].user /\ session'[t].policy = session[t].policy
      /\ session'[t].left = session[t].left /\ session'[t].age = session[t].age
  BY <1>1 DEF Session
<1>3. QED
  BY <1>2 DEF IInv, LimitInv, Kept

(* Touching keeps the rules, because the request knows the role.           *)
LEMMA TouchKept ==
  ASSUME IInv, NEW r \in Request, Touch(r), NEW t \in Live
  PROVE  Kept(t)
<1>0. /\ request[r] \in Admitted /\ session[t] \in Session
      /\ r \in UnderWay
  BY DEF IInv, TypeOK, Touch, Finish, UnderWay, Live
<1>1. CASE t # request[r].token
  <2>1. session'[t] = session[t] /\ role' = role
    BY <1>1 DEF Touch, users
  <2>2. QED
    BY <2>1, Untouched
<1>2. CASE t = request[r].token
  <2>1. session[t].user = request[r].user /\ session[t].policy = request[r].role
    BY <1>0, <1>2 DEF IInv, RequestInv
  <2>2. session'[t] = Touched(session[t], request[r].role) /\ role' = role
    BY <1>0, <1>2 DEF Touch, users, IInv, TypeOK, Live
  <2>3. CASE request[r].role = "admin"
    <3>1. /\ session'[t].user = session[t].user /\ session'[t].policy = session[t].policy
          /\ session'[t].left = session[t].left /\ session'[t].age = session[t].age
      BY <1>0, <2>2, <2>3 DEF Session, Touched
    <3>2. QED
      BY <2>2, <3>1 DEF IInv, LimitInv, Kept
  <2>4. CASE request[r].role = "user"
    BY <2>1, <2>2, <2>4 DEF Touched, Kept
  <2>5. QED
    BY <1>0, <2>3, <2>4 DEF Admitted, Role
<1>3. QED
  BY <1>1, <1>2

(* Time takes from one side what it gives to the other.                    *)
LEMMA TickKept ==
  ASSUME IInv, Tick, NEW t \in Live
  PROVE  Kept(t)
<1>1. session[t] \in Session /\ session'[t] = Older(session[t]) /\ role' = role
  BY DEF IInv, TypeOK, Tick, Live
<1>2. ASSUME session[t].policy = "admin"
      PROVE  session'[t].left + session'[t].age <= AdminLimit
  <2>1. session[t].left + session[t].age <= AdminLimit
    BY <1>2 DEF IInv, LimitInv
  <2>2. /\ session'[t].left = Less(session[t].left)
        /\ session'[t].age = More(session[t].age, AdminLimit)
    BY <1>1 DEF Older
  <2>3. /\ session[t].left \in Nat /\ session[t].age \in Nat /\ AdminLimit \in Nat
        /\ session[t].age <= AdminLimit
    BY <1>1, AccountsAssumption DEF Session
  <2>4. QED
    BY <2>1, <2>2, <2>3 DEF Less, More
<1>3. QED
  BY <1>1, <1>2 DEF Kept, Older

(* An update that changes the role ends the sessions of the account.       *)
LEMMA UpdateKept ==
  ASSUME IInv, NEW r \in Request, NEW u \in Account, NEW p \in Patch,
         UpdateUser(r, u, p) \/ UpdateUserTorn(r, u, p),
         NEW t \in Live, session'[t] # NoSession
  PROVE  Kept(t)
<1>0. TypeOK /\ session[t].user \in Account
  BY DEF IInv, TypeOK, Live, Session
<1>1. CASE UpdateUser(r, u, p)
  <2>1. PICK S \in SUBSET Token :
          /\ session' = Without(S) \/ session' = Renewed(u, NoSession, S)
          /\ Revokes(u, p) => S = Of(u)
    <3>1. Of(u) \in SUBSET Token
      BY DEF Of, Live
    <3>2. CASE p.password
      BY <1>1, <3>1, <3>2 DEF UpdateUser
    <3>3. CASE ~p.password
      BY <1>1, <3>1, <3>3 DEF UpdateUser
    <3>4. QED
      BY <3>2, <3>3
  <2>2. role'[session[t].user] = role[session[t].user]
    <3>1. CASE session[t].user # u
      BY <1>0, <1>1, <3>1 DEF UpdateUser, TypeOK
    <3>2. CASE session[t].user = u
      <4>1. t \in Of(u)
        BY <3>2 DEF Of
      <4>2. ~Revokes(u, p)
        <5>1. t \notin S
          BY <2>1 DEF Without, Renewed, Live
        <5>2. QED
          BY <2>1, <4>1, <5>1
      <4>3. QED
        BY <1>0, <1>1, <3>2, <4>2 DEF UpdateUser, Revokes, TypeOK
    <3>3. QED
      BY <3>1, <3>2
  <2>3. session'[t] = session[t] \/ session'[t] = [session[t] EXCEPT !.current = (t = NoSession)]
    BY <1>0, <2>1, TableKept
  <2>4. QED
    BY <2>2, <2>3, Untouched, Marked
<1>2. CASE UpdateUserTorn(r, u, p)
  <2>1. role' = role
    BY <1>2 DEF UpdateUserTorn, BreakOff
  <2>2. session' = session \/ session' = Renewed(u, NoSession, {})
    BY <1>2 DEF UpdateUserTorn
  <2>3. session'[t] = session[t] \/ session'[t] = [session[t] EXCEPT !.current = (t = NoSession)]
    BY <1>0, <2>2, TableKept
  <2>4. QED
    BY <2>1, <2>3, Untouched, Marked
<1>3. QED
  BY <1>1, <1>2
(* Every session that survives a step survives it as what it was.          *)
LEMMA EachKept ==
  ASSUME IInv, [Next]_vars, NEW t \in Live, session'[t] # NoSession
  PROVE  Kept(t)
<1>0. TypeOK /\ session[t].user \in Account /\ role[session[t].user] # "none"
  BY DEF IInv, TypeOK, Live, Session, RoleInv, SessionFollowsRole, Role
<1> USE DEF users
<1>1. ASSUME NEW u \in Account, NEW x \in Token, Login(u, x) PROVE Kept(t)
  <2>1. session'[t] = session[t] /\ role' = role
    BY <1>0, <1>1 DEF Login, Unused, TypeOK
  <2>2. QED
    BY <2>1, Untouched
<1>2. CASE UNCHANGED <<role, session>>
  BY <1>2, Untouched
<1>3. ASSUME NEW S \in SUBSET Token, session' = Without(S), role' = role PROVE Kept(t)
  <2>1. session'[t] = session[t]
    BY <1>0, <1>3, TableKept
  <2>2. QED
    BY <1>3, <2>1, Untouched
<1>4. ASSUME NEW x \in Token, Reject(x) PROVE Kept(t)
  BY <1>3, <1>4 DEF Reject
<1>5. ASSUME NEW r \in Request, Logout(r) PROVE Kept(t)
  <2>1. request[r].token \in Token
    BY <1>0, <1>5 DEF TypeOK, Logout, Finish, UnderWay, Admitted
  <2>2. QED
    BY <1>3, <1>5, <2>1 DEF Logout
<1>6. ASSUME NEW r \in Request, ChangePassword(r) \/ ChangePasswordTorn(r) PROVE Kept(t)
  <2>1. \E S \in SUBSET Token : session' = Renewed(request[r].user, request[r].token, S)
    <3>1. Of(request[r].user) \ {request[r].token} \in SUBSET Token
      BY DEF Of, Live
    <3>2. QED
      BY <1>6, <3>1 DEF ChangePassword, ChangePasswordTorn
  <2>2. role' = role
    BY <1>6 DEF ChangePassword, ChangePasswordTorn, BreakOff
  <2>3. \/ session'[t] = session[t]
        \/ session'[t] = [session[t] EXCEPT !.current = (t = request[r].token)]
    BY <1>0, <2>1, TableKept
  <2>4. QED
    BY <2>2, <2>3, Untouched, Marked
<1>7. ASSUME NEW r \in Request, NEW u \in Account, NEW new \in Role, CreateUser(r, u, new)
      PROVE Kept(t)
  <2>1. session'[t] = session[t] /\ role'[session[t].user] = role[session[t].user]
    BY <1>0, <1>7 DEF CreateUser, TypeOK
  <2>2. QED
    BY <2>1, Untouched
<1>8. ASSUME NEW r \in Request, NEW u \in Account, DeleteUser(r, u) PROVE Kept(t)
  <2>1. Of(u) \in SUBSET Token
    BY DEF Of, Live
  <2>2. t \notin Of(u) /\ session'[t] = session[t]
    BY <1>0, <1>8, <2>1, TableKept DEF DeleteUser
  <2>3. role'[session[t].user] = role[session[t].user]
    BY <1>0, <1>8, <2>2 DEF DeleteUser, TypeOK, Of
  <2>4. QED
    BY <2>2, <2>3, Untouched
<1>9. CASE Janitor
  BY <1>3, <1>9 DEF Janitor, Overdue, Live
<1>10. ASSUME NEW r \in Request, NEW u \in Account, NEW p \in Patch,
              UpdateUser(r, u, p) \/ UpdateUserTorn(r, u, p)
       PROVE Kept(t)
  BY <1>10, UpdateKept
<1>11. ASSUME NEW r \in Request, Touch(r) PROVE Kept(t)
  BY <1>11, TouchKept
<1>12. CASE Tick
  BY <1>12, TickKept
<1>13. QED
  BY <1>1, <1>2, <1>4, <1>5, <1>6, <1>7, <1>8, <1>9, <1>10, <1>11, <1>12
     DEF Next, Handle, LoginFails, Admit, Serve, ChangePasswordRefused, Restart, vars

(* A session that was not there comes from a login.                        *)
LEMMA OnlyLogin ==
  ASSUME IInv, [Next]_vars, NEW t \in Token, session[t] = NoSession, session'[t] # NoSession
  PROVE  \E u \in Account : Login(u, t)
<1>0. TypeOK /\ t \notin Live
  BY DEF IInv, Live
<1> USE DEF users
<1>1. ASSUME NEW S \in SUBSET Token, NEW u, NEW keep,
             session' = Without(S) \/ session' = Renewed(u, keep, S)
      PROVE FALSE
  BY <1>0, <1>1 DEF Without, Renewed, Of
<1>2. ASSUME NEW u \in Account, NEW x \in Token, Login(u, x) PROVE x = t
  BY <1>0, <1>2 DEF Login, TypeOK
<1>3. CASE UNCHANGED session
  BY <1>3
<1>4. ASSUME NEW x \in Token, Reject(x) PROVE FALSE
  BY <1>1, <1>4 DEF Reject
<1>5. ASSUME NEW r \in Request, Touch(r) PROVE FALSE
  BY <1>0, <1>5 DEF Touch, TypeOK
<1>6. ASSUME NEW r \in Request, Logout(r) PROVE FALSE
  <2>1. request[r].token \in Token
    BY <1>0, <1>6 DEF TypeOK, Logout, Finish, UnderWay, Admitted
  <2>2. QED
    BY <1>1, <1>6, <2>1 DEF Logout
<1>7. ASSUME NEW r \in Request, ChangePassword(r) \/ ChangePasswordTorn(r) PROVE FALSE
  <2>1. Of(request[r].user) \ {request[r].token} \in SUBSET Token
    BY DEF Of, Live
  <2>2. QED
    BY <1>1, <1>7, <2>1 DEF ChangePassword, ChangePasswordTorn
<1>8. ASSUME NEW r \in Request, NEW u \in Account, NEW p \in Patch,
             UpdateUser(r, u, p) \/ UpdateUserTorn(r, u, p)
      PROVE FALSE
  <2>1. Of(u) \in SUBSET Token
    BY DEF Of, Live
  <2>2. CASE p.password
    BY <1>1, <1>8, <2>1, <2>2 DEF UpdateUser, UpdateUserTorn
  <2>3. CASE ~p.password
    BY <1>1, <1>8, <2>1, <2>3 DEF UpdateUser, UpdateUserTorn
  <2>4. QED
    BY <2>2, <2>3
<1>9. ASSUME NEW r \in Request, NEW u \in Account, DeleteUser(r, u) PROVE FALSE
  <2>1. Of(u) \in SUBSET Token
    BY DEF Of, Live
  <2>2. QED
    BY <1>1, <1>9, <2>1 DEF DeleteUser
<1>10. CASE Janitor
  BY <1>1, <1>10 DEF Janitor, Overdue, Live
<1>11. CASE Tick
  BY <1>0, <1>11 DEF Tick
<1>12. QED
  BY <1>2, <1>3, <1>4, <1>5, <1>6, <1>7, <1>8, <1>9, <1>10, <1>11
     DEF Next, Handle, LoginFails, Admit, Serve, ChangePasswordRefused,
         CreateUser, Restart, vars

(* The invariants of sessions follow from the two.                         *)
LEMMA SessionNext == IInv /\ [Next]_vars => RoleInv' /\ LimitInv'
<1> SUFFICES ASSUME IInv, [Next]_vars, NEW t \in Token, session'[t] # NoSession
             PROVE  /\ session'[t].policy = role'[session'[t].user]
                    /\ session'[t].policy = "admin" =>
                         session'[t].left + session'[t].age <= AdminLimit
  BY DEF RoleInv, SessionFollowsRole, LimitInv, Live
<1>1. CASE session[t] # NoSession
  <2>1. t \in Live
    BY <1>1 DEF Live
  <2>2. Kept(t) /\ session[t].policy = role[session[t].user]
    BY <2>1, EachKept DEF IInv, RoleInv, SessionFollowsRole
  <2>3. QED
    BY <2>2 DEF Kept
<1>2. CASE session[t] = NoSession
  <2>1. PICK u \in Account : Login(u, t)
    BY <1>2, OnlyLogin
  <2>2. /\ session'[t] = [user |-> u, policy |-> role[u], current |-> TRUE,
                          left |-> Limit(role[u]), idle |-> 0, age |-> 0]
        /\ role' = role
    BY <2>1 DEF Login, IInv, TypeOK
  <2>3. QED
    BY <2>2, AccountsAssumption DEF Limit
<1>3. QED
  BY <1>1, <1>2

(* A request under way was so before, or is admitted now.                  *)
LEMMA RequestNext == IInv /\ [Next]_vars => RequestInv'
<1> SUFFICES ASSUME IInv, [Next]_vars, NEW r \in Request, request'[r] # NoRequest,
                    request'[r].token \in Live'
             PROVE  /\ session'[request'[r].token].user = request'[r].user
                    /\ session'[request'[r].token].policy = request'[r].role
  BY DEF RequestInv, UnderWay
<1> DEFINE t == request'[r].token
<1>0. TypeOK /\ TypeOK'
  BY TypeNext DEF IInv
<1>1. CASE request'[r] = request[r]
  <2>1. r \in UnderWay /\ t \in Token /\ session'[t] # NoSession
    BY <1>1 DEF UnderWay, Live
  <2>2. session[t] # NoSession
    <3>1. SUFFICES ASSUME session[t] = NoSession PROVE FALSE
      OBVIOUS
    <3>2. PICK u \in Account : Login(u, t)
      BY <2>1, <3>1, OnlyLogin
    <3>3. QED
      BY <1>1, <2>1, <3>2 DEF Login, Unused
  <2>3. t \in Live
    BY <2>1, <2>2 DEF Live
  <2>4. Kept(t)
    BY <2>1, <2>3, EachKept
  <2>5. session[t].user = request[r].user /\ session[t].policy = request[r].role
    BY <1>1, <2>1, <2>3 DEF IInv, RequestInv
  <2>6. QED
    BY <1>1, <2>4, <2>5 DEF Kept
<1>2. CASE request'[r] # request[r]
  <2>1. PICK x \in Token : Admit(r, x)
    <3>1. \A q \in Request : Finish(q) => request'[r] = request[r] \/ request'[r] = NoRequest
      BY <1>0 DEF Finish, TypeOK
    <3>2. ASSUME NEW q \in Request, NEW x \in Token, Admit(q, x) PROVE q = r
      BY <1>0, <1>2, <3>2 DEF Admit, TypeOK
    <3>3. ~Restart
      BY <1>0 DEF Restart
    <3>4. ASSUME NEW q \in Request, Handle(q) PROVE Finish(q)
      BY <3>4 DEF Handle, Serve, ChangePasswordRefused,
                  Touch, Logout, ChangePassword, ChangePasswordTorn, BreakOff,
             CreateUser, UpdateUser, UpdateUserTorn, MayUpdate, DeleteUser, ByAdmin
    <3>5. ASSUME NEW u \in Account, LoginFails(u) \/ \E x \in Token : Login(u, x)
          PROVE  request' = request
      BY <3>5 DEF LoginFails, Login
    <3>6. CASE Janitor \/ Tick \/ UNCHANGED vars \/ \E x \in Token : Reject(x)
      BY <1>2, <3>6 DEF Janitor, Tick, vars, Reject
    <3>7. QED
      BY <1>2, <3>1, <3>2, <3>3, <3>4, <3>5, <3>6 DEF Next
  <2>2. /\ request'[r] = [user |-> session[x].user, role |-> role[session[x].user], token |-> x]
        /\ session' = session /\ x \in Live
    BY <1>0, <2>1 DEF Admit, TypeOK
  <2>3. QED
    BY <2>2 DEF IInv, RoleInv, SessionFollowsRole
<1>3. QED
  BY <1>1, <1>2

(* The counter and the lock account for every wrong password.              *)
LEMMA GuessNext == IInv /\ [Next]_vars => GuessInv'
<1> SUFFICES ASSUME IInv, [Next]_vars, NEW x \in Account
             PROVE  IF locked'[x] > 0 THEN failed'[x] = 0 /\ guesses'[x] = MaxFailed
                                      ELSE guesses'[x] = failed'[x]
  BY DEF GuessInv
<1> DEFINE Goal == IF locked'[x] > 0 THEN failed'[x] = 0 /\ guesses'[x] = MaxFailed
                                     ELSE guesses'[x] = failed'[x]
<1>0. /\ TypeOK
      /\ IF locked[x] > 0 THEN failed[x] = 0 /\ guesses[x] = MaxFailed
                          ELSE guesses[x] = failed[x]
  BY DEF IInv, GuessInv
<1>1. CASE UNCHANGED <<failed, locked, guesses>>
  BY <1>0, <1>1
<1>2. ASSUME NEW u \in Account, Unlock(u) PROVE Goal
  BY <1>0, <1>2 DEF Unlock, TypeOK
<1>3. ASSUME NEW u \in Account, NEW t \in Token, Login(u, t) PROVE Goal
  BY <1>0, <1>3 DEF Login, MayTry, TypeOK
<1>4. ASSUME NEW u \in Account, LoginFails(u) PROVE Goal
  <2>1. CASE x = u
    BY <1>0, <1>4, <2>1, AccountsAssumption DEF LoginFails, MayTry, TypeOK
  <2>2. CASE x # u
    BY <1>0, <1>4, <2>2 DEF LoginFails, TypeOK
  <2>3. QED
    BY <2>1, <2>2
<1>5. CASE Tick
  BY <1>0, <1>5, AccountsAssumption DEF Tick, Less, TypeOK
<1>6. ASSUME NEW r \in Request, ChangePassword(r) \/ ChangePasswordTorn(r) PROVE Goal
  <2>1. request[r].user \in Account
    BY <1>0, <1>6 DEF TypeOK, ChangePassword, ChangePasswordTorn, BreakOff, Finish, UnderWay,
                      Admitted
  <2>2. QED
    BY <1>2, <1>6, <2>1 DEF ChangePassword, ChangePasswordTorn
<1>7. ASSUME NEW r \in Request, Handle(r) PROVE Goal
  <2>1. CASE Serve(r) \/ ChangePasswordRefused(r) \/ Touch(r) \/ Logout(r)
    BY <1>1, <2>1 DEF Serve, ChangePasswordRefused, Touch, Logout, users
  <2>2. CASE ChangePassword(r) \/ ChangePasswordTorn(r)
    BY <1>6, <2>2
  <2>3. ASSUME NEW u \in Account, (\E new \in Role : CreateUser(r, u, new)) \/ DeleteUser(r, u)
        PROVE  Unlock(u) \/ UNCHANGED <<failed, locked, guesses>>
    BY <2>3 DEF CreateUser, DeleteUser
  <2>4. ASSUME NEW u \in Account, NEW p \in Patch, UpdateUser(r, u, p) \/ UpdateUserTorn(r, u, p)
        PROVE  Unlock(u) \/ UNCHANGED <<failed, locked, guesses>>
    BY <2>4 DEF UpdateUser, UpdateUserTorn
  <2>5. QED
    BY <1>1, <1>2, <1>7, <2>1, <2>2, <2>3, <2>4, Zenon DEF Handle
<1>8. CASE Restart \/ Janitor \/ UNCHANGED vars \/ \E t \in Token :
             Reject(t) \/ \E r \in Request : Admit(r, t)
  BY <1>1, <1>8 DEF Restart, Janitor, Reject, Admit, vars, users
<1>9. QED
  BY <1>3, <1>4, <1>5, <1>7, <1>8, Zenon DEF Next

(* Revocation is complete for every account none was broken off for.       *)
LEMMA RevocationNext == IInv /\ [Next]_vars => RevocationComplete'
<1> SUFFICES ASSUME IInv, [Next]_vars, NEW u \in Account, u \notin torn',
                    NEW t \in Token, session'[t] # NoSession, session'[t].user = u
             PROVE  ~disabled'[u] /\ session'[t].current
  BY DEF RevocationComplete, Of, Live
<1> DEFINE Goal == ~disabled'[u] /\ session'[t].current
<1>0. TypeOK
  BY DEF IInv
<1>1. CASE session[t] = NoSession
  <2>1. PICK x \in Account : Login(x, t)
    BY <1>1, OnlyLogin
  <2>2. session'[t].user = x /\ session'[t].current /\ ~disabled[x] /\ disabled' = disabled
    BY <1>0, <2>1 DEF Login, TypeOK
  <2>3. QED
    BY <2>2
<1>2. CASE session[t] # NoSession
  <2>0. /\ t \in Live /\ t \in Of(u) /\ session[t] \in Session
        /\ role[u] # "none"
    BY <1>0, <1>2, EachKept
       DEF Live, Of, Kept, TypeOK, IInv, RoleInv, SessionFollowsRole, Session, Role
  <2>1. u \notin torn => ~disabled[u] /\ session[t].current
    BY <2>0 DEF IInv, RevocationComplete
  <2>2. CASE session'[t] = session[t] /\ UNCHANGED <<disabled, torn>>
    BY <2>1, <2>2
  <2>3. ASSUME NEW S \in SUBSET Token, session' = Without(S) PROVE session'[t] = session[t]
    BY <2>0, <2>3 DEF Without
  <2>4. CASE UNCHANGED <<session, disabled, torn>>
    BY <2>2, <2>4
  <2>5. ASSUME NEW x \in Account, NEW y \in Token, Login(x, y) PROVE Goal
    BY <1>0, <2>0, <2>2, <2>5 DEF Login, Unused, TypeOK, users
  <2>6. ASSUME NEW x \in Token, Reject(x) PROVE Goal
    BY <2>2, <2>3, <2>6 DEF Reject, users
  <2>7. ASSUME NEW r \in Request, Touch(r) PROVE Goal
    <3>1. session'[t].current = session[t].current
      BY <1>0, <2>0, <2>7 DEF Touch, Touched, TypeOK, Session
    <3>2. QED
      BY <2>1, <2>7, <3>1 DEF Touch, users
  <2>8. ASSUME NEW r \in Request, Logout(r) PROVE Goal
    <3>1. request[r].token \in Token
      BY <1>0, <2>8 DEF TypeOK, Logout, Finish, UnderWay, Admitted
    <3>2. QED
      BY <2>2, <2>3, <2>8, <3>1 DEF Logout, users
  <2>9. ASSUME NEW r \in Request, ChangePassword(r) PROVE Goal
    <3>1. CASE u = request[r].user
      <4>1. t = request[r].token
        BY <2>0, <2>9, <3>1 DEF ChangePassword, Renewed
      <4>2. session'[t].current
        BY <2>0, <2>9, <3>1, <4>1 DEF ChangePassword, Renewed, Session
      <4>3. QED
        BY <2>1, <2>9, <4>2 DEF ChangePassword
    <3>2. CASE u # request[r].user
      BY <2>0, <2>2, <2>9, <3>2 DEF ChangePassword, Renewed, Of
    <3>3. QED
      BY <3>1, <3>2
  <2>10. ASSUME NEW r \in Request, ChangePasswordTorn(r) PROVE Goal
    <3>1. u # request[r].user /\ u \notin torn
      BY <2>10 DEF ChangePasswordTorn, BreakOff
    <3>2. session'[t] = session[t] /\ disabled' = disabled
      BY <2>0, <2>10, <3>1 DEF ChangePasswordTorn, Renewed, Of
    <3>3. QED
      BY <2>1, <3>1, <3>2
  <2>11. ASSUME NEW r \in Request, NEW x \in Account, NEW new \in Role, CreateUser(r, x, new)
         PROVE Goal
    BY <2>2, <2>11 DEF CreateUser
  <2>12. ASSUME NEW r \in Request, NEW x \in Account, NEW p \in Patch, UpdateUser(r, x, p)
         PROVE Goal
    <3>1. CASE x = u
      <4>1. ~Revokes(x, p)
        BY <2>0, <2>12, <3>1 DEF UpdateUser, Without, Renewed
      <4>2. session'[t] = session[t] /\ torn' = torn
        BY <2>0, <2>12, <4>1 DEF UpdateUser, Without, Revokes
      <4>3. disabled'[u] => disabled[u]
        BY <1>0, <2>12, <3>1, <4>1 DEF UpdateUser, Revokes, DisabledAfter, TypeOK
      <4>4. QED
        BY <2>1, <4>2, <4>3
    <3>2. CASE x # u
      <4>1. session'[t] = session[t]
        BY <2>0, <2>12, <3>2 DEF UpdateUser, Without, Renewed, Of
      <4>2. disabled'[u] = disabled[u] /\ u \notin torn
        BY <1>0, <2>12, <3>2 DEF UpdateUser, TypeOK
      <4>3. QED
        BY <2>1, <4>1, <4>2
    <3>3. QED
      BY <3>1, <3>2
  <2>13. ASSUME NEW r \in Request, NEW x \in Account, NEW p \in Patch, UpdateUserTorn(r, x, p)
         PROVE Goal
    <3>1. x # u /\ u \notin torn
      BY <2>13 DEF UpdateUserTorn, BreakOff
    <3>2. session'[t] = session[t]
      BY <2>0, <2>13, <3>1 DEF UpdateUserTorn, Renewed, Of
    <3>3. disabled'[u] = disabled[u]
      BY <1>0, <2>13, <3>1 DEF UpdateUserTorn, TypeOK
    <3>4. QED
      BY <2>1, <3>1, <3>2, <3>3
  <2>14. ASSUME NEW r \in Request, NEW x \in Account, DeleteUser(r, x) PROVE Goal
    <3>1. x # u /\ session'[t] = session[t]
      BY <2>0, <2>14 DEF DeleteUser, Without
    <3>2. disabled'[u] = disabled[u] /\ u \notin torn
      BY <1>0, <2>14, <3>1 DEF DeleteUser, TypeOK
    <3>3. QED
      BY <2>1, <3>1, <3>2
  <2>15. CASE Janitor
    BY <2>2, <2>3, <2>15 DEF Janitor, Overdue, Live, users
  <2>16. CASE Tick
    <3>1. session'[t].current = session[t].current
      BY <2>0, <2>16 DEF Tick, Older
    <3>2. QED
      BY <2>1, <2>16, <3>1 DEF Tick
  <2>17. QED
    BY <2>4, <2>5, <2>6, <2>7, <2>8, <2>9, <2>10, <2>11, <2>12, <2>13, <2>14, <2>15, <2>16
       DEF Next, Handle, LoginFails, Admit, Serve, ChangePasswordRefused, Restart, vars, users
<1>3. QED
  BY <1>1, <1>2

LEMMA Inductive == IInv /\ [Next]_vars => IInv'
BY TypeNext, AdminNext, SessionNext, RequestNext, GuessNext, RevocationNext DEF IInv

LEMMA AlwaysIInv == Spec => []IInv
BY InitInv, Inductive, PTL DEF Spec

-----------------------------------------------------------------------------
(* The values of the variables are always those the tables can hold: among *)
(* them, the counter of wrong passwords never reaches its maximum          *)
(* (api/auth.rs:114-128).                                                  *)
THEOREM TypeCorrect == Spec => []TypeOK
<1>1. IInv => TypeOK
  BY DEF IInv
<1>2. QED
  BY <1>1, AlwaysIInv, PTL

(* Administrators who demote, disable and delete each other in requests    *)
(* that were admitted at any earlier time always leave one who is enabled  *)
(* (api/users.rs:237-248, 352-361).                                        *)
THEOREM AdminRemainsCorrect == Spec => []AdminRemains
<1>1. IInv => AdminRemains
  BY DEF IInv
<1>2. QED
  BY <1>1, AlwaysIInv, PTL

(* No session is ever governed by a role its account no longer has, not    *)
(* even by activity admitted before the change (api/users.rs:167-186).     *)
THEOREM SessionFollowsRoleCorrect == Spec => []SessionFollowsRole
<1>1. IInv => SessionFollowsRole
  BY DEF IInv, RoleInv
<1>2. QED
  BY <1>1, AlwaysIInv, PTL

(* The end of an administrator's session never moves (auth.rs:307-309).    *)
THEOREM AbsoluteLimitCorrect == Spec => []AbsoluteLimit
<1>1. IInv => AbsoluteLimit
  BY DEF IInv, RoleInv, SessionFollowsRole, LimitInv, AbsoluteLimit
<1>2. QED
  BY <1>1, AlwaysIInv, PTL

(* Login looks at no more than MaxFailed wrong passwords between two ends  *)
(* of a lock, whatever is done from within sessions meanwhile, where       *)
(* change_password looks at others and counts none (api/auth.rs:106-130).  *)
THEOREM GuessesLimitedCorrect == Spec => []GuessesLimited
<1>1. IInv => GuessesLimited
  <2> SUFFICES ASSUME IInv, NEW u \in Account PROVE guesses[u] <= MaxFailed
    BY DEF GuessesLimited
  <2>2. failed[u] \in 0..(MaxFailed - 1)
    BY DEF IInv, TypeOK
  <2>3. guesses[u] = MaxFailed \/ guesses[u] = failed[u]
    BY DEF IInv, GuessInv
  <2>4. QED
    BY <2>2, <2>3, AccountsAssumption
<1>2. QED
  BY <1>1, AlwaysIInv, PTL

(* Disabling an account, deleting it and giving it a password end its      *)
(* sessions, unless the call broke off (api/auth.rs:365-373,               *)
(* api/users.rs:250-272).                                                  *)
THEOREM RevocationCorrect == Spec => []RevocationComplete
<1>1. IInv => RevocationComplete
  BY DEF IInv
<1>2. QED
  BY <1>1, AlwaysIInv, PTL
=============================================================================
