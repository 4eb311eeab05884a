---------------------------- MODULE GatewayProof ----------------------------
(***************************************************************************)
(* What the client of the SMS gateway guarantees for every number of       *)
(* accounts, recipients and callers: types, AtHome, LoginsSpaced,          *)
(* TextedOnce, and the measure by which every call comes to its end.       *)
(***************************************************************************)
EXTENDS Gateway, FiniteSetTheorems, TLAPS

(* Types, and why they last: a gateway restarts no oftener than it may.    *)
Typed == TypeOK /\ \A a \in Account : era[a] <= trouble

(* Texts follow, or are in hand, only when the modem is known that belongs *)
(* to the account.                                                         *)
ModemFirst(k) ==
  k.todo \cap Recipient # {} /\ "modem" \notin k.todo => k.modem = k.home

Home(k) ==
  /\ k.at # "idle" => k.home \in Account
  /\ k.at = "request" => k.token \in Token /\ k.token.home = k.home
  /\ k.path # "modem" => ModemFirst(k)
  /\ k.path \in Recipient => k.modem = k.home /\ "modem" \notin k.todo

HomeInv ==
  /\ cached # None => cached.modem \in {None, cached.token.home}
  /\ \A c \in Caller : Home(call[c])

-----------------------------------------------------------------------------
LEMMA Constants ==
  /\ Manual \subseteq Account /\ None \notin Account
  /\ Recipient \cap {"none", "login", "modem", "status", "inbox"} = {}
  /\ MaxPause \in Nat /\ MaxPause >= 1 /\ MaxTrouble \in Nat
BY GatewayAssumption

LEMMA NamesDiffer ==
  /\ "none" \notin Recipient /\ "login" \notin Recipient /\ "modem" \notin Recipient
  /\ "status" \notin Recipient /\ "inbox" \notin Recipient
BY GatewayAssumption

LEMMA IdleType == Idle \in Operation /\ Home(Idle)
BY NamesDiffer DEF Idle, Operation, Path, Home, ModemFirst

LEMMA FreshType ==
  ASSUME NEW todo \in SUBSET Path, config \in Account
  PROVE  /\ Fresh(todo) \in Operation
         /\ Fresh(todo).todo = todo /\ Fresh(todo).home = config
         /\ Fresh(todo).path = "none" /\ Fresh(todo).failed = FALSE
BY DEF Fresh, Idle, Operation, Path

(* What a call looks like after Proceeds.                                  *)
Resumed(c, k) ==
  \/ /\ k.todo = {}
     /\ call'[c].at = "idle" /\ call'[c].path = "none" /\ call'[c].todo = {}
     /\ call'[c].failed = k.failed
  \/ /\ call'[c].at = "token" /\ call'[c].path \in Following(k.todo)
     /\ call'[c].todo = k.todo \ {call'[c].path}
     /\ call'[c].home = k.home /\ call'[c].modem = k.modem
     /\ call'[c].failed = k.failed

LEMMA ProceedsParts ==
  ASSUME call \in [Caller -> Operation], NEW c \in Caller, NEW k \in Operation, Proceeds(c, k)
  PROVE  /\ call' \in [Caller -> Operation]
         /\ \A d \in Caller \ {c} : call'[d] = call[d]
         /\ Resumed(c, k)
<1>1. CASE k.todo = {} /\ call' = [call EXCEPT ![c] = [Idle EXCEPT !.failed = k.failed]]
  <2>1. [Idle EXCEPT !.failed = k.failed] \in Operation
    BY IdleType DEF Operation
  <2>2. call'[c] = [Idle EXCEPT !.failed = k.failed]
    BY <1>1
  <2>3. call'[c].at = "idle" /\ call'[c].path = "none" /\ call'[c].todo = {}
        /\ call'[c].failed = k.failed
    BY <2>2, IdleType DEF Idle, Operation
  <2> QED
    BY <1>1, <2>1, <2>3 DEF Resumed
<1>2. ASSUME NEW p \in Following(k.todo),
             call' = [call EXCEPT ![c] = [k EXCEPT !.at = "token", !.path = p, !.todo = k.todo \ {p},
                                                   !.token = None, !.forced = FALSE]]
      PROVE  /\ call' \in [Caller -> Operation]
             /\ \A d \in Caller \ {c} : call'[d] = call[d]
             /\ Resumed(c, k)
  <2>1. p \in Path /\ k.todo \ {p} \in SUBSET Path
    BY DEF Following, Operation
  <2> DEFINE f == [k EXCEPT !.at = "token", !.path = p, !.todo = k.todo \ {p},
                            !.token = None, !.forced = FALSE]
  <2>2. f \in Operation
    BY <2>1 DEF Operation
  <2>3. f.at = "token" /\ f.path = p /\ f.todo = k.todo \ {p}
    BY DEF Operation
  <2>4. f.home = k.home /\ f.modem = k.modem /\ f.failed = k.failed
    BY DEF Operation
  <2>5. call' = [call EXCEPT ![c] = f]
    BY <1>2
  <2> HIDE DEF f
  <2>6. call'[c] = f
    BY <2>5
  <2>7. Resumed(c, k)
    BY <2>3, <2>4, <2>6 DEF Resumed
  <2> QED
    BY <2>2, <2>5, <2>7
<1> QED
  BY <1>1, <1>2, Zenon DEF Proceeds

LEMMA FollowingIn == \A todo : Following(todo) \subseteq todo /\ ("modem" \in todo => Following(todo) = {"modem"})
BY DEF Following

LEMMA ResumedHome ==
  ASSUME NEW c \in Caller, NEW k \in Operation, Resumed(c, k), k.home \in Account, ModemFirst(k)
  PROVE  Home(call'[c])
<1>1. CASE call'[c].at = "idle" /\ call'[c].path = "none" /\ call'[c].todo = {}
  BY <1>1, NamesDiffer DEF Home, ModemFirst
<1>2. CASE /\ call'[c].at = "token" /\ call'[c].path \in Following(k.todo)
           /\ call'[c].todo = k.todo \ {call'[c].path}
           /\ call'[c].home = k.home /\ call'[c].modem = k.modem
  <2>1. call'[c].path \in k.todo /\ ("modem" \in k.todo => call'[c].path = "modem")
    BY <1>2, FollowingIn
  <2> QED
    BY <1>2, <2>1, NamesDiffer DEF Home, ModemFirst
<1> QED
  BY <1>1, <1>2 DEF Resumed

(* Fails gives up, or goes on to the next recipient.                       *)
LEMMA FailsParts ==
  ASSUME call \in [Caller -> Operation], NEW c \in Caller, Fails(c)
  PROVE  \E k \in Operation :
           /\ Proceeds(c, k) /\ k.failed = TRUE /\ k.home = call[c].home /\ k.modem = call[c].modem
           /\ k.todo = IF call[c].path \in Recipient THEN call[c].todo ELSE {}
<1> DEFINE t == IF call[c].path \in Recipient THEN call[c].todo ELSE {}
           k == [call[c] EXCEPT !.failed = TRUE, !.todo = t]
<1>1. call[c] \in Operation /\ t \in SUBSET Path
  BY DEF Operation
<1>2. k \in Operation /\ k.failed = TRUE /\ k.home = call[c].home /\ k.modem = call[c].modem /\ k.todo = t
  BY <1>1 DEF Operation
<1>3. [call[c] EXCEPT !.failed = TRUE, !.todo = IF call[c].path \in Recipient THEN @ ELSE {}] = k
  BY <1>1 DEF Operation
<1>4. Proceeds(c, k)
  BY <1>3, Zenon DEF Fails
<1> QED
  BY <1>2, <1>4

LEMMA FailsHome ==
  ASSUME call \in [Caller -> Operation], NEW c \in Caller, Fails(c),
         Home(call[c]), call[c].at # "idle"
  PROVE  /\ call' \in [Caller -> Operation]
         /\ \A d \in Caller \ {c} : call'[d] = call[d]
         /\ Home(call'[c]) /\ call'[c].at \in {"idle", "token"}
<1>1. PICK k \in Operation :
        /\ Proceeds(c, k) /\ k.home = call[c].home /\ k.modem = call[c].modem
        /\ k.todo = IF call[c].path \in Recipient THEN call[c].todo ELSE {}
  BY FailsParts
<1>2. ModemFirst(k) /\ k.home \in Account
  BY <1>1, NamesDiffer DEF Home, ModemFirst
<1> QED
  BY <1>1, <1>2, ProceedsParts, ResumedHome DEF Resumed

-----------------------------------------------------------------------------
(* What a step of a caller does to its own call and to the token.          *)
CallKept(c) ==
  /\ call' \in [Caller -> Operation]
  /\ \A d \in Caller \ {c} : call'[d] = call[d]
  /\ Home(call'[c])
  /\ call'[c].at = "login" => pause = 0 /\ burst' = burst

Cached == [token : Token, fresh : BOOLEAN, modem : Account \cup {None}]

CachedKept ==
  /\ cached' \in Cached \cup {None}
  /\ cached' # None => cached'.modem \in {None, cached'.token.home}

LEMMA CachedParts ==
  ASSUME Typed, HomeInv
  PROVE  /\ \A home \in Account : ModemOf(home) \in {None, home} /\ ModemOf(home) \in Account \cup {None}
         /\ \A home \in Account : Known(home) => cached \in Cached /\ cached.token \in Token /\ cached.token.home = home
         /\ cached' = cached => CachedKept
         /\ cached' = None => CachedKept
<1>1. cached # None =>
        /\ cached \in Cached /\ cached.token \in Token
        /\ cached.modem \in {None, cached.token.home} /\ cached.modem \in Account \cup {None}
  BY DEF Typed, TypeOK, HomeInv, Cached
<1>2. \A home \in Account : Known(home) =>
        cached \in Cached /\ cached.token \in Token /\ cached.token.home = home
  BY <1>1 DEF Known
<1>3. ASSUME NEW home \in Account
      PROVE  ModemOf(home) \in {None, home} /\ ModemOf(home) \in Account \cup {None}
  BY <1>1 DEF Known, ModemOf
<1>4. cached' = cached => CachedKept
  BY <1>1 DEF CachedKept
<1>5. cached' = None => CachedKept
  BY DEF CachedKept
<1> QED
  BY <1>2, <1>3, <1>4, <1>5

LEMMA BeginSendHome ==
  ASSUME Typed, HomeInv, NEW c \in Caller, BeginSend(c)
  PROVE  CallKept(c) /\ CachedKept
<1> DEFINE k == [Fresh(Texts) EXCEPT !.modem = ModemOf(config)]
<1>1. call \in [Caller -> Operation] /\ config \in Account
  BY DEF Typed, TypeOK
<1>2. Texts \in SUBSET Path /\ Texts \cap Recipient = Recipient
      /\ ("modem" \notin Texts => ModemOf(config) # None)
  BY NamesDiffer DEF Texts, Path
<1>3. ModemOf(config) \in {None, config} /\ ModemOf(config) \in Account \cup {None}
  BY <1>1, CachedParts
<1>4. Fresh(Texts) \in Operation /\ Fresh(Texts).todo = Texts /\ Fresh(Texts).home = config
  BY <1>1, <1>2, FreshType
<1>5. k \in Operation /\ k.todo = Texts /\ k.home = config /\ k.modem = ModemOf(config)
  BY <1>3, <1>4 DEF Operation
<1>6. ModemFirst(k)
  BY <1>2, <1>3, <1>5 DEF ModemFirst
<1>7. Proceeds(c, k) /\ cached' = cached
  BY DEF BeginSend, shared
<1> HIDE DEF k
<1> QED
  BY <1>1, <1>5, <1>6, <1>7, ProceedsParts, ResumedHome, CachedParts DEF CallKept, Resumed

LEMMA BeginReadHome ==
  ASSUME Typed, HomeInv, NEW c \in Caller, BeginRead(c)
  PROVE  CallKept(c) /\ CachedKept
<1> DEFINE k == Fresh({"inbox"})
<1>1. call \in [Caller -> Operation] /\ config \in Account
  BY DEF Typed, TypeOK
<1>2. k \in Operation /\ k.todo = {"inbox"} /\ k.home = config
  BY <1>1, FreshType DEF Path
<1>3. ModemFirst(k)
  BY <1>2, NamesDiffer DEF ModemFirst
<1>4. Proceeds(c, k) /\ cached' = cached
  BY DEF BeginRead, shared
<1> HIDE DEF k
<1> QED
  BY <1>1, <1>2, <1>3, <1>4, ProceedsParts, ResumedHome, CachedParts DEF CallKept, Resumed

LEMMA BeginVerifyHome ==
  ASSUME Typed, HomeInv, NEW c \in Caller, BeginVerify(c)
  PROVE  CallKept(c) /\ CachedKept
<1> DEFINE f == Fresh({"status", "inbox"})
           k == [f EXCEPT !.at = "token", !.path = "login", !.forced = TRUE]
<1>1. call \in [Caller -> Operation] /\ config \in Account
  BY DEF Typed, TypeOK
<1>2. f \in Operation /\ f.todo = {"status", "inbox"} /\ f.home = config
  BY <1>1, FreshType DEF Path
<1>3. k \in Operation /\ k.at = "token" /\ k.path = "login" /\ k.home = config
      /\ k.todo = {"status", "inbox"}
  BY <1>2 DEF Operation, Path
<1>4. Home(k)
  BY <1>1, <1>3, NamesDiffer DEF Home, ModemFirst
<1>5. call' = [call EXCEPT ![c] = k] /\ cached' = None
  BY DEF BeginVerify
<1> HIDE DEF k
<1> QED
  BY <1>1, <1>3, <1>4, <1>5, CachedParts DEF CallKept

LEMMA EnsureTokenHome ==
  ASSUME Typed, HomeInv, NEW c \in Caller, EnsureToken(c)
  PROVE  CallKept(c) /\ CachedKept
<1>1. /\ call \in [Caller -> Operation] /\ call[c] \in Operation /\ Home(call[c])
      /\ call[c].at = "token" /\ call[c].home \in Account
      /\ cached' = cached
  BY DEF Typed, TypeOK, HomeInv, EnsureToken, shared, Home
<1>2. ASSUME Usable(c),
             call' = [call EXCEPT ![c].at = "request", ![c].token = cached.token]
      PROVE  CallKept(c)
  <2> DEFINE k == [call[c] EXCEPT !.at = "request", !.token = cached.token]
  <2>1. cached.token \in Token /\ cached.token.home = call[c].home
    BY <1>1, <1>2, CachedParts DEF Usable
  <2>2. k \in Operation /\ k.at = "request" /\ k.token = cached.token
    BY <1>1, <2>1 DEF Operation
  <2>3. k.path = call[c].path /\ k.todo = call[c].todo /\ k.home = call[c].home /\ k.modem = call[c].modem
    BY <1>1 DEF Operation
  <2>4. call' = [call EXCEPT ![c] = k]
    BY <1>1, <1>2
  <2> HIDE DEF k
  <2>5. Home(k)
    BY <1>1, <2>1, <2>2, <2>3 DEF Home, ModemFirst
  <2> QED
    BY <1>1, <2>2, <2>4, <2>5 DEF CallKept
<1>3. ASSUME MayLogIn, call' = [call EXCEPT ![c].at = "login"]
      PROVE  CallKept(c)
  <2> DEFINE k == [call[c] EXCEPT !.at = "login"]
  <2>1. /\ k \in Operation /\ k.at = "login"
        /\ k.path = call[c].path /\ k.todo = call[c].todo /\ k.home = call[c].home /\ k.modem = call[c].modem
    BY <1>1 DEF Operation
  <2>2. call' = [call EXCEPT ![c] = k]
    BY <1>1, <1>3
  <2> HIDE DEF k
  <2>3. Home(k)
    BY <1>1, <2>1 DEF Home, ModemFirst
  <2> QED
    BY <1>1, <1>3, <2>1, <2>2, <2>3 DEF CallKept, MayLogIn, EnsureToken
<1>4. Fails(c) => CallKept(c)
  BY <1>1, FailsHome DEF CallKept
<1>5. CallKept(c)
  BY <1>2, <1>3, <1>4, Zenon DEF EnsureToken
<1> QED
  BY <1>1, <1>5, CachedParts

LEMMA LoggedInHome ==
  ASSUME Typed, HomeInv, NEW c \in Caller, LoggedIn(c)
  PROVE  CallKept(c) /\ CachedKept
<1> DEFINE t == [home |-> call[c].home, era |-> era[call[c].home]]
<1>1. /\ call \in [Caller -> Operation] /\ call[c] \in Operation /\ Home(call[c])
      /\ call[c].at = "login" /\ call[c].home \in Account
  BY DEF Typed, TypeOK, HomeInv, LoggedIn, Home
<1>2. t \in Token /\ t.home = call[c].home
  BY <1>1 DEF Typed, TypeOK, Token
<1>3. cached' = [token |-> t, fresh |-> TRUE, modem |-> None]
  BY DEF LoggedIn
<1>4. CachedKept
  BY <1>2, <1>3 DEF CachedKept, Cached
<1>5. CASE call[c].path = "login"
  <2>1. Proceeds(c, call[c])
    BY <1>5 DEF LoggedIn
  <2>2. ModemFirst(call[c])
    BY <1>1, <1>5 DEF Home
  <2>3. CallKept(c)
    BY <1>1, <2>1, <2>2, ProceedsParts, ResumedHome DEF CallKept, Resumed
  <2> QED
    BY <1>4, <2>3
<1>6. CASE call[c].path # "login"
  <2> DEFINE k == [call[c] EXCEPT !.at = "request", !.token = t]
  <2>1. k \in Operation /\ k.at = "request" /\ k.token = t
    BY <1>1, <1>2 DEF Operation
  <2>2. k.path = call[c].path /\ k.todo = call[c].todo /\ k.home = call[c].home /\ k.modem = call[c].modem
    BY <1>1 DEF Operation
  <2>3. call' = [call EXCEPT ![c] = k]
    BY <1>1, <1>6 DEF LoggedIn
  <2> HIDE DEF k
  <2>4. Home(k)
    BY <1>1, <1>2, <2>1, <2>2 DEF Home, ModemFirst
  <2>5. CallKept(c)
    BY <1>1, <2>1, <2>3, <2>4 DEF CallKept
  <2> QED
    BY <1>4, <2>5
<1> QED
  BY <1>5, <1>6

LEMMA LoginFailsHome ==
  ASSUME Typed, HomeInv, NEW c \in Caller, LoginFails(c) \/ LoginWithoutToken(c)
  PROVE  CallKept(c) /\ CachedKept
<1>1. /\ call \in [Caller -> Operation] /\ Home(call[c])
      /\ call[c].at # "idle" /\ Fails(c) /\ cached' = cached
  BY DEF Typed, TypeOK, HomeInv, LoginFails, LoginWithoutToken, shared
<1> QED
  BY <1>1, FailsHome, CachedParts DEF CallKept

LEMMA SucceedsHome ==
  ASSUME Typed, HomeInv, NEW c \in Caller, Succeeds(c)
  PROVE  CallKept(c) /\ CachedKept
<1>1. /\ call \in [Caller -> Operation] /\ call[c] \in Operation /\ Home(call[c])
      /\ call[c].at = "request" /\ call[c].home \in Account
  BY DEF Typed, TypeOK, HomeInv, Succeeds, Home
<1>2. CASE call[c].path = "modem"
  <2> DEFINE k == [call[c] EXCEPT !.modem = call[c].home]
  <2>1. k \in Operation /\ k.modem = call[c].home /\ k.home = call[c].home /\ k.todo = call[c].todo
    BY <1>1 DEF Operation
  <2>2. Proceeds(c, k)
    BY <1>2 DEF Succeeds
  <2> HIDE DEF k
  <2>3. CallKept(c)
    BY <1>1, <2>1, <2>2, ProceedsParts, ResumedHome DEF CallKept, Resumed, ModemFirst
  <2>4. CachedKept
    <3>1. CASE cached' = cached
      BY <3>1, CachedParts
    <3>2. CASE Known(call[c].home) /\ cached' = [cached EXCEPT !.modem = call[c].home]
      <4>1. cached \in Cached /\ cached.token.home = call[c].home
        BY <1>1, <3>2, CachedParts
      <4>2. cached' \in Cached /\ cached'.modem = call[c].home /\ cached'.token = cached.token
        BY <1>1, <3>2, <4>1 DEF Cached
      <4> QED
        BY <4>1, <4>2 DEF CachedKept
    <3> QED
      BY <1>2, <3>1, <3>2, Zenon DEF Succeeds, Remembers
  <2> QED
    BY <2>3, <2>4
<1>3. CASE call[c].path # "modem"
  <2>1. Proceeds(c, call[c]) /\ cached' = cached
    BY <1>3 DEF Succeeds
  <2>2. ModemFirst(call[c])
    BY <1>1, <1>3 DEF Home
  <2>3. CallKept(c)
    BY <1>1, <2>1, <2>2, ProceedsParts, ResumedHome DEF CallKept, Resumed
  <2> QED
    BY <2>1, <2>3, CachedParts
<1> QED
  BY <1>2, <1>3

LEMMA RefusedHome ==
  ASSUME Typed, HomeInv, NEW c \in Caller, Refused(c)
  PROVE  CallKept(c) /\ CachedKept
<1>1. /\ call \in [Caller -> Operation] /\ call[c] \in Operation /\ Home(call[c])
      /\ call[c].at = "request" /\ call[c].home \in Account
  BY DEF Typed, TypeOK, HomeInv, Refused, Home
<1>2. ASSUME call' = [call EXCEPT ![c].at = "token", ![c].token = None, ![c].forced = TRUE],
             cached' = None
      PROVE  CallKept(c) /\ CachedKept
  <2> DEFINE k == [call[c] EXCEPT !.at = "token", !.token = None, !.forced = TRUE]
  <2>1. k \in Operation /\ k.at = "token"
    BY <1>1 DEF Operation
  <2>2. k.path = call[c].path /\ k.todo = call[c].todo /\ k.home = call[c].home /\ k.modem = call[c].modem
    BY <1>1 DEF Operation
  <2>3. call' = [call EXCEPT ![c] = k]
    BY <1>1, <1>2
  <2> HIDE DEF k
  <2>4. Home(k)
    BY <1>1, <2>1, <2>2 DEF Home, ModemFirst
  <2>5. CallKept(c)
    BY <1>1, <2>1, <2>3, <2>4 DEF CallKept
  <2> QED
    BY <1>2, <2>5, CachedParts
<1>3. Fails(c) /\ cached' = cached => CallKept(c) /\ CachedKept
  BY <1>1, FailsHome, CachedParts DEF CallKept
<1> QED
  BY <1>2, <1>3, Zenon DEF Refused

LEMMA CallerHome ==
  ASSUME Typed, HomeInv, NEW c \in Caller, Begin(c) \/ Step(c)
  PROVE  CallKept(c) /\ CachedKept
BY BeginSendHome, BeginReadHome, BeginVerifyHome, EnsureTokenHome, LoggedInHome,
   LoginFailsHome, SucceedsHome, RefusedHome, Zenon DEF Begin, Step

(* What the steps of nobody in particular leave alone.                     *)
LEMMA OthersKeep ==
  ASSUME Tick \/ TokenExpires \/ Configure \/ (\E a \in Account : GatewayChanges(a)) \/ UNCHANGED vars
  PROVE  call' = call /\ texted' = texted
BY Zenon DEF Tick, TokenExpires, Configure, GatewayChanges, vars

LEMMA OthersCached ==
  ASSUME Typed, HomeInv,
         Tick \/ TokenExpires \/ Configure \/ (\E a \in Account : GatewayChanges(a)) \/ UNCHANGED vars
  PROVE  CachedKept
<1>1. CASE TokenExpires
  <2>1. cached \in Cached /\ cached' = [cached EXCEPT !.fresh = FALSE]
        /\ cached.modem \in {None, cached.token.home}
    BY <1>1 DEF TokenExpires, Typed, TypeOK, HomeInv, Cached
  <2> QED
    BY <2>1 DEF CachedKept, Cached
<1>2. CASE ~TokenExpires
  <2>1. cached' = cached
    BY <1>2, Zenon DEF Tick, Configure, GatewayChanges, shared, vars
  <2> QED
    BY <2>1, CachedParts
<1> QED
  BY <1>1, <1>2

LEMMA HomeStep == Typed /\ HomeInv /\ [Next]_vars => HomeInv'
<1> SUFFICES ASSUME Typed, HomeInv, [Next]_vars PROVE HomeInv'
  OBVIOUS
<1>1. ASSUME NEW c \in Caller, Begin(c) \/ Step(c) PROVE HomeInv'
  BY <1>1, CallerHome DEF CallKept, CachedKept, HomeInv
<1>2. CASE Restart
  <2>1. \A c \in Caller : call'[c] = Idle
    BY <1>2 DEF Restart
  <2> QED
    BY <1>2, <2>1, IdleType DEF Restart, HomeInv
<1>3. CASE Tick \/ TokenExpires \/ Configure \/ (\E a \in Account : GatewayChanges(a)) \/ UNCHANGED vars
  BY <1>3, OthersKeep, OthersCached DEF CachedKept, HomeInv
<1> QED
  BY <1>1, <1>2, <1>3, Zenon DEF Next

-----------------------------------------------------------------------------
LEMMA BackoffType == \A n \in Nat : LoginBackoff(n + 1) \in 1..MaxPause
BY Constants DEF LoginBackoff

(* The part of the state that logins change.                               *)
LoginTyped == failures \in 0..MaxPause /\ pause \in 0..MaxPause /\ burst \in Nat

(* What the steps of a caller do to it.                                    *)
LEMMA LoginParts ==
  ASSUME NEW c \in Caller, Begin(c) \/ Step(c)
  PROVE  /\ UNCHANGED world
         /\ \/ UNCHANGED <<failures, pause, burst>>
            \/ LoggedIn(c) /\ failures' = 0 /\ pause' = 0 /\ burst' = 0
            \/ /\ LoginFails(c) /\ burst' = burst + 1
               /\ failures' = LoginBackoff(failures + 1) /\ pause' = LoginBackoff(failures + 1)
BY Zenon DEF Begin, Step, BeginSend, BeginRead, BeginVerify, EnsureToken, LoggedIn,
   LoginFails, LoginWithoutToken, Succeeds, Refused, shared

LEMMA TextsTaken ==
  ASSUME NEW c \in Caller, Begin(c) \/ Step(c)
  PROVE  \/ texted' = texted
         \/ c \in Sender /\ BeginSend(c) /\ texted' = [texted EXCEPT ![c] = [r \in Recipient |-> 0]]
         \/ (Succeeds(c) \/ Refused(c)) /\ Took(c)
BY Zenon DEF Begin, Step, BeginSend, BeginRead, BeginVerify, EnsureToken, LoggedIn,
   LoginFails, LoginWithoutToken, Succeeds, Refused, shared

LEMMA TookParts ==
  ASSUME texted \in [Sender -> [Recipient -> Nat]], NEW c \in Caller, Took(c)
  PROVE  /\ texted' \in [Sender -> [Recipient -> Nat]]
         /\ \A s \in Sender, r \in Recipient :
              texted'[s][r] = IF s = c /\ r = call[c].path THEN texted[s][r] + 1 ELSE texted[s][r]
<1>1. CASE call[c].path \in Recipient /\ c \in Sender
  <2>1. texted' = [texted EXCEPT ![c][call[c].path] = @ + 1]
    BY <1>1 DEF Took
  <2> QED
    BY <1>1, <2>1
<1>2. CASE call[c].path \in Recipient /\ c \notin Sender
  <2>1. texted' = [texted EXCEPT ![c][call[c].path] = @ + 1]
    BY <1>2 DEF Took
  <2>2. texted' = texted
    BY <1>2, <2>1
  <2> QED
    BY <1>2, <2>2
<1>3. CASE call[c].path \notin Recipient
  BY <1>3 DEF Took
<1> QED
  BY <1>1, <1>2, <1>3

LEMMA TypedInit == Init => Typed /\ HomeInv
<1> SUFFICES ASSUME Init PROVE Typed /\ HomeInv
  OBVIOUS
<1>1. call \in [Caller -> Operation] /\ \A c \in Caller : call[c] = Idle
  BY IdleType DEF Init
<1>2. config \in Account /\ trouble = 0 /\ cached = None
  BY DEF Init
<1>3. era \in [Account -> 0..MaxTrouble] /\ \A a \in Account : era[a] <= trouble
  BY Constants DEF Init
<1>4. state \in [Account -> {"well", "forbids", "ill"}]
  BY DEF Init
<1>5. failures \in 0..MaxPause /\ pause \in 0..MaxPause /\ burst \in Nat /\ trouble \in 0..MaxTrouble
  BY Constants DEF Init
<1>6. texted \in [Sender -> [Recipient -> Nat]]
  BY DEF Init
<1>7. HomeInv
  BY <1>1, <1>2, IdleType DEF HomeInv
<1> QED
  BY <1>1, <1>2, <1>3, <1>4, <1>5, <1>6, <1>7 DEF Typed, TypeOK

LEMMA TypedStep == Typed /\ HomeInv /\ [Next]_vars => Typed'
<1> SUFFICES ASSUME Typed, HomeInv, [Next]_vars PROVE Typed'
  OBVIOUS
<1>0. /\ config \in Account /\ trouble \in 0..MaxTrouble /\ era \in [Account -> 0..MaxTrouble]
      /\ state \in [Account -> {"well", "forbids", "ill"}]
      /\ texted \in [Sender -> [Recipient -> Nat]] /\ LoginTyped
      /\ call \in [Caller -> Operation]
      /\ \A a \in Account : era[a] <= trouble
  BY DEF Typed, TypeOK, LoginTyped
<1> DEFINE World == /\ config \in Account /\ trouble \in 0..MaxTrouble
                    /\ era \in [Account -> 0..MaxTrouble]
                    /\ state \in [Account -> {"well", "forbids", "ill"}]
                    /\ \A a \in Account : era[a] <= trouble
<1>1. ASSUME World', LoginTyped', texted' \in [Sender -> [Recipient -> Nat]],
             call' \in [Caller -> Operation], CachedKept
      PROVE  Typed'
  BY <1>1, Zenon DEF Typed, TypeOK, LoginTyped, CachedKept, Cached
<1>2. ASSUME NEW c \in Caller, Begin(c) \/ Step(c) PROVE Typed'
  <2>1. World'
    BY <1>0, <1>2, LoginParts DEF world
  <2>2. LoginTyped'
    <3>1. CASE UNCHANGED <<failures, pause, burst>>
      BY <1>0, <3>1 DEF LoginTyped
    <3>2. CASE failures' = 0 /\ pause' = 0 /\ burst' = 0
      BY <3>2, Constants DEF LoginTyped
    <3>3. CASE burst' = burst + 1 /\ failures' = LoginBackoff(failures + 1) /\ pause' = LoginBackoff(failures + 1)
      BY <1>0, <3>3, Constants, BackoffType DEF LoginTyped
    <3> QED
      BY <1>2, <3>1, <3>2, <3>3, LoginParts
  <2>3. texted' \in [Sender -> [Recipient -> Nat]]
    <3>1. CASE texted' = texted
      BY <1>0, <3>1
    <3>2. CASE c \in Sender /\ texted' = [texted EXCEPT ![c] = [r \in Recipient |-> 0]]
      BY <1>0, <3>2
    <3>3. CASE Took(c)
      BY <1>0, <3>3, TookParts
    <3> QED
      BY <1>2, <3>1, <3>2, <3>3, TextsTaken
  <2> QED
    BY <1>1, <1>2, <2>1, <2>2, <2>3, CallerHome DEF CallKept
<1>3. CASE Restart
  <2>1. World'
    BY <1>0, <1>3, Constants DEF Restart, Trouble
  <2>2. LoginTyped'
    BY <1>3, Constants DEF Restart, LoginTyped
  <2>3. texted' \in [Sender -> [Recipient -> Nat]] /\ call' \in [Caller -> Operation]
    BY <1>3, IdleType DEF Restart
  <2>4. CachedKept
    BY <1>3 DEF Restart, CachedKept
  <2> QED
    BY <1>1, <2>1, <2>2, <2>3, <2>4
<1>4. CASE Tick \/ TokenExpires \/ Configure \/ (\E a \in Account : GatewayChanges(a)) \/ UNCHANGED vars
  <2>1. World'
    <3>1. CASE Tick \/ TokenExpires \/ UNCHANGED vars
      BY <1>0, <3>1 DEF Tick, TokenExpires, vars, world
    <3>2. CASE Configure
      BY <1>0, <3>2, Constants DEF Configure, Trouble
    <3>3. ASSUME NEW a \in Account, GatewayChanges(a) PROVE World'
      <4>1. config' = config /\ trouble < MaxTrouble /\ trouble' = trouble + 1
        BY <3>3 DEF GatewayChanges, Trouble
      <4>2. CASE era' = era /\ \E s \in {"well", "forbids", "ill"} : state' = [state EXCEPT ![a] = s]
        BY <1>0, <4>1, <4>2, Constants
      <4>3. CASE state' = state /\ era' = [era EXCEPT ![a] = @ + 1]
        BY <1>0, <4>1, <4>3, Constants
      <4> QED
        BY <3>3, <4>2, <4>3 DEF GatewayChanges
    <3> QED
      BY <1>4, <3>1, <3>2, <3>3
  <2>2. LoginTyped'
    <3>1. CASE Tick
      BY <1>0, <3>1, Constants DEF Tick, LoginTyped
    <3>2. CASE UNCHANGED <<failures, pause, burst>>
      BY <1>0, <3>2 DEF LoginTyped
    <3> QED
      BY <1>4, <3>1, <3>2, Zenon DEF TokenExpires, Configure, GatewayChanges, shared, vars
  <2>3. call' = call /\ texted' = texted
    BY <1>4, OthersKeep
  <2> QED
    BY <1>0, <1>1, <1>4, <2>1, <2>2, <2>3, OthersCached
<1> QED
  BY <1>2, <1>3, <1>4, Zenon DEF Next

(* Types: for every number of accounts, callers and recipients.            *)
THEOREM TypeCorrect == Spec => []TypeOK
<1>1. Init => Typed /\ HomeInv
  BY TypedInit
<1>2. (Typed /\ HomeInv) /\ [Next]_vars => (Typed /\ HomeInv)'
  BY TypedStep, HomeStep
<1>3. Typed /\ HomeInv => TypeOK
  BY DEF Typed
<1> QED
  BY <1>1, <1>2, <1>3, PTL DEF Spec

(* A token goes only to the gateway and account that it came from, and a   *)
(* text names a modem of the gateway that is asked to send it, however the *)
(* configuration and the shared token change while a call waits.           *)
THEOREM AtHomeCorrect == Spec => []AtHome
<1>1. Init => Typed /\ HomeInv
  BY TypedInit
<1>2. (Typed /\ HomeInv) /\ [Next]_vars => (Typed /\ HomeInv)'
  BY TypedStep, HomeStep
<1>3. Typed /\ HomeInv => AtHome
  BY DEF HomeInv, Home, AtHome
<1> QED
  BY <1>1, <1>2, <1>3, PTL DEF Spec

-----------------------------------------------------------------------------
LoggingIn == {c \in Caller : call[c].at = "login"}

(* Every login on its way was begun when no pause was on, and each that    *)
(* fails is one less on its way.                                           *)
SpacedInv ==
  /\ burst + Cardinality(LoggingIn) <= Cardinality(Caller)
  /\ pause = 0 => burst = 0

LEMMA CallersFinite ==
  ASSUME NEW S \in SUBSET Caller
  PROVE  IsFiniteSet(S) /\ Cardinality(S) \in Nat /\ Cardinality(S) <= Cardinality(Caller)
         /\ Cardinality(Caller) \in Nat
<1>1. IsFiniteSet(Caller)
  BY GatewayAssumption DEF Caller
<1> QED
  BY <1>1, FS_Subset, FS_CardinalityType

(* Fewer callers log in than before.                                       *)
LEMMA FewerLogins ==
  ASSUME Typed, SpacedInv, LoggingIn' \subseteq LoggingIn, burst' \in Nat, burst' <= burst
  PROVE  burst' + Cardinality(LoggingIn)' <= Cardinality(Caller)
<1>1. LoggingIn \in SUBSET Caller /\ LoggingIn' \in SUBSET Caller
  BY DEF LoggingIn
<1>2. Cardinality(LoggingIn') <= Cardinality(LoggingIn)
  BY <1>1, CallersFinite, FS_Subset
<1>3. Cardinality(LoggingIn') \in Nat /\ Cardinality(LoggingIn) \in Nat /\ Cardinality(Caller) \in Nat
  BY <1>1, CallersFinite
<1>4. burst \in Nat /\ burst + Cardinality(LoggingIn) <= Cardinality(Caller)
  BY DEF Typed, TypeOK, SpacedInv
<1> QED
  BY <1>2, <1>3, <1>4

LEMMA NoBurst ==
  ASSUME burst' = 0
  PROVE  SpacedInv'
<1>1. LoggingIn' \in SUBSET Caller
  BY DEF LoggingIn
<1>2. Cardinality(LoggingIn') \in Nat /\ Cardinality(LoggingIn') <= Cardinality(Caller)
  BY <1>1, CallersFinite
<1>3. 0 + Cardinality(LoggingIn') <= Cardinality(Caller)
  BY <1>2
<1> QED
  BY <1>3 DEF SpacedInv

LEMMA SpacedStep == Typed /\ HomeInv /\ SpacedInv /\ [Next]_vars => SpacedInv'
<1> SUFFICES ASSUME Typed, HomeInv, SpacedInv, [Next]_vars PROVE SpacedInv'
  OBVIOUS
<1>0. burst \in Nat /\ pause \in Nat /\ failures \in Nat /\ (pause = 0 => burst = 0)
  BY Constants DEF Typed, TypeOK, SpacedInv
<1>1. ASSUME NEW c \in Caller, Begin(c) \/ Step(c) PROVE SpacedInv'
  <2>1. CallKept(c)
    BY <1>1, CallerHome
  <2>2. CASE call'[c].at = "login"
    BY <1>0, <2>1, <2>2, NoBurst DEF CallKept
  <2>3. CASE call'[c].at # "login"
    <3>1. LoggingIn' = LoggingIn \ {c}
      BY <2>1, <2>3 DEF LoggingIn, CallKept
    <3>2. CASE UNCHANGED <<failures, pause, burst>>
      <4>1. burst' \in Nat /\ burst' <= burst /\ (pause' = 0 => burst' = 0)
        BY <1>0, <3>2
      <4>2. burst' + Cardinality(LoggingIn)' <= Cardinality(Caller)
        BY <3>1, <4>1, FewerLogins
      <4> QED
        BY <4>1, <4>2 DEF SpacedInv
    <3>3. CASE burst' = 0
      BY <3>3, NoBurst
    <3>4. CASE LoginFails(c) /\ burst' = burst + 1 /\ pause' = LoginBackoff(failures + 1)
      <4>1. c \in LoggingIn /\ LoggingIn \in SUBSET Caller
        BY <3>4 DEF LoggingIn, LoginFails
      <4>2. Cardinality(LoggingIn') = Cardinality(LoggingIn) - 1
        BY <3>1, <4>1, CallersFinite, FS_RemoveElement
      <4>3. Cardinality(LoggingIn) \in Nat /\ Cardinality(Caller) \in Nat
        BY <4>1, CallersFinite
      <4>4. burst + Cardinality(LoggingIn) <= Cardinality(Caller)
        BY DEF SpacedInv
      <4>5. burst' + Cardinality(LoggingIn') <= Cardinality(Caller)
        BY <1>0, <3>4, <4>2, <4>3, <4>4
      <4>6. pause' # 0
        BY <1>0, <3>4, BackoffType, Constants
      <4> QED
        BY <4>5, <4>6 DEF SpacedInv
    <3> QED
      BY <1>1, <3>2, <3>3, <3>4, LoginParts
  <2> QED
    BY <2>2, <2>3
<1>2. CASE Restart
  BY <1>2, NoBurst DEF Restart
<1>3. CASE Tick \/ TokenExpires \/ Configure \/ (\E a \in Account : GatewayChanges(a)) \/ UNCHANGED vars
  <2>1. LoggingIn' = LoggingIn
    BY <1>3, OthersKeep DEF LoggingIn
  <2>2. burst' \in Nat /\ burst' <= burst /\ (pause' = 0 => burst' = 0)
    <3>1. CASE Tick
      BY <1>0, <3>1 DEF Tick
    <3>2. CASE UNCHANGED <<pause, burst>>
      BY <1>0, <3>2
    <3> QED
      BY <1>3, <3>1, <3>2, Zenon DEF TokenExpires, Configure, GatewayChanges, shared, vars
  <2>3. burst' + Cardinality(LoggingIn)' <= Cardinality(Caller)
    BY <2>1, <2>2, FewerLogins
  <2> QED
    BY <2>2, <2>3 DEF SpacedInv
<1> QED
  BY <1>1, <1>2, <1>3, Zenon DEF Next

(* Between two pauses no more logins fail than there are callers, for any  *)
(* number of callers and any length of the pause.                          *)
THEOREM LoginsSpacedCorrect == Spec => []LoginsSpaced
<1>1. Init => Typed /\ HomeInv /\ SpacedInv
  <2>1. ASSUME Init PROVE SpacedInv
    <3>1. LoggingIn = {}
      BY <2>1 DEF Init, LoggingIn, Idle
    <3>2. Cardinality(LoggingIn) = 0 /\ Cardinality(Caller) \in Nat
      BY <3>1, FS_EmptySet, CallersFinite
    <3> QED
      BY <2>1, <3>2 DEF Init, SpacedInv
  <2> QED
    BY <2>1, TypedInit
<1>2. (Typed /\ HomeInv /\ SpacedInv) /\ [Next]_vars => (Typed /\ HomeInv /\ SpacedInv)'
  BY TypedStep, HomeStep, SpacedStep
<1>3. Typed /\ SpacedInv => LoginsSpaced
  <2>1. LoggingIn \in SUBSET Caller
    BY DEF LoggingIn
  <2>2. Cardinality(LoggingIn) \in Nat /\ Cardinality(Caller) \in Nat
    BY <2>1, CallersFinite
  <2> QED
    BY <2>2 DEF Typed, TypeOK, SpacedInv, LoginsSpaced
<1> QED
  BY <1>1, <1>2, <1>3, PTL DEF Spec

-----------------------------------------------------------------------------
(* The calls to the API that a send is made of.                            *)
Texting == Recipient \cup {"modem"}

Ahead(s) == call[s].todo \cup {call[s].path}

(* Who is still to be texted has not been, and while nothing has failed,   *)
(* everybody else has.                                                     *)
Sent(s) ==
  /\ \A r \in Recipient : texted[s][r] <= 1
  /\ call[s].at # "idle" =>
       /\ call[s].path \notin call[s].todo
       /\ \A r \in Recipient : r \in Ahead(s) => texted[s][r] = 0
       /\ Ahead(s) \subseteq Texting \/ Ahead(s) \cap Texting = {}
       /\ ~call[s].failed /\ call[s].path \in Texting =>
            \A r \in Recipient : r \notin Ahead(s) => texted[s][r] = 1

SentInv == \A s \in Sender : Sent(s)

LEMMA SentResumed ==
  ASSUME NEW s \in Sender, NEW k \in Operation, Resumed(s, k),
         \A r \in Recipient : texted'[s][r] <= 1,
         \A r \in Recipient : r \in k.todo => texted'[s][r] = 0,
         k.todo \subseteq Texting \/ k.todo \cap Texting = {},
         ~k.failed /\ k.todo \cap Texting # {} =>
           \A r \in Recipient : r \notin k.todo => texted'[s][r] = 1
  PROVE  Sent(s)'
<1>1. CASE call'[s].at = "idle"
  BY <1>1 DEF Sent
<1>2. CASE /\ call'[s].path \in Following(k.todo)
           /\ call'[s].todo = k.todo \ {call'[s].path} /\ call'[s].failed = k.failed
  <2>1. call'[s].path \in k.todo
    BY <1>2, FollowingIn
  <2>2. Ahead(s)' = k.todo
    BY <1>2, <2>1 DEF Ahead
  <2>3. call'[s].path \notin call'[s].todo
    BY <1>2
  <2>4. call'[s].path \in Texting => k.todo \cap Texting # {}
    BY <2>1
  <2> QED
    BY <1>2, <2>2, <2>3, <2>4 DEF Sent
<1> QED
  BY <1>1, <1>2 DEF Resumed

(* A step that leaves what is ahead as it was.                             *)
LEMMA SentKept ==
  ASSUME NEW s \in Sender, Sent(s), texted' = texted,
         call'[s].path = call[s].path, call'[s].todo = call[s].todo,
         call'[s].failed = call[s].failed, call[s].at # "idle" \/ call'[s].at = "idle"
  PROVE  Sent(s)'
BY DEF Sent, Ahead

(* What Took adds, in an attempt that has not texted the one in hand.      *)
LEMMA SentTook ==
  ASSUME Typed, NEW s \in Sender, Sent(s), call[s].at # "idle", Took(s)
  PROVE  /\ \A r \in Recipient : texted'[s][r] <= 1
         /\ \A r \in Recipient : r \in call[s].todo => texted'[s][r] = 0
         /\ ~call[s].failed /\ call[s].path \in Texting =>
              \A r \in Recipient : r \notin call[s].todo => texted'[s][r] = 1
<1>0. s \in Caller /\ texted \in [Sender -> [Recipient -> Nat]]
  BY DEF Caller, Typed, TypeOK
<1>1. \A r \in Recipient :
        texted'[s][r] = IF r = call[s].path THEN texted[s][r] + 1 ELSE texted[s][r]
  BY <1>0, TookParts
<1>2. \A r \in Recipient : r = call[s].path => texted'[s][r] = 1 /\ r \notin call[s].todo
  BY <1>1 DEF Sent, Ahead
<1>3. \A r \in Recipient : r # call[s].path => texted'[s][r] = texted[s][r]
  BY <1>1
<1> QED
  BY <1>2, <1>3 DEF Sent, Ahead

LEMMA BeginSendSent ==
  ASSUME Typed, NEW s \in Sender, BeginSend(s)
  PROVE  Sent(s)'
<1> DEFINE k == [Fresh(Texts) EXCEPT !.modem = ModemOf(config)]
<1>1. s \in Caller /\ call \in [Caller -> Operation] /\ config \in Account
  BY DEF Caller, Typed, TypeOK
<1>2. Texts \in SUBSET Path /\ Recipient \subseteq Texts /\ Texts \subseteq Texting
  BY DEF Texts, Path, Texting
<1>3. Fresh(Texts) \in Operation /\ Fresh(Texts).todo = Texts
  BY <1>1, <1>2, FreshType
<1>4. ModemOf(config) \in Account \cup {None}
  BY <1>1 DEF ModemOf, Known, Typed, TypeOK
<1>5. k \in Operation /\ k.todo = Texts
  BY <1>3, <1>4 DEF Operation
<1>6. Proceeds(s, k)
  BY DEF BeginSend
<1>7. \A r \in Recipient : texted'[s][r] = 0
  BY DEF BeginSend, Typed, TypeOK
<1> HIDE DEF k
<1>8. Resumed(s, k)
  BY <1>1, <1>5, <1>6, ProceedsParts
<1> QED
  BY <1>2, <1>5, <1>7, <1>8, SentResumed

LEMMA BeginReadSent ==
  ASSUME Typed, NEW s \in Sender, Sent(s), BeginRead(s)
  PROVE  Sent(s)'
<1> DEFINE k == Fresh({"inbox"})
<1>1. s \in Caller /\ call \in [Caller -> Operation] /\ config \in Account
  BY DEF Caller, Typed, TypeOK
<1>2. k \in Operation /\ k.todo = {"inbox"}
  BY <1>1, FreshType DEF Path
<1>3. Proceeds(s, k) /\ texted' = texted
  BY DEF BeginRead
<1> HIDE DEF k
<1>4. Resumed(s, k)
  BY <1>1, <1>2, <1>3, ProceedsParts
<1>5. k.todo \cap Texting = {} /\ \A r \in Recipient : r \notin k.todo
  BY <1>2, NamesDiffer DEF Texting
<1> QED
  BY <1>2, <1>3, <1>4, <1>5, SentResumed DEF Sent

LEMMA BeginVerifySent ==
  ASSUME Typed, NEW s \in Sender, Sent(s), BeginVerify(s)
  PROVE  Sent(s)'
<1> DEFINE f == Fresh({"status", "inbox"})
           k == [f EXCEPT !.at = "token", !.path = "login", !.forced = TRUE]
<1>1. s \in Caller /\ call \in [Caller -> Operation] /\ config \in Account
  BY DEF Caller, Typed, TypeOK
<1>2. f \in Operation /\ f.todo = {"status", "inbox"}
  BY <1>1, FreshType DEF Path
<1>3. k.path = "login" /\ k.todo = {"status", "inbox"}
  BY <1>2 DEF Operation
<1>4. call' = [call EXCEPT ![s] = k] /\ texted' = texted
  BY DEF BeginVerify
<1> HIDE DEF k
<1>5. call'[s].path = "login" /\ call'[s].todo = {"status", "inbox"}
  BY <1>1, <1>3, <1>4
<1>6. Ahead(s)' = {"login", "status", "inbox"}
  BY <1>5 DEF Ahead
<1>7. Ahead(s)' \cap Texting = {} /\ \A r \in Recipient : r \notin Ahead(s)'
  BY <1>6, NamesDiffer DEF Texting
<1> QED
  BY <1>4, <1>5, <1>7, NamesDiffer DEF Sent, Texting

(* After a failure the rest of the texts are tried, or nothing more.       *)
LEMMA FailsSent ==
  ASSUME Typed, NEW s \in Sender, Sent(s), call[s].at # "idle", Fails(s),
         texted' = texted \/ Took(s)
  PROVE  Sent(s)' /\ call'[s] # Idle
<1>1. s \in Caller /\ call \in [Caller -> Operation]
  BY DEF Caller, Typed, TypeOK
<1>2. PICK k \in Operation :
        /\ Proceeds(s, k) /\ k.failed = TRUE
        /\ k.todo = IF call[s].path \in Recipient THEN call[s].todo ELSE {}
  BY <1>1, FailsParts
<1>3. Resumed(s, k)
  BY <1>1, <1>2, ProceedsParts
<1>4. /\ \A r \in Recipient : texted'[s][r] <= 1
      /\ \A r \in Recipient : r \in call[s].todo => texted'[s][r] = 0
  <2>1. CASE texted' = texted
    BY <2>1 DEF Sent, Ahead
  <2>2. CASE Took(s)
    BY <2>2, SentTook
  <2> QED
    BY <2>1, <2>2
<1>5. k.todo \subseteq call[s].todo /\ (k.todo \subseteq Texting \/ k.todo \cap Texting = {})
  BY <1>2 DEF Sent, Ahead
<1>6. Sent(s)'
  BY <1>2, <1>3, <1>4, <1>5, SentResumed
<1>7. call'[s].failed = TRUE
  BY <1>2, <1>3 DEF Resumed
<1> QED
  BY <1>6, <1>7 DEF Idle

LEMMA SucceedsSent ==
  ASSUME Typed, NEW s \in Sender, Sent(s), Succeeds(s)
  PROVE  /\ Sent(s)'
         /\ call'[s] = Idle /\ call[s].path \in Recipient =>
              \A r \in Recipient : texted'[s][r] = 1
<1>1. /\ s \in Caller /\ call \in [Caller -> Operation] /\ call[s] \in Operation
      /\ call[s].at # "idle" /\ Took(s)
  BY DEF Caller, Typed, TypeOK, Succeeds
<1>2. PICK k \in Operation : Proceeds(s, k) /\ k.todo = call[s].todo /\ k.failed = call[s].failed
  <2>1. CASE call[s].path = "modem"
    <3> DEFINE f == [call[s] EXCEPT !.modem = call[s].home]
    <3>1. f \in Operation /\ f.todo = call[s].todo /\ f.failed = call[s].failed
      BY <1>1 DEF Operation
    <3>2. Proceeds(s, f)
      BY <2>1 DEF Succeeds
    <3> QED
      BY <3>1, <3>2
  <2>2. CASE call[s].path # "modem"
    <3>1. Proceeds(s, call[s])
      BY <2>2 DEF Succeeds
    <3> QED
      BY <1>1, <3>1
  <2> QED
    BY <2>1, <2>2
<1>3. Resumed(s, k)
  BY <1>1, <1>2, ProceedsParts
<1>4. /\ \A r \in Recipient : texted'[s][r] <= 1
      /\ \A r \in Recipient : r \in call[s].todo => texted'[s][r] = 0
      /\ ~call[s].failed /\ call[s].path \in Texting =>
           \A r \in Recipient : r \notin call[s].todo => texted'[s][r] = 1
  BY <1>1, SentTook
<1>5. /\ k.todo \subseteq Texting \/ k.todo \cap Texting = {}
      /\ k.todo \cap Texting # {} => call[s].path \in Texting
  BY <1>1, <1>2 DEF Sent, Ahead
<1>6. Sent(s)'
  BY <1>2, <1>3, <1>4, <1>5, SentResumed
<1>7. ASSUME call'[s] = Idle, call[s].path \in Recipient
      PROVE  \A r \in Recipient : texted'[s][r] = 1
  <2>1. call'[s].at = "idle" /\ call'[s].failed = FALSE
    BY <1>7 DEF Idle
  <2>2. call[s].todo = {} /\ ~call[s].failed
    BY <1>2, <1>3, <2>1 DEF Resumed
  <2> QED
    BY <1>4, <1>7, <2>2 DEF Texting
<1> QED
  BY <1>6, <1>7

LEMMA EnsureTokenSent ==
  ASSUME Typed, NEW s \in Sender, Sent(s), EnsureToken(s)
  PROVE  Sent(s)' /\ call'[s] # Idle
<1>1. /\ s \in Caller /\ call \in [Caller -> Operation] /\ call[s] \in Operation
      /\ call[s].at = "token" /\ texted' = texted
  BY DEF Caller, Typed, TypeOK, EnsureToken
<1>2. ASSUME NEW k, call' = [call EXCEPT ![s] = k], k.at # "idle",
             k.path = call[s].path, k.todo = call[s].todo, k.failed = call[s].failed
      PROVE  Sent(s)' /\ call'[s] # Idle
  <2>1. call'[s] = k
    BY <1>1, <1>2
  <2> QED
    BY <1>1, <1>2, <2>1, SentKept DEF Idle
<1>3. ASSUME call' = [call EXCEPT ![s].at = "request", ![s].token = cached.token]
      PROVE  Sent(s)' /\ call'[s] # Idle
  <2> DEFINE k == [call[s] EXCEPT !.at = "request", !.token = cached.token]
  <2>1. k.at = "request" /\ k.path = call[s].path /\ k.todo = call[s].todo /\ k.failed = call[s].failed
    BY <1>1 DEF Operation
  <2>2. call' = [call EXCEPT ![s] = k]
    BY <1>1, <1>3
  <2> HIDE DEF k
  <2> QED
    BY <1>2, <2>1, <2>2
<1>4. ASSUME call' = [call EXCEPT ![s].at = "login"]
      PROVE  Sent(s)' /\ call'[s] # Idle
  <2> DEFINE k == [call[s] EXCEPT !.at = "login"]
  <2>1. k.at = "login" /\ k.path = call[s].path /\ k.todo = call[s].todo /\ k.failed = call[s].failed
    BY <1>1 DEF Operation
  <2>2. call' = [call EXCEPT ![s] = k]
    BY <1>1, <1>4
  <2> HIDE DEF k
  <2> QED
    BY <1>2, <2>1, <2>2
<1>5. Fails(s) => Sent(s)' /\ call'[s] # Idle
  BY <1>1, FailsSent
<1> QED
  BY <1>3, <1>4, <1>5, Zenon DEF EnsureToken

LEMMA LoggedInSent ==
  ASSUME Typed, NEW s \in Sender, Sent(s), LoggedIn(s)
  PROVE  /\ Sent(s)'
         /\ call[s].path \in Recipient => call'[s] # Idle
<1> DEFINE t == [home |-> call[s].home, era |-> era[call[s].home]]
<1>1. /\ s \in Caller /\ call \in [Caller -> Operation] /\ call[s] \in Operation
      /\ call[s].at = "login" /\ texted' = texted
  BY DEF Caller, Typed, TypeOK, LoggedIn
<1>2. CASE call[s].path = "login"
  <2>1. Resumed(s, call[s])
    BY <1>1, <1>2, ProceedsParts DEF LoggedIn
  <2>2. call[s].todo \cap Texting = {}
    BY <1>1, <1>2, NamesDiffer DEF Sent, Ahead, Texting
  <2>3. Sent(s)'
    BY <1>1, <2>1, <2>2, SentResumed DEF Sent, Ahead
  <2> QED
    BY <1>2, <2>3, NamesDiffer
<1>3. CASE call[s].path # "login"
  <2> DEFINE k == [call[s] EXCEPT !.at = "request", !.token = t]
  <2>1. k.at = "request" /\ k.path = call[s].path /\ k.todo = call[s].todo /\ k.failed = call[s].failed
    BY <1>1 DEF Operation
  <2>2. call' = [call EXCEPT ![s] = k]
    BY <1>1, <1>3 DEF LoggedIn
  <2> HIDE DEF k
  <2>3. call'[s] = k
    BY <1>1, <2>2
  <2> QED
    BY <1>1, <2>1, <2>3, SentKept DEF Idle
<1> QED
  BY <1>2, <1>3

LEMMA RefusedSent ==
  ASSUME Typed, NEW s \in Sender, Sent(s), Refused(s)
  PROVE  Sent(s)' /\ call'[s] # Idle
<1>1. /\ s \in Caller /\ call \in [Caller -> Operation] /\ call[s] \in Operation
      /\ call[s].at = "request"
  BY DEF Caller, Typed, TypeOK, Refused
<1>2. PICK answer \in Refusals(s) :
        /\ IF answer = "lost" THEN Took(s) ELSE UNCHANGED texted
        /\ \/ /\ Again(s, answer)
              /\ call' = [call EXCEPT ![s].at = "token", ![s].token = None, ![s].forced = TRUE]
           \/ Fails(s)
  BY Zenon DEF Refused
<1>3. texted' = texted \/ Took(s)
  BY <1>2
<1>4. CASE Again(s, answer) /\ call' = [call EXCEPT ![s].at = "token", ![s].token = None, ![s].forced = TRUE]
  <2> DEFINE k == [call[s] EXCEPT !.at = "token", !.token = None, !.forced = TRUE]
  <2>1. k.at = "token" /\ k.path = call[s].path /\ k.todo = call[s].todo /\ k.failed = call[s].failed
    BY <1>1 DEF Operation
  <2>2. call' = [call EXCEPT ![s] = k]
    BY <1>1, <1>4
  <2> HIDE DEF k
  <2>3. call'[s] = k
    BY <1>1, <2>2
  <2>4. texted' = texted
    BY <1>2, <1>4 DEF Again
  <2> QED
    BY <1>1, <2>1, <2>3, <2>4, SentKept DEF Idle
<1>5. CASE Fails(s)
  BY <1>1, <1>3, <1>5, FailsSent
<1> QED
  BY <1>2, <1>4, <1>5

LEMMA LoginFailsSent ==
  ASSUME Typed, NEW s \in Sender, Sent(s), LoginFails(s) \/ LoginWithoutToken(s)
  PROVE  Sent(s)' /\ call'[s] # Idle
<1>1. call[s].at # "idle" /\ Fails(s) /\ texted' = texted
  BY DEF LoginFails, LoginWithoutToken
<1> QED
  BY <1>1, FailsSent

(* What a step of the sender itself does.                                  *)
LEMMA OwnSent ==
  ASSUME Typed, NEW s \in Sender, Sent(s), Begin(s) \/ Step(s)
  PROVE  /\ Sent(s)'
         /\ call[s].at # "idle" /\ call'[s] = Idle /\ call[s].path \in Recipient =>
              \A r \in Recipient : texted'[s][r] = 1
<1>1. CASE Begin(s)
  <2>1. Sent(s)'
    BY <1>1, BeginSendSent, BeginReadSent, BeginVerifySent, Zenon DEF Begin
  <2>2. call[s].at = "idle"
    BY <1>1, Zenon DEF Begin, BeginSend, BeginRead, BeginVerify
  <2> QED
    BY <2>1, <2>2
<1>2. CASE Step(s)
  BY <1>2, EnsureTokenSent, LoggedInSent, LoginFailsSent, SucceedsSent, RefusedSent, Zenon DEF Step
<1> QED
  BY <1>1, <1>2

LEMMA OtherSent ==
  ASSUME NEW s \in Sender, Sent(s), call'[s] = call[s],
         \A r \in Recipient : texted'[s][r] = texted[s][r]
  PROVE  Sent(s)' /\ (call[s].at # "idle" => call'[s] # Idle)
BY DEF Sent, Ahead, Idle

(* What any step does to any sender.                                       *)
LEMMA SentStep ==
  ASSUME Typed, HomeInv, SentInv, [Next]_vars, NEW s \in Sender
  PROVE  /\ Sent(s)'
         /\ call[s].at # "idle" /\ call'[s] = Idle /\ call[s].path \in Recipient /\ trouble' = trouble =>
              \A r \in Recipient : texted'[s][r] = 1
<1>0. /\ s \in Caller /\ Sent(s) /\ trouble \in Nat
      /\ texted \in [Sender -> [Recipient -> Nat]]
  BY Constants DEF Caller, SentInv, Typed, TypeOK
<1>1. ASSUME NEW c \in Caller, Begin(c) \/ Step(c), c # s
      PROVE  Sent(s)' /\ (call[s].at # "idle" => call'[s] # Idle)
  <2>1. call'[s] = call[s]
    BY <1>0, <1>1, CallerHome DEF CallKept
  <2>2. \A r \in Recipient : texted'[s][r] = texted[s][r]
    <3>1. CASE Took(c)
      BY <1>0, <1>1, <3>1, TookParts
    <3>2. CASE texted' = texted
      BY <3>2
    <3>3. CASE c \in Sender /\ texted' = [texted EXCEPT ![c] = [r \in Recipient |-> 0]]
      BY <1>0, <1>1, <3>3
    <3> QED
      BY <1>1, <3>1, <3>2, <3>3, TextsTaken
  <2> QED
    BY <1>0, <2>1, <2>2, OtherSent
<1>2. CASE Begin(s) \/ Step(s)
  BY <1>0, <1>2, OwnSent
<1>3. CASE Restart
  <2>1. call'[s] = Idle /\ texted'[s] = [r \in Recipient |-> 0] /\ trouble' # trouble
    BY <1>0, <1>3 DEF Restart, Trouble
  <2>2. Sent(s)'
    BY <2>1 DEF Sent, Idle
  <2> QED
    BY <2>1, <2>2
<1>4. CASE Tick \/ TokenExpires \/ Configure \/ (\E a \in Account : GatewayChanges(a)) \/ UNCHANGED vars
  BY <1>0, <1>4, OthersKeep, OtherSent
<1> QED
  BY <1>1, <1>2, <1>3, <1>4, Zenon DEF Next

(* In one attempt nobody is texted twice, and a success means that all     *)
(* have been texted: whoever is ahead has had nothing yet, and whoever is  *)
(* behind has, unless something failed.                                    *)
THEOREM TextedOnceCorrect == Spec => TextedOnce
<1>1. Init => Typed /\ HomeInv /\ SentInv
  <2>1. ASSUME Init, NEW s \in Sender PROVE Sent(s)
    <3>1. call[s] = Idle /\ texted[s] = [r \in Recipient |-> 0]
      BY <2>1 DEF Init, Caller
    <3> QED
      BY <3>1 DEF Sent, Idle
  <2> QED
    BY <2>1, TypedInit DEF SentInv
<1>2. (Typed /\ HomeInv /\ SentInv) /\ [Next]_vars => (Typed /\ HomeInv /\ SentInv)'
  <2>1. ASSUME Typed, HomeInv, SentInv, [Next]_vars PROVE SentInv'
    BY <2>1, SentStep DEF SentInv
  <2> QED
    BY <2>1, TypedStep, HomeStep
<1>3. (Typed /\ HomeInv /\ SentInv) /\ [Next]_vars =>
        [\A s \in Sender : call[s].at # "idle" =>
           /\ \A r \in Recipient : texted'[s][r] <= 1
           /\ call'[s] = Idle /\ call[s].path \in Recipient /\ trouble' = trouble =>
                \A r \in Recipient : texted'[s][r] = 1]_vars
  <2>1. ASSUME Typed, HomeInv, SentInv, [Next]_vars, NEW s \in Sender, call[s].at # "idle"
        PROVE  /\ \A r \in Recipient : texted'[s][r] <= 1
               /\ call'[s] = Idle /\ call[s].path \in Recipient /\ trouble' = trouble =>
                    \A r \in Recipient : texted'[s][r] = 1
    BY <2>1, SentStep DEF Sent
  <2> QED
    BY <2>1
<1> QED
  BY <1>1, <1>2, <1>3, PTL DEF Spec, TextedOnce
-----------------------------------------------------------------------------
(***************************************************************************)
(* Why calls end.  What is left of a call is counted in steps: the         *)
(* requests to come, of seven steps at most each, and the steps of the one *)
(* in hand.  A request may be refused after its three steps and begin      *)
(* again, with a new login by force, but only once: forced is what makes   *)
(* the second turn count as a later stage than the first.                  *)
(***************************************************************************)
Turn(k) == IF k.at = "request" THEN 1 ELSE IF k.at = "login" THEN 2 ELSE 3

Stage(k) ==
  IF k.at = "idle" THEN 0 ELSE IF k.forced THEN Turn(k) ELSE Turn(k) + 3

Left(k) == 7 * Cardinality(k.todo) + Stage(k)

LEMMA StageType ==
  ASSUME NEW k \in Operation
  PROVE  Stage(k) \in 0..6 /\ (k.at # "idle" => Stage(k) >= 1) /\ (k.at = "idle" => Stage(k) = 0)
BY DEF Stage, Turn, Operation

LEMMA TodoFinite ==
  ASSUME NEW k \in Operation
  PROVE  /\ IsFiniteSet(k.todo) /\ Cardinality(k.todo) \in Nat
         /\ IsFiniteSet(Path) /\ Cardinality(Path) \in Nat
         /\ Cardinality(k.todo) <= Cardinality(Path)
<1>1. IsFiniteSet(Path)
  <2>1. IsFiniteSet({}) /\ IsFiniteSet(Recipient)
    BY FS_EmptySet, GatewayAssumption
  <2>2. IsFiniteSet(((((({} \cup {"none"}) \cup {"login"}) \cup {"modem"}) \cup {"status"}) \cup {"inbox"}))
    BY <2>1, FS_AddElement
  <2>3. (((((({} \cup {"none"}) \cup {"login"}) \cup {"modem"}) \cup {"status"}) \cup {"inbox"}))
        = {"none", "login", "modem", "status", "inbox"}
    OBVIOUS
  <2> QED
    BY <2>1, <2>2, <2>3, FS_Union DEF Path
<1>2. k.todo \in SUBSET Path
  BY DEF Operation
<1> QED
  BY <1>1, <1>2, FS_Subset, FS_CardinalityType

LEMMA LeftType ==
  ASSUME NEW k \in Operation
  PROVE  Left(k) \in 0..(7 * Cardinality(Path) + 6)
<1>1. ASSUME NEW n \in Nat, NEW m \in Nat, n <= m, NEW i \in 0..6
      PROVE  7 * n + i \in 0..(7 * m + 6)
  BY <1>1
<1> QED
  BY <1>1, TodoFinite, StageType DEF Left

(* One request less to come outweighs whatever the stage is.               *)
LEMMA FewerToCome ==
  ASSUME NEW k \in Operation, NEW l \in Operation, NEW x \in l.todo, k.todo \subseteq l.todo \ {x}
  PROVE  Left(k) < Left(l)
<1>1. /\ IsFiniteSet(l.todo \ {x})
      /\ Cardinality(l.todo \ {x}) = Cardinality(l.todo) - 1
  BY TodoFinite, FS_RemoveElement
<1>2. Cardinality(k.todo) <= Cardinality(l.todo) - 1
  BY <1>1, FS_Subset
<1>3. ASSUME NEW n \in Nat, NEW m \in Nat, n <= m - 1, NEW i \in 0..6, NEW j \in 0..6
      PROVE  7 * n + i < 7 * m + j
  BY <1>3
<1>4. Cardinality(k.todo) \in Nat /\ Cardinality(l.todo) \in Nat
      /\ Stage(k) \in 0..6 /\ Stage(l) \in 0..6
  BY TodoFinite, StageType
<1> QED
  BY <1>2, <1>3, <1>4 DEF Left

LEMMA LaterStage ==
  ASSUME NEW k \in Operation, NEW l \in Operation, k.todo = l.todo, Stage(k) < Stage(l)
  PROVE  Left(k) < Left(l)
<1>1. ASSUME NEW n \in Nat, NEW i \in 0..6, NEW j \in 0..6, i < j
      PROVE  7 * n + i < 7 * n + j
  BY <1>1
<1> QED
  BY <1>1, TodoFinite, StageType DEF Left

(* The next request, or the end of the call.                               *)
LEMMA ResumedNearer ==
  ASSUME NEW c \in Caller, call[c] \in Operation, call'[c] \in Operation, call[c].at # "idle",
         NEW k \in Operation, k.todo \subseteq call[c].todo, Resumed(c, k)
  PROVE  Left(call'[c]) < Left(call[c])
<1>1. CASE call'[c].at = "idle" /\ call'[c].todo = {}
  <2>1. CASE call[c].todo = {}
    <3>1. Stage(call'[c]) = 0 /\ Stage(call[c]) \in 0..6 /\ Stage(call[c]) >= 1
      BY <1>1, StageType
    <3>2. Stage(call'[c]) < Stage(call[c])
      BY <3>1
    <3> QED
      BY <1>1, <2>1, <3>2, LaterStage
  <2>2. CASE call[c].todo # {}
    <3>1. PICK x \in call[c].todo : TRUE
      BY <2>2
    <3> QED
      BY <1>1, <3>1, FewerToCome
  <2> QED
    BY <2>1, <2>2
<1>2. CASE call'[c].path \in Following(k.todo) /\ call'[c].todo = k.todo \ {call'[c].path}
  <2>1. call'[c].path \in call[c].todo /\ call'[c].todo \subseteq call[c].todo \ {call'[c].path}
    BY <1>2, FollowingIn
  <2> QED
    BY <2>1, FewerToCome
<1> QED
  BY <1>1, <1>2 DEF Resumed

LEMMA FailsNearer ==
  ASSUME Typed, NEW c \in Caller, call[c].at # "idle", Fails(c)
  PROVE  Left(call'[c]) < Left(call[c])
<1>1. call \in [Caller -> Operation] /\ call[c] \in Operation
  BY DEF Typed, TypeOK
<1>2. PICK k \in Operation :
        Proceeds(c, k) /\ k.todo = IF call[c].path \in Recipient THEN call[c].todo ELSE {}
  BY <1>1, FailsParts
<1>3. k.todo \subseteq call[c].todo
  BY <1>2
<1>4. call' \in [Caller -> Operation] /\ Resumed(c, k)
  BY <1>1, <1>2, ProceedsParts
<1> QED
  BY <1>1, <1>3, <1>4, ResumedNearer

(* The call stays at its request, one stage further.                       *)
LEMMA StageNearer ==
  ASSUME NEW c \in Caller, call \in [Caller -> Operation], NEW k \in Operation,
         call' = [call EXCEPT ![c] = k], k.todo = call[c].todo, Stage(k) < Stage(call[c])
  PROVE  Left(call'[c]) < Left(call[c])
BY LaterStage

LEMMA EnsureTokenNearer ==
  ASSUME Typed, HomeInv, NEW c \in Caller, EnsureToken(c)
  PROVE  Left(call'[c]) < Left(call[c])
<1>1. /\ call \in [Caller -> Operation] /\ call[c] \in Operation
      /\ call[c].at = "token" /\ call[c].home \in Account
  BY DEF Typed, TypeOK, HomeInv, EnsureToken, Home
<1>2. ASSUME Usable(c),
             call' = [call EXCEPT ![c].at = "request", ![c].token = cached.token]
      PROVE  Left(call'[c]) < Left(call[c])
  <2> DEFINE k == [call[c] EXCEPT !.at = "request", !.token = cached.token]
  <2>1. cached.token \in Token
    BY <1>1, <1>2, CachedParts DEF Usable
  <2>2. k \in Operation /\ k.at = "request" /\ k.todo = call[c].todo /\ k.forced = call[c].forced
    BY <1>1, <2>1 DEF Operation
  <2>3. call' = [call EXCEPT ![c] = k]
    BY <1>1, <1>2
  <2> HIDE DEF k
  <2>4. Stage(k) < Stage(call[c])
    BY <1>1, <2>2 DEF Stage, Turn
  <2> QED
    BY <1>1, <2>2, <2>3, <2>4, StageNearer
<1>3. ASSUME call' = [call EXCEPT ![c].at = "login"]
      PROVE  Left(call'[c]) < Left(call[c])
  <2> DEFINE k == [call[c] EXCEPT !.at = "login"]
  <2>1. k \in Operation /\ k.at = "login" /\ k.todo = call[c].todo /\ k.forced = call[c].forced
    BY <1>1 DEF Operation
  <2>2. call' = [call EXCEPT ![c] = k]
    BY <1>1, <1>3
  <2> HIDE DEF k
  <2>3. Stage(k) < Stage(call[c])
    BY <1>1, <2>1 DEF Stage, Turn
  <2> QED
    BY <1>1, <2>1, <2>2, <2>3, StageNearer
<1>4. Fails(c) => Left(call'[c]) < Left(call[c])
  BY <1>1, FailsNearer
<1> QED
  BY <1>2, <1>3, <1>4, Zenon DEF EnsureToken

LEMMA LoggedInNearer ==
  ASSUME Typed, HomeInv, NEW c \in Caller, LoggedIn(c)
  PROVE  Left(call'[c]) < Left(call[c])
<1> DEFINE t == [home |-> call[c].home, era |-> era[call[c].home]]
<1>1. /\ call \in [Caller -> Operation] /\ call[c] \in Operation
      /\ call[c].at = "login" /\ call[c].home \in Account
  BY DEF Typed, TypeOK, HomeInv, LoggedIn, Home
<1>2. CASE call[c].path = "login"
  <2>1. Proceeds(c, call[c])
    BY <1>2 DEF LoggedIn
  <2> QED
    BY <1>1, <2>1, ProceedsParts, ResumedNearer
<1>3. CASE call[c].path # "login"
  <2> DEFINE k == [call[c] EXCEPT !.at = "request", !.token = t]
  <2>1. t \in Token
    BY <1>1 DEF Typed, TypeOK, Token
  <2>2. k \in Operation /\ k.at = "request" /\ k.todo = call[c].todo /\ k.forced = call[c].forced
    BY <1>1, <2>1 DEF Operation
  <2>3. call' = [call EXCEPT ![c] = k]
    BY <1>1, <1>3 DEF LoggedIn
  <2> HIDE DEF k
  <2>4. Stage(k) < Stage(call[c])
    BY <1>1, <2>2 DEF Stage, Turn
  <2> QED
    BY <1>1, <2>2, <2>3, <2>4, StageNearer
<1> QED
  BY <1>2, <1>3

LEMMA SucceedsNearer ==
  ASSUME Typed, HomeInv, NEW c \in Caller, Succeeds(c)
  PROVE  Left(call'[c]) < Left(call[c])
<1>1. /\ call \in [Caller -> Operation] /\ call[c] \in Operation
      /\ call[c].at = "request" /\ call[c].home \in Account
  BY DEF Typed, TypeOK, HomeInv, Succeeds, Home
<1> DEFINE k == [call[c] EXCEPT !.modem = call[c].home]
<1>2. k \in Operation /\ k.todo = call[c].todo
  BY <1>1 DEF Operation
<1>3. Proceeds(c, k) \/ Proceeds(c, call[c])
  BY Zenon DEF Succeeds
<1> HIDE DEF k
<1> QED
  BY <1>1, <1>2, <1>3, ProceedsParts, ResumedNearer

LEMMA RefusedNearer ==
  ASSUME Typed, NEW c \in Caller, Refused(c)
  PROVE  Left(call'[c]) < Left(call[c])
<1>1. call \in [Caller -> Operation] /\ call[c] \in Operation /\ call[c].at = "request"
  BY DEF Typed, TypeOK, Refused
<1>2. \/ /\ ~call[c].forced
         /\ call' = [call EXCEPT ![c].at = "token", ![c].token = None, ![c].forced = TRUE]
      \/ Fails(c)
  BY Zenon DEF Refused, Again
<1>3. CASE ~call[c].forced
           /\ call' = [call EXCEPT ![c].at = "token", ![c].token = None, ![c].forced = TRUE]
  <2> DEFINE k == [call[c] EXCEPT !.at = "token", !.token = None, !.forced = TRUE]
  <2>1. k \in Operation /\ k.at = "token" /\ k.todo = call[c].todo /\ k.forced = TRUE
    BY <1>1 DEF Operation
  <2>2. call' = [call EXCEPT ![c] = k]
    BY <1>1, <1>3
  <2> HIDE DEF k
  <2>3. Stage(k) < Stage(call[c])
    BY <1>1, <1>3, <2>1 DEF Stage, Turn
  <2> QED
    BY <1>1, <2>1, <2>2, <2>3, StageNearer
<1>4. CASE Fails(c)
  BY <1>1, <1>4, FailsNearer
<1> QED
  BY <1>2, <1>3, <1>4

LEMMA StepNearer ==
  ASSUME Typed, HomeInv, NEW c \in Caller, Step(c)
  PROVE  Left(call'[c]) < Left(call[c])
<1>1. LoginFails(c) \/ LoginWithoutToken(c) => Left(call'[c]) < Left(call[c])
  BY FailsNearer DEF LoginFails, LoginWithoutToken
<1> QED
  BY <1>1, EnsureTokenNearer, LoggedInNearer, SucceedsNearer, RefusedNearer, Zenon DEF Step

(* Nobody else touches a call, but for a restart that ends it.             *)
LEMMA AnyStepNearer ==
  ASSUME Typed, HomeInv, [Next]_vars, NEW c \in Caller, call[c].at # "idle", call'[c] # call[c]
  PROVE  Left(call'[c]) < Left(call[c])
<1>0. call \in [Caller -> Operation] /\ call[c] \in Operation
  BY DEF Typed, TypeOK
<1>1. ASSUME NEW d \in Caller, Begin(d) \/ Step(d) PROVE d = c /\ Step(c)
  <2>1. d = c
    BY <1>1, CallerHome DEF CallKept
  <2>2. ~Begin(c)
    BY Zenon DEF Begin, BeginSend, BeginRead, BeginVerify
  <2> QED
    BY <1>1, <2>1, <2>2
<1>2. CASE Restart
  <2>1. call'[c] = Idle
    BY <1>2 DEF Restart
  <2>2. Resumed(c, [Idle EXCEPT !.failed = FALSE])
    BY <2>1 DEF Resumed, Idle
  <2>3. [Idle EXCEPT !.failed = FALSE] \in Operation /\ [Idle EXCEPT !.failed = FALSE].todo = {}
    BY IdleType DEF Operation, Idle
  <2> QED
    BY <1>0, <2>1, <2>2, <2>3, IdleType, ResumedNearer
<1>3. CASE Tick \/ TokenExpires \/ Configure \/ (\E a \in Account : GatewayChanges(a)) \/ UNCHANGED vars
  BY <1>3, OthersKeep
<1> QED
  BY <1>1, <1>2, <1>3, StepNearer, Zenon DEF Next

(* A call that is under way has a number of steps before it, bounded by    *)
(* what there is to be asked for, that gets less with each of its own      *)
(* steps and with nothing that others do grows.                            *)
Nearing ==
  \A c \in Caller : call[c].at # "idle" =>
    /\ Left(call[c]) \in 0..(7 * Cardinality(Path) + 6)
    /\ Step(c) \/ call'[c] # call[c] => Left(call'[c]) < Left(call[c])

(* Whatever gateways answer, accounts change and tokens expire, a call is  *)
(* over after finitely many steps of its own: the part of CallsEnd that    *)
(* does not need fairness (sms.rs: api_call has one new login per request).*)
THEOREM CallsNearEnd == Spec => [][Nearing]_vars
<1>1. (Typed /\ HomeInv) /\ [Next]_vars => [Nearing]_vars
  <2> SUFFICES ASSUME Typed, HomeInv, [Next]_vars PROVE Nearing
    OBVIOUS
  <2>1. ASSUME NEW c \in Caller, call[c].at # "idle"
        PROVE  Left(call[c]) \in 0..(7 * Cardinality(Path) + 6)
    BY LeftType DEF Typed, TypeOK
  <2>2. ASSUME NEW c \in Caller, call[c].at # "idle", Step(c) \/ call'[c] # call[c]
        PROVE  Left(call'[c]) < Left(call[c])
    BY <2>2, StepNearer, AnyStepNearer, Zenon
  <2> QED
    BY <2>1, <2>2 DEF Nearing
<1>2. (Typed /\ HomeInv) /\ [Next]_vars => (Typed /\ HomeInv)'
  BY TypedStep, HomeStep
<1> QED
  BY <1>1, <1>2, TypedInit, PTL DEF Spec
=============================================================================
