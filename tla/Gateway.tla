------------------------------- MODULE Gateway -------------------------------
(***************************************************************************)
(* The client of the SMS gateway (src/src/channels/sms.rs): one token, one *)
(* modem id and one login backoff, shared by everybody who calls it: the   *)
(* queue with texts to send, the SMS engine that reads the inbox, and      *)
(* administrators who look at the status or verify the account.            *)
(*                                                                         *)
(* The lock on the shared state is never held over the network: whatever a *)
(* caller has read or checked may be out of date when its answer comes.    *)
(***************************************************************************)
EXTENDS Integers, FiniteSets

CONSTANTS
  Account,    \* scheme, gateway and user: cache_key
  Manual,     \* accounts whose configuration names the modem
  Recipient,
  Sender,     \* callers of send
  Reader,     \* callers of inbox, status and remove_messages
  Verifier,   \* callers of verify
  None,       \* no token, no modem
  MaxPause,   \* the longest pause between logins, 600 s
  MaxTrouble  \* bound on the changes of the configuration and of the gateways

ASSUME GatewayAssumption ==
  /\ Manual \subseteq Account /\ None \notin Account
  /\ Recipient \cap {"none", "login", "modem", "status", "inbox"} = {}
  /\ IsFiniteSet(Sender \cup Reader \cup Verifier) /\ IsFiniteSet(Recipient)
  /\ MaxPause \in Nat \ {0} /\ MaxTrouble \in Nat

Caller == Sender \cup Reader \cup Verifier

VARIABLES
  config,    \* the account in the settings
  era,       \* era[a]: a restart of the gateway invalidates older tokens
  state,     \* state[a]: well, without the rights needed, or ill
  trouble,
  cached,    \* SmsState.cached
  failures,  \* SmsState.login_failures, as far as login_backoff tells apart
  pause,     \* time left to SmsState.next_login_at
  call,      \* call[c]: the locals of a call
  texted,    \* texted[c][r]: texts to r the gateway took during the last call
  burst      \* history: logins that have failed in this pause

world  == <<config, era, state, trouble>>
shared == <<cached, failures, pause>>
vars   == <<world, shared, call, texted, burst>>

Token == [home : Account, era : 0..MaxTrouble]
Path  == Recipient \cup {"none", "login", "modem", "status", "inbox"}

-----------------------------------------------------------------------------
(* cached, if its key is that of the caller's configuration.               *)
Known(home) == cached # None /\ cached.token.home = home

ModemOf(home) ==
  IF home \in Manual THEN home ELSE IF Known(home) THEN cached.modem ELSE None

Idle ==
  [at |-> "idle", path |-> "none", todo |-> {}, home |-> None, forced |-> FALSE,
   token |-> None, modem |-> None, failed |-> FALSE]

(* Which calls to the API are left; the modem comes first, and the status  *)
(* before the inbox.                                                       *)
Following(todo) ==
  IF "modem" \in todo THEN {"modem"} ELSE IF "status" \in todo THEN {"status"} ELSE todo

(* api_call starts, or the operation is over.                              *)
Proceeds(c, k) ==
  \/ k.todo = {} /\ call' = [call EXCEPT ![c] = [Idle EXCEPT !.failed = k.failed]]
  \/ \E p \in Following(k.todo) :
       call' = [call EXCEPT ![c] =
         [k EXCEPT !.at = "token", !.path = p, !.todo = k.todo \ {p},
                   !.token = None, !.forced = FALSE]]

(* A recipient that fails leaves the others to be tried; everything else   *)
(* ends the operation.                                                     *)
Fails(c) ==
  LET k == call[c]
  IN Proceeds(c, [k EXCEPT !.failed = TRUE, !.todo = IF k.path \in Recipient THEN @ ELSE {}])

Fresh(todo) == [Idle EXCEPT !.todo = todo, !.home = config]

Texts ==
  Recipient \cup IF ModemOf(config) = None THEN {"modem"} ELSE {}

(* send.  The list of recipients is taken for a set: an address that is on *)
(* it twice (sms.rs:426-430) is two recipients.                            *)
BeginSend(c) ==
  /\ call[c].at = "idle"
  /\ Proceeds(c, [Fresh(Texts) EXCEPT !.modem = ModemOf(config)])
  /\ texted' = [texted EXCEPT ![c] = [r \in Recipient |-> 0]]
  /\ UNCHANGED <<world, shared, burst>>

(* One call for the inbox; status is alike, and remove_messages once it    *)
(* knows the modem, which it asks for first if its caller does not         *)
(* (sms.rs:659).                                                           *)
BeginRead(c) ==
  /\ call[c].at = "idle"
  /\ Proceeds(c, Fresh({"inbox"}))
  /\ UNCHANGED <<world, shared, texted, burst>>

(* verify forgets the token and logs in by all means before it asks.       *)
BeginVerify(c) ==
  /\ call[c].at = "idle"
  /\ cached' = None
  /\ call' = [call EXCEPT ![c] = [Fresh({"status", "inbox"}) EXCEPT
                !.at = "token", !.path = "login", !.forced = TRUE]]
  /\ UNCHANGED <<world, failures, pause, texted, burst>>

-----------------------------------------------------------------------------
(* Mutant: whose token it is does not matter.                              *)
UsableOfAnyone(c) == cached # None /\ cached.fresh /\ ~call[c].forced

Usable(c) == Known(call[c].home) /\ cached.fresh /\ ~call[c].forced

(* Mutant: the pause is forgotten.                                         *)
MayLogInAlways == TRUE

MayLogIn == pause = 0

(* ensure_token: the token in hand, or the login's request goes out.       *)
EnsureToken(c) ==
  /\ call[c].at = "token"
  /\ \/ /\ Usable(c)
        /\ call' = [call EXCEPT ![c].at = "request", ![c].token = cached.token]
     \/ /\ ~Usable(c) /\ MayLogIn
        /\ call' = [call EXCEPT ![c].at = "login"]
     \/ /\ ~Usable(c) /\ ~MayLogIn
        /\ Fails(c)
  /\ UNCHANGED <<world, shared, texted, burst>>

(* Mutant: it grows without end.                                           *)
LoginBackoffGrows(n) == n

(* login_backoff in units: 5, 30, 120, and then always 600 s.              *)
LoginBackoff(n) == IF n < MaxPause THEN n ELSE MaxPause

LoggedIn(c) ==
  LET k == call[c]
      t == [home |-> k.home, era |-> era[k.home]]
  IN /\ k.at = "login" /\ state[k.home] # "ill"
     /\ cached' = [token |-> t, fresh |-> TRUE, modem |-> None]
     /\ failures' = 0 /\ pause' = 0 /\ burst' = 0
     /\ IF k.path = "login" THEN Proceeds(c, k)
        ELSE call' = [call EXCEPT ![c].at = "request", ![c].token = t]
     /\ UNCHANGED <<world, texted>>

LoginFails(c) ==
  /\ call[c].at = "login" /\ state[call[c].home] = "ill"
  /\ failures' = LoginBackoff(failures + 1)
  /\ pause' = LoginBackoff(failures + 1)
  /\ burst' = burst + 1
  /\ Fails(c)
  /\ UNCHANGED <<world, cached, texted>>

(* The answer is a success without a token: nothing is remembered of it.   *)
LoginWithoutToken(c) ==
  /\ call[c].at = "login" /\ state[call[c].home] = "ill"
  /\ Fails(c)
  /\ UNCHANGED <<world, shared, texted, burst>>

-----------------------------------------------------------------------------
Accepted(c) ==
  /\ state[call[c].home] = "well"
  /\ call[c].token.era = era[call[c].home]

Took(c) ==
  texted' = IF call[c].path \in Recipient
            THEN [texted EXCEPT ![c][call[c].path] = @ + 1] ELSE texted

(* resolve_modem_id keeps the answer only with a token of this account.    *)
Remembers(c) == Known(call[c].home)

Succeeds(c) ==
  LET k == call[c] IN
  /\ k.at = "request" /\ Accepted(c)
  /\ Took(c)
  /\ IF k.path = "modem"
     THEN /\ Proceeds(c, [k EXCEPT !.modem = k.home])
          /\ cached' = IF Remembers(c) THEN [cached EXCEPT !.modem = k.home] ELSE cached
     ELSE Proceeds(c, k) /\ UNCHANGED cached
  /\ UNCHANGED <<world, failures, pause, burst>>

(* 401, 403 or the code 120 say "unauthorized"; an answer that is "lost"   *)
(* follows a text that was taken.                                          *)
Refusals(c) ==
  IF state[call[c].home] = "ill" THEN {"unauthorized", "error", "lost"} ELSE {"unauthorized"}

(* Mutant: whatever went wrong, a new login may help.                      *)
AgainAfterAll(c, answer) == ~call[c].forced

(* Mutant: the token in hand is trusted to the end of its time.            *)
AgainNever(c, answer) == FALSE

(* Mutant: it is tried for as long as the gateway refuses.                 *)
AgainForEver(c, answer) == answer = "unauthorized"

(* One new login, and only if the token was refused.                       *)
Again(c, answer) == answer = "unauthorized" /\ ~call[c].forced

Refused(c) ==
  /\ call[c].at = "request" /\ ~Accepted(c)
  /\ \E answer \in Refusals(c) :
       /\ IF answer = "lost" THEN Took(c) ELSE UNCHANGED texted
       /\ \/ /\ Again(c, answer)
             /\ cached' = None
             /\ call' = [call EXCEPT ![c].at = "token", ![c].token = None, ![c].forced = TRUE]
          \/ /\ ~Again(c, answer)
             /\ Fails(c) /\ UNCHANGED cached
  /\ UNCHANGED <<world, failures, pause, burst>>

-----------------------------------------------------------------------------
(* Time goes by: the pause gets shorter, the token old.                    *)
Tick ==
  /\ pause > 0
  /\ pause' = pause - 1
  /\ burst' = IF pause = 1 THEN 0 ELSE burst
  /\ UNCHANGED <<world, cached, failures, call, texted>>

TokenExpires ==
  /\ cached # None /\ cached.fresh
  /\ cached' = [cached EXCEPT !.fresh = FALSE]
  /\ UNCHANGED <<world, failures, pause, call, texted, burst>>

Trouble == trouble < MaxTrouble /\ trouble' = trouble + 1

(* The settings name another account.                                      *)
Configure ==
  /\ Trouble
  /\ config' \in Account \ {config}
  /\ UNCHANGED <<era, state, shared, call, texted, burst>>

(* The gateway gets better or worse, or starts again.                      *)
GatewayChanges(a) ==
  /\ Trouble
  /\ \/ /\ \E s \in {"well", "forbids", "ill"} \ {state[a]} : state' = [state EXCEPT ![a] = s]
        /\ UNCHANGED era
     \/ era' = [era EXCEPT ![a] = @ + 1] /\ UNCHANGED state
  /\ UNCHANGED <<config, shared, call, texted, burst>>

Init ==
  /\ config \in Account
  /\ era = [a \in Account |-> 0]
  /\ state = [a \in Account |-> "well"]
  /\ trouble = 0
  /\ cached = None /\ failures = 0 /\ pause = 0
  /\ call = [c \in Caller |-> Idle]
  /\ texted = [c \in Sender |-> [r \in Recipient |-> 0]]
  /\ burst = 0

(* The service starts again: nothing of this is kept.                      *)
Restart ==
  /\ cached' = None /\ failures' = 0 /\ pause' = 0 /\ burst' = 0
  /\ call' = [c \in Caller |-> Idle]
  /\ texted' = [c \in Sender |-> [r \in Recipient |-> 0]]
  /\ Trouble
  /\ UNCHANGED <<config, era, state>>

Begin(c) ==
  \/ c \in Sender /\ BeginSend(c)
  \/ c \in Reader /\ BeginRead(c)
  \/ c \in Verifier /\ BeginVerify(c)

Step(c) ==
  EnsureToken(c) \/ LoggedIn(c) \/ LoginFails(c) \/ LoginWithoutToken(c)
    \/ Succeeds(c) \/ Refused(c)

Next ==
  \/ \E c \in Caller : Begin(c) \/ Step(c)
  \/ Tick \/ TokenExpires
  \/ Configure \/ \E a \in Account : GatewayChanges(a)
  \/ Restart

(* Every request to the gateway has a time-out, time goes by, and the      *)
(* queue tries again while there is something to send.                     *)
Fairness ==
  /\ WF_vars(Tick)
  /\ \A c \in Caller : WF_vars(Step(c))
  /\ \A c \in Sender : WF_vars(BeginSend(c))

Spec == Init /\ [][Next]_vars /\ Fairness

-----------------------------------------------------------------------------
Operation ==
  [at : {"idle", "token", "login", "request"}, path : Path, todo : SUBSET Path,
   home : Account \cup {None}, forced : BOOLEAN, token : Token \cup {None},
   modem : Account \cup {None}, failed : BOOLEAN]

TypeOK ==
  /\ config \in Account /\ trouble \in 0..MaxTrouble
  /\ era \in [Account -> 0..MaxTrouble]
  /\ state \in [Account -> {"well", "forbids", "ill"}]
  /\ cached \in [token : Token, fresh : BOOLEAN, modem : Account \cup {None}] \cup {None}
  /\ failures \in 0..MaxPause /\ pause \in 0..MaxPause
  /\ call \in [Caller -> Operation]
  /\ texted \in [Sender -> [Recipient -> Nat]]
  /\ burst \in Nat

(* Whatever is configured and cached while calls are under way: a token is *)
(* shown only to the gateway and for the account that it was given to, and *)
(* a text names a modem of the gateway that is asked to send it.           *)
AtHome ==
  \A c \in Caller : call[c].at = "request" =>
    /\ call[c].token.home = call[c].home
    /\ call[c].path \in Recipient => call[c].modem = call[c].home

(* In one attempt nobody is texted twice, however often the token is       *)
(* refused and answers are lost; and the queue is told of a success only   *)
(* if everybody was texted.                                                *)
TextedOnce ==
  [][\A s \in Sender : call[s].at # "idle" =>
       /\ \A r \in Recipient : texted'[s][r] <= 1
       /\ call'[s] = Idle /\ call[s].path \in Recipient /\ trouble' = trouble =>
            \A r \in Recipient : texted'[s][r] = 1]_vars

(* A wrong password does not hammer on the gateway until that locks the    *)
(* alarm path out (sms.rs:152-156): between two pauses there are no more   *)
(* failed logins than callers, each of which had looked at the pause       *)
(* before the first of them failed.                                        *)
LoginsSpaced == burst <= Cardinality(Caller)

(* Every call comes to an end, whatever the gateway answers.               *)
CallsEnd == \A c \in Caller : call[c].at # "idle" ~> call[c].at = "idle"

(* Nothing of old failures stays behind: if the configured gateway is well *)
(* from some time on, from some time on no send fails.                     *)
QueueServed ==
  <>[](state[config] = "well") => <>[](\A s \in Sender : ~call[s].failed)
=============================================================================
