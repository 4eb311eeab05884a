----------------------------- MODULE SmsEngine -----------------------------
(***************************************************************************)
(* SMS escalation and acknowledgement (src/src/sms_engine.rs).             *)
(*                                                                         *)
(* An alarm opens a session with a short code; the engine's task lets the  *)
(* recipients in one by one until somebody answers, the list is exhausted, *)
(* the window closes or the host recovers.  Sessions live in the database  *)
(* and are written by two tasks: the monitor, through prepare, and the     *)
(* engine.  The engine reads the gateway's inbox over the network and      *)
(* matches what it got against sessions read again afterwards; an answer,  *)
(* a recovery or a restart may come between any two of its steps.          *)
(*                                                                         *)
(* Recipients are 1..Chain, in the order of the configuration.  Times are  *)
(* counted in ticks.  The messages of the inbox carry a code or none.      *)
(***************************************************************************)
EXTENDS Integers, FiniteSets

CONSTANTS
  Host,
  Code,        \* the codes that next_code draws from
  NoCode,      \* a message without one
  Message,     \* the messages that may ever be sent to the gateway
  Chain,       \* number of recipients, at least two
  Escalation,  \* escalation_sec
  AckWindow,   \* ack_window_min
  Keep,        \* KEEP_CLOSED_MS
  MaxFaults,   \* bound on the calls that break off
  NoSession, NoMessage

ASSUME SmsAssumption ==
  /\ IsFiniteSet(Code) /\ NoCode \notin Code
  /\ Chain \in Nat \ {0, 1}
  /\ Escalation \in Nat \ {0} /\ AckWindow \in Nat \ {0}
  /\ Keep \in Nat /\ Keep >= AckWindow
  /\ MaxFaults \in Nat

Recipient == 1..Chain

Reason == {"ack", "recovered", "expired", "exhausted"}

(* A row of sms_sessions: sent is sent_count, next the time left until     *)
(* next_escalation_at, age the time since created_at.                      *)
Session == [host : Host, state : {"open"} \cup Reason, sent : 0..Chain,
            next : 0..Escalation, age : 0..Keep]

(* A text in the inbox: who sent it, the code in it, whether its date can  *)
(* be read, whether it is at most CLOCK_SKEW_MS old, and the sessions that *)
(* were made at most that long after it was sent.                          *)
Text == [from : Recipient, code : Code \cup {NoCode}, dated : BOOLEAN,
         recent : BOOLEAN, answers : SUBSET Code]

ASSUME NoneAssumption == NoSession \notin Session /\ NoMessage \notin Text

VARIABLES
  session,   \* sms_sessions, by code
  seen,      \* sms_seen_inbox
  inbox,     \* what the gateway holds, by message
  pc,        \* the engine: "idle", "poll", "baseline", "match" or "record"
  baseline,  \* baseline_done
  box,       \* the inbox as it was read
  handled,   \* the messages to be marked as seen
  acks,      \* the pairs of a message and the session it acknowledges
  queued,    \* history: who has been sent the alarm of a session
  skipped,   \* history: who was counted as called and was not
  faults

engine == <<pc, baseline, box, handled, acks>>
calls  == <<queued, skipped, faults>>
vars   == <<session, seen, inbox, engine, calls>>

Fault == faults < MaxFaults /\ faults' = faults + 1

Sessions == {c \in Code : session[c] # NoSession}
Open     == {c \in Sessions : session[c].state = "open"}
Texts    == {m \in Message : inbox[m] # NoMessage}

Init ==
  /\ session = [c \in Code |-> NoSession]
  /\ seen = {}
  /\ inbox = [m \in Message |-> NoMessage]
  /\ pc = "idle" /\ baseline = FALSE
  /\ box = {} /\ handled = {} /\ acks = {}
  /\ queued = [c \in Code |-> {}] /\ skipped = [c \in Code |-> {}]
  /\ faults = 0

-----------------------------------------------------------------------------
(* The monitor's alarms.  Each may pass this module by, the channel being  *)
(* switched off just then, for the host or altogether, or escalation; so   *)
(* that any of them may come at any time, two outages in a row too.        *)

(* A text that is recent when a session opens is not too old to answer it. *)
AnswersAlso(c) ==
  [m \in Message |-> IF m \in Texts /\ inbox[m].dated /\ inbox[m].recent
                     THEN [inbox[m] EXCEPT !.answers = @ \cup {c}]
                     ELSE inbox[m]]

(* create_session, record_escalation, and the first recipient's delivery,  *)
(* as far as they got.                                                     *)
Opens(h, c, sent, to) ==
  /\ session' = [session EXCEPT ![c] =
       [host |-> h, state |-> "open", sent |-> sent, next |-> Escalation, age |-> 0]]
  /\ queued' = [queued EXCEPT ![c] = to]
  /\ skipped' = [skipped EXCEPT ![c] = 1..sent \ to]
  /\ inbox' = AnswersAlso(c)

(* Mutant: INSERT OR REPLACE.                                              *)
AlarmDownReplacing(h, c) ==
  /\ c \notin Open
  /\ Opens(h, c, 1, {1})
  /\ UNCHANGED <<seen, engine, faults>>

(* prepare("down"): a session, and the alarm to the first recipient.  The  *)
(* code avoids those of open sessions only.  If it is that of a closed one *)
(* the INSERT fails, the alarm is not reported and the monitor comes back: *)
(* nothing has happened here.  (The longer code for the case that every    *)
(* short one is open is left out.)                                         *)
AlarmDown(h, c) ==
  /\ c \notin Open /\ session[c] = NoSession
  /\ Opens(h, c, 1, {1})
  /\ UNCHANGED <<seen, engine, faults>>

(* The monitor's call breaks off after the session was made or the first   *)
(* recipient counted (after its delivery it is all the same here).  The    *)
(* alarm comes again, with another session; the one that is there stays.   *)
AlarmDownTorn(h, c) ==
  /\ session[c] = NoSession
  /\ Opens(h, c, 0, {}) \/ Opens(h, c, 1, {})
  /\ Fault
  /\ UNCHANGED <<seen, engine>>

(* prepare("up"): the first open session of the host that turns up closes. *)
AlarmUp(h) ==
  /\ \E c \in Open : session[c].host = h
                   /\ session' = [session EXCEPT ![c].state = "recovered", ![c].next = 0]
  /\ UNCHANGED <<seen, inbox, engine, calls>>

-----------------------------------------------------------------------------
(* The engine's task.                                                      *)

(* Mutant: the window is a tick too long.                                  *)
ExpiredLate(c) == c \in Open /\ session[c].age > AckWindow

Expired(c) == c \in Open /\ session[c].age >= AckWindow
Overdue(c) == c \in Open \ {x \in Open : Expired(x)} /\ session[c].next = 0

(* Mutant: the last of the list is forgotten.                              *)
AdvancedShort(c) ==
  IF Expired(c) THEN [session[c] EXCEPT !.state = "expired", !.next = 0]
  ELSE IF Overdue(c) /\ session[c].sent >= Chain - 1
       THEN [session[c] EXCEPT !.state = "exhausted", !.next = 0]
  ELSE IF Overdue(c) THEN [session[c] EXCEPT !.sent = @ + 1, !.next = Escalation]
  ELSE session[c]

(* What the round makes of a session.                                      *)
Advanced(c) ==
  IF Expired(c) THEN [session[c] EXCEPT !.state = "expired", !.next = 0]
  ELSE IF Overdue(c) /\ session[c].sent >= Chain
       THEN [session[c] EXCEPT !.state = "exhausted", !.next = 0]
  ELSE IF Overdue(c) THEN [session[c] EXCEPT !.sent = @ + 1, !.next = Escalation]
  ELSE session[c]

(* prune: DELETE ... WHERE closed = 1 AND created_at < now - KEEP_CLOSED_MS.*)
Prunable(c) == Advanced(c).state # "open" /\ session[c].age >= Keep

(* The first part of tick, one database call: expire, escalate or exhaust  *)
(* the open sessions, then prune old closed sessions and old keys.  A key  *)
(* is older than the text it stands for, so no recent text loses its key.  *)
Calls(c) == c \in Open /\ Advanced(c).sent > session[c].sent

(* Who is called by the round for the sake of c.                           *)
Called(c, done) == IF c \in done /\ Calls(c) THEN {Advanced(c).sent} ELSE {}

Lifecycle ==
  LET pruned == {c \in Sessions : Prunable(c)} IN
  /\ pc = "idle" /\ Open # {}
  /\ session' = [c \in Code |-> IF c \in Sessions \ pruned THEN Advanced(c) ELSE NoSession]
  /\ queued' = [c \in Code |-> IF c \in pruned THEN {} ELSE queued[c] \cup Called(c, Open)]
  /\ skipped' = [c \in Code |-> IF c \in pruned THEN {} ELSE skipped[c]]
  /\ inbox' = [m \in Message |-> IF m \in Texts
                                 THEN [inbox[m] EXCEPT !.answers = @ \ pruned]
                                 ELSE NoMessage]
  /\ \/ seen' = seen
     \/ seen' = {m \in seen : m \in Texts /\ inbox[m].recent}
  /\ pc' = "poll"
  /\ UNCHANGED <<baseline, box, handled, acks, faults>>

(* The call breaks off: it has got as far as some of the sessions, and one *)
(* of these may have been counted up without a delivery.                   *)
LifecycleTorn ==
  /\ pc = "idle"
  /\ \E done \in (SUBSET Open) \ {{}}, lost \in SUBSET {c \in Open : Calls(c)} :
       /\ lost \subseteq done /\ Cardinality(lost) <= 1
       /\ session' = [c \in Code |-> IF c \in done THEN Advanced(c) ELSE session[c]]
       /\ queued' = [c \in Code |-> queued[c] \cup Called(c, done \ lost)]
       /\ skipped' = [c \in Code |-> skipped[c] \cup Called(c, lost)]
  /\ Fault
  /\ UNCHANGED <<seen, inbox, engine>>

(* No open session, not yet time to poll, no password, no gateway.         *)
PollNothing ==
  /\ pc = "poll"
  /\ pc' = "idle"
  /\ UNCHANGED <<session, seen, inbox, baseline, box, handled, acks,
                 calls>>

(* sms::inbox.                                                             *)
Fetch ==
  /\ pc = "poll" /\ Open # {}
  /\ box' = Texts
  /\ pc' = IF baseline THEN "match" ELSE "baseline"
  /\ UNCHANGED <<session, seen, inbox, baseline, handled, acks, calls>>

(* The first inbox after a start: all of it counts as seen.                *)
Baseline ==
  /\ pc = "baseline"
  /\ baseline' = TRUE
  /\ seen' = seen \cup box
  /\ box' = {} /\ pc' = "idle"
  /\ UNCHANGED <<session, inbox, handled, acks, calls>>

(* The call breaks off, with the texts put aside in part or not at all:    *)
(* the engine does not come back to them.                                  *)
BaselineTorn ==
  /\ pc = "baseline"
  /\ baseline' = TRUE
  /\ \E part \in SUBSET box : seen' = seen \cup part
  /\ Fault
  /\ box' = {} /\ pc' = "idle"
  /\ UNCHANGED <<session, inbox, handled, acks, queued, skipped>>

(* Mutant: any text may answer any session.                                *)
CouldAlwaysAnswer(m, c) == m \in Texts /\ c \in Open

(* could_answer: a text without a readable date may answer any session.    *)
CouldAnswer(m, c) == inbox[m].dated => c \in inbox[m].answers

(* The session a text acknowledges: by its code, else by its sender.       *)
ByCode(m) == {c \in Open : inbox[m].code = c /\ CouldAnswer(m, c)}

BySender(m) == {c \in Open : CouldAnswer(m, c) /\ inbox[m].from <= session[c].sent}

Matches(m) == IF ByCode(m) # {} THEN ByCode(m) ELSE BySender(m)

(* Mutant: with nothing to record the engine goes on matching.             *)
MatchOn ==
  /\ pc = "match"
  /\ box' = {}
  /\ LET hits == {m \in box \ seen : Matches(m) # {}}
     IN  IF hits = {} THEN UNCHANGED <<pc, handled, acks>>
         ELSE /\ pc' = "record"
              /\ handled' = box \ seen
              /\ acks' = {<<m, CHOOSE c \in Matches(m) : TRUE>> : m \in hits}
  /\ UNCHANGED <<session, seen, inbox, baseline, calls>>

(* Match the inbox against the sessions that are open now.                 *)
Match ==
  LET fresh == box \ seen
      hits  == {m \in fresh : Matches(m) # {}}
  IN
  /\ pc = "match"
  /\ box' = {}
  /\ IF Open = {} \/ fresh = {}
     THEN pc' = "idle" /\ UNCHANGED <<handled, acks>>
     ELSE /\ pc' = "record"
          /\ handled' = fresh
          /\ acks' \in {S \in SUBSET (hits \X Open) :
                          /\ \A p \in S : p[2] \in Matches(p[1])
                          /\ \A m \in hits : \E p \in S : p[1] = m
                          /\ \A p, q \in S : p[1] = q[1] => p = q}
  /\ UNCHANGED <<session, seen, inbox, baseline, calls>>

Acknowledged(done) ==
  [c \in Code |-> IF c \in Sessions /\ \E p \in done : p[2] = c
                 THEN [session[c] EXCEPT !.state = "ack", !.next = 0]
                 ELSE session[c]]

(* mark_seen and mark_ack, one database call.                              *)
Record ==
  /\ pc = "record"
  /\ seen' = seen \cup handled
  /\ session' = Acknowledged(acks)
  /\ pc' = "idle" /\ handled' = {} /\ acks' = {}
  /\ UNCHANGED <<inbox, baseline, box, calls>>

(* The call breaks off.  Either not all of the texts count as seen, and    *)
(* the others will be matched again; or they do, and some of the           *)
(* acknowledgements are lost for good.                                     *)
RecordTorn ==
  /\ pc = "record"
  /\ \/ \E part \in SUBSET handled : seen' = seen \cup part /\ session' = session
     \/ /\ seen' = seen \cup handled
        /\ \E done \in SUBSET acks : session' = Acknowledged(done)
  /\ Fault
  /\ pc' = "idle" /\ handled' = {} /\ acks' = {}
  /\ UNCHANGED <<inbox, baseline, box, queued, skipped>>

(* The database keeps everything, the task starts over.                    *)
Restart ==
  /\ pc' = "idle" /\ baseline' = FALSE
  /\ box' = {} /\ handled' = {} /\ acks' = {}
  /\ UNCHANGED <<session, seen, inbox, calls>>

-----------------------------------------------------------------------------
(* The surroundings.                                                       *)

(* Somebody texts the gateway, with a code he can have read or without.     *)
Send(m, r, code, dated) ==
  /\ inbox[m] = NoMessage
  /\ code \in Sessions \cup {NoCode}
  /\ inbox' = [inbox EXCEPT ![m] = [from |-> r, code |-> code, dated |-> dated,
                                    recent |-> TRUE,
                                    answers |-> IF dated THEN Sessions ELSE {}]]
  /\ UNCHANGED <<session, seen, engine, calls>>

Less(n) == IF n > 0 THEN n - 1 ELSE 0

(* Time passes; nothing reads the clock between Match and Record.          *)
Tick ==
  /\ session' = [c \in Code |-> IF c \in Sessions
       THEN [session[c] EXCEPT !.next = Less(@), !.age = IF @ < Keep THEN @ + 1 ELSE @]
       ELSE NoSession]
  /\ \E old \in SUBSET {m \in Texts : inbox[m].recent} :
       inbox' = [m \in Message |-> IF m \in old THEN [inbox[m] EXCEPT !.recent = FALSE]
                                   ELSE inbox[m]]
  /\ UNCHANGED <<seen, engine, calls>>

-----------------------------------------------------------------------------
EngineStep ==
  \/ Lifecycle
  \/ PollNothing
  \/ Fetch
  \/ Baseline
  \/ Match
  \/ Record

Next ==
  \/ EngineStep
  \/ LifecycleTorn \/ BaselineTorn \/ RecordTorn
  \/ Restart
  \/ Tick
  \/ \E h \in Host : \/ \E c \in Code : AlarmDown(h, c) \/ AlarmDownTorn(h, c)
                     \/ AlarmUp(h)
  \/ \E m \in Message, r \in Recipient, code \in Code \cup {NoCode}, dated \in BOOLEAN :
       Send(m, r, code, dated)

Spec == Init /\ [][Next]_vars

(* The task loops for ever with timeouts on the gateway, and time goes on. *)
FairSpec == Spec /\ WF_vars(EngineStep) /\ WF_vars(Tick)

-----------------------------------------------------------------------------
TypeOK ==
  /\ session \in [Code -> Session \cup {NoSession}]
  /\ seen \subseteq Message
  /\ inbox \in [Message -> Text \cup {NoMessage}]
  /\ pc \in {"idle", "poll", "baseline", "match", "record"}
  /\ baseline \in BOOLEAN
  /\ box \subseteq Message /\ handled \subseteq Message
  /\ acks \subseteq Message \X Code
  /\ queued \in [Code -> SUBSET Recipient] /\ skipped \in [Code -> SUBSET Recipient]
  /\ faults \in 0..MaxFaults

(* A session counts as acknowledged only if there is a text that answers   *)
(* it: with its code or from one of those the alarm had been sent to, and, *)
(* where the text has a date, sent at most CLOCK_SKEW_MS before the alarm, *)
(* whatever happened between reading the inbox and recording the answer    *)
(* and however often codes are used again.  A text without a readable date *)
(* may be from any time: that is what could_answer accepts.                *)
Answered(c) ==
  \E m \in Texts : /\ inbox[m].dated => c \in inbox[m].answers
                   /\ inbox[m].code = c \/ inbox[m].from \in queued[c] \cup skipped[c]

AckDeserved == \A c \in Sessions : session[c].state = "ack" => Answered(c)

(* The chain is given up for lack of an answer only when everybody on the  *)
(* list has had his turn, and nobody is passed over but by a call that     *)
(* broke off between counting him and queueing his text (sms_engine.rs:550 *)
(* and monitor.rs:477), one for each such call.                            *)
ExhaustedAfterAll ==
  /\ \A c \in Sessions :
       /\ queued[c] \cup skipped[c] = 1..session[c].sent
       /\ queued[c] \cap skipped[c] = {}
       /\ session[c].state = "exhausted" => session[c].sent = Chain
  /\ Cardinality({p \in Code \X Recipient : p[2] \in skipped[p[1]]}) <= faults

(* A closed session stays closed and calls nobody, until it is deleted.    *)
ClosedForGood ==
  [][\A c \in Sessions \ Open :
       session'[c] = NoSession
         \/ (session'[c].state # "open" /\ queued'[c] = queued[c])]_vars

(* Nobody is called once the time to answer is over.                       *)
NoCallAfterWindow ==
  [][\A c \in Open : queued'[c] \subseteq queued[c] \/ session[c].age < AckWindow]_vars

(* Every session comes to an end: none stays open for ever.                *)
EverySessionEnds == \A c \in Code : []<>(c \notin Open)
=============================================================================
