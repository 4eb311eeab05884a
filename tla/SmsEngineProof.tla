--------------------------- MODULE SmsEngineProof ---------------------------
(***************************************************************************)
(* Theorems about SmsEngine, for any set of hosts, any finite set of       *)
(* codes, any messages, any chain, delays and number of faults: the types, *)
(* that an acknowledgement has been deserved, that a chain is exhausted    *)
(* only after everybody on it, and what a closed or expired session never  *)
(* does again.                                                             *)
(*                                                                         *)
(* What has been queued or skipped for a session is exactly the beginning  *)
(* of the chain that its row counts; the matching reads the count, so that *)
(* a text let in by its sender comes from somebody who was called.  What   *)
(* has been matched stays true until it is recorded because only the       *)
(* engine itself deletes sessions.                                         *)
(***************************************************************************)
EXTENDS SmsEngine, FiniteSetTheorems, TLAPS

-----------------------------------------------------------------------------
(* The rows.                                                               *)

LEMMA SessionRow ==
  ASSUME TypeOK, NEW c \in Code, session[c] # NoSession
  PROVE  session[c] \in Session
  BY DEF TypeOK

LEMMA TextRow ==
  ASSUME TypeOK, NEW m \in Message, m \in Texts
  PROVE  inbox[m] \in Text
<1>1. inbox \in [Message -> Text \cup {NoMessage}] /\ inbox[m] # NoMessage
  BY Zenon DEF TypeOK, Texts
<1>2. QED
  BY <1>1

(* What a round of the engine may make of a session.                       *)
LEMMA AdvancedRow ==
  ASSUME TypeOK, NEW c \in Sessions
  PROVE  /\ Advanced(c) \in Session
         /\ c \notin Open => Advanced(c) = session[c]
         /\ Calls(c) => /\ Advanced(c).sent = session[c].sent + 1
                        /\ session[c].age < AckWindow
                        /\ Advanced(c).state = "open"
         /\ ~Calls(c) => Advanced(c).sent = session[c].sent
         /\ Advanced(c).state = "ack" => session[c].state = "ack"
         /\ Advanced(c).state = "exhausted" =>
              session[c].state = "exhausted" \/ Advanced(c).sent >= Chain
         /\ Advanced(c).age = session[c].age
         /\ Calls(c) => session[c].next = 0 /\ Advanced(c).next = Escalation
         /\ ~Calls(c) /\ Advanced(c).state = "open" => Advanced(c).next = session[c].next
         /\ Advanced(c).state = "exhausted" /\ session[c].state # "exhausted" =>
              /\ session[c].state = "open" /\ session[c].age < AckWindow
              /\ session[c].next = 0 /\ session[c].sent = Chain
<1>0. c \in Code /\ session[c] \in Session
  BY SessionRow DEF Sessions
<1>0a. /\ session[c].sent \in 0..Chain /\ session[c].next \in 0..Escalation
       /\ session[c].age \in 0..Keep /\ session[c].state \in {"open"} \cup Reason
  BY <1>0 DEF Session
<1>0b. AckWindow \in Nat /\ Chain \in Nat /\ Escalation \in Nat /\ Keep \in Nat
  BY SmsAssumption
<1>0c. 0 \in 0..Escalation
  BY <1>0b
<1>1. CASE Expired(c)
  <2> DEFINE k == [session[c] EXCEPT !.state = "expired", !.next = 0]
  <2>1. k \in Session /\ k.sent = session[c].sent /\ k.state = "expired" /\ k.age = session[c].age
    BY <1>0, <1>0c DEF Session, Reason
  <2>2. Advanced(c) = k
    BY <1>1 DEF Advanced
  <2> HIDE DEF k
  <2>3. c \in Open
    BY <1>1 DEF Expired
  <2>4. ~Calls(c)
    BY <1>0a, <2>1, <2>2 DEF Calls
  <2>5. QED
    BY <2>1, <2>2, <2>3, <2>4
<1>2. CASE ~Expired(c) /\ Overdue(c) /\ session[c].sent >= Chain
  <2> DEFINE k == [session[c] EXCEPT !.state = "exhausted", !.next = 0]
  <2>1. k \in Session /\ k.sent = session[c].sent /\ k.state = "exhausted" /\ k.age = session[c].age
    BY <1>0, <1>0c DEF Session, Reason
  <2>2. Advanced(c) = k
    BY <1>2 DEF Advanced
  <2> HIDE DEF k
  <2>3. c \in Open /\ session[c].state = "open" /\ session[c].next = 0
    BY <1>2 DEF Overdue, Open
  <2>4. ~Calls(c)
    BY <1>0a, <2>1, <2>2 DEF Calls
  <2>5. session[c].age < AckWindow /\ session[c].sent = Chain
    BY <1>2, <1>0a, <1>0b, <2>3 DEF Expired
  <2>6. QED
    BY <1>2, <2>1, <2>2, <2>3, <2>4, <2>5
<1>3. CASE ~Expired(c) /\ Overdue(c) /\ ~(session[c].sent >= Chain)
  <2> DEFINE k == [session[c] EXCEPT !.sent = @ + 1, !.next = Escalation]
  <2>1. session[c].sent + 1 \in 0..Chain /\ Escalation \in 0..Escalation
    BY <1>3, <1>0a, <1>0b
  <2>2. k \in Session /\ k.sent = session[c].sent + 1 /\ k.state = session[c].state
        /\ k.age = session[c].age /\ k.next = Escalation
    BY <1>0, <2>1 DEF Session
  <2>3. Advanced(c) = k
    BY <1>3 DEF Advanced
  <2> HIDE DEF k
  <2>4. c \in Open /\ session[c].state = "open" /\ session[c].next = 0
    BY <1>3 DEF Overdue, Open
  <2>5. session[c].age < AckWindow
    BY <1>3, <1>0a, <1>0b, <2>4 DEF Expired
  <2>6. Calls(c)
    BY <1>0a, <2>2, <2>3, <2>4 DEF Calls
  <2>7. QED
    BY <2>2, <2>3, <2>4, <2>5, <2>6
<1>4. CASE ~Expired(c) /\ ~Overdue(c)
  <2>1. Advanced(c) = session[c]
    BY <1>4 DEF Advanced
  <2>2. ~Calls(c)
    BY <1>0a, <2>1 DEF Calls
  <2>3. QED
    BY <1>0, <2>1, <2>2
<1>5. QED
  BY <1>1, <1>2, <1>3, <1>4

(* Who is called is on the list.                                           *)
LEMMA CalledRange ==
  ASSUME TypeOK, NEW c \in Code, NEW done
  PROVE  Called(c, done) \subseteq Recipient
<1>1. CASE c \in done /\ Calls(c)
  <2>1. c \in Sessions
    BY <1>1 DEF Calls, Open
  <2>2. Advanced(c) \in Session /\ Advanced(c).sent = session[c].sent + 1
    BY <2>1, <1>1, AdvancedRow
  <2>3. session[c] \in Session
    BY <2>1, SessionRow DEF Sessions
  <2>4. Advanced(c).sent \in 0..Chain /\ session[c].sent \in 0..Chain
    BY <2>2, <2>3 DEF Session
  <2>5. Advanced(c).sent \in Recipient
    BY <2>2, <2>4, SmsAssumption DEF Recipient
  <2>6. QED
    BY <1>1, <2>5 DEF Called
<1>2. CASE ~(c \in done /\ Calls(c))
  <2>1. Called(c, done) = {}
    BY <1>2, Zenon DEF Called
  <2>2. QED
    BY <2>1
<1>3. QED
  BY <1>1, <1>2

(* The two ways in which the inbox is rewritten.                           *)
LEMMA AnswersRow ==
  ASSUME NEW k \in Text, NEW S \in SUBSET Code
  PROVE  /\ [k EXCEPT !.answers = S] \in Text
         /\ [k EXCEPT !.answers = S].answers = S
         /\ [k EXCEPT !.answers = S].code = k.code
         /\ [k EXCEPT !.answers = S].from = k.from
         /\ [k EXCEPT !.answers = S].dated = k.dated
  BY DEF Text

LEMMA OldRow ==
  ASSUME NEW k \in Text
  PROVE  /\ [k EXCEPT !.recent = FALSE] \in Text
         /\ [k EXCEPT !.recent = FALSE].answers = k.answers
         /\ [k EXCEPT !.recent = FALSE].code = k.code
         /\ [k EXCEPT !.recent = FALSE].from = k.from
         /\ [k EXCEPT !.recent = FALSE].dated = k.dated
  BY DEF Text

-----------------------------------------------------------------------------
(* Types.                                                                  *)

LEMMA TypeInit == Init => TypeOK
<1> SUFFICES ASSUME Init PROVE TypeOK
  OBVIOUS
<1>1. session \in [Code -> Session \cup {NoSession}] /\ inbox \in [Message -> Text \cup {NoMessage}]
  BY DEF Init
<1>2. queued \in [Code -> SUBSET Recipient] /\ skipped \in [Code -> SUBSET Recipient]
  BY DEF Init
<1>3. faults \in 0..MaxFaults
  BY SmsAssumption DEF Init
<1>4. QED
  BY <1>1, <1>2, <1>3 DEF Init, TypeOK

LEMMA TypeOpens ==
  ASSUME TypeOK, NEW h \in Host, NEW c \in Code, NEW sent \in {0, 1}, NEW to \in SUBSET {1},
         Opens(h, c, sent, to)
  PROVE  /\ session' \in [Code -> Session \cup {NoSession}]
         /\ inbox' \in [Message -> Text \cup {NoMessage}]
         /\ queued' \in [Code -> SUBSET Recipient] /\ skipped' \in [Code -> SUBSET Recipient]
<1>0. /\ sent \in 0..Chain /\ Escalation \in 0..Escalation /\ 0 \in 0..Keep
      /\ to \subseteq Recipient /\ (1..sent \ to) \subseteq Recipient
  BY SmsAssumption DEF Recipient
<1>1. [host |-> h, state |-> "open", sent |-> sent, next |-> Escalation, age |-> 0] \in Session
  BY <1>0 DEF Session
<1>2. session' \in [Code -> Session \cup {NoSession}]
  BY <1>1 DEF TypeOK, Opens
<1>3. queued' \in [Code -> SUBSET Recipient] /\ skipped' \in [Code -> SUBSET Recipient]
  BY <1>0 DEF TypeOK, Opens
<1>4. ASSUME NEW m \in Message PROVE AnswersAlso(c)[m] \in Text \cup {NoMessage}
  <2>1. CASE m \in Texts /\ inbox[m].dated /\ inbox[m].recent
    <3>1. inbox[m] \in Text
      BY <2>1, TextRow
    <3>2. inbox[m].answers \cup {c} \in SUBSET Code
      BY <3>1 DEF Text
    <3>3. [inbox[m] EXCEPT !.answers = inbox[m].answers \cup {c}] \in Text
      BY <3>1, <3>2, AnswersRow
    <3>4. AnswersAlso(c)[m] = [inbox[m] EXCEPT !.answers = inbox[m].answers \cup {c}]
      BY <2>1 DEF AnswersAlso
    <3>5. QED
      BY <3>3, <3>4
  <2>2. CASE ~(m \in Texts /\ inbox[m].dated /\ inbox[m].recent)
    <3>1. AnswersAlso(c)[m] = inbox[m]
      BY <2>2, Zenon DEF AnswersAlso
    <3>2. QED
      BY <3>1 DEF TypeOK
  <2>3. QED
    BY <2>1, <2>2
<1>5. inbox' \in [Message -> Text \cup {NoMessage}]
  <2>1. inbox' = AnswersAlso(c)
    BY DEF Opens
  <2>2. AnswersAlso(c) = [m \in Message |-> AnswersAlso(c)[m]]
    BY Zenon DEF AnswersAlso
  <2>3. QED
    BY <2>1, <2>2, <1>4
<1>6. QED
  BY <1>2, <1>3, <1>5

LEMMA TypeLifecycle == TypeOK /\ Lifecycle => TypeOK'
<1> SUFFICES ASSUME TypeOK, Lifecycle PROVE TypeOK'
  OBVIOUS
<1> DEFINE pruned == {c \in Sessions : Prunable(c)}
<1>1. session' \in [Code -> Session \cup {NoSession}]
  <2>1. \A c \in Sessions : Advanced(c) \in Session
    BY AdvancedRow
  <2>2. session' = [c \in Code |-> IF c \in Sessions \ pruned THEN Advanced(c) ELSE NoSession]
    BY Zenon DEF Lifecycle
  <2> HIDE DEF pruned
  <2>3. QED
    BY <2>1, <2>2
<1>2. inbox' \in [Message -> Text \cup {NoMessage}]
  <2>1. inbox' = [m \in Message |-> IF m \in Texts
                                 THEN [inbox[m] EXCEPT !.answers = inbox[m].answers \ pruned]
                                 ELSE NoMessage]
    BY Zenon DEF Lifecycle
  <2> HIDE DEF pruned
  <2>2. ASSUME NEW m \in Texts
        PROVE  [inbox[m] EXCEPT !.answers = inbox[m].answers \ pruned] \in Text
    <3>1. inbox[m] \in Text
      BY TextRow DEF Texts
    <3>2. inbox[m].answers \ pruned \in SUBSET Code
      BY <3>1 DEF Text
    <3>3. QED
      BY <3>1, <3>2, AnswersRow
  <2>3. QED
    BY <2>1, <2>2
<1>3. queued' \in [Code -> SUBSET Recipient]
  <2>1. \A c \in Code : Called(c, Open) \subseteq Recipient
    BY CalledRange
  <2>2. queued' = [c \in Code |-> IF c \in pruned THEN {} ELSE queued[c] \cup Called(c, Open)]
    BY Zenon DEF Lifecycle
  <2>3. \A c \in Code : queued[c] \subseteq Recipient
    BY DEF TypeOK
  <2> HIDE DEF pruned
  <2>4. QED
    BY <2>1, <2>2, <2>3
<1>4. skipped' \in [Code -> SUBSET Recipient]
  <2>1. skipped' = [c \in Code |-> IF c \in pruned THEN {} ELSE skipped[c]]
    BY Zenon DEF Lifecycle
  <2>2. \A c \in Code : skipped[c] \subseteq Recipient
    BY DEF TypeOK
  <2> HIDE DEF pruned
  <2>3. QED
    BY <2>1, <2>2
<1>5. /\ seen' \subseteq Message /\ pc' = "poll"
      /\ UNCHANGED <<baseline, box, handled, acks, faults>>
  <2>1. seen \subseteq Message
    BY DEF TypeOK
  <2>2. seen' = seen \/ seen' = {m \in seen : m \in Texts /\ inbox[m].recent}
    BY Zenon DEF Lifecycle
  <2>3. seen' \subseteq Message
    BY <2>1, <2>2
  <2>4. QED
    BY <2>3, Zenon DEF Lifecycle
<1>6. QED
  BY <1>1, <1>2, <1>3, <1>4, <1>5 DEF TypeOK

LEMMA TypeTorn == TypeOK /\ LifecycleTorn => TypeOK'
<1> SUFFICES ASSUME TypeOK, LifecycleTorn PROVE TypeOK'
  OBVIOUS
<1>1. PICK done \in (SUBSET Open) \ {{}}, lost \in SUBSET {c \in Open : Calls(c)} :
        /\ session' = [c \in Code |-> IF c \in done THEN Advanced(c) ELSE session[c]]
        /\ queued' = [c \in Code |-> queued[c] \cup Called(c, done \ lost)]
        /\ skipped' = [c \in Code |-> skipped[c] \cup Called(c, lost)]
  BY Zenon DEF LifecycleTorn
<1>2. session' \in [Code -> Session \cup {NoSession}]
  <2>1. \A c \in Open : Advanced(c) \in Session
    BY AdvancedRow DEF Open
  <2>2. QED
    BY <1>1, <2>1 DEF TypeOK
<1>3. queued' \in [Code -> SUBSET Recipient] /\ skipped' \in [Code -> SUBSET Recipient]
  <2>1. \A c \in Code : Called(c, done \ lost) \subseteq Recipient
    BY CalledRange
  <2>2. \A c \in Code : Called(c, lost) \subseteq Recipient
    BY CalledRange
  <2>3. \A c \in Code : queued[c] \subseteq Recipient /\ skipped[c] \subseteq Recipient
    BY DEF TypeOK
  <2>4. QED
    BY <1>1, <2>1, <2>2, <2>3
<1>4. /\ faults' = faults + 1 /\ faults < MaxFaults
      /\ UNCHANGED <<seen, inbox, pc, baseline, box, handled, acks>>
  BY Zenon DEF LifecycleTorn, Fault, engine
<1>5. faults' \in 0..MaxFaults
  BY <1>4, SmsAssumption DEF TypeOK
<1>6. QED
  BY <1>2, <1>3, <1>4, <1>5 DEF TypeOK

LEMMA TypeAcknowledged ==
  ASSUME TypeOK, NEW done \in SUBSET acks
  PROVE  Acknowledged(done) \in [Code -> Session \cup {NoSession}]
<1>1. ASSUME NEW c \in Sessions PROVE [session[c] EXCEPT !.state = "ack", !.next = 0] \in Session
  <2>1. session[c] \in Session
    BY SessionRow DEF Sessions
  <2>2. 0 \in 0..Escalation
    BY SmsAssumption
  <2>3. QED
    BY <2>1, <2>2 DEF Session, Reason
<1>2. \A c \in Code : session[c] \in Session \cup {NoSession}
  BY DEF TypeOK
<1>3. QED
  BY <1>1, <1>2 DEF Acknowledged

LEMMA TypeTick == TypeOK /\ Tick => TypeOK'
<1> SUFFICES ASSUME TypeOK, Tick PROVE TypeOK'
  OBVIOUS
<1>1. ASSUME NEW c \in Sessions
      PROVE  [session[c] EXCEPT !.next = Less(session[c].next),
                !.age = IF session[c].age < Keep THEN session[c].age + 1 ELSE session[c].age]
               \in Session
  <2>1. session[c] \in Session
    BY SessionRow DEF Sessions
  <2>2. session[c].next \in 0..Escalation /\ session[c].age \in 0..Keep
    BY <2>1 DEF Session
  <2>3. Less(session[c].next) \in 0..Escalation
    BY <2>2, SmsAssumption DEF Less
  <2> DEFINE older == IF session[c].age < Keep THEN session[c].age + 1 ELSE session[c].age
  <2>4. older \in 0..Keep
    BY <2>2, SmsAssumption
  <2> HIDE DEF older
  <2>5. [session[c] EXCEPT !.next = Less(session[c].next), !.age = older] \in Session
    BY <2>1, <2>3, <2>4 DEF Session
  <2>6. QED
    BY <2>5 DEF older
<1>2. session' \in [Code -> Session \cup {NoSession}]
  <2>1. session' = [c \in Code |-> IF c \in Sessions
          THEN [session[c] EXCEPT !.next = Less(session[c].next),
                  !.age = IF session[c].age < Keep THEN session[c].age + 1 ELSE session[c].age]
          ELSE NoSession]
    BY Zenon DEF Tick
  <2>2. QED
    BY <1>1, <2>1
<1>3. PICK old \in SUBSET {m \in Texts : inbox[m].recent} :
        inbox' = [m \in Message |-> IF m \in old THEN [inbox[m] EXCEPT !.recent = FALSE]
                                    ELSE inbox[m]]
  BY Zenon DEF Tick
<1>4. inbox' \in [Message -> Text \cup {NoMessage}]
  <2>1. ASSUME NEW m \in old PROVE [inbox[m] EXCEPT !.recent = FALSE] \in Text
    <3>1. m \in Message /\ m \in Texts
      BY DEF Texts
    <3>2. QED
      BY <3>1, TextRow, OldRow
  <2>2. \A m \in Message : inbox[m] \in Text \cup {NoMessage}
    BY DEF TypeOK
  <2>3. QED
    BY <1>3, <2>1, <2>2
<1>5. UNCHANGED <<seen, pc, baseline, box, handled, acks, queued, skipped, faults>>
  BY Zenon DEF Tick, engine, calls
<1>6. QED
  BY <1>2, <1>4, <1>5 DEF TypeOK

LEMMA TypeNext == TypeOK /\ [Next]_vars => TypeOK'
<1> SUFFICES ASSUME TypeOK, [Next]_vars PROVE TypeOK'
  OBVIOUS
<1>1. CASE Lifecycle
  BY <1>1, TypeLifecycle
<1>2. CASE LifecycleTorn
  BY <1>2, TypeTorn
<1>3. CASE PollNothing
  BY <1>3 DEF PollNothing, calls, TypeOK
<1>4. CASE Fetch
  BY <1>4 DEF Fetch, Texts, calls, TypeOK
<1>5. CASE Baseline
  BY <1>5 DEF Baseline, calls, TypeOK
<1>17. CASE BaselineTorn
  <2>1. faults' \in 0..MaxFaults
    BY <1>17, SmsAssumption DEF BaselineTorn, Fault, TypeOK
  <2>2. QED
    BY <1>17, <2>1 DEF BaselineTorn, TypeOK
<1>6. CASE Match
  <2>1. handled' \subseteq Message
    BY <1>6 DEF Match, TypeOK
  <2>2. acks' \subseteq Message \X Code
    <3> DEFINE hits == {m \in box \ seen : Matches(m) # {}}
    <3>1. acks' = acks \/ acks' \subseteq hits \X Open
      BY <1>6, Zenon DEF Match
    <3>2. hits \subseteq Message /\ Open \subseteq Code
      BY DEF TypeOK, Open, Sessions
    <3> HIDE DEF hits
    <3>3. QED
      BY <3>1, <3>2 DEF TypeOK
  <2>3. pc' \in {"idle", "record"} /\ box' = {} /\ UNCHANGED <<session, seen, inbox, baseline, queued, skipped, faults>>
    BY <1>6, Zenon DEF Match, calls
  <2>4. QED
    BY <2>1, <2>2, <2>3 DEF TypeOK
<1>7. CASE Record
  <2>1. session' \in [Code -> Session \cup {NoSession}]
    BY <1>7, TypeAcknowledged DEF Record
  <2>2. QED
    BY <1>7, <2>1 DEF Record, calls, TypeOK
<1>8. CASE RecordTorn
  <2>1. session' \in [Code -> Session \cup {NoSession}]
    BY <1>8, TypeAcknowledged DEF RecordTorn, TypeOK
  <2>2. faults' \in 0..MaxFaults
    BY <1>8, SmsAssumption DEF RecordTorn, Fault, TypeOK
  <2>3. QED
    BY <1>8, <2>1, <2>2 DEF RecordTorn, TypeOK
<1>9. CASE Restart
  BY <1>9 DEF Restart, calls, TypeOK
<1>10. CASE Tick
  BY <1>10, TypeTick
<1>11. ASSUME NEW h \in Host, NEW c \in Code, AlarmDown(h, c) PROVE TypeOK'
  <2>1. Opens(h, c, 1, {1}) /\ UNCHANGED <<seen, engine, faults>>
    BY <1>11 DEF AlarmDown
  <2>2. /\ session' \in [Code -> Session \cup {NoSession}]
        /\ inbox' \in [Message -> Text \cup {NoMessage}]
        /\ queued' \in [Code -> SUBSET Recipient] /\ skipped' \in [Code -> SUBSET Recipient]
    BY <2>1, TypeOpens
  <2>3. QED
    BY <2>1, <2>2 DEF engine, TypeOK
<1>12. ASSUME NEW h \in Host, NEW c \in Code, AlarmDownTorn(h, c) PROVE TypeOK'
  <2>1. /\ Opens(h, c, 0, {}) \/ Opens(h, c, 1, {})
        /\ Fault /\ UNCHANGED <<seen, engine>>
    BY <1>12 DEF AlarmDownTorn
  <2>2. /\ session' \in [Code -> Session \cup {NoSession}]
        /\ inbox' \in [Message -> Text \cup {NoMessage}]
        /\ queued' \in [Code -> SUBSET Recipient] /\ skipped' \in [Code -> SUBSET Recipient]
    BY <2>1, TypeOpens
  <2>3. faults' \in 0..MaxFaults
    BY <2>1, SmsAssumption DEF Fault, TypeOK
  <2>4. QED
    BY <2>1, <2>2, <2>3 DEF engine, TypeOK
<1>13. ASSUME NEW h \in Host, AlarmUp(h) PROVE TypeOK'
  <2>1. PICK c \in Open :
          session' = [session EXCEPT ![c] = [session[c] EXCEPT !.state = "recovered", !.next = 0]]
    BY <1>13 DEF AlarmUp
  <2>2. session[c] \in Session /\ c \in Code
    BY SessionRow DEF Open, Sessions
  <2>3. 0 \in 0..Escalation
    BY SmsAssumption
  <2>4. [session[c] EXCEPT !.state = "recovered", !.next = 0] \in Session
    BY <2>2, <2>3 DEF Session, Reason
  <2>5. session' \in [Code -> Session \cup {NoSession}]
    BY <2>1, <2>2, <2>4 DEF TypeOK
  <2>6. QED
    BY <1>13, <2>5 DEF AlarmUp, engine, calls, TypeOK
<1>14. ASSUME NEW m \in Message, NEW r \in Recipient, NEW code \in Code \cup {NoCode},
              NEW dated \in BOOLEAN, Send(m, r, code, dated)
       PROVE  TypeOK'
  <2>1. [from |-> r, code |-> code, dated |-> dated, recent |-> TRUE,
         answers |-> IF dated THEN Sessions ELSE {}] \in Text
    BY DEF Text, Sessions
  <2>2. inbox' \in [Message -> Text \cup {NoMessage}]
    BY <1>14, <2>1 DEF Send, TypeOK
  <2>3. QED
    BY <1>14, <2>2 DEF Send, engine, calls, TypeOK
<1>15. CASE UNCHANGED vars
  BY <1>15 DEF vars, engine, calls, TypeOK
<1>16. QED
  BY <1>1, <1>2, <1>3, <1>4, <1>5, <1>6, <1>7, <1>8, <1>9, <1>10, <1>11, <1>12, <1>13, <1>14,
     <1>15, <1>17, Zenon DEF Next, EngineStep

(* The fields of every row have their types.                               *)
THEOREM TypeCorrect == Spec => []TypeOK
<1>1. Init => TypeOK
  BY TypeInit
<1>2. TypeOK /\ [Next]_vars => TypeOK'
  BY TypeNext
<1>3. QED
  BY <1>1, <1>2, PTL DEF Spec

-----------------------------------------------------------------------------
(* What a step makes of one code: nothing, an end of its session, a round  *)
(* of the engine with the calls Q that were queued and S that were not,    *)
(* the deletion of the row, or a new session.                              *)

Waits(c) ==
  \/ session'[c].age = session[c].age /\ session'[c].next = session[c].next
  \/ /\ session'[c].age = IF session[c].age < Keep THEN session[c].age + 1 ELSE session[c].age
     /\ session'[c].next = Less(session[c].next)

Same(c) ==
  /\ session'[c] # NoSession <=> session[c] # NoSession
  /\ session[c] # NoSession => Waits(c)
  /\ session[c] # NoSession => /\ session'[c].sent = session[c].sent
                               /\ session'[c].state = session[c].state
  /\ queued'[c] = queued[c] /\ skipped'[c] = skipped[c]

Ended(c) ==
  /\ session[c] # NoSession /\ session'[c] # NoSession
  /\ session'[c].sent = session[c].sent /\ session'[c].age = session[c].age
  /\ session'[c].state \in {"ack", "recovered"}
  /\ session'[c].state = "ack" => \E p \in acks : p[2] = c
  /\ queued'[c] = queued[c] /\ skipped'[c] = skipped[c]

Round(c, Q, S) ==
  /\ session[c] # NoSession /\ session'[c] = Advanced(c)
  /\ Calls(c) => Q \cup S = {Advanced(c).sent} /\ Q \cap S = {}
  /\ ~Calls(c) => Q = {} /\ S = {}
  /\ queued'[c] = queued[c] \cup Q /\ skipped'[c] = skipped[c] \cup S

Gone(c) ==
  /\ session[c] # NoSession /\ session'[c] = NoSession
  /\ queued'[c] = {} /\ skipped'[c] = {}
  /\ Lifecycle

Fresh(c) ==
  /\ session[c] = NoSession /\ session'[c] # NoSession
  /\ session'[c].state = "open" /\ session'[c].sent \in {0, 1}
  /\ session'[c].age = 0 /\ session'[c].next = Escalation
  /\ queued'[c] \cup skipped'[c] = 1..session'[c].sent
  /\ queued'[c] \cap skipped'[c] = {}

Change(c) == Same(c) \/ Ended(c) \/ (\E Q, S : Round(c, Q, S)) \/ Gone(c) \/ Fresh(c)

LEMMA LifecycleChange ==
  ASSUME TypeOK, Lifecycle, NEW c \in Code
  PROVE  Same(c) \/ Round(c, Called(c, Open), {}) \/ Gone(c)
<1> DEFINE pruned == {x \in Sessions : Prunable(x)}
<1>1. /\ session'[c] = IF c \in Sessions \ pruned THEN Advanced(c) ELSE NoSession
      /\ queued'[c] = IF c \in pruned THEN {} ELSE queued[c] \cup Called(c, Open)
      /\ skipped'[c] = IF c \in pruned THEN {} ELSE skipped[c]
  <2>1. /\ session' = [x \in Code |-> IF x \in Sessions \ pruned THEN Advanced(x) ELSE NoSession]
        /\ queued' = [x \in Code |-> IF x \in pruned THEN {} ELSE queued[x] \cup Called(x, Open)]
        /\ skipped' = [x \in Code |-> IF x \in pruned THEN {} ELSE skipped[x]]
    BY Zenon DEF Lifecycle
  <2> HIDE DEF pruned
  <2>2. QED
    BY <2>1
<1>2. pruned \subseteq Sessions
  OBVIOUS
<1> HIDE DEF pruned
<1>3. CASE c \in pruned
  BY <1>1, <1>2, <1>3 DEF Gone, Sessions
<1>4. CASE c \in Sessions \ pruned
  <2>1. c \in Open => (Calls(c) => Called(c, Open) = {Advanced(c).sent})
    BY Zenon DEF Called
  <2>2. ~Calls(c) => Called(c, Open) = {}
    BY Zenon DEF Called
  <2>3. Calls(c) => c \in Open
    BY DEF Calls
  <2>4. QED
    BY <1>1, <1>4, <2>1, <2>2, <2>3 DEF Round, Sessions
<1>5. CASE c \notin Sessions
  <2>1. Called(c, Open) = {}
    BY <1>5, Zenon DEF Called, Open
  <2>2. QED
    BY <1>1, <1>2, <1>5, <2>1 DEF Same, Sessions
<1>6. QED
  BY <1>3, <1>4, <1>5

LEMMA TornChange ==
  ASSUME TypeOK, LifecycleTorn, NEW c \in Code
  PROVE  Same(c) \/ \E Q, S : Round(c, Q, S)
<1>1. PICK done \in (SUBSET Open) \ {{}}, lost \in SUBSET {x \in Open : Calls(x)} :
        /\ lost \subseteq done
        /\ session' = [x \in Code |-> IF x \in done THEN Advanced(x) ELSE session[x]]
        /\ queued' = [x \in Code |-> queued[x] \cup Called(x, done \ lost)]
        /\ skipped' = [x \in Code |-> skipped[x] \cup Called(x, lost)]
  BY Zenon DEF LifecycleTorn
<1>2. CASE c \in done
  <2>1. Calls(c) => /\ c \in lost => Called(c, lost) = {Advanced(c).sent} /\ Called(c, done \ lost) = {}
                    /\ c \notin lost => Called(c, lost) = {} /\ Called(c, done \ lost) = {Advanced(c).sent}
    BY <1>2 DEF Called
  <2>2. ~Calls(c) => Called(c, lost) = {} /\ Called(c, done \ lost) = {}
    BY Zenon DEF Called
  <2>3. session[c] # NoSession
    BY <1>2 DEF Open, Sessions
  <2>4. Round(c, Called(c, done \ lost), Called(c, lost))
    BY <1>1, <1>2, <2>1, <2>2, <2>3 DEF Round
  <2>5. QED
    BY <2>4
<1>3. CASE c \notin done
  <2>1. Called(c, lost) = {} /\ Called(c, done \ lost) = {}
    BY <1>1, <1>3 DEF Called
  <2>2. QED
    BY <1>1, <1>3, <2>1 DEF Same, Waits
<1>4. QED
  BY <1>2, <1>3

LEMMA OpensChange ==
  ASSUME TypeOK, NEW h \in Host, NEW c \in Code, session[c] = NoSession,
         NEW sent \in {0, 1}, NEW to \in SUBSET {1}, to \subseteq 1..sent,
         Opens(h, c, sent, to), NEW x \in Code
  PROVE  Same(x) \/ Fresh(x)
<1> DEFINE k == [host |-> h, state |-> "open", sent |-> sent, next |-> Escalation, age |-> 0]
<1>1. k.state = "open" /\ k.sent = sent /\ k.age = 0 /\ k.next = Escalation /\ k \in Session
  BY SmsAssumption DEF Session
<1>2. session' = [session EXCEPT ![c] = k]
  BY DEF Opens
<1> HIDE DEF k
<1>3. CASE x = c
  <2>1. session'[c] = k /\ k # NoSession
    BY <1>1, <1>2, NoneAssumption DEF TypeOK
  <2>2. queued'[c] = to /\ skipped'[c] = 1..sent \ to
    BY DEF Opens, TypeOK
  <2>3. QED
    BY <1>1, <1>3, <2>1, <2>2 DEF Fresh
<1>4. CASE x # c
  BY <1>2, <1>4 DEF Same, Waits, Opens, TypeOK
<1>5. QED
  BY <1>3, <1>4

LEMMA AcknowledgedChange ==
  ASSUME TypeOK, NEW done \in SUBSET acks, session' = Acknowledged(done),
         queued' = queued, skipped' = skipped, NEW c \in Code
  PROVE  Same(c) \/ Ended(c)
<1>1. CASE c \in Sessions /\ \E p \in done : p[2] = c
  <2> DEFINE k == [session[c] EXCEPT !.state = "ack", !.next = 0]
  <2>1. session[c] \in Session /\ 0 \in 0..Escalation
    BY <1>1, SessionRow, SmsAssumption DEF Sessions
  <2>2. k \in Session /\ k.state = "ack" /\ k.sent = session[c].sent /\ k.age = session[c].age
    BY <2>1 DEF Session, Reason
  <2>3. session'[c] = k
    BY <1>1 DEF Acknowledged
  <2> HIDE DEF k
  <2>4. QED
    BY <1>1, <2>2, <2>3, NoneAssumption DEF Ended, Sessions
<1>2. CASE ~(c \in Sessions /\ \E p \in done : p[2] = c)
  BY <1>2 DEF Acknowledged, Same, Waits
<1>3. QED
  BY <1>1, <1>2

LEMMA TickChange ==
  ASSUME TypeOK, Tick, NEW c \in Code
  PROVE  Same(c)
<1>1. queued' = queued /\ skipped' = skipped
  BY Zenon DEF Tick, calls
<1>2. CASE c \in Sessions
  <2> DEFINE older == IF session[c].age < Keep THEN session[c].age + 1 ELSE session[c].age
             k == [session[c] EXCEPT !.next = Less(session[c].next), !.age = older]
  <2>1. session[c] \in Session
    BY <1>2, SessionRow DEF Sessions
  <2>2. session'[c] = k
    BY <1>2 DEF Tick
  <2>3. session'[c] # NoSession
    <3>1. session[c].next \in 0..Escalation /\ session[c].age \in 0..Keep
      BY <2>1 DEF Session
    <3>2. Less(session[c].next) \in 0..Escalation /\ older \in 0..Keep
      BY <3>1, SmsAssumption DEF Less
    <3> HIDE DEF older
    <3>3. k \in Session
      BY <2>1, <3>2 DEF Session
    <3>4. QED
      BY <2>2, <3>3, NoneAssumption
  <2>4. k.sent = session[c].sent /\ k.state = session[c].state
        /\ k.age = older /\ k.next = Less(session[c].next)
    <3> HIDE DEF older
    <3>1. QED
      BY <2>1 DEF Session
  <2> HIDE DEF k
  <2>5. QED
    BY <1>1, <1>2, <2>2, <2>3, <2>4 DEF Same, Waits, Sessions
<1>3. CASE c \notin Sessions
  BY <1>1, <1>3 DEF Same, Sessions, Tick
<1>4. QED
  BY <1>2, <1>3

LEMMA UpChange ==
  ASSUME TypeOK, NEW h \in Host, AlarmUp(h), NEW c \in Code
  PROVE  Same(c) \/ Ended(c)
<1>1. PICK x \in Open :
        session' = [session EXCEPT ![x] = [session[x] EXCEPT !.state = "recovered", !.next = 0]]
  BY DEF AlarmUp
<1>2. queued' = queued /\ skipped' = skipped
  BY Zenon DEF AlarmUp, calls
<1>3. CASE c = x
  <2> DEFINE k == [session[x] EXCEPT !.state = "recovered", !.next = 0]
  <2>1. x \in Code /\ session[x] \in Session /\ 0 \in 0..Escalation /\ session[x] # NoSession
    BY SessionRow, SmsAssumption DEF Open, Sessions
  <2>2. k \in Session /\ k.state = "recovered" /\ k.sent = session[x].sent /\ k.age = session[x].age
    BY <2>1 DEF Session, Reason
  <2>3. session'[x] = k
    BY <1>1, <2>1 DEF TypeOK
  <2> HIDE DEF k
  <2>4. QED
    BY <1>2, <1>3, <2>1, <2>2, <2>3, NoneAssumption DEF Ended
<1>4. CASE c # x
  BY <1>1, <1>2, <1>4 DEF Same, Waits, TypeOK
<1>5. QED
  BY <1>3, <1>4

LEMMA StepChange ==
  ASSUME TypeOK, [Next]_vars, NEW c \in Code
  PROVE  Change(c)
<1>1. CASE UNCHANGED <<session, queued, skipped>>
  BY <1>1 DEF Change, Same, Waits
<1>2. CASE Lifecycle
  BY <1>2, LifecycleChange DEF Change
<1>3. CASE LifecycleTorn
  BY <1>3, TornChange DEF Change
<1>4. CASE Record
  <2>1. session' = Acknowledged(acks) /\ queued' = queued /\ skipped' = skipped
    BY <1>4, Zenon DEF Record, calls
  <2>2. QED
    BY <2>1, AcknowledgedChange DEF Change
<1>5. CASE RecordTorn
  <2>1. queued' = queued /\ skipped' = skipped
    BY <1>5, Zenon DEF RecordTorn
  <2>2. CASE session' = session
    BY <1>1, <2>1, <2>2
  <2>3. ASSUME NEW done \in SUBSET acks, session' = Acknowledged(done) PROVE Change(c)
    BY <2>1, <2>3, AcknowledgedChange DEF Change
  <2>4. QED
    BY <1>5, <2>2, <2>3, Zenon DEF RecordTorn
<1>6. CASE Tick
  BY <1>6, TickChange DEF Change
<1>7. ASSUME NEW h \in Host, AlarmUp(h) PROVE Change(c)
  BY <1>7, UpChange DEF Change
<1>8. ASSUME NEW h \in Host, NEW x \in Code, AlarmDown(h, x) \/ AlarmDownTorn(h, x)
      PROVE  Change(c)
  <2>1. session[x] = NoSession /\ (Opens(h, x, 1, {1}) \/ Opens(h, x, 0, {}) \/ Opens(h, x, 1, {}))
    BY <1>8, Zenon DEF AlarmDown, AlarmDownTorn
  <2>2. {1} \subseteq 1..1 /\ {} \subseteq 1..0 /\ {} \subseteq 1..1
    OBVIOUS
  <2>3. QED
    BY <2>1, <2>2, OpensChange DEF Change
<1>9. CASE PollNothing \/ Fetch \/ Baseline \/ BaselineTorn \/ Match \/ Restart \/ UNCHANGED vars
  BY <1>1, <1>9, Zenon DEF PollNothing, Fetch, Baseline, BaselineTorn, Match, Restart, vars, calls
<1>10. ASSUME NEW m \in Message, NEW r \in Recipient, NEW code \in Code \cup {NoCode},
              NEW dated \in BOOLEAN, Send(m, r, code, dated)
       PROVE  Change(c)
  BY <1>1, <1>10, Zenon DEF Send, calls
<1>11. QED
  BY <1>2, <1>3, <1>4, <1>5, <1>6, <1>7, <1>8, <1>9, <1>10, Zenon DEF Next, EngineStep

-----------------------------------------------------------------------------
(* What a step makes of a text.                                            *)

Kept(m) ==
  /\ m \in Texts'
  /\ inbox'[m].from = inbox[m].from /\ inbox'[m].code = inbox[m].code
  /\ inbox'[m].dated = inbox[m].dated
  /\ \A c \in Code : c \in inbox[m].answers => c \in inbox'[m].answers \/ session'[c] = NoSession

LEMMA OpensKept ==
  ASSUME TypeOK, NEW h, NEW c \in Code, NEW sent, NEW to, Opens(h, c, sent, to), NEW m \in Texts
  PROVE  Kept(m)
<1>1. m \in Message /\ inbox[m] \in Text
  BY TextRow DEF Texts
<1>2. inbox' = AnswersAlso(c)
  BY DEF Opens
<1>3. CASE inbox[m].dated /\ inbox[m].recent
  <2> DEFINE k == [inbox[m] EXCEPT !.answers = inbox[m].answers \cup {c}]
  <2>1. inbox'[m] = k
    BY <1>1, <1>2, <1>3 DEF AnswersAlso
  <2>2. inbox[m].answers \cup {c} \in SUBSET Code
    BY <1>1 DEF Text
  <2>3. k \in Text /\ k.answers = inbox[m].answers \cup {c} /\ k.code = inbox[m].code
        /\ k.from = inbox[m].from /\ k.dated = inbox[m].dated
    BY <1>1, <2>2, AnswersRow
  <2> HIDE DEF k
  <2>4. QED
    BY <1>1, <2>1, <2>3, NoneAssumption DEF Kept, Texts
<1>4. CASE ~(inbox[m].dated /\ inbox[m].recent)
  <2>1. inbox'[m] = inbox[m]
    BY <1>1, <1>2, <1>4 DEF AnswersAlso
  <2>2. QED
    BY <1>1, <2>1, NoneAssumption DEF Kept, Texts
<1>5. QED
  BY <1>3, <1>4

LEMMA LifecycleKept ==
  ASSUME TypeOK, Lifecycle, NEW m \in Texts
  PROVE  Kept(m)
<1> DEFINE pruned == {x \in Sessions : Prunable(x)}
           k == [inbox[m] EXCEPT !.answers = inbox[m].answers \ pruned]
<1>1. m \in Message /\ inbox[m] \in Text
  BY TextRow DEF Texts
<1>2. /\ session' = [x \in Code |-> IF x \in Sessions \ pruned THEN Advanced(x) ELSE NoSession]
      /\ inbox' = [x \in Message |-> IF x \in Texts
                                 THEN [inbox[x] EXCEPT !.answers = inbox[x].answers \ pruned]
                                 ELSE NoMessage]
  BY Zenon DEF Lifecycle
<1> HIDE DEF pruned
<1>3. inbox'[m] = k
  BY <1>1, <1>2
<1>4. \A c \in Code : c \in pruned => session'[c] = NoSession
  BY <1>2
<1>5. inbox[m].answers \ pruned \in SUBSET Code
  BY <1>1 DEF Text
<1>6. k \in Text /\ k.answers = inbox[m].answers \ pruned /\ k.code = inbox[m].code
      /\ k.from = inbox[m].from /\ k.dated = inbox[m].dated
  BY <1>1, <1>5, AnswersRow
<1> HIDE DEF k
<1>7. QED
  BY <1>1, <1>3, <1>4, <1>6, NoneAssumption DEF Kept, Texts

LEMMA TickKept ==
  ASSUME TypeOK, Tick, NEW m \in Texts
  PROVE  Kept(m)
<1>1. m \in Message /\ inbox[m] \in Text
  BY TextRow DEF Texts
<1>2. PICK old \in SUBSET {x \in Texts : inbox[x].recent} :
        inbox' = [x \in Message |-> IF x \in old THEN [inbox[x] EXCEPT !.recent = FALSE]
                                    ELSE inbox[x]]
  BY Zenon DEF Tick
<1> DEFINE k == [inbox[m] EXCEPT !.recent = FALSE]
<1>3. k \in Text /\ k.answers = inbox[m].answers /\ k.code = inbox[m].code
      /\ k.from = inbox[m].from /\ k.dated = inbox[m].dated
  BY <1>1, OldRow
<1>4. inbox'[m] = k \/ inbox'[m] = inbox[m]
  BY <1>1, <1>2
<1> HIDE DEF k
<1>5. QED
  BY <1>1, <1>3, <1>4, NoneAssumption DEF Kept, Texts

LEMMA StepKept ==
  ASSUME TypeOK, [Next]_vars, NEW m \in Texts
  PROVE  Kept(m)
<1>1. CASE UNCHANGED inbox
  BY <1>1 DEF Kept, Texts
<1>2. CASE Lifecycle
  BY <1>2, LifecycleKept
<1>3. CASE Tick
  BY <1>3, TickKept
<1>4. ASSUME NEW h \in Host, NEW c \in Code, AlarmDown(h, c) \/ AlarmDownTorn(h, c)
      PROVE  Kept(m)
  BY <1>4, OpensKept DEF AlarmDown, AlarmDownTorn
<1>5. ASSUME NEW x \in Message, NEW r \in Recipient, NEW code \in Code \cup {NoCode},
             NEW dated \in BOOLEAN, Send(x, r, code, dated)
      PROVE  Kept(m)
  <2>1. m \in Message /\ m # x /\ inbox'[m] = inbox[m]
    BY <1>5 DEF Send, Texts, TypeOK
  <2>2. QED
    BY <2>1 DEF Kept, Texts
<1>6. ASSUME NEW h \in Host, AlarmUp(h) PROVE Kept(m)
  BY <1>1, <1>6, Zenon DEF AlarmUp
<1>7. CASE LifecycleTorn \/ PollNothing \/ Fetch \/ Baseline \/ BaselineTorn \/ Match \/ Record \/ RecordTorn
           \/ Restart \/ UNCHANGED vars
  BY <1>1, <1>7, Zenon DEF LifecycleTorn, PollNothing, Fetch, Baseline, BaselineTorn, Match, Record, RecordTorn,
     Restart, vars
<1>8. QED
  BY <1>2, <1>3, <1>4, <1>5, <1>6, <1>7, Zenon DEF Next, EngineStep

-----------------------------------------------------------------------------
(* What was queued or skipped for a session is what its row counts.        *)

Counted(c) ==
  /\ queued[c] \cup skipped[c] = 1..session[c].sent
  /\ queued[c] \cap skipped[c] = {}
  /\ session[c].state = "exhausted" => session[c].sent = Chain

CountInv == \A c \in Sessions : Counted(c)

LEMMA CountNext == TypeOK /\ CountInv /\ [Next]_vars => CountInv'
<1> SUFFICES ASSUME TypeOK, CountInv, [Next]_vars, NEW c \in Code, session'[c] # NoSession
             PROVE  Counted(c)'
  BY DEF CountInv, Sessions
<1>0. /\ TypeOK'
      /\ Change(c)
  BY TypeNext, StepChange
<1>1. session[c] # NoSession => Counted(c)
  BY DEF CountInv, Sessions
<1>2. CASE Same(c) \/ Ended(c)
  BY <1>1, <1>2 DEF Same, Ended, Counted
<1>3. ASSUME NEW Q, NEW S, Round(c, Q, S) PROVE Counted(c)'
  <2>0. c \in Sessions /\ Counted(c)
    BY <1>1, <1>3 DEF Round, Sessions
  <2>1. session[c] \in Session /\ Advanced(c) \in Session
    BY <2>0, SessionRow, AdvancedRow DEF Sessions
  <2>2. session[c].sent \in 0..Chain /\ Advanced(c).sent \in 0..Chain
    BY <2>1 DEF Session
  <2>3. Advanced(c).state = "exhausted" => Advanced(c).sent = Chain
    <3>1. /\ Advanced(c).state = "exhausted" =>
                session[c].state = "exhausted" \/ Advanced(c).sent >= Chain
          /\ session[c].state = "exhausted" => c \notin Open
          /\ c \notin Open => Advanced(c) = session[c]
      BY <2>0, AdvancedRow DEF Open
    <3>2. session[c].state = "exhausted" => Advanced(c).sent = Chain
      BY <2>0, <3>1 DEF Counted
    <3>3. Advanced(c).sent >= Chain => Advanced(c).sent = Chain
      BY <2>2, SmsAssumption
    <3>4. QED
      BY <3>1, <3>2, <3>3
  <2>4. CASE Calls(c)
    <3>1. Advanced(c).sent = session[c].sent + 1
      BY <2>0, <2>4, AdvancedRow
    <3>2. 1..session[c].sent \cup {session[c].sent + 1} = 1..(session[c].sent + 1)
      BY <2>2, SmsAssumption
    <3>3. session[c].sent + 1 \notin 1..session[c].sent
      BY <2>2, SmsAssumption
    <3>4. /\ Q \cup S = {session[c].sent + 1} /\ Q \cap S = {}
          /\ queued'[c] = queued[c] \cup Q /\ skipped'[c] = skipped[c] \cup S
          /\ session'[c] = Advanced(c)
      BY <1>3, <2>4, <3>1 DEF Round
    <3>5. queued'[c] \cup skipped'[c] = 1..(session[c].sent + 1)
      <4>1. queued'[c] \cup skipped'[c] = (queued[c] \cup skipped[c]) \cup (Q \cup S)
        BY <3>4
      <4>2. QED
        BY <2>0, <3>2, <3>4, <4>1 DEF Counted
    <3>6. queued'[c] \cap skipped'[c] = {}
      <4>1. queued[c] \subseteq 1..session[c].sent /\ skipped[c] \subseteq 1..session[c].sent
            /\ queued[c] \cap skipped[c] = {}
        BY <2>0 DEF Counted
      <4>2. \A x \in Q \cup S : x \notin queued[c] /\ x \notin skipped[c]
        BY <3>3, <3>4, <4>1
      <4>3. QED
        BY <3>4, <4>1, <4>2
    <3>7. QED
      BY <2>3, <3>1, <3>4, <3>5, <3>6 DEF Counted
  <2>5. CASE ~Calls(c)
    <3>1. Advanced(c).sent = session[c].sent
      BY <2>0, <2>5, AdvancedRow
    <3>2. queued'[c] = queued[c] /\ skipped'[c] = skipped[c] /\ session'[c] = Advanced(c)
      BY <1>3, <2>5 DEF Round
    <3>3. QED
      BY <2>0, <2>3, <3>1, <3>2 DEF Counted
  <2>6. QED
    BY <2>4, <2>5
<1>4. CASE Gone(c)
  BY <1>4 DEF Gone
<1>5. CASE Fresh(c)
  BY <1>5 DEF Fresh, Counted
<1>6. QED
  BY <1>0, <1>2, <1>3, <1>4, <1>5 DEF Change

-----------------------------------------------------------------------------
(* One recipient at most is passed over by each call that broke off.       *)

Passed == {p \in Code \X Recipient : p[2] \in skipped[p[1]]}

PassedInv == IsFiniteSet(Passed) /\ Cardinality(Passed) <= faults

LEMMA PassedFewer ==
  ASSUME TypeOK, PassedInv, Passed' \subseteq Passed, faults' \in Nat, faults' >= faults
  PROVE  PassedInv'
<1>1. IsFiniteSet(Passed') /\ Cardinality(Passed') <= Cardinality(Passed)
  BY FS_Subset DEF PassedInv
<1>2. Cardinality(Passed') \in Nat /\ Cardinality(Passed) \in Nat
  BY <1>1, FS_CardinalityType DEF PassedInv
<1>3. faults \in Nat
  BY SmsAssumption DEF TypeOK
<1>4. Cardinality(Passed') <= faults'
  BY <1>1, <1>2, <1>3 DEF PassedInv
<1>5. QED
  BY <1>1, <1>4 DEF PassedInv

LEMMA PassedOneMore ==
  ASSUME TypeOK, PassedInv, NEW x, Passed' \subseteq Passed \cup {x}, faults' = faults + 1
  PROVE  PassedInv'
<1>0. IsFiniteSet(Passed) /\ Cardinality(Passed) <= faults
  BY DEF PassedInv
<1>1. /\ IsFiniteSet(Passed \cup {x})
      /\ Cardinality(Passed \cup {x}) = Cardinality(Passed)
           \/ Cardinality(Passed \cup {x}) = Cardinality(Passed) + 1
  BY <1>0, FS_AddElement
<1>2. IsFiniteSet(Passed') /\ Cardinality(Passed') <= Cardinality(Passed \cup {x})
  BY <1>1, FS_Subset
<1>3. Cardinality(Passed') \in Nat /\ Cardinality(Passed) \in Nat
  BY <1>0, <1>2, FS_CardinalityType
<1>4. faults \in Nat
  BY SmsAssumption DEF TypeOK
<1>5. Cardinality(Passed') <= faults'
  BY <1>0, <1>1, <1>2, <1>3, <1>4
<1>6. QED
  BY <1>2, <1>5 DEF PassedInv

(* Who is passed over when the monitor's call or the engine's breaks off.  *)
LEMMA PassedTorn ==
  ASSUME TypeOK, PassedInv, LifecycleTorn
  PROVE  PassedInv'
<1>1. PICK done \in (SUBSET Open) \ {{}}, lost \in SUBSET {c \in Open : Calls(c)} :
        /\ Cardinality(lost) <= 1
        /\ skipped' = [c \in Code |-> skipped[c] \cup Called(c, lost)]
  BY Zenon DEF LifecycleTorn
<1>2. lost \subseteq Code
  BY DEF Open, Sessions
<1>3. IsFiniteSet(lost) /\ Cardinality(lost) \in Nat
  BY <1>2, FS_Subset, FS_CardinalityType, SmsAssumption
<1>4. \E a : lost \subseteq {a}
  <2>1. CASE Cardinality(lost) = 0
    BY <1>3, <2>1, FS_EmptySet
  <2>2. CASE Cardinality(lost) = 1
    BY <1>3, <2>2, FS_Singleton
  <2>3. QED
    BY <1>1, <1>3, <2>1, <2>2
<1>5. PICK a : lost \subseteq {a}
  BY <1>4
<1>6. \A c \in Code : Called(c, lost) \subseteq IF c = a THEN {Advanced(a).sent} ELSE {}
  BY <1>5 DEF Called
<1>7. Passed' \subseteq Passed \cup {<<a, Advanced(a).sent>>}
  <2>1. SUFFICES ASSUME NEW p \in Passed', p \notin Passed PROVE p = <<a, Advanced(a).sent>>
    OBVIOUS
  <2>2. p \in Code \X Recipient /\ p[2] \in skipped'[p[1]]
    BY DEF Passed
  <2>3. PICK c \in Code, r \in Recipient : p = <<c, r>>
    BY <2>2
  <2>4. r \in skipped'[c] /\ r \notin skipped[c]
    BY <2>1, <2>2, <2>3 DEF Passed
  <2>5. r \in Called(c, lost)
    BY <1>1, <2>4
  <2>6. c = a /\ r = Advanced(a).sent
    BY <1>6, <2>5
  <2>7. QED
    BY <2>3, <2>6
<1>8. faults' = faults + 1
  BY Zenon DEF LifecycleTorn, Fault
<1>9. QED
  BY <1>7, <1>8, PassedOneMore

LEMMA PassedOpens ==
  ASSUME TypeOK, NEW h, NEW c \in Code, NEW sent \in {0, 1}, NEW to \in SUBSET {1},
         Opens(h, c, sent, to)
  PROVE  /\ Passed' \subseteq Passed \cup {<<c, 1>>}
         /\ to = {1} => Passed' \subseteq Passed
<1>1. skipped' = [skipped EXCEPT ![c] = 1..sent \ to]
  BY DEF Opens
<1>2. 1..sent \subseteq {1}
  OBVIOUS
<1>3. ASSUME NEW p \in Passed', p \notin Passed
      PROVE  p = <<c, 1>> /\ to # {1}
  <2>1. p \in Code \X Recipient /\ p[2] \in skipped'[p[1]]
    BY <1>3 DEF Passed
  <2>2. PICK x \in Code, r \in Recipient : p = <<x, r>>
    BY <2>1
  <2>3. r \in skipped'[x] /\ r \notin skipped[x]
    BY <1>3, <2>1, <2>2 DEF Passed
  <2>4. x = c /\ r \in 1..sent /\ r \notin to
    BY <1>1, <2>3 DEF TypeOK
  <2>5. QED
    BY <1>2, <2>2, <2>4
<1>4. QED
  BY <1>3

LEMMA PassedNext == TypeOK /\ PassedInv /\ [Next]_vars => PassedInv'
<1> SUFFICES ASSUME TypeOK, PassedInv, [Next]_vars PROVE PassedInv'
  OBVIOUS
<1>0. faults \in Nat
  BY SmsAssumption DEF TypeOK
<1>1. CASE skipped' = skipped /\ (faults' = faults \/ faults' = faults + 1)
  <2>1. Passed' \subseteq Passed
    BY <1>1 DEF Passed
  <2>2. faults' \in Nat /\ faults' >= faults
    BY <1>0, <1>1
  <2>3. QED
    BY <2>1, <2>2, PassedFewer
<1>2. CASE Lifecycle
  <2>1. skipped' = [c \in Code |-> IF c \in {x \in Sessions : Prunable(x)} THEN {} ELSE skipped[c]]
    BY <1>2, Zenon DEF Lifecycle
  <2>2. faults' = faults
    BY <1>2, Zenon DEF Lifecycle
  <2>3. \A c \in Code : skipped'[c] \subseteq skipped[c]
    BY <2>1
  <2>4. Passed' \subseteq Passed
    BY <2>3 DEF Passed
  <2>5. QED
    BY <1>0, <2>2, <2>4, PassedFewer
<1>3. CASE LifecycleTorn
  BY <1>3, PassedTorn
<1>4. ASSUME NEW h \in Host, NEW c \in Code, AlarmDown(h, c) PROVE PassedInv'
  <2>1. Passed' \subseteq Passed
    BY <1>4, PassedOpens DEF AlarmDown
  <2>2. faults' = faults
    BY <1>4 DEF AlarmDown
  <2>3. QED
    BY <1>0, <2>1, <2>2, PassedFewer
<1>5. ASSUME NEW h \in Host, NEW c \in Code, AlarmDownTorn(h, c) PROVE PassedInv'
  <2>1. Passed' \subseteq Passed \cup {<<c, 1>>}
    BY <1>5, PassedOpens DEF AlarmDownTorn
  <2>2. faults' = faults + 1
    BY <1>5 DEF AlarmDownTorn, Fault
  <2>3. QED
    BY <2>1, <2>2, PassedOneMore
<1>6. CASE RecordTorn
  BY <1>1, <1>6, Zenon DEF RecordTorn, Fault
<1>7. CASE PollNothing \/ Fetch \/ Baseline \/ BaselineTorn \/ Match \/ Record \/ Restart \/ Tick \/ UNCHANGED vars
  BY <1>1, <1>7, Zenon DEF PollNothing, Fetch, Baseline, BaselineTorn, Fault, Match, Record, Restart, Tick, vars, calls
<1>8. ASSUME NEW h \in Host, AlarmUp(h) PROVE PassedInv'
  BY <1>1, <1>8, Zenon DEF AlarmUp, calls
<1>9. ASSUME NEW m \in Message, NEW r \in Recipient, NEW code \in Code \cup {NoCode},
             NEW dated \in BOOLEAN, Send(m, r, code, dated)
      PROVE  PassedInv'
  BY <1>1, <1>9, Zenon DEF Send, calls
<1>10. QED
  BY <1>2, <1>3, <1>4, <1>5, <1>6, <1>7, <1>8, <1>9, Zenon DEF Next, EngineStep

-----------------------------------------------------------------------------
(* What has been matched and not yet recorded is an answer still.          *)

Evidence(m, c) ==
  /\ inbox[m].dated => c \in inbox[m].answers
  /\ inbox[m].code = c \/ inbox[m].from \in queued[c] \cup skipped[c]

BoxInv == box \subseteq Texts /\ (acks # {} => pc = "record")

MatchInv == \A p \in acks : p[1] \in Texts /\ p[2] \in Sessions /\ Evidence(p[1], p[2])

IInv == TypeOK /\ CountInv /\ PassedInv /\ BoxInv /\ MatchInv /\ AckDeserved

LEMMA EvidenceKept ==
  ASSUME TypeOK, [Next]_vars, NEW m \in Texts, NEW c \in Sessions, Evidence(m, c),
         session'[c] # NoSession
  PROVE  m \in Texts' /\ Evidence(m, c)'
<1>1. Kept(m) /\ Change(c) /\ c \in Code
  BY StepKept, StepChange DEF Sessions
<1>2. (inbox'[m].dated => c \in inbox'[m].answers) /\ inbox'[m].from = inbox[m].from /\ inbox'[m].code = inbox[m].code
      /\ m \in Texts'
  BY <1>1 DEF Kept, Evidence
<1>3. queued[c] \subseteq queued'[c] /\ skipped[c] \subseteq skipped'[c]
  <2>1. ~Gone(c) /\ ~Fresh(c)
    BY DEF Gone, Fresh, Sessions
  <2>2. CASE Same(c)
    BY <2>2 DEF Same
  <2>3. CASE Ended(c)
    BY <2>3 DEF Ended
  <2>4. ASSUME NEW Q, NEW S, Round(c, Q, S)
        PROVE  queued[c] \subseteq queued'[c] /\ skipped[c] \subseteq skipped'[c]
    BY <2>4 DEF Round
  <2>5. QED
    BY <1>1, <2>1, <2>2, <2>3, <2>4 DEF Change
<1>4. QED
  BY <1>2, <1>3 DEF Evidence

LEMMA BoxNext == TypeOK /\ BoxInv /\ [Next]_vars => BoxInv'
<1> SUFFICES ASSUME TypeOK, BoxInv, [Next]_vars PROVE BoxInv'
  OBVIOUS
<1>0. Texts \subseteq Texts'
  BY StepKept DEF Kept
<1>1. CASE /\ box' = {} \/ box' = box \/ box' = Texts
           /\ acks' = {} \/ pc' = "record" \/ (acks' = acks /\ pc' = pc) \/ (acks' = acks /\ pc # "record")
  BY <1>0, <1>1 DEF BoxInv
<1>2. CASE Lifecycle
  BY <1>1, <1>2, Zenon DEF Lifecycle
<1>3. CASE LifecycleTorn
  BY <1>1, <1>3, Zenon DEF LifecycleTorn, engine
<1>4. CASE PollNothing
  BY <1>1, <1>4, Zenon DEF PollNothing
<1>5. CASE Fetch
  BY <1>1, <1>5, Zenon DEF Fetch
<1>6. CASE Baseline \/ BaselineTorn
  BY <1>1, <1>6, Zenon DEF Baseline, BaselineTorn
<1>7. CASE Match
  BY <1>1, <1>7, Zenon DEF Match
<1>8. CASE Record
  BY <1>1, <1>8, Zenon DEF Record
<1>9. CASE RecordTorn
  BY <1>1, <1>9, Zenon DEF RecordTorn
<1>10. CASE Restart
  BY <1>1, <1>10, Zenon DEF Restart
<1>11. CASE UNCHANGED engine
  BY <1>1, <1>11, Zenon DEF engine
<1>12. CASE Tick \/ UNCHANGED vars
  BY <1>11, <1>12, Zenon DEF Tick, vars
<1>13. ASSUME NEW h \in Host, AlarmUp(h) \/ \E c \in Code : AlarmDown(h, c) \/ AlarmDownTorn(h, c)
       PROVE  BoxInv'
  BY <1>11, <1>13, Zenon DEF AlarmUp, AlarmDown, AlarmDownTorn
<1>14. ASSUME NEW m \in Message, NEW r \in Recipient, NEW code \in Code \cup {NoCode},
              NEW dated \in BOOLEAN, Send(m, r, code, dated)
       PROVE  BoxInv'
  BY <1>11, <1>14, Zenon DEF Send
<1>15. QED
  BY <1>2, <1>3, <1>4, <1>5, <1>6, <1>7, <1>8, <1>9, <1>10, <1>12, <1>13, <1>14, Zenon
     DEF Next, EngineStep

(* A match is an answer: by its code, or by a sender whom the row counts.  *)
LEMMA MatchNew ==
  ASSUME IInv, Match, NEW p \in acks', acks' # acks
  PROVE  p[1] \in Texts' /\ p[2] \in Sessions' /\ Evidence(p[1], p[2])'
<1> DEFINE hits == {m \in box \ seen : Matches(m) # {}}
<1>1. acks' \subseteq hits \X Open /\ p[2] \in Matches(p[1])
  BY Zenon DEF Match
<1>2. PICK m \in hits, c \in Open : p = <<m, c>>
  BY <1>1
<1>3. m \in Texts
  BY DEF IInv, BoxInv
<1>4. c \in Matches(m) /\ c \in Sessions
  BY <1>1, <1>2 DEF Open
<1>5. inbox[m].dated => c \in inbox[m].answers
  BY <1>4 DEF Matches, ByCode, BySender, CouldAnswer
<1>6. inbox[m].code = c \/ inbox[m].from <= session[c].sent
  BY <1>4 DEF Matches, ByCode, BySender
<1>7. inbox[m].from <= session[c].sent => inbox[m].from \in queued[c] \cup skipped[c]
  <2>1. inbox[m] \in Text /\ session[c] \in Session
    BY <1>3, <1>4, TextRow, SessionRow DEF IInv, Texts, Sessions
  <2>2. inbox[m].from \in 1..Chain /\ session[c].sent \in 0..Chain
    BY <2>1 DEF Text, Session, Recipient
  <2>3. queued[c] \cup skipped[c] = 1..session[c].sent
    BY <1>4 DEF IInv, CountInv, Counted
  <2>4. inbox[m].from <= session[c].sent => inbox[m].from \in 1..session[c].sent
    BY <2>2, SmsAssumption
  <2>5. QED
    BY <2>3, <2>4
<1>8. UNCHANGED <<session, inbox, queued, skipped>>
  BY Zenon DEF Match, calls
<1>9. Evidence(m, c) /\ m \in Texts /\ c \in Sessions
  BY <1>3, <1>4, <1>5, <1>6, <1>7 DEF Evidence
<1>10. QED
  BY <1>2, <1>8, <1>9 DEF Evidence, Texts, Sessions

LEMMA MatchNext == IInv /\ [Next]_vars => MatchInv'
<1> SUFFICES ASSUME IInv, [Next]_vars, NEW p \in acks'
             PROVE  p[1] \in Texts' /\ p[2] \in Sessions' /\ Evidence(p[1], p[2])'
  BY DEF MatchInv
<1>1. CASE p \in acks
  <2>1. p[1] \in Texts /\ p[2] \in Sessions /\ Evidence(p[1], p[2]) /\ TypeOK
    BY <1>1 DEF IInv, MatchInv
  <2>2. p[2] \in Code /\ Change(p[2])
    BY <2>1, StepChange DEF Sessions
  <2>3. ~Lifecycle
    <3>1. pc = "record"
      BY <1>1 DEF IInv, BoxInv
    <3>2. QED
      BY <3>1 DEF Lifecycle
  <2>4. session'[p[2]] # NoSession
    <3>1. session[p[2]] # NoSession
      BY <2>1 DEF Sessions
    <3>2. CASE \E Q, S : Round(p[2], Q, S)
      <4>1. session'[p[2]] = Advanced(p[2])
        BY <3>2 DEF Round
      <4>2. Advanced(p[2]) \in Session
        BY <2>1, AdvancedRow
      <4>3. QED
        BY <4>1, <4>2, NoneAssumption
    <3>3. QED
      BY <2>2, <2>3, <3>1, <3>2 DEF Change, Same, Ended, Gone, Fresh
  <2>5. QED
    BY <2>1, <2>2, <2>4, EvidenceKept DEF Sessions
<1>2. CASE p \notin acks
  <2>1. CASE Match
    BY <1>2, <2>1, MatchNew
  <2>2. CASE UNCHANGED acks \/ acks' = {}
    BY <1>2, <2>2
  <2>3. CASE \/ Lifecycle \/ LifecycleTorn \/ PollNothing \/ Fetch \/ Baseline \/ BaselineTorn \/ Record \/ RecordTorn
             \/ Restart \/ Tick \/ UNCHANGED vars
    BY <2>2, <2>3, Zenon DEF Lifecycle, LifecycleTorn, PollNothing, Fetch, Baseline, BaselineTorn, Record,
       RecordTorn, Restart, Tick, vars, engine
  <2>4. CASE \/ \E h \in Host : AlarmUp(h) \/ \E c \in Code : AlarmDown(h, c) \/ AlarmDownTorn(h, c)
             \/ \E m \in Message, r \in Recipient, code \in Code \cup {NoCode},
                  dated \in BOOLEAN : Send(m, r, code, dated)
    BY <2>2, <2>4, Zenon DEF AlarmUp, AlarmDown, AlarmDownTorn, Send, engine
  <2>5. QED
    BY <2>1, <2>3, <2>4, Zenon DEF Next, EngineStep
<1>3. QED
  BY <1>1, <1>2

LEMMA AckNext == IInv /\ [Next]_vars => AckDeserved'
<1> SUFFICES ASSUME IInv, [Next]_vars, NEW c \in Code, session'[c] # NoSession,
                    session'[c].state = "ack"
             PROVE  \E m \in Texts' : Evidence(m, c)'
  BY DEF AckDeserved, Answered, Evidence, Sessions
<1>0. TypeOK /\ Change(c)
  BY StepChange DEF IInv
<1>1. CASE c \in Sessions /\ session[c].state = "ack"
  <2>1. PICK m \in Texts : Evidence(m, c)
    BY <1>1 DEF IInv, AckDeserved, Answered, Evidence
  <2>2. QED
    BY <1>0, <1>1, <2>1, EvidenceKept
<1>2. ASSUME NEW p \in acks, p[2] = c PROVE \E m \in Texts' : Evidence(m, c)'
  <2>1. p[1] \in Texts /\ c \in Sessions /\ Evidence(p[1], c)
    BY <1>2 DEF IInv, MatchInv
  <2>2. QED
    BY <1>0, <2>1, EvidenceKept
<1>3. CASE Same(c)
  BY <1>1, <1>3 DEF Same, Sessions
<1>4. CASE Ended(c)
  BY <1>2, <1>4 DEF Ended
<1>5. ASSUME NEW Q, NEW S, Round(c, Q, S) PROVE c \in Sessions /\ session[c].state = "ack"
  <2>1. c \in Sessions /\ session'[c] = Advanced(c)
    BY <1>5 DEF Round, Sessions
  <2>2. QED
    BY <1>0, <2>1, AdvancedRow
<1>6. ~Gone(c) /\ ~Fresh(c)
  BY DEF Gone, Fresh
<1>7. QED
  BY <1>0, <1>1, <1>3, <1>4, <1>5, <1>6 DEF Change

LEMMA IInvInit == Init => IInv
<1> SUFFICES ASSUME Init PROVE IInv
  OBVIOUS
<1>1. TypeOK
  BY TypeInit
<1>2. Sessions = {} /\ Passed = {}
  BY DEF Init, Sessions, Passed
<1>3. PassedInv
  BY <1>2, FS_EmptySet DEF PassedInv, Init
<1>4. CountInv /\ AckDeserved
  BY <1>2 DEF CountInv, AckDeserved
<1>5. BoxInv /\ MatchInv
  BY DEF Init, BoxInv, MatchInv
<1>6. QED
  BY <1>1, <1>3, <1>4, <1>5 DEF IInv

LEMMA IInvNext == IInv /\ [Next]_vars => IInv'
  BY TypeNext, CountNext, PassedNext, BoxNext, MatchNext, AckNext DEF IInv

-----------------------------------------------------------------------------
(* A session counts as acknowledged only if a text answers it, with its    *)
(* code or from one of those called for it, and no text that is dated more *)
(* than the skew of the clocks before the alarm.                           *)
THEOREM AckDeservedCorrect == Spec => []AckDeserved
<1>1. IInv => AckDeserved
  BY DEF IInv
<1>2. QED
  BY <1>1, IInvInit, IInvNext, PTL DEF Spec

(* The chain is exhausted only after everybody on it, and one recipient at *)
(* most is passed over for each call of the monitor or the engine that     *)
(* broke off.                                                              *)
THEOREM ExhaustedAfterAllCorrect == Spec => []ExhaustedAfterAll
<1>1. IInv => ExhaustedAfterAll
  BY DEF IInv, CountInv, Counted, PassedInv, Passed, ExhaustedAfterAll
<1>2. QED
  BY <1>1, IInvInit, IInvNext, PTL DEF Spec

(* A closed session is never opened again and calls nobody.                *)
THEOREM ClosedForGoodCorrect == Spec => ClosedForGood
<1>1. TypeOK /\ [Next]_vars =>
        \A c \in Sessions \ Open :
          session'[c] = NoSession \/ (session'[c].state # "open" /\ queued'[c] = queued[c])
  <2> SUFFICES ASSUME TypeOK, [Next]_vars, NEW c \in Sessions \ Open
               PROVE  session'[c] = NoSession
                        \/ (session'[c].state # "open" /\ queued'[c] = queued[c])
    OBVIOUS
  <2>1. session[c] # NoSession /\ session[c].state # "open" /\ Change(c)
    BY StepChange DEF Sessions, Open
  <2>2. ASSUME NEW Q, NEW S, Round(c, Q, S)
        PROVE  session'[c].state # "open" /\ queued'[c] = queued[c]
    <3>1. Advanced(c) = session[c] /\ ~Calls(c)
      BY AdvancedRow DEF Calls
    <3>2. QED
      BY <2>1, <2>2, <3>1 DEF Round
  <2>3. QED
    BY <2>1, <2>2 DEF Change, Same, Ended, Gone, Fresh
<1>2. QED
  BY <1>1, TypeInit, TypeNext, PTL DEF Spec, ClosedForGood

(* Nobody is called for a session once its window is over.                 *)
THEOREM NoCallAfterWindowCorrect == Spec => NoCallAfterWindow
<1>1. TypeOK /\ [Next]_vars =>
        \A c \in Open : queued'[c] \subseteq queued[c] \/ session[c].age < AckWindow
  <2> SUFFICES ASSUME TypeOK, [Next]_vars, NEW c \in Open
               PROVE  queued'[c] \subseteq queued[c] \/ session[c].age < AckWindow
    OBVIOUS
  <2>1. session[c] # NoSession /\ c \in Sessions /\ Change(c)
    BY StepChange DEF Sessions, Open
  <2>2. ASSUME NEW Q, NEW S, Round(c, Q, S)
        PROVE  queued'[c] \subseteq queued[c] \/ session[c].age < AckWindow
    BY <2>1, <2>2, AdvancedRow DEF Round
  <2>3. QED
    BY <2>1, <2>2 DEF Change, Same, Ended, Gone, Fresh
<1>2. QED
  BY <1>1, TypeInit, TypeNext, PTL DEF Spec, NoCallAfterWindow

-----------------------------------------------------------------------------
(***************************************************************************)
(* Everybody's turn lasts.  A session's age and what is left of the        *)
(* present turn are together worth as many turns as recipients have been   *)
(* counted, as long as there is anything to be called for: a round that    *)
(* breaks off, an alarm that comes in pieces and a restart all leave the   *)
(* deadline with the count.                                                *)
(***************************************************************************)
Turns(n) == n * Escalation

Timed(c) ==
  /\ session[c].sent > 0 => session[c].age >= Turns(session[c].sent - 1)
  /\ session[c].state = "open" /\ session[c].age < AckWindow =>
       session[c].age + session[c].next >= Turns(session[c].sent)
  /\ session[c].state = "exhausted" => session[c].age >= Turns(Chain)

TimedInv == \A c \in Sessions : Timed(c)

LEMMA TurnsFacts ==
  /\ \A n \in Nat : Turns(n) \in Nat /\ Turns(n + 1) = Turns(n) + Escalation
  /\ Turns(0) = 0
<1>1. Escalation \in Nat
  BY SmsAssumption
<1>2. ASSUME NEW a \in Nat, NEW b \in Nat PROVE a * b \in Nat /\ (a + 1) * b = a * b + b /\ 0 * b = 0
  OBVIOUS
<1>3. QED
  BY <1>1, <1>2 DEF Turns

LEMMA TimedNext == TypeOK /\ TimedInv /\ [Next]_vars => TimedInv'
<1> SUFFICES ASSUME TypeOK, TimedInv, [Next]_vars, NEW c \in Code, session'[c] # NoSession
             PROVE  Timed(c)'
  BY DEF TimedInv, Sessions
<1> DEFINE s == session[c]
           t == session'[c]
<1>0. /\ t \in Session /\ Change(c)
      /\ s # NoSession => s \in Session /\ Timed(c)
  BY TypeNext, StepChange, SessionRow DEF TypeOK, TimedInv, Sessions
<1>1. /\ t.sent \in 0..Chain /\ t.age \in 0..Keep /\ t.next \in 0..Escalation
      /\ s # NoSession => s.sent \in 0..Chain /\ s.age \in 0..Keep /\ s.next \in 0..Escalation
  BY <1>0 DEF Session
<1>2. /\ Chain \in Nat /\ Escalation \in Nat /\ AckWindow \in Nat
      /\ Keep \in Nat /\ AckWindow <= Keep
  BY SmsAssumption
<1>3. CASE Same(c) /\ s # NoSession
  <2>1. t.sent = s.sent /\ t.state = s.state /\ Waits(c) /\ Timed(c)
    BY <1>0, <1>3 DEF Same
  <2>2. /\ t.age >= s.age /\ (t.age < AckWindow => s.age < AckWindow)
        /\ t.age < AckWindow => t.age + t.next >= s.age + s.next
    BY <1>1, <1>2, <1>3, <2>1 DEF Waits, Less
  <2>3. /\ s.sent > 0 => Turns(s.sent - 1) \in Nat
        /\ Turns(s.sent) \in Nat /\ Turns(Chain) \in Nat
    BY <1>1, <1>2, <1>3, TurnsFacts
  <2>4. t.sent > 0 => t.age >= Turns(t.sent - 1)
    BY <1>1, <1>3, <2>1, <2>2, <2>3 DEF Timed
  <2>5. t.state = "open" /\ t.age < AckWindow => t.age + t.next >= Turns(t.sent)
    BY <1>1, <1>3, <2>1, <2>2, <2>3 DEF Timed
  <2>6. t.state = "exhausted" => t.age >= Turns(Chain)
    BY <1>1, <1>3, <2>1, <2>2, <2>3 DEF Timed
  <2>7. QED
    BY <2>4, <2>5, <2>6 DEF Timed
<1>4. CASE Ended(c)
  <2>1. s # NoSession /\ t.sent = s.sent /\ t.age = s.age /\ t.state \in {"ack", "recovered"}
        /\ Timed(c)
    BY <1>0, <1>4 DEF Ended
  <2>2. QED
    BY <2>1 DEF Timed
<1>5. ASSUME NEW Q, NEW S, Round(c, Q, S) PROVE Timed(c)'
  <2>1. c \in Sessions /\ s # NoSession /\ Timed(c) /\ t = Advanced(c)
    BY <1>0, <1>5 DEF Round, Sessions
  <2>2. t.age = s.age
    BY <2>1, AdvancedRow
  <2>3. CASE Calls(c)
    <3>1. t.sent = s.sent + 1 /\ s.age < AckWindow /\ t.state = "open" /\ s.next = 0
          /\ t.next = Escalation /\ s.state = "open"
      BY <2>1, <2>3, AdvancedRow DEF Calls, Open
    <3>2. s.age + 0 >= Turns(s.sent)
      BY <2>1, <3>1 DEF Timed
    <3>3. Turns(s.sent + 1) = Turns(s.sent) + Escalation /\ Turns(s.sent) \in Nat
          /\ (s.sent + 1) - 1 = s.sent
      <4>1. s.sent \in Nat
        BY <1>1, <1>2, <2>1
      <4>2. (s.sent + 1) - 1 = s.sent
        BY <4>1
      <4>3. QED
        BY <4>1, <4>2, TurnsFacts
    <3>4. t.age >= Turns(t.sent - 1)
      BY <1>1, <2>1, <2>2, <3>1, <3>2, <3>3
    <3>5. t.age + t.next >= Turns(t.sent)
      BY <1>1, <1>2, <2>1, <2>2, <3>1, <3>2, <3>3
    <3>6. QED
      BY <3>1, <3>4, <3>5 DEF Timed
  <2>4. CASE ~Calls(c)
    <3>1. t.sent = s.sent
      BY <2>1, <2>4, AdvancedRow
    <3>2. t.state = "open" => t.next = s.next /\ s.state = "open"
      <4>1. c \notin Open => t = s
        BY <2>1, AdvancedRow
      <4>2. QED
        BY <2>1, <2>4, <4>1, AdvancedRow DEF Open
    <3>3. t.state = "exhausted" => t.age >= Turns(Chain)
      <4>1. CASE s.state = "exhausted"
        BY <2>1, <2>2, <4>1 DEF Timed
      <4>2. CASE t.state = "exhausted" /\ s.state # "exhausted"
        <5>1. s.state = "open" /\ s.age < AckWindow /\ s.next = 0 /\ s.sent = Chain
          BY <2>1, <4>2, AdvancedRow
        <5>2. s.age + 0 >= Turns(Chain)
          BY <2>1, <5>1 DEF Timed
        <5>3. QED
          BY <1>1, <2>1, <2>2, <5>2
      <4>3. QED
        BY <4>1, <4>2
    <3>4. QED
      BY <2>1, <2>2, <3>1, <3>2, <3>3 DEF Timed
  <2>5. QED
    BY <2>3, <2>4
<1>6. CASE Fresh(c)
  <2>1. t.state = "open" /\ t.sent \in {0, 1} /\ t.age = 0 /\ t.next = Escalation
    BY <1>6 DEF Fresh
  <2>2. Turns(0) = 0 /\ Turns(1) = Escalation
    <3>1. Turns(0 + 1) = Turns(0) + Escalation
      BY TurnsFacts
    <3>2. QED
      BY <1>2, <3>1, TurnsFacts
  <2>3. t.sent > 0 => t.age >= Turns(t.sent - 1)
    BY <2>1, <2>2
  <2>4. t.age + t.next >= Turns(t.sent)
    BY <1>2, <2>1, <2>2
  <2>5. QED
    BY <2>1, <2>3, <2>4 DEF Timed
<1>7. Same(c) => s # NoSession
  BY DEF Same
<1>8. ~Gone(c)
  BY DEF Gone
<1>9. QED
  BY <1>0, <1>3, <1>4, <1>5, <1>6, <1>7, <1>8, Zenon DEF Change

(* Whoever is counted as called has been left his turn before the next one *)
(* is, and the chain is given up only when the last of it has had his.     *)
EveryTurnLasts ==
  \A c \in Sessions :
    /\ session[c].sent > 0 => session[c].age >= Turns(session[c].sent - 1)
    /\ session[c].state = "exhausted" => session[c].age >= Turns(Chain)

(* Nobody on the list is called before those ahead of him have each had    *)
(* the escalation time to answer in, and no session counts as exhausted    *)
(* before that is so of all (sms_engine.rs: create_session,                *)
(* record_escalation, tick).                                               *)
THEOREM EveryTurnLastsCorrect == Spec => []EveryTurnLasts
<1>1. Init => TypeOK /\ TimedInv
  BY TypeInit DEF Init, TimedInv, Sessions
<1>2. (TypeOK /\ TimedInv) /\ [Next]_vars => (TypeOK /\ TimedInv)'
  BY TypeNext, TimedNext
<1>3. TypeOK /\ TimedInv => EveryTurnLasts
  BY DEF TimedInv, Timed, EveryTurnLasts
<1>4. QED
  BY <1>1, <1>2, <1>3, PTL DEF Spec
=============================================================================
