-------------------------- MODULE PushChannelProof --------------------------
(***************************************************************************)
(* Theorems about PushChannel and Secrets, for any users, finitely many    *)
(* endpoints, any quotas, senders and secrets, and any number of restarts, *)
(* commands and stale clients: the types, the quotas, that a message is    *)
(* confirmed once and counted as delivered rightly, and that the key and   *)
(* the subscriptions survive everybody who writes them.                    *)
(***************************************************************************)
EXTENDS PushChannel, FiniteSetTheorems, TLAPS

-----------------------------------------------------------------------------
(* Types.                                                                  *)

LEMMA SecretsTypeFlush ==
  ASSUME SecretsTypeOK, NEW n \in Secret, SetSecret(n) \/ RemoveSecret(n)
  PROVE  SecretsTypeOK'
<1>1. values' \in 0..MaxValue
  BY SecretsAssumption DEF SecretsTypeOK, SetSecret, RemoveSecret, NewValue
<1>2. [cache EXCEPT ![n] = values'] \in Map /\ [cache EXCEPT ![n] = 0] \in Map
  BY <1>1, SecretsAssumption DEF SecretsTypeOK, Map
<1>3. cache' \in Map /\ file' \in Map /\ command' = command
  BY <1>2 DEF SetSecret, RemoveSecret, Flush
<1>4. QED
  BY <1>1, <1>3 DEF SecretsTypeOK

LEMMA SecretsTypeCommand ==
  ASSUME SecretsTypeOK, NEW n \in Secret, CommandWrites(n)
  PROVE  SecretsTypeOK'
<1>1. values' \in 0..MaxValue /\ command \in Map
  BY SecretsAssumption DEF SecretsTypeOK, CommandWrites, NewValue
<1>2. [command EXCEPT ![n] = values'] \in Map /\ [command EXCEPT ![n] = 0] \in Map
  BY <1>1, SecretsAssumption DEF Map
<1>3. file' \in Map /\ cache' = cache /\ command' = NoCommand
  BY <1>2 DEF CommandWrites
<1>4. QED
  BY <1>1, <1>3 DEF SecretsTypeOK

LEMMA TypeSecrets == TypeOK /\ [Next]_vars => SecretsTypeOK'
<1> SUFFICES ASSUME TypeOK, [Next]_vars PROVE SecretsTypeOK'
  OBVIOUS
<1>0. SecretsTypeOK
  BY DEF TypeOK
<1>1. CASE UNCHANGED secrets
  BY <1>0, <1>1 DEF secrets, SecretsTypeOK
<1>2. CASE EnableKey
  <2>1. UNCHANGED secrets \/ SetSecret("vapid")
    BY <1>2, Zenon DEF EnableKey, Ensure
  <2>2. QED
    BY <1>0, <1>1, <2>1, PushAssumption, SecretsTypeFlush
<1>3. ASSUME NEW n \in Secret, MeddleWithSecrets(n) PROVE SecretsTypeOK'
  <2>1. CASE CommandOpens
    BY <1>0, <2>1 DEF CommandOpens, SecretsTypeOK
  <2>2. QED
    BY <1>0, <1>3, <2>1, SecretsTypeFlush, SecretsTypeCommand DEF MeddleWithSecrets
<1>4. CASE Restart
  BY <1>0, <1>4 DEF Restart, Reopen, SecretsTypeOK
<1>5. ASSUME NEW u \in User, NEW e \in Endpoint, Subscribe(u, e) \/ Unsubscribe(u, e)
      PROVE  SecretsTypeOK'
  BY <1>1, <1>5, Zenon DEF Subscribe, Unsubscribe
<1>6. ASSUME NEW s \in Sender, Begin(s) \/ Finish(s) \/ \E e \in Endpoint : SendOne(s, e)
      PROVE  SecretsTypeOK'
  BY <1>1, <1>6, Zenon DEF Begin, Finish, SendOne
<1>7. CASE \/ EnableList \/ Disable \/ ReadList \/ WriteList \/ ReadConfig \/ WriteConfig
           \/ UNCHANGED vars \/ \E e \in Endpoint : Expire(e)
  BY <1>1, <1>7, Zenon DEF EnableList, Disable, ReadList, WriteList, ReadConfig, WriteConfig,
     Expire, vars
<1>8. QED
  BY <1>2, <1>3, <1>4, <1>5, <1>6, <1>7, Zenon DEF Next

LEMMA TypeInit == Init => TypeOK
<1> SUFFICES ASSUME Init PROVE TypeOK
  OBVIOUS
<1>1. SecretsTypeOK
  BY SecretsAssumption DEF Init, SecretsInit, SecretsTypeOK, Map
<1>2. owner \in [Endpoint -> User \cup {Legacy, Absent}]
  BY DEF Init
<1>3. report \in [Sender -> [Endpoint -> Answer]]
  BY DEF Init, Answer
<1>4. enabling \in 0..MaxRequests /\ meddled \in 0..MaxMeddling
  BY PushAssumption DEF Init
<1>5. had \in [Sender -> SUBSET Endpoint]
  BY DEF Init
<1>6. verdict \in [Sender -> {"none", "delivered", "terminal", "retryable"}]
  BY DEF Init
<1>7. channels = {} /\ seen = Absent /\ draft = Absent /\ gone = {}
  BY Zenon DEF Init
<1>8. QED
  BY <1>1, <1>2, <1>3, <1>4, <1>5, <1>6, <1>7 DEF TypeOK

(* Each variable but the secrets, by the few actions that write it.        *)
OwnerStep ==
  \/ owner' = owner
  \/ \E u \in User, e \in Endpoint : Subscribe(u, e) \/ Unsubscribe(u, e)
  \/ \E s \in Sender : Finish(s) /\ owner' = Pruned(s)
  \/ WriteConfig

SendStep ==
  \/ UNCHANGED sends
  \/ \E s \in Sender : Begin(s) \/ Finish(s) \/ \E e \in Endpoint : SendOne(s, e)
  \/ Restart

LEMMA OwnerSteps == [Next]_vars => OwnerStep
<1> SUFFICES ASSUME [Next]_vars PROVE OwnerStep
  OBVIOUS
<1>1. CASE EnableKey \/ EnableList \/ Disable \/ ReadList \/ WriteList \/ ReadConfig \/ Restart
           \/ UNCHANGED vars
  BY <1>1, Zenon DEF EnableKey, EnableList, Disable, ReadList, WriteList, ReadConfig, Restart, vars,
     rows, OwnerStep
<1>2. ASSUME NEW s \in Sender, Begin(s) \/ Finish(s) \/ \E e \in Endpoint : SendOne(s, e)
      PROVE  OwnerStep
  BY <1>2, Zenon DEF Begin, Finish, SendOne, rows, OwnerStep
<1>3. ASSUME NEW e \in Endpoint, Expire(e) PROVE OwnerStep
  BY <1>3, Zenon DEF Expire, rows, OwnerStep
<1>4. ASSUME NEW n \in Secret, MeddleWithSecrets(n) PROVE OwnerStep
  BY <1>4, Zenon DEF MeddleWithSecrets, rows, OwnerStep
<1>5. CASE WriteConfig \/ \E u \in User, e \in Endpoint : Subscribe(u, e) \/ Unsubscribe(u, e)
  BY <1>5, Zenon DEF OwnerStep
<1>6. QED
  BY <1>1, <1>2, <1>3, <1>4, <1>5, Zenon DEF Next

LEMMA SendSteps == [Next]_vars => SendStep
<1> SUFFICES ASSUME [Next]_vars PROVE SendStep
  OBVIOUS
<1>1. CASE EnableKey \/ EnableList \/ Disable \/ ReadList \/ WriteList \/ ReadConfig \/ WriteConfig
           \/ UNCHANGED vars
  BY <1>1, Zenon DEF EnableKey, EnableList, Disable, ReadList, WriteList, ReadConfig, WriteConfig,
     vars, SendStep
<1>2. CASE Restart \/ \E s \in Sender : Begin(s) \/ Finish(s) \/ \E e \in Endpoint : SendOne(s, e)
  BY <1>2, Zenon DEF SendStep
<1>3. ASSUME NEW e \in Endpoint, Expire(e) PROVE SendStep
  BY <1>3, Zenon DEF Expire, SendStep
<1>4. ASSUME NEW n \in Secret, MeddleWithSecrets(n) PROVE SendStep
  BY <1>4, Zenon DEF MeddleWithSecrets, SendStep
<1>5. ASSUME NEW u \in User, NEW e \in Endpoint, Subscribe(u, e) \/ Unsubscribe(u, e) PROVE SendStep
  BY <1>5, Zenon DEF Subscribe, Unsubscribe, SendStep
<1>6. QED
  BY <1>1, <1>2, <1>3, <1>4, <1>5, Zenon DEF Next

LEMMA PrunedType ==
  ASSUME TypeOK, NEW s \in Sender
  PROVE  Pruned(s) \in [Endpoint -> User \cup {Legacy, Absent}]
<1>1. \A e \in Endpoint : owner[e] \in User \cup {Legacy, Absent}
  BY DEF TypeOK
<1>2. QED
  BY <1>1 DEF Pruned

LEMMA TypeOwner == TypeOK /\ [Next]_vars => owner' \in [Endpoint -> User \cup {Legacy, Absent}]
<1> SUFFICES ASSUME TypeOK, [Next]_vars PROVE owner' \in [Endpoint -> User \cup {Legacy, Absent}]
  OBVIOUS
<1>1. OwnerStep /\ owner \in [Endpoint -> User \cup {Legacy, Absent}]
  BY OwnerSteps DEF TypeOK
<1>2. ASSUME NEW u \in User, NEW e \in Endpoint, Subscribe(u, e) \/ Unsubscribe(u, e)
      PROVE  owner' \in [Endpoint -> User \cup {Legacy, Absent}]
  BY <1>1, <1>2 DEF Subscribe, Unsubscribe
<1>3. CASE WriteConfig
  BY <1>3 DEF WriteConfig, TypeOK
<1>4. QED
  BY <1>1, <1>2, <1>3, PrunedType DEF OwnerStep

LEMMA TypeSends ==
  TypeOK /\ [Next]_vars => /\ report' \in [Sender -> [Endpoint -> Answer]]
                           /\ verdict' \in [Sender -> {"none", "delivered", "terminal", "retryable"}]
                           /\ had' \in [Sender -> SUBSET Endpoint]
<1> DEFINE Goal == /\ report' \in [Sender -> [Endpoint -> Answer]]
                   /\ verdict' \in [Sender -> {"none", "delivered", "terminal", "retryable"}]
                   /\ had' \in [Sender -> SUBSET Endpoint]
<1> SUFFICES ASSUME TypeOK, [Next]_vars PROVE Goal
  OBVIOUS
<1>0. /\ report \in [Sender -> [Endpoint -> Answer]]
      /\ verdict \in [Sender -> {"none", "delivered", "terminal", "retryable"}]
      /\ had \in [Sender -> SUBSET Endpoint]
  BY DEF TypeOK
<1>1. CASE UNCHANGED sends
  BY <1>0, <1>1 DEF sends
<1>2. ASSUME NEW s \in Sender, Begin(s) PROVE Goal
  <2>1. [e \in Endpoint |-> IF owner[e] # Absent THEN "todo" ELSE "out"] \in [Endpoint -> Answer]
    BY DEF Answer
  <2>2. report' \in [Sender -> [Endpoint -> Answer]]
    BY <1>0, <1>2, <2>1 DEF Begin
  <2>3. verdict' \in [Sender -> {"none", "delivered", "terminal", "retryable"}]
    BY <1>0, <1>2 DEF Begin
  <2>4. (had[s] \cup Having(s, "sent")) \subseteq Endpoint
    BY <1>0 DEF Having
  <2>5. had' \in [Sender -> SUBSET Endpoint]
    BY <1>0, <1>2, <2>4 DEF Begin
  <2>6. QED
    BY <2>2, <2>3, <2>5
<1>3. ASSUME NEW s \in Sender, Finish(s) PROVE Goal
  <2>1. /\ ClassifyDelivery(s) \in {"delivered", "terminal", "retryable"}
        /\ ClassifyPruneFailure(s) \in {"terminal", "retryable"}
    BY DEF ClassifyDelivery, ClassifyPruneFailure
  <2>2. verdict' = [verdict EXCEPT ![s] = ClassifyDelivery(s)]
          \/ verdict' = [verdict EXCEPT ![s] = ClassifyPruneFailure(s)]
    BY <1>3, Zenon DEF Finish
  <2>3. verdict' \in [Sender -> {"none", "delivered", "terminal", "retryable"}]
    BY <1>0, <2>1, <2>2
  <2>4. report' = report /\ had' = had
    BY <1>3, Zenon DEF Finish
  <2>5. QED
    BY <1>0, <2>3, <2>4
<1>4. ASSUME NEW s \in Sender, NEW e \in Endpoint, SendOne(s, e) PROVE Goal
  <2>1. PICK a \in Answers(e) : report' = [report EXCEPT ![s] = [report[s] EXCEPT ![e] = a]]
    BY <1>4 DEF SendOne
  <2>2. a \in Answer
    BY DEF Answers, Answer
  <2>3. [report[s] EXCEPT ![e] = a] \in [Endpoint -> Answer]
    BY <1>0, <2>2
  <2>4. QED
    BY <1>0, <1>4, <2>1, <2>3 DEF SendOne
<1>5. CASE Restart
  BY <1>0, <1>5 DEF Restart
<1>6. QED
  BY <1>1, <1>2, <1>3, <1>4, <1>5, SendSteps DEF SendStep

LEMMA TypeRest ==
  TypeOK /\ [Next]_vars => /\ channels' \subseteq Channel /\ enabling' \in 0..MaxRequests
                           /\ seen' \in (SUBSET Channel) \cup {Absent}
                           /\ draft' \in [Endpoint -> User \cup {Legacy, Absent}] \cup {Absent}
                           /\ gone' \subseteq Endpoint /\ meddled' \in 0..MaxMeddling
<1> DEFINE Goal == /\ channels' \subseteq Channel /\ enabling' \in 0..MaxRequests
                   /\ seen' \in (SUBSET Channel) \cup {Absent}
                   /\ draft' \in [Endpoint -> User \cup {Legacy, Absent}] \cup {Absent}
                   /\ gone' \subseteq Endpoint /\ meddled' \in 0..MaxMeddling
<1> SUFFICES ASSUME TypeOK, [Next]_vars PROVE Goal
  OBVIOUS
<1>0. /\ channels \subseteq Channel /\ enabling \in 0..MaxRequests
      /\ seen \in (SUBSET Channel) \cup {Absent}
      /\ draft \in [Endpoint -> User \cup {Legacy, Absent}] \cup {Absent}
      /\ owner \in [Endpoint -> User \cup {Legacy, Absent}]
      /\ gone \subseteq Endpoint /\ meddled \in 0..MaxMeddling
      /\ MaxRequests \in Nat /\ MaxMeddling \in Nat
  BY PushAssumption DEF TypeOK
<1>1. CASE UNCHANGED <<channels, enabling, seen, draft, gone, meddled>>
  BY <1>0, <1>1
<1>2. Meddle => meddled' \in 0..MaxMeddling
  BY <1>0 DEF Meddle
<1>3. CASE EnableKey
  BY <1>0, <1>3 DEF EnableKey, rows
<1>4. CASE EnableList
  BY <1>0, <1>4 DEF EnableList, Channel
<1>5. CASE Disable
  BY <1>0, <1>5 DEF Disable, client
<1>6. CASE ReadList
  BY <1>0, <1>2, <1>6 DEF ReadList, rows
<1>7. CASE WriteList
  <2>1. seen \in SUBSET Channel
    BY <1>0, <1>7 DEF WriteList
  <2>2. channels' \subseteq Channel
    BY <1>7, <2>1 DEF WriteList, Channel
  <2>3. QED
    BY <1>0, <1>7, <2>2 DEF WriteList
<1>8. CASE ReadConfig
  BY <1>0, <1>2, <1>8 DEF ReadConfig, rows
<1>9. CASE WriteConfig
  BY <1>0, <1>9 DEF WriteConfig
<1>10. ASSUME NEW e \in Endpoint, Expire(e) PROVE Goal
  BY <1>0, <1>10 DEF Expire, rows, client
<1>11. ASSUME NEW n \in Secret, MeddleWithSecrets(n) PROVE Goal
  <2>1. (Meddle \/ meddled' = meddled) /\ UNCHANGED <<rows, client, gone>>
    BY <1>11, Zenon DEF MeddleWithSecrets
  <2>2. QED
    BY <1>0, <1>2, <2>1 DEF rows, client
<1>12. CASE Restart
  BY <1>0, <1>2, <1>12 DEF Restart, rows
<1>13. ASSUME NEW u \in User, NEW e \in Endpoint, Subscribe(u, e) \/ Unsubscribe(u, e) PROVE Goal
  BY <1>1, <1>13, Zenon DEF Subscribe, Unsubscribe, client
<1>14. ASSUME NEW s \in Sender, Begin(s) \/ Finish(s) \/ \E e \in Endpoint : SendOne(s, e) PROVE Goal
  BY <1>1, <1>14, Zenon DEF Begin, Finish, SendOne, rows, client
<1>15. CASE UNCHANGED vars
  BY <1>1, <1>15, Zenon DEF vars, rows, client
<1>16. QED
  BY <1>3, <1>4, <1>5, <1>6, <1>7, <1>8, <1>9, <1>10, <1>11, <1>12, <1>13, <1>14, <1>15, Zenon DEF Next

LEMMA TypeNext == TypeOK /\ [Next]_vars => TypeOK'
  BY TypeSecrets, TypeOwner, TypeSends, TypeRest, Zenon DEF TypeOK

(* Secrets, rows, clients' copies and sends keep their types.              *)
THEOREM TypeCorrect == Spec => []TypeOK
<1>1. Init => TypeOK
  BY TypeInit
<1>2. TypeOK /\ [Next]_vars => TypeOK'
  BY TypeNext
<1>3. QED
  BY <1>1, <1>2, PTL DEF Spec

-----------------------------------------------------------------------------
(* The key.                                                                *)

LEMMA KeyStep ==
  ASSUME TypeOK, [Next]_vars, file["vapid"] # 0, file'["vapid"] # file["vapid"]
  PROVE  Behind \/ MeddleWithSecrets("vapid")
<1>0. cache \in Map /\ file \in Map /\ command \in Map \cup {NoCommand} /\ "vapid" \in Secret
  BY PushAssumption DEF TypeOK, SecretsTypeOK
<1>1. CASE UNCHANGED file
  BY <1>1
<1>2. CASE EnableKey
  <2>1. cache["vapid"] = 0
    BY <1>1, <1>2, Zenon DEF EnableKey, Ensure, secrets
  <2>2. QED
    BY <2>1 DEF Behind
<1>3. ASSUME NEW n \in Secret, MeddleWithSecrets(n), n # "vapid" PROVE Behind
  <2>1. CASE SetSecret(n) \/ RemoveSecret(n)
    <3>1. file'["vapid"] = cache["vapid"]
      BY <1>0, <1>3, <2>1 DEF SetSecret, RemoveSecret, Flush, Map
    <3>2. QED
      BY <3>1 DEF Behind
  <2>2. CASE CommandOpens
    BY <1>1, <2>2 DEF CommandOpens
  <2>3. CASE CommandWrites(n)
    <3>1. command \in Map /\ command # NoCommand
      BY <1>0, <2>3 DEF CommandWrites
    <3>2. file'["vapid"] = command["vapid"]
      BY <1>0, <1>3, <2>3, <3>1 DEF CommandWrites, Map
    <3>3. command # file
      BY <3>2
    <3>4. QED
      BY <3>1, <3>3 DEF Behind
  <2>4. QED
    BY <1>3, <2>1, <2>2, <2>3 DEF MeddleWithSecrets
<1>4. CASE Restart
  BY <1>1, <1>4, Zenon DEF Restart, Reopen
<1>5. ASSUME NEW u \in User, NEW e \in Endpoint, Subscribe(u, e) \/ Unsubscribe(u, e) PROVE FALSE
  BY <1>1, <1>5, Zenon DEF Subscribe, Unsubscribe, secrets
<1>6. ASSUME NEW s \in Sender, Begin(s) \/ Finish(s) \/ \E e \in Endpoint : SendOne(s, e) PROVE FALSE
  BY <1>1, <1>6, Zenon DEF Begin, Finish, SendOne, secrets
<1>7. CASE \/ EnableList \/ Disable \/ ReadList \/ WriteList \/ ReadConfig \/ WriteConfig
           \/ UNCHANGED vars \/ \E e \in Endpoint : Expire(e)
  BY <1>1, <1>7, Zenon DEF EnableList, Disable, ReadList, WriteList, ReadConfig, WriteConfig,
     Expire, vars, secrets
<1>8. QED
  BY <1>2, <1>3, <1>4, <1>5, <1>6, <1>7, Zenon DEF Next

(* The key that the browsers know is neither written over nor lost, unless *)
(* an administrator names it or a process writes a map that is behind.     *)
THEOREM KeyKeptCorrect == Spec => KeyKept
<1>1. TypeOK /\ [Next]_vars =>
        (file["vapid"] # 0 /\ file'["vapid"] # file["vapid"] => Behind \/ MeddleWithSecrets("vapid"))
  BY KeyStep
<1>2. QED
  BY <1>1, TypeInit, TypeNext, PTL DEF Spec, KeyKept

-----------------------------------------------------------------------------
(* The sends.                                                              *)

(* What is known to be expired is gone for good.                           *)
ExpiredInv == \A s \in Sender, e \in Endpoint : report[s][e] = "expired" => e \in gone

(* An attempt that will be repeated has reached nobody.                    *)
RetryInv == \A s \in Sender : had[s] = {} /\ (verdict[s] = "retryable" => Having(s, "sent") = {})

SendInv == ExpiredInv /\ RetryInv /\ DeliveredReached

LEMMA GoneGrows == [Next]_vars => gone \subseteq gone'
<1> SUFFICES ASSUME [Next]_vars PROVE gone \subseteq gone'
  OBVIOUS
<1>1. CASE EnableKey \/ EnableList \/ Disable \/ ReadList \/ WriteList \/ ReadConfig \/ WriteConfig
           \/ Restart \/ UNCHANGED vars
  BY <1>1, Zenon DEF EnableKey, EnableList, Disable, ReadList, WriteList, ReadConfig, WriteConfig,
     Restart, vars
<1>2. ASSUME NEW s \in Sender, Begin(s) \/ Finish(s) \/ \E e \in Endpoint : SendOne(s, e)
      PROVE  gone \subseteq gone'
  BY <1>2, Zenon DEF Begin, Finish, SendOne
<1>3. ASSUME NEW e \in Endpoint, Expire(e) PROVE gone \subseteq gone'
  BY <1>3 DEF Expire
<1>4. ASSUME NEW n \in Secret, MeddleWithSecrets(n) PROVE gone \subseteq gone'
  BY <1>4, Zenon DEF MeddleWithSecrets
<1>5. ASSUME NEW u \in User, NEW e \in Endpoint, Subscribe(u, e) \/ Unsubscribe(u, e)
      PROVE  gone \subseteq gone'
  BY <1>5, Zenon DEF Subscribe, Unsubscribe
<1>6. QED
  BY <1>1, <1>2, <1>3, <1>4, <1>5, Zenon DEF Next

(* The parts of SendInv for one sender.                                    *)
SendInvOf(s) ==
  /\ \A e \in Endpoint : report[s][e] = "expired" => e \in gone
  /\ had[s] = {}
  /\ verdict[s] = "retryable" => Having(s, "sent") = {}
  /\ verdict[s] = "delivered" =>
       /\ Having(s, "sent") # {}
       /\ \A e \in Endpoint : report[s][e] \in {"out", "sent"} \/ e \in gone

LEMMA SendInvParts == SendInv <=> \A s \in Sender : SendInvOf(s)
  BY DEF SendInv, ExpiredInv, RetryInv, DeliveredReached, SendInvOf

(* What the classes of an outcome say.                                     *)
LEMMA ClassMeaning ==
  ASSUME TypeOK, NEW s \in Sender, Having(s, "todo") = {}
  PROVE  /\ ClassifyDelivery(s) = "retryable" => Having(s, "sent") = {}
         /\ ClassifyPruneFailure(s) = "retryable" => Having(s, "sent") = {}
         /\ ClassifyPruneFailure(s) # "delivered"
         /\ ClassifyDelivery(s) = "delivered" =>
              /\ Having(s, "sent") # {}
              /\ \A e \in Endpoint : report[s][e] \in {"out", "sent", "expired"}
<1>1. ClassifyPruneFailure(s) # "delivered"
      /\ (ClassifyPruneFailure(s) = "retryable" => Having(s, "sent") = {})
  BY DEF ClassifyPruneFailure
<1>2. ClassifyDelivery(s) = "retryable" => Having(s, "sent") = {}
  BY DEF ClassifyDelivery
<1>3. ClassifyDelivery(s) = "delivered" =>
        Having(s, "sent") # {} /\ Having(s, "permanent") = {} /\ Transient(s) = {}
  BY DEF ClassifyDelivery
<1>4. ASSUME ClassifyDelivery(s) = "delivered", NEW e \in Endpoint
      PROVE  report[s][e] \in {"out", "sent", "expired"}
  <2>1. report[s][e] \in Answer
    BY DEF TypeOK
  <2>2. report[s][e] \notin {"todo", "permanent", "transient", "lost"}
    BY <1>3, <1>4 DEF Having, Transient
  <2>3. QED
    BY <2>1, <2>2 DEF Answer
<1>5. QED
  BY <1>1, <1>2, <1>3, <1>4

(* A sender's part of the invariant stays while the sender does nothing.   *)
LEMMA SendInvStays ==
  ASSUME NEW s \in Sender, SendInvOf(s), gone \subseteq gone',
         report'[s] = report[s], had'[s] = had[s],
         verdict'[s] = verdict[s] \/ verdict'[s] = "terminal"
  PROVE  SendInvOf(s)'
<1>1. Having(s, "sent")' = Having(s, "sent")
  BY DEF Having
<1>2. QED
  BY <1>1 DEF SendInvOf

LEMMA BeginInv ==
  ASSUME TypeOK, NEW s \in Sender, SendInvOf(s), Begin(s)
  PROVE  SendInvOf(s)'
<1>1. /\ \A e \in Endpoint : report'[s][e] \in {"todo", "out"}
      /\ verdict'[s] \in {"none", "terminal"}
      /\ had'[s] = IF s = "queue" /\ verdict[s] = "retryable" THEN had[s] \cup Having(s, "sent") ELSE {}
  BY DEF Begin, TypeOK
<1>2. had'[s] = {}
  BY <1>1 DEF SendInvOf
<1>3. QED
  BY <1>1, <1>2 DEF SendInvOf

LEMMA FinishInv ==
  ASSUME TypeOK, NEW s \in Sender, SendInvOf(s), Finish(s)
  PROVE  SendInvOf(s)'
<1>1. /\ verdict'[s] = ClassifyDelivery(s) \/ verdict'[s] = ClassifyPruneFailure(s)
      /\ Having(s, "todo") = {}
      /\ report' = report /\ had' = had /\ gone' = gone
  BY DEF Finish, TypeOK
<1>2. Having(s, "sent")' = Having(s, "sent")
  BY <1>1 DEF Having
<1>3. /\ ClassifyDelivery(s) = "retryable" => Having(s, "sent") = {}
      /\ ClassifyPruneFailure(s) = "retryable" => Having(s, "sent") = {}
      /\ ClassifyPruneFailure(s) # "delivered"
      /\ ClassifyDelivery(s) = "delivered" =>
           /\ Having(s, "sent") # {}
           /\ \A e \in Endpoint : report[s][e] \in {"out", "sent", "expired"}
  BY <1>1, ClassMeaning
<1>4. \A e \in Endpoint : report[s][e] = "expired" => e \in gone
  BY DEF SendInvOf
<1>5. verdict'[s] = "retryable" => Having(s, "sent") = {}
  BY <1>1, <1>3
<1>6. verdict'[s] = "delivered" =>
        /\ Having(s, "sent") # {}
        /\ \A e \in Endpoint : report[s][e] \in {"out", "sent"} \/ e \in gone
  BY <1>1, <1>3, <1>4
<1>7. QED
  BY <1>1, <1>2, <1>4, <1>5, <1>6 DEF SendInvOf

LEMMA SendOneInv ==
  ASSUME TypeOK, NEW s \in Sender, NEW e \in Endpoint, SendInvOf(s), SendOne(s, e)
  PROVE  SendInvOf(s)'
<1>1. PICK a \in Answers(e) : report' = [report EXCEPT ![s] = [report[s] EXCEPT ![e] = a]]
  BY DEF SendOne
<1>2. verdict[s] = "none" /\ verdict' = verdict /\ had' = had /\ gone' = gone
  BY Zenon DEF SendOne
<1>3. a = "expired" => e \in gone
  BY DEF Answers
<1>4. \A x \in Endpoint : report'[s][x] = IF x = e THEN a ELSE report[s][x]
  BY <1>1 DEF TypeOK
<1>5. QED
  BY <1>2, <1>3, <1>4 DEF SendInvOf

LEMMA SendNext == TypeOK /\ SendInv /\ [Next]_vars => SendInv'
<1> SUFFICES ASSUME TypeOK, SendInv, [Next]_vars, NEW s \in Sender PROVE SendInvOf(s)'
  <2>1. SendInv' <=> \A s \in Sender : SendInvOf(s)'
    BY DEF SendInv, ExpiredInv, RetryInv, DeliveredReached, SendInvOf
  <2>2. QED
    BY <2>1
<1>0. SendInvOf(s) /\ gone \subseteq gone' /\ SendStep
  BY SendInvParts, GoneGrows, SendSteps
<1>1. CASE UNCHANGED sends
  BY <1>0, <1>1, SendInvStays DEF sends
<1>2. CASE Restart
  <2>1. report' = report /\ had' = had /\ verdict'[s] = "terminal"
    BY <1>2 DEF Restart
  <2>2. QED
    BY <1>0, <2>1, SendInvStays
<1>3. ASSUME NEW x \in Sender, x # s, Begin(x) \/ Finish(x) \/ \E e \in Endpoint : SendOne(x, e)
      PROVE  SendInvOf(s)'
  <2>1. report'[s] = report[s] /\ had'[s] = had[s] /\ verdict'[s] = verdict[s]
    <3>1. CASE Begin(x)
      BY <1>3, <3>1 DEF Begin, TypeOK
    <3>2. CASE Finish(x)
      BY <1>3, <3>2 DEF Finish, TypeOK
    <3>3. ASSUME NEW e \in Endpoint, SendOne(x, e)
          PROVE  report'[s] = report[s] /\ had'[s] = had[s] /\ verdict'[s] = verdict[s]
      BY <1>3, <3>3 DEF SendOne, TypeOK
    <3>4. QED
      BY <1>3, <3>1, <3>2, <3>3
  <2>2. QED
    BY <1>0, <2>1, SendInvStays
<1>4. CASE Begin(s) \/ Finish(s) \/ \E e \in Endpoint : SendOne(s, e)
  BY <1>0, <1>4, BeginInv, FinishInv, SendOneInv
<1>5. QED
  BY <1>0, <1>1, <1>2, <1>3, <1>4 DEF SendStep

LEMMA SendInit == Init => SendInv
  BY DEF Init, SendInv, ExpiredInv, RetryInv, DeliveredReached

(* No device confirms the same message twice, whatever its retries.        *)
THEOREM NoticedOnceCorrect == Spec => []NoticedOnce
<1>1. SendInv => NoticedOnce
  BY DEF SendInv, RetryInv, NoticedOnce
<1>2. QED
  BY <1>1, TypeInit, TypeNext, SendInit, SendNext, PTL DEF Spec

(* Delivered means: confirmed by every device that is still there.         *)
THEOREM DeliveredReachedCorrect == Spec => []DeliveredReached
<1>1. SendInv => DeliveredReached
  BY DEF SendInv
<1>2. QED
  BY <1>1, TypeInit, TypeNext, SendInit, SendNext, PTL DEF Spec

-----------------------------------------------------------------------------
(* The subscriptions.                                                      *)

LEMMA NobodyUndone ==
  ASSUME TypeOK, SendInv, [Next]_vars, NEW e \in Endpoint,
         owner[e] \notin {Absent, Legacy}, owner'[e] # owner[e]
  PROVE  e \in gone \/ Unsubscribe(owner[e], e) \/ WriteConfig
<1>1. OwnerStep
  BY OwnerSteps
<1>2. ASSUME NEW u \in User, NEW x \in Endpoint, Subscribe(u, x) PROVE FALSE
  <2>1. x = e /\ owner'[e] = u
    BY <1>2 DEF Subscribe, TypeOK
  <2>2. owner[e] \in {Legacy, u}
    BY <1>2, <2>1 DEF Subscribe, Admits
  <2>3. QED
    BY <2>1, <2>2
<1>3. ASSUME NEW u \in User, NEW x \in Endpoint, Unsubscribe(u, x) PROVE Unsubscribe(owner[e], e)
  <2>1. x = e
    BY <1>3 DEF Unsubscribe, TypeOK
  <2>2. owner[e] = u
    BY <1>3, <2>1 DEF Unsubscribe
  <2>3. QED
    BY <1>3, <2>1, <2>2
<1>4. ASSUME NEW s \in Sender, owner' = Pruned(s) PROVE e \in gone
  <2>1. report[s][e] = "expired"
    BY <1>4 DEF Pruned
  <2>2. QED
    BY <2>1 DEF SendInv, ExpiredInv
<1>5. QED
  BY <1>1, <1>2, <1>3, <1>4 DEF OwnerStep

LEMMA SwitchedOff ==
  ASSUME TypeOK, [Next]_vars, "push" \in channels, "push" \notin channels'
  PROVE  Disable \/ WriteList
<1>1. channels' # channels
  OBVIOUS
<1>2. ~EnableList
  BY DEF EnableList
<1>3. CASE EnableKey \/ ReadList \/ ReadConfig \/ WriteConfig \/ Restart \/ UNCHANGED vars
  BY <1>1, <1>3, Zenon DEF EnableKey, ReadList, ReadConfig, WriteConfig, Restart, vars, rows
<1>4. ASSUME NEW s \in Sender, Begin(s) \/ Finish(s) \/ \E e \in Endpoint : SendOne(s, e) PROVE FALSE
  BY <1>1, <1>4, Zenon DEF Begin, Finish, SendOne, rows
<1>5. ASSUME NEW e \in Endpoint, Expire(e) PROVE FALSE
  BY <1>1, <1>5, Zenon DEF Expire, rows
<1>6. ASSUME NEW n \in Secret, MeddleWithSecrets(n) PROVE FALSE
  BY <1>1, <1>6, Zenon DEF MeddleWithSecrets, rows
<1>7. ASSUME NEW u \in User, NEW e \in Endpoint, Subscribe(u, e) \/ Unsubscribe(u, e) PROVE FALSE
  BY <1>1, <1>7, Zenon DEF Subscribe, Unsubscribe
<1>8. QED
  BY <1>2, <1>3, <1>4, <1>5, <1>6, <1>7, Zenon DEF Next

(* Nobody undoes what another one did.                                     *)
THEOREM NothingUndoneCorrect == Spec => NothingUndone
<1>1. TypeOK /\ SendInv /\ [Next]_vars =>
        /\ \A e \in Endpoint :
             owner[e] \notin {Absent, Legacy} /\ owner'[e] # owner[e] =>
               e \in gone \/ Unsubscribe(owner[e], e) \/ WriteConfig
        /\ "push" \in channels /\ "push" \notin channels' => Disable \/ WriteList
  BY NobodyUndone, SwitchedOff, Zenon
<1>2. QED
  BY <1>1, TypeInit, TypeNext, SendInit, SendNext, PTL DEF Spec, NothingUndone

-----------------------------------------------------------------------------
(* The quotas.  A user's share counts the legacy subscriptions too, so     *)
(* that taking one over changes nothing.                                   *)

LegacyOf(o) == {e \in Endpoint : o[e] = Legacy}
Held(o, u)  == {e \in Endpoint : o[e] = u}
Share(o, u) == Held(o, u) \cup LegacyOf(o)

Small(o) ==
  /\ Cardinality(Subscribed(o)) <= MaxAll
  /\ Cardinality(LegacyOf(o)) <= MaxLegacy
  /\ \A u \in User : Cardinality(Share(o, u)) <= MaxPerUser + MaxLegacy

QuotaInv == Small(owner) /\ (draft # Absent => Small(draft))

(* Subsets of the endpoints are finite, and smaller ones count no more.    *)
LEMMA Count ==
  ASSUME NEW S \in SUBSET Endpoint
  PROVE  IsFiniteSet(S) /\ Cardinality(S) \in Nat
  BY FS_Subset, FS_CardinalityType, PushAssumption

LEMMA CountFewer ==
  ASSUME NEW S \in SUBSET Endpoint, NEW T \in SUBSET S, NEW n \in Nat, Cardinality(S) <= n
  PROVE  Cardinality(T) <= n
<1>1. IsFiniteSet(S) /\ Cardinality(S) \in Nat
  BY Count
<1>2. Cardinality(T) <= Cardinality(S) /\ Cardinality(T) \in Nat
  BY <1>1, FS_Subset, FS_CardinalityType
<1>3. QED
  BY <1>1, <1>2

LEMMA CountOneMore ==
  ASSUME NEW S \in SUBSET Endpoint, NEW e \in Endpoint, NEW n \in Nat, Cardinality(S) < n
  PROVE  Cardinality(S \cup {e}) <= n
<1>1. IsFiniteSet(S) /\ Cardinality(S) \in Nat
  BY Count
<1>2. Cardinality(S \cup {e}) = Cardinality(S) \/ Cardinality(S \cup {e}) = Cardinality(S) + 1
  BY <1>1, FS_AddElement
<1>3. QED
  BY <1>1, <1>2

LEMMA CountBoth ==
  ASSUME NEW S \in SUBSET Endpoint, NEW T \in SUBSET Endpoint, NEW n \in Nat, NEW k \in Nat,
         Cardinality(S) < n, Cardinality(T) <= k
  PROVE  Cardinality(S \cup T) < n + k
<1>1. /\ IsFiniteSet(S) /\ Cardinality(S) \in Nat
      /\ IsFiniteSet(T) /\ Cardinality(T) \in Nat
      /\ Cardinality(S \cap T) \in Nat
  BY Count
<1>2. Cardinality(S \cup T) = Cardinality(S) + Cardinality(T) - Cardinality(S \cap T)
  BY <1>1, FS_Union
<1>3. QED
  BY <1>1, <1>2

LEMMA Bounds ==
  /\ MaxAll \in Nat /\ MaxPerUser \in Nat /\ MaxLegacy \in Nat /\ MaxPerUser + MaxLegacy \in Nat
  /\ MaxLegacy <= MaxAll
  BY PushAssumption

(* A configuration in which nothing is new is small if the old one was.    *)
LEMMA SmallStays ==
  ASSUME NEW o, NEW p, Small(o), Subscribed(p) \subseteq Subscribed(o), LegacyOf(p) \subseteq LegacyOf(o),
         \A u \in User : Share(p, u) \subseteq Share(o, u)
  PROVE  Small(p)
<1>1. Subscribed(o) \subseteq Endpoint /\ LegacyOf(o) \subseteq Endpoint
  BY DEF Subscribed, LegacyOf
<1>2. Cardinality(Subscribed(p)) <= MaxAll /\ Cardinality(LegacyOf(p)) <= MaxLegacy
  BY <1>1, CountFewer, Bounds DEF Small
<1>3. ASSUME NEW u \in User PROVE Cardinality(Share(p, u)) <= MaxPerUser + MaxLegacy
  <2>1. Share(o, u) \subseteq Endpoint
    BY DEF Share, Held, LegacyOf
  <2>2. QED
    BY <2>1, CountFewer, Bounds DEF Small
<1>4. QED
  BY <1>2, <1>3 DEF Small

LEMMA SmallWithout ==
  ASSUME NEW o, NEW p, Small(o), \A e \in Endpoint : p[e] = o[e] \/ p[e] = Absent
  PROVE  Small(p)
<1>1. Subscribed(p) \subseteq Subscribed(o)
  BY DEF Subscribed
<1>2. LegacyOf(p) \subseteq LegacyOf(o) /\ \A u \in User : Held(p, u) \subseteq Held(o, u)
  BY PushAssumption DEF LegacyOf, Held
<1>3. \A u \in User : Share(p, u) \subseteq Share(o, u)
  BY <1>2 DEF Share
<1>4. QED
  BY <1>1, <1>2, <1>3, SmallStays

LEMMA SmallSubscribe ==
  ASSUME TypeOK, Small(owner), NEW u \in User, NEW e \in Endpoint, Subscribe(u, e)
  PROVE  Small(owner')
<1>0. /\ owner' = [owner EXCEPT ![e] = u] /\ Admits(u, e)
      /\ u # Absent /\ u # Legacy
      /\ \A x \in Endpoint : owner'[x] = IF x = e THEN u ELSE owner[x]
  BY PushAssumption DEF Subscribe, TypeOK
<1>1. CASE owner[e] \in {Legacy, u}
  <2>1. Subscribed(owner') \subseteq Subscribed(owner)
    BY <1>0, <1>1, PushAssumption DEF Subscribed
  <2>2. LegacyOf(owner') \subseteq LegacyOf(owner)
    BY <1>0 DEF LegacyOf
  <2>3. ASSUME NEW x \in User PROVE Share(owner', x) \subseteq Share(owner, x)
    BY <1>0, <1>1 DEF Share, Held, LegacyOf
  <2>4. QED
    BY <2>1, <2>2, <2>3, SmallStays
<1>2. CASE owner[e] = Absent
  <2>1. Cardinality(OwnedBy(u)) < MaxPerUser /\ Cardinality(Subscribed(owner)) < MaxAll
    BY <1>0, <1>2 DEF Admits
  <2>2. Cardinality(Subscribed(owner')) <= MaxAll
    <3>1. Subscribed(owner') = Subscribed(owner) \cup {e}
      BY <1>0 DEF Subscribed
    <3>2. Subscribed(owner) \in SUBSET Endpoint
      BY DEF Subscribed
    <3>3. QED
      BY <2>1, <3>1, <3>2, CountOneMore, Bounds
  <2>3. LegacyOf(owner') = LegacyOf(owner)
    BY <1>0, <1>2, PushAssumption DEF LegacyOf
  <2>4. ASSUME NEW x \in User PROVE Cardinality(Share(owner', x)) <= MaxPerUser + MaxLegacy
    <3>1. CASE x # u
      <4>1. Share(owner', x) = Share(owner, x)
        BY <1>0, <1>2, <2>3, <3>1, PushAssumption DEF Share, Held
      <4>2. QED
        BY <4>1 DEF Small
    <3>2. CASE x = u
      <4>1. OwnedBy(u) \in SUBSET Endpoint /\ LegacyOf(owner) \in SUBSET Endpoint
        BY DEF OwnedBy, LegacyOf
      <4>2. Cardinality(OwnedBy(u) \cup LegacyOf(owner)) < MaxPerUser + MaxLegacy
        BY <2>1, <4>1, CountBoth, Bounds DEF Small
      <4>3. Cardinality(OwnedBy(u) \cup LegacyOf(owner) \cup {e}) <= MaxPerUser + MaxLegacy
        <5>1. OwnedBy(u) \cup LegacyOf(owner) \in SUBSET Endpoint
          BY <4>1
        <5>2. QED
          BY <4>2, <5>1, CountOneMore, Bounds
      <4>4. Share(owner', u) = OwnedBy(u) \cup LegacyOf(owner) \cup {e}
        BY <1>0, <2>3 DEF Share, Held, OwnedBy
      <4>5. QED
        BY <3>2, <4>3, <4>4
    <3>3. QED
      BY <3>1, <3>2
  <2>5. Cardinality(LegacyOf(owner')) <= MaxLegacy
    BY <2>3 DEF Small
  <2>6. QED
    BY <2>2, <2>4, <2>5 DEF Small
<1>3. QED
  BY <1>0, <1>1, <1>2 DEF Admits

LEMMA QuotaInit == Init => QuotaInv
<1> SUFFICES ASSUME Init PROVE Small(owner) /\ draft = Absent
  BY DEF QuotaInv
<1>1. /\ owner \in [Endpoint -> {Absent, Legacy}]
      /\ Cardinality(Subscribed(owner)) <= MaxLegacy
      /\ draft = Absent
  BY Zenon DEF Init
<1>2. Subscribed(owner) \in SUBSET Endpoint
  BY DEF Subscribed
<1>3. LegacyOf(owner) \subseteq Subscribed(owner)
  BY PushAssumption DEF LegacyOf, Subscribed
<1>4. ASSUME NEW u \in User PROVE Share(owner, u) \subseteq Subscribed(owner)
  BY <1>1, <1>3, PushAssumption DEF Share, Held, Subscribed
<1>5. Cardinality(LegacyOf(owner)) <= MaxLegacy
      /\ \A u \in User : Cardinality(Share(owner, u)) <= MaxLegacy
  BY <1>1, <1>2, <1>3, <1>4, CountFewer, Bounds
<1>6. Cardinality(Subscribed(owner)) <= MaxAll
  <2>1. Cardinality(Subscribed(owner)) \in Nat
    BY <1>2, Count
  <2>2. QED
    BY <1>1, <2>1, Bounds
<1>7. ASSUME NEW u \in User PROVE Cardinality(Share(owner, u)) <= MaxPerUser + MaxLegacy
  <2>1. Share(owner, u) \in SUBSET Endpoint
    BY DEF Share, Held, LegacyOf
  <2>2. Cardinality(Share(owner, u)) \in Nat
    BY <2>1, Count
  <2>3. QED
    BY <1>5, <2>2, Bounds
<1>8. QED
  BY <1>1, <1>5, <1>6, <1>7 DEF Small

LEMMA QuotaNext == TypeOK /\ QuotaInv /\ [Next]_vars => QuotaInv'
<1> SUFFICES ASSUME TypeOK, QuotaInv, [Next]_vars PROVE QuotaInv'
  OBVIOUS
<1>1. Small(owner')
  <2>1. OwnerStep /\ Small(owner)
    BY OwnerSteps DEF QuotaInv
  <2>2. ASSUME NEW u \in User, NEW e \in Endpoint, Subscribe(u, e) PROVE Small(owner')
    BY <2>1, <2>2, SmallSubscribe
  <2>3. ASSUME NEW u \in User, NEW e \in Endpoint, Unsubscribe(u, e) PROVE Small(owner')
    <3>1. \A x \in Endpoint : owner'[x] = owner[x] \/ owner'[x] = Absent
      BY <2>3 DEF Unsubscribe, TypeOK
    <3>2. QED
      BY <2>1, <3>1, SmallWithout
  <2>4. ASSUME NEW s \in Sender, owner' = Pruned(s) PROVE Small(owner')
    <3>1. \A x \in Endpoint : owner'[x] = owner[x] \/ owner'[x] = Absent
      BY <2>4 DEF Pruned
    <3>2. QED
      BY <2>1, <3>1, SmallWithout
  <2>5. CASE WriteConfig
    BY <2>5 DEF WriteConfig, QuotaInv
  <2>6. QED
    BY <2>1, <2>2, <2>3, <2>4, <2>5 DEF OwnerStep
<1>2. draft' = draft \/ draft' = owner \/ draft' = Absent
  <2>1. CASE EnableKey \/ EnableList \/ Disable \/ ReadList \/ WriteList \/ ReadConfig \/ WriteConfig
             \/ Restart \/ UNCHANGED vars
    BY <2>1, Zenon DEF EnableKey, EnableList, Disable, ReadList, WriteList, ReadConfig, WriteConfig,
       Restart, vars, client
  <2>2. ASSUME NEW s \in Sender, Begin(s) \/ Finish(s) \/ \E e \in Endpoint : SendOne(s, e)
        PROVE  draft' = draft
    BY <2>2, Zenon DEF Begin, Finish, SendOne, client
  <2>3. ASSUME NEW e \in Endpoint, Expire(e) PROVE draft' = draft
    BY <2>3, Zenon DEF Expire, client
  <2>4. ASSUME NEW n \in Secret, MeddleWithSecrets(n) PROVE draft' = draft
    BY <2>4, Zenon DEF MeddleWithSecrets, client
  <2>5. ASSUME NEW u \in User, NEW e \in Endpoint, Subscribe(u, e) \/ Unsubscribe(u, e)
        PROVE  draft' = draft
    BY <2>5, Zenon DEF Subscribe, Unsubscribe, client
  <2>6. QED
    BY <2>1, <2>2, <2>3, <2>4, <2>5, Zenon DEF Next
<1>3. draft' # Absent => Small(draft')
  BY <1>2 DEF QuotaInv
<1>4. Small(owner)' /\ (draft' # Absent => Small(draft)')
  BY <1>1, <1>3 DEF Small, Subscribed, LegacyOf, Share, Held
<1>5. QED
  BY <1>4 DEF QuotaInv

(* The quotas hold whatever is taken over, pruned or written back.         *)
THEOREM QuotasKeptCorrect == Spec => []QuotasKept
<1>1. QuotaInv => QuotasKept
  <2> SUFFICES ASSUME QuotaInv PROVE QuotasKept
    OBVIOUS
  <2>1. ASSUME NEW u \in User PROVE Cardinality(OwnedBy(u)) <= MaxPerUser + MaxLegacy
    <3>1. OwnedBy(u) \subseteq Share(owner, u) /\ Share(owner, u) \subseteq Endpoint
      BY DEF OwnedBy, Share, Held, LegacyOf
    <3>2. Cardinality(Share(owner, u)) <= MaxPerUser + MaxLegacy
      BY DEF QuotaInv, Small
    <3>3. QED
      BY <3>1, <3>2, CountFewer, Bounds
  <2>2. QED
    BY <2>1 DEF QuotasKept, QuotaInv, Small
<1>2. QED
  BY <1>1, TypeInit, TypeNext, QuotaInit, QuotaNext, PTL DEF Spec
=============================================================================
