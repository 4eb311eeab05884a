----------------------------- MODULE PushChannel -----------------------------
(***************************************************************************)
(* Web push (src/src/api/push.rs, src/src/channels/push.rs, the push       *)
(* branch of src/src/channels/mod.rs, the settings handlers that write the *)
(* same rows).                                                             *)
(*                                                                         *)
(* Two settings rows are shared by everybody: the list of channels, and    *)
(* the configuration with the subscriptions.  Subscribe, unsubscribe and   *)
(* prune read and write the latter within one database call; a send works  *)
(* on the configuration it was given at its start and awaits one answer    *)
(* per subscription; and administrators' clients write back lists and      *)
(* configurations that they read some time ago.                            *)
(***************************************************************************)
EXTENDS Secrets, FiniteSets

CONSTANTS
  User,
  Endpoint,
  Legacy,       \* owner of subscriptions from before owners were kept: ""
  Absent,       \* there is no such subscription; nothing has been read
  Sender,       \* the queue, and tests of the channel by administrators
  MaxPerUser,   \* MAX_SUBSCRIPTIONS_PER_USER, 8
  MaxAll,       \* MAX_SUBSCRIPTIONS, 64
  MaxLegacy,    \* bound on the subscriptions without owner at the start
  MaxRequests,  \* bound on the activations under way at a time
  MaxMeddling   \* bound on restarts, commands, secrets set by hand and stale reads

ASSUME PushAssumption ==
  /\ "vapid" \in Secret
  /\ Legacy \notin User /\ Absent \notin User \cup {Legacy}
  /\ IsFiniteSet(Endpoint)
  /\ MaxPerUser \in Nat /\ MaxAll \in Nat /\ MaxLegacy \in 0..MaxAll
  /\ MaxRequests \in Nat /\ MaxMeddling \in Nat

Channel == {"push", "smtp"}

VARIABLES
  channels,  \* settings "channels"
  owner,     \* settings "channel.push.config": the owner by endpoint
  enabling,  \* activations between ensure_keypair and set_push_enabled
  seen,      \* the list of channels an administrator's client has read
  draft,     \* the configuration an administrator's client has read
  gone,      \* endpoints the push service knows no more
  report,    \* report[s][e]: what the send under way knows of e
  verdict,   \* verdict[s]: how the last send ended; "none" while it runs
  had,       \* had[s]: endpoints that took this message in an earlier attempt
  meddled

rows   == <<channels, owner>>
client == <<enabling, seen, draft>>
sends  == <<report, verdict, had>>
vars   == <<secrets, rows, client, gone, sends, meddled>>

Subscribed(o) == {e \in Endpoint : o[e] # Absent}
OwnedBy(u)    == {e \in Endpoint : owner[e] = u}

Meddle == meddled < MaxMeddling /\ meddled' = meddled + 1

-----------------------------------------------------------------------------
(* Mutant: one more than the limit.                                        *)
AdmitsOneMore(u, e) ==
  IF owner[e] # Absent THEN owner[e] \in {Legacy, u}
  ELSE Cardinality(OwnedBy(u)) < MaxPerUser /\ Cardinality(Subscribed(owner)) <= MaxAll

(* subscription_admission: replacing one's own or a legacy one costs       *)
(* nothing, so that a user can come to own more than MaxPerUser.           *)
Admits(u, e) ==
  IF owner[e] # Absent THEN owner[e] \in {Legacy, u}
  ELSE Cardinality(OwnedBy(u)) < MaxPerUser /\ Cardinality(Subscribed(owner)) < MaxAll

(* Refused requests (not enabled, somebody else's, full) write nothing.    *)
Subscribe(u, e) ==
  /\ "push" \in channels
  /\ Admits(u, e)
  /\ owner' = [owner EXCEPT ![e] = u]
  /\ UNCHANGED <<secrets, channels, client, gone, sends, meddled>>

Unsubscribe(u, e) ==
  /\ owner[e] \in {Legacy, u}
  /\ owner' = [owner EXCEPT ![e] = Absent]
  /\ UNCHANGED <<secrets, channels, client, gone, sends, meddled>>

-----------------------------------------------------------------------------
(* enable: the key first, then the list, in two calls.                     *)
EnableKey ==
  /\ enabling < MaxRequests
  /\ Ensure("vapid")
  /\ enabling' = enabling + 1
  /\ UNCHANGED <<rows, seen, draft, gone, sends, meddled>>

EnableList ==
  /\ enabling > 0
  /\ enabling' = enabling - 1
  /\ channels' = channels \cup {"push"}
  /\ UNCHANGED <<secrets, owner, seen, draft, gone, sends, meddled>>

Disable ==
  /\ channels' = channels \ {"push"}
  /\ UNCHANGED <<secrets, owner, client, gone, sends, meddled>>

(* The settings page reads the list, and later writes all of it with the   *)
(* channel it was asked to switch (settings update, setChannelActive).     *)
ReadList ==
  /\ Meddle
  /\ seen' = channels
  /\ UNCHANGED <<secrets, rows, enabling, draft, gone, sends>>

WriteList ==
  /\ seen # Absent
  /\ channels' \in {seen \cup {"smtp"}, seen \ {"smtp"}}
  /\ seen' = Absent
  /\ UNCHANGED <<secrets, owner, enabling, draft, gone, sends, meddled>>

(* get_channel and set_channel with what was read.                         *)
ReadConfig ==
  /\ Meddle
  /\ draft' = owner
  /\ UNCHANGED <<secrets, rows, enabling, seen, gone, sends>>

WriteConfig ==
  /\ draft # Absent
  /\ owner' = draft
  /\ draft' = Absent
  /\ UNCHANGED <<secrets, channels, enabling, seen, gone, sends, meddled>>

-----------------------------------------------------------------------------
Having(s, answer) == {e \in Endpoint : report[s][e] = answer}

(* A confirmation that is lost counts as a transient failure.              *)
Transient(s) == Having(s, "transient") \cup Having(s, "lost")

(* Mutant: the failed ones are tried again although others have it.        *)
ClassifyDeliveryForAll(s) ==
  IF Having(s, "permanent") # {} THEN "terminal"
  ELSE IF Transient(s) # {} THEN "retryable"
  ELSE IF Having(s, "sent") # {} THEN "delivered"
  ELSE IF Having(s, "expired") # {} THEN "terminal"
  ELSE "retryable"

(* Mutant: one success is enough.                                          *)
ClassifyDeliveryByOne(s) ==
  IF Having(s, "sent") # {} THEN "delivered"
  ELSE IF Having(s, "permanent") \cup Having(s, "expired") # {} THEN "terminal"
  ELSE "retryable"

ClassifyDelivery(s) ==
  IF Having(s, "permanent") # {} THEN "terminal"
  ELSE IF Transient(s) # {} THEN IF Having(s, "sent") = {} THEN "retryable" ELSE "terminal"
  ELSE IF Having(s, "sent") # {} THEN "delivered"
  ELSE IF Having(s, "expired") # {} THEN "terminal"
  ELSE "retryable"

ClassifyPruneFailure(s) ==
  IF Having(s, "sent") # {} \/ Having(s, "permanent") # {} THEN "terminal" ELSE "retryable"

(* A send starts with the configuration of this moment; without            *)
(* subscriptions it is over at once.  The queue goes on with the same      *)
(* message if the last attempt is to be repeated.                          *)
Begin(s) ==
  /\ verdict[s] # "none"
  /\ report' = [report EXCEPT ![s] = [e \in Endpoint |->
                  IF owner[e] # Absent THEN "todo" ELSE "out"]]
  /\ verdict' = [verdict EXCEPT ![s] = IF Subscribed(owner) = {} THEN "terminal" ELSE "none"]
  /\ had' = [had EXCEPT ![s] = IF s = "queue" /\ verdict[s] = "retryable"
                               THEN had[s] \cup Having(s, "sent") ELSE {}]
  /\ UNCHANGED <<secrets, rows, client, gone, meddled>>

(* send_one: what can come of a request.  Without a key nothing is sent.   *)
Answers(e) ==
  {"transient", "permanent"} \cup
    IF cache["vapid"] = 0 THEN {} ELSE IF e \in gone THEN {"expired"} ELSE {"sent", "lost"}

SendOne(s, e) ==
  /\ verdict[s] = "none" /\ report[s][e] = "todo"
  /\ \E a \in Answers(e) : report' = [report EXCEPT ![s][e] = a]
  /\ UNCHANGED <<secrets, rows, client, gone, verdict, had, meddled>>

(* Mutant: the configuration of the send's start is written back.          *)
PrunedSnapshot(s) ==
  [e \in Endpoint |-> IF report[s][e] \in {"out", "expired"} THEN Absent ELSE owner[e]]

(* prune_expired: the configuration of now without the expired endpoints.  *)
Pruned(s) == [e \in Endpoint |-> IF report[s][e] = "expired" THEN Absent ELSE owner[e]]

Finish(s) ==
  /\ verdict[s] = "none" /\ Having(s, "todo") = {}
  /\ \/ owner' = Pruned(s) /\ verdict' = [verdict EXCEPT ![s] = ClassifyDelivery(s)]
     \/ /\ Having(s, "expired") # {} /\ UNCHANGED owner
        /\ verdict' = [verdict EXCEPT ![s] = ClassifyPruneFailure(s)]
  /\ UNCHANGED <<secrets, channels, client, gone, report, had, meddled>>

-----------------------------------------------------------------------------
(* The browser or the push service gives the endpoint up; it never comes   *)
(* back.                                                                   *)
Expire(e) ==
  /\ e \notin gone
  /\ gone' = gone \cup {e}
  /\ UNCHANGED <<secrets, rows, client, sends, meddled>>

(* Secrets set and removed by name, here and by the maintenance command.   *)
MeddleWithSecrets(n) ==
  /\ \/ Meddle /\ (SetSecret(n) \/ RemoveSecret(n) \/ CommandOpens)
     \/ CommandWrites(n) /\ UNCHANGED meddled
  /\ UNCHANGED <<rows, client, gone, sends>>

(* Sends and activations under way are cut off; what the queue repeats     *)
(* after a restart is the matter of DeliveryQueue.                         *)
Restart ==
  /\ Meddle
  /\ Reopen
  /\ enabling' = 0
  /\ verdict' = [s \in Sender |-> "terminal"]
  /\ UNCHANGED <<rows, seen, draft, gone, report, had>>

Init ==
  /\ SecretsInit
  /\ channels = {}
  /\ owner \in [Endpoint -> {Absent, Legacy}] /\ Cardinality(Subscribed(owner)) <= MaxLegacy
  /\ enabling = 0 /\ seen = Absent /\ draft = Absent
  /\ gone = {}
  /\ report = [s \in Sender |-> [e \in Endpoint |-> "out"]]
  /\ verdict = [s \in Sender |-> "terminal"]
  /\ had = [s \in Sender |-> {}]
  /\ meddled = 0

Next ==
  \/ \E u \in User, e \in Endpoint : Subscribe(u, e) \/ Unsubscribe(u, e)
  \/ EnableKey \/ EnableList \/ Disable
  \/ ReadList \/ WriteList \/ ReadConfig \/ WriteConfig
  \/ \E s \in Sender : Begin(s) \/ Finish(s) \/ \E e \in Endpoint : SendOne(s, e)
  \/ \E e \in Endpoint : Expire(e)
  \/ \E n \in Secret : MeddleWithSecrets(n)
  \/ Restart

Spec == Init /\ [][Next]_vars

-----------------------------------------------------------------------------
Answer == {"out", "todo", "sent", "lost", "transient", "permanent", "expired"}

TypeOK ==
  /\ SecretsTypeOK
  /\ channels \subseteq Channel
  /\ owner \in [Endpoint -> User \cup {Legacy, Absent}]
  /\ enabling \in 0..MaxRequests
  /\ seen \in (SUBSET Channel) \cup {Absent}
  /\ draft \in [Endpoint -> User \cup {Legacy, Absent}] \cup {Absent}
  /\ gone \subseteq Endpoint
  /\ report \in [Sender -> [Endpoint -> Answer]]
  /\ verdict \in [Sender -> {"none", "delivered", "terminal", "retryable"}]
  /\ had \in [Sender -> SUBSET Endpoint]
  /\ meddled \in 0..MaxMeddling

(* The quotas hold however requests, prunes and configurations that are    *)
(* written back take turns, but for what a user has taken over: a legacy   *)
(* subscription is free, so that he can own more than MaxPerUser.          *)
QuotasKept ==
  /\ Cardinality(Subscribed(owner)) <= MaxAll
  /\ \A u \in User : Cardinality(OwnedBy(u)) <= MaxPerUser + MaxLegacy

(* The key that the browsers have subscribed with is never written over or *)
(* lost, by any number of activations at once and by restarts in between   *)
(* (api/push.rs:8-10), unless an administrator names it or one of two      *)
(* processes writes a map that has fallen behind the file.                 *)
KeyKept ==
  [][file["vapid"] # 0 /\ file'["vapid"] # file["vapid"] =>
       Behind \/ MeddleWithSecrets("vapid")]_vars

(* Nobody undoes what another one did.  A subscription goes, or passes to  *)
(* another owner, only when its owner withdraws it, when the push service  *)
(* has given the endpoint up, when it is legacy and free for all, or when  *)
(* a client writes a whole configuration; push is switched off only by     *)
(* hand or by a client that writes a whole list.                           *)
NothingUndone ==
  [][/\ \A e \in Endpoint :
          owner[e] \notin {Absent, Legacy} /\ owner'[e] # owner[e] =>
            e \in gone \/ Unsubscribe(owner[e], e) \/ WriteConfig
     /\ "push" \in channels /\ "push" \notin channels' => Disable \/ WriteList]_vars

(* However its answers come and whatever is pruned, subscribed or expires  *)
(* between the attempts: no device confirms the same message twice.        *)
NoticedOnce == \A s \in Sender : \A e \in had[s] : report[s][e] # "sent"

(* A message counts as delivered only if every device of the configuration *)
(* it was sent to has confirmed it or is gone, and at least one has.       *)
DeliveredReached ==
  \A s \in Sender : verdict[s] = "delivered" =>
    /\ Having(s, "sent") # {}
    /\ \A e \in Endpoint : report[s][e] \in {"out", "sent"} \/ e \in gone
=============================================================================
