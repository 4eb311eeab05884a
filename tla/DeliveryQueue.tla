---------------------------- MODULE DeliveryQueue ---------------------------
(***************************************************************************)
(* The delivery queue (src/src/queue.rs): the task that takes pending rows *)
(* of the deliveries table, hands them to their channel and writes the     *)
(* outcome back.  The table is shared: the monitor and the SMS engine      *)
(* insert rows, retention deletes settled ones.                            *)
(*                                                                         *)
(* Handing a message over and recording the outcome are two steps with an  *)
(* await between them.  A failed database call or a crash in that gap      *)
(* leaves the row pending although the channel may have the message; both  *)
(* look the same from the table, since the task keeps nothing else.        *)
(***************************************************************************)
EXTENDS Integers, FiniteSets

CONSTANTS
  Delivery,    \* the ids of the rows that may ever be inserted
  Channel,
  ChannelOf,   \* ChannelOf[d]: deliveries.channel
  None,        \* no delivery (no id)
  Batch,       \* BATCH: rows handled per round
  GiveUp,      \* GIVEUP_MS, in ticks
  Flaky,       \* the channels that may get into trouble
  Delay,       \* next_delay_ms in ticks, for 1, 2, 3 and 4 or more attempts
  Instant,     \* the values of created_at, as ranks
  Lag,         \* bound: how old created_at can be when the row is inserted
  MaxFaults    \* bound on interruptions and lost acknowledgements

ASSUME QueueAssumption ==
  /\ ChannelOf \in [Delivery -> Channel]
  /\ Flaky \subseteq Channel
  /\ Delivery \subseteq Nat /\ None \notin Delivery
  /\ Batch \in Nat \ {0}
  /\ GiveUp \in Nat \ {0}
  /\ Delay \in [1..4 -> Nat \ {0}]
  /\ Instant \subseteq Nat
  /\ Lag \in 0..GiveUp
  /\ MaxFaults \in Nat

VARIABLES
  (* The deliveries table.                                                 *)
  status,    \* "absent", "pending", "sent", "failed" or "purged"
  attempts,
  due,       \* ticks until next_attempt
  age,       \* ticks since created_at, saturated at GiveUp
  born,      \* the rank of created_at among the rows that are pending, else 0
  (* The queue task.                                                       *)
  batch,     \* the rows of this round that are still to be handled
  current,   \* the row whose outcome is being awaited or recorded
  outcome,   \* what the channel reported: SendOutcome
  (* The channels.                                                         *)
  working,   \* the channels that deliver what they are handed
  (* History and bounds.                                                   *)
  handed,    \* how often the message was handed to its channel
  lost,      \* how many of those times the outcome was forgotten
  accepted,  \* how often the channel has taken the message
  slips,     \* how many of those times nobody recorded it
  refused,   \* the deliveries a channel has turned down for good
  late,      \* the rows inserted after newer ones were fetched for the round
  faults

table   == <<status, attempts, due, age, born>>
task    == <<batch, current, outcome>>
counts  == <<handed, lost, accepted, slips, refused>>
history == <<counts, late, faults>>
vars    == <<table, task, working, history>>

NextDelay(n) == Delay[IF n <= 1 THEN 1 ELSE IF n >= 4 THEN 4 ELSE n]

(* Mutant: rows past the time to give up are not looked at any more.       *)
ReadyInTime ==
  {d \in Delivery : status[d] = "pending" /\ due[d] = 0 /\ age[d] < GiveUp}

Ready == {d \in Delivery : status[d] = "pending" /\ due[d] = 0}

Stored(s) == s \in {"pending", "sent", "failed"}

Settled(s) == s \in {"sent", "failed", "purged"}

-----------------------------------------------------------------------------
Init ==
  /\ status = [d \in Delivery |-> "absent"]
  /\ attempts = [d \in Delivery |-> 0]
  /\ due = [d \in Delivery |-> 0]
  /\ age = [d \in Delivery |-> 0]
  /\ born = [d \in Delivery |-> 0]
  /\ batch = {} /\ current = None /\ outcome = "none"
  /\ working = Channel
  /\ handed = [d \in Delivery |-> 0]
  /\ lost = [d \in Delivery |-> 0]
  /\ accepted = [d \in Delivery |-> 0]
  /\ slips = [d \in Delivery |-> 0]
  /\ refused = {} /\ late = {}
  /\ faults = 0

(* Rows created at instant i are n ticks old: that agrees with the rows    *)
(* that are pending.                                                       *)
Created(i, n) ==
  \A e \in Delivery : status[e] = "pending" =>
    /\ born[e] <= i => n <= age[e]
    /\ born[e] >= i => n >= age[e]

(* An alarm: one row per channel, all with the same created_at.  The       *)
(* monitor and the SMS engine each take that instant before the awaits     *)
(* that lead to the insertion, so rows may come in with an older one than  *)
(* rows that are there, or with the same one.  Ids are handed out in order.*)
Enqueue(new) ==
  /\ new # {} /\ \A d \in new : status[d] = "absent"
  /\ \A d, e \in new : ChannelOf[d] = ChannelOf[e] => d = e
  /\ \A d \in new, e \in Delivery \ new : status[e] = "absent" => d < e
  /\ status' = [d \in Delivery |-> IF d \in new THEN "pending" ELSE status[d]]
  /\ \E i \in Instant, n \in 0..Lag :
       /\ Created(i, n)
       /\ born' = [d \in Delivery |-> IF d \in new THEN i ELSE born[d]]
       /\ age' = [d \in Delivery |-> IF d \in new THEN n ELSE age[d]]
       /\ late' = IF \E d \in batch : i < born[d] THEN late \cup new ELSE late
  /\ UNCHANGED <<attempts, due, task, working, counts, faults>>

(* fetch_pending: the oldest rows that are due, at most Batch of them; it  *)
(* says nothing of the order of rows with the same created_at.             *)
Fetch ==
  /\ batch = {} /\ current = None /\ Ready # {}
  /\ batch' \in (SUBSET Ready) \ {{}}
  /\ Cardinality(batch') <= Batch
  /\ batch' = Ready \/ Cardinality(batch') = Batch
  /\ \A d \in batch', e \in Ready \ batch' : born[d] <= born[e]
  /\ UNCHANGED <<table, current, outcome, working, history>>

(* Mutant: the round in no particular order.                               *)
AnyOfRound(d) == d \in batch

Oldest(d) == d \in batch /\ \A e \in batch : born[d] <= born[e]

(* What channels::send may report: SendOutcome.                            *)
Outcomes(c) == IF c \in working THEN {"delivered"} ELSE {"retryable", "terminal"}

(* channels::send for the next row of the round.                           *)
Send(d) ==
  /\ current = None /\ Oldest(d)
  /\ batch' = batch \ {d}
  /\ current' = d
  /\ outcome' \in Outcomes(ChannelOf[d])
  /\ handed' = [handed EXCEPT ![d] = @ + 1]
  /\ accepted' = IF outcome' = "delivered" THEN [accepted EXCEPT ![d] = @ + 1] ELSE accepted
  /\ refused' = IF outcome' = "terminal" THEN refused \cup {d} ELSE refused
  /\ UNCHANGED <<table, working, lost, slips, late, faults>>

(* The channel takes the message, but the confirmation is lost on the way. *)
SendUnconfirmed(d) ==
  /\ faults < MaxFaults /\ faults' = faults + 1
  /\ current = None /\ Oldest(d) /\ ChannelOf[d] \in working
  /\ batch' = batch \ {d}
  /\ current' = d
  /\ outcome' = "retryable"
  /\ handed' = [handed EXCEPT ![d] = @ + 1]
  /\ accepted' = [accepted EXCEPT ![d] = @ + 1]
  /\ slips' = [slips EXCEPT ![d] = @ + 1]
  /\ UNCHANGED <<table, working, lost, refused, late>>

Done ==
  /\ current' = None /\ outcome' = "none" /\ UNCHANGED batch
  /\ late' = IF batch = {} THEN {} ELSE late

(* Mutant: the outcome is logged but not saved.                            *)
MarkSentUnsaved ==
  /\ current # None /\ outcome = "delivered"
  /\ Done
  /\ UNCHANGED <<table, working, counts, faults>>

MarkSent ==
  /\ current # None /\ outcome = "delivered"
  /\ status' = [status EXCEPT ![current] = "sent"]
  /\ born' = [born EXCEPT ![current] = 0]
  /\ Done
  /\ UNCHANGED <<attempts, due, age, working, counts, faults>>

(* Mutant: the first failure is final.                                     *)
MarkFailedAtOnce ==
  /\ current # None /\ outcome \in {"terminal", "retryable"}
  /\ status' = [status EXCEPT ![current] = "failed"]
  /\ attempts' = [attempts EXCEPT ![current] = @ + 1]
  /\ born' = [born EXCEPT ![current] = 0]
  /\ Done
  /\ UNCHANGED <<due, age, working, counts, faults>>

(* A terminal outcome, or one more failure after the time to give up.      *)
MarkFailed ==
  /\ current # None
  /\ outcome = "terminal" \/ (outcome = "retryable" /\ age[current] >= GiveUp)
  /\ status' = [status EXCEPT ![current] = "failed"]
  /\ attempts' = [attempts EXCEPT ![current] = @ + 1]
  /\ born' = [born EXCEPT ![current] = 0]
  /\ Done
  /\ UNCHANGED <<due, age, working, counts, faults>>

(* Mutant: the attempt is counted, the next one is due at once.            *)
RescheduleAtOnce ==
  /\ current # None
  /\ outcome = "retryable" /\ age[current] < GiveUp
  /\ attempts' = [attempts EXCEPT ![current] = @ + 1]
  /\ Done
  /\ UNCHANGED <<status, due, age, born, working, counts, faults>>

Reschedule ==
  /\ current # None
  /\ outcome = "retryable" /\ age[current] < GiveUp
  /\ attempts' = [attempts EXCEPT ![current] = @ + 1]
  /\ due' = [due EXCEPT ![current] = NextDelay(attempts[current] + 1)]
  /\ Done
  /\ UNCHANGED <<status, age, born, working, counts, faults>>

(* The process dies, or a database call fails and `?' leaves the round:    *)
(* the rest of the batch and an unrecorded outcome are forgotten.          *)
Interrupt ==
  /\ faults < MaxFaults /\ faults' = faults + 1
  /\ batch # {} \/ current # None
  /\ slips' = IF outcome = "delivered" THEN [slips EXCEPT ![current] = @ + 1] ELSE slips
  /\ lost' = IF current # None THEN [lost EXCEPT ![current] = @ + 1] ELSE lost
  /\ batch' = {} /\ current' = None /\ outcome' = "none" /\ late' = {}
  /\ UNCHANGED <<table, working, handed, accepted, refused>>

(* retention::run deletes old rows, but only settled ones; the month they  *)
(* are kept is longer than the time to give up.  Nothing more can happen   *)
(* to the delivery, so its history ends here too.                          *)
Purge(d) ==
  /\ status[d] \in {"sent", "failed"} /\ age[d] = GiveUp
  /\ status' = [status EXCEPT ![d] = "purged"]
  /\ attempts' = [attempts EXCEPT ![d] = 0]
  /\ age' = [age EXCEPT ![d] = 0]
  /\ handed' = [handed EXCEPT ![d] = 0]
  /\ lost' = [lost EXCEPT ![d] = 0]
  /\ accepted' = [accepted EXCEPT ![d] = 0]
  /\ slips' = [slips EXCEPT ![d] = 0]
  /\ refused' = refused \ {d}
  /\ UNCHANGED <<due, born, task, working, late, faults>>

Tick ==
  /\ due' = [d \in Delivery |-> IF due[d] > 0 THEN due[d] - 1 ELSE 0]
  /\ age' = [d \in Delivery |-> IF Stored(status[d]) /\ age[d] < GiveUp
                                THEN age[d] + 1 ELSE age[d]]
  /\ UNCHANGED <<status, attempts, born, task, working, history>>

ChannelBreaks(c) ==
  /\ c \in working /\ working' = working \ {c}
  /\ UNCHANGED <<table, task, history>>

ChannelRecovers(c) ==
  /\ c \notin working /\ working' = working \cup {c}
  /\ UNCHANGED <<table, task, history>>

-----------------------------------------------------------------------------
QueueStep ==
  \/ Fetch
  \/ \E d \in Delivery : Send(d)
  \/ MarkSent
  \/ MarkFailed
  \/ Reschedule

Next ==
  \/ QueueStep
  \/ \E new \in SUBSET Delivery : Enqueue(new)
  \/ \E d \in Delivery : SendUnconfirmed(d) \/ Purge(d)
  \/ Interrupt
  \/ Tick
  \/ \E c \in Flaky : ChannelBreaks(c) \/ ChannelRecovers(c)

Spec == Init /\ [][Next]_vars

(* The task loops for ever and every send is bounded by a timeout.         *)
FairSpec == Spec /\ WF_vars(QueueStep) /\ WF_vars(Tick)

-----------------------------------------------------------------------------
TypeOK ==
  /\ status \in [Delivery -> {"absent", "pending", "sent", "failed", "purged"}]
  /\ attempts \in [Delivery -> Nat]
  /\ due \in [Delivery -> Nat]
  /\ age \in [Delivery -> 0..GiveUp]
  /\ born \in [Delivery -> Nat]
  /\ batch \subseteq Delivery /\ current \in Delivery \cup {None}
  /\ outcome \in {"none", "delivered", "retryable", "terminal"}
  /\ working \subseteq Channel
  /\ handed \in [Delivery -> Nat] /\ lost \in [Delivery -> Nat]
  /\ accepted \in [Delivery -> Nat] /\ slips \in [Delivery -> Nat]
  /\ refused \subseteq Delivery /\ late \subseteq Delivery
  /\ faults \in 0..MaxFaults

(* A message counts as sent only if the channel has taken it, and is given *)
(* up only if the channel turned it down for good or the time to give up   *)
(* has passed: no interruption, however placed, settles a delivery.        *)
SettledForCause ==
  \A d \in Delivery :
    /\ status[d] = "sent" => accepted[d] > 0
    /\ status[d] = "failed" => d \in refused \/ age[d] = GiveUp

(* Recipients get a message twice only if something went wrong between the *)
(* channel and the table: each acceptance beyond the first is one that the *)
(* queue could not record.                                                 *)
TwiceOnlyAfterSlip ==
  \A d \in Delivery : accepted[d] <= slips[d] + 1

(* How long a delivery has been told to wait, after n failures.            *)
Waited(n) ==
  IF n = 0 THEN 0
  ELSE IF n = 1 THEN Delay[1]
  ELSE IF n = 2 THEN Delay[1] + Delay[2]
  ELSE Delay[1] + Delay[2] + Delay[3] + (n - 3) * Delay[4]

(* The handovers of a message the queue knows of.  One whose outcome was   *)
(* forgotten left nothing in the table, and is repeated in the next round. *)
Known(d) == handed[d] - lost[d]

(* Receivers are not hammered: but for the repetition of handovers whose   *)
(* outcome an interruption has forgotten, a message is handed over again   *)
(* only after all the delays that are asked for after those before, and so *)
(* only as often as these fit into the time to give up, and once more.     *)
RetriesPaced ==
  /\ current # None =>
       age[current] = GiveUp \/ age[current] >= Waited(Known(current) - 1)
  /\ \A d \in Delivery : Known(d) > 1 => Waited(Known(d) - 2) < GiveUp

InOrder ==
  \A d, e \in Delivery :
    accepted'[d] > accepted[d] /\ born[e] < born[d] /\ status[e] = "pending"
      => attempts[e] > 0 \/ e \in late

(* A newer message is handed over before an older one only if the older    *)
(* one has failed before, or was still on its way into the table when the  *)
(* round was read: "up" does not overtake its "down" unprovoked.           *)
NoOvertaking == [][InOrder]_vars

(* Every delivery is settled in the end, whatever the channels do.         *)
AlwaysSettled ==
  \A d \in Delivery : status[d] = "pending" ~> Settled(status[d])

(* While its channel keeps working, a pending delivery is handed over,     *)
(* however old it is and even while another channel is down and fills the  *)
(* rounds with retries.  (A failure that is still to be written back is    *)
(* one of before.)                                                         *)
WorkingChannelServed ==
  \A d \in Delivery :
    (status[d] = "pending" /\ current # d)
      ~> (accepted[d] > 0 \/ ChannelOf[d] \notin working)
=============================================================================
