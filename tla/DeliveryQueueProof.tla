------------------------- MODULE DeliveryQueueProof -------------------------
(***************************************************************************)
(* What holds of DeliveryQueue for every number of deliveries and          *)
(* channels, every size of the rounds, all delays and any number of faults.*)
(***************************************************************************)
EXTENDS DeliveryQueue, TLAPS

(***************************************************************************)
(* The invariant.  A round works on copies of rows fetched earlier; that   *)
(* is sound because nobody else touches a pending row: RoundInv.  Every    *)
(* acceptance is accounted for by the table, by the outcome in hand or as  *)
(* a slip, and each handover by the attempts, the row that was sent, the   *)
(* outcome in hand or as forgotten: CountInv.  The order of a round        *)
(* survives because a pending row left out of it although it is older was  *)
(* waiting for a retry or came in late: OrderInv.                          *)
(***************************************************************************)
RoundInv ==
  /\ current = None <=> outcome = "none"
  /\ current # None => status[current] = "pending" /\ current \notin batch
  /\ \A d \in batch : status[d] = "pending"

CountInv ==
  \A d \in Delivery :
    accepted[d] = slips[d] + (IF status[d] = "sent" THEN 1 ELSE 0)
                           + (IF current = d /\ outcome = "delivered" THEN 1 ELSE 0)

HandedInv ==
  \A d \in Delivery :
    handed[d] = lost[d] + attempts[d] + (IF status[d] = "sent" THEN 1 ELSE 0)
                                      + (IF current = d THEN 1 ELSE 0)

CauseInv ==
  /\ outcome = "terminal" => current \in refused
  /\ \A d \in Delivery : status[d] = "failed" => d \in refused \/ age[d] = GiveUp

WaitInv ==
  \A d \in Delivery :
    /\ status[d] = "absent" => due[d] = 0
    /\ status[d] = "pending" /\ due[d] > 0 => attempts[d] > 0

OrderInv ==
  \A d \in batch, e \in Delivery \ batch :
    status[e] = "pending" /\ e # current /\ born[e] < born[d]
      => attempts[e] > 0 \/ e \in late

IInv == TypeOK /\ RoundInv /\ CountInv /\ HandedInv /\ CauseInv /\ WaitInv /\ OrderInv

-----------------------------------------------------------------------------
LEMMA DelayType == \A n \in Nat : NextDelay(n) \in Nat
BY QueueAssumption DEF NextDelay

LEMMA InitInv == Init => IInv
<1> SUFFICES ASSUME Init PROVE IInv
  OBVIOUS
<1>1. TypeOK
  BY QueueAssumption DEF Init, TypeOK
<1>2. RoundInv /\ CountInv /\ HandedInv /\ CauseInv /\ WaitInv /\ OrderInv
  BY QueueAssumption DEF Init, RoundInv, CountInv, HandedInv, CauseInv, WaitInv, OrderInv
<1>3. QED
  BY <1>1, <1>2 DEF IInv

(* Every step keeps the types.                                             *)
LEMMA TypeNext == IInv /\ [Next]_vars => TypeOK'
<1> SUFFICES ASSUME IInv, TypeOK, [Next]_vars PROVE TypeOK'
  BY DEF IInv
<1>1. ASSUME NEW new \in SUBSET Delivery, Enqueue(new) PROVE TypeOK'
  <2>1. PICK i \in Instant, n \in 0..Lag :
          /\ born' = [d \in Delivery |-> IF d \in new THEN i ELSE born[d]]
          /\ age' = [d \in Delivery |-> IF d \in new THEN n ELSE age[d]]
          /\ late' = IF \E d \in batch : i < born[d] THEN late \cup new ELSE late
    BY <1>1 DEF Enqueue
  <2>2. i \in Nat /\ n \in 0..GiveUp
    BY QueueAssumption
  <2>3. QED
    BY <1>1, <2>1, <2>2 DEF TypeOK, Enqueue, task, counts
<1>2. CASE Fetch
  BY <1>2 DEF TypeOK, Fetch, Ready, table, counts, history
<1>3. ASSUME NEW d \in Delivery, Send(d) PROVE TypeOK'
  BY <1>3 DEF TypeOK, Send, Outcomes, table
<1>4. ASSUME NEW d \in Delivery, SendUnconfirmed(d) PROVE TypeOK'
  BY <1>4, QueueAssumption DEF TypeOK, SendUnconfirmed, table
<1>5. CASE MarkSent
  BY <1>5 DEF TypeOK, MarkSent, Done, counts, history
<1>6. CASE MarkFailed
  BY <1>6 DEF TypeOK, MarkFailed, Done, counts, history
<1>7. CASE Reschedule
  BY <1>7, DelayType DEF TypeOK, Reschedule, Done, counts, history
<1>8. CASE Interrupt
  <2>1. slips' \in [Delivery -> Nat]
    BY <1>8, QueueAssumption DEF IInv, RoundInv, TypeOK, Interrupt
  <2>2. faults' \in 0..MaxFaults
    BY <1>8, QueueAssumption DEF TypeOK, Interrupt
  <2>3. QED
    BY <1>8, <2>1, <2>2 DEF TypeOK, Interrupt, table
<1>9. ASSUME NEW d \in Delivery, Purge(d) PROVE TypeOK'
  BY <1>9, QueueAssumption DEF TypeOK, Purge, task
<1>10. CASE Tick
  BY <1>10, QueueAssumption DEF TypeOK, Tick, task, counts, history
<1>11. ASSUME NEW c \in Flaky, ChannelBreaks(c) \/ ChannelRecovers(c) PROVE TypeOK'
  BY <1>11, QueueAssumption
     DEF TypeOK, ChannelBreaks, ChannelRecovers, table, task, counts, history
<1>12. CASE UNCHANGED vars
  BY <1>12 DEF TypeOK, vars, table, task, counts, history
<1>13. QED
  BY <1>1, <1>2, <1>3, <1>4, <1>5, <1>6, <1>7, <1>8, <1>9, <1>10, <1>11, <1>12
     DEF Next, QueueStep

(* A round keeps hold of pending rows only.                                *)
LEMMA RoundNext == IInv /\ [Next]_vars => RoundInv'
<1> SUFFICES ASSUME IInv, [Next]_vars PROVE RoundInv'
  OBVIOUS
<1> USE DEF RoundInv
<1>0. TypeOK /\ RoundInv
  BY DEF IInv
<1>1. ASSUME NEW new \in SUBSET Delivery, Enqueue(new) PROVE RoundInv'
  BY <1>0, <1>1 DEF TypeOK, Enqueue, task
<1>2. CASE Fetch
  BY <1>0, <1>2 DEF TypeOK, Fetch, Ready, table
<1>3. ASSUME NEW d \in Delivery, Send(d) \/ SendUnconfirmed(d) PROVE RoundInv'
  BY <1>0, <1>3, QueueAssumption DEF TypeOK, Send, SendUnconfirmed, Oldest, Outcomes, table
<1>4. CASE MarkSent \/ MarkFailed \/ Reschedule
  BY <1>0, <1>4 DEF TypeOK, MarkSent, MarkFailed, Reschedule, Done
<1>5. CASE Interrupt
  BY <1>5 DEF Interrupt
<1>6. ASSUME NEW d \in Delivery, Purge(d) PROVE RoundInv'
  BY <1>0, <1>6 DEF TypeOK, Purge, task
<1>7. CASE Tick
  BY <1>0, <1>7 DEF Tick, task
<1>8. ASSUME NEW c \in Flaky, ChannelBreaks(c) \/ ChannelRecovers(c) PROVE RoundInv'
  BY <1>0, <1>8 DEF ChannelBreaks, ChannelRecovers, table, task
<1>9. CASE UNCHANGED vars
  BY <1>0, <1>9 DEF vars, table, task
<1>10. QED
  BY <1>1, <1>2, <1>3, <1>4, <1>5, <1>6, <1>7, <1>8, <1>9 DEF Next, QueueStep

(* Every acceptance is accounted for.                                      *)
LEMMA CountNext == IInv /\ [Next]_vars => CountInv'
<1> SUFFICES ASSUME IInv, [Next]_vars, NEW x \in Delivery
             PROVE  (accepted[x] = slips[x] + (IF status[x] = "sent" THEN 1 ELSE 0)
                      + (IF current = x /\ outcome = "delivered" THEN 1 ELSE 0))'
  BY DEF CountInv
<1> DEFINE Goal == accepted[x] = slips[x] + (IF status[x] = "sent" THEN 1 ELSE 0)
                      + (IF current = x /\ outcome = "delivered" THEN 1 ELSE 0)
<1>0. TypeOK /\ RoundInv /\ Goal
  BY DEF IInv, CountInv
<1>1. ASSUME NEW new \in SUBSET Delivery, Enqueue(new) PROVE Goal'
  BY <1>0, <1>1 DEF TypeOK, Enqueue, task, counts, history
<1>2. CASE Fetch
  BY <1>0, <1>2, QueueAssumption DEF TypeOK, RoundInv, Fetch, table, counts, history
<1>3. ASSUME NEW d \in Delivery, Send(d) PROVE Goal'
  BY <1>0, <1>3, QueueAssumption DEF TypeOK, RoundInv, Send, Oldest, Outcomes, table
<1>4. ASSUME NEW d \in Delivery, SendUnconfirmed(d) PROVE Goal'
  BY <1>0, <1>4, QueueAssumption DEF TypeOK, RoundInv, SendUnconfirmed, Oldest, table
<1>5. CASE MarkSent
  BY <1>0, <1>5, QueueAssumption DEF TypeOK, RoundInv, MarkSent, Done, counts, history
<1>6. CASE MarkFailed
  BY <1>0, <1>6, QueueAssumption DEF TypeOK, RoundInv, MarkFailed, Done, counts, history
<1>7. CASE Reschedule
  BY <1>0, <1>7, QueueAssumption DEF TypeOK, RoundInv, Reschedule, Done, counts, history
<1>8. CASE Interrupt
  BY <1>0, <1>8, QueueAssumption DEF TypeOK, RoundInv, Interrupt, table
<1>9. ASSUME NEW d \in Delivery, Purge(d) PROVE Goal'
  BY <1>0, <1>9 DEF TypeOK, RoundInv, Purge, task
<1>10. CASE Tick
  BY <1>0, <1>10 DEF Tick, task, counts, history
<1>11. ASSUME NEW c \in Flaky, ChannelBreaks(c) \/ ChannelRecovers(c) PROVE Goal'
  BY <1>0, <1>11 DEF ChannelBreaks, ChannelRecovers, table, task, counts, history
<1>12. CASE UNCHANGED vars
  BY <1>0, <1>12 DEF vars, table, task, counts, history
<1>13. QED
  BY <1>1, <1>2, <1>3, <1>4, <1>5, <1>6, <1>7, <1>8, <1>9, <1>10, <1>11, <1>12
     DEF Next, QueueStep

(* Every handover is accounted for.                                        *)
LEMMA HandedNext == IInv /\ [Next]_vars => HandedInv'
<1> SUFFICES ASSUME IInv, [Next]_vars, NEW x \in Delivery
             PROVE  (handed[x] = lost[x] + attempts[x] + (IF status[x] = "sent" THEN 1 ELSE 0)
                      + (IF current = x THEN 1 ELSE 0))'
  BY DEF HandedInv
<1> DEFINE Goal == handed[x] = lost[x] + attempts[x] + (IF status[x] = "sent" THEN 1 ELSE 0)
                      + (IF current = x THEN 1 ELSE 0)
<1>0. TypeOK /\ RoundInv /\ Goal
  BY DEF IInv, HandedInv
<1>1. ASSUME NEW new \in SUBSET Delivery, Enqueue(new) PROVE Goal'
  BY <1>0, <1>1 DEF TypeOK, Enqueue, task, counts
<1>2. CASE Fetch
  BY <1>0, <1>2, QueueAssumption DEF TypeOK, RoundInv, Fetch, table, counts, history
<1>3. ASSUME NEW d \in Delivery, Send(d) PROVE Goal'
  BY <1>0, <1>3, QueueAssumption DEF TypeOK, RoundInv, Send, Oldest, table
<1>4. ASSUME NEW d \in Delivery, SendUnconfirmed(d) PROVE Goal'
  BY <1>0, <1>4, QueueAssumption DEF TypeOK, RoundInv, SendUnconfirmed, Oldest, table
<1>5. CASE MarkSent
  BY <1>0, <1>5, QueueAssumption DEF TypeOK, RoundInv, MarkSent, Done, counts
<1>6. CASE MarkFailed
  BY <1>0, <1>6, QueueAssumption DEF TypeOK, RoundInv, MarkFailed, Done, counts
<1>7. CASE Reschedule
  BY <1>0, <1>7, QueueAssumption DEF TypeOK, RoundInv, Reschedule, Done, counts
<1>8. CASE Interrupt
  BY <1>0, <1>8, QueueAssumption DEF TypeOK, RoundInv, Interrupt, table
<1>9. ASSUME NEW d \in Delivery, Purge(d) PROVE Goal'
  BY <1>0, <1>9, QueueAssumption DEF TypeOK, RoundInv, Purge, task
<1>10. CASE Tick
  BY <1>0, <1>10 DEF Tick, task, counts, history
<1>11. ASSUME NEW c \in Flaky, ChannelBreaks(c) \/ ChannelRecovers(c) PROVE Goal'
  BY <1>0, <1>11 DEF ChannelBreaks, ChannelRecovers, table, task, counts, history
<1>12. CASE UNCHANGED vars
  BY <1>0, <1>12 DEF vars, table, task, counts, history
<1>13. QED
  BY <1>1, <1>2, <1>3, <1>4, <1>5, <1>6, <1>7, <1>8, <1>9, <1>10, <1>11, <1>12
     DEF Next, QueueStep

(* What is given up was refused or is old enough.                          *)
LEMMA CauseNext == IInv /\ [Next]_vars => CauseInv'
<1> SUFFICES ASSUME IInv, [Next]_vars PROVE CauseInv'
  OBVIOUS
<1> USE DEF CauseInv
<1>0. TypeOK /\ RoundInv /\ CauseInv
  BY DEF IInv
<1>1. ASSUME NEW new \in SUBSET Delivery, Enqueue(new) PROVE CauseInv'
  BY <1>0, <1>1 DEF TypeOK, Enqueue, task, counts, history
<1>2. CASE Fetch
  BY <1>0, <1>2 DEF Fetch, table, counts, history
<1>3. ASSUME NEW d \in Delivery, Send(d) PROVE CauseInv'
  BY <1>0, <1>3 DEF TypeOK, Send, table
<1>4. ASSUME NEW d \in Delivery, SendUnconfirmed(d) PROVE CauseInv'
  BY <1>0, <1>4 DEF TypeOK, SendUnconfirmed, table
<1>5. CASE MarkSent
  BY <1>0, <1>5 DEF TypeOK, MarkSent, Done, counts, history
<1>6. CASE MarkFailed
  <2>1. current \in Delivery /\ (current \in refused \/ age[current] = GiveUp)
    BY <1>0, <1>6, QueueAssumption DEF TypeOK, RoundInv, MarkFailed
  <2>2. QED
    BY <1>0, <1>6, <2>1 DEF TypeOK, MarkFailed, Done, counts, history
<1>7. CASE Reschedule
  BY <1>0, <1>7 DEF TypeOK, Reschedule, Done, counts, history
<1>8. CASE Interrupt
  BY <1>0, <1>8 DEF Interrupt, table
<1>9. ASSUME NEW d \in Delivery, Purge(d) PROVE CauseInv'
  <2>1. outcome = "terminal" => current # d
    BY <1>0, <1>9 DEF RoundInv, Purge
  <2>2. QED
    BY <1>0, <1>9, <2>1 DEF TypeOK, Purge, task
<1>10. CASE Tick
  BY <1>0, <1>10 DEF TypeOK, Tick, task, counts, history
<1>11. ASSUME NEW c \in Flaky, ChannelBreaks(c) \/ ChannelRecovers(c) PROVE CauseInv'
  BY <1>0, <1>11 DEF ChannelBreaks, ChannelRecovers, table, task, counts, history
<1>12. CASE UNCHANGED vars
  BY <1>0, <1>12 DEF vars, table, task, counts, history
<1>13. QED
  BY <1>1, <1>2, <1>3, <1>4, <1>5, <1>6, <1>7, <1>8, <1>9, <1>10, <1>11, <1>12
     DEF Next, QueueStep

(* Only a delivery that has failed before waits.                           *)
LEMMA WaitNext == IInv /\ [Next]_vars => WaitInv'
<1> SUFFICES ASSUME IInv, [Next]_vars PROVE WaitInv'
  OBVIOUS
<1> USE DEF WaitInv
<1>0. TypeOK /\ RoundInv /\ WaitInv
  BY DEF IInv
<1>1. ASSUME NEW new \in SUBSET Delivery, Enqueue(new) PROVE WaitInv'
  BY <1>0, <1>1 DEF TypeOK, Enqueue
<1>2. CASE Fetch
  BY <1>0, <1>2 DEF Fetch, table
<1>3. ASSUME NEW d \in Delivery, Send(d) \/ SendUnconfirmed(d) PROVE WaitInv'
  BY <1>0, <1>3 DEF Send, SendUnconfirmed, table
<1>4. CASE MarkSent
  BY <1>0, <1>4 DEF TypeOK, MarkSent
<1>5. CASE MarkFailed
  BY <1>0, <1>5 DEF TypeOK, MarkFailed
<1>6. CASE Reschedule
  <2>1. attempts'[current] > 0 /\ status[current] = "pending"
    BY <1>0, <1>6 DEF TypeOK, RoundInv, Reschedule
  <2>2. QED
    BY <1>0, <1>6, <2>1 DEF TypeOK, Reschedule
<1>7. CASE Interrupt
  BY <1>0, <1>7 DEF Interrupt, table
<1>8. ASSUME NEW d \in Delivery, Purge(d) PROVE WaitInv'
  BY <1>0, <1>8 DEF TypeOK, Purge
<1>9. CASE Tick
  BY <1>0, <1>9 DEF TypeOK, Tick
<1>10. ASSUME NEW c \in Flaky, ChannelBreaks(c) \/ ChannelRecovers(c) PROVE WaitInv'
  BY <1>0, <1>10 DEF ChannelBreaks, ChannelRecovers, table
<1>11. CASE UNCHANGED vars
  BY <1>0, <1>11 DEF vars, table
<1>12. QED
  BY <1>1, <1>2, <1>3, <1>4, <1>5, <1>6, <1>7, <1>8, <1>9, <1>10, <1>11
     DEF Next, QueueStep

(* An older row outside the round has failed before.                       *)
LEMMA OrderNext == IInv /\ [Next]_vars => OrderInv'
<1> SUFFICES ASSUME IInv, [Next]_vars PROVE OrderInv'
  OBVIOUS
<1> USE DEF OrderInv
<1>0. TypeOK /\ RoundInv /\ WaitInv /\ OrderInv
  BY DEF IInv
<1>1. ASSUME NEW new \in SUBSET Delivery, Enqueue(new) PROVE OrderInv'
  <2>1. PICK i \in Instant :
          /\ born' = [d \in Delivery |-> IF d \in new THEN i ELSE born[d]]
          /\ late' = IF \E d \in batch : i < born[d] THEN late \cup new ELSE late
    BY <1>1 DEF Enqueue
  <2>2. batch' = batch /\ current' = current /\ attempts' = attempts
    BY <1>1 DEF Enqueue, task
  <2>3. \A d \in batch : d \in Delivery /\ d \notin new /\ born'[d] = born[d]
    BY <1>0, <1>1, <2>1 DEF TypeOK, RoundInv, Enqueue
  <2>4. ASSUME NEW d \in batch', NEW e \in Delivery \ batch',
               (status[e] = "pending" /\ e # current /\ born[e] < born[d])'
        PROVE  attempts'[e] > 0 \/ e \in late'
    <3>1. CASE e \in new
      BY <2>1, <2>2, <2>3, <2>4, <3>1
    <3>2. CASE e \notin new
      <4>1. status'[e] = status[e] /\ born'[e] = born[e] /\ late \subseteq late'
        BY <1>1, <2>1, <3>2 DEF Enqueue
      <4>2. QED
        BY <1>0, <2>2, <2>3, <2>4, <4>1
    <3>3. QED
      BY <3>1, <3>2
  <2>5. QED
    BY <2>4
<1>2. CASE Fetch
  <2> SUFFICES ASSUME NEW d \in batch', NEW e \in Delivery \ batch',
                      status[e] = "pending", born[e] < born[d]
               PROVE  attempts[e] > 0
    BY <1>2 DEF Fetch, table
  <2>1. d \in Delivery /\ e \notin Ready
    BY <1>0, <1>2 DEF TypeOK, Fetch, Ready
  <2>2. due[e] > 0
    BY <1>0, <2>1 DEF TypeOK, Ready
  <2>3. QED
    BY <1>0, <2>2 DEF WaitInv
<1>3. ASSUME NEW d \in Delivery, Send(d) \/ SendUnconfirmed(d) PROVE OrderInv'
  BY <1>0, <1>3, QueueAssumption DEF Send, SendUnconfirmed, Oldest, table
<1>4. CASE MarkSent \/ MarkFailed
  <2>1. current \notin batch /\ batch' = batch /\ current' = None
        /\ (batch # {} => late' = late)
    BY <1>0, <1>4 DEF RoundInv, MarkSent, MarkFailed, Done
  <2>2. \A d \in Delivery : d # current =>
          status'[d] = status[d] /\ born'[d] = born[d] /\ attempts'[d] = attempts[d]
    BY <1>0, <1>4 DEF TypeOK, MarkSent, MarkFailed
  <2>3. status'[current] # "pending"
    BY <1>0, <1>4 DEF TypeOK, RoundInv, MarkSent, MarkFailed
  <2>4. QED
    BY <1>0, <2>1, <2>2, <2>3 DEF TypeOK
<1>5. CASE Reschedule
  <2>1. attempts'[current] > 0
    BY <1>0, <1>5 DEF TypeOK, RoundInv, Reschedule
  <2>2. QED
    BY <1>0, <1>5, <2>1 DEF TypeOK, RoundInv, Reschedule, Done
<1>6. CASE Interrupt
  BY <1>6 DEF Interrupt
<1>7. ASSUME NEW d \in Delivery, Purge(d) PROVE OrderInv'
  BY <1>0, <1>7 DEF TypeOK, Purge, task
<1>8. CASE Tick
  BY <1>0, <1>8 DEF Tick, task, history
<1>9. ASSUME NEW c \in Flaky, ChannelBreaks(c) \/ ChannelRecovers(c) PROVE OrderInv'
  BY <1>0, <1>9 DEF ChannelBreaks, ChannelRecovers, table, task, history
<1>10. CASE UNCHANGED vars
  BY <1>0, <1>10 DEF vars, table, task, history
<1>11. QED
  BY <1>1, <1>2, <1>3, <1>4, <1>5, <1>6, <1>7, <1>8, <1>9, <1>10 DEF Next, QueueStep

THEOREM Invariant == Spec => []IInv
<1>1. Init => IInv
  BY InitInv
<1>2. IInv /\ [Next]_vars => IInv'
  BY TypeNext, RoundNext, CountNext, HandedNext, CauseNext, WaitNext, OrderNext DEF IInv
<1>3. QED
  BY <1>1, <1>2, PTL DEF Spec

-----------------------------------------------------------------------------
(* The variables keep their types.                                         *)
THEOREM TypeCorrect == Spec => []TypeOK
<1>1. IInv => TypeOK
  BY DEF IInv
<1>2. QED
  BY <1>1, Invariant, PTL

(* Whatever interrupts the queue, a delivery counts as sent only if its    *)
(* channel took it, and as failed only after a refusal or the time limit.  *)
THEOREM SettledForCauseCorrect == Spec => []SettledForCause
<1>1. IInv => SettledForCause
  BY DEF IInv, TypeOK, CountInv, CauseInv, SettledForCause
<1>2. QED
  BY <1>1, Invariant, PTL

(* Each acceptance of a message beyond the first is one that could not be  *)
(* recorded.                                                               *)
THEOREM TwiceOnlyAfterSlipCorrect == Spec => []TwiceOnlyAfterSlip
<1>1. IInv => TwiceOnlyAfterSlip
  BY DEF IInv, TypeOK, RoundInv, CountInv, TwiceOnlyAfterSlip
<1>2. QED
  BY <1>1, Invariant, PTL

(* No message is handed over before an older one that has never failed,    *)
(* whatever order the rows are inserted in, unless that one came into the  *)
(* table after the round had been read (queue.rs: fetch_pending).          *)
THEOREM NoOvertakingCorrect == Spec => NoOvertaking
<1>1. IInv /\ [Next]_vars => [InOrder]_vars
  <2> SUFFICES ASSUME IInv, Next,
                      NEW d \in Delivery, NEW e \in Delivery,
                      accepted'[d] > accepted[d], born[e] < born[d], status[e] = "pending"
               PROVE  attempts[e] > 0 \/ e \in late
    BY DEF InOrder
  <2>0. TypeOK /\ RoundInv /\ OrderInv
    BY DEF IInv
  <2>1. ASSUME NEW x \in Delivery, Send(x) \/ SendUnconfirmed(x)
        PROVE  x = d /\ Oldest(d) /\ current = None
    BY <2>0, <2>1 DEF TypeOK, Send, SendUnconfirmed
  <2>2. ASSUME NEW x \in Delivery, Send(x) \/ SendUnconfirmed(x)
        PROVE  attempts[e] > 0 \/ e \in late
    <3>1. d \in batch /\ e \notin batch
      BY <2>0, <2>1, <2>2 DEF TypeOK, Oldest
    <3>2. QED
      BY <2>0, <2>1, <2>2, <3>1, QueueAssumption DEF OrderInv
  <2>3. ASSUME NEW x \in Delivery, Purge(x) PROVE FALSE
    BY <2>0, <2>3 DEF TypeOK, Purge
  <2>4. ~(UNCHANGED accepted)
    BY <2>0 DEF TypeOK
  <2>5. QED
    BY <2>2, <2>3, <2>4
       DEF Next, QueueStep, Enqueue, Fetch, MarkSent, MarkFailed, Reschedule,
           Interrupt, Tick, ChannelBreaks, ChannelRecovers, counts, history
<1>2. QED
  BY <1>1, Invariant, PTL DEF Spec, NoOvertaking
-----------------------------------------------------------------------------
(***************************************************************************)
(* The pace of retries.  The wait is written to the table with each        *)
(* failure, so age and due together never fall behind the delays asked     *)
(* for, whatever is forgotten in between; only the rows of a round are no  *)
(* longer waiting.  Past the time to give up ages stand still, and what    *)
(* counts is when the last failure was written.                            *)
(***************************************************************************)
Paced(d) ==
  /\ status[d] = "absent" => attempts[d] = 0
  /\ attempts[d] > 1 => Waited(attempts[d] - 2) < GiveUp
  /\ status[d] \in {"pending", "sent"} /\ attempts[d] > 0 => Waited(attempts[d] - 1) < GiveUp
  /\ status[d] = "pending" => age[d] = GiveUp \/ age[d] + due[d] >= Waited(attempts[d])

PacedInv ==
  /\ \A d \in Delivery : Paced(d)
  /\ \A d \in batch \cup {current} : d \in Delivery => due[d] = 0

LEMMA WaitedType == \A n \in Nat : Waited(n) \in Nat
<1>1. \A i \in 1..4 : Delay[i] \in Nat
  BY QueueAssumption
<1>2. ASSUME NEW a \in Nat, NEW b \in Nat PROVE a * b \in Nat
  OBVIOUS
<1>3. QED
  BY <1>1, <1>2 DEF Waited

LEMMA WaitedStep == \A n \in Nat : Waited(n + 1) = Waited(n) + NextDelay(n + 1)
<1> SUFFICES ASSUME NEW n \in Nat PROVE Waited(n + 1) = Waited(n) + NextDelay(n + 1)
  OBVIOUS
<1>1. \A i \in 1..4 : Delay[i] \in Nat
  BY QueueAssumption
<1>2. CASE n < 3
  BY <1>1, <1>2 DEF Waited, NextDelay
<1>3. CASE n >= 3
  <2>1. ASSUME NEW a \in Nat, NEW b \in Nat PROVE (a + 1) * b = a * b + b
    OBVIOUS
  <2>2. (n + 1 - 3) * Delay[4] = (n - 3) * Delay[4] + Delay[4]
    <3>1. n - 3 \in Nat /\ n + 1 - 3 = (n - 3) + 1 /\ Delay[4] \in Nat
      BY <1>1, <1>3
    <3>2. ((n - 3) + 1) * Delay[4] = (n - 3) * Delay[4] + Delay[4]
      BY <2>1, <3>1
    <3>3. QED
      BY <3>1, <3>2
  <2>3. NextDelay(n + 1) = Delay[4]
    BY <1>3 DEF NextDelay
  <2>4. Waited(n + 1) = Delay[1] + Delay[2] + Delay[3] + (n + 1 - 3) * Delay[4]
    BY <1>3 DEF Waited
  <2>5. Waited(n) = Delay[1] + Delay[2] + Delay[3] + (n - 3) * Delay[4]
    BY <1>1, <1>3 DEF Waited
  <2>6. (n - 3) * Delay[4] \in Nat
    BY <1>1, <1>3
  <2>7. QED
    BY <1>1, <2>2, <2>3, <2>4, <2>5, <2>6
<1>4. QED
  BY <1>2, <1>3

LEMMA PacedInit == Init => PacedInv
<1> SUFFICES ASSUME Init PROVE PacedInv
  OBVIOUS
<1>1. Waited(0) = 0
  BY DEF Waited
<1>2. QED
  BY <1>1, QueueAssumption DEF Init, PacedInv, Paced

(* A row that keeps its counts keeps its pace.                             *)
LEMMA PacedKept ==
  ASSUME TypeOK, NEW d \in Delivery, Paced(d),
         attempts'[d] = attempts[d], age'[d] = age[d], due'[d] = due[d],
         status'[d] = status[d] \/ (status[d] = "pending" /\ status'[d] = "sent")
  PROVE  Paced(d)'
BY DEF Paced

LEMMA PacedNext == IInv /\ PacedInv /\ [Next]_vars => PacedInv'
<1> SUFFICES ASSUME IInv, PacedInv, [Next]_vars PROVE PacedInv'
  OBVIOUS
<1>0. TypeOK /\ RoundInv /\ WaitInv
  BY DEF IInv
<1>1. ASSUME UNCHANGED <<attempts, age, due>>, batch' \cup {current'} \subseteq batch \cup {current, None},
             \A d \in Delivery : status'[d] = status[d]
                                   \/ (status[d] = "pending" /\ status'[d] = "sent")
      PROVE  PacedInv'
  <2>1. ASSUME NEW d \in Delivery PROVE Paced(d)'
    BY <1>0, <1>1, PacedKept DEF PacedInv
  <2>2. ASSUME NEW d \in batch' \cup {current'}, d \in Delivery PROVE due'[d] = 0
    BY <1>1, <2>2, QueueAssumption DEF PacedInv
  <2>3. QED
    BY <2>1, <2>2 DEF PacedInv
<1>2. ASSUME NEW new \in SUBSET Delivery, Enqueue(new) PROVE PacedInv'
  <2>1. ASSUME NEW d \in Delivery PROVE Paced(d)'
    <3>1. CASE d \in new
      <4>1. status[d] = "absent" /\ attempts[d] = 0 /\ due[d] = 0 /\ status'[d] = "pending"
            /\ attempts' = attempts /\ due' = due
        BY <1>0, <1>2, <3>1 DEF Enqueue, PacedInv, Paced, WaitInv
      <4>2. Waited(0) = 0 /\ age'[d] \in 0..GiveUp
        BY <1>2, <3>1, QueueAssumption DEF Waited, Enqueue
      <4>3. QED
        BY <4>1, <4>2, QueueAssumption DEF Paced
    <3>2. CASE d \notin new
      <4>1. status'[d] = status[d] /\ attempts' = attempts /\ due' = due /\ age'[d] = age[d]
        BY <1>2, <3>2 DEF Enqueue
      <4>2. QED
        BY <1>0, <4>1, PacedKept DEF PacedInv
    <3>3. QED
      BY <3>1, <3>2
  <2>2. QED
    BY <1>2, <2>1 DEF PacedInv, Enqueue, task
<1>3. CASE Fetch
  <2>1. UNCHANGED <<attempts, age, due, status, current>> /\ batch' \subseteq Ready /\ current = None
    BY <1>3 DEF Fetch, table
  <2>2. ASSUME NEW d \in Delivery PROVE Paced(d)'
    BY <1>0, <2>1, PacedKept DEF PacedInv
  <2>3. ASSUME NEW d \in batch' \cup {current'}, d \in Delivery PROVE due'[d] = 0
    BY <2>1, <2>3, QueueAssumption DEF Ready
  <2>4. QED
    BY <2>2, <2>3 DEF PacedInv
<1>4. ASSUME NEW d \in Delivery, Send(d) \/ SendUnconfirmed(d) PROVE PacedInv'
  BY <1>1, <1>4 DEF Send, SendUnconfirmed, Oldest, table
<1>5. CASE MarkSent
  BY <1>0, <1>1, <1>5 DEF MarkSent, Done, TypeOK, RoundInv
<1>6. CASE MarkFailed
  <2>1. PICK c \in Delivery : c = current
    BY <1>0, <1>6 DEF MarkFailed, TypeOK
  <2> DEFINE n == attempts[c]
  <2>2. /\ status[c] = "pending" /\ status'[c] = "failed"
        /\ n \in Nat /\ attempts'[c] = n + 1
        /\ UNCHANGED <<age, due, batch>> /\ current' = None
    BY <1>0, <1>6, <2>1, QueueAssumption DEF MarkFailed, Done, RoundInv, TypeOK
  <2>3. n > 0 => Waited(n - 1) < GiveUp
    BY <2>2 DEF PacedInv, Paced
  <2>4. Paced(c)'
    <3> HIDE DEF n
    <3>1. n + 1 > 1 => n > 0 /\ (n + 1) - 2 = n - 1
      BY <2>2
    <3>2. n + 1 > 1 => Waited((n + 1) - 2) < GiveUp
      BY <2>3, <3>1
    <3>3. QED
      BY <2>2, <3>2 DEF Paced
  <2>5. ASSUME NEW d \in Delivery, d # c PROVE Paced(d)'
    <3>1. attempts'[d] = attempts[d] /\ status'[d] = status[d]
      BY <1>0, <1>6, <2>1, <2>5 DEF MarkFailed, TypeOK
    <3>2. QED
      BY <1>0, <2>2, <3>1, PacedKept DEF PacedInv
  <2>6. \A d \in batch' \cup {current'} : d \in Delivery => due'[d] = 0
    BY <2>2, QueueAssumption DEF PacedInv
  <2>7. QED
    BY <2>4, <2>5, <2>6 DEF PacedInv
<1>7. CASE Reschedule
  <2>1. PICK c \in Delivery : c = current
    BY <1>0, <1>7 DEF Reschedule, TypeOK
  <2> DEFINE n == attempts[c]
  <2>2. /\ status[c] = "pending" /\ status' = status
        /\ n \in Nat /\ attempts'[c] = n + 1
        /\ due'[c] = NextDelay(n + 1)
        /\ age[c] < GiveUp /\ age[c] \in Nat /\ age' = age /\ batch' = batch
        /\ current' = None /\ c \notin batch
    BY <1>0, <1>7, <2>1 DEF Reschedule, Done, RoundInv, TypeOK
  <2>3. due[c] = 0 /\ Paced(c)
    BY <2>1 DEF PacedInv
  <2>4. Waited(n) <= age[c] /\ (n > 0 => Waited(n - 1) < GiveUp)
    BY <2>2, <2>3, WaitedType, QueueAssumption DEF Paced
  <2>5. Waited(n + 1) = Waited(n) + NextDelay(n + 1) /\ Waited(n) \in Nat /\ NextDelay(n + 1) \in Nat
    BY <2>2, WaitedType, WaitedStep, DelayType
  <2>6. Paced(c)'
    <3>1. Waited(n) < GiveUp /\ age[c] + NextDelay(n + 1) >= Waited(n + 1)
      BY <2>2, <2>4, <2>5, QueueAssumption
    <3>2. (n + 1) - 1 = n /\ n + 1 # 0 /\ (n + 1 > 1 => n > 0 /\ (n + 1) - 2 = n - 1)
      BY <2>2
    <3> HIDE DEF n
    <3>3. n + 1 > 1 => Waited((n + 1) - 2) < GiveUp
      BY <2>4, <3>2
    <3>4. Waited((n + 1) - 1) < GiveUp
      BY <3>1, <3>2
    <3>5. QED
      BY <2>2, <3>1, <3>2, <3>3, <3>4 DEF Paced
  <2>7. ASSUME NEW d \in Delivery, d # c
        PROVE  Paced(d)' /\ due'[d] = due[d]
    <3>1. attempts'[d] = attempts[d] /\ due'[d] = due[d]
      BY <1>0, <1>7, <2>1, <2>7 DEF Reschedule, TypeOK
    <3>2. QED
      BY <1>0, <2>2, <3>1, PacedKept DEF PacedInv
  <2>8. \A d \in batch' \cup {current'} : d \in Delivery => due'[d] = 0
    BY <2>2, <2>7, QueueAssumption DEF PacedInv
  <2>9. QED
    BY <2>6, <2>7, <2>8 DEF PacedInv
<1>8. CASE Interrupt
  BY <1>1, <1>8 DEF Interrupt, table
<1>9. ASSUME NEW e \in Delivery, Purge(e) PROVE PacedInv'
  <2>1. ASSUME NEW d \in Delivery PROVE Paced(d)'
    <3>1. CASE d = e
      BY <1>0, <1>9, <3>1 DEF Purge, TypeOK, Paced
    <3>2. CASE d # e
      <4>1. status'[d] = status[d] /\ attempts'[d] = attempts[d] /\ due' = due /\ age'[d] = age[d]
        BY <1>0, <1>9, <3>2 DEF Purge, TypeOK
      <4>2. QED
        BY <1>0, <4>1, PacedKept DEF PacedInv
    <3>3. QED
      BY <3>1, <3>2
  <2>2. QED
    BY <1>9, <2>1 DEF PacedInv, Purge, task
<1>10. CASE Tick
  <2>1. ASSUME NEW d \in Delivery PROVE Paced(d)' /\ (due[d] = 0 => due'[d] = 0)
    <3> DEFINE w == Waited(attempts[d])
    <3>1. /\ status' = status /\ attempts' = attempts
          /\ due[d] \in Nat /\ age[d] \in 0..GiveUp
          /\ due[d] > 0 => due'[d] = due[d] - 1
          /\ due[d] = 0 => due'[d] = 0
          /\ status[d] = "pending" /\ age[d] < GiveUp => age'[d] = age[d] + 1
          /\ age[d] = GiveUp => age'[d] = GiveUp
      BY <1>0, <1>10, QueueAssumption DEF Tick, Stored, TypeOK
    <3>2. w \in Nat /\ GiveUp \in Nat
      BY <1>0, WaitedType, QueueAssumption DEF TypeOK
    <3>3. Paced(d)
      BY DEF PacedInv
    <3>4. status[d] = "pending" /\ (age[d] = GiveUp \/ age[d] + due[d] >= w)
            => age'[d] = GiveUp \/ age'[d] + due'[d] >= w
      <4> HIDE DEF w
      <4>1. QED
        BY <3>1, <3>2
    <3>5. QED
      BY <3>1, <3>3, <3>4 DEF Paced
  <2>2. QED
    BY <1>10, <2>1 DEF PacedInv, Tick, task
<1>11. ASSUME NEW c \in Flaky, ChannelBreaks(c) \/ ChannelRecovers(c) PROVE PacedInv'
  BY <1>1, <1>11 DEF ChannelBreaks, ChannelRecovers, table, task
<1>12. CASE UNCHANGED vars
  BY <1>1, <1>12 DEF vars, table, task
<1>13. QED
  BY <1>2, <1>3, <1>4, <1>5, <1>6, <1>7, <1>8, <1>9, <1>10, <1>11, <1>12, Zenon
     DEF Next, QueueStep

(* Whatever interrupts the queue, a message is handed over again only      *)
(* after the delays that were asked for after all the handovers before,    *)
(* and no more often than these fit into the time to give up, and once     *)
(* more: only the handovers whose outcome an interruption has forgotten do *)
(* not count (queue.rs: next_delay_ms, reschedule).                        *)
THEOREM RetriesPacedCorrect == Spec => []RetriesPaced
<1>1. IInv /\ PacedInv => RetriesPaced
  <2> SUFFICES ASSUME IInv, PacedInv PROVE RetriesPaced
    OBVIOUS
  <2>0. TypeOK /\ RoundInv /\ HandedInv
    BY DEF IInv
  <2>1. ASSUME NEW d \in Delivery
        PROVE  Known(d) = attempts[d] + (IF status[d] = "sent" THEN 1 ELSE 0)
                                      + (IF current = d THEN 1 ELSE 0)
    BY <2>0 DEF Known, HandedInv, TypeOK
  <2>2. ASSUME current # None
        PROVE  age[current] = GiveUp \/ age[current] >= Waited(Known(current) - 1)
    <3>1. PICK d \in Delivery : d = current
      BY <2>0, <2>2 DEF TypeOK
    <3>2. status[d] = "pending" /\ due[d] = 0 /\ age[d] \in Nat /\ attempts[d] \in Nat
      BY <2>0, <2>2, <3>1 DEF TypeOK, RoundInv, PacedInv
    <3>3. Known(d) - 1 = attempts[d]
      BY <2>1, <3>1, <3>2
    <3>4. age[d] = GiveUp \/ age[d] + 0 >= Waited(attempts[d])
      BY <3>2 DEF PacedInv, Paced
    <3>5. QED
      BY <3>1, <3>2, <3>3, <3>4
  <2>3. ASSUME NEW d \in Delivery, Known(d) > 1 PROVE Waited(Known(d) - 2) < GiveUp
    <3> DEFINE n == attempts[d]
    <3>1. n \in Nat /\ (n > 1 => Waited(n - 2) < GiveUp)
         /\ (status[d] \in {"pending", "sent"} /\ n > 0 => Waited(n - 1) < GiveUp)
      BY <2>0 DEF TypeOK, PacedInv, Paced
    <3>2. current = d => status[d] = "pending"
      BY <2>0, QueueAssumption DEF RoundInv
    <3>3. CASE status[d] \notin {"pending", "sent"} \/ (status[d] = "pending" /\ current # d)
      <4>1. Known(d) = n
        BY <2>1, <3>1, <3>2, <3>3
      <4>2. QED
        BY <2>3, <3>1, <4>1
    <3>4. CASE status[d] = "sent" \/ (status[d] = "pending" /\ current = d)
      <4>1. Known(d) = n + 1
        BY <2>1, <3>1, <3>2, <3>4
      <4>2. n > 0 /\ (n + 1) - 2 = n - 1
        BY <2>3, <3>1, <4>1
      <4>3. Waited(n - 1) < GiveUp
        BY <3>1, <3>4, <4>2
      <4> HIDE DEF n
      <4>4. QED
        BY <4>1, <4>2, <4>3
    <3>5. QED
      BY <3>3, <3>4
  <2>4. QED
    BY <2>2, <2>3 DEF RetriesPaced
<1>2. IInv /\ PacedInv /\ [Next]_vars => PacedInv'
  BY PacedNext
<1>3. QED
  BY <1>1, <1>2, PacedInit, Invariant, PTL DEF Spec
=============================================================================
