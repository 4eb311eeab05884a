-------------------------- MODULE SupervisionProof --------------------------
(***************************************************************************)
(* What Supervision guarantees for every set of ports, grace, time of      *)
(* slowness and number of faults.  The three safety properties have a      *)
(* strengthening each; they share only the types.                          *)
(***************************************************************************)
EXTENDS Supervision, TLAPS

(* No more than n ticks, and the one in which the watchdog has had no turn. *)
Within(n) == off <= n + 1 /\ ("watchdog" \notin turns => off <= n)

(* A pause that the watchdog has not noticed costs a fault for each tick   *)
(* but the first; one that it has is as old as it thinks, and one tick; a  *)
(* grace that is over leaves the port open only if a turn has failed.      *)
PauseInv ==
  /\ live /\ enabled => off = 0
  /\ open # Closed /\ ~enabled => Within(faults)
  /\ enabled /\ ~live /\ paused = Running => Within(faults)
  /\ enabled /\ ~live /\ paused \notin {Running, Grace} => off <= paused + faults + 1
  /\ enabled /\ ~live /\ paused = Grace /\ open # Closed => Within(Grace + faults)

(* A streak that misses nothing is no older than the slowness.             *)
StreakInv == tracker.streak # Normal /\ ~missed => tracker.streak <= slowFor

(* Every channel knows of a delivered alarm, or was passed over by it; and *)
(* nothing is in the queue before the sweep's turn, so that every message  *)
(* is seen to come.                                                        *)
DeliveredInv ==
  /\ tracker.delivered => warned \cup passed = Channel
  /\ "sweep" \in turns => queue = {}

-----------------------------------------------------------------------------
LEMMA GraceNat == Grace \in Nat /\ Closed \notin Port /\ Running \notin 0..Grace
BY WatchdogAssumption

LEMMA AlarmNat == AlarmSec \in Nat /\ Normal \notin 0..AlarmSec
BY SlowAlarmAssumption

LEMMA FaultsNat == MaxFaults \in Nat
BY SupervisionAssumption

(* What comes out of the tracker is a tracker again.                       *)
LEMMA FedType ==
  ASSUME tracker \in Tracker, answer \in Measurement
  PROVE  /\ Fed(tracker, answer) \in Tracker
         /\ Verdict(tracker, answer) \in {"none", "slow", "slow_ok"}
BY AlarmNat DEF Fed, Verdict, Tracker, NewTracker, Measurement

(* What a round of the watchdog can end in, whether the port could be      *)
(* bound or not.                                                           *)
RoundEnds ==
  \/ ~enabled /\ open' = Closed /\ paused' = Running
  \/ enabled /\ live /\ open' \in {port, Closed} /\ paused' = Running
  \/ /\ enabled /\ ~live
     /\ \/ paused = Running /\ paused' = 0
        \/ paused # Running /\ paused' = paused
     /\ open' = Closed \/ (open' = port /\ paused' < Grace)

LEMMA RoundCases ==
  ASSUME WatchdogTypeOK, NEW b \in BOOLEAN, Round(b)
  PROVE  RoundEnds
<1>1. \/ ~enabled /\ open' = Closed /\ paused' = Running
      \/ enabled /\ live /\ open' \in {port, Closed} /\ paused' = Running
      \/ /\ enabled /\ ~live /\ paused' = PausedFor
         /\ open' = IF PausedFor >= Grace THEN Closed ELSE EnsureRunning(b)
  BY Zenon DEF Round, EnsureRunning
<1>2. EnsureRunning(b) \in {port, Closed}
  BY Zenon DEF EnsureRunning
<1> QED
  BY <1>1, <1>2, GraceNat DEF RoundEnds, WatchdogTypeOK, PausedFor

LEMMA WatchCases ==
  ASSUME WatchdogTypeOK, Watch
  PROVE  /\ \/ faults' = faults /\ RoundEnds
            \/ /\ faults < MaxFaults /\ faults' = faults + 1
               /\ RoundEnds \/ (open' = open /\ paused' = paused)
         /\ "watchdog" \in turns /\ turns' = turns \ {"watchdog"}
         /\ UNCHANGED <<knobs, tracker, told, off, measured>>
<1>1. Round(TRUE) => RoundEnds
  BY RoundCases, Zenon
<1>2. Round(FALSE) => RoundEnds
  BY RoundCases, Zenon
<1>3. RoundFails => open' = open /\ paused' = paused
  BY DEF RoundFails, listener
<1> QED
  BY <1>1, <1>2, <1>3, Zenon DEF Watch, Fault

(* The settings a sweep can have read.                                     *)
Readable(set) ==
  /\ set.live \in BOOLEAN /\ set.slowAlarm \in BOOLEAN /\ set.quiet \in BOOLEAN
  /\ set.channels \in SUBSET Channel

(* What a sweep can do, whether something failed in it or not.             *)
SweepDoes(set) ==
  \/ UNCHANGED <<tracker, told, measured>>
  \/ Measured(set) /\ ~set.slowAlarm /\ UNCHANGED <<tracker, told>>
  \/ Measured(set) /\ set.slowAlarm /\ PassesGate(set, Verdict(tracker, answer))
  \/ Measured(set) /\ set.slowAlarm /\ GateFails(Verdict(tracker, answer))

LEMMA SweepCases ==
  ASSUME TypeOK, Sweep
  PROVE  /\ \E set : Readable(set) /\ SweepDoes(set)
         /\ \/ faults' = faults
            \/ faults < MaxFaults /\ faults' = faults + 1
         /\ "sweep" \in turns /\ turns' = turns \ {"sweep"}
         /\ UNCHANGED <<knobs, listener, off>>
<1>1. Readable(Settings)
  BY DEF Readable, Settings, TypeOK, WatchdogTypeOK
<1>2. ASSUME NEW unread \in SUBSET DOMAIN Settings
      PROVE  Readable([k \in DOMAIN Settings |->
                         IF k \in unread THEN Default[k] ELSE Settings[k]])
  BY DEF Readable, Settings, Default, TypeOK, WatchdogTypeOK
<1>3. ASSUME NEW set, Readable(set), SweepWith(set)
      PROVE  \E s : Readable(s) /\ SweepDoes(s)
  BY <1>3, Zenon DEF SweepWith, SweepDoes
<1>4. ASSUME SweepFails
      PROVE  \E s : Readable(s) /\ SweepDoes(s)
  <2>1. CASE \E unread \in (SUBSET DOMAIN Settings) \ {{}} :
               SweepWith([k \in DOMAIN Settings |->
                            IF k \in unread THEN Default[k] ELSE Settings[k]])
    BY <1>2, <1>3, <2>1
  <2>2. CASE live /\ slowAlarm /\ Measured(Settings) /\ GateFails(Verdict(tracker, answer))
    <3>1. Settings.slowAlarm
      BY <2>2 DEF Settings
    <3> QED
      BY <1>1, <2>2, <3>1, Zenon DEF SweepDoes
  <2>3. CASE UNCHANGED <<tracker, told, measured>>
    BY <1>1, <2>3, Zenon DEF SweepDoes
  <2> QED
    BY <1>4, <2>1, <2>2, <2>3, Zenon DEF SweepFails
<1> QED
  BY <1>1, <1>3, <1>4, Zenon DEF Sweep, Fault

LEMMA DeliveredType ==
  ASSUME NEW t \in Tracker, NEW b \in BOOLEAN
  PROVE  [t EXCEPT !.delivered = b] \in Tracker
BY DEF Tracker

LEMMA OlderType ==
  ASSUME tracker \in Tracker
  PROVE  OlderStreak(tracker) \in Tracker
BY AlarmNat DEF OlderStreak, Tracker

(* What is queued are messages, if there is anything to tell.              *)
LEMMA QueueType ==
  ASSUME warned \subseteq Channel,
         NEW cs \in SUBSET Channel, NEW v \in {"none", "slow", "slow_ok"},
         v = "none" => cs = {}, Queue(cs, v)
  PROVE  queue' \subseteq Channel \X {"slow", "slow_ok"} /\ warned' \subseteq Channel
BY DEF Queue

LEMMA TypeInit == Init => TypeOK
<1> SUFFICES ASSUME Init PROVE TypeOK
  OBVIOUS
<1>1. WatchdogTypeOK
  BY DEF Init, WatchdogInit, WatchdogTypeOK
<1>2. tracker \in Tracker
  BY DEF Init, NewTracker, Tracker
<1>3. faults \in 0..MaxFaults /\ off \in 0..MaxOff /\ slowFor \in 0..AlarmSec
  BY GraceNat, AlarmNat, FaultsNat DEF Init, MaxOff
<1>4. /\ slowAlarm \in BOOLEAN /\ quiet \in BOOLEAN /\ missed \in BOOLEAN
      /\ channels \subseteq Channel
  BY DEF Init
<1>5. /\ answer \in Measurement /\ turns \subseteq Turns
      /\ queue \subseteq Channel \X {"slow", "slow_ok"}
      /\ warned \subseteq Channel /\ passed \subseteq Channel
  BY DEF Init, Measurement
<1> QED
  BY <1>1, <1>2, <1>3, <1>4, <1>5 DEF TypeOK

LEMMA TypeStep == TypeOK /\ [Next]_vars => TypeOK'
<1> SUFFICES ASSUME TypeOK, [Next]_vars PROVE TypeOK'
  OBVIOUS
<1> USE GraceNat, AlarmNat, FaultsNat
<1> USE DEF TypeOK, WatchdogTypeOK, Turns, MaxOff
<1>1. CASE Sweep
  <2>0. PICK set : Readable(set) /\ SweepDoes(set)
    BY <1>1, SweepCases
  <2>1. Fed(tracker, answer) \in Tracker /\ Verdict(tracker, answer) \in {"none", "slow", "slow_ok"}
    BY FedType
  <2>2. /\ tracker' \in Tracker /\ passed' \subseteq Channel
        /\ queue' \subseteq Channel \X {"slow", "slow_ok"} /\ warned' \subseteq Channel
    <3>1. CASE PassesGate(set, Verdict(tracker, answer))
      <4>1. PICK b \in BOOLEAN : tracker' = [Fed(tracker, answer) EXCEPT !.delivered = b]
        BY <3>1, <2>1 DEF PassesGate, Tracker
      <4>2. tracker' \in Tracker
        BY <4>1, <2>1, DeliveredType
      <4>3. PICK cs \in SUBSET Channel :
              Queue(cs, Verdict(tracker, answer)) /\ (Verdict(tracker, answer) = "none" => cs = {})
        BY <2>0, <3>1 DEF PassesGate, Readable
      <4>4. queue' \subseteq Channel \X {"slow", "slow_ok"} /\ warned' \subseteq Channel
        BY <2>1, <4>3, QueueType
      <4>5. passed' \subseteq Channel
        BY <3>1 DEF PassesGate
      <4> QED
        BY <4>2, <4>4, <4>5
    <3>2. CASE UNCHANGED <<tracker, told>>
      BY <3>2 DEF told
    <3>3. CASE GateFails(Verdict(tracker, answer))
      <4>1. PICK cs \in SUBSET Channel : Queue(cs, Verdict(tracker, answer))
        BY <3>3 DEF GateFails
      <4>2. queue' \subseteq Channel \X {"slow", "slow_ok"} /\ warned' \subseteq Channel
        BY <2>1, <3>3, <4>1, QueueType DEF GateFails
      <4> QED
        BY <2>1, <3>3, <4>2 DEF GateFails
    <3> QED
      BY <2>0, <3>1, <3>2, <3>3, Zenon DEF SweepDoes
  <2>3. slowFor' \in 0..AlarmSec /\ missed' \in BOOLEAN
    <3>1. CASE Measured(set)
      <4>1. slowFor' \in {slowFor, 0}
        BY <3>1, Zenon DEF Measured
      <4>2. missed' = missed \/ missed' = ~set.slowAlarm
        BY <3>1, Zenon DEF Measured
      <4>3. missed' \in BOOLEAN
        BY <2>0, <4>2, Zenon DEF Readable
      <4> QED
        BY <4>1, <4>3
    <3>2. CASE UNCHANGED measured
      BY <3>2 DEF measured
    <3> QED
      BY <2>0, <3>1, <3>2, Zenon DEF SweepDoes
  <2>4. /\ UNCHANGED <<live, enabled, port, slowAlarm, channels, quiet, answer, open, paused, off>>
        /\ turns' = turns \ {"sweep"}
    BY <1>1, SweepCases DEF knobs, listener
  <2>5. faults' \in 0..MaxFaults
    BY <1>1, SweepCases
  <2> QED
    BY <2>2, <2>3, <2>4, <2>5
<1>2. CASE Watch
  <2>1. open' \in Port \cup {Closed} /\ paused' \in 0..Grace \cup {Running}
    BY <1>2, WatchCases DEF RoundEnds
  <2>2. faults' \in 0..MaxFaults
    BY <1>2, WatchCases
  <2>3. /\ UNCHANGED <<live, enabled, port, slowAlarm, channels, quiet, answer>>
        /\ UNCHANGED <<tracker, queue, warned, passed, off, slowFor, missed>>
        /\ turns' = turns \ {"watchdog"}
    BY <1>2, WatchCases DEF knobs, measured, told
  <2> QED
    BY <2>1, <2>2, <2>3
<1>3. CASE Tick
  <2>1. tracker' \in Tracker
    BY <1>3, OlderType DEF Tick
  <2>2. paused' \in 0..Grace \cup {Running}
    BY <1>3 DEF Tick, Aged
  <2> QED
    BY <1>3, <2>1, <2>2 DEF Tick, knobs
<1>4. CASE Operate
  <2>1. UNCHANGED <<answer, open, paused, tracker, queue, warned, passed, turns, faults,
                    slowFor, missed>>
    BY <1>4 DEF Operate, listener, measured, told
  <2>2. live' \in BOOLEAN /\ enabled' \in BOOLEAN /\ port' \in Port
    BY <1>4 DEF Operate
  <2>3. slowAlarm' \in BOOLEAN /\ channels' \subseteq Channel /\ quiet' \in BOOLEAN
    BY <1>4 DEF Operate
  <2>4. off' \in 0..MaxOff
    BY <1>4 DEF Operate
  <2> QED
    BY <2>1, <2>2, <2>3, <2>4
<1>5. CASE AnswerChanges
  BY <1>5 DEF AnswerChanges, listener, measured, watchdogSettings, told
<1>6. CASE Restart
  <2>1. tracker' \in Tracker
    BY <1>6 DEF Restart, NewTracker, Tracker
  <2>2. faults' \in 0..MaxFaults
    BY <1>6 DEF Restart, Fault
  <2>3. UNCHANGED <<live, enabled, port, slowAlarm, channels, quiet, answer, warned, slowFor>>
    BY <1>6, Zenon DEF Restart, knobs
  <2>4. /\ turns' = Turns /\ open' = Closed /\ paused' = Running
        /\ off' = 0 /\ missed' = FALSE /\ queue' = {} /\ passed' = {}
    BY <1>6, Zenon DEF Restart
  <2>5. WatchdogTypeOK'
    BY <2>3, <2>4
  <2>6. /\ slowAlarm' \in BOOLEAN /\ quiet' \in BOOLEAN /\ answer' \in Measurement
        /\ channels' \subseteq Channel /\ warned' \subseteq Channel /\ slowFor' \in 0..AlarmSec
    BY <2>3
  <2>7. off' \in 0..MaxOff
    BY <2>4
  <2>8. /\ turns' \subseteq Turns /\ missed' \in BOOLEAN
        /\ queue' \subseteq Channel \X {"slow", "slow_ok"} /\ passed' \subseteq Channel
    BY <2>4
  <2> QED
    BY <2>1, <2>2, <2>5, <2>6, <2>7, <2>8
<1>7. CASE UNCHANGED vars
  BY <1>7 DEF vars, knobs, listener, measured, told
<1> QED
  BY <1>1, <1>2, <1>3, <1>4, <1>5, <1>6, <1>7 DEF Next

(* Types: for every grace, alarm time and number of faults.                *)
THEOREM TypeCorrect == Spec => []TypeOK
<1>1. Init => TypeOK
  BY TypeInit
<1>2. TypeOK /\ [Next]_vars => TypeOK'
  BY TypeStep
<1> QED
  BY <1>1, <1>2, PTL DEF Spec

-----------------------------------------------------------------------------
LEMMA Longer ==
  ASSUME NEW a \in Nat, NEW k \in Nat, NEW m \in Nat, NEW n \in Nat, m <= n
  PROVE  /\ a <= m => a <= n
         /\ a <= m + 1 => a <= n + 1
         /\ a <= k + m => a <= k + n
         /\ a <= k + m + 1 => a <= k + n + 1
OBVIOUS

LEMMA PauseStep == TypeOK /\ PauseInv /\ [Next]_vars => PauseInv'
<1> SUFFICES ASSUME TypeOK, PauseInv, [Next]_vars PROVE PauseInv'
  OBVIOUS
<1>0. /\ off \in Nat /\ faults \in Nat /\ Grace \in Nat
      /\ paused \in Nat \/ paused = Running
      /\ open \in Port \cup {Closed}
  BY GraceNat, FaultsNat DEF TypeOK, WatchdogTypeOK, MaxOff
<1>00. WatchdogTypeOK
  BY DEF TypeOK
<1> USE DEF PauseInv, Within
<1>1. CASE Sweep
  <2>1. faults' \in Nat /\ faults' >= faults
    BY <1>0, <1>1, SweepCases
  <2>2. UNCHANGED <<live, enabled, open, paused, off>>
    BY <1>1, SweepCases DEF knobs, listener
  <2>3. "watchdog" \in turns' <=> "watchdog" \in turns
    BY <1>1, SweepCases
  <2>6. faults <= faults'
    BY <1>0, <2>1
  <2>4. /\ off <= faults => off <= faults'
        /\ off <= faults + 1 => off <= faults' + 1
        /\ off <= Grace + faults => off <= Grace + faults'
        /\ off <= Grace + faults + 1 => off <= Grace + faults' + 1
    BY <1>0, <2>1, <2>6, Longer
  <2>5. paused \notin {Running, Grace} /\ off <= paused + faults + 1 => off' <= paused' + faults' + 1
    BY <1>0, <2>1, <2>2
  <2> QED
    BY <2>2, <2>3, <2>4, <2>5
<1>2. CASE Watch
  <2>1. "watchdog" \in turns /\ "watchdog" \notin turns' /\ UNCHANGED <<live, enabled, off>>
    BY <1>2, <1>00, WatchCases DEF knobs
  <2>2. CASE RoundEnds /\ faults' \in Nat /\ faults' >= faults
    <3>1. CASE ~enabled /\ open' = Closed
      BY <2>1, <3>1
    <3>2. CASE enabled /\ live
      BY <1>0, <2>1, <2>2, <3>2
    <3>3. CASE enabled /\ ~live /\ paused = Running /\ paused' = 0
               /\ (open' = Closed \/ (open' = port /\ paused' < Grace))
      <4>1. off <= faults + 1
        BY <3>3
      <4>2. off' <= faults' + 1
        BY <1>0, <2>1, <2>2, <4>1, Longer
      <4>3. off' <= paused' + faults' + 1
        BY <1>0, <2>2, <3>3, <4>2
      <4>4. paused' # Running /\ (open' # Closed => paused' # Grace)
        BY <1>0, <3>3, GraceNat
      <4> QED
        BY <2>1, <3>3, <4>3, <4>4
    <3>4. CASE enabled /\ ~live /\ paused # Running /\ paused' = paused
               /\ (open' = Closed \/ (open' = port /\ paused' < Grace))
      <4>1. paused # Grace => off' <= paused' + faults' + 1
        BY <1>0, <2>1, <2>2, <3>4
      <4>2. open' # Closed => paused' # Grace
        BY <1>0, <3>4
      <4> QED
        BY <1>0, <2>1, <3>4, <4>1, <4>2
    <3> QED
      BY <2>2, <3>1, <3>2, <3>3, <3>4 DEF RoundEnds
  <2>3. CASE faults' = faults + 1 /\ open' = open /\ paused' = paused
    BY <1>0, <2>1, <2>3
  <2> QED
    BY <1>0, <1>2, <1>00, <2>2, <2>3, WatchCases
<1>3. CASE Tick
  <2>1. "watchdog" \notin turns /\ "watchdog" \in turns' /\ UNCHANGED <<live, enabled, open, faults>>
    BY <1>3 DEF Tick, Turns, knobs
  <2>2. off' = IF live /\ enabled THEN 0 ELSE IF off = MaxOff THEN off ELSE off + 1
    BY <1>3 DEF Tick
  <2>3. off' \in Nat /\ off' <= off + 1 /\ (live /\ enabled => off' = 0)
    BY <1>0, <2>2
  <2>4. paused' = Aged(paused)
    BY <1>3 DEF Tick
  <2>5. CASE paused = Running \/ paused = Grace
    <3>1. paused' = paused
      BY <2>4, <2>5 DEF Aged
    <3> QED
      BY <1>0, <2>1, <2>3, <2>5, <3>1, GraceNat
  <2>6. CASE ~(paused = Running \/ paused = Grace)
    <3>1. paused' = paused + 1 /\ paused' \in Nat
      BY <1>0, <2>4, <2>6 DEF Aged
    <3>2. enabled /\ ~live => off' <= paused' + faults + 1
      BY <1>0, <2>3, <2>6, <3>1
    <3>3. paused' # Running
      BY <1>3, <2>6, GraceNat DEF Tick, Aged, TypeOK, WatchdogTypeOK
    <3> QED
      BY <1>0, <2>1, <2>3, <3>1, <3>2, <3>3
  <2> QED
    BY <2>5, <2>6
<1>4. CASE Operate
  <2>1. CASE live' # live \/ enabled' # enabled
    <3>1. off' = 0 /\ UNCHANGED <<open, paused, turns, faults>>
      BY <1>4, <2>1 DEF Operate, listener
    <3> QED
      BY <1>0, <3>1
  <2>2. CASE ~(live' # live \/ enabled' # enabled)
    BY <1>0, <1>4, <2>2 DEF Operate, listener
  <2> QED
    BY <2>1, <2>2
<1>5. CASE AnswerChanges
  BY <1>0, <1>5 DEF AnswerChanges, listener, watchdogSettings
<1>6. CASE Restart
  <2>1. off' = 0 /\ open' = Closed /\ faults' = faults + 1 /\ paused' = Running
    BY <1>0, <1>6 DEF Restart, Fault
  <2> QED
    BY <1>0, <2>1
<1>7. CASE UNCHANGED vars
  BY <1>0, <1>7 DEF vars, knobs, listener
<1> QED
  BY <1>1, <1>2, <1>3, <1>4, <1>5, <1>6, <1>7 DEF Next

(* A forgotten pause is seen from outside, for every grace and any number  *)
(* of failed turns, each of which costs a tick.                            *)
THEOREM PauseSeenCorrect == Spec => []PauseSeen
<1>1. Init => PauseInv
  BY GraceNat, FaultsNat DEF Init, WatchdogInit, PauseInv, Within
<1>2. TypeOK /\ PauseInv /\ [Next]_vars => PauseInv'
  BY PauseStep
<1>3. TypeOK /\ PauseInv => PauseSeen
  BY GraceNat, FaultsNat DEF TypeOK, WatchdogTypeOK, PauseInv, PauseSeen, Within
<1> QED
  BY <1>1, <1>2, <1>3, TypeCorrect, PTL DEF Spec

-----------------------------------------------------------------------------
(* What feeding makes of a streak, and which verdicts there are.           *)
LEMMA FedParts ==
  ASSUME tracker \in Tracker
  PROVE  /\ answer = "slow" => /\ Fed(tracker, answer).delivered = tracker.delivered
                               /\ tracker.streak = Normal => Fed(tracker, answer).streak = 0
                               /\ tracker.streak # Normal => Fed(tracker, answer).streak = tracker.streak
         /\ answer # "slow" => Fed(tracker, answer).streak = Normal /\ Fed(tracker, answer).delivered = FALSE
         /\ Verdict(tracker, answer) = "slow" => answer = "slow" /\ Fed(tracker, answer).streak = AlarmSec
         /\ Verdict(tracker, answer) = "slow_ok" => tracker.delivered
BY DEF Fed, Verdict, Tracker, NewTracker

(* A sweep that has measured the host, and fed the tracker or not.  What   *)
(* it queues is the verdict, and the channels that are not told of an      *)
(* alarm that is delivered are those it passes over.                       *)
SweepEnds(set) ==
  \/ UNCHANGED <<tracker, told, slowFor, missed>>
  \/ Measured(set) /\ ~set.slowAlarm /\ UNCHANGED <<tracker, told>>
  \/ /\ Measured(set) /\ set.slowAlarm
     /\ tracker'.streak = Fed(tracker, answer).streak
     /\ queue' \subseteq Channel \X {Verdict(tracker, answer)}
     /\ tracker'.delivered =>
          \/ Verdict(tracker, answer) = "slow" /\ warned' \cup passed' = Channel
          \/ /\ Fed(tracker, answer).delivered
             /\ Verdict(tracker, answer) = "none" /\ UNCHANGED <<warned, passed>>

LEMMA QueueNothing == ASSUME Queue({}, "none") PROVE warned' = warned
BY DEF Queue

LEMMA SweepFeeds ==
  ASSUME TypeOK, Sweep
  PROVE  \E set : Readable(set) /\ SweepEnds(set)
<1>0. PICK set : Readable(set) /\ SweepDoes(set)
  BY SweepCases
<1>1. Fed(tracker, answer) \in Tracker
  BY FedType DEF TypeOK
<1> DEFINE v == Verdict(tracker, answer)
<1>2. v \in {"none", "slow", "slow_ok"} /\ (Fed(tracker, answer).delivered => v = "none")
      /\ (Fed(tracker, answer).delivered => answer = "slow")
  BY DEF TypeOK, Tracker, Fed, Verdict, NewTracker
<1>3. ASSUME PassesGate(set, v), Measured(set), set.slowAlarm
      PROVE  SweepEnds(set)
  <2>1. tracker'.streak = Fed(tracker, answer).streak
    BY <1>1, <1>3 DEF PassesGate, Tracker
  <2>2. tracker'.delivered => Fed(tracker, answer).delivered \/ (v = "slow" /\ ~set.quiet)
    BY <1>1, <1>3, <1>0 DEF PassesGate, Tracker, Readable
  <2>3. queue' \subseteq Channel \X {v}
    BY <1>0, <1>3 DEF PassesGate, Queue, Readable
  <2>4. v = "slow" /\ ~set.quiet => warned' \cup passed' = Channel
    BY <1>0, <1>3 DEF PassesGate, Queue, Readable, TypeOK
  <2>5. v = "none" /\ answer = "slow" => warned' = warned /\ passed' = passed
    <3> SUFFICES ASSUME v = "none", answer = "slow" PROVE warned' = warned /\ passed' = passed
      OBVIOUS
    <3>1. Queue({}, "none")
      BY <1>3 DEF PassesGate
    <3>2. passed' = passed
      BY <1>3 DEF PassesGate
    <3> QED
      BY <3>1, <3>2, QueueNothing
  <2> HIDE DEF v
  <2>6. tracker'.delivered =>
          \/ v = "slow" /\ warned' \cup passed' = Channel
          \/ /\ Fed(tracker, answer).delivered
             /\ v = "none" /\ UNCHANGED <<warned, passed>>
    BY <1>2, <2>2, <2>4, <2>5
  <2> QED
    BY <1>3, <2>1, <2>3, <2>6, Zenon DEF SweepEnds, v
<1>4. ASSUME GateFails(v), Measured(set), set.slowAlarm
      PROVE  SweepEnds(set)
  <2>1. tracker' = Fed(tracker, answer) /\ v # "none"
    BY <1>4 DEF GateFails
  <2>2. ~tracker'.delivered
    BY <1>2, <2>1
  <2>3. queue' \subseteq Channel \X {v}
    BY <1>4 DEF GateFails, Queue, TypeOK
  <2> QED
    BY <1>4, <2>1, <2>2, <2>3, Zenon DEF SweepEnds
<1>5. UNCHANGED <<tracker, told, measured>> => SweepEnds(set)
  BY DEF SweepEnds, measured
<1>6. Measured(set) /\ ~set.slowAlarm /\ UNCHANGED <<tracker, told>> => SweepEnds(set)
  BY DEF SweepEnds
<1> QED
  BY <1>0, <1>3, <1>4, <1>5, <1>6, Zenon DEF SweepDoes

(* No other step feeds the tracker or tells anything.                      *)
LEMMA OthersTellNothing ==
  ASSUME [Next]_vars, ~Sweep
  PROVE  /\ warned' = warned
         /\ queue' = queue \/ queue' = {}
         /\ \/ tracker' = tracker /\ slowFor' = slowFor /\ missed' = missed /\ passed' = passed
            \/ Tick
            \/ tracker' = NewTracker
BY Zenon DEF Next, vars, measured, told, Watch, Operate, AnswerChanges, Restart, Tick

LEMMA StreakStep == TypeOK /\ StreakInv /\ [Next]_vars => StreakInv'
<1> SUFFICES ASSUME TypeOK, StreakInv, [Next]_vars PROVE StreakInv'
  OBVIOUS
<1>0. /\ slowFor \in 0..AlarmSec /\ AlarmSec \in Nat /\ Normal \notin 0..AlarmSec
      /\ tracker \in Tracker /\ tracker.streak \in 0..AlarmSec \cup {Normal}
  BY AlarmNat DEF TypeOK, Tracker
<1>1. CASE Sweep
  <2>0. PICK set : Readable(set) /\ SweepEnds(set)
    BY <1>1, SweepFeeds
  <2>1. CASE UNCHANGED <<tracker, told, slowFor, missed>>
    BY <2>1 DEF StreakInv
  <2>2. CASE Measured(set) /\ ~set.slowAlarm /\ UNCHANGED <<tracker, told>>
    BY <2>2 DEF StreakInv, Measured
  <2>3. CASE Measured(set) /\ set.slowAlarm /\ tracker'.streak = Fed(tracker, answer).streak
    <3>1. CASE answer = "slow"
      <4>1. slowFor' = slowFor /\ missed' = missed
        BY <2>3, <3>1 DEF Measured
      <4>2. CASE tracker.streak = Normal
        <5>1. tracker'.streak = 0
          BY <1>0, <2>3, <3>1, <4>2, FedParts
        <5> QED
          BY <1>0, <4>1, <5>1 DEF StreakInv
      <4>3. CASE tracker.streak # Normal
        <5>1. tracker'.streak = tracker.streak
          BY <1>0, <2>3, <3>1, <4>3, FedParts
        <5> QED
          BY <4>1, <4>3, <5>1 DEF StreakInv
      <4> QED
        BY <4>2, <4>3
    <3>2. CASE answer # "slow"
      BY <1>0, <2>3, <3>2, FedParts DEF StreakInv
    <3> QED
      BY <3>1, <3>2
  <2> QED
    BY <2>0, <2>1, <2>2, <2>3, Zenon DEF SweepEnds
<1>2. CASE Tick
  <2>1. tracker' = OlderStreak(tracker) /\ missed' = missed
        /\ slowFor' = IF slowFor = AlarmSec THEN slowFor ELSE slowFor + 1
    BY <1>2 DEF Tick
  <2>2. CASE tracker.streak = Normal
    BY <2>1, <2>2 DEF StreakInv, OlderStreak
  <2>3. CASE tracker.streak = AlarmSec
    BY <1>0, <2>1, <2>3 DEF StreakInv, OlderStreak
  <2>4. CASE tracker.streak \notin {Normal, AlarmSec}
    <3>1. tracker'.streak = tracker.streak + 1 /\ tracker.streak \in 0..AlarmSec
      BY <1>0, <2>1, <2>4 DEF OlderStreak, Tracker
    <3>2. CASE slowFor = AlarmSec
      BY <1>0, <2>1, <2>4, <3>1, <3>2 DEF StreakInv
    <3>3. CASE slowFor # AlarmSec
      BY <1>0, <2>1, <2>4, <3>1, <3>3 DEF StreakInv
    <3> QED
      BY <3>2, <3>3
  <2> QED
    BY <2>2, <2>3, <2>4
<1>3. CASE tracker' = NewTracker
  BY <1>3 DEF StreakInv, NewTracker
<1>4. CASE tracker' = tracker /\ slowFor' = slowFor /\ missed' = missed
  BY <1>4 DEF StreakInv
<1> QED
  BY <1>1, <1>2, <1>3, <1>4, OthersTellNothing

(* An alarm is about slowness that has lasted, for every alarm time: the   *)
(* streak is no older than the slowness, so one that is old enough means   *)
(* that the slowness is.                                                   *)
THEOREM SlowSustainedCorrect == Spec => SlowSustained
<1>1. Init => StreakInv
  BY DEF Init, StreakInv, NewTracker
<1>2. TypeOK /\ StreakInv /\ [Next]_vars => StreakInv'
  BY StreakStep
<1> DEFINE Told == \E c \in Channel : <<c, "slow">> \in queue' \ queue
           Marked == tracker'.delivered /\ ~tracker.delivered
<1>3. ASSUME TypeOK, StreakInv, [Next]_vars, Told \/ Marked
      PROVE  slowFor = AlarmSec \/ missed
  <2>1. Sweep
    <3>1. ASSUME ~Sweep PROVE tracker' = tracker \/ tracker' = NewTracker
                              \/ tracker' = OlderStreak(tracker)
      BY <1>3, <3>1, OthersTellNothing DEF Tick
    <3>2. ~Sweep => ~Marked
      BY <1>3, <3>1 DEF NewTracker, OlderStreak, TypeOK, Tracker
    <3>3. ~Sweep => ~Told
      BY <1>3, OthersTellNothing
    <3> QED
      BY <1>3, <3>2, <3>3
  <2>2. PICK set : Readable(set) /\ SweepEnds(set)
    BY <1>3, <2>1, SweepFeeds
  <2>3. Fed(tracker, answer).delivered => tracker.delivered
    BY <1>3, FedParts DEF TypeOK, Tracker
  <2>4. Verdict(tracker, answer) = "slow"
    <3>1. CASE UNCHANGED <<tracker, told>>
      BY <1>3, <3>1 DEF told
    <3>2. CASE /\ queue' \subseteq Channel \X {Verdict(tracker, answer)}
               /\ tracker'.delivered => \/ Verdict(tracker, answer) = "slow"
                                        \/ Fed(tracker, answer).delivered
      BY <1>3, <2>3, <3>2
    <3> QED
      BY <2>2, <3>1, <3>2, Zenon DEF SweepEnds, told
  <2>5. answer = "slow" /\ Fed(tracker, answer).streak = AlarmSec
    BY <1>3, <2>4, FedParts DEF TypeOK
  <2>6. CASE tracker.streak = Normal
    BY <1>3, <2>5, <2>6, AlarmNat, FedParts DEF TypeOK
  <2>7. CASE tracker.streak # Normal
    BY <1>3, <2>5, <2>7, AlarmNat, FedParts DEF TypeOK, StreakInv
  <2> QED
    BY <2>6, <2>7
<1>4. TypeOK /\ StreakInv /\ [Next]_vars =>
        [Told \/ Marked => slowFor = AlarmSec \/ missed]_vars
  BY <1>3
<1> QED
  BY <1>1, <1>2, <1>4, TypeCorrect, PTL DEF Spec, SlowSustained

-----------------------------------------------------------------------------
LEMMA DeliveredStep == TypeOK /\ DeliveredInv /\ [Next]_vars => DeliveredInv'
<1> SUFFICES ASSUME TypeOK, DeliveredInv, [Next]_vars PROVE DeliveredInv'
  OBVIOUS
<1>0. tracker \in Tracker
  BY DEF TypeOK
<1>1. CASE Sweep
  <2>0. PICK set : Readable(set) /\ SweepEnds(set)
    BY <1>1, SweepFeeds
  <2>1. "sweep" \notin turns'
    BY <1>1, SweepCases
  <2>2. CASE UNCHANGED <<tracker, told>>
    BY <2>1, <2>2 DEF DeliveredInv, told
  <2>3. CASE tracker'.delivered =>
               \/ warned' \cup passed' = Channel
               \/ Fed(tracker, answer).delivered /\ UNCHANGED <<warned, passed>>
    <3>1. Fed(tracker, answer).delivered => tracker.delivered
      BY <1>0, FedParts DEF Tracker
    <3> QED
      BY <2>1, <2>3, <3>1 DEF DeliveredInv
  <2> QED
    BY <2>0, <2>2, <2>3, Zenon DEF SweepEnds, told
<1>2. CASE Tick
  <2>1. tracker'.delivered = tracker.delivered /\ UNCHANGED <<warned, passed>> /\ queue' = {}
    BY <1>0, <1>2 DEF Tick, OlderStreak, Tracker
  <2> QED
    BY <2>1 DEF DeliveredInv
<1>3. CASE Restart
  BY <1>3 DEF Restart, DeliveredInv, NewTracker
<1>4. CASE Watch \/ Operate \/ AnswerChanges \/ UNCHANGED vars
  <2>1. UNCHANGED <<tracker, queue, warned, passed>> /\ ("sweep" \in turns' => "sweep" \in turns)
    BY <1>4 DEF Watch, Operate, AnswerChanges, vars, told
  <2> QED
    BY <2>1 DEF DeliveredInv
<1> QED
  BY <1>1, <1>2, <1>3, <1>4 DEF Next

(* Normal answers are told of only to a channel whose last word is of slow *)
(* ones, or that the alarm passed over, because every channel is one or    *)
(* the other while the alarm counts as delivered (monitor.rs:502-571).     *)
THEOREM SlowPairedCorrect == Spec => SlowPaired
<1>1. Init => DeliveredInv
  BY DEF Init, DeliveredInv, NewTracker
<1>2. TypeOK /\ DeliveredInv /\ [Next]_vars => DeliveredInv'
  BY DeliveredStep
<1>3. ASSUME TypeOK, DeliveredInv, [Next]_vars, NEW c \in Channel,
             <<c, "slow_ok">> \in queue' \ queue
      PROVE  c \in warned \cup passed
  <2>1. Sweep
    BY <1>3, OthersTellNothing
  <2>2. PICK set : Readable(set) /\ SweepEnds(set)
    BY <1>3, <2>1, SweepFeeds
  <2>3. queue' # queue
    BY <1>3
  <2>4. queue' \subseteq Channel \X {Verdict(tracker, answer)}
    BY <2>2, <2>3, Zenon DEF SweepEnds, told
  <2>5. Verdict(tracker, answer) = "slow_ok"
    BY <1>3, <2>4
  <2> QED
    BY <1>3, <2>5, FedParts DEF TypeOK, DeliveredInv
<1>4. TypeOK /\ DeliveredInv /\ [Next]_vars =>
        [\A c \in Channel :
           <<c, "slow_ok">> \in queue' \ queue => c \in warned \cup passed]_vars
  BY <1>3
<1> QED
  BY <1>1, <1>2, <1>4, TypeCorrect, PTL DEF Spec, SlowPaired
=============================================================================
