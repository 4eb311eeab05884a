----------------------------- MODULE Supervision -----------------------------
(***************************************************************************)
(* What is kept in memory only while the service runs: the tracker of the  *)
(* latency alarm, with the part of the sweep that feeds it and passes its  *)
(* gate (src/src/engine/monitor.rs), and the watchdog.  The two tasks read *)
(* the same settings at their own times, share nothing else, and start     *)
(* from nothing after a restart.                                           *)
(*                                                                         *)
(* Time goes by in ticks, in which the sweep and the watchdog have one     *)
(* turn each.                                                              *)
(***************************************************************************)
EXTENDS Watchdog, SlowAlarm

CONSTANTS
  Channel,    \* what settings.channels can list
  MaxFaults   \* bound on failed calls and restarts

ASSUME SupervisionAssumption == MaxFaults \in Nat

VARIABLES
  slowAlarm,  \* settings.slow_alarm
  channels,   \* those of settings.channels that the host has not opted out of
  quiet,      \* alarms are off, or something holds back this host's
  answer,     \* what a measurement of the host would be
  tracker,
  queue,      \* the messages that were queued in this tick
  warned,     \* history: the channels whose last message is of slow answers
  passed,     \* history: those that the alarm which counts as delivered passed over
  turns,      \* who has had no turn yet in this tick
  faults,
  off,        \* history: time since live or enabled were switched, or both on
  slowFor,    \* history: time since a measurement that was not slow
  missed      \* history: since then one was not fed to the tracker

measured == <<slowFor, missed>>
told     == <<queue, warned, passed>>
knobs    == <<live, enabled, port, slowAlarm, channels, quiet, answer>>
vars     == <<knobs, listener, tracker, told, turns, faults, off, measured>>

MaxOff == Grace + MaxFaults + 2

Fault == faults < MaxFaults /\ faults' = faults + 1

-----------------------------------------------------------------------------
(* What load_settings makes of the stored settings, and of one that cannot *)
(* be read.                                                                *)
Settings == [live |-> live, slowAlarm |-> slowAlarm, quiet |-> quiet, channels |-> channels]
Default  == [live |-> TRUE, slowAlarm |-> FALSE, quiet |-> FALSE, channels |-> {}]

Queue(cs, v) ==
  /\ queue' = cs \X {v}
  /\ warned' = IF v = "slow" THEN warned \cup cs ELSE warned \ cs

(* Mutant: told or not, the streak is done with.                           *)
PassesGateOnce(set, v) ==
  /\ Queue(IF set.quiet \/ v = "none" THEN {} ELSE set.channels, v)
  /\ tracker' = [Fed(tracker, answer) EXCEPT !.delivered = @ \/ v = "slow"]
  /\ passed' = IF answer = "slow" THEN passed ELSE {}

(* The gate: what is held back is not marked as delivered, so that an      *)
(* alarm comes again with the next measurement; a recovery does not.  What *)
(* is not held back goes to the channels there are, and an alarm that      *)
(* there is none for is delivered as well.                                 *)
PassesGate(set, v) ==
  LET delivered == v = "slow" /\ ~set.quiet IN
  /\ Queue(IF set.quiet \/ v = "none" THEN {} ELSE set.channels, v)
  /\ tracker' = [Fed(tracker, answer) EXCEPT !.delivered = @ \/ delivered]
  /\ passed' = IF delivered THEN Channel \ set.channels
               ELSE IF answer = "slow" THEN passed ELSE {}

(* The call that queues the messages fails, before, between or after its   *)
(* inserts, or one before it does.                                         *)
GateFails(v) ==
  /\ ~quiet /\ v # "none"
  /\ \E cs \in SUBSET channels : Queue(cs, v)
  /\ tracker' = Fed(tracker, answer)
  /\ passed' = {}

Measured(set) ==
  IF answer = "slow"
  THEN slowFor' = slowFor /\ missed' = missed
  ELSE slowFor' = 0 /\ missed' = ~set.slowAlarm

(* What a sweep does with the settings it has read.                        *)
SweepWith(set) ==
  \/ ~set.live /\ UNCHANGED <<tracker, told, measured>>
  \/ set.live /\ ~set.slowAlarm /\ Measured(set) /\ UNCHANGED <<tracker, told>>
  \/ /\ set.live /\ set.slowAlarm /\ Measured(set)
     /\ PassesGate(set, Verdict(tracker, answer))

(* Some of the settings cannot be read and count as their defaults, a call *)
(* at the gate fails, or the sweep does at its beginning.                  *)
SweepFails ==
  \/ \E unread \in (SUBSET DOMAIN Settings) \ {{}} :
       SweepWith([k \in DOMAIN Settings |-> IF k \in unread THEN Default[k] ELSE Settings[k]])
  \/ live /\ slowAlarm /\ Measured(Settings) /\ GateFails(Verdict(tracker, answer))
  \/ UNCHANGED <<tracker, told, measured>>

Sweep ==
  /\ "sweep" \in turns
  /\ turns' = turns \ {"sweep"}
  /\ \/ SweepWith(Settings) /\ UNCHANGED faults
     \/ SweepFails /\ Fault
  /\ UNCHANGED <<knobs, listener, off>>

Watch ==
  /\ "watchdog" \in turns
  /\ turns' = turns \ {"watchdog"}
  /\ \/ Round(TRUE) /\ UNCHANGED faults
     \/ (Round(FALSE) \/ RoundFails) /\ Fault
  /\ UNCHANGED <<knobs, tracker, told, off, measured>>

Turns == {"watchdog", "sweep"}

Tick ==
  /\ turns = {}
  /\ turns' = Turns
  /\ paused' = Aged(paused)
  /\ tracker' = OlderStreak(tracker)
  /\ queue' = {}
  /\ off' = IF live /\ enabled THEN 0 ELSE IF off = MaxOff THEN off ELSE off + 1
  /\ slowFor' = IF slowFor = AlarmSec THEN slowFor ELSE slowFor + 1
  /\ UNCHANGED <<knobs, open, warned, passed, faults, missed>>

(* An operator changes one of the settings.                                *)
Operate ==
  /\ \/ live' = ~live /\ UNCHANGED <<enabled, port, slowAlarm, channels, quiet>>
     \/ enabled' = ~enabled /\ UNCHANGED <<live, port, slowAlarm, channels, quiet>>
     \/ port' \in Port \ {port} /\ UNCHANGED <<live, enabled, slowAlarm, channels, quiet>>
     \/ slowAlarm' = ~slowAlarm /\ UNCHANGED <<live, enabled, port, channels, quiet>>
     \/ channels' \in (SUBSET Channel) \ {channels}
        /\ UNCHANGED <<live, enabled, port, slowAlarm, quiet>>
     \/ quiet' = ~quiet /\ UNCHANGED <<live, enabled, port, slowAlarm, channels>>
  /\ off' = IF live' # live \/ enabled' # enabled THEN 0 ELSE off
  /\ UNCHANGED <<answer, listener, tracker, told, turns, faults, measured>>

AnswerChanges ==
  /\ answer' \in Measurement \ {answer}
  /\ UNCHANGED <<live, watchdogSettings, slowAlarm, channels, quiet, listener, tracker,
                 told, turns, faults, off, measured>>

(* The service starts again: nothing of this is kept.                      *)
Restart ==
  /\ Fault
  /\ turns' = Turns
  /\ open' = Closed /\ paused' = Running
  /\ tracker' = NewTracker
  /\ queue' = {} /\ passed' = {}
  /\ off' = 0 /\ missed' = FALSE
  /\ UNCHANGED <<knobs, warned, slowFor>>

Init ==
  /\ WatchdogInit
  /\ slowAlarm = TRUE /\ channels = Channel /\ quiet = FALSE
  /\ answer = "fast"
  /\ tracker = NewTracker
  /\ queue = {} /\ warned = {} /\ passed = {}
  /\ turns = Turns /\ faults = 0
  /\ off = 0 /\ slowFor = 0 /\ missed = FALSE

Next ==
  \/ Sweep \/ Watch \/ Tick
  \/ Operate \/ AnswerChanges
  \/ Restart

Spec == Init /\ [][Next]_vars /\ WF_vars(Sweep) /\ WF_vars(Watch) /\ WF_vars(Tick)

-----------------------------------------------------------------------------
TypeOK ==
  /\ WatchdogTypeOK
  /\ slowAlarm \in BOOLEAN /\ channels \subseteq Channel /\ quiet \in BOOLEAN
  /\ answer \in Measurement /\ tracker \in Tracker
  /\ queue \subseteq Channel \X {"slow", "slow_ok"}
  /\ warned \subseteq Channel /\ passed \subseteq Channel
  /\ turns \subseteq Turns
  /\ faults \in 0..MaxFaults /\ off \in 0..MaxOff
  /\ slowFor \in 0..AlarmSec /\ missed \in BOOLEAN

(* A pause that is forgotten is seen from outside (watchdog.rs:15-25): the *)
(* port is open only as long after monitoring or the watchdog were last    *)
(* switched off, or the service was started, as the grace allows, give or  *)
(* take the turns that failed.                                             *)
PauseSeen == open # Closed => off <= Grace + 1 + faults

(* An alarm means that the host was slow in every measurement for as long  *)
(* as the settings say, unless the latency alarm was switched off, or its  *)
(* setting could not be read, when one was not.                            *)
SlowSustained ==
  [][(\E c \in Channel : <<c, "slow">> \in queue' \ queue)
       \/ (tracker'.delivered /\ ~tracker.delivered) =>
     slowFor = AlarmSec \/ missed]_vars

(* Word of normal answers comes in pairs with word of slow ones: a channel *)
(* gets it only if the last it got is of slow answers, whatever was held   *)
(* back, lost on the way, switched and forgotten in between.  The channels *)
(* are read with each sweep: one that the alarm passed over, because it    *)
(* was not configured or not readable then, gets it unasked.               *)
SlowPaired ==
  [][\A c \in Channel :
       <<c, "slow_ok">> \in queue' \ queue => c \in warned \cup passed]_vars

(* If the port should be open from some time on, it is, and the right one, *)
(* whatever failed before.                                                 *)
HeartbeatHeard ==
  \A p \in Port : <>[](enabled /\ live /\ port = p) => <>[](open = p)

(* Slowness that lasts is told, once nothing holds it back, to each of the *)
(* channels there are, except those that an alarm about it passed over: it *)
(* is not repeated for them.                                               *)
SlowTold ==
  \A c \in Channel :
    <>[](live /\ slowAlarm /\ ~quiet /\ answer = "slow" /\ c \in channels) =>
      <>[](c \in warned \cup passed)
=============================================================================
