------------------------------ MODULE Monitor -------------------------------
(***************************************************************************)
(* The monitoring loop (src/src/engine/monitor.rs) with the rows it keeps  *)
(* in host_status: which hosts are polled, how a sweep's measurements      *)
(* become confirmed statuses, and how the alarm gate turns the difference  *)
(* between the confirmed and the reported status into queued deliveries.   *)
(*                                                                         *)
(* A sweep is one pass of an async function over state that the HTTP API   *)
(* changes meanwhile: it reads settings, hosts, windows and stored rows    *)
(* once (seen), waits for the probes, and then writes host by host, each   *)
(* write a database call of its own.  Every call is a step here, so        *)
(* operators, the clock, failures and restarts come between any two.       *)
(***************************************************************************)
EXTENDS Flap

CONSTANTS
  Host,           \* the rows of the hosts table, by address
  Channel,        \* what settings.channels can list
  Sms,            \* the channel a host can opt out of
  NoHost,         \* "depends on nothing"
  Parent,         \* Parent[h]: hosts.depends_on_address
  FailPeriod,     \* per host, in ticks: hysteresis_for
  SuccessPeriod,
  Interval,       \* per host, in ticks: hosts.interval_sec
  Knobs,          \* what the operators change, some of
                  \* {"live", "alarms", "channels", "sms", "held", "enabled"}
  MaxFaults,      \* bound on crashes, failed calls and died probe tasks
  MaxTorn,        \* bound on faults between the statements of one call
  NoState, NoRow  \* "no entry"

ASSUME MonitorAssumption ==
  /\ Parent \in [Host -> Host \cup {NoHost}]
  /\ NoHost \notin Host
  /\ FailPeriod \in [Host -> 0..MaxAge]
  /\ SuccessPeriod \in [Host -> 0..MaxAge]
  /\ Interval \in [Host -> Nat \ {0}]
  /\ MaxFaults \in Nat
  /\ MaxTorn \in Nat
  /\ NoState \notin HostMonitorState
  /\ NoRow \notin [status : Status, reported : Status]

VARIABLES
  (* The database, as the API handlers and the monitor leave it.           *)
  enabled,   \* hosts with hosts.enabled = 1
  live,      \* settings.live
  alarms,    \* settings.alarms
  channels,  \* settings.channels
  smsOff,    \* hosts with hosts.sms_enabled = 0
  held,      \* hosts that are snoozed or in an active maintenance window
  row,       \* host_status: the confirmed and the reported status
  feed,      \* history: the last event enqueued per host and channel
  (* The network.                                                          *)
  answers,   \* hosts that would answer a probe now
  (* The monitor's memory.                                                 *)
  mem,       \* Monitor.state: flap state per address
  wait,      \* Monitor.next_due: ticks until due, 0 when due or absent
  pc,        \* "boot", "idle", "probing" or "writing"
  seen,      \* what the sweep read when it began
  active,    \* the hosts it probes
  updated,   \* the hosts it has a measurement of
  save,      \* the hosts whose record_poll is still to come
  quiet,     \* the hosts to advance without an alarm
  news,      \* the hosts whose alarm is still to pass the gate
  (* Bookkeeping of the model.                                             *)
  faults,    \* how many faults have happened
  tornCount, \* how many of the torn ones
  torn,      \* history: hosts whose last announcement was cut short
  passed     \* history: the channels a host's last announcement passed over

settings == <<live, alarms, channels>>
database == <<enabled, settings, smsOff, held, row, feed>>
sweep    == <<seen, active, updated, save, quiet, news>>
process  == <<mem, wait, pc, sweep>>
budget   == <<faults, tornCount, torn, passed>>
vars     == <<database, answers, process, budget>>

Row == [status : Status, reported : Status]

StatusOf(r)   == IF r = NoRow THEN "unknown" ELSE r.status
ReportedOf(r) == IF r = NoRow THEN "unknown" ELSE r.reported

(* What load_settings makes of the stored settings, and of one that cannot *)
(* be read.                                                                *)
Settings == [live |-> live, alarms |-> alarms, channels |-> channels]
Default  == [live |-> TRUE, alarms |-> TRUE, channels |-> {}]

ChannelsFor(h, cs) == {c \in cs : c # Sms \/ h \notin smsOff}

-----------------------------------------------------------------------------
(* The decisions of a sweep.                                               *)

(* Mutant: a first "up" is announced too.                                  *)
IsAnyNews(confirmed, reported) == confirmed # reported /\ confirmed # "unknown"

IsNews(confirmed, reported) ==
  /\ confirmed # reported
  /\ confirmed # "unknown"
  /\ ~(confirmed = "up" /\ reported # "down")

IsQuiet(confirmed, reported) ==
  /\ confirmed # reported
  /\ confirmed # "unknown"
  /\ ~IsNews(confirmed, reported)

Due == {h \in enabled : wait[h] = 0}

OutcomeOf(h) == IF h \in answers THEN "success" ELSE "fail"

EntryOf(h) ==
  IF mem[h] = NoState THEN FromPersisted(StatusOf(seen.row[h])) ELSE mem[h]

Polled(h) == RegisterPoll(EntryOf(h), OutcomeOf(h), FailPeriod[h], SuccessPeriod[h])

(* Mutant: no damping behind a parent.                                     *)
SuppressedByHold(h) == h \in seen.held

(* Snoozed or in a window when the sweep read them, or behind a parent     *)
(* that this same sweep measured and holds to be down.                     *)
Suppressed(h) ==
  \/ h \in seen.held
  \/ /\ Parent[h] \in updated
     /\ mem[Parent[h]].status = "down"

-----------------------------------------------------------------------------
NoSweep == [alarms |-> FALSE, held |-> {}, row |-> [h \in Host |-> NoRow],
            to |-> [h \in Host |-> {}]]

SweepOver ==
  /\ seen' = NoSweep
  /\ active' = {} /\ updated' = {} /\ save' = {} /\ quiet' = {} /\ news' = {}

Init ==
  /\ enabled = Host
  /\ live = TRUE /\ alarms = TRUE /\ channels = Channel
  /\ smsOff = {} /\ held = {}
  /\ row = [h \in Host |-> NoRow]
  /\ feed = [h \in Host |-> [c \in Channel |-> "none"]]
  /\ answers = Host
  /\ mem = [h \in Host |-> NoState]
  /\ wait = [h \in Host |-> 0]
  /\ pc = "boot"
  /\ seen = NoSweep
  /\ active = {} /\ updated = {} /\ save = {} /\ quiet = {} /\ news = {}
  /\ faults = 0 /\ tornCount = 0
  /\ torn = {} /\ passed = [h \in Host |-> {}]

(* Monitor::run: rebuild the flap state from the persisted statuses.       *)
Boot ==
  /\ pc = "boot"
  /\ mem' = [h \in Host |-> IF row[h] = NoRow THEN NoState
                            ELSE FromPersisted(row[h].status)]
  /\ pc' = "idle"
  /\ UNCHANGED <<database, answers, wait, sweep, budget>>

(* Monitoring is paused: forget the schedule.                              *)
SweepPaused ==
  /\ pc = "idle" /\ ~live
  /\ wait' = [h \in Host |-> 0]
  /\ UNCHANGED <<database, answers, mem, pc, sweep, budget>>

(* Read everything, pick the hosts that are due, set their next time, and  *)
(* send the probes off.  For each host, to holds the channels that an      *)
(* alarm of this sweep goes to.                                            *)
Begin(set) ==
  /\ pc = "idle" /\ set.live
  /\ Due # {}
  /\ seen' = [alarms |-> set.alarms, held |-> held, row |-> row,
              to |-> [h \in Host |-> ChannelsFor(h, set.channels)]]
  /\ active' = Due
  /\ wait' = [h \in Host |-> IF h \in Due THEN Interval[h] ELSE wait[h]]
  /\ pc' = "probing"
  /\ UNCHANGED <<database, answers, mem, updated, save, quiet, news>>

SweepStart == Begin(Settings) /\ UNCHANGED budget

(* All probes are in.  A host whose probe task died has no result and is   *)
(* passed over; the others register their poll, all before any write.      *)
Measure(lost) ==
  LET got == active \ lost IN
  /\ pc = "probing"
  /\ updated' = got
  /\ save' = got
  /\ mem' = [h \in Host |-> IF h \in got THEN Polled(h) ELSE mem[h]]
  /\ news' = {h \in got : IsNews(Polled(h).status, ReportedOf(seen.row[h]))}
  /\ quiet' = {h \in got : IsQuiet(Polled(h).status, ReportedOf(seen.row[h]))}
  /\ pc' = "writing"
  /\ UNCHANGED <<database, answers, wait, seen, active>>

MeasureAll  == Measure({}) /\ UNCHANGED budget

(* repo::save_status and save_transition: the statuses of a host's row.    *)
SaveRow(h, reported) ==
  row' = [row EXCEPT ![h] = [status |-> mem[h].status, reported |-> reported]]

(* Mutant: the poll already counts as reported.                            *)
RecordPollAsReported(h) ==
  /\ pc = "writing" /\ h \in save
  /\ SaveRow(h, mem[h].status)
  /\ save' = save \ {h}
  /\ UNCHANGED <<enabled, settings, smsOff, held, feed, answers, mem, wait, pc,
                 seen, active, updated, quiet, news, budget>>

(* repo::record_poll: the sample and the whole host_status row in one      *)
(* transaction.  The reported status written is the one read at the start. *)
RecordPoll(h) ==
  /\ pc = "writing" /\ h \in save
  /\ SaveRow(h, ReportedOf(seen.row[h]))
  /\ save' = save \ {h}
  /\ UNCHANGED <<enabled, settings, smsOff, held, feed, answers, mem, wait, pc,
                 seen, active, updated, quiet, news, budget>>

(* repo::save_transition without an alarm.                                 *)
AdvanceQuietly(h) ==
  /\ pc = "writing" /\ save = {} /\ h \in quiet
  /\ SaveRow(h, mem[h].status)
  /\ quiet' = quiet \ {h}
  /\ UNCHANGED <<enabled, settings, smsOff, held, feed, answers, mem, wait, pc,
                 seen, active, updated, save, news, budget>>

(* Mutant: the gate does not wait for the polls to be recorded.            *)
AtGateEarly(h) == pc = "writing" /\ h \in news

AtGate(h) == pc = "writing" /\ save = {} /\ quiet = {} /\ h \in news

(* Mutant: an alarm that is held back counts as given.                     *)
GateForget(h) ==
  /\ AtGate(h)
  /\ Suppressed(h) \/ ~seen.alarms
  /\ row' = [row EXCEPT ![h].reported = mem[h].status]
  /\ news' = news \ {h}
  /\ UNCHANGED <<enabled, settings, smsOff, held, feed, answers, mem, wait, pc,
                 seen, active, updated, save, quiet, budget>>

(* The gate is shut: nothing is written, the next sweep asks again.        *)
GateHold(h) ==
  /\ AtGate(h)
  /\ Suppressed(h) \/ ~seen.alarms
  /\ news' = news \ {h}
  /\ UNCHANGED <<database, answers, mem, wait, pc, seen, active, updated,
                 save, quiet, budget>>

GateOpen(h) == AtGate(h) /\ ~Suppressed(h) /\ seen.alarms

Enqueue(h, cs) ==
  feed' = [feed EXCEPT ![h] = [c \in Channel |->
             IF c \in cs THEN mem[h].status ELSE feed[h][c]]]

(* One delivery per channel, if there are any, then the reported status    *)
(* catches up.                                                             *)
GateAlarm(h) ==
  /\ GateOpen(h)
  /\ Enqueue(h, seen.to[h])
  /\ SaveRow(h, mem[h].status)
  /\ news' = news \ {h}
  /\ torn' = torn \ {h}
  /\ passed' = [passed EXCEPT ![h] = Channel \ seen.to[h]]
  /\ UNCHANGED <<enabled, settings, smsOff, held, answers, mem, wait, pc, seen,
                 active, updated, save, quiet, faults, tornCount>>

SweepEnd ==
  /\ pc = "writing" /\ save = {} /\ quiet = {} /\ news = {}
  /\ pc' = "idle"
  /\ SweepOver
  /\ UNCHANGED <<database, answers, mem, wait, budget>>

-----------------------------------------------------------------------------
(* Faults, at most MaxFaults of them.                                      *)

Fault == faults < MaxFaults /\ faults' = faults + 1

(* run: load_status fails and the flap states are left to be recreated,    *)
(* one by one, from the status column of the hosts query.                  *)
BootBlind ==
  /\ Fault
  /\ pc = "boot"
  /\ pc' = "idle"
  /\ UNCHANGED <<database, answers, mem, wait, sweep, tornCount, torn, passed>>

(* Some of the settings cannot be read and count as their defaults.        *)
SweepUnread ==
  /\ Fault
  /\ \E unread \in (SUBSET DOMAIN Settings) \ {{}} :
       Begin([k \in DOMAIN Settings |-> IF k \in unread THEN Default[k] ELSE Settings[k]])
  /\ UNCHANGED <<tornCount, torn, passed>>

MeasureSome ==
  /\ Fault
  /\ \E lost \in (SUBSET active) \ {{}} : Measure(lost)
  /\ UNCHANGED <<tornCount, torn, passed>>

(* A database call fails before it has written anything: `?' ends the      *)
(* sweep, the memory keeps what it has learnt.                             *)
SweepAbort ==
  /\ Fault
  /\ pc = "writing" /\ save \cup quiet \cup news # {}
  /\ pc' = "idle"
  /\ SweepOver
  /\ UNCHANGED <<database, answers, mem, wait, tornCount, torn, passed>>

(* The alarm closure is not a transaction: each statement commits by       *)
(* itself.  If one fails, the channels before it have their delivery and   *)
(* the reported status stays behind.                                       *)
GateTorn(h) ==
  /\ Fault
  /\ tornCount < MaxTorn /\ tornCount' = tornCount + 1
  /\ GateOpen(h)
  /\ \E done \in SUBSET seen.to[h] : Enqueue(h, done)
  /\ torn' = torn \cup {h}
  /\ pc' = "idle"
  /\ SweepOver
  /\ UNCHANGED <<enabled, settings, smsOff, held, row, answers, mem, wait, passed>>

Crash ==
  /\ Fault
  /\ pc # "boot"
  /\ mem' = [h \in Host |-> NoState]
  /\ wait' = [h \in Host |-> 0]
  /\ pc' = "boot"
  /\ SweepOver
  /\ UNCHANGED <<database, answers, tornCount, torn, passed>>

-----------------------------------------------------------------------------
(* The surroundings: time, the network, operators and the schedule.        *)

(* Time passes.  During the writes nothing reads the clock, so it is       *)
(* enough to let it run outside them.                                      *)
Tick ==
  /\ pc \in {"idle", "probing"}
  /\ mem' = [h \in Host |-> IF mem[h] = NoState THEN NoState ELSE Older(mem[h])]
  /\ wait' = [h \in Host |-> IF wait[h] > 0 THEN wait[h] - 1 ELSE 0]
  /\ UNCHANGED <<database, answers, pc, sweep, budget>>

Toggle(S, h) == IF h \in S THEN S \ {h} ELSE S \cup {h}

LinkChanges(h) ==
  /\ answers' = Toggle(answers, h)
  /\ UNCHANGED <<database, process, budget>>

(* Only the beginning of a sweep looks at the settings, and at the choice  *)
(* of channels for a host, so it is enough to let them change between      *)
(* sweeps.                                                                 *)
SetLive ==
  /\ "live" \in Knobs /\ pc = "idle"
  /\ live' = ~live
  /\ UNCHANGED <<enabled, alarms, channels, smsOff, held, row, feed, answers,
                 process, budget>>

SetAlarms ==
  /\ "alarms" \in Knobs /\ pc = "idle"
  /\ alarms' = ~alarms
  /\ UNCHANGED <<enabled, live, channels, smsOff, held, row, feed, answers,
                 process, budget>>

SetChannels ==
  /\ "channels" \in Knobs /\ pc = "idle"
  /\ channels' \in (SUBSET Channel) \ {channels}
  /\ UNCHANGED <<enabled, live, alarms, smsOff, held, row, feed, answers,
                 process, budget>>

SetSms(h) ==
  /\ "sms" \in Knobs /\ pc = "idle"
  /\ smsOff' = Toggle(smsOff, h)
  /\ UNCHANGED <<enabled, settings, held, row, feed, answers, process, budget>>

SetEnabled(h) ==
  /\ "enabled" \in Knobs
  /\ enabled' = Toggle(enabled, h)
  /\ UNCHANGED <<settings, smsOff, held, row, feed, answers, process, budget>>

(* An operator snoozes a host, edits a window, or undoes either: a sweep   *)
(* under way has read the old state already.                               *)
HoldByOperator(h) ==
  /\ "held" \in Knobs
  /\ held' = Toggle(held, h)
  /\ UNCHANGED <<enabled, settings, smsOff, row, feed, answers, process, budget>>

(* A snooze runs out, or a window opens or closes by the clock: the sweep  *)
(* compares what it has read with the time at which the probes were in.    *)
HoldByClock(h) ==
  /\ "held" \in Knobs
  /\ pc = "probing"
  /\ held' = IF (h \in held) = (h \in seen.held) THEN Toggle(held, h) ELSE held
  /\ seen' = [seen EXCEPT !.held = Toggle(@, h)]
  /\ UNCHANGED <<enabled, settings, smsOff, row, feed, answers, mem, wait, pc,
                 active, updated, save, quiet, news, budget>>

-----------------------------------------------------------------------------
Sweeper ==
  \/ Boot
  \/ SweepPaused
  \/ SweepStart
  \/ MeasureAll
  \/ \E h \in Host : \/ RecordPoll(h)
                     \/ AdvanceQuietly(h)
                     \/ GateHold(h)
                     \/ GateAlarm(h)
  \/ SweepEnd

Faulty ==
  \/ BootBlind
  \/ SweepUnread
  \/ MeasureSome
  \/ SweepAbort
  \/ Crash
  \/ \E h \in Host : GateTorn(h)

Surroundings ==
  \/ Tick
  \/ SetLive
  \/ SetAlarms
  \/ SetChannels
  \/ \E h \in Host : \/ LinkChanges(h)
                     \/ SetEnabled(h)
                     \/ SetSms(h)
                     \/ HoldByOperator(h)
                     \/ HoldByClock(h)

Next == Sweeper \/ Faulty \/ Surroundings

Spec == Init /\ [][Next]_vars

(* The loop in run never ends and every call in it returns: tokio keeps    *)
(* scheduling the task, probes have timeouts, and time goes on.            *)
FairSpec == Spec /\ WF_vars(Sweeper) /\ WF_vars(Tick)

-----------------------------------------------------------------------------
(* Type invariant.                                                         *)
Event == {"none", "up", "down"}

TypeOK ==
  /\ enabled \subseteq Host /\ live \in BOOLEAN /\ alarms \in BOOLEAN
  /\ channels \subseteq Channel /\ smsOff \subseteq Host
  /\ held \subseteq Host /\ answers \subseteq Host
  /\ row \in [Host -> Row \cup {NoRow}]
  /\ feed \in [Host -> [Channel -> Event]]
  /\ mem \in [Host -> HostMonitorState \cup {NoState}]
  /\ wait \in [Host -> Nat]
  /\ pc \in {"boot", "idle", "probing", "writing"}
  /\ seen \in [alarms : BOOLEAN, held : SUBSET Host, row : [Host -> Row \cup {NoRow}],
              to : [Host -> SUBSET Channel]]
  /\ active \subseteq Host /\ updated \subseteq Host
  /\ save \subseteq Host /\ quiet \subseteq Host /\ news \subseteq Host
  /\ faults \in 0..MaxFaults /\ tornCount \in 0..MaxTorn /\ torn \subseteq Host
  /\ passed \in [Host -> SUBSET Channel]

(* While a host's last announcement was not cut short, every channel that  *)
(* it went to was last told "down" exactly when the database says that an  *)
(* outage has been reported: the row survives the crashes and rewrites of  *)
(* later sweeps without losing or inventing an outage.  An announcement    *)
(* passes over the channels that are not set up when the sweep begins, or  *)
(* cannot be read then, and is not made up for later.                      *)
FeedMatchesReported ==
  \A h \in Host \ torn : \A c \in Channel \ passed[h] :
    ReportedOf(row[h]) = "down" <=> feed[h][c] = "down"

(* Nobody hears of the recovery of an outage that they were not told of:   *)
(* on each channel "up" is only ever the answer to a "down", through       *)
(* pauses, restarts, aborted sweeps and alarms cut short, unless the       *)
(* channel was not set up when the outage was announced.                   *)
UpAnswersDown ==
  [][\A h \in Host : \A c \in Channel \ passed[h] :
       feed'[h][c] = "up" /\ feed[h][c] # "up" => feed[h][c] = "down"]_vars

(* The sweep implements the atomic compare-and-announce of AlarmContract.  *)
Confirmed == [h \in Host |-> IF mem[h] = NoState THEN StatusOf(row[h])
                             ELSE mem[h].status]
Reported  == [h \in Host |-> ReportedOf(row[h])]

Contract == INSTANCE AlarmContract
              WITH confirmed <- Confirmed, told <- Reported

KeepsContract == Contract!Spec

(* A channel that is told "down" for a host is not told so while the       *)
(* monitor itself holds the host's enabled parent to be down, the outage   *)
(* that explains it.                                                       *)
DampedBehindParent ==
  [][\A h \in Host, c \in Channel :
       feed'[h][c] = "down" /\ feed[h][c] # "down" /\ Parent[h] \in enabled
         => Confirmed[Parent[h]] # "down"]_vars

(* Nothing stands between the monitor and an alarm for h.                  *)
Watched(h) ==
  /\ h \in enabled /\ live /\ alarms /\ h \notin held
  /\ Parent[h] \in Host => Parent[h] \in answers

(* An outage that lasts is told in the end on every channel that the last  *)
(* announcement about the host does not pass over, however often the alarm *)
(* was held back, aborted or forgotten before, unless that announcement    *)
(* was cut short.                                                          *)
OutageTold ==
  \A h \in Host, c \in Channel :
    <>[](h \notin answers /\ Watched(h) /\ h \notin torn /\ c \notin passed[h])
      => <>[](feed[h][c] = "down")

(* A recovery that lasts ends in a state in which no outage is reported.   *)
RecoveryTold ==
  \A h \in Host :
    <>[](h \in answers /\ Watched(h)) => <>[](ReportedOf(row[h]) = "up")
=============================================================================
