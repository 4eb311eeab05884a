---------------------------- MODULE MonitorProof ----------------------------
(***************************************************************************)
(* What holds of Monitor for every set of hosts and channels, every tree   *)
(* of dependencies, all periods and intervals and any number of faults.    *)
(***************************************************************************)
EXTENDS Monitor, TLAPS, WellFoundedInduction, FiniteSetTheorems

(***************************************************************************)
(* The invariant of a sweep.  What was read at the start of the sweep goes *)
(* stale only in what operators change: the reported status of a host that *)
(* is still to be written is the one that was read, since among the steps  *)
(* of Monitor only the sweep itself writes it.  Without this the decision  *)
(* taken in Measure would say nothing about the row that GateAlarm and     *)
(* RecordPoll overwrite.                                                   *)
(***************************************************************************)
Fresh(h) == ReportedOf(row[h]) = ReportedOf(seen.row[h])

SweepInv ==
  /\ pc # "writing" => updated = {}
  /\ save \cup quiet \cup news \subseteq updated
  /\ quiet \cap news = {}
  /\ \A h \in Host : pc = "probing" => Fresh(h)
  /\ \A h \in save \cup quiet \cup news : Fresh(h)
  /\ \A h \in updated : mem[h] \in HostMonitorState
  /\ \A h \in news : IsNews(mem[h].status, ReportedOf(seen.row[h]))
  /\ \A h \in quiet : IsQuiet(mem[h].status, ReportedOf(seen.row[h]))

(* A channel that the outage now reported did not pass over has been told  *)
(* something, even if the host's last announcement was cut short.          *)
ToldSomething ==
  \A h \in Host : \A c \in Channel \ passed[h] :
    ReportedOf(row[h]) = "down" => feed[h][c] # "none"

IInv == TypeOK /\ SweepInv /\ FeedMatchesReported /\ ToldSomething

-----------------------------------------------------------------------------
(* Flap states stay flap states.                                           *)

LEMMA FlapType ==
  ASSUME NEW s \in HostMonitorState, NEW o \in Outcome, NEW f, NEW g
  PROVE  /\ RegisterPoll(s, o, f, g) \in HostMonitorState
         /\ Older(s) \in HostMonitorState
<1>1. 0 \in 0..MaxAge /\ \A n \in 0..MaxAge : n < MaxAge => n + 1 \in 0..MaxAge
  BY MaxAgeAssumption
<1>2. RegisterPoll(s, o, f, g) \in HostMonitorState
  BY <1>1 DEF RegisterPoll, HostMonitorState, Status
<1>3. Older(s) \in HostMonitorState
  BY <1>1 DEF Older, HostMonitorState
<1>4. QED
  BY <1>2, <1>3

LEMMA PersistedType ==
  ASSUME NEW status \in Status
  PROVE  FromPersisted(status) \in HostMonitorState
BY MaxAgeAssumption DEF FromPersisted, HostMonitorState, Outcome

LEMMA RowType ==
  ASSUME NEW r \in Row \cup {NoRow}
  PROVE  StatusOf(r) \in Status /\ ReportedOf(r) \in Status
BY DEF Row, StatusOf, ReportedOf, Status

(* What a sweep registers for a host it has measured.                      *)
LEMMA PolledType ==
  ASSUME TypeOK, NEW h \in Host
  PROVE  Polled(h) \in HostMonitorState
<1>1. StatusOf(seen.row[h]) \in Status
  BY RowType DEF TypeOK
<1>2. EntryOf(h) \in HostMonitorState
  BY <1>1, PersistedType DEF TypeOK, EntryOf
<1>3. OutcomeOf(h) \in Outcome
  BY DEF OutcomeOf, Outcome
<1>4. QED
  BY <1>2, <1>3, FlapType DEF Polled

-----------------------------------------------------------------------------
LEMMA TypeInit == Init => TypeOK
<1>1. 0 \in 0..MaxFaults /\ 0 \in 0..MaxTorn
  BY MonitorAssumption
<1>2. QED
  BY <1>1 DEF Init, TypeOK, NoSweep, Event

(* What a sweep writes for a host that is still to do is a row.            *)
LEMMA TodoType ==
  ASSUME TypeOK, SweepInv, NEW h \in save \cup quiet \cup news
  PROVE  /\ h \in Host
         /\ mem[h].status \in Status
         /\ [status |-> mem[h].status, reported |-> mem[h].status] \in Row
         /\ [status |-> mem[h].status, reported |-> ReportedOf(seen.row[h])] \in Row
<1>1. h \in Host /\ mem[h] \in HostMonitorState
  BY DEF SweepInv, TypeOK
<1>2. ReportedOf(seen.row[h]) \in Status
  BY <1>1, RowType DEF TypeOK
<1>3. QED
  BY <1>1, <1>2 DEF HostMonitorState, Row

LEMMA TypeNext == TypeOK /\ SweepInv /\ [Next]_vars => TypeOK'
<1> SUFFICES ASSUME TypeOK, SweepInv, [Next]_vars PROVE TypeOK'
  OBVIOUS
<1> USE DEF TypeOK, settings
<1>1. CASE Boot
  <2>1. \A h \in Host : row[h] # NoRow => FromPersisted(row[h].status) \in HostMonitorState
    BY PersistedType DEF Row
  <2>2. mem' \in [Host -> HostMonitorState \cup {NoState}]
    BY <1>1, <2>1 DEF Boot
  <2>3. QED
    BY <1>1, <2>2 DEF Boot, database, sweep, budget
<1>2. CASE SweepPaused
  BY <1>2 DEF SweepPaused, database, sweep, budget
<1>3. ASSUME NEW set, Begin(set), set.alarms \in BOOLEAN, set.channels \subseteq Channel,
             UNCHANGED <<tornCount, torn, passed>>, faults' \in 0..MaxFaults
      PROVE TypeOK'
  <2>1. wait' \in [Host -> Nat]
    BY <1>3, MonitorAssumption DEF Begin
  <2>2. \A h \in Host : ChannelsFor(h, set.channels) \in SUBSET Channel
    BY <1>3 DEF ChannelsFor
  <2>3. seen' \in [alarms : BOOLEAN, held : SUBSET Host,
                   row : [Host -> Row \cup {NoRow}], to : [Host -> SUBSET Channel]]
    BY <1>3, <2>2 DEF Begin
  <2>4. QED
    BY <1>3, <2>1, <2>3 DEF Begin, database, settings, Due
<1>24. CASE SweepStart
  BY <1>3, <1>24 DEF SweepStart, Settings, budget
<1>4. ASSUME NEW lost, Measure(lost), UNCHANGED <<tornCount, torn, passed>>,
             faults' \in 0..MaxFaults
      PROVE TypeOK'
  <2>1. mem' \in [Host -> HostMonitorState \cup {NoState}]
    BY <1>4, PolledType DEF Measure
  <2>2. QED
    BY <1>4, <2>1 DEF Measure, database
<1>5. CASE MeasureAll
  BY <1>4, <1>5 DEF MeasureAll, budget
<1>6. ASSUME NEW h \in Host, RecordPoll(h)
      PROVE TypeOK'
  <2>1. [status |-> mem[h].status, reported |-> ReportedOf(seen.row[h])] \in Row
    BY <1>6, TodoType DEF RecordPoll, SaveRow
  <2>2. QED
    BY <1>6, <2>1 DEF RecordPoll, SaveRow, budget
<1>7. ASSUME NEW h \in Host, AdvanceQuietly(h)
      PROVE TypeOK'
  <2>1. [status |-> mem[h].status, reported |-> mem[h].status] \in Row
    BY <1>7, TodoType DEF AdvanceQuietly, SaveRow
  <2>2. QED
    BY <1>7, <2>1 DEF AdvanceQuietly, SaveRow, budget
<1>8. ASSUME NEW h \in Host, GateHold(h)
      PROVE TypeOK'
  BY <1>8 DEF GateHold, database, budget
<1>9. ASSUME NEW h \in Host, NEW cs, GateOpen(h), Enqueue(h, cs)
      PROVE feed' \in [Host -> [Channel -> Event]]
  <2>1. mem[h].status \in Event
    BY <1>9, TodoType DEF GateOpen, AtGate, SweepInv, IsNews, Status, Event
  <2>2. QED
    BY <1>9, <2>1 DEF Enqueue
<1>10. ASSUME NEW h \in Host, GateAlarm(h)
       PROVE TypeOK'
  <2>1. h \in news
    BY <1>10 DEF GateAlarm, SaveRow, GateOpen, AtGate
  <2>2. row' \in [Host -> Row \cup {NoRow}]
    BY <1>10, <2>1, TodoType DEF GateAlarm, SaveRow
  <2>3. feed' \in [Host -> [Channel -> Event]]
    BY <1>9, <1>10 DEF GateAlarm, SaveRow
  <2>4. passed' \in [Host -> SUBSET Channel]
    BY <1>10 DEF GateAlarm
  <2>5. QED
    BY <1>10, <2>2, <2>3, <2>4 DEF GateAlarm, SaveRow
<1>11. CASE SweepEnd
  BY <1>11 DEF SweepEnd, SweepOver, NoSweep, database, budget
<1>12. ASSUME Fault PROVE faults' \in 0..MaxFaults
  BY <1>12, MonitorAssumption DEF Fault
<1>13. CASE BootBlind
  BY <1>12, <1>13 DEF BootBlind, database, sweep
<1>14. CASE MeasureSome
  BY <1>4, <1>12, <1>14 DEF MeasureSome
<1>25. CASE SweepUnread
  <2>1. PICK unread \in (SUBSET DOMAIN Settings) \ {{}} :
          Begin([k \in DOMAIN Settings |-> IF k \in unread THEN Default[k] ELSE Settings[k]])
    BY <1>25 DEF SweepUnread
  <2>2. \A k \in DOMAIN Settings : /\ k \in {"live", "alarms", "channels"}
                                   /\ k = "alarms" => Settings[k] = alarms /\ Default[k] = TRUE
                                   /\ k = "channels" => Settings[k] = channels /\ Default[k] = {}
    BY DEF Settings, Default
  <2>3. {"alarms", "channels"} \subseteq DOMAIN Settings
    BY DEF Settings
  <2> DEFINE set == [k \in DOMAIN Settings |-> IF k \in unread THEN Default[k] ELSE Settings[k]]
  <2>4. set.alarms \in BOOLEAN /\ set.channels \subseteq Channel
    BY <2>2, <2>3
  <2>5. Begin(set)
    BY <2>1
  <2> HIDE DEF set
  <2>6. QED
    BY <1>3, <1>12, <1>25, <2>4, <2>5 DEF SweepUnread
<1>15. CASE SweepAbort
  BY <1>12, <1>15 DEF SweepAbort, SweepOver, NoSweep, database
<1>16. CASE Crash
  BY <1>12, <1>16 DEF Crash, SweepOver, NoSweep, database
<1>17. ASSUME NEW h \in Host, GateTorn(h)
       PROVE TypeOK'
  <2>1. feed' \in [Host -> [Channel -> Event]]
    BY <1>9, <1>17 DEF GateTorn
  <2>2. tornCount' \in 0..MaxTorn
    BY <1>17, MonitorAssumption DEF GateTorn
  <2>3. faults' \in 0..MaxFaults
    BY <1>12, <1>17 DEF GateTorn
  <2>4. QED
    BY <1>17, <2>1, <2>2, <2>3 DEF GateTorn, SweepOver, NoSweep
<1>18. CASE Tick
  <2>1. mem' \in [Host -> HostMonitorState \cup {NoState}]
    <3>1. \A h \in Host : mem[h] # NoState => Older(mem[h]) \in HostMonitorState
      BY FlapType DEF Outcome
    <3>2. QED
      BY <1>18, <3>1 DEF Tick
  <2>2. wait' \in [Host -> Nat]
    BY <1>18 DEF Tick
  <2>3. QED
    BY <1>18, <2>1, <2>2 DEF Tick, database, sweep, budget
<1>19. CASE SetLive \/ SetAlarms \/ SetChannels
  BY <1>19 DEF SetLive, SetAlarms, SetChannels, process, sweep, budget
<1>20. ASSUME NEW h \in Host, LinkChanges(h) \/ SetEnabled(h) \/ SetSms(h) \/ HoldByOperator(h)
       PROVE TypeOK'
  BY <1>20 DEF LinkChanges, SetEnabled, SetSms, HoldByOperator, Toggle, database, process,
               sweep, budget
<1>21. ASSUME NEW h \in Host, HoldByClock(h)
       PROVE TypeOK'
  <2>1. held' \subseteq Host
    BY <1>21 DEF HoldByClock, Toggle
  <2>2. seen' \in [alarms : BOOLEAN, held : SUBSET Host,
                   row : [Host -> Row \cup {NoRow}], to : [Host -> SUBSET Channel]]
    BY <1>21 DEF HoldByClock, Toggle
  <2>3. QED
    BY <1>21, <2>1, <2>2 DEF HoldByClock, budget
<1>22. CASE UNCHANGED vars
  BY <1>22 DEF vars, database, process, sweep, budget
<1>23. QED
  BY <1>1, <1>2, <1>3, <1>5, <1>6, <1>7, <1>8, <1>10, <1>11, <1>13, <1>14, <1>15,
     <1>16, <1>17, <1>18, <1>19, <1>20, <1>21, <1>22, <1>24, <1>25
     DEF Next, Sweeper, Faulty, Surroundings

-----------------------------------------------------------------------------
LEMMA SweepInit == Init => SweepInv
BY DEF Init, SweepInv

LEMMA SweepNext == TypeOK /\ SweepInv /\ [Next]_vars => SweepInv'
<1> SUFFICES ASSUME TypeOK, SweepInv, [Next]_vars PROVE SweepInv'
  OBVIOUS
<1>1. CASE pc' # "writing" /\ pc' # "probing" /\ SweepOver
  BY <1>1 DEF SweepInv, SweepOver
<1>2. CASE Boot \/ BootBlind
  BY <1>2 DEF Boot, BootBlind, SweepInv, sweep
<1>3. CASE SweepPaused
  BY <1>3 DEF SweepPaused, SweepInv, Fresh, sweep, database
<1>4. ASSUME NEW set, Begin(set) PROVE SweepInv'
  BY <1>4 DEF Begin, SweepInv, Fresh, database
<1>5. ASSUME NEW lost, Measure(lost) PROVE SweepInv'
  <2>1. \A h \in updated' : mem'[h] = Polled(h) /\ Polled(h) \in HostMonitorState
    BY <1>5, PolledType DEF Measure, TypeOK
  <2>2. \A h \in Host : ReportedOf(row'[h]) = ReportedOf(seen'.row[h])
    BY <1>5 DEF Measure, SweepInv, Fresh, database
  <2>3. \A h \in news' : IsNews(mem'[h].status, ReportedOf(seen'.row[h]))
    BY <1>5, <2>1 DEF Measure
  <2>4. \A h \in quiet' : IsQuiet(mem'[h].status, ReportedOf(seen'.row[h]))
    BY <1>5, <2>1 DEF Measure
  <2>5. quiet' \cap news' = {}
    BY <1>5 DEF Measure, IsQuiet
  <2>6. save' \cup quiet' \cup news' \subseteq updated' /\ updated' \subseteq Host
        /\ pc' = "writing"
    BY <1>5 DEF Measure, TypeOK
  <2>7. QED
    BY <2>1, <2>2, <2>3, <2>4, <2>5, <2>6 DEF SweepInv, Fresh
<1>6. ASSUME NEW h \in Host, RecordPoll(h) PROVE SweepInv'
  <2>1. \A g \in Host \ {h} : Fresh(g) => Fresh(g)'
    BY <1>6 DEF RecordPoll, SaveRow, Fresh, TypeOK
  <2>2. Fresh(h)'
    <3>1. row'[h] = [status |-> mem[h].status, reported |-> ReportedOf(seen.row[h])]
      BY <1>6 DEF RecordPoll, SaveRow, TypeOK
    <3>2. row'[h] \in Row
      BY <1>6, <3>1, TodoType DEF RecordPoll, SaveRow
    <3>3. row'[h] # NoRow
      BY <3>2, MonitorAssumption DEF Row
    <3>4. QED
      BY <1>6, <3>1, <3>3 DEF RecordPoll, SaveRow, Fresh, ReportedOf
  <2>3. QED
    BY <1>6, <2>1, <2>2 DEF RecordPoll, SaveRow, SweepInv, TypeOK
<1>7. ASSUME NEW h \in Host, AdvanceQuietly(h) PROVE SweepInv'
  <2>1. \A g \in Host \ {h} : Fresh(g) => Fresh(g)'
    BY <1>7 DEF AdvanceQuietly, SaveRow, Fresh, TypeOK
  <2>2. QED
    BY <1>7, <2>1 DEF AdvanceQuietly, SaveRow, SweepInv, TypeOK
<1>8. ASSUME NEW h \in Host, GateHold(h) PROVE SweepInv'
  BY <1>8 DEF GateHold, SweepInv, Fresh, database
<1>9. ASSUME NEW h \in Host, GateAlarm(h) PROVE SweepInv'
  <2>1. \A g \in Host \ {h} : Fresh(g) => Fresh(g)'
    BY <1>9 DEF GateAlarm, SaveRow, Fresh, TypeOK
  <2>2. QED
    BY <1>9, <2>1 DEF GateAlarm, SaveRow, GateOpen, AtGate, SweepInv, TypeOK
<1>10. CASE SweepEnd \/ SweepAbort \/ Crash
  BY <1>1, <1>10 DEF SweepEnd, SweepAbort, Crash
<1>11. ASSUME NEW h \in Host, GateTorn(h) PROVE SweepInv'
  BY <1>1, <1>11 DEF GateTorn
<1>12. CASE Tick
  BY <1>12 DEF Tick, SweepInv, Fresh, sweep, database
<1>13. CASE SetLive \/ SetAlarms \/ SetChannels
  BY <1>13 DEF SetLive, SetAlarms, SetChannels, SweepInv, Fresh, process, sweep
<1>14. ASSUME NEW h \in Host, LinkChanges(h) \/ SetEnabled(h) \/ SetSms(h) \/ HoldByOperator(h)
       PROVE SweepInv'
  BY <1>14 DEF LinkChanges, SetEnabled, SetSms, HoldByOperator, SweepInv, Fresh, process,
               sweep, database
<1>15. ASSUME NEW h \in Host, HoldByClock(h) PROVE SweepInv'
  <2>1. seen'.row = seen.row
    BY <1>15 DEF HoldByClock, TypeOK
  <2>2. QED
    BY <1>15, <2>1 DEF HoldByClock, SweepInv, Fresh
<1>16. CASE UNCHANGED vars
  BY <1>16 DEF vars, database, process, sweep, SweepInv, Fresh
<1>17. QED
  BY <1>2, <1>3, <1>4, <1>5, <1>6, <1>7, <1>8, <1>9, <1>10, <1>11, <1>12, <1>13,
     <1>14, <1>15, <1>16
     DEF Next, Sweeper, Faulty, Surroundings, MeasureAll, MeasureSome,
         SweepStart, SweepUnread

-----------------------------------------------------------------------------
(* What the four actions that touch host_status and the queue do to the    *)
(* reported status; the others leave row, feed and torn alone.             *)

LEMMA ReportedOfRow ==
  ASSUME NEW r \in Row
  PROVE  ReportedOf(r) = r.reported /\ StatusOf(r) = r.status
BY MonitorAssumption DEF ReportedOf, StatusOf, Row

LEMMA RecordPollReported ==
  ASSUME TypeOK, SweepInv, NEW h \in Host, RecordPoll(h), NEW g \in Host
  PROVE  ReportedOf(row'[g]) = ReportedOf(row[g])
<1>1. CASE g = h
  <2>1. row'[h] \in Row /\ row'[h].reported = ReportedOf(seen.row[h])
    BY TodoType DEF RecordPoll, SaveRow, TypeOK
  <2>2. QED
    BY <1>1, <2>1, ReportedOfRow DEF RecordPoll, SaveRow, SweepInv, Fresh
<1>2. CASE g # h
  BY <1>2 DEF RecordPoll, SaveRow, TypeOK
<1>3. QED
  BY <1>1, <1>2

LEMMA QuietReported ==
  ASSUME TypeOK, SweepInv, NEW h \in Host, AdvanceQuietly(h), NEW g \in Host
  PROVE  ReportedOf(row'[g]) = "down" <=> ReportedOf(row[g]) = "down"
<1>1. CASE g = h
  <2>1. row'[h] \in Row /\ row'[h].reported = mem[h].status
    BY TodoType DEF AdvanceQuietly, SaveRow, TypeOK
  <2>2. ReportedOf(row'[h]) = mem[h].status
    BY <2>1, ReportedOfRow
  <2>3. IsQuiet(mem[h].status, ReportedOf(row[h])) /\ mem[h].status \in Status
        /\ ReportedOf(row[h]) \in Status
    BY TodoType, RowType DEF AdvanceQuietly, SaveRow, SweepInv, Fresh, TypeOK
  <2>4. mem[h].status = "up" /\ ReportedOf(row[h]) # "down"
    BY <2>3 DEF IsQuiet, IsNews, Status
  <2>5. QED
    BY <1>1, <2>2, <2>4
<1>2. CASE g # h
  BY <1>2 DEF AdvanceQuietly, SaveRow, TypeOK
<1>3. QED
  BY <1>1, <1>2

LEMMA AlarmReported ==
  ASSUME TypeOK, SweepInv, NEW h \in Host, GateAlarm(h)
  PROVE  /\ ReportedOf(row'[h]) = mem[h].status
         /\ \A g \in Host \ {h} : row'[g] = row[g]
<1>1. row'[h] \in Row /\ row'[h].reported = mem[h].status
  BY TodoType DEF GateAlarm, SaveRow, GateOpen, AtGate, TypeOK
<1>2. QED
  BY <1>1, ReportedOfRow DEF GateAlarm, SaveRow, TypeOK

(* An open gate: the news is still news, and it is "up" or "down".         *)
LEMMA GateNews ==
  ASSUME TypeOK, SweepInv, NEW h \in Host, GateOpen(h)
  PROVE  /\ IsNews(mem[h].status, ReportedOf(row[h]))
         /\ \/ mem[h].status = "down" /\ ReportedOf(row[h]) # "down"
            \/ mem[h].status = "up" /\ ReportedOf(row[h]) = "down"
<1>1. mem[h].status \in Status /\ IsNews(mem[h].status, ReportedOf(row[h]))
  BY TodoType DEF GateOpen, AtGate, SweepInv, Fresh
<1>2. QED
  BY <1>1 DEF IsNews, Status

LEMMA EnqueueFeed ==
  ASSUME TypeOK, NEW h \in Host, NEW cs, Enqueue(h, cs)
  PROVE  /\ \A g \in Host \ {h} : feed'[g] = feed[g]
         /\ \A c \in Channel : feed'[h][c] = IF c \in cs THEN mem[h].status
                                             ELSE feed[h][c]
BY DEF Enqueue, TypeOK

FeedInv == FeedMatchesReported /\ ToldSomething

LEMMA FeedInit == Init => FeedInv
BY DEF Init, FeedInv, FeedMatchesReported, ToldSomething, ReportedOf

LEMMA FeedNext ==
  TypeOK /\ SweepInv /\ FeedInv /\ [Next]_vars => FeedInv'
<1> SUFFICES ASSUME TypeOK, SweepInv, FeedInv, [Next]_vars PROVE FeedInv'
  OBVIOUS
<1>1. ASSUME UNCHANGED <<feed, torn, passed>>,
             \A g \in Host : ReportedOf(row'[g]) = "down" <=> ReportedOf(row[g]) = "down"
      PROVE  FeedInv'
  BY <1>1 DEF FeedInv, FeedMatchesReported, ToldSomething
<1>2. ASSUME NEW h \in Host, RecordPoll(h) PROVE FeedInv'
  BY <1>1, <1>2, RecordPollReported DEF RecordPoll, SaveRow, budget
<1>3. ASSUME NEW h \in Host, AdvanceQuietly(h) PROVE FeedInv'
  BY <1>1, <1>3, QuietReported DEF AdvanceQuietly, SaveRow, budget
<1>4. ASSUME NEW h \in Host, GateAlarm(h) PROVE FeedInv'
  <2>1. /\ \A g \in Host \ {h} : feed'[g] = feed[g] /\ row'[g] = row[g]
                                 /\ passed'[g] = passed[g]
        /\ ReportedOf(row'[h]) = mem[h].status
        /\ torn' = torn \ {h}
    <3>1. Enqueue(h, seen.to[h]) /\ torn' = torn \ {h}
          /\ passed' = [passed EXCEPT ![h] = Channel \ seen.to[h]]
      BY <1>4 DEF GateAlarm
    <3>2. \A g \in Host \ {h} : feed'[g] = feed[g]
      BY <3>1, EnqueueFeed
    <3>3. \A g \in Host \ {h} : row'[g] = row[g]
      BY <1>4, AlarmReported
    <3>4. ReportedOf(row'[h]) = mem[h].status
      BY <1>4, AlarmReported
    <3>5. \A g \in Host \ {h} : passed'[g] = passed[g]
      BY <3>1 DEF TypeOK
    <3>6. QED
      BY <3>1, <3>2, <3>3, <3>4, <3>5
  <2>2. \A c \in Channel \ passed'[h] : feed'[h][c] = mem[h].status
    <3>1. passed'[h] = Channel \ seen.to[h]
      BY <1>4 DEF GateAlarm, TypeOK
    <3>2. QED
      BY <1>4, <3>1, EnqueueFeed DEF GateAlarm
  <2>3. mem[h].status # "none"
    BY <1>4, GateNews DEF GateAlarm
  <2>4. FeedMatchesReported'
    BY <2>1, <2>2 DEF FeedInv, FeedMatchesReported
  <2>5. ToldSomething'
    BY <2>1, <2>2, <2>3 DEF FeedInv, ToldSomething
  <2>6. QED
    BY <2>4, <2>5 DEF FeedInv
<1>5. ASSUME NEW h \in Host, GateTorn(h) PROVE FeedInv'
  <2>1. PICK done \in SUBSET seen.to[h] : Enqueue(h, done)
    BY <1>5 DEF GateTorn
  <2>2. \A g \in Host \ {h} : feed'[g] = feed[g]
    BY <2>1, EnqueueFeed
  <2>3. \A c \in Channel : feed'[h][c] \in {feed[h][c], mem[h].status}
    BY <2>1, EnqueueFeed
  <2>4. mem[h].status # "none"
    BY <1>5, GateNews DEF GateTorn
  <2>5. torn' = torn \cup {h} /\ row' = row /\ passed' = passed
    BY <1>5 DEF GateTorn
  <2>6. FeedMatchesReported'
    BY <2>2, <2>5 DEF FeedInv, FeedMatchesReported
  <2>7. ToldSomething'
    BY <2>2, <2>3, <2>4, <2>5 DEF FeedInv, ToldSomething
  <2>8. QED
    BY <2>6, <2>7 DEF FeedInv
<1>6. CASE UNCHANGED <<row, feed, torn, passed>>
  BY <1>1, <1>6
<1>7. QED
  BY <1>2, <1>3, <1>4, <1>5, <1>6
     DEF Next, Sweeper, Faulty, Surroundings, vars, database, process, budget,
         Boot, SweepPaused, SweepStart, SweepUnread, Begin, Measure, MeasureAll, GateHold, SweepEnd,
         BootBlind, MeasureSome, SweepAbort, Crash, Tick, SetLive, SetAlarms,
         SetChannels, SetSms, LinkChanges, SetEnabled, HoldByOperator, HoldByClock

-----------------------------------------------------------------------------
(* The variables have their types in every reachable state of the monitor. *)
THEOREM TypeCorrect == Spec => []TypeOK
<1>1. Init => TypeOK /\ SweepInv
  BY TypeInit, SweepInit
<1>2. TypeOK /\ SweepInv /\ [Next]_vars => (TypeOK /\ SweepInv)'
  BY TypeNext, SweepNext
<1>3. QED
  BY <1>1, <1>2, PTL DEF Spec

LEMMA Invariant == Spec => []IInv
<1>1. Init => IInv
  BY TypeInit, SweepInit, FeedInit DEF IInv, FeedInv
<1>2. IInv /\ [Next]_vars => IInv'
  BY TypeNext, SweepNext, FeedNext DEF IInv, FeedInv
<1>3. QED
  BY <1>1, <1>2, PTL DEF Spec

(* What the database says has been reported is what the channels were last *)
(* told, but for hosts whose last announcement was cut short and channels  *)
(* that it passed over.                                                    *)
THEOREM FeedCorrect == Spec => []FeedMatchesReported
<1>1. IInv => FeedMatchesReported
  BY DEF IInv
<1>2. QED
  BY <1>1, Invariant, PTL

(* A channel hears of a recovery only if it was told of the outage, or the *)
(* outage was announced while it was not set up.                           *)
UpStep ==
  \A h \in Host : \A c \in Channel \ passed[h] :
    feed'[h][c] = "up" /\ feed[h][c] # "up" => feed[h][c] = "down"

LEMMA UpStepNext == IInv /\ [Next]_vars => UpStep
<1> SUFFICES ASSUME IInv, [Next]_vars PROVE UpStep
  OBVIOUS
<1> USE DEF IInv
<1>1. ASSUME NEW h \in Host, GateOpen(h), NEW cs, Enqueue(h, cs)
      PROVE  UpStep
  <2>1. \A g \in Host \ {h} : feed'[g] = feed[g]
    BY <1>1, EnqueueFeed
  <2>2. ASSUME NEW c \in Channel \ passed[h], feed'[h][c] = "up", feed[h][c] # "up"
        PROVE  feed[h][c] = "down"
    <3>1. mem[h].status = "up"
      BY <1>1, <2>2, EnqueueFeed
    <3>2. ReportedOf(row[h]) = "down"
      BY <1>1, <3>1, GateNews
    <3>3. feed[h][c] # "none" /\ feed[h][c] \in Event
      BY <2>2, <3>2 DEF ToldSomething, TypeOK
    <3>4. QED
      BY <2>2, <3>3 DEF Event
  <2>3. QED
    BY <2>1, <2>2 DEF UpStep
<1>2. ASSUME NEW h \in Host, GateAlarm(h) PROVE UpStep
  BY <1>1, <1>2 DEF GateAlarm, SaveRow
<1>3. ASSUME NEW h \in Host, GateTorn(h) PROVE UpStep
  BY <1>1, <1>3 DEF GateTorn
<1>4. CASE UNCHANGED feed
  BY <1>4 DEF UpStep
<1>5. QED
  BY <1>2, <1>3, <1>4
     DEF Next, Sweeper, Faulty, Surroundings, vars, database, process, budget,
         Boot, SweepPaused, SweepStart, SweepUnread, Begin, Measure, MeasureAll, RecordPoll,
         AdvanceQuietly, GateHold, SweepEnd, BootBlind, MeasureSome, SweepAbort,
         Crash, Tick, SetLive, SetAlarms, LinkChanges, SetEnabled,
         SetChannels, SetSms, HoldByOperator, HoldByClock

(* No recovery is announced of an outage that was not.                     *)
THEOREM UpAnswersDownCorrect == Spec => UpAnswersDown
<1>1. IInv /\ [Next]_vars => [UpStep]_vars
  BY UpStepNext
<1>2. QED
  BY <1>1, Invariant, PTL DEF Spec, UpAnswersDown, UpStep

-----------------------------------------------------------------------------
(* The sweep implements AlarmContract: a sweep's measurements and a        *)
(* restart change opinions, the writes of the sweep note or announce them, *)
(* everything else is a stuttering step.                                   *)

LEMMA ContractInit == Init => Contract!Init
BY DEF Init, Contract!Init, Confirmed, Reported, StatusOf, ReportedOf

LEMMA ContractNext == IInv /\ IInv' /\ [Next]_vars => [Contract!Next]_(Contract!vars)
<1> SUFFICES ASSUME IInv, IInv', [Next]_vars
             PROVE  [Contract!Next]_(Contract!vars)
  OBVIOUS
<1> USE DEF IInv
<1>1. CASE UNCHANGED <<row, feed, passed>>
  <2>1. Confirmed' \in [Host -> Status]
    BY RowType DEF Confirmed, TypeOK, HostMonitorState
  <2>2. UNCHANGED <<Reported, feed, passed>>
    BY <1>1 DEF Reported
  <2>3. QED
    BY <2>1, <2>2 DEF Contract!Next, Contract!ChangeOpinion
<1>2. ASSUME NEW h \in Host, RecordPoll(h) PROVE UNCHANGED Contract!vars
  <2>1. Reported' = Reported
    BY <1>2, RecordPollReported DEF Reported
  <2>2. Confirmed' = Confirmed
    <3>1. mem[h] # NoState
      BY <1>2, MonitorAssumption DEF RecordPoll, SaveRow, SweepInv
    <3>2. \A g \in Host \ {h} : row'[g] = row[g]
      BY <1>2 DEF RecordPoll, SaveRow, TypeOK
    <3>3. QED
      BY <1>2, <3>1, <3>2 DEF RecordPoll, SaveRow, Confirmed
  <2>3. QED
    BY <1>2, <2>1, <2>2 DEF RecordPoll, budget, Contract!vars
<1>3. ASSUME NEW h \in Host, AdvanceQuietly(h) PROVE Contract!NoteUp(h)
  <2>1. row'[h] \in Row /\ row'[h].reported = mem[h].status /\ mem[h] # NoState
        /\ \A g \in Host \ {h} : row'[g] = row[g]
    <3>1. h \in quiet /\ mem[h] \in HostMonitorState
      BY <1>3 DEF AdvanceQuietly, SaveRow, SweepInv
    <3>2. [status |-> mem[h].status, reported |-> mem[h].status] \in Row
      BY <3>1, TodoType
    <3>3. QED
      BY <1>3, <3>1, <3>2, MonitorAssumption DEF AdvanceQuietly, SaveRow, TypeOK
  <2>2. IsQuiet(mem[h].status, ReportedOf(row[h])) /\ mem[h].status \in Status
        /\ ReportedOf(row[h]) \in Status
    BY <1>3, TodoType, RowType DEF AdvanceQuietly, SaveRow, SweepInv, Fresh, TypeOK
  <2>3. mem[h].status = "up" /\ ReportedOf(row[h]) = "unknown"
    BY <2>2 DEF IsQuiet, IsNews, Status
  <2>4. Confirmed' = Confirmed /\ Confirmed[h] = "up"
    BY <1>3, <2>1, <2>3 DEF AdvanceQuietly, SaveRow, Confirmed
  <2>5. Reported' = [Reported EXCEPT ![h] = "up"] /\ Reported[h] = "unknown"
    BY <2>1, <2>3, ReportedOfRow DEF Reported
  <2>6. QED
    BY <1>3, <2>4, <2>5 DEF AdvanceQuietly, budget, Contract!NoteUp
<1>4. ASSUME NEW h \in Host, GateOpen(h)
      PROVE  /\ mem[h] # NoState /\ Confirmed[h] = mem[h].status
             /\ Contract!IsNews(Confirmed[h], Reported[h])
  <2>1. mem[h] # NoState
    BY <1>4, MonitorAssumption DEF GateOpen, AtGate, SweepInv
  <2>2. QED
    BY <1>4, <2>1, GateNews DEF Confirmed, Reported, IsNews, Contract!IsNews
<1>5. ASSUME NEW h \in Host, GateAlarm(h) PROVE Contract!Announce(h)
  <2>1. mem[h] # NoState /\ Confirmed[h] = mem[h].status
        /\ Contract!IsNews(Confirmed[h], Reported[h])
    BY <1>4, <1>5 DEF GateAlarm, SaveRow
  <2>2. ReportedOf(row'[h]) = mem[h].status /\ \A g \in Host \ {h} : row'[g] = row[g]
    BY <1>5, AlarmReported
  <2>3. Confirmed' = Confirmed
    BY <1>5, <2>1, <2>2 DEF GateAlarm, SaveRow, Confirmed
  <2>4. Reported' = [Reported EXCEPT ![h] = Confirmed[h]]
    BY <2>1, <2>2 DEF Reported
  <2>5. Contract!Tell(h, seen.to[h])
    BY <1>5, <2>1 DEF GateAlarm, Enqueue, Contract!Tell
  <2>6. seen.to[h] \in SUBSET Channel /\ passed' = [passed EXCEPT ![h] = Channel \ seen.to[h]]
    BY <1>5 DEF GateAlarm, TypeOK
  <2>7. QED
    BY <2>1, <2>3, <2>4, <2>5, <2>6 DEF Contract!Announce
<1>6. ASSUME NEW h \in Host, GateTorn(h) PROVE Contract!CutShort(h)
  <2>1. Confirmed[h] = mem[h].status /\ Contract!IsNews(Confirmed[h], Reported[h])
    BY <1>4, <1>6 DEF GateTorn
  <2>2. \E cs \in SUBSET Channel : Contract!Tell(h, cs)
    <3>1. PICK done \in SUBSET seen.to[h] : Enqueue(h, done)
      BY <1>6 DEF GateTorn
    <3>2. done \in SUBSET Channel
      BY <3>1 DEF TypeOK
    <3>3. QED
      BY <2>1, <3>1, <3>2 DEF Enqueue, Contract!Tell
  <2>3. UNCHANGED <<Confirmed, Reported, passed>>
    BY <1>6 DEF GateTorn, Confirmed, Reported
  <2>4. QED
    BY <2>1, <2>2, <2>3 DEF Contract!CutShort
<1>7. QED
  BY <1>1, <1>2, <1>3, <1>5, <1>6
     DEF Contract!Next, Next, Sweeper, Faulty, Surroundings, vars, database,
         process, budget, Boot, SweepPaused, SweepStart, SweepUnread, Begin, Measure, MeasureAll,
         GateHold, SweepEnd, BootBlind, MeasureSome, SweepAbort, Crash, Tick,
         SetLive, SetAlarms, SetChannels, SetSms, LinkChanges, SetEnabled,
         HoldByOperator, HoldByClock

(* The monitor keeps its contract: what its sweeps, snapshots and restarts *)
(* do amounts to comparing and announcing in one atomic step.              *)
THEOREM ContractKept == Spec => KeepsContract
<1>1. Init => Contract!Init
  BY ContractInit
<1>2. IInv /\ IInv' /\ [Next]_vars => [Contract!Next]_(Contract!vars)
  BY ContractNext
<1>3. QED
  BY <1>1, <1>2, Invariant, PTL DEF Spec, KeepsContract, Contract!Spec
-----------------------------------------------------------------------------
(***************************************************************************)
(* An outage behind an outage.  A sweep can only damp by a parent that it  *)
(* has measured itself, so a host and its parent must always be due        *)
(* together.  They are, if they have the same interval, hosts are not      *)
(* switched off and on one by one, and no probe task dies: then every time *)
(* the schedule is set, forgotten or moved on, it is so for both.          *)
(***************************************************************************)
EqualIntervals == \A h \in Host : Parent[h] \in Host => Interval[h] = Interval[Parent[h]]

WithParents(S) == \A h \in S : Parent[h] \in Host => Parent[h] \in S

DampInv ==
  /\ enabled = Host
  /\ \A h \in Host : Parent[h] \in Host => wait[h] = wait[Parent[h]]
  /\ pc = "probing" => WithParents(active)
  /\ WithParents(updated)

LEMMA DampInit == Init => DampInv
BY DEF Init, DampInv, WithParents

LEMMA DampNext ==
  ASSUME EqualIntervals, "enabled" \notin Knobs, TypeOK, DampInv, [Next]_vars, ~MeasureSome
  PROVE  DampInv'
<1>1. ASSUME UNCHANGED <<enabled, wait, active, updated>>, pc' = pc \/ pc' # "probing"
      PROVE  DampInv'
  BY <1>1 DEF DampInv, WithParents
<1>2. ASSUME UNCHANGED <<enabled, wait>>, pc' # "probing", SweepOver PROVE DampInv'
  BY <1>2 DEF DampInv, WithParents, SweepOver
<1>3. CASE SweepPaused
  BY <1>3 DEF SweepPaused, DampInv, WithParents, database, sweep
<1>4. ASSUME NEW set, Begin(set) PROVE DampInv'
  <2>1. \A h \in Host : Parent[h] \in Host => (h \in Due <=> Parent[h] \in Due)
    BY DEF DampInv, Due
  <2>2. \A h \in Host : wait'[h] = IF h \in Due THEN Interval[h] ELSE wait[h]
    BY <1>4 DEF Begin
  <2>3. \A h \in Host : Parent[h] \in Host => wait'[h] = wait'[Parent[h]]
    BY <2>1, <2>2 DEF DampInv, EqualIntervals
  <2>4. WithParents(active') /\ active' \subseteq Host
    BY <1>4, <2>1 DEF Begin, WithParents, Due, DampInv
  <2>5. QED
    BY <1>4, <2>3, <2>4 DEF Begin, DampInv, WithParents, database
<1>5. CASE MeasureAll
  BY <1>5 DEF MeasureAll, Measure, DampInv, WithParents, database
<1>6. CASE Crash
  BY <1>6 DEF Crash, SweepOver, DampInv, WithParents, database
<1>7. CASE Tick
  <2>1. \A h \in Host : wait'[h] = IF wait[h] > 0 THEN wait[h] - 1 ELSE 0
    BY <1>7 DEF Tick
  <2>2. \A h \in Host : Parent[h] \in Host => wait'[h] = wait'[Parent[h]]
    BY <2>1 DEF DampInv
  <2>3. QED
    BY <1>7, <2>2 DEF Tick, DampInv, WithParents, database, sweep
<1>8. CASE Boot \/ BootBlind
  BY <1>1, <1>8 DEF Boot, BootBlind, database, sweep
<1>9. ASSUME NEW h \in Host, RecordPoll(h) \/ AdvanceQuietly(h) \/ GateHold(h) \/ GateAlarm(h)
      PROVE  DampInv'
  BY <1>1, <1>9 DEF RecordPoll, AdvanceQuietly, GateHold, GateAlarm, database
<1>10. CASE SweepEnd \/ SweepAbort
  BY <1>2, <1>10 DEF SweepEnd, SweepAbort, database
<1>11. ASSUME NEW h \in Host, GateTorn(h) PROVE DampInv'
  BY <1>2, <1>11 DEF GateTorn
<1>12. CASE SetLive \/ SetAlarms \/ SetChannels
  BY <1>1, <1>12 DEF SetLive, SetAlarms, SetChannels, process, sweep
<1>13. ASSUME NEW h \in Host, LinkChanges(h) \/ SetSms(h) \/ HoldByOperator(h) \/ HoldByClock(h)
       PROVE  DampInv'
  BY <1>1, <1>13 DEF LinkChanges, SetSms, HoldByOperator, HoldByClock, process, sweep, database
<1>14. ASSUME NEW h \in Host, SetEnabled(h) PROVE DampInv'
  BY <1>14 DEF SetEnabled
<1>15. CASE UNCHANGED vars
  BY <1>1, <1>15 DEF vars, process, sweep, database
<1>16. QED
  BY <1>3, <1>4, <1>5, <1>6, <1>7, <1>8, <1>9, <1>10, <1>11, <1>12, <1>13, <1>14,
     <1>15, Zenon DEF Next, Sweeper, Faulty, Surroundings, SweepStart, SweepUnread

(* An outage passes the gate only if the sweep holds the parent, where it  *)
(* has measured it, to be up.                                              *)
LEMMA GateLooksUp ==
  ASSUME TypeOK, SweepInv, NEW h \in Host, GateOpen(h), Parent[h] \in updated
  PROVE  Confirmed[Parent[h]] # "down"
<1>1. Parent[h] \in Host /\ mem[Parent[h]].status # "down"
      /\ mem[Parent[h]] \in HostMonitorState
  BY DEF GateOpen, Suppressed, SweepInv, TypeOK
<1>2. QED
  BY <1>1, MonitorAssumption DEF Confirmed

DampStep ==
  \A h \in Host, c \in Channel :
    feed'[h][c] = "down" /\ feed[h][c] # "down" /\ Parent[h] \in enabled
      => Confirmed[Parent[h]] # "down"

LEMMA DampStepNext == TypeOK /\ SweepInv /\ DampInv /\ [Next]_vars => DampStep
<1> SUFFICES ASSUME TypeOK, SweepInv, DampInv, [Next]_vars PROVE DampStep
  OBVIOUS
<1>1. ASSUME NEW h \in Host, GateOpen(h), NEW cs, Enqueue(h, cs)
      PROVE  DampStep
  <2>1. \A g \in Host \ {h} : feed'[g] = feed[g]
    BY <1>1, EnqueueFeed
  <2>2. h \in updated
    BY <1>1 DEF GateOpen, AtGate, SweepInv
  <2>3. Parent[h] \in enabled => Confirmed[Parent[h]] # "down"
    BY <1>1, <2>2, GateLooksUp DEF DampInv, WithParents
  <2>4. QED
    BY <2>1, <2>3 DEF DampStep
<1>2. ASSUME NEW h \in Host, GateAlarm(h) PROVE DampStep
  BY <1>1, <1>2 DEF GateAlarm
<1>3. ASSUME NEW h \in Host, GateTorn(h) PROVE DampStep
  BY <1>1, <1>3 DEF GateTorn
<1>4. CASE UNCHANGED feed
  BY <1>4 DEF DampStep
<1>5. QED
  BY <1>2, <1>3, <1>4
     DEF Next, Sweeper, Faulty, Surroundings, vars, database, process, budget,
         Boot, SweepPaused, SweepStart, SweepUnread, Begin, Measure, MeasureAll, RecordPoll,
         AdvanceQuietly, GateHold, SweepEnd, BootBlind, MeasureSome, SweepAbort,
         Crash, Tick, SetLive, SetAlarms, LinkChanges, SetEnabled,
         SetChannels, SetSms, HoldByOperator, HoldByClock

(* Hosts that are polled as often as their parents are not announced to be *)
(* down while the monitor holds the parent to be down: through pauses,     *)
(* snoozes, restarts, sweeps cut short and trees of any depth, as long as  *)
(* no probe task dies and no host is switched off or on                    *)
(* (engine/suppression.rs, engine/monitor.rs).                             *)
THEOREM DampedCorrect ==
  ASSUME EqualIntervals, "enabled" \notin Knobs
  PROVE  Spec /\ [][~MeasureSome]_vars => DampedBehindParent
<1>1. Init => DampInv
  BY DampInit
<1>2. IInv /\ DampInv /\ [Next]_vars /\ [~MeasureSome]_vars => DampInv'
  <2>1. CASE UNCHANGED vars
    BY <2>1 DEF vars, process, sweep, database, DampInv, WithParents
  <2>2. CASE ~UNCHANGED vars
    BY <2>2, DampNext DEF IInv
  <2>3. QED
    BY <2>1, <2>2
<1>3. Spec /\ [][~MeasureSome]_vars => []DampInv
  BY <1>1, <1>2, Invariant, PTL DEF Spec
<1>4. IInv /\ DampInv /\ [Next]_vars => [DampStep]_vars
  BY DampStepNext DEF IInv
<1>5. QED
  BY <1>3, <1>4, Invariant, PTL DEF Spec, DampedBehindParent, DampStep
-----------------------------------------------------------------------------
(***************************************************************************)
(* What damping amounts to.  A host is fed n events, outcomes and ticks,   *)
(* and s[i] is its state after i of them.  It is in a streak since event   *)
(* m, or since the start when m is 0, if there was no opposite outcome     *)
(* after that, and the streak has lasted as many ticks as have passed.     *)
(***************************************************************************)
Fed(s, o, n, f, g) ==
  /\ s \in [0..n -> HostMonitorState] /\ o \in [1..n -> Outcome \cup {"tick"}]
  /\ \A i \in 1..n : s[i] = IF o[i] = "tick" THEN Older(s[i - 1])
                            ELSE RegisterPoll(s[i - 1], o[i], f, g)

InStreak(s, o, m, n, r) ==
  /\ IF m = 0 THEN s[0].streak = r ELSE o[m] = r
  /\ \A i \in (m + 1)..n : o[i] \in {r, "tick"}

TicksOf(o, m, n) == {i \in (m + 1)..n : o[i] = "tick"}
Lasting(o, m, n) == Cardinality(TicksOf(o, m, n))

Period(r, f, g) == IF r = "fail" THEN f ELSE g
Target(r)       == IF r = "fail" THEN "down" ELSE "up"

(* The last outcome is the second of a streak at least, and that streak    *)
(* has lasted the period.                                                  *)
Earned(s, o, n, f, g) ==
  \E m \in 0..(n - 1) : InStreak(s, o, m, n, o[n]) /\ Lasting(o, m, n) >= Period(o[n], f, g)

NatLess == {ss \in Nat \X Nat : ss[1] < ss[2]}

LEMMA NatLessWellFounded == IsWellFoundedOn(NatLess, Nat)
BY NatLessThanWellFounded DEF OpToRel, NatLess

(* Every set of natural numbers that is not empty has a least member.      *)
LEMMA LeastNat ==
  ASSUME NEW T \in SUBSET Nat, T # {}
  PROVE  \E i \in T : \A j \in T : ~(j < i)
<1>1. PICK i \in T : \A j \in T : <<j, i>> \notin NatLess
  BY NatLessWellFounded, WFMin
<1>2. QED
  BY <1>1 DEF NatLess

LEMMA LastingType ==
  ASSUME NEW m \in Nat, NEW n \in Nat, NEW o
  PROVE  IsFiniteSet(TicksOf(o, m, n)) /\ Lasting(o, m, n) \in Nat
<1>1. IsFiniteSet((m + 1)..n)
  BY FS_Interval
<1>2. TicksOf(o, m, n) \subseteq (m + 1)..n
  BY DEF TicksOf
<1>3. QED
  BY <1>1, <1>2, FS_Subset, FS_CardinalityType DEF Lasting

LEMMA LastingNone ==
  ASSUME NEW m \in Nat, NEW o
  PROVE  Lasting(o, m, m) = 0
<1>1. TicksOf(o, m, m) = {}
  BY DEF TicksOf
<1>2. QED
  BY <1>1, FS_EmptySet DEF Lasting

LEMMA LastingStep ==
  ASSUME NEW m \in Nat, NEW n \in Nat, m < n, NEW o
  PROVE  /\ Lasting(o, m, n) \in Nat /\ Lasting(o, m, n - 1) \in Nat
         /\ o[n] = "tick" => Lasting(o, m, n) = Lasting(o, m, n - 1) + 1
         /\ o[n] # "tick" => Lasting(o, m, n) = Lasting(o, m, n - 1)
<1>1. n - 1 \in Nat
  OBVIOUS
<1>2. o[n] = "tick" => TicksOf(o, m, n) = TicksOf(o, m, n - 1) \cup {n} /\ n \notin TicksOf(o, m, n - 1)
  BY DEF TicksOf
<1>3. o[n] # "tick" => TicksOf(o, m, n) = TicksOf(o, m, n - 1)
  BY DEF TicksOf
<1>4. IsFiniteSet(TicksOf(o, m, n - 1)) /\ Lasting(o, m, n) \in Nat /\ Lasting(o, m, n - 1) \in Nat
  BY <1>1, LastingType
<1>5. QED
  BY <1>2, <1>3, <1>4, FS_AddElement DEF Lasting

(* One event, field by field.                                              *)
LEMMA FedType ==
  ASSUME NEW n \in Nat, NEW s, NEW o, NEW f, NEW g, Fed(s, o, n, f, g), NEW i \in 1..n
  PROVE  /\ s[i] \in HostMonitorState /\ s[i - 1] \in HostMonitorState
         /\ o[i] \in Outcome \cup {"tick"}
         /\ s[i] = IF o[i] = "tick" THEN Older(s[i - 1]) ELSE RegisterPoll(s[i - 1], o[i], f, g)
<1>1. i \in 0..n /\ i - 1 \in 0..n
  OBVIOUS
<1>2. QED
  BY <1>1 DEF Fed

LEMMA FedTick ==
  ASSUME NEW n \in Nat, NEW s, NEW o, NEW f, NEW g, Fed(s, o, n, f, g), NEW i \in 1..n,
         o[i] = "tick"
  PROVE  /\ s[i].status = s[i - 1].status /\ s[i].streak = s[i - 1].streak
         /\ s[i].age = IF s[i - 1].age < MaxAge THEN s[i - 1].age + 1 ELSE s[i - 1].age
<1>1. s[i - 1] \in HostMonitorState /\ o[i] \in Outcome \cup {"tick"}
  BY FedType
<1>2. s[i] = Older(s[i - 1])
  BY FedType
<1>3. QED
  BY <1>1, <1>2 DEF Older, HostMonitorState

LEMMA FedTurn ==
  ASSUME NEW n \in Nat, NEW s, NEW o, NEW f, NEW g, Fed(s, o, n, f, g), NEW i \in 1..n,
         o[i] # "tick", o[i] # s[i - 1].streak
  PROVE  s[i].status = s[i - 1].status /\ s[i].streak = o[i] /\ s[i].age = 0
<1>1. s[i - 1] \in HostMonitorState /\ o[i] \in Outcome \cup {"tick"}
  BY FedType
<1>2. s[i] = RegisterPoll(s[i - 1], o[i], f, g)
  BY FedType
<1>3. QED
  BY <1>1, <1>2 DEF RegisterPoll, HostMonitorState

LEMMA FedMore ==
  ASSUME NEW n \in Nat, NEW s, NEW o, NEW f, NEW g, Fed(s, o, n, f, g), NEW i \in 1..n,
         o[i] # "tick", o[i] = s[i - 1].streak
  PROVE  /\ s[i].streak = s[i - 1].streak /\ s[i].age = s[i - 1].age
         /\ s[i].status = IF s[i].age >= Period(o[i], f, g) THEN Target(o[i])
                          ELSE s[i - 1].status
<1>1. s[i - 1] \in HostMonitorState /\ o[i] \in Outcome \cup {"tick"}
  BY FedType
<1>2. s[i] = RegisterPoll(s[i - 1], o[i], f, g)
  BY FedType
<1>3. QED
  BY <1>1, <1>2 DEF RegisterPoll, ConfirmsDown, ConfirmsUp, Period, Target,
                    HostMonitorState, Status, Outcome

LEMMA FedAge ==
  ASSUME NEW n \in Nat, NEW s, NEW o, NEW f, NEW g, Fed(s, o, n, f, g),
         NEW i \in 1..n, o[i] = "tick" \/ o[i] = s[i - 1].streak
  PROVE  /\ s[i].age \in 0..MaxAge /\ s[i - 1].age \in 0..MaxAge
         /\ o[i] = "tick" => s[i].age <= s[i - 1].age + 1
         /\ o[i] = "tick" => s[i].age = s[i - 1].age + 1 \/ s[i].age = MaxAge
         /\ o[i] # "tick" => s[i].age = s[i - 1].age
<1>1. s[i].age \in 0..MaxAge /\ s[i - 1].age \in 0..MaxAge
  BY FedType DEF HostMonitorState
<1>2. CASE o[i] = "tick"
  <2>1. s[i].age = IF s[i - 1].age < MaxAge THEN s[i - 1].age + 1 ELSE s[i - 1].age
    BY <1>2, FedTick
  <2>2. QED
    BY <1>1, <1>2, <2>1, MaxAgeAssumption
<1>3. CASE o[i] # "tick"
  BY <1>1, <1>3, FedMore
<1>4. QED
  BY <1>2, <1>3

(* The state knows its streak and never makes it longer than it is.        *)
LEMMA StreakKnown ==
  ASSUME NEW n \in Nat, NEW s, NEW o, NEW f, NEW g,
         Fed(s, o, n, f, g), s[0].age = 0, NEW j \in 0..n
  PROVE  \E m \in 0..j : InStreak(s, o, m, j, s[j].streak) /\ s[j].age <= Lasting(o, m, j)
<1> DEFINE Known(i) == \E m \in 0..i : InStreak(s, o, m, i, s[i].streak) /\ s[i].age <= Lasting(o, m, i)
<1> DEFINE Bad == {i \in 0..n : ~Known(i)}
<1>1. Known(0)
  <2>1. InStreak(s, o, 0, 0, s[0].streak)
    BY DEF InStreak
  <2>2. Lasting(o, 0, 0) = 0
    BY LastingNone
  <2>3. QED
    BY <2>1, <2>2
<1>2. ASSUME NEW i \in 1..n, Known(i - 1) PROVE Known(i)
  <2>1. CASE o[i] # "tick" /\ o[i] # s[i - 1].streak
    <3>1. InStreak(s, o, i, i, s[i].streak) /\ s[i].age = 0
      BY <2>1, FedTurn DEF InStreak
    <3>2. Lasting(o, i, i) = 0
      BY LastingNone
    <3>3. QED
      BY <3>1, <3>2
  <2>2. CASE o[i] = "tick" \/ o[i] = s[i - 1].streak
    <3>1. PICK m \in 0..(i - 1) :
            InStreak(s, o, m, i - 1, s[i - 1].streak) /\ s[i - 1].age <= Lasting(o, m, i - 1)
      BY <1>2
    <3>2. s[i].streak = s[i - 1].streak
      BY <2>2, FedTick, FedMore
    <3>3. InStreak(s, o, m, i, s[i].streak)
      BY <2>2, <3>1, <3>2 DEF InStreak
    <3>4. Lasting(o, m, i) \in Nat /\ Lasting(o, m, i - 1) \in Nat
          /\ (o[i] = "tick" => Lasting(o, m, i) = Lasting(o, m, i - 1) + 1)
          /\ (o[i] # "tick" => Lasting(o, m, i) = Lasting(o, m, i - 1))
      BY LastingStep, m < i
    <3>5. /\ s[i - 1].age \in 0..MaxAge /\ s[i].age \in 0..MaxAge
          /\ o[i] = "tick" => s[i].age <= s[i - 1].age + 1
          /\ o[i] # "tick" => s[i].age = s[i - 1].age
      BY <2>2, FedAge
    <3>6. s[i].age <= Lasting(o, m, i)
      BY <3>1, <3>4, <3>5
    <3>7. QED
      BY <3>3, <3>6
  <2>3. QED
    BY <2>1, <2>2
<1>3. SUFFICES ASSUME ~Known(j) PROVE FALSE
  OBVIOUS
<1>4. Bad \in SUBSET Nat /\ Bad # {}
  BY <1>3
<1> HIDE DEF Known
<1>5. PICK i \in Bad : \A k \in Bad : ~(k < i)
  BY <1>4, LeastNat
<1>6. i \in 1..n /\ i - 1 \in 0..n /\ ~Known(i)
  BY <1>1, <1>5
<1>7. Known(i - 1)
  BY <1>5, <1>6
<1>8. QED
  BY <1>2, <1>6, <1>7

(* And it counts a streak in full, up to where ages saturate.              *)
LEMMA StreakCounted ==
  ASSUME NEW n \in Nat, NEW s, NEW o, NEW f, NEW g,
         Fed(s, o, n, f, g), NEW r \in Outcome, NEW m \in 0..n, InStreak(s, o, m, n, r),
         NEW j \in m..n
  PROVE  s[j].streak = r /\ (s[j].age = MaxAge \/ s[j].age >= Lasting(o, m, j))
<1> DEFINE Counted(i) == s[i].streak = r /\ (s[i].age = MaxAge \/ s[i].age >= Lasting(o, m, i))
<1> DEFINE Bad == {i \in m..n : ~Counted(i)}
<1>1. Counted(m)
  <2>1. Lasting(o, m, m) = 0
    BY LastingNone
  <2>2. s[m] \in HostMonitorState
    BY DEF Fed
  <2>3. s[m].streak = r
    <3>1. CASE m = 0
      BY <3>1 DEF InStreak
    <3>2. CASE m # 0
      <4>1. m \in 1..n /\ o[m] = r /\ r # "tick"
        BY <3>2 DEF InStreak, Outcome
      <4>2. QED
        BY <4>1, FedTurn, FedMore
    <3>3. QED
      BY <3>1, <3>2
  <2>4. QED
    BY <2>1, <2>2, <2>3 DEF HostMonitorState
<1>2. ASSUME NEW i \in (m + 1)..n, Counted(i - 1) PROVE Counted(i)
  <2>1. i \in 1..n /\ o[i] \in {r, "tick"} /\ s[i - 1].streak = r
    BY <1>2 DEF InStreak
  <2>2. s[i].streak = r
    BY <2>1, FedTick, FedTurn, FedMore
  <2>3. Lasting(o, m, i) \in Nat /\ Lasting(o, m, i - 1) \in Nat
        /\ (o[i] = "tick" => Lasting(o, m, i) = Lasting(o, m, i - 1) + 1)
        /\ (o[i] # "tick" => Lasting(o, m, i) = Lasting(o, m, i - 1))
    BY LastingStep, m < i
  <2>4. s[i - 1].age \in 0..MaxAge /\ s[i].age \in 0..MaxAge
        /\ (o[i] = "tick" => s[i].age = s[i - 1].age + 1 \/ s[i].age = MaxAge)
        /\ (o[i] # "tick" => s[i].age = s[i - 1].age)
    BY <2>1, FedAge
  <2>5. s[i - 1].age = MaxAge \/ s[i - 1].age >= Lasting(o, m, i - 1)
    BY <1>2
  <2>6. s[i].age = MaxAge \/ s[i].age >= Lasting(o, m, i)
    BY <2>3, <2>4, <2>5, MaxAgeAssumption
  <2>7. QED
    BY <2>2, <2>6
<1>3. SUFFICES ASSUME ~Counted(j) PROVE FALSE
  OBVIOUS
<1>4. Bad \in SUBSET Nat /\ Bad # {}
  BY <1>3
<1> HIDE DEF Counted
<1>5. PICK i \in Bad : \A k \in Bad : ~(k < i)
  BY <1>4, LeastNat
<1>6. i \in (m + 1)..n /\ i - 1 \in m..n /\ ~Counted(i)
  BY <1>1, <1>5
<1>7. Counted(i - 1)
  BY <1>5, <1>6
<1>8. QED
  BY <1>2, <1>6, <1>7

(* Time alone changes no status, and an outcome turns the status over to   *)
(* its own exactly when it is one of an unbroken streak that has lasted    *)
(* the period: single flaps are absorbed, however many there are, and no   *)
(* outage that lasts is missed (flap.rs: register_poll).                   *)
THEOREM FlapExact ==
  ASSUME NEW n \in Nat \ {0}, NEW s, NEW o, NEW f \in 0..MaxAge, NEW g \in 0..MaxAge,
         Fed(s, o, n, f, g), s[0].age = 0
  PROVE  /\ o[n] = "tick" => s[n].status = s[n - 1].status
         /\ o[n] # "tick" =>
              s[n].status = IF Earned(s, o, n, f, g) THEN Target(o[n]) ELSE s[n - 1].status
<1>1. n \in 1..n /\ n \in Nat /\ n - 1 \in 0..n /\ o[n] \in Outcome \cup {"tick"}
  BY DEF Fed
<1>2. ASSUME o[n] = "tick" PROVE s[n].status = s[n - 1].status
  <2>1. \A i \in 1..n : o[i] = "tick" => s[i].status = s[i - 1].status
    BY <1>1, FedTick
  <2>2. QED
    BY <1>1, <1>2, <2>1
<1>3. Period(o[n], f, g) \in 0..MaxAge
  BY DEF Period
<1>4. s[n - 1] \in HostMonitorState /\ s[n] \in HostMonitorState
  BY <1>1, FedType
<1>5. ASSUME o[n] # "tick", o[n] = s[n - 1].streak, s[n].age >= Period(o[n], f, g)
      PROVE  Earned(s, o, n, f, g)
  <2>1. PICK m \in 0..(n - 1) :
          InStreak(s, o, m, n - 1, s[n - 1].streak) /\ s[n - 1].age <= Lasting(o, m, n - 1)
    BY <1>1, StreakKnown
  <2>2. InStreak(s, o, m, n, o[n])
    BY <1>5, <2>1 DEF InStreak
  <2>3. Lasting(o, m, n) = Lasting(o, m, n - 1) /\ Lasting(o, m, n) \in Nat
    <3>1. m \in Nat /\ m < n
      OBVIOUS
    <3>2. QED
      BY <1>1, <1>5, <3>1, LastingStep
  <2>4. s[n].age = s[n - 1].age
    BY <1>1, <1>5, FedMore
  <2>5. Lasting(o, m, n) >= Period(o[n], f, g)
    BY <1>3, <1>4, <1>5, <2>1, <2>3, <2>4, MaxAgeAssumption DEF HostMonitorState
  <2>6. QED
    BY <2>2, <2>5 DEF Earned
<1>6. ASSUME o[n] # "tick", Earned(s, o, n, f, g)
      PROVE  o[n] = s[n - 1].streak /\ s[n].age >= Period(o[n], f, g)
  <2>1. PICK m \in 0..(n - 1) : InStreak(s, o, m, n, o[n]) /\ Lasting(o, m, n) >= Period(o[n], f, g)
    BY <1>6 DEF Earned
  <2>2. o[n] \in Outcome /\ m \in 0..n /\ n - 1 \in m..n /\ n \in m..n
    BY <1>1, <1>6
  <2>3. InStreak(s, o, m, n, o[n])
    BY <2>1
  <2> DEFINE r == o[n]
  <2> HIDE DEF r
  <2>4. r \in Outcome /\ InStreak(s, o, m, n, r) /\ n - 1 \in m..n /\ n \in m..n /\ m \in 0..n
    BY <2>2, <2>3 DEF r
  <2>5. s[n - 1].streak = r
    BY <2>4, StreakCounted
  <2>6. s[n].age = MaxAge \/ s[n].age >= Lasting(o, m, n)
    BY <2>4, StreakCounted
  <2>7. Lasting(o, m, n) \in Nat
    BY LastingType
  <2>8. s[n].age >= Period(o[n], f, g)
    BY <1>3, <1>4, <2>1, <2>7, <2>6, MaxAgeAssumption DEF HostMonitorState
  <2>9. QED
    BY <2>5, <2>8 DEF r
<1>7. ASSUME o[n] # "tick"
      PROVE  s[n].status = IF Earned(s, o, n, f, g) THEN Target(o[n]) ELSE s[n - 1].status
  <2>1. CASE o[n] = s[n - 1].streak
    BY <1>1, <1>5, <1>6, <1>7, <2>1, FedMore
  <2>2. CASE o[n] # s[n - 1].streak
    BY <1>1, <1>6, <1>7, <2>2, FedTurn
  <2>3. QED
    BY <2>1, <2>2
<1>8. QED
  BY <1>2, <1>7
=============================================================================
