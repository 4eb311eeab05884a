# NetFyr in TLA+

NetFyr watches the hosts of a network. It probes them at intervals, decides by
hysteresis when one is down or up again, and tells people so on several
channels: webhook, mail, MQTT, web push and text messages with escalation. It
is one process (Rust, Axum, tokio) over one SQLite file. This directory holds a
specification of it in TLA+, written from the sources, with the configurations
that model-check it on small instances and proofs of what matters most for
every instance. Paths below are relative to the repository; `engine/…`,
`queue.rs` and the like are under `src/`.

## 1. The system

`main.rs:26-177` starts these tasks. They run concurrently, for ever, and share
the database handle:

| part | code | state it keeps | what it does to it |
|---|---|---|---|
| monitoring loop | `engine/monitor.rs` | memory: flap state, latency trackers and next time per address; rows: `host_status`, `samples` | one sweep a second: read settings, hosts, windows and statuses; probe what is due; record; pass the alarm gate |
| flap damping | `engine/flap.rs` | the flap state of one host | confirm a status once a streak has lasted |
| suppression | `engine/suppression.rs` | none | snooze, maintenance window, parent down |
| latency alarm | `engine/slow.rs` | a tracker per host | alarm when slow for long, once |
| delivery queue | `queue.rs` | `deliveries` | rounds of 20 due rows: send, then sent / failed / retry later |
| channels | `channels/*.rs` | memory: token, modem and login backoff of the SMS gateway; row: the push subscriptions | deliver one message; web push also removes expired subscriptions |
| SMS engine | `sms_engine.rs` | `sms_sessions`, `sms_seen_inbox`; memory: baseline taken | escalate, read the inbox, acknowledge, prune |
| retention | `retention.rs` | none (a timer) | delete old rows |
| watchdog | `watchdog.rs` | memory: a listener, the beginning of a pause | a heartbeat for external monitors, until a pause outlasts its grace |
| sessions and users | `auth.rs`, `api/auth.rs`, `api/users.rs` | `users`, `sessions` | login with lockout, roles, revocation, clean-up |
| HTTP API | `api/*.rs` | everything above, `settings` (with the configuration of the channels), `hosts`, `groups`, `windows` | what operators do |
| secrets | `secrets.rs` | an encrypted file and its map in memory | set, remove, replace the file |
| web client | `web/*.js` | what the page shows | polls the API |

**How they interact.** Tasks do not call each other. They share rows: the
monitor inserts deliveries that the queue takes, and SMS sessions that the SMS
engine works on; operators change settings, hosts and windows that a sweep has
already read. All go through `Db::call` (`db.rs:164-177`): one closure at a
time has the connection, so a closure is *exclusive*; but it is *no
transaction*. Each statement commits by itself unless the closure opens one
(`record_poll`, creating and updating hosts, a change of role and the import do). Between two calls of
a task anything may happen: other tasks' calls, operators, the clock, a failed
call (`?` leaves the function), the end of the process. This is the atomicity of
all the models: one step per database call, except where a fault between two
statements of one call is modelled as a step of its own (`GateTorn`, `UpdateUserTorn`,
`RecordTorn` and their like). `sms_engine.rs:497` says of a call that all of it is one
transaction; it opens none, and is modelled so.

**What makes it hard.**

- A sweep decides on data it read before it awaited the probes, and writes host
  by host afterwards. What it writes back includes a value it read at the start
  (`reported`).
- Two statuses are kept per host, the confirmed and the reported one. Every held,
  aborted or forgotten alarm must be found again by comparing them, and no
  comparison may produce an alarm that nobody should get.
- The queue sends first and records afterwards. Anything between the two
  means a message that is sent again.
- The SMS engine matches an inbox that is fetched over the network against
  sessions that the monitor may close and codes that may be used again.
- A request to the HTTP API is admitted in one database call and does its work in
  another, with the user and the role it was admitted with. In between, the account
  may lose its role, its password or its existence.
- The SMS gateway's token and the push subscriptions are read, the network is awaited,
  and then something is concluded from what was read: whose token it was, which
  subscriptions are left.
- The list of channels and the switches are read anew with every sweep, and a row that
  cannot be read counts as its default, which for the channels is none. An alarm is done
  with once it has gone to the channels there are, if any.
- Settings are written back whole by clients that read them some time ago, and the file
  of secrets by a second process.
- What is kept in memory only (latency trackers, the pause the watchdog has noticed, the
  login backoff, the baseline of the inbox) starts from nothing after a restart.
- Timers, time-outs and cut-offs compare stored instants with a clock that goes on
  during the work.

**What each part must guarantee**, in one line each: the *monitor* tells every
lasting outage and recovery to the channels configured then, in pairs, and not the
outage behind an outage; the *queue* settles every delivery, for a reason, in order, at least once; the *SMS
engine* lets in every recipient in turn, within the window, until an answer that
deserves to count; *retention* keeps rows no longer than promised; *sessions*
end at logout, idle time-out, revocation or change of password, and one
administrator remains; the *dependency guard* keeps the parents free of cycles; the *gateway
client* texts nobody twice in an attempt, shows no token to a stranger, and spaces its
logins; *web push* keeps its key and everybody's subscription; the *latency alarm* comes
of slowness that lasts, and each channel gets it in pairs; the *watchdog* makes a forgotten pause visible.

PROJECT.json lists the components, those not modelled with the reason, and the
hazards at their lines.

## 2. The modules

| module | models | extends / refines |
|---|---|---|
| `Flap` | `engine/flap.rs` as operators on a flap state | |
| `AlarmContract` | what the monitor promises, without sweeps | |
| `Monitor` | the monitoring loop, `host_status`, the alarm gate, operators, faults | extends `Flap`, implements `AlarmContract` |
| `MonitorProof` | theorems about `Monitor` | |
| `DeliveryQueue` | `queue.rs` and the `deliveries` table with its other writers | |
| `DeliveryQueueProof` | theorems about `DeliveryQueue` | |
| `Retention` | the timer and the cut-offs of `retention.rs` | |
| `SmsEngine` | sessions, escalation, the inbox and acknowledgement | |
| `SmsEngineProof` | theorems about `SmsEngine` | |
| `Gateway` | the client of the SMS gateway: token, modem, login backoff, its callers | |
| `GatewayProof` | theorems about `Gateway` | |
| `Secrets` | the map of secrets and its file, with the maintenance command | |
| `PushChannel` | subscriptions, activation, a send over the subscriptions, pruning | extends `Secrets` |
| `PushChannelProof` | theorems about `PushChannel` and `Secrets` | |
| `SlowAlarm` | the tracker of the latency alarm as operators | |
| `Watchdog` | the listener and its grace | |
| `Supervision` | sweep (the part that feeds the latency alarm) and watchdog in one process, with settings, faults and restarts | extends `SlowAlarm`, `Watchdog` |
| `SupervisionProof` | theorems about `Supervision` | |
| `Accounts` | accounts, sessions, requests under way, the hourly clean-up | |
| `AccountsProof` | theorems about `Accounts` | |
| `HostDirectory` | the hosts' addresses and dependencies, the guard against cycles, import | |
| `HostDirectoryProof` | theorems about `HostDirectory` | |
| `HostStatus` | hosts that come, go and move, and the status rows that stay under an address | |
| `MCMonitor`, `MCDeliveryQueue`, `MCSmsEngine`, `MCAccounts`, `MCHostDirectory`, `MCPushChannel` | values for the constants | |

The map in PROJECT.json gives the lines of each definition. Operators marked
"Mutant" are variants a plausible mistake would produce; no specification uses
them. Each is there to show that a property would notice.

### Monitor and Flap

| variable | code |
|---|---|
| `enabled`, `smsOff` | `hosts.enabled`, `hosts.sms_enabled` |
| `live`, `alarms`, `channels` | the settings of these names |
| `held` | snoozed until later, or in an active window |
| `row` | `host_status.status` and `reported_status` |
| `feed` | history: the last event inserted into `deliveries` per host and channel |
| `mem` | `Monitor.state`, with the *age* of the streak for the instant it began |
| `wait` | `Monitor.next_due`, as the time left |
| `seen`, `active`, `updated`, `save`, `quiet`, `news` | the locals of `sweep`: what was read (with `seen.to`, the channels of each host's alarms), and what is still to be written |
| `pc` | where the loop is: starting, between sweeps, probing, writing |
| `torn`, `passed` | history: the hosts whose last announcement was cut short; the channels that a host's last complete one did not go to |

`SweepStart` is the four reads at the top of `sweep`, taken as one step: nothing
is written between them, and a change that falls between two of them is one that
falls before or after. The settings and the choice of channels are looked at there only, so
operators change them between sweeps. `Measure` is everything from the probes' answers to the
first write. `RecordPoll`, `AdvanceQuietly` and `GateAlarm` are one call each and
come in the order of the code: all polls, then the quiet advances, then the
gate. Within each group any host may be next, which includes the code's order.
`HoldByClock` is a snooze or window that begins or ends between the reads and the
instant the sweep uses (`now`, taken after the probes).

Faults: a row map that cannot be read at start (`BootBlind`), settings that cannot be read
and count as their defaults, any of them (`SweepUnread`, `repo.rs:78-120`), a probe task that
dies (`MeasureSome`), a call that fails (`SweepAbort`), an alarm closure that fails
after some of its statements (`GateTorn`), and the end of the process (`Crash`).

`AlarmContract` has no sweeps: the monitor has an opinion about each host, and
*compares and announces in one step*. `KeepsContract` says that the sweeps
implement it, with the opinion being the flap state (or what is stored, where
there is none) and the last announcement being the stored reported status. It
would fail if the value read at the start of a sweep could be stale when it
is written back, or if a decision taken before the writes could be out of date at
the gate.

**Channels come and go.** An announcement goes to the channels that its sweep has read: `GateAlarm`
queues one delivery for each of them and notes the rest in `passed`. The reported status is
moved forward even if there is none, as in the code (`monitor.rs:457-493`). So a channel that is
configured during an outage does not hear of it (`row` says that it is reported) and
gets "up" without "down" afterwards; and if the list cannot be read, an alarm can be done
with that reached nobody. `FeedMatchesReported`, `UpAnswersDown` and `OutageTold` are
about the other channels, those the last announcement has not passed over. The
exception lasts until the next announcement that includes the channel.

What the code does not promise, and no run states: the gate looks a parent up among the
hosts *measured in the same sweep* (`monitor.rs:371`), so a parent with a longer interval
suppresses nothing in the sweeps between (`README.md:29` speaks of failed uplinks without
that limit; `DampedBehindParent` is checked and proved with equal intervals). And if a *recovery* is cut
short after one channel has its delivery, and the host is confirmed down before the
next gate, reported and confirmed agree, and the new outage is not told on that channel:
the sentence "rather twice than not at all" (`monitor.rs:483-485`) is true of outages
(`OutageTold` leaves out hosts whose last announcement was cut short) and not of this case.

Not in `Monitor`: hosts that are added, removed or moved (the table is fixed,
except for `enabled` and `smsOff`; see `HostStatus`), the latency alarm (see `Supervision`), sample
rows, what a channel does with a delivery, and changes of periods, intervals and dependencies, which
are constants. The time outside the probes is not advanced during the writes, where no
one reads the clock.

### DeliveryQueue

One variable per column of `deliveries` that matters, with `due` and `age` as times
to go and gone by, and `batch`, `current`, `outcome` for the locals of `tick`.
`accepted` counts how often a channel has taken a message, `slips` how many of
these nobody recorded; `handed` and `lost` count the handovers and those whose outcome was
forgotten. `Send` and the three ways to record are separate steps with
`Interrupt` between them: the death of the process and a failed call leave the
same state behind, because the task keeps none. `Purge` is the clean-up by
retention.

Rounds are ordered by `created_at`, which the monitor and the SMS engine each take before
the awaits that lead to the insertion (`monitor.rs:262`, `sms_engine.rs:497`). `born` is the
rank of that instant: rows may come in with an older one than rows that are there already,
or with the same one, and `Fetch` is free to order those either way, as SQL is. `late` are
rows that came in after a round with newer ones had been read; they go out after these,
whatever their instant. Ids are given out in the order of insertion.

### Retention

Time in days. `Period` is computed as in the code, milliseconds taken as
seconds.

### SmsEngine

`session` holds the rows of `sms_sessions` by code; `next` and `age` are times to
go and gone by. The engine's `tick` is the steps `Lifecycle` (its first call),
`Fetch` or `PollNothing`, then `Baseline` or `Match`, then `Record`, with the
monitor's alarms (`AlarmDown`, `AlarmUp` are `prepare`), senders, time and restarts
between any two. A text is `dated` or not. A dated one carries the set of sessions it is not too
old to answer: those that are open when it is sent, and those that are opened while it is still
`recent`, that is within the clock margin of it (`AnswersAlso`), for `could_answer` lets a text be up to ten minutes older than the
alarm. One without a readable date can answer any session (`sms_engine.rs:416-424`): it is kept
out by the baseline and by the list of texts seen, or not at all.

Alarms come and go at any time, for hosts with and without a text message; the code
drawn for a session is any that no open session has.

A call that breaks off (`Fault`, at most `MaxFaults` times) leaves the state that its
statements up to there have made: `AlarmDownTorn` a session whose first recipient has not
been counted, or has and is sent nothing; `LifecycleTorn` the rounds of some sessions, one
of which may have counted a recipient without a delivery; `RecordTorn` texts that count as
seen without all of their acknowledgements, or some of them only; `BaselineTorn` a baseline
that counts as taken, because the flag is set before the await (635), with a part of the box
put aside only, so that the rest answers like new texts. `skipped` remembers who was counted and is
sent nothing.

What the code does, and no run states: `tick` returns before `prune` unless a session is
open (`sms_engine.rs:503-505`), so the numbers in the last sessions stay until another one
opens, longer than the seven days of `sms_engine.rs:27-29`; and the baseline is taken at the
first successful look at the inbox *while a session is open*, which is when the first
answers to it may be there: they are put aside with the old ones (`sms_engine.rs:634`),
and the escalation goes on.

Left out: the deletion of texts in the gateway, and the longer code drawn when all 240 short ones are open.

### Accounts

`role`, `disabled`, `failed` and `locked` are the columns of `users` (`locked` as the
time left); an account with the role "none" does not exist, and its id may be given
out again. `session` is the table by token: `left` is the time to `expires_at`, `idle`
and `age` the times since `last_activity` and `created_at`. `request` holds what
`require_auth` put into the request: user, role, token. `Admit` is the middleware's
call; the handlers (`Touch`, `Logout`, `ChangePassword`, `CreateUser`, `UpdateUser`,
`DeleteUser`, `ChangePasswordRefused`, or `Serve` for anything else that leaves this state
alone) come later and end the request. `login` is one call: reading the counter, verifying
the password and writing the counter cannot be interleaved with another attempt.

`UpdateUser` takes every combination of new role, disabling or enabling, and new
password. The change of role is a transaction with the deletion of the sessions; the
rest is not, so `UpdateUserTorn` and `ChangePasswordTorn` break off in front of the
deletion. When a role was changed by the same update the sessions are gone already, and
what has been done equals a smaller update.

History: `policy` (the role that set `expires_at`), `current` (made or kept under the
present password), `guesses` and `torn`.

What the code does not promise, and the model shows: a request that was admitted
as an administrator's does its work although the administrator has been demoted or
disabled meanwhile (`ByAdmin` looks at the request, not at the account). `AdminRemains`
and `SessionFollowsRole` hold in spite of it, because the handlers read the *other*
account afresh and activity needs a session that is still there.

Two places look at passwords. `login` counts the wrong ones and locks; `change_password` verifies
the present one for somebody who has a session, without a look at the lock and without
counting (`ChangePasswordRefused`, `api/auth.rs:356-363`). `GuessesLimited` is about the first:
from within a session any number of wrong passwords is looked at.

Left out: cookies, hashing and strength of passwords, `must_change_password` (which the
server stores and shows, and does not act on), the audit log, and a login that breaks
off between its two statements.

### HostDirectory

`parent` is the table `hosts` by address, reduced to `depends_on_address`; the address is
the identity (`schema.sql:36-37`), so ids do not appear. `Create`, `Depend` (an update
with a dependency, and perhaps a new address), `Move` (an update with a new address
only) and `Import` are a transaction each, and a refused one is no step. `Delete` is one
closure of separate statements (`hosts.rs:384-398`): if the last fails, hosts have lost their
dependency, which `Depend` does to each of them too.
`Ends` is the walk of `validate_dependency`: instead of a loop it states that there is a
walk of at most `MaxWalk` hosts to one without parent. `unguarded` is history: the hosts
that came to their present place without the guard being asked.

Left out: every other field of a host, and `host_status`, which stays under the address
it was written for.

### HostStatus

`host` is the table by address, `row` is `host_status`, whose key is the address, and `mem`
the monitor's memory, by address too. A sweep keeps the id it read with each address. The
sweep's periods are zero and one measurement confirms (`flap.rs:94-98` needs two equal outcomes):
that is `Flap`'s and `Monitor`'s subject; here hosts are created, moved
and deleted between its steps. Deleting a host deletes its row; moving it does not move
the row, and a sweep under way may write one for a host that is gone.

### Gateway

`call[c]` holds the locals of one call: where it is (`at`), the request in hand (`path`), the
requests to come (`todo`), the account it began with (`home`), whether this request has
had its one new login (`forced`), the token and the modem in hand. `cached`, `failures` and
`pause` are `SmsState`. The lock on that state is never held over the network, so each of
`EnsureToken`, the login's answer and the request's answer is a step of its own, and every
caller can be between them at once. Accounts change in between (`Configure`), the
gateways fall ill, forbid, restart and so forget their tokens (`GatewayChanges`), and tokens
expire. An answer may be lost after the gateway has taken the text. `send` goes on to the
next recipient when one fails; every other operation ends. The recipients are a set: an address
that is listed twice counts as two recipients. `remove_messages` asks for the modem first if its
caller does not name it, and is `BeginRead` from there on.

The backoff is counted in units; 5, 30, 120 and 600 s are successive numbers, of which only
the order and the limit matter. Left out: templates, the parsing of answers, and time-outs
as such (an answer that does not come is "error" or "lost").

### PushChannel and Secrets

Two settings rows, the list of channels and the configuration with the subscriptions
(`owner` by endpoint), and one secret, the key. `EnableKey` and `EnableList` are two
calls of one request; any number of requests may be between them. A send (`Begin`, `SendOne`,
`Finish`) works on the subscriptions of its start and prunes those of its end. `ReadList`,
`WriteList`, `ReadConfig`, `WriteConfig` are clients that write back what they read.
`Secrets` is the map in memory (`cache`), the file, and a maintenance command with a map of
its own. Each value stands for the generation of a key; a change writes the whole
map. Left out: encryption, the checks of addresses and the header of each request, whose
outcome is one of the answers, and the loss of a renamed file in a power cut.

### Supervision, Watchdog and SlowAlarm

Time goes by in ticks in which the sweep and the watchdog have a turn each. `Watchdog`
gives a round of `watchdog.rs:run` (`Round`: closed, open, or open for the grace), with a
port that cannot be bound or settings that cannot be read as faults. `SlowAlarm` gives
`SlowTracker::register` as `Fed` and `Verdict`, and `Supervision` the part of the sweep around
it (`PassesGate`: a held-back alarm is not marked as delivered; a recovery that is held
back is gone; what passes goes to the channels the sweep has read, and an alarm is delivered
even if there is none, `monitor.rs:543-567`; `GateFails`: the call that queues the messages fails
before, between or after its inserts). `SweepFails` has settings that cannot be read and count
as their defaults as well. `queue` holds the messages of the present tick, so that a message
like the last one is seen to come. History: `warned` are the channels whose last message is
"slow", `passed` those that the alarm which counts as delivered passed over, `off` is the time since monitoring or the watchdog were last on together
or switched, `slowFor` and `missed` the slowness of the measurements themselves. The thresholds
and times of the settings (`slowThresholdMs`, `slowAlarmSec`, `watchdogGraceMin`) are read
anew with every round in the code and are constants here.

## 3. The runs

| run | question | bounds |
|---|---|---|
| `monitor_solo` | Does the sweep keep its contract, and does every channel it finds configured hear of what lasts? | one host, one channel, periods and interval of one tick, one fault; alarms, monitoring, the list of channels, the host's SMS, the host and its snoozes switched at will |
| `monitor_chain` | Is the outage behind an outage held back? | two hosts polled equally often, the second behind the first, two channels, alarms and monitoring switched on and off |
| `delivery_queue` | Are deliveries settled, for cause, in order, and not starved? | three deliveries, two of them on a channel in trouble, two values of `created_at`, rounds of two, two ticks to give up, one fault |
| `retention` | Are rows deleted in time? | 400 days; **violated** |
| `sms_engine` | Is escalation complete, bounded, final, and each acknowledgement deserved? | one host, two codes, one text with a date or without, two recipients, restarts and alarms at any time, one call that breaks off |
| `host_directory` | Can guarded operations ever close a cycle, and does the guard refuse too much? | four addresses, files of two hosts, a walk of three |
| `host_loop` | Is there never a cycle? | three addresses, no import; **violated** |
| `accounts` | Do revocation, session limits, the lock of the login and the last administrator survive requests admitted earlier? | two accounts, sessions and requests; two wrong passwords lock; limits of one tick, two for users; one call broken off |
| `push` | Do the key, the subscriptions and the list of channels survive everybody who writes them, and does no device confirm a message twice? | two users, three endpoints, a quota of one and two, two secrets, one sender, two activations at once, one disturbance |
| `gateway` | Is nobody texted twice in an attempt, does every call end, do logins keep their distance, and does nothing of old failures stay? | two accounts, one with its modem named, two recipients, a sender and an administrator, two changes of the world |
| `supervision` | Is a forgotten pause seen from outside, and slowness that lasts told, in pairs? | two ports, one channel, a grace of one tick, an alarm after two; monitoring, watchdog, port, latency alarm, alarms and channels changed at any time; one fault |
| `host_status` | Does a host that is created inherit news of another one? | two addresses, two hosts; **violated** |

**Why the bounds are enough.** Ages and waits are compared with a threshold and
nothing else, so one tick has both sides of each comparison. Hosts interact only
through the parent; two hosts have that. Channels do not meet: what an alarm does to one does not
depend on another, not even in an alarm cut short, so one channel that is sometimes listed,
read and chosen and sometimes not has all the cases, and the proofs are for any number. In the
queue one tick is coarse (giving up takes two), so an instant that is taken shortly before the
insertion is of the same tick (`Lag = 0`) but may have any rank among the others; the
proofs have any lag. The queue's batch limit matters as soon as more rows are due than fit, three against two. A
code used again needs a second session of one host after the first has closed and
been pruned, and two codes let an old and a new session coexist. Two administrators
with a request each are what it takes to remove each other, and a session and a
request with two owners what it takes to have one out of date; a user's session that
is longer than an administrator's tells the two rules apart. Four addresses make a chain
that is longer than the walk of three, and two cycles at once. Two accounts make a
token of a stranger, two recipients an attempt that has succeeded for one and failed for
the other, and two changes are a gateway that fails and recovers, or restarts twice within
a call. Three endpoints with quotas of one and two let a legacy subscription, an owned
one and a refused one exist at once. A grace and an alarm time of more than zero have ticks on
both sides. Only the queue sends in `push`: a test of the channel by an administrator is a
second sender, whose report is its own, and which writes what the first one writes.
The number of faults is bounded because each is an arbitrary disturbance; the proofs have
no bound.

**Fairness.** `Monitor`, `DeliveryQueue` and `SmsEngine` have weak fairness of the
task's own step and of time. The tasks are loops that never return; each call in
them returns (probes, HTTP and gateway calls have time-outs, and a database call
waits for the mutex only as long as other closures run). No fairness is assumed of
operators, of hosts, channels or recipients, or of faults, so the liveness properties
say what happens if these *stay* as they are (`<>[]`), or whatever they do
(`AlwaysSettled`, `EverySessionEnds`). `Accounts` has weak fairness of the clean-up and
of time only: nobody has to present a session for it to end. `Gateway` has weak fairness of
time, of every step of a call under way (each request has a time-out, so an answer or an
error comes) and of the queue's next attempt; of accounts and gateways nothing is assumed.
`Supervision` has weak fairness of the sweep's and the watchdog's turns and of time.
`PushChannel` and the violated runs have none, since only safety is asked of them.

**What the passing runs show.**

- `FeedMatchesReported`, `UpAnswersDown`, `KeepsContract`: the stored reported status
  is what the channels were told, recoveries answer outages, and the sweep is as good
  as an atomic comparison. The first two leave out the channels that the last announcement
  passed over.
- `OutageTold`, `RecoveryTold`: an outage that lasts is told on each channel, with the same
  exception, and a recovery that lasts leaves no outage reported, once nothing holds the
  alarm back.
- `DampedBehindParent`: with equal intervals no outage is told while the parent is
  confirmed down.
- `SettledForCause`, `TwiceOnlyAfterSlip`, `NoOvertaking`: a delivery is sent or
  failed for a reason; it is repeated only after a lost record; a newer message (by its
  `created_at`) passes an older one only after a failure of that one, or if that one was not in
  the table yet when the round was read.
- `RetriesPaced`: a message is handed over again only after the delays that were asked for after
  its handovers, and so a bounded number of times; except that a handover whose outcome an
  interruption has forgotten has left nothing in the table and is repeated in the next
  round, each time that happens. The age stops at the time
  to give up in the model, so past it the property says nothing of the wait.
- `AlwaysSettled`, `WorkingChannelServed`: no delivery stays pending, and a broken
  channel does not keep a working one waiting.
- `AckDeserved`, `ExhaustedAfterAll`, `ClosedForGood`, `NoCallAfterWindow`: an acknowledgement
  has an answer behind it, by its code or by somebody called, that was sent at most the clock
  margin before the alarm if its date can be read, and at any time if not; nobody is passed over but
  by a call that broke off, one for each; closed sessions and those whose window is over
  call nobody.
- `EverySessionEnds`: every session ends, also one whose recovery passed the module by.
- `AdminRemains`, `SessionFollowsRole`, `AbsoluteLimit`, `RevocationComplete`: requests
  admitted in the past neither remove the last administrator nor prolong a session by the
  rules of another role, and a change of account ends its sessions unless the
  call broke off.
- `LoopsPastTheGuard`, `GuardExact`: what the guard sees it decides rightly, whatever was
  past it before.
- `GuessesLimited`: the counter and the lock of the login cannot be played against each other.
- `SessionsEnd`: an administrator's session ends however it is used, any other once it is
  not, without anybody presenting it.

- `AtHome`, `TextedOnce`, `LoginsSpaced`: whatever a caller read before it awaited the network,
  it concludes nothing from it that has become wrong; and callers that looked at the pause
  together are all that can fail together.
- `CallsEnd`, `QueueServed`: one new login per request and no more, and a backoff or token of
  the past does not keep a gateway that works from being used.
- `QuotasKept`: the numbers of subscriptions stay bounded, whatever is taken over, pruned or
  written back.
- `KeyKept`, `NothingUndone`: the key and the subscriptions change only by their owner's
  hand, or by the writes named in the properties, which the code indeed allows.
- `NoticedOnce`, `DeliveredReached`: a partial success is final, so that no device confirms a
  message twice (a device whose confirmation is lost on the way may get it again); a delivered
  message has reached every device that still exists.
- `PauseSeen`, `HeartbeatHeard`: the port closes within a grace, a round and the rounds that
  failed, and is open again once it should be.
- `SlowSustained`, `SlowPaired`, `SlowTold`: an alarm is about slowness that has lasted; each
  channel gets word of normal answers only directly after word of slow ones, and slowness that
  lasts is told to each channel. The exceptions are the code's: measurements that were not fed
  (`monitor.rs:342`), and channels that the alarm passed over (`monitor.rs:543-567`).

**What the violated runs show.** Each is a sentence of the repository that the code
does not keep.

1. `retention.rs:28-29`: once a day. `Duration::from_secs(DAY_MS as u64)` is a thousand
   days.
2. `api/hosts.rs:4-8`: without the guard two hosts can silence each other. `update` asks it
   only when the dependency is part of the change (`hosts.rs:344`); an address alone is not
   checked, and an import never. A host that depends on an address nobody has, and is
   then given that address, depends on itself.
3. `monitor.rs:318-319`: "up" is no news without a "down" before it. The status row stays
   under the address of a host that moves (`hosts.rs:314`), and a sweep under way writes
   one for a host that has been deleted (`hosts.rs:374`). A host that is created at that
   address starts from it, and the first thing that is told about it can be that it is up
   again.

## 4. The proofs

TLAPS proves the following for every value of the constants that satisfies the
named assumptions `MaxAgeAssumption`, `MonitorAssumption`, `QueueAssumption`,
`AccountsAssumption`, `DirectoryAssumption`, `WatchdogAssumption`, `SlowAlarmAssumption`,
`SupervisionAssumption`, `GatewayAssumption`, `SmsAssumption`, `NoneAssumption`,
`PushAssumption` and `SecretsAssumption` (sets of
the right kind, positive delays, values that stand for "none" and are no others, and
finitely many codes, endpoints, and callers and recipients of the gateway; no assumption that
anything else is finite or that the dependencies are free of cycles; a file that is imported has
finitely many hosts). The type invariants of these modules are proved
instead of being checked by a run.

**MonitorProof.** `TypeCorrect`, `FeedCorrect`, `UpAnswersDownCorrect`,
`ContractKept`, `DampedCorrect` and `FlapExact`. The heart is the invariant `IInv`: besides the types, a sweep has
hosts to write only while it writes (`SweepInv`), the value read at the start is
still the stored one for every host that is to be written (`Fresh`), what is waiting
for the gate really is news (and the quiet ones are not), and the feed agrees with the
stored report for hosts that were not cut short, on the channels that were not passed over. None of the checked properties is
inductive without `Fresh`: the decision is taken on `seen`, the writes go to `row`.
`Fresh` holds because the sweep alone writes `row`, and writes each host's reported status
at most once after it has been read. `ContractKept` then maps each step to a step of
`AlarmContract`: `Measure`, `Boot` and `Crash` to a change of opinion, `AdvanceQuietly`
to `NoteUp`, `GateAlarm` to `Announce`, `GateTorn` to `CutShort`, the rest to a stutter.
`DampedCorrect` has hypotheses, and each is one the code needs: equal intervals along every
dependency, no host switched off or on (it is then due at another time than its parent), and no
probe task that dies (`MeasureSome`: the parent is then missing from the sweep). Under them
`DampInv` says that a host and its parent are always due together and so measured in the same
sweep, also after one that was cut short. Pauses, snoozes, crashes, torn alarms and cycles of
dependencies are all allowed. `FlapExact` is about `register_poll` alone, along any sequence of
outcomes: the streak that `Polled` keeps in two variables is the one that can be read off the
outcomes themselves (`Earned`), and the status turns exactly when that one has lasted the
period. It is an induction over the outcomes, done with the first place that would not fit.

**DeliveryQueueProof.** `TypeCorrect`, `SettledForCauseCorrect`,
`TwiceOnlyAfterSlipCorrect`, `NoOvertakingCorrect`, `RetriesPacedCorrect`. `IInv` says that a round's rows
are still pending (`RoundInv`: nobody else settles a pending row), that each acceptance
is accounted for by the table, by the outcome in hand or by a slip (`CountInv`),
why a row failed (`CauseInv`), that a row that is not due has failed before
(`WaitInv`), and that a pending row older than one of the round is in the round
too or has failed before (`OrderInv`). The last one is what makes an order chosen at
`Fetch` hold at `Send`, many steps later. `PacedInv` adds up the delays: age and wait together
are never less than what all recorded failures ask for (`Paced`), and a row of a round is due,
which was read at `Fetch` and is relied on steps later; `HandedInv` says that the handovers are
the recorded failures, the forgotten ones and the one in hand. Nothing is assumed of the
instants the rows carry (`Instant`, `Lag`).

**AccountsProof.** `TypeCorrect`, `AdminRemainsCorrect`, `SessionFollowsRoleCorrect`,
`AbsoluteLimitCorrect`, `GuessesLimitedCorrect`, `RevocationCorrect`. The strengthening is
`RequestInv`: while the session of a request under way is still in the table, its user
and role are the ones the request carries. `SessionFollowsRole` alone is not
inductive, since `Touch` writes by the request's role; `RequestInv` needs in turn that
a token is never given out twice (`Unused`). Two lemmas carry the rest: a session that
survives a step keeps its user, its rules and its account's role (`EachKept`), and
one that appears comes from a login (`OnlyLogin`). `GuessInv` ties the guesses to
the counter and the lock; `ChangePasswordRefused` leaves all three alone. `AdminRemains` needs the types only: the check in the
handler and its write are one call.

**HostDirectoryProof.** `TypeCorrect`, `LoopsPastTheGuardCorrect`, `GuardExactCorrect`,
`NoLoopWithoutBypass`. A cycle is stated as a
set of hosts whose parents are all in it (`Closed`), which needs neither recursion nor
finiteness. The lemma `WalkStays` says that a walk that starts in such a set never
leaves it; that is an induction over the length of the walk, done with the first step
that would leave it (`LeastNat`, from the well-foundedness of the natural numbers).
So what the guard accepts is outside every such set (`ValidOutside`), and a set that is
closed after a step was closed before it. `GuardExactCorrect` is the converse too: what the walk
visits is the set above the new parent, so a walk that ends has visited all of it and nothing
twice (`EndsBounds`), and one that does not end has met more hosts than the limit or is
in a cycle (`BoundsEnd`). `NoLoopWithoutBypass` is what is left of the sentence that the run
`host_loop` refutes: a cycle needs an address changed alone or an import.

**GatewayProof.** `TypeCorrect`, `AtHomeCorrect`, `LoginsSpacedCorrect`, `TextedOnceCorrect`,
`CallsNearEnd`. Three strengthenings share the types. `HomeInv`: a call keeps the account it began with, the
cached modem belongs to the cached token, and texts are in hand only when the modem is
known (`ModemFirst`). `SpacedInv`: the failed logins of this pause and the logins on their way
are no more than the callers, because a login is begun only when no pause is on.
`SentInv`: whoever is ahead in an attempt has had nothing, the one in hand included, and
whoever is behind has had one text unless something failed. One lemma says what every
operation looks like after it has gone on (`ProceedsParts`), one what a failure leaves
(`FailsParts`); each action is then a lemma per strengthening. `CallsNearEnd` needs no invariant
of its own but a variant, `Left`: what is still to be asked for, times the requests one thing can
cost, and within it where the call is and whether it has had its new login. Every step of a call
makes it less and nobody else makes it more, so `CallsEnd` lacks only that steps are taken.

**SmsEngineProof.** `TypeCorrect`, `AckDeservedCorrect`, `ExhaustedAfterAllCorrect`,
`ClosedForGoodCorrect`, `NoCallAfterWindowCorrect`, `EveryTurnLastsCorrect`. One lemma sorts what any step can make of
a code (`StepChange`): nothing, an end, a round of the engine, the deletion of the row or a
new session; another what it can make of a text (`StepKept`). `AckDeserved` is not inductive: the
match is decided in `Match` and written in `Record`, with the other actors in between.
`MatchInv` says that what is in hand is an answer still, and holds because only
`Lifecycle` deletes sessions and nothing is in hand while the engine is there (`BoxInv`).
That a text let in by its sender is one of somebody who was called needs `CountInv`: what
was queued or skipped is exactly the beginning of the chain that the row counts.
`PassedInv` counts the skipped ones against the calls that broke off. `TimedInv` ties the age of
an open session to how many have been called and how long the last of them has still to answer.

**SupervisionProof.** `TypeCorrect`, `PauseSeenCorrect`, `SlowSustainedCorrect`,
`SlowPairedCorrect`. `PauseInv` ties the time since the switch to the time the watchdog
believes has passed: each failed turn costs a tick, and so does the tick in which it has
had none. `StreakInv`: a streak is no older than the slowness, unless a measurement was not
fed. `DeliveredInv`: while an alarm counts as delivered, every channel's last message is that
alarm or the alarm passed it over.

**PushChannelProof.** `TypeCorrect`, `QuotasKeptCorrect`, `NoticedOnceCorrect`,
`DeliveredReachedCorrect`, `KeyKeptCorrect`, `NothingUndoneCorrect`. `RetryInv`: an attempt that is to
be repeated has reached nobody, so what a message has reached before is always empty;
`ExpiredInv`: what a send takes for expired is gone for good, which is why a prune with answers
of long ago takes away nothing that lives. `QuotaInv` counts a user's share as his own and
the legacy subscriptions together, so that taking one over changes no count, and holds of
the configuration a client has read as well, which may be written back any time later.

TLC has checked each of these on the instances above. Liveness under fairness and
`ENABLED` are outside what TLAPS can do and stay with TLC, and so does
what a recursive definition computes. So every invariant and action property of the passing
runs is proved, with the hypotheses named above, and model-checked only are the
liveness properties: `OutageTold`, `RecoveryTold`, `AlwaysSettled`, `WorkingChannelServed`,
`EverySessionEnds`, `SessionsEnd`, `CallsEnd`, `QueueServed`, `HeartbeatHeard` and `SlowTold`.

## 5. Plan

What is left, in the order of importance.

1. `Calendar` and `Display`: windows over midnight and over a change of clocks, the
   derived statuses, as operators checked against a reference definition.
2. Whole-system composition: monitor, queue and SMS engine over the shared tables. The
   parts meet in rows only, and each model already lets the others' writes happen
   at any time; the product is beyond TLC at the present bounds.
3. Proofs: variants behind the other liveness properties, in the manner of `CallsNearEnd`
   (the steps that bring a delivery, a session or a pause nearer to its end), and a contract of
   the queue that hides rounds and interruptions.

**Not modelled**, and why.

- Display status, poll counters, statistics, logs and the other read-only handlers: they change
  no state, and nothing decides on what they return.
- Probes and transports (ICMP, TCP, HTTP, SMTP, MQTT): I/O whose outcome is an input of
  the models.
- The calendar of maintenance windows: the sweep's models take its outcome (`held`).
- Plain edits of groups, windows, texts and settings: one statement each, which nobody
  races for.
- Start-up, configuration, routing, texts; migrations: they run once, before any
  task. If the monitor cannot be started the watchdog heartbeat goes on (`main.rs:139`).
- The web client, installation and packaging: presentation and scripts.

## 6. Running

    tlc -workers 2 -config MonitorSolo.cfg MCMonitor
    tlapm MonitorProof.tla

Every run and its module are listed in PROJECT.json under `runs`.
