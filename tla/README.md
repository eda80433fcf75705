# Sec-Mon: specifications, model checking and proofs

TLA+ specifications of the Sec-Mon plugin (paths below are relative to `src/`),
the TLC configurations that check them on small instances, and proofs that
TLAPS checks for every value of the constants. `PROJECT.json` lists the runs,
the source lines of each definition, the hazards of the code and the properties
that answer for them, and the theorems.

To run something: `tlc -config ingest.cfg MCLogIngest` checks a run,
`tlapm LogIngestProofs.tla` checks a module of proofs.

## 1. The system

Two kinds of process share one MariaDB database and one directory of files:

* the **daemon** (`modules/daemon/scheduler.py`), one thread that calls the
  collectors, the alert engine and the notification queue at fixed intervals;
* the **panel** (`sec_mon_main.py`), whose requests read the tables, and some of
  which run the same code as the daemon (evaluate the rules, process the queue),
  start the daemon, or change the configuration.

They do not talk to each other. All they have in common is tables, the pid file
and `config.json`, and none of the three is locked between the processes. Nothing
keeps the panel from running a collector while the daemon is in it.

| component | state it keeps | operations | hard about it | what makes it correct |
|---|---|---|---|---|
| SSH ingestion, `modules/ssh_monitor/ingester.py`, `offset.py`, `journal.py` | read position in `log_offsets` and in a JSON file; `events`; `attacker_stats` | one cycle per fast poll | log writer, logrotate, outages and kills between any two steps; two copies of the position; errors that are swallowed | no line is passed over unless it was stored or lost to the database; no message twice within the dedup window |
| Normaliser, `normalizer.py` | the dedup dictionary | `is_duplicate`, `_prune` | wall clock, pruning only when full | let pass once per window |
| Parser, `parser.py` | none | `parse_lines` | text | its tests |
| Alert engine, `modules/alerts/engine.py` | `alerts` | `run_rules` by daemon and panel | check and insert are two statements; windows against the lateness of polls; errors answered like "no" | alerts of a rule apart; nothing unnoticed; what is raised is announced |
| Notification queue, `modules/notifications/notifier.py` | `notification_queue` | `queue_alert`, `process_queue` by daemon and panel | no claim on rows; unreliable channels; kills between UPDATE, send, UPDATE | sent means delivered; bounded attempts; decided in the end |
| Daemon, `modules/daemon/scheduler.py` | pid file, `_running`, four `last_*` times | start-up, loop, signals | stale and reused pids, races of start-up, long tasks | one daemon; the panel's report is true; it stops; no task starves |
| Database access, `database/connection.py`, `query.py`, `transaction.py` | the pool, sessions and their autocommit | get, return, one statement, bulk insertion, block of statements | threads; sessions the server drops; clean-up that fails; bulk insertions in autocommit | one holder per connection; statements and blocks all or nothing; no trace of the last user |
| Configuration, `lib/config.py` | `_data`, `config.json` | `set`, `reload` | memory and file under one mutex, read without it; rewritten in place | a saved setting stays |
| TLS scanner, `modules/ssl_monitor/scanner.py` | `ssl_certificates` | `scan` by slow poll and panel | files change while they are read; two readings of the clock; days that are rounded, against an hourly scan | rows say what files say; the badge agrees with the days; no certificate expires unannounced |
| Service checker, `modules/service_monitor/checker.py` | `service_status`, appended to | `collect` by slow poll and panel | two commands per unit that change their answer in between; exit codes; rows of one second; checks that overlap | the latest row is a state the unit has had since it was asked |
| Fail2Ban collector, `modules/fail2ban/collector.py` | `fail2ban_jails` | `collect` by fast poll and panel | timeouts that look like zeros; overlapping collections | a total never falls without a reason |
| Geolocation, `modules/geolocation/lookup.py` | readers and their flag; `geo_cache` | `lookup_ip` by threads of the panel | flag before readers; a cache that never expires | what is cached is complete |
| Active sessions, `modules/session_monitor/active.py` | none | `get_active_sessions` | two commands, users who come and go, skipped lines | the list is true of some moment of the call |
| Session tracker, `modules/session_monitor/tracker.py` | dictionary of open sessions | no caller in the repository | logins of one user overlap | |
| Daily cleanup | none of its own | three DELETEs and an UPDATE | what the cache of geolocation got wrong is copied | nothing recent is deleted |
| Analytics, pages, logging, install scripts | none, or output | read-only, or by hand | none of note | |

## 2. Modules

| module | models | composed with |
|---|---|---|
| `LogIngest` | the cycle, step by step, with its environment | `EventTable` (what it promises of the table), `MCLogIngest`, `LogIngestProofs` |
| `DedupWindow` | `class DedupWindow` with times and clock | `DedupWindowProofs` |
| `NotificationQueue` | `queue_alert` and `process_queue` by several processes | `Outbox` (what one process promises), `MCNotificationQueue`, `AlertDeliveryProofs` |
| `AlertEngine` | `run_rules` by daemon and panel, and the queueing behind it | `MCAlertEngine`, `AlertEngineProofs` |
| `Daemon` | pid file, loop, signals, machine | `MCDaemon`, `DaemonProofs` |
| `ConnectionPool` | pool, sessions, queries, `transaction()` | `MCConnectionPool`, `ConnectionPoolProofs` |
| `Config` | `set`, `reload` by threads, the file | `MCConfig`, `ConfigProofs` |
| `AlertDelivery` | the medium poll: rules, then queue, then channel | `AlertEngine` and `NotificationQueue`, step by step in one thread; `MCAlertDelivery`, `AlertDeliveryProofs` |
| `Host` | the clock, the daemon's polls, the panel's threads, kills | extended by the next five |
| `CertScan`, `ServiceCheck`, `JailSnapshot`, `GeoCache`, `ActiveSessions` | one collector each | |
| `Monitors` | the five side by side | `MCMonitors`, `MonitorsProofs` |

`MC*` modules give the constants values. In each module the properties stand at
the end; next to some definitions stands a variant marked `Mutant`, a plausible
mistake in that piece of code. No specification uses a variant: replacing the
definition by it makes the property named in `PROJECT.json` fail, which shows
that the property depends on the code it is about.

### LogIngest

One action per system call or statement: `LoadOffset` (`load_offset`, the database
before the JSON file), `LocateLog` (`isfile`), `StatInode` (inode and rotation
test), `Measure` (`getsize`), `ReadFile` or `ReadJournal` with parsing and dedup,
`CheckDatabase`, `InsertEvents`, `BeginFailures`/`Count`/`BeginSuccesses`/
`EndCounting` (the two upsert loops), `SaveToDb`, `SaveToJson`. Between any two
of them `WriteLine`, `RenameAway`, `Recreate`, `Truncate`, `DatabaseFails`,
`DatabaseReturns` and `Crash` may come. A crash loses the memory of the daemon,
and leaves the JSON file as it was or emptied if it came while that was written.

A line is a number; what it says (`text`) is drawn from a small set whose members
differ in what the code tells apart: recognised or not, failure or success, root
or not, with or without a time `_parse_ts` understands. Offsets count lines. The
dedup window is two sets: `seen`, the keys of the dictionary, and `young`, those of them
let pass within the last `window_seconds`. Time makes a text leave `young` (`Age`), in any
order and between any two steps, and begins its next `period`; its key stays in `seen`
until a call finds more than `max_entries` keys (`MaxEntries`, 10000 in the code) and
prunes what is not young (`Outgrown`, `Remembered`). That this is what a call of
`is_duplicate` does with its dictionary, its times and a clock, is theorem
`DictionaryIsWindow` of `DedupWindowProofs`; a clock that is set back, which makes keys young
again, is in `DedupWindow` only. A batch is parsed in less than
`window_seconds` in the model: the window moves between batches. The promises are those of the
docstrings (`normalizer.py:31-32`): once within the window. Code that let a text pass again
after the window would keep them, as the present code does, which drops it for longer
(finding 1). One INSERT stores a batch, or none of it: PyMySQL puts the rows of an
`INSERT ... VALUES` into one statement up to about 1 MB. What a longer batch does is in
`ConnectionPool`.

### NotificationQueue

A worker selects (`SelectPending`), and for each row marks it `sending`
(`MarkSending`), sends (`Send`) and records the outcome (`Record`). `Send` covers
the three channels and the formatting in front of them: it is not configured and
`sent` keeps its value, it fails, or it delivers, and with `LateAnswers` it may
deliver and answer with an error. `Abort` is a kill, or an exception of one of
the UPDATEs: both end the call and leave the row as it stands.

### AlertEngine

Each rule is a check for a recent alert, a query and an insert per subject,
each a step that may fail the way the code lets it. A row has the time its log
line names (`at`) and is there for the rules from when it is inserted (`stored`), up to
`MaxDelay` ticks later: a fast poll, or an outage. `brute_force` reports the five addresses with
most failures (`Limited`, `Limit`); the other rules have no LIMIT. A failed check is answered
"no recent alert", a failed query ends the evaluator and loses what it has
collected, a failed insert is skipped. `Tick` may come between any two steps.
`ssl_expiring_7d` and `_30d` are two rules with one `Evaluator`.

### Daemon

A process is its pid; a dead process's pid may be given to another program
(`Recycle`) or to a new daemon. Start-up is `IsFile`, `Read`, `Probe` (`os.kill(q,
0)`), `Create` (the file is emptied), `Write`. The loop is `Loop` (reads
`_running` and the clock), `NextTask`, `EndTask`, and at the end `Remove`. A
task's time is kept as its `age`, capped at the task's interval, beyond which the
code cannot tell values apart.

### ConnectionPool

Threads `Call`, `Lock`, take a pooled connection that answers (`Reuse`) or make
one (`Connect`), execute one statement, a bulk insertion or a block, and `Return` it. A
bulk insertion (`execute(many=True)`, `insert_many`) is several statements: `executemany` sends
rows one by one, or in chunks, on a session in autocommit, so each is durable by itself
and the `rollback` of `query.py:51` and `:134` undoes nothing (`Execute`, `Fail`). An answer may be lost
with the session behind a statement that was executed. The server
drops any session at any moment (`Drop`) and rolls back what it had not
committed. `Interrupt` is an exception that is no `Exception` in a block.

### Config

`Set` and `Persist` are the two halves of `set`: memory and the emptied file,
then the written file. `Read` and `Assign` are those of `reload`, of which only
the second holds the mutex. `Fail` is a save that cannot open or finish the file.

### AlertDelivery

The medium poll of the daemon is one thread that goes through the rules, queues
what they returned and processes the queue. `AlertDelivery` takes the queue by
EXTENDS and the engine by INSTANCE, and its actions conjoin theirs: `RunRules` are
the engine's steps, `QueueAlerts` the engine's `QueueNext` together with the queue's
`QueueAlert`, `ProcessQueue` the queue's steps, which come when the engine is idle
(`part`). The panel evaluates rules at any time (`Elsewhere`) and queues nothing.
`about` says which alert a row of the queue is about, and `crowded` which rows had
`MaxItems` pending ones before them when the daemon took its batch (`notifier.py:222-228`).

### Host and the five collectors

`Host` has what they share: a clock, when each poll is due, and the collector each
runner (the daemon, a thread of the panel) is in, with its step. `Call` is a poll or a
request, `Fail` a command or statement that goes wrong, `Change` something that
happens outside the plugin, `KillHost` the end of the daemon or of the panel with all
its threads. A step is one command or statement:

* `CertScan`: `FindCertFiles`, `ParseCertificate` per file, `JudgeNext` (health, first
  reading of the clock), `StoreCertificate` (days, second reading, and the upsert).
  Files appear, are renewed (for another domain too) and go at any time. The code
  subtracts the local time from an expiry in UTC (`scanner.py:129-130`, `:226`, `:245`): the
  expiry in the model is the tick at which the local clock shows the UTC time, and "days
  left" are counted to that, so they are off by the offset of the time zone. A change of
  the offset is left out.
* `ServiceCheck`: `IsActive` per unit, `IsEnabled` for one that gave no answer,
  `StoreServiceStatus`, one insert for all. `during` and `told` are observers: the states a
  unit has had since a check began, and since those began that inserted last.
* `JailSnapshot`: `ListJails`, `GetJailStatus` per jail, `StoreJail` per jail, over a
  server that bans, unbans and reloads.
* `GeoCache`: `CacheLookup`, `LoadReaders` (the flag), `LoadCity`, `LoadAsn`,
  `LookupCity`, `LookupAsn`, `CacheStore`; and `CopyToAttackers` of the daily cleanup.
* `ActiveSessions`: `RunWho`, `RunW` with the merge.

Observers (marked so) say what the properties need to know of the past: what has
changed since it was read, which calls overlapped, which commands failed.

## 3. What the runs check

| run | instance | properties | what it shows |
|---|---|---|---|
| `ingest` | 2 lines of 2 texts, a login of root and a failure whose row the database refuses, a dictionary of 1 entry, 2 windows, 2 runs of the daemon, 1 outage, 1 rotation | `TypeOK`, `SavedIsSettled`, `StoredOncePerWindow`, `StatsAreDeduplicated`, `ImplementsEventTable` | Whatever comes between the steps, no saved position covers a line that was neither stored nor lost to the database; within a window a message is stored and counted once; rows are only added |
| `ingest_live` | the same with the journal, lines that all have a time, 1 window, no outage, with fairness | `EventuallySettled` | Every line is settled in the end, unless its file is rotated away unread |
| `dedup_window` | 4 keys, limit 1, window 1, clock in 0..3 | `GrowsOnlyWithFreshEvents`, `PassesAreApart` | With the clock set to and fro, nothing passes twice within a window, and only fresh entries exceed the limit |
| `dedup_stale` | 2 keys, limit 2 | `DuplicatesAreRecent`, violated | finding 1 |
| `delivery` | 2 rules, 2 subjects, a LIMIT of 1, daemon and panel, clock in 0..2, rows stored up to 1 tick late, 2 notifications, batches of 1, 1 retry, 1 fault | `TypeOK`, `DeliveredAtMostOnce`, `ToldOnce`, `ToldInTime`, `ImplementsOutbox` | From a row in the tables to the channel: an alert is told once, and in the poll that raises it unless a batch of others was pending before it or the panel raised it; one process decides as the abstract outbox does |
| `queue_two` | 2 workers, 2 rows, late answers, 1 fault | `SentWasDelivered`, `AttemptsAreBounded`, `OnlyAbortedAreStuck` | Two processes that fight over rows still report truly, stop, and decide every row but one a kill has left in `sending` |
| `queue_stuck` | 1 row, 1 fault | `EventuallyDecided`, violated | finding 2 |
| `alerts` | 2 rules, one about a state and one that counts two rows, 2 subjects, a LIMIT of 1, daemon and panel, 5 ticks, rows stored up to 2 ticks late, 1 incident | `TypeOK`, `NoticedInTime`, `RaisedIsQueued`, `AlertsApart` | Alerts keep their distance, alerts are announced, and rows are noticed, however late they are stored, if the query still reaches enough of them at the next poll |
| `daemon` | 2 pids, 2 tasks with intervals 1 and 2 | `TypeOK`, `OneDaemon`, `StatusIsRight`, `StopsWhenTold`, `EveryTaskRuns` | The pid file does its work where starts do not overlap; daemons stop; tasks are not starved |
| `pool` | 3 threads, 3 connections, pool of 1, blocks and bulk insertions of 2 | `TypeOK`, `OneHolder`, `NoSessionLost`, `CleanWhenPooled`, `AllOrNothing` | Connections have one holder, none leaks, none carries over a user's work, statements and blocks that are not interrupted store all or nothing, and a failed bulk insertion what was answered and at most one more |
| `config` | 3 threads, 2 keys, 2 values, 1 fault | `TypeOK`, `SettingsSurvive` | Settings saved by several threads all stay, except in the two cases the property names |
| `monitors` | one collector at a time: 1 file, 2 domains, 2 dates, 7 ticks; 2 services; 2 jails; 2 addresses, 2 threads; 3 sessions; each with the daemon or the panel, 2 changes (of the services 1), 1 fault | `TypeOK`, `BadgeTrailsDays`, `RowsFollowFiles`, `WarnedBeforeLastDay`, `LatestTellsState`, `CachedIsComplete`, `ListIsSandwiched`, `TotalsGrow` | What the tables show is what the server is, whatever changes while it is looked at, but for the causes the properties name |

**Why the bounds are enough.** Every hazard listed needs few actors: a line already
read and one not yet read; a run and its successor; one outage that ends; one
rotation in the midst of a cycle. Two lines are the least that make duplicates
inside a batch and across cycles, and positions that are neither zero nor the
end. A dictionary limit of one is outgrown by the second text, so that both pruning and
its absence happen, and two windows give a text that comes again after the first. In the alert engine the clock covers
two polls and an alert that has come to the end of its dedup window. A pool of
one makes the limit bite with the second thread, and a third thread needs the lock
meanwhile; three threads never use more than three connections at a time, and a
connection that is given up is a fresh one when it is taken again. In `delivery` two
notifications are one more than a batch, so that an alert does find the batch full, and the clock covers two
polls; polls take no time there (`Slack = 0`) and one row suffices for each rule, for lateness and
thresholds are the subject of `alerts`; `ToldSoon` holds for all of them.
In `monitors` a server has one kind of thing to look at (`MaxPresent = 1`): collectors
share no variable but the runner, so nothing new can come of two kinds, and
`MonitorsProofs` has no such bound. A day is two ticks there, so that a scan may come
in either half of it. One change of a service lets a check that looked before it
insert its row after one that looked later. Permuting the panel's threads and the domains is
a symmetry, and the run has no liveness property. Two pids allow the daemon and its successor, its twin or a stranger
with its pid. The proofs have none of these bounds.

`MaxLines`, `MaxRuns`, `MaxOutages`, `MaxRotations`, `MaxRows`, `MaxFaults`,
`MaxFacts`, `MaxDelay`, `MaxPeriods`, `MaxIncidents`, `MaxClock`, `MaxCalls`, `MaxChanges`, `MaxBans` cap what would grow for ever and stand in
the guards. `Slack` in `AlertEngine` and in `CertScan` is an assumption as well: a poll
starts at most that late, and ends at most that late (`ScansKeepUp`). Deadlock is off where a bound stops the system
(`alerts`, `delivery`, `monitors`), where all processes may be dead (`daemon`) and in
`pool`, where every connection may be in use.

**Fairness.** `LogIngest`: the scheduler calls `ingest` for ever (`WF Cycle`), the
daemon is started again after a kill (`WF Restart`), and logrotate creates the
file it has renamed (`WF Recreate`). Outages are bounded and nothing is
assumed of their end. `NotificationQueue`: a call of `process_queue` runs to its
end, for a send has a timeout (`WF Work` of each worker), and the daemon calls it
for ever (`WF SelectPending(Daemon)`); nothing makes the panel call it. `Daemon`:
processes are scheduled, time passes, and tasks end, since their subprocesses
and their database connections have time limits (`WF StartUp`, `WF Work`, `WF
Tick`); nobody has to start, signal or kill a daemon.

### Findings

1. `DuplicatesAreRecent` (`dedup_stale`). `is_duplicate` promises "True if *key* was
   seen within the dedup window"; below `max_entries` nothing is pruned and the age
   of a hit is not looked at, so an identical event is dropped until the process
   restarts (`normalizer.py:50`).
2. `EventuallyDecided` (`queue_stuck`). The module promises "reliable delivery with
   retry"; a kill, or an error of the UPDATE behind the send, leaves the row in
   `sending`, which nothing selects (`notifier.py:245`).

Other disagreements met while modelling, which no run shows because a property
excepts them or because they need no model: a file truncated in place that has grown
back to the saved position is read from there (`ingester.py:48`; `SavedIsSettled`
excepts `truncated`); after an outage the older database row of the position wins
over the JSON file (`offset.py:145`; within the dedup window nothing is stored twice for it,
as `StoredOncePerWindow` shows, and below 10000 keys nothing until the process restarts);
what is then read again after a restart is stored again; a reload that overlaps a save, or a save cut short, loses settings
(`config.py:66`, `:134`); two daemons started at once both run (`scheduler.py:199`);
an interrupted transaction commits what it had done (`transaction.py:55`; nothing
calls `transaction()` yet); `fail2ban_ban` in the defaults is `f2b_ban` in the
engine; "Alert on any successful root login" (`engine.py:129`), but the query reaches
back five minutes, as those for bans and `brute_force` do, polls are a little further apart than
that, and a row appears up to a fast poll, or an outage, after its time, so a
login just after one poll is too old at the next (`engine.py:140`; `NoticedInTime`, and
`ToldInTime` behind it, promise something only of rows the query still reaches a poll period
and its lateness after they were stored. Of the default rules with a time window that is
`failed_root_login`, with 60 minutes; of the three with five minutes they promise nothing);
"Failed after 3 attempts" is written when the fourth has failed (`notifier.py:292-293`
compares the attempts before the UPDATE; `ImplementsOutbox` admits either reading of
`MAX_RETRIES`, giving up after three or after four, and no fifth attempt);
the rollback of a failed bulk insertion (`query.py:51`, `:134`) undoes nothing on a session in autocommit, so
what was executed before the error stays (`AllOrNothing` says how much);
"Check staleness (re-fetch after cache_ttl_days)" (`lookup.py:136`), but the query leaves
`fetched_at` out, so nothing is ever stale; "Returns 'running', 'stopped', 'failed', or
'unknown'" (`checker.py:33`), but the output of a command that exits with an error is
dropped, so `failed`, which `status_map` (`checker.py:45`) and the ENUM of the schema have too, is never
stored, and `service_down`, which looks for it (`engine.py:260`), never fires
(`LatestTellsState` asks of a failed unit only that it is not shown as running);
an expiry in UTC is compared with the local time (`scanner.py:226`, `:245`); "skip header lines" (`active.py:87`), which `w -h` does not
print; rows of certificates and jails that have gone stay; a lookup between
the flag and the readers caches an incomplete row for good (`lookup.py:78`);
`analytics.py:54` selects a column `country_code` that `attacker_stats` does not have;
`notifier.py:150` has a backslash inside an f-string expression, which
Python before 3.12 refuses.

## 4. What is proved

No theorem assumes anything beyond the named assumptions of the module it is about
(constants are of the right kind; the bounds are natural numbers), except where it
says so. In each module type correctness is proved first and used in all the rest.

* **`LogIngestProofs`**. `TypeCorrect`. `OncePerWindow`, from `DedupInv`: what was stored in the
  present period of its text is in the window (`InWindow`), which pruning spares; and the rows
  waiting to be inserted are different from each other and from what is stored;
  `StoredOncePerWindow` alone says nothing of the rows still in memory. `PositionIsSettled`, from `OffsetInv`, which holds as long as
  `~truncated`: positions have inodes that exist; what the window has seen is settled
  or waiting; what the *working* position covers is settled or waiting. The last is
  why saving after storing is enough. The step that needs work is `ReadFile`: a
  recognised line of the batch either passes, or has been seen, or has an earlier
  twin in the batch (`NothingForgotten`, by the least element of a set of naturals).
  `Refinement`: every step is a step of `EventTable` or leaves its variables alone;
  an insertion is its `Store`, by `DedupInv`.
  `CountedPerWindow` (finitely many different lines) counts passes, pairs of a text and a
  period of it: an attacker's figure is at most the number of passes that are over, or
  in the window, and have no row still to be counted (`Done`, `CountInv`); a row counted
  adds one to both, and a period that ends, by age or by a kill, only adds passes.
* **`DedupWindowProofs`**. `PassesApart`, from `WindowInv`: a key let pass is still in the
  dictionary unless the clock has read more than the window since. It holds for any
  limit and any setting of the clock, because pruning looks at the same clock.
  `GrowsFresh`: a call that finds the dictionary over the limit removes all that is older
  than the window, and one that does not adds one entry at most. `DictionaryIsWindow` justifies
  what `LogIngest` has in place of the dictionary: the dictionary has one entry per key
  (`LengthIsKeys`), so it outgrows its limit when the keys do, and a call answers from `Held`,
  the young keys then and all keys before, whatever the clock did.
* **`AlertDeliveryProofs`**, first the queue alone. `TypeCorrect`. `SentDelivered` for any workers and faults,
  from `SentInv`: a worker's `sent` is true only if the row it is at was delivered.
  `AtMostOnce` and `Refinement` (`Outbox`: given up after `MaxRetries` attempts at the earliest,
  attempted once more at most) assume one worker, and honest channels for the first: `SoleInv` says the worker's batch is what the table holds, and
  `WaitingIsUndelivered` that a row that may still be sent has not been delivered.
  `Bounded` (finitely many workers) needs a quantity that never grows once a row has used
  its attempts: a worker that selected it before (`Low`) can re-queue it once; while it is
  pending the other workers can select it, and only who has selected it can attempt it
  (`Open`); twice the attempts made and open, and what re-queueing can still open
  (`Reserve`, the sum of `N - k + 1` over those workers), stay below the bound (`Budget`).
* **`AlertEngineProofs`**. `TypeCorrect`. `Apart` for any runners: what a check has looked
  at is older than the window from then on, since the clock does not run backwards
  (`SeenIsOld`). `Announced`, from `Covered`: while nothing fails, an alert of the
  daemon is queued or in `got`, and `got` is empty between polls; what is in `got` and in
  the queue is the daemon's own (`Own`). `NoticedSoon`, for any thresholds and windows,
  from `NoticeInv`: a row that suffices together with those stored before it, and has not been
  noticed yet, was stored after the last poll began, or that poll has still to come to its rule
  and began at most a period and the slack after it (`InTime`); so the query of that poll
  still reaches the rows that last until the deadline (`HitsOne`, whatever a LIMIT leaves of the
  subjects: `ReportedHits`), and what `_check_recent_alert`
  may find instead has noticed the row. A row can only come to suffice by one of this
  moment (`SufficesBefore`), and then the last poll began before. The order of the rules
  and what the panel stores meanwhile do not matter. `ErrorSkips`: the `CHOOSE` of
  `AfterError` picks a rule of another evaluator, or the end, with none in between.
* **`AlertDeliveryProofs`**, then the poll. `PollRunsQueue`: every step of `DeliverySpec` is
  one of the queue or leaves it alone, so the queue's theorems hold there
  (`PollDelivers`). The engine's are taken over by `EP == INSTANCE AlertEngineProofs`:
  every step is one of the engine too, but for an interrupted `process_queue`, which may
  bring the next poll forward (`EngineSteps`); that spares `EngineInv` (the engine's
  invariants) always, and `NoticeInv` until it happens (`NoticeKept`). So alerts keep their
  distance, are queued and noticed in the poll too (`PollEvaluates`).
  `EachToldOnce` assumes that only the daemon works on the queue, over honest channels. It
  needs `OnceInv`, which ties the tables together: a row is about an alert exactly if it
  exists, that alert has been queued, and no two rows are about the same.
  `ToldSoon` assumes only that the daemon alone works on the queue. The two halves of a poll
  take turns, and `process_queue` has in its batch the rows never attempted that it had
  room for, the others being `crowded` (`TurnInv`); so when the daemon rests between polls
  everything it raised has been handed to the channel, or had `MaxItems` pending
  notifications before it when a batch was taken (`RestedTold`). A
  row the current poll began too late for was noticed by a poll before, and told
  before this one began (`Heard`, in `TellInv`).
* **`DaemonProofs`**. `TypeCorrect` (with `RunsTask`: a task that runs is one of them).
  `Single` and `Truthful`, from `PidInv`: while no starts overlap, an active daemon's pid
  is in the file, and whoever has passed the probe has no active daemon beside it.
* **`ConnectionPoolProofs`**. `TypeCorrect`; `SoleHolder` and `NoLeak`, from `HoldInv`: a
  thread has a connection exactly between taking and returning it, and a connection has a
  session exactly when it is in the pool or in a hand; so a step on one's own connection
  disturbs nobody (`Exclusive`). `CleanHandover`, from `CleanInv`: before a block and
  behind its clean-up a session that lasts is in autocommit and empty. `Atomic`, from
  `ResultInv`: what a call has stored, and its session still holds, at each place where
  it may stand (`Right`): a bulk insertion has durable what it has executed, and one more at
  most when it failed (`Part`). They hold for any threads, connections, pool size and length
  of blocks and bulk insertions.
* **`MonitorsProofs`**. `TypeCorrect`, and one invariant for each property of the
  collectors. `Foreign(k)` says which variables of collector `k` a step of another, of
  the panel or of the scheduler leaves alone, so each proof has only the actions of its
  own collector to go through.
  - `BadgeTrails`, from `HeldJudged`: a status computed and not yet stored is no worse than
    its days, and days only fall.
  - `RowsFollow`, from `FollowInv`: without overlap one runner scans (`ScansAlone`); it has
    one certificate of a path at most (`OnePerPath`), which agrees with the file while it
    counts as current (`CurrentAgrees`); and what is still to be stored for a settled
    path is current (`SettledIsSafe`).
  - `Warned`, from `WarnInv`: a certificate that awaits its warning came inside the seven
    days after the daemon's last scan began, or that scan carries it and began at most a
    period and the slack later (`InTime`).
  - `LatestTells`, from `TellsInv` (one part per runner, `CheckOK`): a check has, or has yet to ask
    for, an answer of every unit, each of a state the unit has had since the check began;
    an insertion in the latest second joins those already there, and one in a later second
    is alone the latest, whichever check it ends.
  - `TotalsOnlyGrow`, from `TotalsInv`: what a collection has still to store lies between
    what the table has and what Fail2Ban counts by now.
  - `CachedComplete`, from `CacheInv`: one lookup at most is between the flag and the
    readers (`ReadersInv`), and any other has found all the files know (`LookupOK`).
  - `ListSandwiched`, from `Brackets`: between `who` and `w` the list is what `who` said, and
    a line of `w` adds only a session that is open by then.
* **`ConfigProofs`**. `TypeCorrect`, and `Survival` from `SavedInv`: what a reload has
  read and not yet assigned is what has been saved.

Of the properties of the runs **only model-checked** are those of liveness
(`EventuallySettled`, `OnlyAbortedAreStuck`, `StopsWhenTold`, `EveryTaskRuns`), which need
reasoning about fairness and `ENABLED` that the provers do not do. Nothing here needs a
recursive definition or induction over data.

## 5. What is not modelled

* In `LogIngest`: `line_number`, which nothing reads; a last line not yet complete
  when it is read; inserts of more than about 1 MB, which are split (a part may be stored of
  a batch whose insertion then fails: `ConnectionPool`); a batch parsed for longer than `window_seconds`; inodes used again
  (the rotated file still exists, so its inode is taken); more than `max_lines` lines in the
  journal.
* In `NotificationQueue`: the payload that is no JSON, which `queue_alert` never
  writes; `scheduled_at`, which is always past; the contents of messages.
* In `AlertEngine`: `acknowledge_alert`, statistics, rules that are turned off; rows whose
  log time is ahead of `NOW()`; two rows of a rule, subject, time and insertion, which count as
  one.
* In `Daemon`: pids of different numbers of digits in overlapping writes; a clock set
  back; `uninstall.sh`, which removes the pid file; what the tasks do, which is in the
  other modules.
* In `ConnectionPool`: how many rows the driver puts into a statement of a bulk insertion
  (`Stmts` statements stand for it); `is_available`, which uses a connection of its own outside the
  pool.
* In `Config`: edits by hand; the daemon's copy; a key whose parent is a scalar. Keys are leaves: a key with
  a dictionary for its value, which `reload` merges with the defaults key by key
  (`config.py:113-128`), is the set of its leaves.
* In `AlertDelivery`: more than one channel.
* In `CertScan`: certificates without a date (status `unknown`), the 30-day rule, which
  differs in its number only, and changes of the offset between local time and UTC; in
  `ServiceCheck`: process id, memory and uptime, and units in the few other states for which
  `is-active` exits with 0 (`reloading`), which become `unknown`; in
  `JailSnapshot`: failures, which are stored as bans are, and whether Fail2Ban is
  installed; in `GeoCache`: the fields within a part, and files that are replaced while
  the panel runs, which it would not notice; in `ActiveSessions`: fields other than the
  idle time, lines of `w` with fewer than eight columns, which are skipped (`active.py:93`), and
  user names that `w` shortens, whose lines do not merge with those of `who`.
* Daily cleanup: its DELETEs; the rows are older than any query, window or position of
  the models reaches back.
* Session tracker: nothing calls `track_session_event` or `store_session_events`; what the
  panel calls of the module only reads the table of events.
* The daemon's copy of the configuration, taken when it starts: its values are
  constants of the other modules.
* Analytics and pages: read-only. Logging: output only. Install scripts: run by hand.
  Tests: read for what they expect.

## 6. Plan

Modules were written in the order of how much depends on them: ingestion, queue,
alerts, daemon, pool, configuration, the composition of alerts and queue, the
collectors. Next:

1. The daemon's own copy in `Config`.
2. The rows of `LogIngest`, `CertScan` and `ServiceCheck` as the facts of `AlertEngine`.
