# A TLA+ development of abyssal-seclog

abyssal-seclog is a small security-log server. A *shipper* on each host tails
log files and sends their lines over HTTP. The *server* (axum, MariaDB) stores
them, raises alerts, keeps a tamper-evident audit trail, purges and archives
old rows, and supervises its agents; it also takes syslog lines and the telemetry
of kernel programs. This directory holds TLA+ modules of the
parts whose correctness depends on interleaving, failure or ordering, TLC
configurations that check them on small instances, and proofs, checked by TLAPS,
that the central properties hold for every value of the constants.

Sources are named relative to the repository root (`src/db.rs`,
`src/bin/shipper/main.rs`, ...). `PROJECT.json` maps every definition to its lines.

## 1. Inventory

| Component | State | Operations | Modules |
|---|---|---|---|
| Shipper: file watcher (`watch_file`, `ship_line`, `save_position`) | open handle, read position, read buffer, retry counter, state file | open, poll, read a line, ship, retry, save, be aborted, restart | `FileWatcher` |
| Shipper: enrollment and reconcile loop | API key file, table of watch tasks, telemetry task | enroll, save the key, fetch configuration, spawn and abort tasks | first run in `Enrollment`, the loop in `Shipper` |
| Shipper: telemetry sensor (`seclog-ebpf`, `ebpf_linux.rs`; `etw_windows.rs` batches alike) | slot per CPU, ring buffer, batch, attempts | build an event, collect, flush, retry | `EventSlot`, `Telemetry` |
| Ingest (`create_log`, `insert_log`) | `logs` with its unique `line_hash` | insert, alert on a new row | in `FileWatcher`, `LogStore` |
| Log checkpoints (`create_log_checkpoint`, `list_log_checkpoints_with_status`) | `log_checkpoints`, the loop's locals | read MAX(id), read hashes, store; derive a status | `LogStore` |
| Retention and archive (`main`'s 15-minute loop, `archive.rs`) | settings, rows selected for upload, the archive | select, upload, delete by age; the same by row count | `LogStore` |
| Audit chain (`record_audit_event`, `verify_audit_log_chain`) | `audit_log`, open transactions and their locks | record; verify a window | `AuditChain`, which implements `Trail` |
| Agents (`AgentAuth`, staleness sweep, configuration) | `agents`, `watched_paths` | register, check in, sweep, configure, delete | `Agents`; paths and telemetry flag in `Shipper` |
| Enrollment tokens (`self_register_agent`) | `enrollment_tokens`, rate limiter | issue, consume, revoke, register | `Enrollment` |
| Accounts, sessions, login, MFA (`auth.rs`, `main.rs`) | `users`, `sessions`, `mfa_pending`, one setting, rate limiter | sign up, log in, verify a code, set up and remove MFA, change password, create and delete accounts, purge | `Accounts`; the rate limiter in `Enrollment` |
| Correlation and telemetry rules | both tables, the sets of firing groups | seed, create, edit, delete, sweep | `RuleSweep` |
| Telemetry ingest (`insert_telemetry_batch`) | `telemetry_events` | batch insert with deduplication | `Telemetry`, which implements `Delivery` |
| Syslog receiver (`syslog.rs`) | `syslog_config`, the allow list in memory, listeners, connections | save, refresh, receive, filter, ingest | `Syslog`, `Cidr` |
| Line parser (`parser.rs`) | none | parse a line, clamp its time | years of BSD time stamps in `EventTime` |
| Directory sync (`directory.rs`) | `directory_computers` | sync, LDAP login | the login in `Accounts` |
| Notifications (`notify.rs`) | settings | send to the channels of a severity | events of the other modules |
| Secrets (`crypto.rs`), dashboard (`static/`), installers | - | - | not modelled |

How they interact: the shipper's watch task calls `POST /logs`; every insert
races with the checkpoint loop and the retention loop for the same table;
requests of the dashboard record audit events concurrently with each other;
every authenticated request of an agent touches the row that the staleness
sweep reads. The server's loops share nothing but the database, and no loop
holds a transaction across its statements, so between any two statements
everything else may happen. Only `record_audit_event` uses a transaction.

The behaviours that are hard, and that tests of this repository do not reach:
answers lost after the work was done, rotation of a file under a running
watcher, a restart between the two halves of a save, an id that is allocated
before and committed after a range was hashed, a selection and a deletion with
an upload in between, locks taken by concurrent recorders, a check-in between
the query and the update of a sweep, a registration that breaks off between the
use of its token and the row of its agent, a rule rewritten while the sweep holds
its row, an account deleted or protected by MFA while a login is under way, a
telemetry batch sent again while its first request is still at work, an allow list
that was saved but not yet read. `PROJECT.json` lists each as a hazard with
the line where it bites.

## 2. Modules

### FileWatcher

One watched file from the logging process to the `logs` table. A file is a
sequence of chunks, a chunk the bytes of one write: a whole line, the head of a
line, or its tail. So "polled in the middle of a write" is a state, and sizes and
positions count chunks the way the code counts bytes. The text of a line is
abstracted to what is made of it (`KindOf`): an event, the shipper's own output,
blank, or rejected by the server with 400.

| Action | Code |
|---|---|
| `Write`, `Truncate`, `MoveAway`, `CreateFresh` | the logging process and logrotate (external) |
| `Open` | outer loop: open, seek to the saved position, else to the end |
| `Poll` | `metadata`, reset when `size < position`, read when `size > position` |
| `EndOfPass`, `SkipLine`, `ShipLine` | `read_until`, incomplete lines, lines not shipped, `ship_line` |
| `Retry`, `GiveUp`, `ShipSucceeds` | `ship_line`'s attempts; `position += bytes_read` only on success |
| `SaveTruncates`, `SaveWrites`, `SaveFails` | `fs::write` of the state file: truncation, then content |
| `Stop`, `Restart` | the task is aborted or the shipper dies; the state file survives |
| `ServerAccepts`, `ServerRefuses`, `TimeOut`, `LateArrives`, `LateLost` | the exchange with `create_log`; `Ingest` is `INSERT IGNORE` and the alert |

History variables (`gen`, `start`, `posMark`, `savedMark`) are read by
properties only: they say on which content a position was measured.

### AuditChain

`record_audit_event` of several requests at once, and the verifier as an operator
over the committed rows. The transaction is split where InnoDB's locks make it
wait: `LockGap` and `ReadTip` are the two locks of `SELECT ... ORDER BY id DESC
LIMIT 1 FOR UPDATE`, `TakeId` and `PlaceRow` the two halves of `INSERT`. A gap
lock can be shared, a record lock cannot, an insert waits for every other
holder of the gap, the AUTO_INCREMENT id is never given back. These rules are
InnoDB's at REPEATABLE READ, its default, and are an assumption of the model:
nothing in the repository sets an isolation level. `Fail` is any error that rolls
the transaction back, `Commit` may lose its answer, `Crash` loses all of them.
SHA-256 is taken to be injective: a digest is the sequence of the contents it
covers. Time is in tenths of a second, because the code truncates to what the
column stores.

`Trail` is what the table promises to whoever reads it while all this goes on: it
only grows, one row at a time, each chained to the row before it, with a larger id
and of an event that has no earlier row. `OnlyGrows` says that the committed rows
(`trail <- Committed`) are such a trail.

### LogStore

The `logs` table and the three parties that share it, statement by statement. A
row is its id; the hash of a range is the set of ids in it, since `line_hash`
never changes and is unique. `BeginInsert` takes the id, `CommitInsert` makes the
row visible, in any order. The checkpoint loop is `CheckpointBegins` (last
`range_end`), `CheckpointReadsMax`, `CheckpointReadsHashes`, `CheckpointStored`.
The retention loop runs the purge by age and the purge by row count, each as
selection, upload and deletion, or deletion alone when archiving is off;
`PurgeEnds` is every way out of one purge. `Statements` are the steps that execute
one; an upload, which ends when it ends, is apart (section 4). `Status` is what
`list_log_checkpoints_with_status` computes.

Two facts of the code shape the properties. A row whose INSERT commits after its
range was hashed makes that checkpoint "broken" although nothing was tampered
with, against two comments (section 6); `StatusHasCause` says that nothing else
does. And the two purges each compute their
rows twice, once to select and once to delete; `OnlyTheWindowLosesRows` says
exactly what that can cost, and that nothing else does.

### Agents

The `agents` table, the check-in that `AgentAuth` makes on every authenticated
request, and the five-minute sweep.

| Action | Code |
|---|---|
| `CreateAgent`, `DeleteAgent` | `create_agent`, `delete_agent` |
| `Authenticate`, `Touch`, `TouchFails` | `AgentAuth`: look-up, `touch_agent_last_seen`, whose error is ignored |
| `SweepBegins`, `SweepFinds` | settings read, `find_newly_stale_agents` |
| `SweepAlerts`, `AlertLost` | `trigger_alert`, which may return without sending |
| `SweepMarks`, `MarkFails` | `mark_agent_stale_alerted`, whose error is logged |
| `SweepFails`, `Crash`, `UpdateSettings`, `Tick` | a failing query, a restart, `update_settings`, `NOW()` |

A dark episode is an agent and the `last_seen` it went dark at; the history
variables remember the last episode alerted on, the last whose alert was not
sent, and the last that could not be noted down.

### Enrollment

A registration is one attempt of one shipper and names the request, the `agents`
row and the API key made for it. `stage` is how far `self_register_agent` has got
with it: `CheckLimit`, `Consume` and `CreateAgent` are the rate limiter, the
UPDATE that counts a use, and the INSERT. `StatementFails`, `Dropped` and
`ServerCrash` end a registration between them; one that ended after `Consume` is
"burned". `Start`, `Receive`, `SaveTruncates`, `SaveWrites`, `Denied`, `TimeOut`
and `Kill` are the shipper's `main` up to its first configuration fetch; systemd
starts it again whatever ended it. `GenerateToken`, `CreatePackage` and `Revoke`
are the administrator's requests.

`KeysMatchAgents` makes explicit what the code does when `save_key` breaks off
between truncating and writing: `load_saved_key` finds the file, returns the
empty string as a saved key, and the shipper runs with it. The warning in
`save_key` expects such an agent to register again at its next restart; that
happens only if the file was never created.

### RuleSweep

Correlation rules and telemetry rules: both tables, their admin handlers, and the
60-second loop with its two maps of firing groups.

| Action | Code |
|---|---|
| `Create`, `Update`, `Delete` | the handlers of both tables; `create` ignores `enabled` |
| `Event`, `Tick` | a stored log line or telemetry event; `NOW()` |
| `Wake`, `ListRules`, `ListFails` | the sleep, `list_correlation_rules` and `list_telemetry_rules`; `continue` skips both tables' rest |
| `SkipDisabled`, `QueryHits`, `QueryFails` | `firing.remove`; the hits query; its error keeps the firing groups |
| `Alert`, `RuleDone`, `EndOfRules` | `trigger_alert` for a new group; `*currently_firing = still_firing`; the next table |
| `Restart` | the maps are lost, and `init_correlation_schema` inserts missing defaults |

Events are counted by age, and those older than every window are forgotten, so
time needs no bound. `noted` and `handled` are history: the groups alerted on in
the burst that is still going on under a rule as it is now written, and the groups
alerted on that every query since has found over the threshold. The difference is
what the code does not promise although README.md:402-403 does ("a later, separate
burst alerts again"): a group stays marked as firing when its rule is rewritten to
another label, or when one burst ends and another begins between two queries, and
then the new burst is silent. `BurstsAlert` excepts this case and no other. The
model also shows that a default rule an administrator deleted or renamed is back
after a restart (`Reseed`), where README.md:403 has it "seeded on first run".

### Accounts

Everything that adds, changes and removes rows of `users`, `sessions` and
`mfa_pending`, and the setting `self_signup_enabled`, with any number of requests
at once. A request is a handler, `req[r].at` the statement it is at; no handler
holds a transaction over two statements, and `Breaks` ends one after any of them.
A check of a password, a code or the directory's answer either succeeds or ends
the request.

| Action | Code |
|---|---|
| `SignupBegins`, `SignupUnread`, `SignupCounts`, `CreateUserCounts`, `CreateUserInserts`, `CreateUserCloses` | `signup` and `create_user`: the setting (`unwrap_or(true)` if it cannot be read), two counts, INSERT, signup closed by the first account |
| `LoginBegins`, `LoginSyncsRole`, `LoginProvisions`, `LoginGrants`, `LoginAsksForCode` | `login`, `login_ldap_first_time`, `finish_login` |
| `VerifyBegins`, `VerifyChecksCode`, `VerifyConsumes`, `VerifyGrants` | `mfa_login_verify` |
| `SetupBegins` ... `DisableClears` | `mfa_setup`, `mfa_verify_setup`, `mfa_disable` |
| `ChangeBegins` ... `ChangeCreates`, `Logout` | `change_password`, `logout` |
| `AdminCreateBegins` ... `SettingsStore` | `admin_create_user`, `admin_delete_user` (two statements and a foreign key), `update_settings` |
| `SessionExpires`, `PendingExpires`, `PurgeSessions`, `PurgePending` | `NOW()` and the hourly loop |

History variables remember what held at some moment while a request was under
way (`wasOpen`, `wasEmpty`, `wasOff`), what was ever proven or granted, and where
two requests overlapped: `overlapped` are the pending logins that two answers were
under way for at once, `raced` the accounts whose secret was replaced or removed
while somebody who had proven it was about to switch MFA on.

`SecondSessionOverlapped` and `EnabledIsProven` say how far two comments of
`db.rs` hold (section 6): a pending login gives a second session only if answers
to it overlapped, and MFA is on for an unproven secret only where a replacement or
removal came between check and switch.

### Delivery, Telemetry, Shipper

`Delivery` says what the telemetry pipeline promises: a row is of something valid
that happened, the same content never has two rows, a row goes only when it is past
the retention, and what the sensor takes for delivered has been taken in: there
was a row for it. `Telemetry` is the pipeline of one host,
and `Shipper` composes it with the configuration of the agent and the shipper's
30-second loop, which starts and aborts the sensor. A batch is a set of numbered
events; what the server tells two events apart by is `ContentOf`, because
`event_hash` covers neither the time nor the borders of the fields.

| Action | Code |
|---|---|
| `Happens` | a kernel program's `write_event`; a full ring buffer drops the event |
| `Collect`, `FlushTimer`, `PauseEnds`, `TimesOut` | `run`'s `select!` and `flush_batch`: drain, flush at `MAX_BATCH` or by timer, up to `MAX_RETRIES` attempts two seconds apart |
| `Refuse`, `Admit`, `InsertChunk`, `Finish`, `InsertFails`, `PostDropped` | `create_telemetry_batch` (limit, validity), `insert_telemetry_batch` (one `INSERT IGNORE` per `CHUNK` rows), a failing statement, a handler dropped with its connection |
| `SensorReturns` | `run` returns: no BTF, programs not loaded |
| `CutoffMoves`, `DeleteTelemetryOlderThan` | `NOW()` and `log_retention_days`; `delete_telemetry_older_than`, in the 15-minute loop |
| `AddPath`, `TogglePath`, `RemovePath`, `SwitchTelemetry`, `DeletePaths`, `DeleteAgent` | the dashboard's handlers; `delete_agent` is two statements |
| `Fetch`, `Authenticate`, `ReadPaths`, `ReadFlag`, `Unauthorized`, `FetchFails` | `GET /agents/config`, three statements |
| `Boot`, `Apply`, `Restart` | the hostname of the first answer; spawn on grant and abort on revoke; a new process |

A request whose sensor gave up goes on at the server: `posts` holds those too, and
`Answers` reaches the sensor only from the request it still waits for.

### EventSlot

The four kernel programs build each event in one slot per CPU, which keeps what
earlier and given-up events left in it. These are operators: `Program(slot, h)` is
the slot after a program handled `h`, `ToWireEvent` what `ebpf_linux.rs` reads out
of it, and `ToldAsItWas` compares that with what happened, for every content of
the slot. `Shipper` extends it to state `NothingStale`.

### Syslog, Cidr, EventTime

`Syslog` is the receiver: `Save` (the handler), `Start` and `Listen` (`main`),
`RefreshReads` and `RefreshWrites` (the 30-second task), `Datagram`, `Accept`,
`ReadLine` and `Closes` (the listeners), `Insert`, `Alert` and `TouchLastMessage`
(`ingest_syslog_message`), with `ListenFails`, `InsertFails`,
`TouchLastMessageFails` and `ServerDies`. `Cidr` is `ip_in_cidr` and `ip_allowed`
with the shift by the full width as a release build does it; a word is the set of
its bits that are 1, and `Covers` is the definition of a prefix. `EventTime` is `extract_bsd_syslog_time` and `sanitize_event_time` on the
calendar; its `YearGuessed` says which year is right.

The operators named `Bug...` in all modules stand for plausible mistakes (a
dropped guard, an off-by-one, a missing check). They are used by no action: each
documents what its property would catch, by taking the place of the operator
beside it.

## 3. Runs

| Run | Question | Instance |
|---|---|---|
| `watcher` | Does the read position only pass stored lines, are only whole lines shipped, each alerted once, is growth never taken for rotation, and is every appended event line stored in the end? | 2 files of 2 chunks, an event and a blank text, rename and one copytruncate, two faults, two attempts |
| `audit` | Does the chain fork, lose an event silently, or miss a change, do its readers see a `Trail`, and does every recording end? | 3 recorders, 3 events, whole and fractional seconds, one row from before the chain |
| `logs` | Has every checkpoint status a cause, is a row skipped or hashed twice, does the cap keep the newest, what can be deleted unarchived, do expired rows go and do rows reach a checkpoint? | 2 ids, 2 days, two settings, one fault |
| `agents` | Is an agent silenced without cause, alerted on twice, or never? | 2 agents, 2 thresholds, 4 units of time, one fault |
| `enrollment` | Is every use of a token accounted for and in time, does every agent's key reach its shipper, does the limiter forget? | 2 shippers at one address with one token, 2 attempts each, 2 faults, time 0 to 2 |
| `rules` | Is a burst alerted on twice, silenced without cause, or never alerted on? | 1 group, ages 0 and 1, two rules of one table and one of the other under a shared id, one fault |
| `accounts` | Does a row outlive its account, is MFA skipped, one login spent twice or MFA switched on unproven, who gets in while signup is closed, can everybody be locked out? | 2 requests at once, 4 in all, 3 ids, 2 names, 4 tokens, 2 secrets, from a fresh installation and from one in use |
| `shipper` | Does the telemetry pipeline implement `Delivery`, is every event in one place, does the sensor get rid of it, does the shipper follow its configuration; is a kernel slot ever stale? | 3 events of 2 contents, batches of 2, a request limit of 2, one row per INSERT, 2 attempts, one fault, 1 path, 2 changes, rows that reach the retention at any time |
| `syslog` | Is only a listed source heard, does every line get its row, is a list obeyed in the end; does a prefix cover what it says, is the year right? | 2 messages, 1 connection, 2 saves, one fault, addresses of 2 and of 1 bits with prefixes 0 to one too long; 2023 to 2025 around 1 January and 29 February |

Three runs end in a violation on purpose. Each checks what the repository says and
finds the code doing otherwise:

| Run | Refuted statement | Counterexample |
|---|---|---|
| `logs_archive` | `db.rs:2582-2584`: "the rows this returns are precisely the rows that call would delete" | the cutoff moves on during the upload, and the DELETE takes a row that was not archived |
| `audit_gap` | `db.rs:1903-1905`, `ARCHITECTURE.md:135-137`: the ids of `audit_log` are sequential, "safe to assert strictly here, since nothing deletes" | an INSERT is rolled back, its id is never given again, and the verifier reports `intact: false`, "id gap" |
| `agents_relapse` | `db.rs:905-909` and `983-985`, `ARCHITECTURE.md:172-176`: "a recovered-then-relapsed agent alerts again" | an agent checks in between the sweep's query and its UPDATE, goes dark again, and is never alerted on |

The texts of `watcher` are an event and a blank line; what is left of a line whose
head or tail was lost is blank too, so that `EveryEventDelivered` is not held up by
a line the server answers with 400: `ship_line` retries every failure alike, so such
a line is offered for ever and holds back those behind it, by the code's own design
of "retry-until-success". `EveryEventDelivered` speaks of a file that is never rotated
(`NeverRotated`), though rotation is in the run. The watcher's properties speak
of lines behind the point where a watch last began: a first seek to the end is not
saved, and `save_position` empties its file before it writes it, so a restart in
either window seeks to the end again and jumps over lines not yet delivered.

Why the bounds are enough. The hazards need few actors: a lost answer with a
retry and a restart takes one line and one fault; a line split by a poll takes two
chunks, with a line after it three; a fork takes two recorders and a row to fork
from, a lock cycle through the record lock a third; a skipped or doubly hashed
row takes two ranges, or one and a row in flight, hence two ids; with caps of 1 and 2
the table holds less than the cap, the cap exactly, and one more. A check-in overtakes a sweep, and the agent goes
dark again, within four units of time; a second agent keeps the sweep busy
meanwhile. Two shippers race for a token of one use, and one that breaks off
tries again with what is left of a token of two; with two attempts allowed per
window, the second shipper's failures are what the first one's retry meets. A
burst of one group, seen by one query, fading before the next, under a rule with a
longer and one with a shorter window, is enough to be repeated, silenced or missed;
the telemetry rule with the same id is what could disturb it. Two requests are
what it takes to race for a count, a pending login, a secret or an account, and the
installation in use starts where four more requests reach each of them. Three events
fill a batch of two with one left over, exceed the request limit, and two of them
share a content, so a retry, a late request and an INSERT of one row at a time meet
the same row, before and after the retention has deleted it. One fault is enough
there: a request that is refused for its size, or for an agent that was deleted,
uses up the attempts without a fault, a sensor that is switched off leaves a request
at work behind it, and the fault then comes on top. `NothingStale` and `YearIsRight` speak of no state: they are facts
about operators, for all contents of a slot and all stamps around the turns of the
year, written with the initial predicate as a premise so that TLC evaluates them
once (the theorems drop it: `EverythingTold`, `YearsGuessed`). `ListIsObeyed`
likewise compares every address with every list.
`MaxChunks`, `MaxInodes`, `MaxTruncations`, `MaxFaults`, `MaxId`, `MaxDay`,
`MaxPreChain`, `MaxAgents`, `MaxTime`, `MaxEvents`, `Keys`, `MaxRuns`, `MaxUsers`,
`MaxTokens`, `MaxSecrets`, `MaxRequests`, `MaxRows`, `MaxChanges`, `MaxMessages`,
`MaxConns`, `MaxSaves` and `MaxFailures` bound the environment only; no safety
property becomes true by them that the proofs below do not show without them.
`Clocks` are the server's clock readings that `YearIsRight` is evaluated for. Deadlock is checked
except in `AuditChain`, where all events may have been recorded, and in `Accounts`,
where all requests may have ended. Symmetry is used in `accounts` only, for
requests and names, which the module compares by equality, and no liveness is
checked there. The type invariants are proved (section 5) and not in the runs.

## 4. Fairness

* `FileWatcher`: weak fairness of the watch task (its runtime polls it), of the
  restart (systemd unit with Restart=always) and of the 15-second client
  timeout; strong fairness of an accepted answer, that is, a server that is asked
  again and again answers in time at last. Nothing is assumed of the logging
  process, of rotation or of faults.
* `AuditChain`: weak fairness of each recorder's next statement, and of InnoDB's
  deadlock detection.
* `LogStore`: weak fairness of the checkpoint loop and of the statements of the
  retention loop (`tokio` keeps polling both). Nothing is assumed of an upload: it
  may fail, succeed or never end, since only the one to S3 has a timeout
  (`archive.rs:29`, 60 s) and the one to SFTP (`archive.rs:96-153`) has none.
  `OldRowsGo` therefore excepts, by name, an upload that hangs (`UploadHangs`) and
  uploads that fail for ever (`UploadsKeepFailing`).
* `Agents`: weak fairness of the sweep, whose interval timer fires again whatever
  became of the last round. Nothing is assumed of agents: they may stay dark.
* `RuleSweep`: weak fairness of the sweep. Its failing statements are bounded.
* `Shipper`: weak fairness of the next fetch, of the loop's next step, of the sensor
  (its timers fire, the ring buffer is polled) and of the server on the request the
  sensor waits for. Nothing is assumed of the administrator, of events or of
  faults; an abandoned request may stay for ever.
* `Syslog`: weak fairness of the server's start and of the refresh, whose timer
  fires every 30 seconds. Nothing is assumed of the network.
* `Accounts` states no liveness: a client may always hang up.
* `Enrollment` states no liveness: nothing in the code promises that a shipper is
  registered in the end, and one whose token is spent never is.

## 5. Proofs

| Theorem | States |
|---|---|
| `FileWatcherProofs!TypeCorrect` | `Spec => []TypeOK` |
| `FileWatcherProofs!PositionSafe` | `Spec => []PositionCoversOnlyDelivered` |
| `FileWatcherProofs!AlertsOnce` | `Spec => []AlertedAtMostOnce` |
| `FileWatcherProofs!NoResetWithoutRotation` | `Spec => NoFalseReset` |
| `AuditChainProofs!TypeCorrect` | `Spec => []TypeOK` |
| `AuditChainProofs!ChainSafe` | `Spec => []ChainNeverForks` |
| `AuditChainProofs!ChangesShow` | `Spec => []ChangesAreDetected` |
| `AuditChainProofs!EventsAccounted` | `Spec => []EveryEventAccounted` |
| `AuditChainProofs!TableIsATrail` | `Spec => OnlyGrows` (the refinement of `Trail`) |
| `AuditChainProofs!RecordersGetOn` | `Spec => []NobodyIsStuck` |
| `LogStoreProofs!TypeCorrect` | `Spec => []TypeOK` |
| `LogStoreProofs!StatusExplained` | `Spec => []StatusHasCause` |
| `LogStoreProofs!NoRowSkipped` | `Spec => []EveryRowInOneCheckpoint` |
| `LogStoreProofs!CapKeepsNewest` | `Spec => CapKeepsTheNewest` |
| `LogStoreProofs!OnlyWindowLosesRows` | `Spec => OnlyTheWindowLosesRows` |
| `HostsProofs!TypeCorrect` | `Spec => []TypeOK` |
| `HostsProofs!FlagExplained` | `Spec => []FlagHasCause` |
| `HostsProofs!AlertsOnce` | `Spec => OneAlertPerEpisode` |
| `HostsProofs!SyslogTypeCorrect` | `SyslogSpec => []SyslogTypeOK` |
| `HostsProofs!NoLineVanishes` | `SyslogSpec => []NothingVanishes` |
| `HostsProofs!OnlyListedSourcesAreHeard` | `SyslogSpec => ListIsObeyed` |
| `HostsProofs!YearsAreRight` | `SyslogSpec => []YearIsRight` |
| `EnrollmentProofs!TypeCorrect` | `Spec => []TypeOK` |
| `EnrollmentProofs!UsesAreAccounted` | `Spec => []UsesAccounted` |
| `EnrollmentProofs!NothingEnrollsLate` | `Spec => NoLateEnrollment` |
| `EnrollmentProofs!LimiterIsBounded` | `Spec => []LimiterStaysSmall` |
| `EnrollmentProofs!AgentsHaveKeys` | `Spec => []KeysMatchAgents` |
| `RuleSweepProofs!TypeCorrect` | `Spec => []TypeOK` |
| `RuleSweepProofs!SilenceJustified` | `Spec => []SilentGroupsWereAlerted` |
| `RuleSweepProofs!BurstsAlertOnce` | `Spec => OneAlertPerBurst` |
| `AccountsProofs!TypeCorrect` | `Spec => []TypeOK` |
| `AccountsProofs!TokensHaveTheirAccount` | `Spec => []NoOrphans` |
| `AccountsProofs!SecondSessionsOverlap` | `Spec => []SecondSessionOverlapped` |
| `AccountsProofs!EnabledFactorsWork` | `Spec => []EnabledIsProven` |
| `AccountsProofs!SignupsWereAllowed` | `Spec => SignupWasAllowed` |
| `AccountsProofs!SecondFactorIsAsked` | `Spec => SecondFactorAsked` |
| `AccountsProofs!NobodyLocksEverybodyOut` | `Spec => LastAccountStays` |
| `ShipperProofs!TypeCorrect` | `Spec => []TypeOK` |
| `ShipperProofs!EveryEventIsSomewhere` | `Spec => []EventsAccounted` |
| `ShipperProofs!TelemetryDelivers` | `Spec => KeepsPromise` (the refinement of `Delivery`) |
| `ShipperProofs!NothingStaleIsSent` | `Spec => []NothingStale` |

They hold for every value of the constants that satisfies the module's
assumption, hence for any number of lines, files, recorders, rows, agents,
shippers, accounts, concurrent requests, telemetry events, syslog lines and faults.
`HostsProofs` holds the proofs of `Agents` and of `Syslog`, and therefore extends
both; that is why the definitions of `Syslog` carry its name.
The assumptions are those a module states: sets are finite where they are counted, bounds
are natural numbers, an address has at least one bit, and the server's clock stands
between 2001 and 2098, where `IsLeap` is the calendar's rule.

*FileWatcher.* The property is not inductive: that the position may advance
depends on what the buffer holds and on what "ok" means. `IInv` adds that the
buffer is what follows the position in the file it was measured on, that an
answer "ok" means the line in flight is stored, and that the position always
stands between two lines. `NoFalseReset` follows from it: the position is within
the file it was measured on. That alerts and rows agree (`AlertsMatch`) is
inductive on the types alone.

*AuditChain.* `IInv` says which locks each program counter implies. The argument:
whoever inserts is the only holder of the gap lock, and nobody can have read the
tip without holding that lock; so the tip a recorder read is still the tip when
its row is placed (`ReadIsCurrent`), at most one row is uncommitted, and it is
the last. `ColumnKeepsWholeSeconds` is why the stored time gives the same hash.
A changed row shows because the hash is injective, a missing one because ids
increase, so the ids around it are not consecutive. For `EveryEventAccounted`, an
event in flight is nowhere else (`Once`): the recorders that are placing a row
therefore have as many events (`FS_Injection`), and what a failure or a crash
reports was not reported before, so each lost id is paid for by an event.

The refinement maps the committed rows to `Trail`. Only `Commit` changes them: a row
that is placed is not seen yet, and a rollback or a crash takes away only what was
never seen (`StepShowsATrail`). What `Commit` shows follows the rows before it
(`CommitRecords`): its `prev_hash` by `Linked`, the first one's by `Chained`, its id
by `IdsIncrease`, and its event is new because an event that has a row is in no
other recorder's hands (`Fresh`). `RecordersGetOn` is the part of `RecordingEnds`
that is about locks: nobody has the gap locked without being in a transaction
(`GapIsHeld`), so whoever waits to insert waits for somebody who waits too, and then
the two wait for each other directly.

*LogStore.* Ids are handed out in order, so an id below `MAX(id)` that is neither
a row nor in flight when the hashes are read will never become a row. Hence
`Covered`: of a checkpointed range only hashed and then-pending rows can be there
later. With ranges that follow one another (`TypeOK`, `Ordered`) this gives both
theorems; the status follows by counting (`FS_Subset`). A purge by row count keeps
the rows newer than the newest one it deletes, which are at least `cap`, and of
which the oldest has fewer than `cap` newer ones: hence exactly `cap`. And while
nothing arrives and no day turns, what a purge will delete is what it selected
(`Archiving`).

*Agents.* What the sweep holds in memory may be stale, but only in one direction:
`last_seen` only grows, so a row in hand is no newer than its agent, and equal to
it unless the agent is marked overtaken (`RowsLagBehind`). An episode that was
alerted on is over, flagged, about to be flagged, or could not be noted
(`AlertsNoted`); hence a later sweep's query cannot select it again, and a row
waiting for its alert has not had one (`RowsUnalerted`).

*Syslog.* Two invariants that do not need each other. `SyslogListInv`: what is in
memory and what is being fetched are the lists of `allowAt` and `readAt` saves
(`ListsFollow`), which only grow, so the list a source is compared with was stored
since the last refresh. `SyslogLineInv`: a line received is under way, lost, or its
text and host have a row, and every row is alerted on, about to be, or of a lost line
(`RowsAnswered`); that one line's insertion finds another's row is no loss, because
what is hashed is exactly the text and the host. That the list means what its prefixes say is an equality of
sets of bits: the ones shifted by `width - prefix` are the leading `prefix` bits
(`MaskIsLeadingBits`), except for a prefix of 0, whose shift by the full width is none
and which `CoversAll` answers before (`MatchIsCover`). That the year is right needs the
calendar: a year's instants lie between its first and the next year's
(`BuildIsInYear`), so of two years' readings of a stamp the later year's is later
(`BuildsAreOrdered`), and only the 29th of February is missing from some years
(`OnlyLeapDayVaries`).

*Enrollment.* The count of uses moves in one step only, `Consume`, together with
the stage of one registration, so the registrations at "consumed" or behind it
grow by exactly one (`FS_AddElement`) and no later step takes one out. `IInv` adds
that a token not issued allows no use, which is what `Issue` starts from, and that
the row's `expires_at` is never later than the deadline, which `Consume` is
compared with. For the keys, `KInv` says what a shipper has in memory and in its
file at each point of `main` (`KeysOf`), and that a registration which may still
become an agent is the one its shipper waits for, or already lost (`HasGone`).

*RuleSweep.* A group noted under a rule is one the loop will not alert on: it is in
`firing`, or, for the rule in hand, among the groups found and no longer pending
(`NotedSilent`). A query could lose it only by finding fewer groups; it does not,
because what is noted is over the threshold now (`NotedBursts`) and the row in
hand is the rule as it is, or nothing is noted (`StaleRowsUnnoted`). Counting
within a window is never unfolded: the argument holds for any query.

*Accounts.* Four arguments, each over any number of requests. The foreign keys
give `NoOrphans`: a session or pending login is added while its user is there, and
a user goes only when nothing refers to it. A pending token is answered only by a
request that has deleted it (`Answered`: whoever is at "verify:grant" finds no row
of its token, and no later row has an old token's number); so an answer that begins
after a session was granted finds no row, and one that is under way when its login
has granted a session, or beside another answer, is in `overlapped`
(`AnswersOverlap`), which is what a second grant needs. A request that is about
to switch MFA on holds a proven secret (`ProvenFirst`), and the account still has that
secret or is `raced`: whatever replaces or removes it meets that request under way.
And what a signup or a login has read was true at some moment
since it began (`Warranted`), because the windows of a request that goes on only
grow. `LastAccountStays` needs that no request deletes who asked for it
(`NotOneself`).

*Shipper.* The refinement maps `happened` to `1 .. made`, `rows` to `stored` and
`delivered` to `acked`; an INSERT is `Delivery`'s `Store`, the answer the sensor
still waits for its `Acknowledge`, the retention its `Expire` and `Purge`
(`RetentionIsPromised`), a batch that is given up or a request that ends
unheard a stutter. `Requests` is what makes `Acknowledge` possible: each valid event
of the payload is still in the rest of the request that is awaited or was taken in,
and no purge takes that back (`RetentionKeeps`).
That needs to be known of the awaited request only, and a new one always has a
number of its own (`p.id <= sent`); late requests of earlier attempts can do no
more than write rows that are allowed anyway. That nothing is acknowledged before
it happened comes from `EventsAccounted`, which is inductive given that a sensor
which sends nothing has no payload (`Sending`). The slot of a kernel program is taken
program by program (`ExecTold`, `ConnectTold`, `WriteTold`, `LoadTold`): what is read
out of it was written for this event, whatever it held before.

Model-checked only: liveness (`EveryEventDelivered`, `RecordingEnds`, `OldRowsGo`,
`EveryRowIsCheckpointed`, `DarkAgentsAlert`, `BurstsAlert`, `NothingStaysInTheSensor`,
`Converges`, `ListCatchesUp`), which is outside what the prover's backends can do. All
other properties of the passing runs are theorems.

## 6. Where code and documents disagree

Three disagreements are runs of their own (section 3): `logs_archive`, `audit_gap` and
`agents_relapse`. For the others the property names the statement and excepts
exactly the case in which it fails:

| What is said | What the code does | Property |
|---|---|---|
| `db.rs:380-382`: ids in a checkpoint's range "never grow after the fact", so more rows than hashed "shouldn't happen"; `db.rs:336-340`: a range partly purged reports "unverifiable," never "broken"; `ARCHITECTURE.md:154-157` likewise | an id is taken before its row is committed: a row in flight while its range is hashed arrives later, and the checkpoint is "broken" although nobody tampered with anything. If retention takes another row of the range, the count fits and the hash does not: "broken" again | `StatusHasCause` |
| `archive.rs:24-29`: an upload that hangs forever would silently stall the retention loop, hence an explicit timeout | only S3 has it; `upload_sftp` (`archive.rs:96-153`) waits for ever, and the purge by row count and that of telemetry wait behind it | `OldRowsGo` |
| `db.rs:873-875`: a verified pending login "can't be reused for a second session" | the DELETE of the token is not asked whether it found a row: two answers with one code that overlap both get a session | `SecondSessionOverlapped` |
| `db.rs:780-783`: `mfa_enabled` "stays FALSE until confirm_mfa_enabled proves" the stored secret, so that nobody is locked out | the switch is by user id, after a check of the secret that was read before: if a second setup replaces the secret in between, MFA is on for a secret no code was ever shown for; if MFA is removed in between, for none | `EnabledIsProven` |
| `README.md:419`: the allowlist "applies immediately when saved" | the listeners compare with a copy that is refreshed every 30 seconds (`main.rs:3338-3355`) | `ListIsObeyed` |
| `syslog.rs:15-17`: "tightening/loosening source IPs takes effect live" | a TCP connection is compared when it is accepted and never again | `ListIsObeyed` |
| `README.md:402-403`: "a later, separate burst alerts again" | not if its group is still marked as firing (section 2, RuleSweep) | `BurstsAlert` |
| `README.md:403`: default rules are "seeded on first run" and deletable | every start inserts those that are missing, enabled (`Reseed`) | none |

Other behaviours that the models show, of which nothing in the repository says
otherwise or which its comments accept:

* A file that is renamed away and created anew with a smaller size resets the
  position while the handle still follows the old file, which is then read again
  from its start (`src/bin/shipper/main.rs:289-294`); `insert_log` ignores the
  copies.
* A telemetry batch beyond the server's limit of 1000 events is refused at each
  attempt alike and dropped (`src/main.rs:2375-2380`,
  `src/bin/shipper/ebpf_linux.rs:156-160`).
* A telemetry event with the content of an older row, on the same host, is
  acknowledged and shares that row and its age, because `event_hash` covers no time
  (`src/db.rs:2697-2714`): when the old row is purged, the event has none.
  `Delivery` therefore promises an acknowledged event that it was taken in, not a
  row for the length of the retention.
* A sensor that returned by itself is not started again: its handle is still in
  place. `Converges` speaks of the handle.
* `10.0.0.0/99` is saved and matches nobody: the handler looks at the address only
  (`src/main.rs:1974-1985`).
* A syslog line that repeats text and host of an earlier one gets no row and no
  alert, whatever its time: the header is cut off before the line is hashed
  (`src/syslog.rs:264-276`).
* A BSD stamp of a host that is in the new year while the server is not is put a
  year back, and one of a 29 February is lost once that year is over
  (`src/parser.rs:344-348`).
* Two first signups at once may both become administrators, and one under way while
  signup is closed still adds its account. `SignupWasAllowed` excepts both by what the
  request has read.
* A login whose directory answers slowly goes on without a code if MFA is switched on
  while it waits (`SecondFactorAsked`).

## 7. Not modelled

* Notifications: a read of the channels and one request to each; no state of the
  server changes. `trigger_alert` is an event of the other modules.
* Directory sync: one task upserts a row per computer, which only the dashboard
  lists.
* Secrets and password hashes: library calls.
* The Windows APIs (ETW, Sysmon): their batches go through the same `flush_batch`
  and `ship_line`, which are modelled.
* The parser's rule table and its other time formats: data without state.
* The capacity alert, the skew alert and the recorded archive status: a flag local
  to one loop, or a row for the dashboard.
* The dashboard, the installers and listing queries change no state that a
  property here is about.
