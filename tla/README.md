# NetdriveBackup in TLA+

Models, model-checking runs and machine-checked proofs for the backup system of
this repository: a web portal that backs up the configurations of network
devices through an agent, on demand and on a schedule, and keeps the snapshots
in a directory tree with an SQLite index.

1. [The system](#1-the-system)
2. [The modules and the code](#2-the-modules-and-the-code)
3. [The runs](#3-the-runs)
4. [Bounds and fairness](#4-bounds-and-fairness)
5. [The proofs](#5-the-proofs)
6. [Where the code and its documents disagree](#6-where-the-code-and-its-documents-disagree)
7. [What is not modelled](#7-what-is-not-modelled)
8. [Plan](#8-plan)

## 1. The system

### Processes and threads

| Actor | Where | Runs |
|---|---|---|
| event loop of the portal | `src/web/main.py` | every handler is an `async def` that calls blocking code without awaiting it, so handlers exclude each other and nothing else |
| schedule watcher | `src/nccm/backup/schedule.py:598` | one daemon thread, one tick per interval for ever, every exception swallowed |
| backup jobs | `src/nccm/backup/job_manager.py:98` | one thread per job, not limited in number |
| command line | `src/nccm/__main__.py` | a process of its own: backup, rebuild of the index |
| API of the portal | `src/web/api.py` | plain functions, which the server runs in a pool of threads: requests interleave with each other and with the event loop |
| agent | `src/netdrive-agent/packages/agent` | an asyncio service: sessions to devices, one command queue each |
| device | `src/netdrive-agent/packages/simunet` stands for one | reads lines, echoes them, prints output and prompts at its own pace |

The portal is restarted whenever it dies (`restart: unless-stopped`): memory
and threads are lost, files and committed transactions stay.

### Components

| Component | State | Operations | What makes it correct |
|---|---|---|---|
| schedule executor and watcher (`schedule_executor.py`, `schedule.py`) | tables `schedules`, `schedule_runs`; a lock file; `running_job_id` | tick, manual run, poll, reconcile, claim, start, record; create, update, toggle, delete | one backup per schedule at a time; both tables agree; a run ends, once, with the outcome of its job; due schedules are served |
| job manager (`job_manager.py`) | dict `_jobs` of at most 30 | start, worker, prune, get | a running job is never forgotten |
| runner (`runner.py`) | none of its own | probe, commands, write, read back, index | the snapshot is complete before it is indexed |
| writer (`writer.py`) | directories `site/ip__host/snapshots/second` | `write_snapshot` | `manifest.json` comes last |
| index (`index_db.py`) | tables `snapshots`, `devices`, `stack_units` | `index_manifest`, `rebuild_index`, queries | the device table is the summary of the snapshot table; the index describes the disk |
| retention (`retention.py`) | dict `_TOKENS` | plan, token, remove directories, delete rows | only what was previewed is deleted; the newest N stay |
| drafts and probe (`schedule_draft.py`, `reachability.py`) | table `schedule_drafts` | upload, get, confirm, discard, purge | a draft becomes a schedule at most once, with the devices that answered |
| secrets (`secrets.py`) | master key: environment, file or store | ensure, encrypt, decrypt | one key is created; what was encrypted can be decrypted |
| accounts (`service.py`, `login_limit.py`) | table `portal_users`; the cookie of each browser; failed logins in memory | log in and out, change password, create, disable, change role | an active administrator remains; nobody works with an initial password; guessing is slow |
| API tokens (`api_tokens.py`, `api.py`) | table `api_tokens`; throttle and last failure in memory | issue, revoke, check, record the use | a revoked or expired token opens nothing; its last use is known |
| agent pool (`client/pool.py`) | dict key -> session, dict key -> lock | get, create, close, monitor | one session per key |
| agent session (`client/session.py`, `task.py`) | queue of commands, mode, flags | send, consume, keep alive, close | every caller gets an answer, in order |
| agent channel (`client/channel.py`) | read buffer | read until a pattern | the match does not depend on how the data arrive |
| plugin base and plugins (`plugins/`) | believed mode and vsys | decide and switch mode and vsys, run command | the command runs where it was asked to, the answer is its own |
| simulated devices (`simunet`) | mode, vsys, open levels | execute a line, show a prompt | as the vendor's devices do |
| TextFSM engine (`netdriver_textfsm`) | state, values, rows, block records | run a template over a text; merge by key and group | parsing ends; a row holds what was captured for it |
| neighbours and stacks (`parsers/cdp_lldp.py`, `stack.py`, `inventory/neighbors.py`) | table `stack_units` | saved output to neighbours, members and display rows | each neighbour and each serial number where the device printed it |
| version texts, interface maps, switch map, diffs | none | text to tables | text by text |

### Interactions and the hard behaviours

* Watcher, manual runs and job threads meet in the two schedule tables. A job
  starts *between* two transactions; a delete takes no lock; a restart can fall
  anywhere; finished jobs can be evicted before anyone looked at them.
* Job threads, retention and two kinds of rebuild meet in the store and in
  `index.db`. Disk and database cannot change together, so every order of the
  two leaves a window.
* A dry run of retention is confirmed minutes later, when the plan may no
  longer be the same.
* In the agent every `await` is a point where another request, the monitor or a
  timeout can change the pool.
* A session and a device talk over a stream that may be cut anywhere. The
  session knows only what it read; a command may change the device's mode, echo
  a line that looks like a prompt, or be answered after a timeout.
* Cookies outlive what they say: the user table changes under old sessions, and
  a change of password is two transactions.
* An API request reads a token, hashes for a long time and writes the use, while
  an administrator revokes the token and other threads use it.
* A draft leaves its table in one transaction and becomes a schedule in the
  next; the key of its passwords may be another after a restart.
* What a device printed is read back by shape: tables whose columns are left
  out, run together or span lines, slots that begin at 0 or 1.

`PROJECT.json` lists the hazards line by line, with the properties that would
catch each one.

## 2. The modules and the code

`PROJECT.json` maps every definition to its lines. The operators whose comment
says *Seeded fault* are no part of the models: each one is a variant of the
definition after it with a plausible bug, kept to show that a property fails
when the code is wrong.

### ScheduleExecutor

The watcher and the event loop are the two `Executors`. Each has a program
counter with one label for every gap between two transactions of
`execute_schedule`:

```
idle --Acquire--> poll --PollRow*, PollDone--> body --Claim--> creds
     <--Unlock-- body <--RecordRun-- record <--Launch-- start <--ResolveCreds--
```

| Model | Code |
|---|---|
| `Acquire`, `BeginTick`, `BeginManual` | the non-blocking `flock` and the first query of `poll_running_jobs` |
| `PollRow` | one iteration of its loop: job lookup and the guarded `UPDATE` |
| `PollDone` | the watcher reads its list of due schedules, once per tick |
| `Skip`, `Claim` | the first transaction of `_execute_schedule_body` with `_reconcile_schedule_running` in it |
| `ResolveCreds`, `CredsFail`, `NoDevices` | what can happen between claim and start: the two early returns give the claim back, one with a failed run, one without |
| `Launch`, `RecordRun` | `start_backup_job_async`, then the second transaction |
| `Raises`, `ThreadRaises` | an exception at any statement of an executor (the database is locked, no space), and the one of `Thread.start`, which comes after the job was entered in `_jobs` as queued; the `finally` gives the lock back, and nothing gives the claim back |
| `Evicted`, `StartJob`, `JobEnds` | `_prune_jobs`, the start and the end of a worker thread |
| `CreateSchedule` ... `DeleteSchedule`, `AdHocBackup` | the other handlers; enabled only while the event loop executes no schedule |
| `Crash` | restart: memory, threads and the lock are gone |

Abstractions: time appears only as `last` in `never / recent / elapsed`; a job
with a thread is `active`, whether its status is queued or running, and `queued`
is one that never got its thread; names, passwords, device lists and logs are left
out. `untold` and `cut` are history variables: the jobs whose id an exception
lost before it was written, and the schedules whose execution an exception or a
restart ended. The thread of an ad hoc backup is taken to start: no schedule
owns that job.

### BackupSlot, BackupSlotProofs and ScheduleRefinement

`BackupSlot` says what a user is promised: each schedule is a slot for one
backup, taken before the backup starts and freed after it is over, except when
the schedule is deleted or the portal restarts. It knows no thread, lock, table
or run. `ScheduleRefinement` reads a slot off the state of `ScheduleExecutor`
(`SlotOf`, `WorkOf`; a backup whose id an exception lost keeps its slot `started`); `ImplementsSlots` says every step of the executor is a
step of the slots or changes none.

### SnapshotStore

| Model | Code |
|---|---|
| `disk` | the tree of the store: for each directory the device whose artifacts and whose manifest are in it |
| `rows`, `nextId`, `devices` | `snapshots` (unique `snapshot_path`, AUTOINCREMENT ids) and the aggregate columns of `devices` |
| `WriteFiles`, `WriteManifest` | the two halves of `write_snapshot` |
| `ReadManifest`, `Index`, `IndexFails` | the end of `backup_device`; `index_manifest` is one transaction |
| `Upsert` | its `INSERT ... ON CONFLICT(snapshot_path) DO UPDATE`, which does not touch `device_id`, and the refresh of the manifest's device |
| `Candidates`, `PlanOf`, `Preview`, `TokenLost`, `Apply` | `plan_retention`, the fingerprint, the token of the dry run, its expiry or mismatch, the confirmed run |
| `Remove`, `RemoveFails`, `Forget` | `rmtree` directory by directory, then one transaction on the rows |
| `Scan`, `Wipe`, `Reindex`, `ReindexFails`, `Rebuilt` | `rebuild_index`, from the web page and from the command line |
| `Crash`, `CliKilled` | the portal, the command line process |

A host stands for site, ip and hostname; a device is a host and a port; time is
the second in the directory name. `previewed` and `excused` are history
variables that only properties read: the plans shown to users, and the
snapshots an accident left out of the index. A fingerprint is the plan itself:
two plans have the same token only if they are equal. The backup jobs are those
of the portal; a backup from the command line takes the same steps and differs
only in surviving a restart of the portal.

### SessionPool

The agent is one asyncio event loop. `loop` is the actor (a request, or the
monitor) whose turn is under way; a turn ends where the code awaits something
unfinished. These are all the places where a request can be suspended:

| `pc` | Awaits | Code |
|---|---|---|
| `alive`, `ping`, `display` | the init of a session, if it is pending (`Pending`) | `is_alive`, `get_display_info` |
| `close` | the queue of a closing session, one second at most | `close` |
| `init` | the init of the session it created | `get_session` |
| `wait` | the result of its command | `get_result` |

The lock per key is not there: the section under it awaits nothing that
suspends, so nobody ever finds it locked. `asyncio.wait_for` around a coroutine
is no suspension of its own in the Python the project requires (3.12).

| Model | Code |
|---|---|
| `Arrive`, `Judge...` | `_get_session_by_key` and the comparison of parameters: alive, expired, idle too long, same, busy |
| `Close`, `CloseEnd` | `_handle_closed_session` and `Session.close`, cut at `join` |
| `Reuse`, `Create`, `CreateRaises`, `InitFailed` | the locked section of `get_session` and what follows it |
| `Send`, `SendRefused`, `Finish`, `Ping`, `Pong` | `send_cmd` and the two request handlers |
| `InitSucceeds`, `InitFails` | `_async_init`; a failure may leave no connection, an open or a dead one |
| `Take`, `Answer`, `Cancelled` | the consumer of the queue |
| `MonitorWakes` ... `MonitorSleeps` | one round of `monitor_sessions`, both of its loops |

The order in which tasks become ready matters in two places and is kept: those
who await one init are woken creator first and with nothing in between
(`Woken`), and a cancelled consumer runs before anything new comes from a
socket (`CancelDue`). Whether a session is stale is decided by the clock when
somebody looks; `stale` remembers the answer. What a command does on the device
is left out: it ends, with some answer.

### Accounts

The handlers await nothing, so each is one step. What makes the order matter is
what outlives them: `users` (the table), `cookie` (what each browser was told
when it logged in, which nobody updates), `tries` (the limiter, cleared by a
restart), `env` (the administrator of the environment, read again by a restart).

| Model | Code |
|---|---|
| `LoginAccount`, `LoginEnv`, `LoginFails`, `LoginLocked` | `authenticate` and `login_limit`: an account decides if there is one, else the environment, which creates the first account or gets a session without one (break-glass) |
| `ChangePassword`, `ChangeCreates`, `ChangeCut` | the forced change of password; its two transactions with a restart between them |
| `AdminCreates` ... `AdminSetsRole` | user administration, by whoever has an administrator's cookie |
| `Purged`, `Struck`, `Locked` | the limiter: purge, count, lock |
| `Second`, `Restart` | the clock, a new process with another environment |

`failed` is a history variable: the times of the last failures of each name.

### ApiTokens

A request is a thread with a program counter, cut at every statement that
touches the database or a global:

```
free --Ask--> configured --Configured--> select --Select--> verify --VerifyFails--> report
verify --Verifies--> clock --ReadsClock--> check --Checks--> set or grant
set --Sets--> stamp --Stamps--> touch --Touch--> grant --Grant--> served
```

No lock guards the throttle: between the look at the monotonic clock, the check
(`Checks`, `Due`), its being set, the look at the other clock and the write another
thread may run, and a thread that is cut off in between leaves the throttle set. The
two clocks are read in different steps and advance together.

`CreateToken` and `Deactivate` are the administrator's and fall in between;
`Passes` is the clock: a thread is done with `_touch_last_used`, or has failed,
within `Patience` seconds (SQLite's timeout). `touched` is the throttle of `last_used_at`, `failure` the
reason the module remembers of the last refusal, whoever was refused. `used`
and `lost` are history variables.

### Drafts

| Model | Code |
|---|---|
| `override`, `stored`, `Ensures` | the sources of the master key and its generation |
| `Upload` | CSV, probe, draft; the purge of old drafts |
| `Confirm`, then `Create`, `Update` or `WriteFails` | `confirm_draft` deletes the draft, the next transaction writes the schedule |
| `UpdateMeta`, `Enable`, `Delete` | the writes that need no draft |
| `Start` | the portal starts, also in the middle of a confirmation, with another key or without the file of the old one |

A ciphertext is the key it was made with and the start of the portal it was
made after. What the probe asks and how is left out: it answers for each row.

### Inventory

| Model | Code |
|---|---|
| `Lines`, `Printed`, `CiscoStacks`, `HuaweiStacks`, `Clusters` | external: what devices print, in each form the parsers know |
| `CdpTable`, `CdpDetail`, `LldpTable`, `LldpDetail`, `LldpHuawei`, `NeighborRows` | `cdp_lldp.py`: a line is its shape and the names in it |
| `CiscoUnits`, `Backfilled`, `HuaweiUnits`, `SlotOf`, `FortiUnits`, `Units` | `stack.py` and `_sync_stack_units`; a serial number is the number of the member that has it |
| `RowsOf`, `DisplayRows`, `Resolved` | `list_inventory_display` and the lookup of a neighbour by name |
| `Backup`, `Forget` | a snapshot is indexed; retention removes the last one |

`meant` keeps beside each output what the device had to say, so that what is
shown can be compared with it. The parser of LLDP blocks gets the whole text: it
cuts it at lines of dashes (`Blocks`) and looks in each block for the first line that
says a local interface, a port and a name (`LldpDetail`). Two of the forms it meets
print the dashes; Nexus prints blank lines, so that a text of two neighbours is one block
and `LinksAsPrinted` claims nothing about it (`Separated`, section 6).

`MCPortal` puts Accounts, ApiTokens, Drafts and Inventory into one run. They
share no state, and a behaviour runs one of them (`turn`).

### Vendors and DeviceShell

`Vendors` has the 16 families of plugins as records: the modes in the order a
prompt is tried against them, the shapes of prompts each pattern matches (the
enable pattern of the IOS family matches a configuration prompt too), the
commands between modes, what is sent before a prompt is asked for; and the
handlers of `simunet`: which command leads where, which prompt is shown. `Pairs`
joins each handler to the plugin that `get_plugin` finds for it.

`DeviceShell` runs such a pair. The ends exchange lines and tokens: the echo of
a line, the output of a command, a prompt, the password question.

| Model | Code |
|---|---|
| `DeviceReceives`, `DeviceHandles` | the terminal's line editor and `CommandHandler.run`; a device may echo ahead of what it executes (`ahead`) |
| `ses.todo` | what the session has still to do, as the statements of `_decide_init_state`, `switch_vsys`, `switch_mode`, `exec_cmd` |
| `Decides`, `SwitchesVsys`, `SwitchesMode`, `Moves`, `WritesLine`, `TakesTask`, `Finishes` | the steps that write or decide |
| `buf`, `Hits`, `Searched`, `Advanced`, `PastQuestion` | `ReadBuffer`: what arrived, the position, the flag of the echo |
| `ReadsUntilPrompt`, `ReadsMove`, `ReadsEof`, `TimesOut`, `WriteFails` | `read_channel_until` and the loops of `enable`, `config`, `exit_config`: a read returns any first part of what has arrived |

`ran` is a history variable: where the last command of a task was executed, and
where it should have been.

A line that switches mode or vsys prints nothing but an empty line, so that a prompt before
it stands alone in the channel (`Silent`). A vsys the device does not have
(`SwitchVsysFailed`: `fortinet_fortigate.py:62`, `array_ag.py:51`, `huawei_usg.py:43`) is not
asked for: the tasks of the model name vsys of the device, and the error would end the
task before its command, as every other failure of a step before it does.

### TextFsm

The engine after its parse of a template: a template is a list of value options
and for each state a list of rules, a rule the kinds of lines it matches. A line
is its kind and one value. `Scan` is one round of `ParseText`: `_CheckLine`,
`_AssignVar`, `_Operations`, `_StateTransition`; `Loads` is `_ValidateFSM`,
`Ends` the implicit EOF and the rest of `ParseTextToDicts`, whose two passes are `ByKey`
and `ByGroup`. They compare keys as the code does, as one string of the columns with "$"
before each (`JoinedKey`), and a key that is a list cannot be joined: the call raises
(`Outcomes`). A List column that is also filled up has strings among its lists; whether
joining and adding them up raises is left open, and what is merged then is not described. Rows refer to the block record they were made with, as the
code's do. `log` and `seen` are history variables. `MCTextFsm` has the templates, one
machine for each operator with options that interact, and the texts. `MCAgent`
runs DeviceShell and TextFsm by turns, as `MCPortal` does.

### Proof modules

`ScheduleExecutorProofs` (with the refinement), `BackupSlotProofs`,
`SnapshotStoreProofs`, `SessionPoolProofs` and `DeviceShellProofs` extend the
module they are about with theorems, and `DeviceShellAnswers` adds those about answers
and about where commands run to those of DeviceShell; `PortalProofs` extends `MCPortal` with
those about accounts, tokens, drafts, stacks and the types of all four, `AgentProofs` extends `MCAgent` with those about the template engine
and about both components of the agent (section 5).

## 3. The runs

| Run | Checks | Shows |
|---|---|---|
| `races` | `TypeOK`, `TablesAgree`, `OneActiveJobPerSchedule`, `NoStrandedClaim`, `NoUntrackedJob`, `VerdictsAreTrue`, `HistoryIsFinal` | two schedules, watcher against handlers, memory for one job, a restart and an exception at every statement of the executors: tables, jobs and claims stay consistent, the history never reports a success that was none and never changes afterwards; a running job is named by its schedule, or its id was lost to an exception between start and record and the schedule stays claimed |
| `live` | `EveryRunEnds`, `DueScheduleServed`, `ImplementsSlots` | every open run is closed and every due schedule taken, also across a restart; the executor implements `BackupSlot` |
| `store_retention` | `TypeOK`, `NewestSurvives`, `OnlyPreviewedRemoved` | two jobs against retention with a restart and an I/O error: only what was shown goes, the newest snapshot never |
| `store_index` | `AggregatesExact`, `NoSilentLoss` | two ports that share directories, two jobs, two rebuilds and a retention: the summaries stay exact, and a complete snapshot is missing from the index only on the way there or after one of the accidents the property names |
| `pool` | `TypeOK`, `PoolOffersOpen`, `WaitersAreQueued`, `AbortOnlyUnusable` | three requests with equal or different parameters, the monitor, failing inits, dying and stale sessions: nobody gets a closed session, no command is lost or doubled, a working session is closed only when dead or stale |
| `pool_served` | `ServedUnlessAbandoned`, `ClosingCloses` | connect requests and batches of two: who waits on a session that is neither closed nor failed is answered; closing ends with a closed connection |
| `portal` | `PortalTypeOK`, `AdminRemains`, `ForcedChangeHolds`, `GuessesBounded`, `RevokedRefused`, `UseRecorded`, `WrittenOnce`, `DecryptsOwn`, `KeepsPasswords`, `LinksAsPrinted`, `MembersAsPrinted` | old cookies against the user table and the limiter; two API requests against a revoking administrator; two drafts against updates, key changes and restarts; the outputs of a device beside another device |
| `agent` | `AgentTypeOK`, `RunsWhereAsked`, `OwnAnswer`, `SecretOnlyAsked`, `NeverRescans`, `RowsByHistory`, `NoGaps`, `NothingLost` | every plugin with its simulated device and output in any pieces: commands run in the mode and vsys asked for, answers are their own, the enable password goes only where it is asked for; every operator of the template engine over every text of four lines: no line is scanned again in the same state, rows hold what was captured, merging loses nothing where joined keys tell rows apart |
| `toggle`, `pool_double`, `device_late`, `continue` | one property each | the disagreements of section 6 |

## 4. Bounds and fairness

Every bound is a constant named `Max...` and appears in a guard, except
`MaxKept`, `MaxDelete` and `MaxFailures`, which are limits of the code. `MCPortal`
has two more, named `Bounded...`; `Subjects`, `Templates` and `Texts` are bounds as well.

* `races`: two schedules, so that two of them are in one tick; three runs and
  two jobs, so that one schedule runs twice or both once, and a skipped run fits
  beside them; memory for one job, so that eviction happens; one restart and one
  exception. A second restart repeats the first: it starts from a state in
  which nothing is in memory either.
* `live`: one schedule, three runs, two jobs, one restart. For the slots each
  step is looked at by itself, and a slot belongs to one schedule; that two
  schedules do not disturb each other is what `races` checks.
* `store_retention`: four snapshots of a device in four seconds, keep 1 or 2,
  two plans that are previewed, so that one can become another; retention can
  run until nothing is left to remove.
* `store_index`: two ports of one host, two backups in two seconds (so that two
  write one directory), both rebuilds at once, one retention, one restart, one
  error.
* `pool`: three requests, because the worst cases need a command under
  execution or a session about to fail, a request that closes, and one that
  creates; two sets of parameters; a queue of one command, so that it is full;
  one round of the monitor. One key: requests of different keys touch each
  other only through the size of the dict the monitor iterates, and a session
  that comes or goes under one key changes that as well. (Two keys
  give 2.3 million states and the same answers.) `pool_served`
  has connect requests and batches of two, and leaves the monitor and different
  parameters out.
* `portal`, accounts: two names, passwords, browsers and accounts, so that one
  administrator can act on another with an old cookie; a limit of two failures, a
  window of one second and a lock of three on a clock of three, so that failures are
  forgotten, and a lock outlasts the window and ends within the run; one restart. The clock
  moves only while there is at most one account (`BoundedAccounts`): the limiter
  looks at names, never at accounts.
* `portal`, tokens: two tokens and two requests, because what can go wrong is
  between a request and another request or the administrator; an interval of three
  seconds, a `Patience` of one and a clock of six, so that a second write falls due
  while other requests are held at any statement of `_touch_last_used`. Once the clock
  has moved, or after a restart, there is one token, of a scope that opens every
  route, and requests of one route (`BoundedTokens`): throttle and time of use belong to
  one token each and know neither scopes nor routes.
* `portal`, drafts: two drafts and schedules of two hosts, a lifetime of one
  hour in two, one key of the environment beside the generated ones, and one
  restart; the theorems of section 5 hold for any number of them.
* `portal`, inventory: a device with at most two neighbours, so that every
  order of two entries is printed, odd ones included (the loops of the parsers
  carry nothing further than the next entry or block); stacks with slots out of
  0 to 2, so that members begin at 0 or 1 and one of them may be missing; a
  second device that may be a cluster, for names to lead to.
* `agent`: all twenty pairs, two tasks with any mode, vsys and one of three
  commands, two of which change the mode; so the second task meets a device the
  first has left anywhere. One task where the device echoes ahead (for what a second one
  meets there see section 6). Late
  timeouts are off here and on in `device_late`. Four lines suffice to start a
  block, capture, record and begin the next.

The instances that check no liveness use symmetry: the jobs of
`SnapshotStore`, the parameters of requests in `pool`, and in `portal` names and
the browsers, threads and hosts, which share their model values.

The bounds on executions close the state space: when no run or job is left
(`Budget`), an executor releases the lock and the system stays idle. The
watcher goes on ticking, so no run of it deadlocks. All other runs end when
their users have used up what the bounds allow them (a portal nobody uses does
nothing), when a device has closed the connection, or when a text is parsed;
they do not look for deadlocks.

`FairSpec` of `ScheduleExecutor` assumes weak fairness of `BeginTick` (the
watcher is a loop that nothing ends), of the steps of an executor that holds
the lock (they wait for nothing but SQLite), and of the end of a job (every
command and connection has a timeout). Nothing is assumed of users, of the
clock or of failures. Weak fairness of `BeginTick` suffices because manual runs
are bounded in the model; in the code a user who starts schedules without pause
could keep the watcher from its non-blocking lock, but a manual run holds it
only for milliseconds. `ToggleSpec` adds an operator who disables and enables
the schedule for ever, which is what the handbook advises.

`FairSpec` of `SessionPool` assumes that some step is taken while a request, an
init, a consumer or the monitor has one to take: the event loop does not rest
while a task is ready, and connections, logins, reads and commands have
timeouts. Requests need not arrive and connections need not die. One
fairness condition for all of them is enough, since three requests and the
rounds of the monitor end.

`FsmFairSpec` of `TextFsm` is weak fairness of its next step: the loop of
`ParseText` awaits nothing.

## 5. The proofs

`ScheduleExecutorProofs` proves, for any number of schedules, runs and jobs,
any memory size, any number of restarts and of exceptions, at any statement of an
executor (the assumption
`BoundsAssumption` only says that they are natural numbers and that the memory
holds at least one job):

| Theorem | Says |
|---|---|
| `SpecInv` | the inductive invariant `IInv` always holds |
| `TypeCorrect` | `TypeOK` |
| `NoUntracked` | `NoUntrackedJob` |
| `TablesAgreeAlways` | `TablesAgree` |
| `OneJobPerSchedule` | `OneActiveJobPerSchedule` |

`BackupSlotProofs` proves, for any schedules and backups, that the abstract
specification keeps its promise (`OneBackup`: `OneBackupPerSlot`), by the
invariant that a slot which is free or only claimed has no work.

None of the properties of the executor is inductive. A job starts before its run is recorded,
so the tables alone do not say that it exists; whether a claim may be replaced
depends on who made it. `IInv` adds what every step needs to know:

* `LockInv`: whoever is not idle holds the lock, hence at most one execution is
  under way;
* `BodyInv`: this execution owns the claim of its schedule, unless that was
  deleted, and the job it holds is named by no run yet;
* `JobInv`, `RunInv`: jobs and runs are numbered in order, a running job is
  kept in memory, a job belongs to one run of one schedule;
* `OpenRunInv`: the open runs of a schedule and its `running_job_id` determine
  each other;
* `NoUntrackedJob`: a running job of an existing schedule is named by its row,
  held by the executor that will write it there, or lost to an exception just then;
* `UntoldInv`: a lost job is the only one of its schedule, which stays claimed
  and has no execution under way.

The argument for one job per schedule: by `NoUntrackedJob` two running jobs of
one schedule would both be named by the row, or one by the row and one held by
an executor or lost; but a held or lost job means the row says `__starting__`, the
row has one value, and by `UntoldInv` at most one job is held or lost. So the two
are the same. That nothing resets `__starting__` after an exception is what makes
this true; it is also why such a schedule has to be deleted (run `toggle`). To preserve `NoUntrackedJob` a claim must
not displace a running job, which is why `Busy` must look at the job and not
only at the placeholder; that a running job is found there (`Seen`) is the part
of `JobInv` eviction could break, and the proof of `StartJob` (lemma
`StartJobRows`) shows it does not.

`TypeCorrect`, `TablesAgreeAlways`, `NoUntracked` and `OneJobPerSchedule` follow
from `SpecInv`. One lemma per action shows the action preserves `IInv`; shared
lemmas (`ClosedRows`, `RowStep`, `ControlStep`, `ReleaseStep`, `Reconciled`)
carry what several of them have in common.

From `SpecInv` follow the theorems about runs and claims:

| Theorem | Says |
|---|---|
| `FinalAlways` | `HistoryIsFinal` |
| `VerdictsAlways` | `VerdictsAreTrue` |
| `ClaimsAlways` | `NoStrandedClaim` |

They rest on what one step may do. `StepFate`: it leaves a run, inserts it (open
if it has a job), closes it with the outcome of its job, which has stopped, or
deletes it with its schedule. `StepKeeps`: it changes the state of running jobs
only, and what was forgotten is not remembered again. `StepRow` and `StepBody`
say the same of the rows of schedules and of executions under way.
`VerdictsAreTrue` becomes inductive with `Begun`, a job that was started has a
state; `NoStrandedClaim` with `DeadInv`, a schedule that does not exist has no
claim.

The last part of the module proves `SlotsImplemented`: `Spec` implements
`BackupSlot` under the mapping of `ScheduleRefinement`. Most steps move no slot
(`QuietStep`); each of the others is one action of `BackupSlot`. It needs one more
invariant, `HeldInv`: a job is held only by an executor about to record it, so
that the slot of a claim is `started` just while that job is unrecorded, for ever
when an exception cut the record. A slot
is taken or freed only when no backup runs in it, which is the last part of lemma
`Reconciled` (`TakeSlot`) and `NoUntrackedJob` (`Free` after a poll). The proof
shows on the way that the second query of `_execute_schedule_body`, for an open
run of a schedule that is not busy (schedule_executor.py:328), never finds one.

`PortalProofs` has a part on each of the portal's modules, and one on all. On `Accounts`, for any browsers, names, roles and limits, any number of
accounts, restarts and seconds (`AccountsAssumption`: the environment's password
is a password, "admin" a role, the limits are natural numbers, at least one failure
is allowed; nothing relates `Window` and `Lockout`, which are set independently):

| Theorem | Says |
|---|---|
| `AdminAlways` | `AdminRemains` |
| `GateAlways` | `ForcedChangeHolds` |
| `GuessesAlways` | `GuessesBounded` |

`AccountsInv` is the types of table, cookies and environment with
`ForcedChangeHolds`, `AdminRemains` and `NamesUnique`. The properties need each
other: a session without an account that need not change its password could
create a first account that is no administrator; and only because names are
unique does a session without account find the one account it may take over.

`GuessesBounded` is what the limiter does for any two limits: after `MaxFailures`
failures, none more than `Window` after the one before, nobody's password is looked at
for `Lockout` seconds. Where `Window` is the shorter, failures further apart are
forgotten one by one and never lock; with the defaults (900 and 300 seconds) it follows
that no more than `MaxFailures` passwords are tried in less than `Lockout`. `LimiterInv`
says of the failures of a name that those at the end which are chained in this way are
all counted, or were forgotten after the window and after the lock they began
(`Remembers`). It is proved of its own, since nothing in the table of users
depends on it.

On `ApiTokens`, for any threads, scopes, lifetimes and tokens
(`TokensAssumption`):

| Theorem | Says |
|---|---|
| `RefusedAlways` | `RevokedRefused` |
| `UseAlways` | `UseRecorded` |

`RequestInv` says of a request, for each place it can be at, that a key that was
no good when the request came is refused or has expired; it is preserved because
nothing makes a token good again (`RequestStays`), and because expiry is looked
at after the row was read: a token that is read just before it is revoked was
good when the request came.

`UseInv` follows a use from the request to the table. Two requests may both pass the
throttle before either sets it, set it in one order, and write in the other; so the
throttle may go back, and the time written may be older than the one it replaces. What
holds nevertheless: a request that passed is itself the witness that somebody is
`Writing`; what the throttle remembers is not later than the table, or somebody is
writing, or a write was lost (`Remembered`); while a request has set the throttle and not
written yet, the throttle is at most `Patience` behind that request, so that no
further one passes (`Throttled`); and the time a request is about to write covers every
use that another one with the same key may leave to it (`StandsFor`). The assumption
`2 * Patience < Interval` is what `Throttled` needs: the code's interval is a constant of 300
seconds and SQLite waits five for its lock.

On `Drafts`, for any hosts, keys, drafts, schedules, hours and starts
(`DraftsAssumption`: all bounds are natural numbers):

| Theorem | Says |
|---|---|
| `OnceAlways` | `WrittenOnce` |
| `DecryptsAlways` | `DecryptsOwn` |
| `KeepsAlways` | `KeepsPasswords` |
| `AsksAlways` | `AsksReached`: a schedule asks only devices that answered the probe of its draft (not checked by a run) |

`DraftsInv` adds: neither a draft that is there nor the one taken out has been
written (`OnceInv`); the devices that answered go from the draft to what is
taken out of it (`ReachedInv`); a text of this start of the portal has the key
in use, and there is one (`KeyInv`) - which every write preserves because a key is
generated only where there is none.

On `Inventory`, for any finite set of slots, any devices and names
(`InventoryAssumption`: slots are natural numbers, and only devices are subjects):

| Theorem | Says |
|---|---|
| `MembersAlways` | `MembersAsPrinted` |

The invariant is `MembersKept`: of a device that is a stack the index has `UnitsTell`, one
unit for each member, with a number of its own, one master among them, and a serial number
that is a member's or none. Each parser is shown to produce that (`CiscoTell`, `HuaweiTell`,
`FortiTell`). For Cisco the place a serial number is taken from lies within the list
(`SortedTells`), and the active member comes first in it exactly when its number is the
least (`Least`). For Huawei the number of a unit leads back to its slot because the
offset is the same for the port table and for the manufacture table, when all members are
in both or none has slot 0 (`Offsets`). `RowsTell` then follows the units into the rows: the
anchor is the master, the others are sorted by their numbers, and since no two have the
same number none is lost or shown twice. Both sorts come down to `Places`: each number
of a finite set has a place of its own, and each place a number.

| Theorem | Says |
|---|---|
| `PortalTypes` | `PortalTypeOK`: the types of all four, in any behaviour of the run `portal` |

`PortalInv` puts the invariants above together with the bounds they leave open: clocks and
restarts within theirs (`TokensBounds`), and every text in a
draft or a schedule was encrypted with a key there is (`DraftsBounds`). A start may take
the key away that a text was encrypted with, but not that it was made.

`SnapshotStoreProofs`, for any hosts, ports, jobs, plans, rebuilds, restarts and
I/O errors (`StoreAssumption`: the bounds are natural numbers, time has a first
second, and retention keeps at least one snapshot):

| Theorem | Says |
|---|---|
| `StoreTypeCorrect` | `TypeOK` |
| `AggregatesAlways` | `AggregatesExact` |
| `OnlyPreviewedAlways` | `OnlyPreviewedRemoved` |
| `NewestAlways` | `NewestSurvives` |
| `NoLossAlways` | `NoSilentLoss` |

`StoreInv` is what they share: a row has the host of its directory and an id that
was used up (`RowsTrue`), a manifest too (`DiskTrue`), and so what a job holds
(`JobTrue`); a plan that is carried out was previewed, what it says of a row
stays true of the row, and its directories are of the past, so that no job makes
them again (`PlanTrue`). Ids are what makes a plan safe: a row that a rebuild
made anew has another id, and is not deleted for the old one.
`AggregatesExact` is then inductive, because each transaction recomputes the
devices it touches and `Aggregate` depends on the rows of its device alone. `NewestSurvives`
needs `NewestInv`: what the index knows is on disk or has a newer complete
snapshot of its host on disk. That, and not that the row is old, is what a plan
inherits and what the removal of other directories keeps (`SucceededStays`: the
latest of them is not in the plan). `NoSilentLoss` is inductive with `StoreInv`:
each way a directory leaves the list of the missing (`JobAdds`, `RebuildAdds`)
or joins it (`RowGoes`) is a lemma. It excuses a directory that a rebuild has yet
to read only once that rebuild has wiped the table.

`SessionPoolProofs`, for any requests, keys, parameters, sizes of queues and
batches, and rounds of the monitor:

| Theorem | Says |
|---|---|
| `PoolTypeCorrect` | `TypeOK` |
| `OffersAlways` | `PoolOffersOpen` |
| `WaitersAlways` | `WaitersAreQueued` |
| `AbortAlways` | `AbortOnlyUnusable` |

`PoolInv` states the queue as a relation: its commands are of different callers
(`Distinct`), and a caller is among them or under execution just when it waits
on that session (`QueueTrue`). Nothing else survives a consumer that takes the
head while another request closes the session. `Born` says that pooled sessions
exist under their own key, and that while an init is pending somebody waits for
its end (`Creating`): this makes `PoolOffersOpen` inductive, since a failed init
may stay in the pool until that very request removes it. `AbortOnlyUnusable`
follows by looking at who closes (`WhoCloses`): a request or the monitor that
has just found the session unusable, and no step between the two makes it usable
again.

`AgentProofs`, for any templates and texts that satisfy `TextFsmAssumption`
(options are those of the engine, rules capture columns that exist):

| Theorem | Says |
|---|---|
| `NoGapsAlways` | `NoGaps`, for `FsmSpec` and for `AgentSpec` |
| `NothingLostAlways` | `NothingLost`, for `FsmSpec` and for `AgentSpec`: merging by key and by group keeps every key and group, once, with all that its rows hold, if keys of the rows that differ still differ when they are joined (`Apart`) and no merged List column is filled up (`Mixed`) |
| `FsmTypes` | `FsmTypeOK`: line numbers stay in the text, rows refer to blocks that exist, blocks to lines |
| `AgentTypes` | `AgentTypeOK`, which the run `agent` checks: `FsmTypeOK` and `ShellTypeOK` of its behaviours |
| `AgentSecret`, `AgentAnswers`, `AgentRuns` | `SecretOnlyAsked`, `OwnAnswer` and `RunsWhereAsked` (below) of the run's behaviours |

`NoGaps` looks at rows, but what keeps it is the record under construction.
`Remembers`: a column's value is what its options remember of it, and a list
with a value is not empty. So a record that has its required values has no empty
cell there, and a clear leaves a value only where Filldown or TmpFilldown
brings it back. `GoesUp`: a value of a Fillup column under construction was
written up to all the rows, so that the row made of it has no gap above. For
`FsmTypes` the jumps between raw configuration and its parser matter: `Standing`
says that the two line numbers the engine goes back to are lines of the text.
Both hold for templates that `_ValidateFSM` rejects as well, since those never start.

`NothingLost` says nothing of rows that are not told apart by their joined keys, because
it is false there (section 6), and nothing of a parse that raises, which is what a list
in a key leads to (`FsmInv` says that a parse which is done had none). Elsewhere the
joined keys are equal exactly when the columns are (`TellsKeys`, `TellsGroups`).
It compares two loops over the rows: the code merges each row into what
the rows before it made, the property collects for one key what all the rows have of
it. Both are folds, so the proof unrolls them. `Iterates` shows that the recursive
function behind a fold exists, `KeyFold`, `GroupFold`, `ListFold` and `MemberFold` that
it takes the rows one at a time, and `Along` is induction over their number, by the
smallest counterexample. What holds of the first m rows then follows from the m-1 before:
keys are distinct and just those of the rows (`KeysUpTo`), every cell is the list so
far or the last value that is not empty (`CellsUpTo`), and likewise for the groups,
which start from the merged rows (`GroupsUpTo`, `Holds`).

`DeviceShellProofs`, for every pair of plugin and device, any number of tasks,
devices that echo in order or ahead, and output in pieces of any size
(`PasswordsAssumption`: the configured password is the device's or another):

| Theorem | Says |
|---|---|
| `SecretAlways` | if no timeout fires while an answer is on its way (`~Late`), `SecretOnlyAsked` |
| `ShellTypes` | timeouts at any time, `ShellTypeOK`: device and session are in modes, a session that has begun knows its mode, a read position stays within what was read |

No single place knows that a question is current: the session sees what it has
read, the device what it has executed, and echo, question and prompt may be cut
anywhere between them. `ShellInv` therefore speaks of the whole conversation,
`Channel`: the lines the device has still to execute, in its input or on the way
there, against the tokens the session has not read. The channel is `Idle` when
the session waits for nothing, `Waiting` after a line, `Enabling` after an
`enable`: then a question is the last thing said, by a device that still asks,
and a password on its way is the only line there is. Every action of the session
moves the conversation from one to the next, and what the device does keeps it
(`Executed`). This rests on facts about the tables: a plugin whose device asks
for a password reads a prompt before it writes (`Prompted`), and none has `enable` or
a password among its other commands (`Worded`); where the device does not ask, no question
is ever on its way, and so no password. Without `~Late` the theorem is false: three
tasks on an ASA are enough for a password that answers a late question to be executed
as a command.

A session believes no mode until it has read a first prompt, yet a step to a mode
compares the one it believes with the one it wants. `Begins` is the part of
`ShellTyped` that separates the two: as long as the mode is unknown the session
has not begun, and what it has still to do starts with draining and deciding,
which leave it known. The rest is the tables again (`Moded`: commands lead to
modes or close the connection) and the read buffer, where a search, an answered
question and an advance each keep the position within what was read.

`DeviceShellAnswers`, for the same constants:

| Theorem | Says |
|---|---|
| `OwnAnswerAlways` | if no timeout fires while an answer is on its way (`~Late`) and every plugin of `Kinds` asks for a prompt with the empty line alone (`Steady`), `OwnAnswer` |
| `RunsWhereAskedAlways` | under the same conditions and on a device that echoes in order (`~ahead`), `RunsWhereAsked` |

`Steady` leaves out the plugins that write their exit command before that empty
line, or `end` after it, to get out of a level (CE, USG, SecPath, VSR, Hillstone,
QiAnXin, FortiGate): two lines are on their way at once there, and the invariant
follows one. It is about thirteen of the twenty rows, the ones with a password among them;
for the others `OwnAnswer` is model-checked.

That the first prompt behind the echo is the answer cannot be seen in the channel
of `ShellInv`, which forgets what was read. `InOrder` keeps all that the device
said since the buffer was emptied, read or not (`Said`), beside the lines it has
still to execute. While the session polls for a prompt, or rests, the device has
heard only empty lines and owes or has said at most one prompt more than
was read (`Polled`, `Rested`). While it waits for a line, either the line was not
taken up yet and nothing but empty lines was echoed (`Unheeded`), or its echo stands at
one place e, with no prompt before it but the one right before it (`Heeded`), and what
follows e tells where the device is (`Stage`): executing, replied with output and
prompt, closed the connection, or, on `enable`, asking, trusted with the password,
judging, judged. In each of these a prompt behind e is the last thing said and the
device has nothing left to execute (`PromptLast`); the prompt right before the
echo is refused because it does not stand alone on its line. So a hit means that
the line was dealt with and its output was read (`HitDealt`), and a question that is
found is the current one (`QuestionAsked`). This needs that an empty line keeps a device
in its mode (`EmptyExecuted`, from the tables) and that no plugin has the empty
line among its commands, where an echo would be taken for another.

`RunsWhereAsked` relates three things that never meet in one state: the mode and vsys a
task asked for, the one the session believes, and the one in which the device executes a
line that was written several steps ago. `InPlace` joins them in two halves. `Plan` is
the session's half: its list of steps is one that `Start` makes (a `Script`), and when it
comes to the command of the task, what the task asked for is what the session believes (`Aim`).
`Placed` is the device's half: while no line is waited for, every prompt that was said since
the buffer was emptied, read or not, shows the mode the device is in (`Facing`); while one
is, the device is in the mode the session believes until it executes that line (`Synced`),
and then where the line leads (`Brought`); and a line the device has still to execute meets
its task when it is executed now (`Obliged`). That nothing else is executed in between is
`InOrder`. From the tables come three facts (`Orderly`, `SteadyRows`): prompts tell the
modes of a device apart, the commands a plugin has for a mode lead to that mode or leave
the device where it was, and the set-up of the terminal leads nowhere. On a device that echoes
ahead `RunsWhereAsked` speaks of the first task only, since a later one may meet an
old prompt that passes for the answer to its switch of the mode; that case is not proved.

Only model-checked:

* the liveness properties and `NeverRescans`, which is about chosen templates (it
  fails for others: run `continue`);
* `OwnAnswer` and `RunsWhereAsked` of `DeviceShell` for the plugins that are not `Steady`, and
  `RunsWhereAsked` of a first task on a device that echoes ahead;
* `RowsByHistory`: it filters the history of captures, about which the prover's library
  says nothing, and `LinksAsPrinted` of `Inventory`, whose outputs are flattened by a
  recursive definition.

## 6. Where the code and its documents disagree

| Run | Document | Code |
|---|---|---|
| `toggle` | `docs/Handbook.html:435`: disable and enable a schedule that stays running | `__starting__` left by a restart counts as busy for ever; only deleting the schedule helps |
| `pool_double` | `quick-start-agent.md:23`: commands run one after the other | the pool is emptied by key: a failed init removes the session that replaced it, and two sessions of one key work at once |
| `device_late` | `client/session.py:488`: a command runs in its vsys and mode | after a timeout the answer still comes; the next task takes its prompt for the answer to its own line (`session.py:402`), believes a mode the device is not in and does not switch |
| `continue` | comment at `parser.py:1264`: Continue does not return to the start of the state | it does (`parser.py:975`): a Continue without a change of state is scanned for ever |

Seen while modelling, without a run of their own:

Schedules and portal
* A tick starts a job for every due schedule at once (`docs/Handbook.html:225`
  says one at a time); a schedule disabled after the tick listed it is still
  executed (`docs/Handbook.html:221`).
* A schedule that is updated between claim and start is executed with its old
  devices and its new credentials (`schedule_executor.py:380`).
* A draft whose second transaction fails is lost; one older than its lifetime
  can be confirmed until the next upload purges it. `devices_to_csv` leaves out
  hostname, model and version, so the schedule has fewer columns than the file.
* After a change of the master key, the page that sets a schedule's password
  leaves its enable password under the old key.
* The reason of a refused API request may be that of another request
  (`api_tokens.py:268`; `tests/auth/test_token_expiry_audit.py:54` expects its
  own).

Store
* A snapshot indexed between the scan of a rebuild and its `DELETE` is lost from
  the index until the next rebuild (`docs/Handbook.html:180`; `NoSilentLoss`
  names the case).
* Rows whose directories a killed retention had removed count among the newest N
  (`web/templates/inventory.html:24`).
* Two ports of one host in the same second share a directory, and the second
  backup is indexed as the first's device (`docs/Handbook.html:432` says a
  different port tells devices apart).

Agent
* A session whose init fails after the login keeps its connection open
  (`pool.py:28` says leaks are avoided).
* Commands queued on a session that is closed are never answered
  (`quick-start-agent.md:258`: requests have a timeout).
* The monitor iterates the pool and awaits in the loop (`pool.py:227`), which
  ends it with a `RuntimeError` when the pool changes; the loop after it copies
  the keys to avoid exactly that (`pool.py:237`).
* Cisco never sends `enable` on its way to the enable mode (`cisco.py:49`), but
  a task for the configuration mode sends it from the login mode; and a
  task for the enable mode that finds the device in configuration mode runs
  there. `RunsWhereAsked` leaves these targets out.
* On a device that echoes a line before it is done with the last one, an old
  prompt behind the new echo passes for the answer; `OwnAnswer` is about the others.
  From the second task on it may so pass for the answer to a switch of the mode,
  and the task's command runs in the mode the device was left in:
  `RunsWhereAsked` holds there for the first task only, and says so.

Templates
* A row's block record is the list itself, which later lines may still extend.
* A column with Required, TmpFilldown and List can come out as an empty list, and
  one with Fillup and List can have gaps above a value: a list of an empty string is
  a value, but Fillup does not write the empty string upwards.
* Keys are joined with "$" (`parser.py:1028`), so that different ones may become one: of the
  rows with the keys ("x", "$") and ("x$", "") one is left, with the first key; groups likewise
  (`:1050`). `netdriver_textfsm/README.md:31` says records with the same Key values are
  merged. `NothingLost` leaves these rows out (`Apart`).
* A Key or GroupBy column that is a List makes the whole parse raise as soon as there is a
  row (`parser.py:1028`, `:1050`): strings and lists do not add up.

Neighbours and stacks
* Blocks of `show lldp neighbors detail` are cut at lines of dashes only
  (`cdp_lldp.py:262`). Nexus ends them with a blank line: of its output one
  neighbour is left, with the name of a later one if the first has none.
* A block that says "Local Port id" and a neighbour port that is no interface shows
  the local port as the remote one (`cdp_lldp.py:272`; `PortShown`). A CDP table reads a name like `site1` as an
  interface.
* A Cisco device whose CDP found nothing is not asked for LLDP.
* Devices of the same name at two sites are one target, the first in the list;
  hostnames that are addresses collide on their first number. A stack is never a
  target, since its rows are called by member.
* Serial numbers can be mixed up: on Cisco when the active member is not the
  lowest and a member has no block (`stack.py:134`), on Huawei when slots begin at 0 and
  the manufacture table lacks that slot (`stack.py:311` says by physical slot).
  `Attributable` leaves these cases out.
* All but the active member of a Cisco stack are shown as Standby
  (`stack.py:184`: Member stays Member).

## 7. What is not modelled

* Version texts, interface maps, the switch map, configuration diffs: text in,
  tables out, no state; what can be wrong is particular to a device's output.
* Request signing between portal and agent, password hashing, encryption:
  libraries; the nonce cache of the signatures. Page rendering, CSRF, audit,
  logging.
* Of the agent: a vsys the device does not have (`SwitchVsysFailed`), the Leadsec plugin, deeper configuration levels of the USG, save hooks and
  automatic answers, more-prompts, patterns of error outputs, login and
  encodings of the channel, `close_all` at the end of the process.
* Of the engine: the syntax of templates and regular expressions. Of simunet:
  what its other commands print.
* How a host is probed: a probe is its answer. Path checks of the store.
* Schema migrations, which only add columns; the choice of an older snapshot on
  the page of neighbours.

## 8. Plan

Done: `ScheduleExecutor`, `BackupSlot` and `ScheduleRefinement`, how backups
start, end and are recorded, with their proofs; `SnapshotStore`, how snapshots
are kept, indexed and removed; `SessionPool`, the agent's sessions cut at every
`await`; `Accounts`, `ApiTokens` and `Drafts`; all of these with their proofs.
`Vendors`, `DeviceShell` and `TextFsm`, what the agent does with a device, the last
two with their proofs; `Inventory`, with the proofs about stacks.

Left, in order of importance:

1. An abstract store in which a snapshot is either there and listed or not, and an
   abstract pool of one queue per device, as specifications that
   `SnapshotStore` and `SessionPool` implement.
2. `Drafts` composed with `ScheduleExecutor`: which contents a run executes.
3. `OwnAnswer` and `RunsWhereAsked` for plugins that write two lines at once; what a key or
   group merge keeps.
