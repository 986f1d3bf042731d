-------------------------- MODULE ScheduleExecutor --------------------------
(***************************************************************************)
(* The scheduled backups of the portal: the watcher thread, the web        *)
(* handlers, the background backup jobs, and the two SQLite tables         *)
(* (schedules, schedule_runs) they share.                                  *)
(*                                                                         *)
(* One portal process runs two executors of schedules: the watcher thread  *)
(* and the event loop of the web server.  Every web handler is an          *)
(* "async def" that never awaits while it works on a schedule, so handlers *)
(* exclude each other but interleave with the watcher and with the jobs.   *)
(* Each SQLite transaction is one step; a crash can fall between any two.  *)
(*                                                                         *)
(* A job with a worker thread is "active", be its status queued or         *)
(* running: no code tells the two apart.  A job whose thread could not be  *)
(* started stays "queued".  Only the order of time matters, so last_run_at *)
(* is "never", "recent" or "elapsed" (the interval since it is over).      *)
(***************************************************************************)
EXTENDS Integers, FiniteSets

CONSTANTS
    NSched,     \* ids the schedules table may hand out
    MaxRuns,    \* bound: rows of schedule_runs
    MaxJobs,    \* bound: backup jobs ever started
    MaxKept,    \* _MAX_JOBS: jobs the memory of the process keeps
    MaxCrashes, \* bound: restarts of the portal process
    MaxFaults   \* bound: exceptions, at any statement of an executor

ASSUME BoundsAssumption ==
    /\ NSched \in Nat /\ MaxRuns \in Nat /\ MaxJobs \in Nat
    /\ MaxKept \in Nat \ {0}
    /\ MaxCrashes \in Nat /\ MaxFaults \in Nat

VARIABLES
    sched,      \* table schedules
    runs,       \* table schedule_runs
    nextRun,    \* its AUTOINCREMENT counter
    jobs,       \* every job ever started; kept: still in the dict _jobs
    nextJob,
    lock,       \* holder of the flock on the schedule lock file
    pc,         \* where each executor is
    rows,       \* poll_running_jobs: run ids read and not yet looked at
    todo,       \* schedules still to execute under this lock
    cur,        \* the schedule whose execution is under way
    held,       \* job started and not yet written to the tables
    crashes, faults,
    \* What the code keeps no trace of, for the properties:
    untold,     \* jobs whose id an exception lost before it was written
    cut         \* schedules whose execution an exception or a restart ended

dbVars   == <<sched, runs, nextRun>>
jobVars  == <<jobs, nextJob>>
execVars == <<lock, pc, rows, todo, cur, held>>
envVars  == <<crashes, faults, untold, cut>>
vars     == <<dbVars, jobVars, execVars, envVars>>

Schedules == 1..NSched
RunIds    == 1..MaxRuns
JobIds    == 1..MaxJobs
Executors == {"watcher", "web"}
Nobody    == "nobody"

\* Values of running_job_id beside the id of a job.
NoJob    == 0
Starting == -1

Schedule == [st : {"unborn", "live", "gone"}, enabled : BOOLEAN,
             running : JobIds \cup {NoJob, Starting},
             last : {"never", "recent", "elapsed"}]
Run      == [status : {"none", "running", "done", "failed", "skipped"},
             sid : Schedules \cup {0}, job : JobIds \cup {NoJob}]
Job      == [state : {"none", "queued", "active", "done", "failed", "killed"},
             owner : Schedules \cup {0}, kept : BOOLEAN]

TypeOK ==
    /\ sched \in [Schedules -> Schedule]
    /\ runs \in [RunIds -> Run]
    /\ nextRun \in 1..(MaxRuns + 1)
    /\ jobs \in [JobIds -> Job]
    /\ nextJob \in 1..(MaxJobs + 1)
    /\ lock \in Executors \cup {Nobody}
    /\ pc \in [Executors -> {"idle", "poll", "body", "creds", "start", "record"}]
    /\ rows \in [Executors -> SUBSET RunIds]
    /\ todo \in [Executors -> SUBSET Schedules]
    /\ cur \in [Executors -> Schedules \cup {0}]
    /\ held \in [Executors -> JobIds \cup {NoJob}]
    /\ crashes \in 0..MaxCrashes
    /\ faults \in 0..MaxFaults
    /\ untold \subseteq JobIds
    /\ cut \subseteq Schedules

NoRow == [status |-> "none", sid |-> 0, job |-> NoJob]

\* A fresh installation: empty tables, an idle process.
Init ==
    /\ sched = [s \in Schedules |-> [st |-> "unborn", enabled |-> FALSE,
                                     running |-> NoJob, last |-> "never"]]
    /\ runs = [r \in RunIds |-> NoRow]
    /\ nextRun = 1
    /\ jobs = [j \in JobIds |-> [state |-> "none", owner |-> 0, kept |-> FALSE]]
    /\ nextJob = 1
    /\ lock = Nobody
    /\ pc = [e \in Executors |-> "idle"]
    /\ rows = [e \in Executors |-> {}]
    /\ todo = [e \in Executors |-> {}]
    /\ cur = [e \in Executors |-> 0]
    /\ held = [e \in Executors |-> NoJob]
    /\ crashes = 0
    /\ faults = 0
    /\ untold = {}
    /\ cut = {}

-----------------------------------------------------------------------------
(* Reading the tables and the memory.                                      *)

Live(s) == sched[s].st = "live"

\* What get_job finds: jobs of an earlier process and evicted jobs are missing,
\* and every reader takes a job that is only queued for one that runs.
Seen(j) == IF ~jobs[j].kept THEN "missing"
           ELSE IF jobs[j].state = "queued" THEN "active" ELSE jobs[j].state

\* _due: enabled, not running, never run or interval over.
Due(s) ==
    /\ Live(s)
    /\ sched[s].enabled
    /\ sched[s].running = NoJob
    /\ sched[s].last # "recent"

\* The open run that _finalize_orphan_run and _reconcile_schedule_running pick.
LatestOpen(r, s, j) ==
    LET Open(q) == runs[q].status = "running" /\ runs[q].sid = s /\ runs[q].job = j
    IN  Open(r) /\ \A q \in RunIds : Open(q) => q <= r

\* Seeded faults: the status of the job is copied as it is; a lost job counts
\* as done.
VerdictCopied(j) == Seen(j)
VerdictLostIsDone(j) == IF Seen(j) = "failed" THEN "failed" ELSE "done"

\* The status a run gets from its job; a job that is missing counts as lost.
Verdict(j) == IF Seen(j) = "done" THEN "done" ELSE "failed"

\* Seeded fault: the orphan path does not reset running_job_id.
ClosedKeepsOrphan(s, j) ==
    IF ~Live(s) \/ Seen(j) = "missing" THEN sched
    ELSE [sched EXCEPT ![s].running = NoJob, ![s].last = "recent"]

\* The schedules row after its run was closed.  An UPDATE of a deleted row
\* changes nothing; a lost job does not count as the last run.
Closed(s, j) ==
    IF ~Live(s) THEN sched
    ELSE [sched EXCEPT ![s].running = NoJob,
                       ![s].last = IF Seen(j) = "missing" THEN @ ELSE "recent"]

\* A run; which executor triggered it changes nothing.
Row(st, s, j) == [status |-> st, sid |-> s, job |-> j]

Insert(table, row) ==
    /\ runs' = [table EXCEPT ![nextRun] = row]
    /\ nextRun' = nextRun + 1

\* Bound: an execution begins only while a run and a job are left for it.
Budget == nextRun <= MaxRuns /\ nextJob <= MaxJobs

-----------------------------------------------------------------------------
(* The executors.                                                          *)

Release(e) ==
    /\ lock' = Nobody
    /\ pc' = [pc EXCEPT ![e] = "idle"]
    /\ rows' = [rows EXCEPT ![e] = {}]
    /\ todo' = [todo EXCEPT ![e] = {}]
    /\ cur' = [cur EXCEPT ![e] = 0]
    /\ held' = [held EXCEPT ![e] = NoJob]

Goto(e, label) == pc' = [pc EXCEPT ![e] = label]

\* The claim of cur[e] is committed, and neither replaced nor given back.
InBody(e) == pc[e] \in {"creds", "start", "record"}

\* The body of one schedule is over; the executor goes on to the next.
NextBody(e) ==
    /\ Goto(e, "body")
    /\ todo' = [todo EXCEPT ![e] = @ \ {cur[e]}]
    /\ cur' = [cur EXCEPT ![e] = 0]
    /\ held' = [held EXCEPT ![e] = NoJob]
    /\ UNCHANGED <<lock, rows>>

\* flock(LOCK_EX | LOCK_NB) won, and the first query of poll_running_jobs.
\* An executor that loses the lock gives up and changes nothing.
Acquire(e, wanted) ==
    /\ pc[e] = "idle"
    /\ lock = Nobody
    /\ lock' = e
    /\ Goto(e, "poll")
    /\ rows' = [rows EXCEPT ![e] = {r \in RunIds : runs[r].status = "running"
                                                  /\ runs[r].job # NoJob}]
    /\ todo' = [todo EXCEPT ![e] = wanted]
    /\ UNCHANGED <<dbVars, jobVars, envVars, cur, held>>

BeginTick == Acquire("watcher", {})

BeginManual(s) ==
    /\ Budget
    /\ Live(s)
    /\ Acquire("web", {s})

\* Seeded faults: the UPDATE names the schedule and not the run; a missing job
\* is taken for one that still runs.
PollRowWide(e, r) ==
    /\ pc[e] = "poll"
    /\ r \in rows[e] /\ \A q \in rows[e] : r <= q
    /\ rows' = [rows EXCEPT ![e] = @ \ {r}]
    /\ LET s == runs[r].sid
           j == runs[r].job
       IN  IF runs[r].status = "running" /\ Seen(j) # "active"
           THEN /\ runs' = [q \in RunIds |->
                              IF runs[q].sid = s
                              THEN [runs[q] EXCEPT !.status = Verdict(j)]
                              ELSE runs[q]]
                /\ sched' = Closed(s, j)
           ELSE UNCHANGED <<runs, sched>>
    /\ UNCHANGED <<nextRun, jobVars, envVars, lock, pc, todo, cur, held>>
PollRowSkipsLost(e, r) ==
    /\ pc[e] = "poll"
    /\ r \in rows[e] /\ \A q \in rows[e] : r <= q
    /\ rows' = [rows EXCEPT ![e] = @ \ {r}]
    /\ LET s == runs[r].sid
           j == runs[r].job
       IN  IF runs[r].status = "running" /\ Seen(j) \in {"done", "failed"}
           THEN /\ runs' = [runs EXCEPT ![r].status = Verdict(j)]
                /\ sched' = Closed(s, j)
           ELSE UNCHANGED <<runs, sched>>
    /\ UNCHANGED <<nextRun, jobVars, envVars, lock, pc, todo, cur, held>>

\* One iteration of poll_running_jobs: look the job up and, in a transaction
\* that checks the run is still open, close the run of a finished or lost job.
PollRow(e, r) ==
    /\ pc[e] = "poll"
    /\ r \in rows[e] /\ \A q \in rows[e] : r <= q
    /\ rows' = [rows EXCEPT ![e] = @ \ {r}]
    /\ LET s == runs[r].sid
           j == runs[r].job
       IN  IF runs[r].status = "running" /\ Seen(j) # "active"
           THEN /\ runs' = [runs EXCEPT ![r].status = Verdict(j)]
                /\ sched' = Closed(s, j)
           ELSE UNCHANGED <<runs, sched>>
    /\ UNCHANGED <<nextRun, jobVars, envVars, lock, pc, todo, cur, held>>

\* Polling is over; the watcher takes its list of due schedules, once.
PollDone(e) ==
    /\ pc[e] = "poll"
    /\ rows[e] = {}
    /\ Goto(e, "body")
    /\ todo' = IF e = "watcher"
               THEN [todo EXCEPT ![e] = {s \in Schedules : Due(s)}]
               ELSE todo
    /\ UNCHANGED <<dbVars, jobVars, envVars, lock, rows, cur, held>>

\* Seeded fault: no finally clause, the flock is never given back.
UnlockLeaks(e) ==
    /\ pc[e] = "body"
    /\ todo[e] = {} \/ ~Budget
    /\ Goto(e, "idle")
    /\ UNCHANGED <<dbVars, jobVars, envVars, lock, rows, todo, cur, held>>

\* The finally clause of tick_schedules and execute_schedule.
Unlock(e) ==
    /\ pc[e] = "body"
    /\ todo[e] = {} \/ ~Budget
    /\ Release(e)
    /\ UNCHANGED <<dbVars, jobVars, envVars>>

\* The list is worked through in the order of the ids.
Target(e, s) ==
    /\ pc[e] = "body"
    /\ Budget
    /\ s \in todo[e] /\ \A t \in todo[e] : s <= t

\* The schedule was deleted since: ValueError, which also ends the tick.
ScheduleGone(e, s) ==
    /\ Target(e, s)
    /\ ~Live(s)
    /\ Release(e)
    /\ UNCHANGED <<dbVars, jobVars, envVars>>

\* Seeded fault: only the placeholder makes a schedule busy.
BusyPlaceholderOnly(s) == sched[s].running = Starting

\* _reconcile_schedule_running returns "busy".
Busy(s) ==
    \/ sched[s].running = Starting
    \/ sched[s].running \in JobIds /\ Seen(sched[s].running) = "active"

\* Its effect otherwise: the open run of the finished or lost job is closed.
RunsReconciled(s) ==
    LET j == sched[s].running
    IN  IF j = NoJob \/ Busy(s) THEN runs
        ELSE [r \in RunIds |-> IF LatestOpen(r, s, j)
                               THEN [runs[r] EXCEPT !.status = Verdict(j)]
                               ELSE runs[r]]
SchedReconciled(s) ==
    LET j == sched[s].running
    IN  IF j = NoJob \/ Busy(s) THEN sched
        ELSE IF \E r \in RunIds : LatestOpen(r, s, j) THEN Closed(s, j)
        ELSE [sched EXCEPT ![s].running = NoJob]

Occupied(s) ==
    Busy(s) \/ \E r \in RunIds : /\ RunsReconciled(s)[r].status = "running"
                                 /\ RunsReconciled(s)[r].sid = s

\* First transaction, schedule occupied: only a skipped run is recorded.
Skip(e, s) ==
    /\ Target(e, s)
    /\ Live(s)
    /\ Occupied(s)
    /\ sched' = SchedReconciled(s)
    /\ Insert(RunsReconciled(s), Row("skipped", s, NoJob))
    /\ todo' = [todo EXCEPT ![e] = @ \ {s}]
    /\ UNCHANGED <<jobVars, envVars, lock, pc, rows, cur, held>>

\* First transaction, schedule free: running_job_id becomes __starting__.
Claim(e, s) ==
    /\ Target(e, s)
    /\ Live(s)
    /\ ~Occupied(s)
    /\ sched' = [SchedReconciled(s) EXCEPT ![s].running = Starting]
    /\ runs' = RunsReconciled(s)
    /\ cur' = [cur EXCEPT ![e] = s]
    /\ Goto(e, "creds")
    /\ UNCHANGED <<nextRun, jobVars, envVars, lock, rows, todo, held>>

\* resolve_schedule_credentials succeeds: the row is still there.
ResolveCreds(e) ==
    /\ pc[e] = "creds"
    /\ Live(cur[e])
    /\ Goto(e, "start")
    /\ UNCHANGED <<dbVars, jobVars, envVars, lock, rows, todo, cur, held>>

\* Seeded fault: the failure path does not give the claim back.
CredsFailKeepsClaim(e) ==
    /\ pc[e] = "creds"
    /\ Insert(runs, Row("failed", cur[e], NoJob))
    /\ NextBody(e)
    /\ UNCHANGED <<sched, jobVars, envVars>>

\* It fails: the row is gone, or its password cannot be decrypted (the master
\* key was lost or replaced).  A failed run without a job is recorded.
CredsFail(e) ==
    /\ pc[e] = "creds"
    /\ Insert(runs, Row("failed", cur[e], NoJob))
    /\ sched' = IF Live(cur[e]) THEN [sched EXCEPT ![cur[e]].running = NoJob]
                ELSE sched
    /\ NextBody(e)
    /\ UNCHANGED <<jobVars, envVars>>

\* A list without devices: the claim is given back and no run tells of it.
NoDevices(e) ==
    /\ pc[e] = "start"
    /\ sched' = IF Live(cur[e]) THEN [sched EXCEPT ![cur[e]].running = NoJob]
                ELSE sched
    /\ NextBody(e)
    /\ UNCHANGED <<runs, nextRun, jobVars, envVars>>

\* _prune_jobs, after the new job was added: the oldest finished jobs go
\* while more than MaxKept are kept.
Finished == {j \in JobIds : jobs[j].kept /\ jobs[j].state \in {"done", "failed"}}
Evicted ==
    LET excess == Cardinality({j \in JobIds : jobs[j].kept}) + 1 - MaxKept
    IN  {j \in Finished : Cardinality({i \in Finished : i < j}) < excess}

\* The new job enters _jobs; its thread starts, or it stays queued.
StartJob(owner, st) ==
    /\ jobs' = [j \in JobIds |->
                  IF j = nextJob
                  THEN [state |-> st, owner |-> owner, kept |-> TRUE]
                  ELSE [jobs[j] EXCEPT !.kept = @ /\ j \notin Evicted]]
    /\ nextJob' = nextJob + 1

Launch(e) ==
    /\ pc[e] = "start"
    /\ StartJob(cur[e], "active")
    /\ held' = [held EXCEPT ![e] = nextJob]
    /\ Goto(e, "record")
    /\ UNCHANGED <<dbVars, envVars, lock, rows, todo, cur>>

\* Seeded fault: the second transaction forgets the schedules row.
RecordRunOnly(e) ==
    /\ pc[e] = "record"
    /\ Insert(runs, Row("running", cur[e], held[e]))
    /\ NextBody(e)
    /\ UNCHANGED <<sched, jobVars, envVars>>

\* Second transaction: the run and the job id of the schedule.
RecordRun(e) ==
    /\ pc[e] = "record"
    /\ Insert(runs, Row("running", cur[e], held[e]))
    /\ sched' = IF Live(cur[e]) THEN [sched EXCEPT ![cur[e]].running = held[e]]
                ELSE sched
    /\ NextBody(e)
    /\ UNCHANGED <<jobVars, envVars>>

\* Seeded fault: the finally clause also takes the claim back.
RaisesFreesClaim(e) ==
    /\ pc[e] # "idle"
    /\ faults < MaxFaults
    /\ faults' = faults + 1
    /\ untold' = IF pc[e] = "record" THEN untold \cup {held[e]} ELSE untold
    /\ cut' = IF InBody(e) THEN cut \cup {cur[e]} ELSE cut
    /\ Release(e)
    /\ sched' = IF InBody(e) /\ Live(cur[e])
                THEN [sched EXCEPT ![cur[e]].running = NoJob] ELSE sched
    /\ UNCHANGED <<runs, nextRun, jobVars, crashes>>

\* Any statement of an executor can raise (the database is locked, no space for
\* the temporary file): its transaction is undone and the finally clause gives
\* the lock back.  Nothing gives a claim back, and a job that was started and
\* not yet recorded goes on with its id in no row and no executor.
Raises(e) ==
    /\ pc[e] # "idle"
    /\ faults < MaxFaults
    /\ faults' = faults + 1
    /\ untold' = IF pc[e] = "record" THEN untold \cup {held[e]} ELSE untold
    /\ cut' = IF InBody(e) THEN cut \cup {cur[e]} ELSE cut
    /\ Release(e)
    /\ UNCHANGED <<dbVars, jobVars, crashes>>

\* Thread.start raises after the job was entered in _jobs: it is queued for as
\* long as the process lives.
ThreadRaises(e) ==
    /\ pc[e] = "start"
    /\ faults < MaxFaults
    /\ faults' = faults + 1
    /\ StartJob(cur[e], "queued")
    /\ cut' = cut \cup {cur[e]}
    /\ Release(e)
    /\ UNCHANGED <<dbVars, crashes, untold>>

-----------------------------------------------------------------------------
(* The other web handlers; none of them takes the schedule lock.           *)

WebIdle == pc["web"] = "idle"

CreateSchedule(s) ==
    /\ WebIdle
    /\ sched[s].st = "unborn"
    /\ \A t \in Schedules : t < s => sched[t].st # "unborn"
    /\ sched' = [sched EXCEPT ![s] = [st |-> "live", enabled |-> TRUE,
                                      running |-> NoJob, last |-> "never"]]
    /\ UNCHANGED <<runs, nextRun, jobVars, execVars, envVars>>

\* update_schedule: a new interval can end or renew the wait for the next run.
\* The device list and the credentials are no part of this module's state.
UpdateSchedule(s) ==
    /\ WebIdle
    /\ Live(s)
    /\ sched[s].last # "never"
    /\ \E l \in {"recent", "elapsed"} : sched' = [sched EXCEPT ![s].last = l]
    /\ UNCHANGED <<runs, nextRun, jobVars, execVars, envVars>>

Toggle(s) ==
    /\ WebIdle
    /\ Live(s)
    /\ sched' = [sched EXCEPT ![s].enabled = ~@]
    /\ UNCHANGED <<runs, nextRun, jobVars, execVars, envVars>>

DeleteSchedule(s) ==
    /\ WebIdle
    /\ Live(s)
    /\ sched' = [sched EXCEPT ![s] = [st |-> "gone", enabled |-> FALSE,
                                      running |-> NoJob, last |-> "never"]]
    /\ runs' = [r \in RunIds |-> IF runs[r].sid = s THEN NoRow ELSE runs[r]]
    /\ UNCHANGED <<nextRun, jobVars, execVars, envVars>>

\* POST /backup/start: a job no schedule owns.  Bound: the last job is left
\* to the executors.
AdHocBackup ==
    /\ WebIdle
    /\ nextJob < MaxJobs
    /\ StartJob(0, "active")
    /\ UNCHANGED <<dbVars, execVars, envVars>>

-----------------------------------------------------------------------------
(* The jobs, the clock, and the process itself.                            *)

\* The worker thread of job j ends.
JobEnds(j) ==
    /\ jobs[j].state = "active"
    /\ \E st \in {"done", "failed"} : jobs' = [jobs EXCEPT ![j].state = st]
    /\ UNCHANGED <<dbVars, nextJob, execVars, envVars>>

IntervalOver(s) ==
    /\ sched[s].last = "recent"
    /\ sched' = [sched EXCEPT ![s].last = "elapsed"]
    /\ UNCHANGED <<runs, nextRun, jobVars, execVars, envVars>>

\* The process dies and is restarted: the tables stay, threads, memory and
\* the flock are gone.
Crash ==
    /\ crashes < MaxCrashes
    /\ crashes' = crashes + 1
    /\ jobs' = [j \in JobIds |->
                  [jobs[j] EXCEPT !.kept = FALSE,
                                  !.state = IF @ \in {"active", "queued"}
                                            THEN "killed" ELSE @]]
    /\ lock' = Nobody
    /\ pc' = [e \in Executors |-> "idle"]
    /\ rows' = [e \in Executors |-> {}]
    /\ todo' = [e \in Executors |-> {}]
    /\ cur' = [e \in Executors |-> 0]
    /\ held' = [e \in Executors |-> NoJob]
    /\ untold' = {}
    /\ cut' = cut \cup {cur[e] : e \in {d \in Executors : InBody(d)}}
    /\ UNCHANGED <<dbVars, nextJob, faults>>

-----------------------------------------------------------------------------

Step(e) ==
    \/ \E r \in RunIds : PollRow(e, r)
    \/ PollDone(e)
    \/ \E s \in Schedules : ScheduleGone(e, s) \/ Skip(e, s) \/ Claim(e, s)
    \/ ResolveCreds(e) \/ CredsFail(e)
    \/ NoDevices(e) \/ Launch(e) \/ RecordRun(e)
    \/ Unlock(e)

Web ==
    \/ \E s \in Schedules : \/ BeginManual(s)
                            \/ CreateSchedule(s) \/ UpdateSchedule(s)
                            \/ Toggle(s) \/ DeleteSchedule(s)
    \/ AdHocBackup

Next ==
    \/ BeginTick
    \/ \E e \in Executors : Step(e) \/ Raises(e) \/ ThreadRaises(e)
    \/ Web
    \/ \E j \in JobIds : JobEnds(j)
    \/ \E s \in Schedules : IntervalOver(s)
    \/ Crash

Spec == Init /\ [][Next]_vars

(***************************************************************************)
(* Fairness: the watcher thread loops for ever, an executor that holds the *)
(* lock never blocks, and a backup ends (each command has a timeout).      *)
(* Operators, the clock and failures owe nothing.  Weak fairness is enough *)
(* for BeginTick: manual runs are bounded, so they cannot keep the lock    *)
(* from the watcher for ever.                                              *)
(***************************************************************************)
Fairness ==
    /\ WF_vars(BeginTick)
    /\ \A e \in Executors : WF_vars(Step(e))
    /\ \A j \in JobIds : WF_vars(JobEnds(j))

FairSpec == Spec /\ Fairness

-----------------------------------------------------------------------------
(* Safety.                                                                 *)

\* schedules.running_job_id and schedule_runs tell the same story: the runs
\* of a schedule that are open are exactly the one of the job it names.  Two
\* transactions, a poll, a crash and a delete all write one side or both.
TablesAgree ==
    \A s \in Schedules : Live(s) =>
        /\ \A r \in RunIds :
              runs[r].status = "running" /\ runs[r].sid = s
                  => runs[r].job = sched[s].running
        /\ sched[s].running \in JobIds =>
              \E r \in RunIds : LatestOpen(r, s, sched[s].running)

\* A schedule never has two backups under way at once, whatever the watcher,
\* manual runs, restarts and deletes do: the reason for running_job_id.
OneActiveJobPerSchedule ==
    \A i, j \in JobIds :
        /\ jobs[i].state = "active" /\ jobs[j].state = "active"
        /\ jobs[i].owner = jobs[j].owner
        /\ jobs[i].owner \in Schedules /\ Live(jobs[i].owner)
        => i = j

\* A run is closed only after its job stopped, and with its job's outcome;
\* a successful job is reported as failed only when its record is lost.
VerdictsAreTrue ==
    \A r \in RunIds : runs[r].job # NoJob =>
        LET j == runs[r].job IN
        /\ runs[r].status = "done" => jobs[j].state = "done"
        /\ runs[r].status = "failed" =>
              \/ jobs[j].state \in {"failed", "killed"}
              \/ jobs[j].state = "done" /\ ~jobs[j].kept

\* A claim has an executor that is about to replace it by a job or to give it
\* back, unless an exception or a restart cut the very execution it was for.
NoStrandedClaim ==
    \A s \in Schedules : sched[s].running = Starting =>
        (\E e \in Executors : cur[e] = s /\ InBody(e)) \/ s \in cut

\* A running backup of a schedule that still exists is the one of running_job_id;
\* or its executor is about to write it there; or an exception lost its id just
\* then, and the schedule stays claimed, so that no second backup can start.
NoUntrackedJob ==
    \A j \in JobIds :
        jobs[j].state = "active" /\ jobs[j].owner \in Schedules
        /\ Live(jobs[j].owner)
        => LET s == jobs[j].owner IN
           \/ sched[s].running = j
           \/ /\ sched[s].running = Starting
              /\ \/ \E e \in Executors : pc[e] = "record" /\ held[e] = j /\ cur[e] = s
                 \/ j \in untold

(* Why these hold: the strengthening that every step preserves.            *)

\* Whoever is not idle holds the lock, so at most one executor is at work.
LockInv == \A e \in Executors : pc[e] # "idle" => lock = e

\* An execution under way owns the claim of its schedule, unless that was
\* deleted, and holds a job of its own that no run names yet.
BodyInv == \A e \in Executors :
    /\ InBody(e) =>
          /\ cur[e] \in Schedules
          /\ sched[cur[e]].st # "unborn"
          /\ Live(cur[e]) => sched[cur[e]].running = Starting
          /\ nextRun <= MaxRuns
    /\ pc[e] \in {"creds", "start"} => nextJob <= MaxJobs
    /\ pc[e] = "record" =>
          /\ held[e] \in JobIds /\ held[e] < nextJob
          /\ jobs[held[e]].owner = cur[e]
          /\ \A r \in RunIds : runs[r].job # held[e]

\* Jobs are started in order, for schedules that exist or existed, and a job
\* that runs is never evicted.
JobInv == \A j \in JobIds :
    /\ j >= nextJob => jobs[j].state = "none"
    /\ jobs[j].state \in {"active", "queued"} => jobs[j].kept
    /\ jobs[j].owner \in Schedules => sched[jobs[j].owner].st # "unborn"

\* Runs are inserted in order; the job of a run is a started job of the same
\* schedule and of no other run.
RunInv == \A r \in RunIds :
    /\ r >= nextRun => runs[r].status = "none" /\ runs[r].job = NoJob
    /\ runs[r].job # NoJob =>
          /\ runs[r].job < nextJob
          /\ jobs[runs[r].job].owner = runs[r].sid
          /\ \A q \in RunIds : runs[q].job = runs[r].job => q = r
    /\ runs[r].status = "running" => runs[r].job # NoJob /\ runs[r].sid \in Schedules

\* Every open run of an existing schedule is the one of running_job_id, which
\* names only jobs that have one.
OpenRunInv == \A s \in Schedules : Live(s) =>
    /\ \A r \in RunIds :
          runs[r].status = "running" /\ runs[r].sid = s
              => runs[r].job = sched[s].running
    /\ sched[s].running \in JobIds =>
          \E r \in RunIds : /\ runs[r].status = "running" /\ runs[r].sid = s
                            /\ runs[r].job = sched[s].running

\* A lost job is the only one of its schedule, which stays claimed for it.
UntoldInv == \A j \in untold :
    /\ j < nextJob /\ jobs[j].owner \in Schedules
    /\ LET s == jobs[j].owner IN
       Live(s) =>
          /\ sched[s].running = Starting
          /\ \A e \in Executors : InBody(e) => cur[e] # s
          /\ \A i \in untold : jobs[i].owner = s => i = j

IInv == /\ TypeOK /\ LockInv /\ BodyInv /\ JobInv /\ RunInv /\ OpenRunInv
        /\ NoUntrackedJob /\ UntoldInv

(* What a step may never do.                                               *)

\* History is append-only: a run that is closed keeps its status and its job
\* until its schedule is deleted, however late a poll looks at it.
HistoryIsFinal ==
    [][\A r \in RunIds :
          runs[r].status \in {"done", "failed", "skipped"} =>
              runs'[r] = runs[r] \/ sched'[runs[r].sid].st = "gone"]_vars

(* Liveness, under FairSpec.                                               *)

\* Every open run is closed in the end, also when the portal restarted, the
\* job was evicted, or the schedule was deleted while the job started.
EveryRunEnds ==
    \A r \in RunIds : (runs[r].status = "running") ~> (runs[r].status # "running")

\* A schedule that is due is claimed, unless it stops being due.
DueScheduleServed ==
    \A s \in Schedules : (Due(s) /\ Budget) ~> (~Due(s) \/ ~Budget)

(* What the handbook says of schedules, and the code does not do.          *)

\* docs/Handbook.html:435: a schedule that stays running is helped by
\* disabling and enabling it.  The operator here does so again and again.
ToggleSpec == FairSpec /\ \A s \in Schedules : WF_vars(Toggle(s))
ToggleFreesSchedule ==
    \A s \in Schedules :
        (Live(s) /\ sched[s].running # NoJob) ~> (~Live(s) \/ sched[s].running = NoJob)

=============================================================================
