----------------------- MODULE ScheduleExecutorProofs -----------------------
(***************************************************************************)
(* Proofs about ScheduleExecutor, for any number of schedules, runs and    *)
(* jobs, any memory size and any number of crashes and exceptions, wherever *)
(* they fall, and                                                          *)
(* that it implements BackupSlot (last part).                              *)
(***************************************************************************)
EXTENDS ScheduleRefinement, TLAPS

\* The values of running_job_id and of the pc are told apart.
LEMMA Constants ==
    /\ NoJob \notin JobIds /\ Starting \notin JobIds /\ NoJob # Starting
    /\ 0 \notin Schedules /\ Nobody \notin Executors
    /\ RunIds \subseteq Nat /\ JobIds \subseteq Nat
BY BoundsAssumption
   DEF NoJob, Starting, JobIds, RunIds, Schedules, Nobody, Executors

\* An empty installation satisfies the inductive invariant: no table row, no job,
\* nobody at work.
THEOREM InitInv == Init => IInv
<1> SUFFICES ASSUME Init PROVE IInv
    OBVIOUS
<1> USE BoundsAssumption
<1>1. TypeOK
    BY Constants
    DEF Init, TypeOK, Schedule, Run, Job, NoRow, Schedules, RunIds, JobIds,
        Executors, Nobody, NoJob, Starting
<1>2. LockInv /\ BodyInv
    BY DEF Init, LockInv, BodyInv, InBody
<1>3. JobInv /\ NoUntrackedJob /\ UntoldInv
    BY Constants DEF Init, JobInv, NoUntrackedJob, UntoldInv
<1>4. RunInv /\ OpenRunInv
    <2>1. \A r \in RunIds : runs[r] = NoRow
        BY DEF Init
    <2>2. \A r \in RunIds : runs[r].status = "none" /\ runs[r].job = NoJob
        BY <2>1 DEF NoRow
    <2>3. \A s \in Schedules : ~Live(s)
        BY DEF Init, Live
    <2> QED
        BY <2>2, <2>3 DEF RunInv, OpenRunInv
<1> QED
    BY <1>1, <1>2, <1>3, <1>4 DEF IInv

-----------------------------------------------------------------------------
(* What the shared pieces of the actions do to the state.                  *)

\* Closing the run of a schedule touches the row of no other schedule, and
\* frees the schedule if it still exists.
LEMMA ClosedRows ==
    ASSUME TypeOK, NEW s \in Schedules, NEW j
    PROVE  /\ Closed(s, j) \in [Schedules -> Schedule]
           /\ \A t \in Schedules : /\ Closed(s, j)[t].st = sched[t].st
                                   /\ t # s => Closed(s, j)[t] = sched[t]
           /\ Live(s) => Closed(s, j)[s].running = NoJob
<1>1. CASE ~Live(s)
    BY <1>1 DEF Closed, TypeOK
<1>2. CASE Live(s)
    <2> DEFINE l   == IF Seen(j) = "missing" THEN sched[s].last ELSE "recent"
               row == [sched[s] EXCEPT !.running = NoJob, !.last = l]
    <2>1. sched[s] \in Schedule /\ sched \in [Schedules -> Schedule]
        BY DEF TypeOK
    <2>2. l \in {"never", "recent", "elapsed"}
        BY <2>1 DEF Schedule
    <2> HIDE DEF l
    <2>3. row \in Schedule
        BY <2>1, <2>2 DEF Schedule
    <2>4. Closed(s, j) = [sched EXCEPT ![s] = row]
        BY <1>2, <2>1 DEF Closed, Schedule, l
    <2>5. row.st = sched[s].st /\ row.running = NoJob
        BY <2>1 DEF Schedule
    <2> HIDE DEF row
    <2> QED
        BY <2>1, <2>3, <2>4, <2>5
<1> QED
    BY <1>1, <1>2

\* A new job adds one record and changes no other but its kept flag, and that
\* only of a job that is finished.
LEMMA StartJobRows ==
    ASSUME TypeOK, NEW o \in Schedules \cup {0}, NEW st \in {"active", "queued"},
           nextJob \in JobIds, StartJob(o, st)
    PROVE  /\ jobs' \in [JobIds -> Job]
           /\ nextJob' \in 1..(MaxJobs + 1) /\ nextJob' = nextJob + 1
           /\ jobs'[nextJob] = [state |-> st, owner |-> o, kept |-> TRUE]
           /\ \A j \in JobIds \ {nextJob} :
                 /\ jobs'[j].state = jobs[j].state
                 /\ jobs'[j].owner = jobs[j].owner
                 /\ jobs[j].state \in {"active", "queued"} => jobs'[j].kept = jobs[j].kept
<1>1. \A j \in JobIds \ {nextJob} :
         jobs'[j] = [state |-> jobs[j].state, owner |-> jobs[j].owner,
                     kept |-> jobs[j].kept /\ j \notin Evicted]
    BY DEF StartJob, TypeOK, Job
<1>2. jobs'[nextJob] = [state |-> st, owner |-> o, kept |-> TRUE]
    BY DEF StartJob
<1>3. \A j \in JobIds : jobs'[j] \in Job
    <2>1. \A j \in JobIds \ {nextJob} : jobs'[j] \in Job
        <3> SUFFICES ASSUME NEW j \in JobIds \ {nextJob} PROVE jobs'[j] \in Job
            OBVIOUS
        <3> DEFINE k == jobs[j].kept /\ j \notin Evicted
        <3>1. k \in BOOLEAN
            OBVIOUS
        <3>2. jobs'[j] = [state |-> jobs[j].state, owner |-> jobs[j].owner, kept |-> k]
            BY <1>1
        <3> HIDE DEF k
        <3> QED
            BY <3>1, <3>2 DEF TypeOK, Job
    <2>2. jobs'[nextJob] \in Job
        BY <1>2 DEF Job
    <2> QED
        BY <2>1, <2>2
<1>4. jobs' \in [JobIds -> Job]
    BY <1>3 DEF StartJob
<1>5. \A j \in JobIds : jobs[j].state \in {"active", "queued"} => j \notin Evicted
    BY DEF Evicted, Finished
<1>6. nextJob' \in 1..(MaxJobs + 1) /\ nextJob' = nextJob + 1
    BY BoundsAssumption DEF StartJob, JobIds
<1>7. \A j \in JobIds \ {nextJob} :
         jobs[j].state \in {"active", "queued"} => jobs'[j].kept = jobs[j].kept
    BY <1>1, <1>5 DEF TypeOK, Job
<1> QED
    BY <1>1, <1>2, <1>4, <1>6, <1>7

\* Going on to the next schedule keeps the executors' variables typed.
LEMMA NextBodyType ==
    ASSUME TypeOK, NEW e \in Executors, NextBody(e)
    PROVE  /\ lock' \in Executors \cup {Nobody}
           /\ pc' \in [Executors -> {"idle", "poll", "body", "creds", "start", "record"}]
           /\ rows' \in [Executors -> SUBSET RunIds]
           /\ todo' \in [Executors -> SUBSET Schedules]
           /\ cur' \in [Executors -> Schedules \cup {0}]
           /\ held' \in [Executors -> JobIds \cup {NoJob}]
BY DEF TypeOK, NextBody, Goto

\* What is said of lost jobs survives a step that loses none, if existing
\* schedules keep their claims but those of an execution under way, and a new
\* execution is of a schedule that was not claimed.
LEMMA UntoldStep ==
    ASSUME IInv, untold' = untold, nextJob' \in Nat, nextJob' >= nextJob,
           \A j \in JobIds : j < nextJob => jobs'[j].owner = jobs[j].owner,
           \A s \in Schedules : sched[s].st # "unborn" /\ Live(s)' =>
               /\ Live(s)
               /\ sched[s].running = Starting =>
                     \/ sched'[s].running = Starting
                     \/ \E e \in Executors : InBody(e) /\ cur[e] = s,
           \A e \in Executors : InBody(e)' =>
               \/ InBody(e) /\ cur'[e] = cur[e]
               \/ sched[cur'[e]].running # Starting
    PROVE  UntoldInv'
<1> USE DEF IInv
<1>1. ASSUME NEW j \in untold
      PROVE  /\ j \in JobIds /\ j < nextJob /\ j < nextJob'
             /\ jobs'[j].owner = jobs[j].owner /\ jobs[j].owner \in Schedules
             /\ sched[jobs[j].owner].st # "unborn"
    BY Constants DEF TypeOK, UntoldInv, JobInv
<1>2. ASSUME NEW j \in untold, Live(jobs[j].owner)'
      PROVE  LET s == jobs[j].owner IN
             /\ Live(s) /\ sched'[s].running = Starting
             /\ \A e \in Executors : InBody(e)' => cur'[e] # s
    BY <1>1, <1>2 DEF UntoldInv
<1>3. ASSUME NEW j \in untold', NEW s, s = jobs'[j].owner
      PROVE  /\ j < nextJob' /\ s \in Schedules
             /\ Live(s)' => /\ sched'[s].running = Starting
                            /\ \A e \in Executors : InBody(e)' => cur'[e] # s
                            /\ \A i \in untold' : jobs'[i].owner = s => i = j
    <2>1. /\ j \in untold /\ s = jobs[j].owner /\ j < nextJob' /\ s \in Schedules
          /\ \A i \in untold' : jobs'[i].owner = jobs[i].owner /\ i \in untold
        BY <1>1, <1>3
    <2>2. ASSUME Live(s)' PROVE Live(s) /\ \A i \in untold : jobs[i].owner = s => i = j
        BY <1>2, <2>1, <2>2 DEF UntoldInv
    <2> QED
        BY <1>2, <2>1, <2>2
<1> QED
    BY <1>3 DEF UntoldInv

\* A step of an executor that writes no table and no job preserves the
\* invariant if it respects the lock and the claim, and forgets no job that is
\* yet to be recorded.
LEMMA ControlStep ==
    ASSUME IInv, TypeOK', LockInv', BodyInv',
           UNCHANGED <<sched, runs, nextRun, jobs, nextJob, untold>>,
           \A d \in Executors : pc[d] = "record" =>
               pc'[d] = "record" /\ held'[d] = held[d] /\ cur'[d] = cur[d],
           \A d \in Executors : InBody(d)' => InBody(d) /\ cur'[d] = cur[d]
    PROVE  IInv'
<1>1. JobInv' /\ RunInv'
    BY DEF IInv, JobInv, RunInv
<1>2. OpenRunInv'
    BY DEF IInv, OpenRunInv, Live
<1>3. NoUntrackedJob'
    BY DEF IInv, NoUntrackedJob, Live
<1>4. UntoldInv'
    BY UntoldStep DEF IInv, TypeOK, Live
<1> QED
    BY <1>1, <1>2, <1>3, <1>4 DEF IInv

\* So does a step that changes only enabled or last of the schedules.
LEMMA RowStep ==
    ASSUME IInv, sched' \in [Schedules -> Schedule],
           \A s \in Schedules : /\ sched'[s].st = sched[s].st
                                /\ sched'[s].running = sched[s].running,
           UNCHANGED <<runs, nextRun, jobVars, execVars, envVars>>
    PROVE  IInv'
<1> USE DEF IInv, jobVars, execVars, envVars
<1>1. TypeOK'
    BY DEF TypeOK
<1>2. LockInv' /\ RunInv'
    BY DEF LockInv, RunInv
<1>3. BodyInv'
    BY DEF BodyInv, InBody, Live
<1>4. JobInv'
    BY DEF JobInv
<1>5. OpenRunInv'
    BY DEF OpenRunInv, Live
<1>6. NoUntrackedJob'
    BY DEF NoUntrackedJob, Live
<1>7. UntoldInv'
    BY UntoldStep DEF TypeOK, Live, InBody
<1> QED
    BY <1>1, <1>2, <1>3, <1>4, <1>5, <1>6, <1>7

\* Giving the lock back, with no execution under way.
LEMMA ReleaseStep ==
    ASSUME IInv, NEW e \in Executors, Release(e), pc[e] = "body",
           UNCHANGED <<dbVars, jobVars, envVars>>
    PROVE  IInv'
<1> USE Constants DEF IInv, Release, dbVars, jobVars, envVars
<1>1. TypeOK'
    BY DEF TypeOK
<1>2. LockInv'
    BY DEF TypeOK, LockInv
<1>3. BodyInv'
    BY DEF TypeOK, BodyInv, InBody, Live
<1>4. \A d \in Executors : pc[d] # "record" /\ ~InBody(d)'
    BY DEF TypeOK, LockInv, InBody
<1> QED
    BY <1>1, <1>2, <1>3, <1>4, ControlStep

-----------------------------------------------------------------------------
(* Every step preserves the invariant.                                     *)

\* Taking the lock.
LEMMA AcquireInv ==
    ASSUME IInv, NEW e \in Executors, NEW W \in SUBSET Schedules, Acquire(e, W)
    PROVE  IInv'
<1> USE DEF IInv, Acquire, Goto, dbVars, jobVars, execVars, envVars
<1>1. TypeOK'
    BY DEF TypeOK
<1>2. LockInv'
    BY Constants DEF TypeOK, LockInv
<1>3. BodyInv'
    BY DEF TypeOK, BodyInv, InBody, Live
<1>4. \A d \in Executors : InBody(d)' => InBody(d)
    BY DEF TypeOK, InBody
<1> QED
    BY <1>1, <1>2, <1>3, <1>4, ControlStep DEF TypeOK

\* Polling one row.
LEMMA PollRowInv ==
    ASSUME IInv, NEW e \in Executors, NEW r \in RunIds, PollRow(e, r)
    PROVE  IInv'
<1> DEFINE s == runs[r].sid
           j == runs[r].job
<1> USE Constants DEF IInv, PollRow, dbVars, jobVars, execVars, envVars
<1>1. rows' \in [Executors -> SUBSET RunIds] /\ r \in RunIds
    BY DEF TypeOK
<1>2. \A d \in Executors : ~InBody(d)
    BY DEF LockInv, InBody
<1>3. CASE runs[r].status = "running" /\ Seen(j) # "active"
    <2>1. /\ s \in Schedules /\ j \in JobIds
          /\ jobs[j].state # "active"
        BY <1>3 DEF TypeOK, Run, RunInv, JobInv, Seen
    <2>2. /\ runs' = [runs EXCEPT ![r].status = Verdict(j)]
          /\ sched' = Closed(s, j)
        BY <1>3
    <2>3. Verdict(j) \in {"done", "failed"}
        BY DEF Verdict
    <2>4. /\ runs' \in [RunIds -> Run]
          /\ runs'[r].status \in {"done", "failed"}
          /\ \A q \in RunIds : /\ runs'[q].sid = runs[q].sid
                               /\ runs'[q].job = runs[q].job
                               /\ q # r => runs'[q].status = runs[q].status
        BY <2>2, <2>3 DEF TypeOK, Run
    <2>5. /\ sched' \in [Schedules -> Schedule]
          /\ \A t \in Schedules : /\ sched'[t].st = sched[t].st
                                  /\ t # s => sched'[t] = sched[t]
          /\ Live(s) => sched'[s].running = NoJob
        BY <2>1, <2>2, ClosedRows
    <2> HIDE DEF s, j
    <2>6. TypeOK'
        BY <1>1, <2>4, <2>5 DEF TypeOK
    <2>7. LockInv'
        BY DEF LockInv
    <2>8. BodyInv'
        BY <1>2 DEF BodyInv, InBody
    <2>9. JobInv'
        BY <2>5, <2>6 DEF JobInv, TypeOK, Job
    <2>10. RunInv'
        BY <1>3, <2>4 DEF RunInv, TypeOK
    <2>11. OpenRunInv'
        <3> SUFFICES ASSUME NEW t \in Schedules, Live(t)
                     PROVE  /\ \A q \in RunIds :
                                 runs'[q].status = "running" /\ runs'[q].sid = t
                                     => runs'[q].job = sched'[t].running
                            /\ sched'[t].running \in JobIds =>
                                 \E q \in RunIds : /\ runs'[q].status = "running"
                                                   /\ runs'[q].sid = t
                                                   /\ runs'[q].job = sched'[t].running
            BY <2>5 DEF OpenRunInv, Live
        <3>1. CASE t # s
            BY <2>4, <2>5, <3>1 DEF OpenRunInv, s
        <3>2. CASE t = s
            <4>1. \A q \in RunIds : runs[q].status = "running" /\ runs[q].sid = s => q = r
                BY <1>3, <2>1, <3>2 DEF OpenRunInv, RunInv, s, j
            <4> QED
                BY <2>4, <2>5, <3>2, <4>1
        <3> QED
            BY <3>1, <3>2
    <2>12. NoUntrackedJob'
        <3> SUFFICES ASSUME NEW i \in JobIds, jobs[i].state = "active",
                            jobs[i].owner \in Schedules, Live(jobs[i].owner)
                     PROVE  \/ sched'[jobs[i].owner].running = i
                            \/ /\ sched'[jobs[i].owner].running = Starting
                               /\ \/ \E d \in Executors : /\ pc[d] = "record" /\ held[d] = i
                                                             /\ cur[d] = jobs[i].owner
                                  \/ i \in untold
            BY <2>5 DEF NoUntrackedJob, Live
        <3>2. CASE jobs[i].owner # s
            BY <2>5, <3>2 DEF NoUntrackedJob
        <3>3. CASE jobs[i].owner = s
            <4>1. sched[s].running = j
                BY <1>3, <2>1, <3>3 DEF OpenRunInv, s, j
            <4>2. sched[s].running = i
                BY <2>1, <3>3, <4>1 DEF NoUntrackedJob
            <4> QED
                BY <2>1, <4>1, <4>2
        <3> QED
            BY <3>2, <3>3
    <2>13. UntoldInv'
        <3>1. Live(s) => sched[s].running = j
            BY <1>3, <2>1 DEF OpenRunInv, s, j
        <3> QED
            BY <1>2, <2>1, <2>5, <3>1, UntoldStep DEF TypeOK, Live, InBody
    <2> QED
        BY <2>6, <2>7, <2>8, <2>9, <2>10, <2>11, <2>12, <2>13
<1>4. CASE ~(runs[r].status = "running" /\ Seen(j) # "active")
    <2>1. UNCHANGED <<sched, runs, nextRun, jobs, nextJob, lock, pc, todo, cur, held,
                      crashes, faults, untold, cut>>
        BY <1>4
    <2> QED
        BY <1>1, <2>1 DEF TypeOK, LockInv, BodyInv, InBody, JobInv, RunInv, OpenRunInv,
                          NoUntrackedJob, UntoldInv, Live
<1> QED
    BY <1>3, <1>4

\* The end of polling.
LEMMA PollDoneInv ==
    ASSUME IInv, NEW e \in Executors, PollDone(e)
    PROVE  IInv'
<1> USE DEF IInv, PollDone, Goto, dbVars, jobVars, envVars
<1>1. TypeOK'
    BY DEF TypeOK
<1>2. LockInv'
    BY DEF TypeOK, LockInv
<1>3. BodyInv'
    BY DEF TypeOK, BodyInv, InBody, Live
<1>4. \A d \in Executors : InBody(d)' => InBody(d)
    BY DEF TypeOK, InBody
<1> QED
    BY <1>1, <1>2, <1>3, <1>4, ControlStep DEF TypeOK

\* The end of a tick or of a manual run.
LEMMA UnlockInv ==
    ASSUME IInv, NEW e \in Executors, Unlock(e)
    PROVE  IInv'
BY ReleaseStep DEF Unlock

\* A tick that ends early.
LEMMA ScheduleGoneInv ==
    ASSUME IInv, NEW e \in Executors, NEW s \in Schedules, ScheduleGone(e, s)
    PROVE  IInv'
BY ReleaseStep DEF ScheduleGone, Target

\* Reading the credentials.
LEMMA ResolveCredsInv ==
    ASSUME IInv, NEW e \in Executors, ResolveCreds(e)
    PROVE  IInv'
<1> USE DEF IInv, ResolveCreds, Goto, dbVars, jobVars, envVars
<1>1. TypeOK'
    BY DEF TypeOK
<1>2. LockInv'
    BY DEF TypeOK, LockInv
<1>3. BodyInv'
    BY DEF TypeOK, LockInv, BodyInv, InBody, Live
<1>4. \A d \in Executors : InBody(d)' => InBody(d)
    BY DEF TypeOK, InBody
<1> QED
    BY <1>1, <1>2, <1>3, <1>4, ControlStep DEF TypeOK

\* Giving a claim back.
LEMMA CredsFailInv ==
    ASSUME IInv, NEW e \in Executors, CredsFail(e)
    PROVE  IInv'
<1> USE Constants DEF IInv, CredsFail, NextBody, Goto, Insert, Row, dbVars, jobVars, execVars, envVars
<1>1. TypeOK'
    <2>1. cur[e] \in Schedules /\ nextRun \in RunIds
        BY BoundsAssumption DEF TypeOK, BodyInv, InBody, RunIds
    <2>2. Row("failed", cur[e], NoJob) \in Run
        BY <2>1 DEF Run
    <2>3. runs' \in [RunIds -> Run] /\ nextRun' \in 1..(MaxRuns + 1)
        BY <2>1, <2>2, BoundsAssumption DEF TypeOK, RunIds
    <2>4. [sched[cur[e]] EXCEPT !.running = NoJob] \in Schedule
        BY <2>1 DEF TypeOK, Schedule
    <2>5. sched' \in [Schedules -> Schedule]
        BY <2>1, <2>4 DEF TypeOK
    <2> QED
        BY <2>3, <2>5, NextBodyType DEF TypeOK
<1>2. LockInv'
    BY DEF TypeOK, LockInv
<1>3. BodyInv'
    BY DEF TypeOK, LockInv, BodyInv, InBody, Live, JobInv
<1>4. JobInv'
    BY DEF TypeOK, JobInv
<1>5. RunInv'
    BY DEF TypeOK, Run, RunInv
<1>6. OpenRunInv'
    <2> DEFINE c == cur[e]
    <2>1. c \in Schedules /\ nextRun \in RunIds
        BY BoundsAssumption DEF TypeOK, BodyInv, InBody, RunIds
    <2>2. /\ \A q \in RunIds \ {nextRun} : runs'[q] = runs[q]
          /\ runs'[nextRun].status = "failed" /\ runs[nextRun].status = "none"
        BY <2>1 DEF TypeOK, RunInv
    <2>3. \A t \in Schedules : /\ sched'[t].st = sched[t].st
                               /\ t # c => sched'[t] = sched[t]
        BY <2>1 DEF TypeOK, Schedule
    <2>4. Live(c) => /\ sched'[c].running = NoJob
                     /\ \A q \in RunIds : ~(runs[q].status = "running" /\ runs[q].sid = c)
        BY <2>1 DEF TypeOK, Schedule, Run, BodyInv, InBody, RunInv, OpenRunInv
    <2> HIDE DEF c
    <2> SUFFICES ASSUME NEW t \in Schedules, Live(t)
                 PROVE  /\ \A q \in RunIds :
                             runs'[q].status = "running" /\ runs'[q].sid = t
                                 => runs'[q].job = sched'[t].running
                        /\ sched'[t].running \in JobIds =>
                             \E q \in RunIds : /\ runs'[q].status = "running"
                                               /\ runs'[q].sid = t
                                               /\ runs'[q].job = sched'[t].running
        BY <2>3 DEF OpenRunInv, Live
    <2>5. CASE t = c
        BY <2>1, <2>2, <2>4, <2>5
    <2>6. CASE t # c
        <3>1. sched'[t] = sched[t]
            BY <2>3, <2>6
        <3>2. \A q \in RunIds : runs'[q].status = "running" => runs'[q] = runs[q]
            BY <2>1, <2>2
        <3>3. \A q \in RunIds : runs[q].status = "running" => runs'[q] = runs[q]
            BY <2>1, <2>2
        <3>4. \A q \in RunIds : runs'[q].status = "running" /\ runs'[q].sid = t
                                   => runs'[q].job = sched'[t].running
            <4> SUFFICES ASSUME NEW q \in RunIds,
                                runs'[q].status = "running", runs'[q].sid = t
                         PROVE  runs'[q].job = sched'[t].running
                OBVIOUS
            <4>1. runs[q].status = "running" /\ runs[q].sid = t /\ runs'[q].job = runs[q].job
                BY <3>2
            <4>2. runs[q].job = sched[t].running
                BY <4>1 DEF OpenRunInv
            <4> QED
                BY <3>1, <4>1, <4>2
        <3>5. sched'[t].running \in JobIds =>
                 \E q \in RunIds : /\ runs'[q].status = "running"
                                   /\ runs'[q].sid = t
                                   /\ runs'[q].job = sched'[t].running
            BY <3>1, <3>3 DEF OpenRunInv
        <3> QED
            BY <3>4, <3>5
    <2> QED
        BY <2>5, <2>6
<1>7. NoUntrackedJob'
    <2> DEFINE c == cur[e]
    <2>1. c \in Schedules /\ InBody(e) /\ pc[e] # "record"
        BY DEF BodyInv, InBody
    <2>2. Live(c) => \A j \in JobIds : ~(jobs[j].state = "active" /\ jobs[j].owner = c)
        BY <2>1 DEF BodyInv, InBody, LockInv, NoUntrackedJob, UntoldInv
    <2>3. \A d \in Executors : pc[d] # "record"
        BY <2>1 DEF LockInv, InBody
    <2>4. \A t \in Schedules : /\ sched'[t].st = sched[t].st
                               /\ t # c => sched'[t] = sched[t]
        BY <2>1 DEF TypeOK, Schedule
    <2>5. jobs' = jobs /\ untold' = untold
        OBVIOUS
    <2> HIDE DEF c
    <2> QED
        BY ONLY IInv, <2>2, <2>3, <2>4, <2>5 DEF IInv, NoUntrackedJob, Live
<1>8. UntoldInv'
    BY UntoldStep DEF TypeOK, Schedule, LockInv, InBody, Live
<1> QED
    BY <1>1, <1>2, <1>3, <1>4, <1>5, <1>6, <1>7, <1>8

\* Giving a claim back without a run.
LEMMA NoDevicesInv ==
    ASSUME IInv, NEW e \in Executors, NoDevices(e)
    PROVE  IInv'
<1> USE Constants DEF IInv, NoDevices, NextBody, Goto, dbVars, jobVars, execVars, envVars
<1> DEFINE c == cur[e]
<1>0. c \in Schedules /\ InBody(e) /\ pc[e] # "record"
    BY DEF BodyInv, InBody
<1>1. /\ sched' \in [Schedules -> Schedule]
      /\ \A t \in Schedules : /\ sched'[t].st = sched[t].st
                              /\ t # c => sched'[t] = sched[t]
      /\ Live(c) => sched'[c].running = NoJob
    <2>1. [sched[c] EXCEPT !.running = NoJob] \in Schedule
        BY <1>0 DEF TypeOK, Schedule
    <2> QED
        BY <1>0, <2>1 DEF TypeOK, Schedule
<1>2. TypeOK'
    BY <1>1, NextBodyType DEF TypeOK
<1>3. LockInv'
    BY DEF TypeOK, LockInv
<1>4. BodyInv'
    BY DEF TypeOK, LockInv, BodyInv, InBody
<1>5. JobInv' /\ RunInv'
    BY <1>1 DEF JobInv, RunInv
<1>6. OpenRunInv'
    <2>1. Live(c) => \A q \in RunIds : ~(runs[q].status = "running" /\ runs[q].sid = c)
        BY <1>0 DEF TypeOK, Run, BodyInv, InBody, RunInv, OpenRunInv
    <2> QED
        BY <1>1, <2>1 DEF OpenRunInv, Live
<1>7. NoUntrackedJob'
    <2>1. Live(c) => \A j \in JobIds : ~(jobs[j].state = "active" /\ jobs[j].owner = c)
        BY <1>0 DEF BodyInv, InBody, LockInv, NoUntrackedJob, UntoldInv
    <2>2. \A d \in Executors : pc[d] # "record"
        BY <1>0 DEF LockInv, InBody
    <2> QED
        BY <1>1, <2>1, <2>2 DEF NoUntrackedJob, Live
<1>8. UntoldInv'
    BY <1>0, <1>1, UntoldStep DEF TypeOK, LockInv, InBody, Live
<1> QED
    BY <1>2, <1>3, <1>4, <1>5, <1>6, <1>7, <1>8

\* After an exception nobody is at work.
LEMMA RaisedIdle ==
    ASSUME IInv, NEW e \in Executors, pc[e] # "idle", Release(e)
    PROVE  /\ \A d \in Executors : pc'[d] = "idle"
           /\ lock' \in Executors \cup {Nobody}
           /\ pc' \in [Executors -> {"idle", "poll", "body", "creds", "start", "record"}]
           /\ rows' \in [Executors -> SUBSET RunIds]
           /\ todo' \in [Executors -> SUBSET Schedules]
           /\ cur' \in [Executors -> Schedules \cup {0}]
           /\ held' \in [Executors -> JobIds \cup {NoJob}]
           /\ LockInv' /\ BodyInv' /\ \A d \in Executors : ~InBody(d)'
<1>1. \A d \in Executors : pc'[d] = "idle"
    BY DEF IInv, LockInv, TypeOK, Release
<1> QED
    BY <1>1 DEF IInv, TypeOK, Release, LockInv, BodyInv, InBody

\* An exception anywhere.
LEMMA RaisesInv ==
    ASSUME IInv, NEW e \in Executors, Raises(e)
    PROVE  IInv'
<1> USE Constants DEF IInv, Raises, dbVars, jobVars
<1>1. pc[e] = "record" =>
          /\ held[e] \in JobIds /\ held[e] < nextJob /\ jobs[held[e]].owner = cur[e]
          /\ cur[e] \in Schedules /\ InBody(e)
          /\ Live(cur[e]) => sched[cur[e]].running = Starting
    BY DEF BodyInv, InBody
<1>2. TypeOK'
    <2>1. untold' \subseteq JobIds /\ cut' \subseteq Schedules
        BY <1>1 DEF TypeOK, BodyInv
    <2>2. faults' \in 0..MaxFaults
        BY BoundsAssumption DEF TypeOK
    <2> QED
        BY <2>1, <2>2, RaisedIdle DEF TypeOK
<1>3. LockInv' /\ BodyInv'
    BY RaisedIdle
<1>4. JobInv' /\ RunInv'
    BY DEF JobInv, RunInv
<1>5. OpenRunInv'
    BY DEF OpenRunInv, Live
<1>6. NoUntrackedJob'
    <2>1. \A d \in Executors : pc[d] = "record" => d = e
        BY DEF LockInv
    <2> QED
        BY <2>1 DEF NoUntrackedJob, Live
<1>7. UntoldInv'
    <2>1. \A d \in Executors : ~InBody(d)'
        BY RaisedIdle
    <2>2. ASSUME NEW j \in untold', NEW s, s = jobs[j].owner
          PROVE  /\ j < nextJob /\ s \in Schedules
                 /\ Live(s) => /\ sched[s].running = Starting
                               /\ \A i \in untold' : jobs[i].owner = s => i = j
        <3>1. CASE pc[e] # "record"
            BY <2>2, <3>1 DEF UntoldInv
        <3>2. CASE pc[e] = "record"
            <4>1. \A i \in untold : Live(jobs[i].owner) => jobs[i].owner # cur[e]
                BY <1>1, <3>2 DEF UntoldInv
            <4>2. untold' = untold \cup {held[e]}
                BY <3>2
            <4> QED
                BY <1>1, <2>2, <3>2, <4>1, <4>2 DEF UntoldInv
        <3> QED
            BY <3>1, <3>2
    <2> QED
        BY <2>1, <2>2 DEF UntoldInv, Live
<1> QED
    BY <1>2, <1>3, <1>4, <1>5, <1>6, <1>7

\* No thread for the new job.
LEMMA ThreadRaisesInv ==
    ASSUME IInv, NEW e \in Executors, ThreadRaises(e)
    PROVE  IInv'
<1> USE Constants DEF IInv, ThreadRaises, dbVars
<1>0. cur[e] \in Schedules /\ nextJob \in JobIds /\ StartJob(cur[e], "queued")
    BY BoundsAssumption DEF TypeOK, BodyInv, InBody, JobIds
<1>1. /\ jobs' \in [JobIds -> Job] /\ nextJob' \in 1..(MaxJobs + 1)
      /\ nextJob' = nextJob + 1 /\ nextJob \in Nat
      /\ jobs'[nextJob].state = "queued" /\ jobs'[nextJob].owner = cur[e] /\ jobs'[nextJob].kept
      /\ \A j \in JobIds \ {nextJob} :
            /\ jobs'[j].state = jobs[j].state
            /\ jobs'[j].owner = jobs[j].owner
            /\ jobs[j].state \in {"active", "queued"} => jobs'[j].kept = jobs[j].kept
    <2>1. /\ cur[e] \in Schedules \cup {0} /\ "queued" \in {"active", "queued"}
          /\ nextJob \in JobIds /\ StartJob(cur[e], "queued") /\ TypeOK
        BY <1>0
    <2>2. /\ jobs' \in [JobIds -> Job] /\ nextJob' \in 1..(MaxJobs + 1)
          /\ nextJob' = nextJob + 1
          /\ jobs'[nextJob] = [state |-> "queued", owner |-> cur[e], kept |-> TRUE]
          /\ \A j \in JobIds \ {nextJob} :
                /\ jobs'[j].state = jobs[j].state
                /\ jobs'[j].owner = jobs[j].owner
                /\ jobs[j].state \in {"active", "queued"} => jobs'[j].kept = jobs[j].kept
        BY ONLY <2>1, StartJobRows
    <2>3. nextJob \in Nat
        BY ONLY <2>1, Constants
    <2>4. /\ jobs'[nextJob].state = "queued" /\ jobs'[nextJob].owner = cur[e]
          /\ jobs'[nextJob].kept
        BY ONLY <2>2
    <2> QED
        BY ONLY <2>2, <2>3, <2>4
<1>2. TypeOK'
    <2>1. faults' \in 0..MaxFaults
        BY BoundsAssumption DEF TypeOK
    <2>2. cut' \subseteq Schedules
        BY <1>0 DEF TypeOK
    <2> QED
        BY <1>1, <2>1, <2>2, RaisedIdle DEF TypeOK
<1>3. LockInv' /\ BodyInv'
    BY RaisedIdle
<1>4. JobInv'
    <2>1. sched[cur[e]].st # "unborn"
        BY DEF BodyInv, InBody
    <2>2. \A j \in JobIds \ {nextJob} : jobs'[j].state \in {"active", "queued"} => jobs'[j].kept
        BY <1>1 DEF JobInv
    <2>3. \A j \in JobIds : j >= nextJob' => jobs'[j].state = "none"
        BY <1>1 DEF JobInv, JobIds
    <2>4. \A j \in JobIds : jobs'[j].owner \in Schedules => sched[jobs'[j].owner].st # "unborn"
        BY <1>1, <2>1 DEF JobInv
    <2>5. \A j \in JobIds : jobs'[j].state \in {"active", "queued"} => jobs'[j].kept
        BY ONLY <1>1, <2>2, Zenon
    <2> QED
        BY <2>3, <2>4, <2>5 DEF JobInv
<1>5. RunInv'
    BY <1>0, <1>1 DEF TypeOK, Run, RunInv, JobIds
<1>6. OpenRunInv'
    BY DEF OpenRunInv, Live
<1>7. NoUntrackedJob'
    <2>1. \A d \in Executors : pc[d] # "record"
        BY DEF LockInv
    <2>2. \A j \in JobIds : jobs'[j].state = "active" =>
             jobs[j].state = "active" /\ jobs'[j].owner = jobs[j].owner
        BY <1>1
    <2> QED
        BY <2>1, <2>2 DEF NoUntrackedJob, Live
<1>8. UntoldInv'
    <2>1. \A d \in Executors : ~InBody(d)'
        BY RaisedIdle
    <2>2. \A j \in JobIds : j < nextJob => jobs'[j].owner = jobs[j].owner
        BY <1>1
    <2> QED
        BY <1>1, <2>1, <2>2, UntoldStep DEF Live
<1> QED
    BY <1>2, <1>3, <1>4, <1>5, <1>6, <1>7, <1>8

\* Starting a job for a schedule.
LEMMA LaunchInv ==
    ASSUME IInv, NEW e \in Executors, Launch(e)
    PROVE  IInv'
<1> USE Constants DEF IInv, Launch, StartJob, Goto, dbVars, jobVars, execVars, envVars
<1>0. cur[e] \in Schedules /\ nextJob \in JobIds /\ StartJob(cur[e], "active")
    BY BoundsAssumption DEF TypeOK, BodyInv, InBody, JobIds
<1>1. TypeOK'
    BY <1>0, StartJobRows DEF TypeOK
<1>2. LockInv'
    BY DEF TypeOK, LockInv
<1>3. BodyInv'
    <2>1. \A d \in Executors : d # e => ~InBody(d)
        BY DEF LockInv, InBody
    <2>2. \A d \in Executors : InBody(d)' => d = e
        BY <2>1 DEF TypeOK, InBody
    <2>3. pc'[e] = "record" /\ held'[e] = nextJob
        BY DEF TypeOK
    <2>4. jobs'[nextJob].owner = cur[e] /\ nextJob < nextJob'
        BY <1>0, StartJobRows DEF TypeOK
    <2>5. \A r \in RunIds : runs[r].job # nextJob
        BY <1>0 DEF TypeOK, RunInv, JobIds
    <2>6. InBody(e)
        BY DEF InBody
    <2> QED
        BY <1>0, <2>2, <2>3, <2>4, <2>5, <2>6 DEF BodyInv, InBody, Live
<1>4. JobInv'
    <2>1. nextJob' = nextJob + 1 /\ nextJob \in Nat /\ sched' = sched
        BY <1>0, StartJobRows DEF JobIds
    <2>2. sched[cur[e]].st # "unborn"
        BY DEF BodyInv, InBody
    <2>3. jobs'[nextJob].state = "active" /\ jobs'[nextJob].kept /\ jobs'[nextJob].owner = cur[e]
        BY <1>0, StartJobRows
    <2>4. \A j \in JobIds \ {nextJob} :
             /\ jobs'[j].state = jobs[j].state
             /\ jobs'[j].owner = jobs[j].owner
             /\ jobs[j].state \in {"active", "queued"} => jobs'[j].kept = jobs[j].kept
        BY <1>0, StartJobRows
    <2>5. \A j \in JobIds \ {nextJob} : jobs'[j].state \in {"active", "queued"} => jobs'[j].kept
        BY <2>4 DEF JobInv
    <2>6. \A j \in JobIds : j >= nextJob' => jobs'[j].state = "none"
        BY <2>1, <2>4 DEF JobInv, JobIds
    <2>7. \A j \in JobIds : jobs'[j].owner \in Schedules => sched[jobs'[j].owner].st # "unborn"
        BY <2>2, <2>3, <2>4 DEF JobInv
    <2>8. \A j \in JobIds : jobs'[j].state \in {"active", "queued"} => jobs'[j].kept
        BY ONLY <2>3, <2>5, Zenon
    <2> QED
        BY <2>1, <2>6, <2>7, <2>8 DEF JobInv
<1>5. RunInv'
    BY <1>0, StartJobRows DEF TypeOK, Run, RunInv, JobIds
<1>6. OpenRunInv'
    BY DEF OpenRunInv, Live
<1>7. NoUntrackedJob'
    <2>1. pc'[e] = "record" /\ held'[e] = nextJob /\ cur' = cur
        BY DEF TypeOK
    <2>2. \A d \in Executors : pc[d] # "record"
        BY DEF LockInv
    <2>3. Live(cur[e]) => sched[cur[e]].running = Starting
        BY DEF BodyInv, InBody
    <2> QED
        BY <1>0, <2>1, <2>2, <2>3, StartJobRows DEF NoUntrackedJob, Live
<1>8. UntoldInv'
    <2>1. nextJob' = nextJob + 1 /\ \A j \in JobIds : j < nextJob => jobs'[j].owner = jobs[j].owner
        BY <1>0, StartJobRows DEF JobIds
    <2> QED
        BY <1>0, <2>1, UntoldStep DEF TypeOK, InBody, Live, JobIds
<1> QED
    BY <1>1, <1>2, <1>3, <1>4, <1>5, <1>6, <1>7, <1>8

\* Recording the run.
LEMMA RecordRunInv ==
    ASSUME IInv, NEW e \in Executors, RecordRun(e)
    PROVE  IInv'
<1> USE Constants DEF IInv, RecordRun, NextBody, Goto, Insert, Row, dbVars, jobVars, execVars, envVars
<1>1. TypeOK'
    <2>1. cur[e] \in Schedules /\ nextRun \in RunIds /\ held[e] \in JobIds
        BY BoundsAssumption DEF TypeOK, BodyInv, InBody, RunIds
    <2>2. Row("running", cur[e], held[e]) \in Run
        BY <2>1 DEF Run
    <2>3. runs' \in [RunIds -> Run] /\ nextRun' \in 1..(MaxRuns + 1)
        BY <2>1, <2>2, BoundsAssumption DEF TypeOK, RunIds
    <2>4. sched[cur[e]] \in Schedule /\ held[e] \in JobIds \cup {NoJob, Starting}
        BY <2>1 DEF TypeOK
    <2>5. [sched[cur[e]] EXCEPT !.running = held[e]] \in Schedule
        BY <2>4 DEF Schedule
    <2>6. sched' \in [Schedules -> Schedule]
        BY <2>1, <2>5 DEF TypeOK
    <2> QED
        BY <2>3, <2>6, NextBodyType DEF TypeOK
<1>2. LockInv'
    BY DEF TypeOK, LockInv
<1>3. BodyInv'
    BY DEF TypeOK, LockInv, BodyInv, InBody, Live, JobInv
<1>4. JobInv'
    BY DEF TypeOK, JobInv
<1>5. RunInv'
    BY DEF TypeOK, BodyInv, InBody, RunInv
<1>6. OpenRunInv'
    <2> DEFINE c == cur[e]
               h == held[e]
    <2>1. c \in Schedules /\ nextRun \in RunIds /\ h \in JobIds
        BY BoundsAssumption DEF TypeOK, BodyInv, InBody, RunIds
    <2>2. /\ \A q \in RunIds \ {nextRun} : runs'[q] = runs[q]
          /\ runs'[nextRun] = Row("running", c, h) /\ runs[nextRun].status = "none"
        BY <2>1 DEF TypeOK, RunInv
    <2>3. \A t \in Schedules : /\ sched'[t].st = sched[t].st
                               /\ t # c => sched'[t] = sched[t]
        BY <2>1 DEF TypeOK, Schedule
    <2>4. Live(c) => /\ sched'[c].running = h
                     /\ \A q \in RunIds : ~(runs[q].status = "running" /\ runs[q].sid = c)
        BY <2>1 DEF TypeOK, Schedule, Run, BodyInv, InBody, RunInv, OpenRunInv
    <2> HIDE DEF c, h
    <2>5. runs'[nextRun].status = "running" /\ runs'[nextRun].sid = c /\ runs'[nextRun].job = h
        BY <2>2
    <2> QED
        BY <2>1, <2>2, <2>3, <2>4, <2>5 DEF OpenRunInv, Live
<1>7. NoUntrackedJob'
    <2> DEFINE c == cur[e]
               h == held[e]
    <2>1. /\ c \in Schedules /\ InBody(e) /\ h \in JobIds /\ jobs[h].owner = c
          /\ Live(c) => sched[c].running = Starting
        BY DEF BodyInv, InBody
    <2>2. \A d \in Executors : pc[d] = "record" => d = e
        BY <2>1 DEF LockInv, InBody
    <2>3. Live(c) => \A j \in JobIds : jobs[j].state = "active" /\ jobs[j].owner = c => j = h
        BY <2>1, <2>2, Constants DEF NoUntrackedJob, UntoldInv
    <2>4. \A t \in Schedules : /\ sched'[t].st = sched[t].st
                               /\ t # c => sched'[t] = sched[t]
        BY <2>1 DEF TypeOK, Schedule
    <2>5. Live(c) => sched'[c].running = h
        BY <2>1 DEF TypeOK, Schedule
    <2>6. jobs' = jobs /\ untold' = untold
        OBVIOUS
    <2>7. \A d \in Executors : pc[d] = "record" => cur[d] = c
        BY <2>2
    <2> HIDE DEF c, h
    <2> QED
        BY ONLY IInv, <2>3, <2>4, <2>5, <2>6, <2>7 DEF IInv, NoUntrackedJob, Live
<1>8. UntoldInv'
    BY UntoldStep DEF TypeOK, Schedule, LockInv, InBody, Live
<1> QED
    BY <1>1, <1>2, <1>3, <1>4, <1>5, <1>6, <1>7, <1>8

\* A new schedule.
LEMMA CreateScheduleInv ==
    ASSUME IInv, NEW s \in Schedules, CreateSchedule(s)
    PROVE  IInv'
<1> USE Constants DEF IInv, CreateSchedule, WebIdle, dbVars, jobVars, execVars, envVars
<1>1. TypeOK'
    BY BoundsAssumption DEF TypeOK, Schedule, Run, Job, RunIds, JobIds, Schedules, Executors, Nobody, NoJob, Starting
<1>2. LockInv'
    BY DEF TypeOK, LockInv
<1>3. BodyInv'
    BY DEF TypeOK, LockInv, BodyInv, InBody, Live, JobInv
<1>4. JobInv'
    BY DEF TypeOK, JobInv
<1>5. RunInv'
    BY DEF TypeOK, Run, RunInv
<1>6. OpenRunInv'
    <2>1. ASSUME NEW r \in RunIds, runs[r].status = "running", runs[r].sid = s
          PROVE  FALSE
        <3>1. runs[r].job \in JobIds /\ jobs[runs[r].job].owner = s
            BY <2>1 DEF TypeOK, Run, RunInv
        <3> QED
            BY <3>1 DEF JobInv
    <2>2. \A t \in Schedules : t # s => sched'[t] = sched[t]
        BY DEF TypeOK
    <2>3. sched'[s].running = NoJob
        BY DEF TypeOK
    <2> QED
        BY <2>1, <2>2, <2>3 DEF OpenRunInv, Live
<1>7. NoUntrackedJob'
    BY DEF TypeOK, JobInv, NoUntrackedJob, Live
<1>8. UntoldInv'
    BY UntoldStep DEF TypeOK, InBody, Live
<1> QED
    BY <1>1, <1>2, <1>3, <1>4, <1>5, <1>6, <1>7, <1>8

\* A changed interval.
LEMMA UpdateScheduleInv ==
    ASSUME IInv, NEW s \in Schedules, UpdateSchedule(s)
    PROVE  IInv'
<1>1. PICK l \in {"recent", "elapsed"} : sched' = [sched EXCEPT ![s].last = l]
    BY DEF UpdateSchedule
<1>2. [sched[s] EXCEPT !.last = l] \in Schedule
    BY DEF IInv, TypeOK, Schedule
<1>3. /\ sched' \in [Schedules -> Schedule]
      /\ \A t \in Schedules : sched'[t].st = sched[t].st /\ sched'[t].running = sched[t].running
    BY <1>1, <1>2 DEF IInv, TypeOK, Schedule
<1> QED
    BY <1>3, RowStep DEF UpdateSchedule

\* Enabling and disabling.
LEMMA ToggleInv ==
    ASSUME IInv, NEW s \in Schedules, Toggle(s)
    PROVE  IInv'
<1>1. [sched[s] EXCEPT !.enabled = ~@] \in Schedule
    BY DEF IInv, TypeOK, Schedule
<1>2. /\ sched' \in [Schedules -> Schedule]
      /\ \A t \in Schedules : sched'[t].st = sched[t].st /\ sched'[t].running = sched[t].running
    BY <1>1 DEF IInv, TypeOK, Schedule, Toggle
<1> QED
    BY <1>2, RowStep DEF Toggle

\* A deleted schedule.
LEMMA DeleteScheduleInv ==
    ASSUME IInv, NEW s \in Schedules, DeleteSchedule(s)
    PROVE  IInv'
<1> USE Constants DEF IInv, DeleteSchedule, WebIdle, NoRow, dbVars, jobVars, execVars, envVars
<1>1. TypeOK'
    BY BoundsAssumption DEF TypeOK, Schedule, Run, Job, RunIds, JobIds, Schedules, Executors, Nobody, NoJob, Starting
<1>2. LockInv'
    BY DEF TypeOK, LockInv
<1>3. BodyInv'
    BY DEF TypeOK, LockInv, BodyInv, InBody, Live, JobInv
<1>4. JobInv'
    BY DEF TypeOK, JobInv
<1>5. RunInv'
    BY DEF TypeOK, Run, RunInv
<1>6. OpenRunInv'
    BY DEF TypeOK, OpenRunInv, Live
<1>7. NoUntrackedJob'
    BY DEF TypeOK, LockInv, BodyInv, InBody, NoUntrackedJob, Live
<1>8. UntoldInv'
    BY UntoldStep DEF TypeOK, InBody, Live
<1> QED
    BY <1>1, <1>2, <1>3, <1>4, <1>5, <1>6, <1>7, <1>8

\* A job without a schedule.
LEMMA AdHocBackupInv ==
    ASSUME IInv, AdHocBackup
    PROVE  IInv'
<1> USE Constants DEF IInv, AdHocBackup, StartJob, dbVars, jobVars, execVars, envVars
<1>0. nextJob \in JobIds /\ StartJob(0, "active")
    BY BoundsAssumption DEF TypeOK, JobIds
<1>1. TypeOK'
    BY <1>0, StartJobRows DEF TypeOK
<1>2. LockInv'
    BY DEF TypeOK, LockInv
<1>3. BodyInv'
    <2>1. \A d \in Executors : pc[d] = "record" =>
             held[d] # nextJob /\ jobs'[held[d]].owner = jobs[held[d]].owner
        BY <1>0, StartJobRows DEF BodyInv, JobIds
    <2>2. nextJob < MaxJobs /\ nextJob' = nextJob + 1 /\ nextJob \in Nat
        BY <1>0, StartJobRows DEF JobIds
    <2> QED
        BY <2>1, <2>2, BoundsAssumption DEF BodyInv, InBody, Live, JobIds
<1>4. JobInv'
    <2>1. nextJob' = nextJob + 1 /\ nextJob \in Nat /\ sched' = sched
        BY <1>0, StartJobRows DEF JobIds
    <2>3. jobs'[nextJob].state = "active" /\ jobs'[nextJob].kept /\ jobs'[nextJob].owner = 0
        BY <1>0, StartJobRows
    <2>4. \A j \in JobIds \ {nextJob} :
             /\ jobs'[j].state = jobs[j].state
             /\ jobs'[j].owner = jobs[j].owner
             /\ jobs[j].state \in {"active", "queued"} => jobs'[j].kept = jobs[j].kept
        BY <1>0, StartJobRows
    <2>5. \A j \in JobIds \ {nextJob} : jobs'[j].state \in {"active", "queued"} => jobs'[j].kept
        BY <2>4 DEF JobInv
    <2>6. \A j \in JobIds : j >= nextJob' => jobs'[j].state = "none"
        BY <2>1, <2>4 DEF JobInv, JobIds
    <2>7. \A j \in JobIds : jobs'[j].owner \in Schedules => sched[jobs'[j].owner].st # "unborn"
        BY <2>3, <2>4 DEF JobInv
    <2>8. \A j \in JobIds : jobs'[j].state \in {"active", "queued"} => jobs'[j].kept
        BY ONLY <2>3, <2>5, Zenon
    <2> QED
        BY <2>1, <2>6, <2>7, <2>8 DEF JobInv
<1>5. RunInv'
    BY <1>0, StartJobRows DEF TypeOK, Run, RunInv, JobIds
<1>6. OpenRunInv'
    BY DEF OpenRunInv, Live
<1>7. NoUntrackedJob'
    <2>1. \A j \in JobIds : jobs'[j].state = "active" /\ jobs'[j].owner \in Schedules =>
             jobs[j].state = "active" /\ jobs'[j].owner = jobs[j].owner
        BY <1>0, StartJobRows
    <2> QED
        BY <2>1 DEF NoUntrackedJob, Live
<1>8. UntoldInv'
    <2>1. nextJob' = nextJob + 1 /\ \A j \in JobIds : j < nextJob => jobs'[j].owner = jobs[j].owner
        BY <1>0, StartJobRows DEF JobIds
    <2> QED
        BY <1>0, <2>1, UntoldStep DEF TypeOK, InBody, Live, JobIds
<1> QED
    BY <1>1, <1>2, <1>3, <1>4, <1>5, <1>6, <1>7, <1>8

\* The end of a job.
LEMMA JobEndsInv ==
    ASSUME IInv, NEW j \in JobIds, JobEnds(j)
    PROVE  IInv'
<1> USE Constants DEF IInv, JobEnds, dbVars, jobVars, execVars, envVars
<1>1. TypeOK'
    <2>1. PICK st \in {"done", "failed"} : jobs' = [jobs EXCEPT ![j].state = st]
        OBVIOUS
    <2>2. [jobs[j] EXCEPT !.state = st] \in Job
        BY DEF TypeOK, Job
    <2> QED
        BY <2>1, <2>2 DEF TypeOK
<1>2. LockInv'
    BY DEF TypeOK, LockInv
<1>3. BodyInv'
    BY DEF TypeOK, LockInv, BodyInv, InBody, Live, JobInv
<1>4. JobInv'
    BY DEF TypeOK, JobInv
<1>5. RunInv'
    BY DEF TypeOK, Run, RunInv
<1>6. OpenRunInv'
    BY DEF TypeOK, OpenRunInv, Live
<1>7. NoUntrackedJob'
    BY DEF TypeOK, LockInv, BodyInv, InBody, NoUntrackedJob, Live
<1>8. UntoldInv'
    <2>1. \A i \in JobIds : jobs'[i].owner = jobs[i].owner
        BY DEF TypeOK, Job
    <2> QED
        BY <2>1, UntoldStep DEF TypeOK, InBody, Live
<1> QED
    BY <1>1, <1>2, <1>3, <1>4, <1>5, <1>6, <1>7, <1>8

\* The passing of time.
LEMMA IntervalOverInv ==
    ASSUME IInv, NEW s \in Schedules, IntervalOver(s)
    PROVE  IInv'
<1>1. [sched[s] EXCEPT !.last = "elapsed"] \in Schedule
    BY DEF IInv, TypeOK, Schedule
<1>2. /\ sched' \in [Schedules -> Schedule]
      /\ \A t \in Schedules : sched'[t].st = sched[t].st /\ sched'[t].running = sched[t].running
    BY <1>1 DEF IInv, TypeOK, Schedule, IntervalOver
<1> QED
    BY <1>2, RowStep DEF IntervalOver

\* A restart of the portal.
LEMMA CrashInv ==
    ASSUME IInv, Crash
    PROVE  IInv'
<1> USE Constants DEF IInv, Crash, dbVars, jobVars, execVars, envVars
<1>0. \A j \in JobIds : /\ jobs'[j] \in Job /\ jobs'[j].owner = jobs[j].owner
                        /\ jobs'[j].state \notin {"active", "queued"}
                        /\ jobs[j].state = "none" => jobs'[j].state = "none"
    <2> SUFFICES ASSUME NEW j \in JobIds
                 PROVE  /\ jobs'[j] \in Job /\ jobs'[j].owner = jobs[j].owner
                        /\ jobs'[j].state \notin {"active", "queued"}
                        /\ jobs[j].state = "none" => jobs'[j].state = "none"
        OBVIOUS
    <2> DEFINE st == IF jobs[j].state \in {"active", "queued"} THEN "killed" ELSE jobs[j].state
               rec == [state |-> st, owner |-> jobs[j].owner, kept |-> FALSE]
    <2>1. jobs[j] \in Job
        BY DEF TypeOK
    <2>2. jobs'[j] = [jobs[j] EXCEPT !.kept = FALSE, !.state = st]
        BY <2>1 DEF Job
    <2>3. /\ st \in {"none", "done", "failed", "killed"}
          /\ jobs[j].state = "none" => st = "none"
        BY <2>1 DEF Job
    <2> HIDE DEF st
    <2>4. jobs'[j] = rec
        BY <2>1, <2>2 DEF Job
    <2>5. rec \in Job
        BY <2>1, <2>3 DEF Job
    <2> QED
        BY <2>3, <2>4, <2>5
<1>1. TypeOK'
    <2>2. jobs' \in [JobIds -> Job]
        BY <1>0
    <2>3. UNCHANGED <<sched, runs, nextRun, nextJob, faults>>
        OBVIOUS
    <2>4. /\ lock' \in Executors \cup {Nobody}
          /\ pc' \in [Executors -> {"idle", "poll", "body", "creds", "start", "record"}]
          /\ rows' \in [Executors -> SUBSET RunIds]
          /\ todo' \in [Executors -> SUBSET Schedules]
          /\ cur' \in [Executors -> Schedules \cup {0}]
          /\ held' \in [Executors -> JobIds \cup {NoJob}]
        OBVIOUS
    <2>5. crashes' \in 0..MaxCrashes
        <3>1. crashes \in 0..MaxCrashes /\ crashes < MaxCrashes /\ crashes' = crashes + 1
            BY DEF TypeOK
        <3> QED
            BY ONLY <3>1, BoundsAssumption
    <2>6. untold' \subseteq JobIds
        OBVIOUS
    <2>7. cut' \subseteq Schedules
        <3>1. cut \subseteq Schedules /\ \A d \in Executors : InBody(d) => cur[d] \in Schedules
            BY DEF TypeOK, BodyInv
        <3>2. cut' = cut \cup {cur[d] : d \in {x \in Executors : InBody(x)}}
            OBVIOUS
        <3> QED
            BY ONLY <3>1, <3>2, Zenon
    <2> QED
        BY <2>2, <2>3, <2>4, <2>5, <2>6, <2>7 DEF TypeOK
<1>2. LockInv'
    BY DEF TypeOK, LockInv
<1>3. BodyInv'
    BY DEF TypeOK, LockInv, BodyInv, InBody, Live, JobInv
<1>4. JobInv'
    <2>1. \A j \in JobIds : /\ jobs'[j].state \notin {"active", "queued"}
                            /\ jobs'[j].owner = jobs[j].owner
                            /\ jobs[j].state = "none" => jobs'[j].state = "none"
        BY <1>0
    <2> QED
        BY <2>1 DEF JobInv
<1>5. RunInv'
    <2>1. \A j \in JobIds : jobs'[j].owner = jobs[j].owner
        BY <1>0
    <2>2. runs' = runs /\ nextRun' = nextRun /\ nextJob' = nextJob
        OBVIOUS
    <2>3. \A r \in RunIds : runs[r].job \in JobIds \cup {NoJob}
        BY DEF TypeOK, Run
    <2> QED
        BY ONLY IInv, <2>1, <2>2, <2>3 DEF IInv, RunInv
<1>6. OpenRunInv'
    BY DEF OpenRunInv, Live
<1>7. NoUntrackedJob'
    <2>1. \A j \in JobIds : jobs'[j].state # "active"
        BY <1>0
    <2> QED
        BY <2>1 DEF NoUntrackedJob
<1>8. UntoldInv'
    BY DEF UntoldInv
<1> QED
    BY <1>1, <1>2, <1>3, <1>4, <1>5, <1>6, <1>7, <1>8

-----------------------------------------------------------------------------
(* Reconciliation, and the two outcomes of the first transaction.          *)

\* With the lock held and no execution under way, reconciling a schedule keeps
\* the part of the invariant that is about the tables; afterwards the schedule
\* is busy, or it has neither an open run nor a job that runs.
LEMMA Reconciled ==
    ASSUME IInv, NEW s \in Schedules, Live(s), \A d \in Executors : ~InBody(d)
    PROVE  /\ SchedReconciled(s) \in [Schedules -> Schedule]
           /\ RunsReconciled(s) \in [RunIds -> Run]
           /\ \A t \in Schedules : /\ SchedReconciled(s)[t].st = sched[t].st
                                   /\ t # s => SchedReconciled(s)[t] = sched[t]
           /\ \A r \in RunIds :
                 /\ RunsReconciled(s)[r].sid = runs[r].sid
                 /\ RunsReconciled(s)[r].job = runs[r].job
                 /\ \/ RunsReconciled(s)[r].status = runs[r].status
                    \/ /\ runs[r].sid = s /\ runs[r].status = "running"
                       /\ RunsReconciled(s)[r].status \in {"done", "failed"}
           /\ Busy(s) => SchedReconciled(s) = sched /\ RunsReconciled(s) = runs
           /\ ~Busy(s) =>
                 /\ SchedReconciled(s)[s].running = NoJob
                 /\ \A r \in RunIds : ~(/\ RunsReconciled(s)[r].status = "running"
                                        /\ RunsReconciled(s)[r].sid = s)
                 /\ \A j \in JobIds : ~(jobs[j].state = "active" /\ jobs[j].owner = s)
<1> USE Constants DEF IInv
<1> DEFINE j == sched[s].running
<1>1. /\ sched \in [Schedules -> Schedule] /\ runs \in [RunIds -> Run]
      /\ j \in JobIds \cup {NoJob, Starting}
    BY DEF TypeOK, Schedule
<1>2. CASE Busy(s)
    BY <1>1, <1>2 DEF RunsReconciled, SchedReconciled
<1>3. CASE ~Busy(s) /\ j = NoJob
    <2>1. SchedReconciled(s) = sched /\ RunsReconciled(s) = runs
        BY <1>3 DEF RunsReconciled, SchedReconciled
    <2>2. \A r \in RunIds : ~(runs[r].status = "running" /\ runs[r].sid = s)
        BY <1>1, <1>3 DEF OpenRunInv, RunInv, Run
    <2>3. \A i \in JobIds : ~(jobs[i].state = "active" /\ jobs[i].owner = s)
        BY <1>3 DEF NoUntrackedJob
    <2> QED
        BY <1>1, <1>3, <2>1, <2>2, <2>3
<1>4. CASE ~Busy(s) /\ j # NoJob
    <2>1. j \in JobIds /\ Seen(j) # "active"
        BY <1>1, <1>4 DEF Busy
    <2>2. PICK q \in RunIds : runs[q].status = "running" /\ runs[q].sid = s /\ runs[q].job = j
        BY <2>1 DEF OpenRunInv
    <2>3. \A r \in RunIds : runs[r].status = "running" /\ runs[r].sid = s => r = q
        BY <2>1, <2>2 DEF OpenRunInv, RunInv
    <2>4. \A r \in RunIds : LatestOpen(r, s, j) <=> r = q
        BY <2>2, <2>3 DEF LatestOpen, RunIds
    <2>5. /\ SchedReconciled(s) = Closed(s, j)
          /\ RunsReconciled(s) = [r \in RunIds |-> IF LatestOpen(r, s, j)
                                                   THEN [runs[r] EXCEPT !.status = Verdict(j)]
                                                   ELSE runs[r]]
        BY <1>4, <2>4 DEF RunsReconciled, SchedReconciled
    <2>6. Verdict(j) \in {"done", "failed"}
        BY DEF Verdict
    <2> HIDE DEF j
    <2>7. /\ RunsReconciled(s) \in [RunIds -> Run]
          /\ RunsReconciled(s)[q].status \in {"done", "failed"}
          /\ RunsReconciled(s)[q].sid = runs[q].sid
          /\ RunsReconciled(s)[q].job = runs[q].job
          /\ \A r \in RunIds : r # q => RunsReconciled(s)[r] = runs[r]
        <3>1. [runs[q] EXCEPT !.status = Verdict(j)] \in Run
            BY <1>1, <2>6 DEF Run
        <3>2. RunsReconciled(s) = [runs EXCEPT ![q] = [runs[q] EXCEPT !.status = Verdict(j)]]
            BY <1>1, <2>4, <2>5
        <3>3. /\ [runs[q] EXCEPT !.status = Verdict(j)].status = Verdict(j)
              /\ [runs[q] EXCEPT !.status = Verdict(j)].sid = runs[q].sid
              /\ [runs[q] EXCEPT !.status = Verdict(j)].job = runs[q].job
            BY <1>1 DEF Run
        <3> QED
            BY <1>1, <2>6, <3>1, <3>2, <3>3
    <2>8. \A r \in RunIds : ~(/\ RunsReconciled(s)[r].status = "running"
                              /\ RunsReconciled(s)[r].sid = s)
        BY <2>3, <2>7
    <2>9. \A i \in JobIds : ~(jobs[i].state = "active" /\ jobs[i].owner = s)
        <3>1. jobs[j].state # "active"
            BY <2>1 DEF JobInv, Seen
        <3> QED
            BY <2>1, <3>1 DEF NoUntrackedJob, j
    <2>10. /\ SchedReconciled(s) \in [Schedules -> Schedule]
           /\ \A t \in Schedules : /\ SchedReconciled(s)[t].st = sched[t].st
                                   /\ t # s => SchedReconciled(s)[t] = sched[t]
           /\ SchedReconciled(s)[s].running = NoJob
        BY <2>5, ClosedRows
    <2> QED
        BY <1>4, <2>2, <2>7, <2>8, <2>9, <2>10
<1> QED
    BY <1>2, <1>3, <1>4

\* So an occupied schedule is a busy one: the second test of the code, for
\* an open run, never finds what the first did not.
LEMMA OccupiedIsBusy ==
    ASSUME IInv, NEW s \in Schedules, Live(s), \A d \in Executors : ~InBody(d)
    PROVE  Occupied(s) <=> Busy(s)
BY Reconciled DEF Occupied

\* Recording a skipped run.
LEMMA SkipInv ==
    ASSUME IInv, NEW e \in Executors, NEW s \in Schedules, Skip(e, s)
    PROVE  IInv'
<1> USE Constants DEF IInv, Skip, Target, Budget, Insert, dbVars, jobVars, execVars, envVars
<1>1. \A d \in Executors : ~InBody(d)
    BY DEF LockInv, InBody
<1>2. SchedReconciled(s) = sched /\ RunsReconciled(s) = runs
    BY <1>1, OccupiedIsBusy, Reconciled
<1>3. /\ nextRun \in RunIds /\ nextRun' = nextRun + 1 /\ sched' = sched
      /\ runs' = [runs EXCEPT ![nextRun] = Row("skipped", s, NoJob)]
    BY <1>2, BoundsAssumption DEF TypeOK, RunIds
<1>4. TypeOK'
    <2>1. Row("skipped", s, NoJob) \in Run
        BY DEF Run, Row
    <2>2. runs' \in [RunIds -> Run]
        <3>1. runs \in [RunIds -> Run]
            BY DEF TypeOK
        <3> QED
            BY ONLY <1>3, <2>1, <3>1
    <2>3. nextRun' \in 1..(MaxRuns + 1)
        BY <1>3, BoundsAssumption DEF RunIds
    <2>4. todo' \in [Executors -> SUBSET Schedules]
        BY DEF TypeOK
    <2> QED
        BY <1>3, <2>2, <2>3, <2>4 DEF TypeOK
<1>5. /\ \A r \in RunIds \ {nextRun} : runs'[r] = runs[r]
      /\ runs'[nextRun].status = "skipped" /\ runs'[nextRun].job = NoJob
      /\ runs[nextRun].status = "none"
    BY <1>3 DEF TypeOK, RunInv, Row
<1>6. LockInv' /\ BodyInv' /\ JobInv' /\ NoUntrackedJob' /\ UntoldInv'
    <2>1. LockInv' /\ BodyInv'
        BY <1>1, <1>3 DEF LockInv, BodyInv, InBody
    <2>2. UNCHANGED <<sched, jobs, nextJob, untold, pc, cur, held>>
        BY <1>3
    <2>3. JobInv'
        <3>1. JobInv
            OBVIOUS
        <3> QED
            BY ONLY <3>1, <2>2 DEF JobInv
    <2>4. NoUntrackedJob'
        <3>1. NoUntrackedJob
            OBVIOUS
        <3> QED
            BY ONLY <3>1, <2>2 DEF NoUntrackedJob, Live
    <2>5. UntoldInv'
        <3>1. UntoldInv
            OBVIOUS
        <3> QED
            BY <2>2, <1>3, UntoldStep DEF TypeOK, InBody, Live
    <2> QED
        BY <2>1, <2>3, <2>4, <2>5
<1>7. RunInv'
    BY <1>3, <1>5 DEF RunInv, TypeOK, Run, RunIds
<1>8. OpenRunInv'
    <2>1. OpenRunInv /\ sched' = sched
        BY <1>3
    <2>2. \A r \in RunIds :
             (runs'[r].status = "running" \/ runs[r].status = "running") => runs'[r] = runs[r]
        BY ONLY <1>5
    <2> QED
        BY ONLY <2>1, <2>2 DEF OpenRunInv, Live
<1> QED
    BY <1>4, <1>6, <1>7, <1>8

\* Claiming a schedule.
LEMMA ClaimInv ==
    ASSUME IInv, NEW e \in Executors, NEW s \in Schedules, Claim(e, s)
    PROVE  IInv'
<1> USE Constants DEF IInv, Claim, Target, Budget, Goto, dbVars, jobVars, execVars, envVars
<1>1. \A d \in Executors : ~InBody(d)
    BY DEF LockInv, InBody
<1>2. ~Busy(s)
    BY <1>1, OccupiedIsBusy
<1> DEFINE S == SchedReconciled(s)
           R == RunsReconciled(s)
<1>3. /\ S \in [Schedules -> Schedule] /\ R \in [RunIds -> Run]
      /\ \A t \in Schedules : S[t].st = sched[t].st /\ (t # s => S[t] = sched[t])
      /\ \A r \in RunIds : ~(R[r].status = "running" /\ R[r].sid = s)
      /\ \A j \in JobIds : ~(jobs[j].state = "active" /\ jobs[j].owner = s)
    BY <1>1, <1>2, Reconciled
<1>4. \A r \in RunIds : /\ R[r].sid = runs[r].sid /\ R[r].job = runs[r].job
                        /\ \/ R[r].status = runs[r].status
                           \/ /\ runs[r].sid = s /\ runs[r].status = "running"
                              /\ R[r].status \in {"done", "failed"}
    BY <1>1, Reconciled
<1>5. sched' = [S EXCEPT ![s].running = Starting] /\ runs' = R
    OBVIOUS
<1> HIDE DEF S, R
<1>6. [S[s] EXCEPT !.running = Starting] \in Schedule
    BY <1>3 DEF Schedule
<1>7. /\ sched' \in [Schedules -> Schedule]
      /\ \A t \in Schedules : sched'[t].st = sched[t].st /\ (t # s => sched'[t] = sched[t])
      /\ sched'[s].running = Starting
    <2> DEFINE row == [S[s] EXCEPT !.running = Starting]
    <2>1. sched' = [S EXCEPT ![s] = row]
        BY <1>5
    <2>2. row.st = S[s].st /\ row.running = Starting
        BY <1>3 DEF Schedule
    <2>3. row \in Schedule
        BY <1>6
    <2> HIDE DEF row
    <2> QED
        BY <1>3, <2>1, <2>2, <2>3
<1>8. TypeOK'
    BY <1>3, <1>5, <1>7 DEF TypeOK
<1>9. LockInv'
    BY DEF LockInv, TypeOK
<1>10. BodyInv'
    <2>1. \A d \in Executors : InBody(d)' => d = e
        BY <1>1 DEF InBody, TypeOK
    <2>2. pc'[e] = "creds" /\ cur'[e] = s
        BY DEF TypeOK
    <2> QED
        BY <1>7, <2>1, <2>2 DEF BodyInv, InBody, Live
<1>11. JobInv'
    BY <1>7 DEF JobInv
<1>12. RunInv'
    BY <1>3, <1>4, <1>5 DEF RunInv
<1>13. OpenRunInv'
    BY <1>3, <1>4, <1>5, <1>7 DEF OpenRunInv, Live
<1>14. NoUntrackedJob'
    BY <1>1, <1>3, <1>7 DEF NoUntrackedJob, InBody, Live
<1>15. UntoldInv'
    <2>1. sched[s].running # Starting
        BY <1>2 DEF Busy
    <2>2. \A d \in Executors : InBody(d)' => cur'[d] = s
        BY <1>1 DEF InBody, TypeOK
    <2> QED
        BY <1>7, <2>1, <2>2, UntoldStep DEF TypeOK, Live
<1> QED
    BY <1>8, <1>9, <1>10, <1>11, <1>12, <1>13, <1>14, <1>15

-----------------------------------------------------------------------------
(* The invariant, and what follows from it.                                *)

LEMMA NextInv == IInv /\ [Next]_vars => IInv'
<1> SUFFICES ASSUME IInv, [Next]_vars PROVE IInv'
    OBVIOUS
<1>1. CASE BeginTick
    <2>1. "watcher" \in Executors /\ {} \in SUBSET Schedules
        BY DEF Executors
    <2> QED
        BY <1>1, <2>1, AcquireInv DEF BeginTick
<1>2. CASE \E e \in Executors : Step(e) \/ Raises(e) \/ ThreadRaises(e)
    BY <1>2, PollRowInv, PollDoneInv, ScheduleGoneInv, SkipInv, ClaimInv, ResolveCredsInv,
       CredsFailInv, NoDevicesInv, LaunchInv, RecordRunInv, UnlockInv, RaisesInv,
       ThreadRaisesInv
    DEF Step
<1>3. CASE \E s \in Schedules : BeginManual(s)
    <2>1. PICK s \in Schedules : Acquire("web", {s})
        BY <1>3 DEF BeginManual
    <2>2. "web" \in Executors /\ {s} \in SUBSET Schedules
        BY DEF Executors
    <2> QED
        BY <2>1, <2>2, AcquireInv
<1>4. CASE Web /\ ~(\E s \in Schedules : BeginManual(s))
    BY <1>4, CreateScheduleInv, UpdateScheduleInv, ToggleInv, DeleteScheduleInv,
       AdHocBackupInv
    DEF Web
<1>5. CASE \E j \in JobIds : JobEnds(j)
    BY <1>5, JobEndsInv
<1>6. CASE \E s \in Schedules : IntervalOver(s)
    BY <1>6, IntervalOverInv
<1>7. CASE Crash
    BY <1>7, CrashInv
<1>8. CASE UNCHANGED vars
    BY <1>8 DEF vars, dbVars, jobVars, execVars, envVars, IInv, TypeOK, LockInv, BodyInv,
                InBody, JobInv, RunInv, OpenRunInv, NoUntrackedJob, UntoldInv, Live
<1> QED
    BY <1>1, <1>2, <1>3, <1>4, <1>5, <1>6, <1>7, <1>8 DEF Next, Web

\* The inductive invariant holds in every state the portal can reach, however
\* the watcher, the handlers, the jobs and the restarts interleave.
THEOREM SpecInv == Spec => []IInv
<1>1. Init => IInv
    BY InitInv
<1>2. IInv /\ [Next]_vars => IInv'
    BY NextInv
<1> QED
    BY <1>1, <1>2, PTL DEF Spec

\* Every variable keeps its type: in particular no row names a schedule or a
\* job outside the tables, and no counter passes its bound.
THEOREM TypeCorrect == Spec => []TypeOK
<1>1. IInv => TypeOK
    BY DEF IInv
<1> QED
    BY <1>1, SpecInv, PTL

\* Every active job of an existing schedule is the one of running_job_id or the
\* one its executor is about to write there; if an exception lost it just then,
\* its schedule stays claimed (schedule_executor.py:399-422).
THEOREM NoUntracked == Spec => []NoUntrackedJob
<1>1. IInv => NoUntrackedJob
    BY DEF IInv
<1> QED
    BY <1>1, SpecInv, PTL

\* The two tables agree on what runs, after every committed transaction.
THEOREM TablesAgreeAlways == Spec => []TablesAgree
<1>1. IInv => TablesAgree
    <2> SUFFICES ASSUME IInv, NEW s \in Schedules, Live(s)
                 PROVE  /\ \A r \in RunIds :
                             runs[r].status = "running" /\ runs[r].sid = s
                                 => runs[r].job = sched[s].running
                        /\ sched[s].running \in JobIds =>
                             \E r \in RunIds : LatestOpen(r, s, sched[s].running)
        BY DEF TablesAgree
    <2> USE DEF IInv
    <2>1. \A r \in RunIds : runs[r].status = "running" /\ runs[r].sid = s
                               => runs[r].job = sched[s].running
        BY DEF OpenRunInv
    <2>2. ASSUME sched[s].running \in JobIds
          PROVE  \E r \in RunIds : LatestOpen(r, s, sched[s].running)
        <3>1. PICK r \in RunIds : /\ runs[r].status = "running" /\ runs[r].sid = s
                                  /\ runs[r].job = sched[s].running
            BY <2>2 DEF OpenRunInv
        <3>2. \A q \in RunIds : runs[q].job = sched[s].running => q = r
            BY <2>2, <3>1, Constants DEF RunInv
        <3>3. LatestOpen(r, s, sched[s].running)
            BY <3>1, <3>2, Constants DEF LatestOpen, RunIds
        <3> QED
            BY <3>3
    <2> QED
        BY <2>1, <2>2
<1> QED
    BY <1>1, SpecInv, PTL

\* No two backups of a schedule run at the same time.
THEOREM OneJobPerSchedule == Spec => []OneActiveJobPerSchedule
<1>1. IInv => OneActiveJobPerSchedule
    <2> SUFFICES ASSUME IInv, NEW i \in JobIds, NEW j \in JobIds,
                        jobs[i].state = "active", jobs[j].state = "active",
                        jobs[i].owner = jobs[j].owner,
                        jobs[i].owner \in Schedules, Live(jobs[i].owner)
                 PROVE  i = j
        BY DEF OneActiveJobPerSchedule
    <2> DEFINE o == jobs[i].owner
    <2> USE Constants DEF IInv
    <2>1. \A k \in {i, j} :
             \/ sched[o].running = k
             \/ /\ sched[o].running = Starting
                /\ \/ \E e \in Executors : /\ pc[e] = "record" /\ held[e] = k /\ cur[e] = o
                   \/ k \in untold
        BY DEF NoUntrackedJob
    <2>2. CASE \E e \in Executors : pc[e] = "record" /\ cur[e] = o
        <3>1. PICK e \in Executors : pc[e] = "record" /\ cur[e] = o
            BY <2>2
        <3>2. sched[o].running = Starting
            BY <3>1 DEF BodyInv, InBody
        <3>3. \A d \in Executors : pc[d] = "record" => d = e
            BY <3>1 DEF LockInv
        <3>4. \A k \in {i, j} : k \notin untold
            BY <3>1 DEF UntoldInv, InBody
        <3>5. \A k \in {i, j} : held[e] = k
            BY <2>1, <3>2, <3>3, <3>4
        <3> QED
            BY <3>5
    <2>3. CASE ~(\E e \in Executors : pc[e] = "record" /\ cur[e] = o)
        <3>1. CASE sched[o].running \in JobIds
            BY <2>1, <3>1
        <3>2. CASE sched[o].running \notin JobIds
            <4>1. i \in untold /\ j \in untold
                BY <2>1, <2>3, <3>2
            <4> QED
                BY <4>1 DEF UntoldInv
        <3> QED
            BY <3>1, <3>2
    <2> QED
        BY <2>2, <2>3
<1> QED
    BY <1>1, SpecInv, PTL

-----------------------------------------------------------------------------
(* The run history and the claims: what a step may do to a run, that        *)
(* verdicts are those of the jobs, and that a claim is stranded only by a   *)
(* crash or an exception in its own execution.                              *)

\* What a step may do to a run: leave it, insert it, open if it has a job, close it
\* with the outcome of its job once that stopped, or delete it with its schedule.
Left(r)     == runs'[r] = runs[r]
Inserted(r) == r = nextRun /\ (runs'[r].job # NoJob => runs'[r].status = "running")
Judged(r)   == /\ runs[r].status = "running" /\ Seen(runs[r].job) # "active"
               /\ runs'[r] = [runs[r] EXCEPT !.status = Verdict(runs[r].job)]
               /\ UNCHANGED jobs
Deleted(r)  == runs'[r] = NoRow /\ sched'[runs[r].sid].st = "gone"
Fate(r)     == Left(r) \/ Inserted(r) \/ Judged(r) \/ Deleted(r)

\* Reconciling a schedule leaves runs as they are or judges them.
LEMMA ReconciledFate ==
    ASSUME IInv, NEW s \in Schedules, NEW r \in RunIds, UNCHANGED jobs,
           runs'[r] = RunsReconciled(s)[r]
    PROVE  Left(r) \/ Judged(r)
<1> DEFINE j == sched[s].running
<1>1. CASE j = NoJob \/ Busy(s) \/ ~LatestOpen(r, s, j)
    BY <1>1 DEF RunsReconciled, Left
<1>2. CASE j # NoJob /\ ~Busy(s) /\ LatestOpen(r, s, j)
    <2>1. j \in JobIds /\ Seen(j) # "active"
        BY <1>2 DEF Busy, IInv, TypeOK, Schedule
    <2>2. runs[r].job = j /\ runs[r].status = "running"
        BY <1>2 DEF LatestOpen
    <2>3. runs'[r] = [runs[r] EXCEPT !.status = Verdict(j)]
        BY <1>2 DEF RunsReconciled
    <2> QED
        BY <2>1, <2>2, <2>3 DEF Judged
<1> QED
    BY <1>1, <1>2

\* Inserting a run touches no other one.
LEMMA InsertFate ==
    ASSUME NEW table \in [RunIds -> Run], NEW row, Insert(table, row), nextRun \in RunIds,
           row.job # NoJob => row.status = "running", NEW r \in RunIds
    PROVE  Inserted(r) \/ (r # nextRun /\ runs'[r] = table[r])
BY DEF Insert, Inserted

\* Every step does one of these to every run.
LEMMA StepFate ==
    ASSUME IInv, [Next]_vars, NEW r \in RunIds PROVE Fate(r)
<1> USE DEF Fate
<1>1. CASE UNCHANGED runs
    BY <1>1 DEF Left
<1>2. ASSUME NEW e \in Executors, NEW q \in RunIds, PollRow(e, q) PROVE Fate(r)
    <2>1. CASE runs[q].status = "running" /\ Seen(runs[q].job) # "active"
        <3>1. runs' = [runs EXCEPT ![q].status = Verdict(runs[q].job)] /\ UNCHANGED jobs
            BY <1>2, <2>1 DEF PollRow, jobVars
        <3>2. CASE r = q
            BY <2>1, <3>1, <3>2 DEF Judged, IInv, TypeOK
        <3>3. CASE r # q
            BY <3>1, <3>3 DEF Left, IInv, TypeOK
        <3> QED
            BY <3>2, <3>3
    <2>2. CASE ~(runs[q].status = "running" /\ Seen(runs[q].job) # "active")
        BY <1>2, <2>2 DEF PollRow, Left
    <2> QED
        BY <2>1, <2>2
<1>3. ASSUME NEW e \in Executors, NEW s \in Schedules, Skip(e, s) PROVE Fate(r)
    <2>1. nextRun \in RunIds /\ UNCHANGED jobs
        BY <1>3, BoundsAssumption DEF Skip, Target, Budget, jobVars, IInv, TypeOK, RunIds
    <2>2. RunsReconciled(s) \in [RunIds -> Run]
        BY <1>3, Reconciled DEF Skip, Target, IInv, LockInv, InBody
    <2>3. Row("skipped", s, NoJob).job = NoJob
        BY DEF Row
    <2>4. Inserted(r) \/ runs'[r] = RunsReconciled(s)[r]
        BY <1>3, <2>1, <2>2, <2>3, InsertFate DEF Skip
    <2> QED
        BY <2>1, <2>4, ReconciledFate
<1>4. ASSUME NEW e \in Executors, NEW s \in Schedules, Claim(e, s) PROVE Fate(r)
    BY <1>4, ReconciledFate DEF Claim, jobVars
<1>5. ASSUME NEW e \in Executors, CredsFail(e) \/ RecordRun(e) PROVE Fate(r)
    <2>1. nextRun \in RunIds /\ runs \in [RunIds -> Run]
        BY <1>5, BoundsAssumption
        DEF CredsFail, RecordRun, IInv, BodyInv, InBody, TypeOK, RunIds
    <2>2. /\ Row("failed", cur[e], NoJob).job = NoJob
          /\ Row("running", cur[e], held[e]).status = "running"
        BY DEF Row
    <2>3. Inserted(r) \/ runs'[r] = runs[r]
        BY <1>5, <2>1, <2>2, InsertFate DEF CredsFail, RecordRun
    <2> QED
        BY <2>3 DEF Left
<1>6. ASSUME NEW s \in Schedules, DeleteSchedule(s) PROVE Fate(r)
    <2>1. sched'[s].st = "gone"
        BY <1>6 DEF DeleteSchedule, IInv, TypeOK
    <2>2. runs'[r] = IF runs[r].sid = s THEN NoRow ELSE runs[r]
        BY <1>6 DEF DeleteSchedule
    <2> QED
        BY <2>1, <2>2 DEF Left, Deleted
<1> QED
    BY <1>1, <1>2, <1>3, <1>4, <1>5, <1>6
    DEF Next, Step, Web, BeginTick, BeginManual, Acquire, PollDone, ScheduleGone, ResolveCreds,
        Launch, NoDevices, Unlock, Raises, ThreadRaises, CreateSchedule, UpdateSchedule, Toggle,
        AdHocBackup, JobEnds, IntervalOver, Crash, dbVars, vars

\* A closed run stays as it is until its schedule is deleted (schedule_executor.py:274):
\* polls and claims come to it late and more than once.
THEOREM FinalAlways == Spec => HistoryIsFinal
<1>1. ASSUME IInv, [Next]_vars, NEW r \in RunIds, runs[r].status \in {"done", "failed", "skipped"}
      PROVE  runs'[r] = runs[r] \/ sched'[runs[r].sid].st = "gone"
    <2>1. r # nextRun
        BY <1>1 DEF IInv, RunInv, TypeOK, RunIds
    <2>2. Fate(r)
        BY <1>1, StepFate
    <2> QED
        BY <1>1, <2>1, <2>2 DEF Fate, Left, Inserted, Judged, Deleted
<1>2. IInv /\ [Next]_vars =>
         [\A r \in RunIds : runs[r].status \in {"done", "failed", "skipped"} =>
             runs'[r] = runs[r] \/ sched'[runs[r].sid].st = "gone"]_vars
    BY <1>1
<1> QED
    BY <1>2, SpecInv, PTL DEF Spec, HistoryIsFinal
-----------------------------------------------------------------------------
(* Verdicts.                                                               *)

\* A job that was started has a state.
Begun == \A j \in JobIds : j < nextJob => jobs[j].state # "none"
VerdictInv == VerdictsAreTrue /\ Begun

\* What a step may do to a job: one that is over does not change its state, and
\* what was forgotten is not remembered again.
Keeps(j) ==
    /\ jobs[j].state # "none" => jobs'[j].state # "none"
    /\ jobs[j].state \notin {"none", "active", "queued"} =>
          /\ jobs'[j].state = jobs[j].state
          /\ jobs'[j].kept => jobs[j].kept

\* Every step keeps the jobs there were, and starts the next with a state.
LEMMA StepKeeps ==
    ASSUME IInv, [Next]_vars, NEW j \in JobIds
    PROVE  /\ Keeps(j)
           /\ nextJob' = nextJob \/ (nextJob' = nextJob + 1 /\ jobs'[nextJob].state # "none")
<1>1. CASE UNCHANGED jobVars
    BY <1>1 DEF jobVars, Keeps
<1>2. ASSUME NEW o \in Schedules \cup {0}, NEW st \in {"active", "queued"},
             StartJob(o, st), nextJob \in JobIds
      PROVE  Keeps(j) /\ nextJob' = nextJob + 1 /\ jobs'[nextJob].state # "none"
    <2>1. TypeOK
        BY DEF IInv
    <2>2. /\ nextJob' = nextJob + 1
          /\ jobs'[nextJob] = [state |-> st, owner |-> o, kept |-> TRUE]
        BY <1>2 DEF StartJob, TypeOK, JobIds
    <2>3. \A i \in JobIds \ {nextJob} : jobs'[i].state = jobs[i].state
        BY <1>2, <2>1, StartJobRows
    <2>4. /\ nextJob' = nextJob + 1 /\ jobs'[nextJob].state # "none"
          /\ j # nextJob => jobs'[j].state = jobs[j].state
        BY <2>2, <2>3
    <2>5. j # nextJob => (jobs'[j].kept => jobs[j].kept)
        BY <1>2 DEF StartJob, IInv, TypeOK, Job
    <2>6. j = nextJob => jobs[j].state = "none"
        BY DEF IInv, JobInv, TypeOK, JobIds
    <2> QED
        BY <2>4, <2>5, <2>6 DEF Keeps
<1>3. ASSUME NEW e \in Executors, Launch(e) \/ ThreadRaises(e)
      PROVE  nextJob \in JobIds /\ cur[e] \in Schedules
    BY <1>3, BoundsAssumption DEF Launch, ThreadRaises, IInv, BodyInv, InBody, TypeOK, JobIds
<1>4. AdHocBackup => nextJob \in JobIds
    BY BoundsAssumption DEF AdHocBackup, IInv, TypeOK, JobIds
<1>5. ASSUME NEW i \in JobIds, JobEnds(i) PROVE Keeps(j) /\ nextJob' = nextJob
    <2>1. PICK st \in {"done", "failed"} : jobs' = [jobs EXCEPT ![i].state = st]
        BY <1>5 DEF JobEnds
    <2>2. jobs[i].state = "active" /\ jobs \in [JobIds -> Job] /\ nextJob' = nextJob
        BY <1>5 DEF JobEnds, IInv, TypeOK
    <2>3. j # i => jobs'[j] = jobs[j]
        BY <2>1, <2>2
    <2>4. jobs'[i].state = st
        BY <2>1, <2>2 DEF Job
    <2> QED
        BY <2>2, <2>3, <2>4 DEF Keeps
<1>6. CASE Crash
    <2>1. /\ jobs'[j].kept = FALSE /\ nextJob' = nextJob
          /\ jobs'[j].state = IF jobs[j].state \in {"active", "queued"} THEN "killed" ELSE jobs[j].state
        BY <1>6 DEF Crash, IInv, TypeOK, Job
    <2> QED
        BY <2>1 DEF Keeps
<1>7. ASSUME NEW e \in Executors, Launch(e) \/ ThreadRaises(e)
      PROVE  Keeps(j) /\ nextJob' = nextJob + 1 /\ jobs'[nextJob].state # "none"
    BY <1>2, <1>3, <1>7 DEF Launch, ThreadRaises
<1>8. ASSUME AdHocBackup
      PROVE  Keeps(j) /\ nextJob' = nextJob + 1 /\ jobs'[nextJob].state # "none"
    BY <1>2, <1>4, <1>8 DEF AdHocBackup
<1>9. CASE UNCHANGED vars
    BY <1>1, <1>9 DEF vars
<1> QED
    <2>1. ASSUME NEW e \in Executors, Step(e) \/ Raises(e) \/ ThreadRaises(e)
          PROVE  UNCHANGED jobVars \/ Launch(e) \/ ThreadRaises(e)
        BY <2>1 DEF Step, PollRow, PollDone, ScheduleGone, Skip, Claim, ResolveCreds, CredsFail,
                    NoDevices, RecordRun, Unlock, Raises, jobVars
    <2>2. ASSUME Web PROVE UNCHANGED jobVars \/ AdHocBackup
        BY <2>2 DEF Web, BeginManual, Acquire, CreateSchedule, UpdateSchedule, Toggle,
                    DeleteSchedule
    <2>3. ASSUME NEW s \in Schedules, IntervalOver(s) PROVE UNCHANGED jobVars
        BY <2>3 DEF IntervalOver
    <2>4. BeginTick => UNCHANGED jobVars
        BY DEF BeginTick, Acquire
    <2>5. UNCHANGED jobVars => nextJob' = nextJob
        BY DEF jobVars
    <2>6. Crash => nextJob' = nextJob
        BY DEF Crash
    <2> QED
        BY <1>1, <1>5, <1>6, <1>7, <1>8, <1>9, <2>1, <2>2, <2>3, <2>4, <2>5, <2>6 DEF Next

\* A verdict that was true stays true, and a new one is.
LEMMA VerdictStep == IInv /\ VerdictInv /\ [Next]_vars => VerdictInv'
<1> SUFFICES ASSUME IInv, VerdictInv, [Next]_vars PROVE VerdictInv'
    OBVIOUS
<1>1. Begun'
    <2> SUFFICES ASSUME NEW j \in JobIds, j < nextJob' PROVE jobs'[j].state # "none"
        BY DEF Begun
    <2>1. j < nextJob \/ (j = nextJob /\ jobs'[j].state # "none")
        BY StepKeeps DEF IInv, TypeOK, JobIds
    <2> QED
        BY <2>1, StepKeeps DEF VerdictInv, Begun, Keeps
<1>2. VerdictsAreTrue'
    <2> SUFFICES ASSUME NEW r \in RunIds, runs'[r].job # NoJob
                 PROVE  LET j == runs'[r].job IN
                        /\ runs'[r].status = "done" => jobs'[j].state = "done"
                        /\ runs'[r].status = "failed" =>
                              \/ jobs'[j].state \in {"failed", "killed"}
                              \/ jobs'[j].state = "done" /\ ~jobs'[j].kept
        BY DEF VerdictsAreTrue
    <2>1. CASE Left(r)
        <3>1. runs[r].job \in JobIds /\ Keeps(runs[r].job)
            BY <2>1, StepKeeps DEF Left, IInv, TypeOK, Run
        <3>2. runs[r].job # NoJob /\ runs'[r] = runs[r]
            BY <2>1 DEF Left
        <3>3. runs[r].status = "done" => jobs'[runs[r].job].state = "done"
            BY <3>1, <3>2 DEF Keeps, VerdictInv, VerdictsAreTrue
        <3>4. CASE runs[r].status = "failed" /\ jobs[runs[r].job].state \in {"failed", "killed"}
            BY <3>1, <3>2, <3>4 DEF Keeps
        <3>5. CASE /\ runs[r].status = "failed"
                   /\ jobs[runs[r].job].state = "done" /\ ~jobs[runs[r].job].kept
            BY <3>1, <3>2, <3>5 DEF Keeps
        <3> QED
            BY <3>2, <3>3, <3>4, <3>5 DEF VerdictInv, VerdictsAreTrue
    <2>2. CASE Inserted(r)
        BY <2>2 DEF Inserted
    <2>3. CASE Judged(r)
        <3> DEFINE j == runs[r].job
        <3>1. /\ runs'[r].job = j /\ runs'[r].status = Verdict(j) /\ UNCHANGED jobs
              /\ runs[r].status = "running" /\ Seen(j) # "active"
            BY <2>3 DEF Judged, IInv, TypeOK, Run
        <3>2. j \in JobIds /\ j < nextJob
            BY <3>1 DEF IInv, TypeOK, Run, RunInv
        <3>3. jobs[j].state \notin {"none", "active", "queued"}
            BY <3>1, <3>2 DEF VerdictInv, Begun, IInv, JobInv, Seen
        <3>4. jobs[j].state \in {"done", "failed", "killed"}
            BY <3>2, <3>3 DEF IInv, TypeOK, Job
        <3> QED
            BY <3>1, <3>2, <3>4 DEF Verdict, Seen, IInv, TypeOK, Job
    <2>4. CASE Deleted(r)
        BY <2>4 DEF Deleted, NoRow
    <2> QED
        BY <2>1, <2>2, <2>3, <2>4, StepFate DEF Fate
<1> QED
    BY <1>1, <1>2 DEF VerdictInv

\* The history never reports a success that was none, nor a failure of a job that
\* succeeded and is remembered (schedule_executor.py:123-152).
THEOREM VerdictsAlways == Spec => []VerdictsAreTrue
<1>1. Init => VerdictInv
    BY DEF Init, VerdictInv, VerdictsAreTrue, Begun, NoRow, JobIds
<1>2. VerdictInv => VerdictsAreTrue
    BY DEF VerdictInv
<1> QED
    BY <1>1, <1>2, VerdictStep, SpecInv, PTL DEF Spec
-----------------------------------------------------------------------------
(* Claims.                                                                 *)

\* A schedule that does not exist names no job and has no claim.
DeadInv   == \A s \in Schedules : ~Live(s) => sched[s].running = NoJob
StrandInv == NoStrandedClaim /\ DeadInv

\* What a step may do to the row of a schedule: leave its life and its job alone,
\* empty it, claim it for an executor, or give it a job.
Same(s)     == sched'[s].st = sched[s].st /\ sched'[s].running = sched[s].running
Freed(s)    == sched'[s].running = NoJob
Claimed(s)  == /\ sched'[s].st = "live"
               /\ \E e \in Executors : cur'[e] = s /\ pc'[e] = "creds"
Recorded(s) == sched'[s].st = "live" /\ sched'[s].running \in JobIds
RowFate(s)  == Same(s) \/ Freed(s) \/ Claimed(s) \/ Recorded(s)

\* Closing a run, as polling does, leaves each row or empties it.
LEMMA ClosedFate ==
    ASSUME TypeOK, NEW s \in Schedules, NEW j, NEW t \in Schedules,
           sched'[t] = Closed(s, j)[t]
    PROVE  Same(t) \/ Freed(t)
<1>1. CASE ~Live(s) \/ t # s
    BY <1>1, ClosedRows DEF Closed, Same
<1>2. CASE Live(s) /\ t = s
    BY <1>2, ClosedRows DEF Freed
<1> QED
    BY <1>1, <1>2

\* So does reconciling a schedule.
LEMMA ReconciledRow ==
    ASSUME TypeOK, NEW s \in Schedules, NEW t \in Schedules,
           sched'[t] = SchedReconciled(s)[t]
    PROVE  Same(t) \/ Freed(t)
<1> DEFINE j == sched[s].running
<1>1. CASE j = NoJob \/ Busy(s)
    BY <1>1 DEF SchedReconciled, Same
<1>2. CASE ~(j = NoJob \/ Busy(s)) /\ \E r \in RunIds : LatestOpen(r, s, j)
    <2>1. sched'[t] = Closed(s, j)[t]
        BY <1>2 DEF SchedReconciled
    <2> QED
        BY <2>1, ClosedFate
<1>3. CASE ~(j = NoJob \/ Busy(s)) /\ ~\E r \in RunIds : LatestOpen(r, s, j)
    <2>1. sched'[t] = [sched EXCEPT ![s].running = NoJob][t]
        BY <1>3 DEF SchedReconciled
    <2> QED
        BY <2>1 DEF TypeOK, Schedule, Same, Freed
<1> QED
    BY <1>1, <1>2, <1>3

\* Every step does one of these to every row.
LEMMA StepRow ==
    ASSUME IInv, [Next]_vars, NEW t \in Schedules PROVE RowFate(t)
<1> USE DEF RowFate
<1>0. TypeOK
    BY DEF IInv
<1>1. CASE UNCHANGED sched
    BY <1>1 DEF Same
<1>2. ASSUME NEW e \in Executors, NEW r \in RunIds, PollRow(e, r) PROVE RowFate(t)
    <2>1. runs[r].status = "running" => runs[r].sid \in Schedules
        BY DEF IInv, RunInv
    <2>2. UNCHANGED sched \/ (runs[r].sid \in Schedules
                              /\ sched'[t] = Closed(runs[r].sid, runs[r].job)[t])
        BY <1>2, <2>1 DEF PollRow
    <2> QED
        BY <1>0, <1>1, <2>2, ClosedFate
<1>3. ASSUME NEW e \in Executors, NEW s \in Schedules, Skip(e, s) PROVE RowFate(t)
    BY <1>0, <1>3, ReconciledRow DEF Skip
<1>4. ASSUME NEW e \in Executors, NEW s \in Schedules, Claim(e, s) PROVE RowFate(t)
    <2>1. SchedReconciled(s) \in [Schedules -> Schedule] /\ SchedReconciled(s)[s].st = "live"
        BY <1>4, Reconciled DEF Claim, Target, Live, IInv, LockInv, InBody
    <2>2. CASE t = s
        <3>1. sched'[t].st = "live"
            BY <1>4, <2>1, <2>2 DEF Claim, Schedule
        <3>2. cur'[e] = t /\ pc'[e] = "creds"
            BY <1>0, <1>4, <2>2 DEF Claim, Goto, TypeOK
        <3> QED
            BY <3>1, <3>2 DEF Claimed
    <2>3. CASE t # s
        <3>1. sched'[t] = SchedReconciled(s)[t]
            BY <1>4, <2>1, <2>3 DEF Claim
        <3> QED
            BY <1>0, <3>1, ReconciledRow
    <2> QED
        BY <2>2, <2>3
<1>5. ASSUME NEW e \in Executors, CredsFail(e) \/ NoDevices(e) PROVE RowFate(t)
    <2> DEFINE c == cur[e]
    <2>1. sched' = IF Live(c) THEN [sched EXCEPT ![c].running = NoJob] ELSE sched
        BY <1>5 DEF CredsFail, NoDevices
    <2>2. sched \in [Schedules -> Schedule]
        BY <1>0 DEF TypeOK
    <2> HIDE DEF c
    <2>3. sched'[t].st = sched[t].st /\ (sched'[t] = sched[t] \/ sched'[t].running = NoJob)
        BY ONLY <2>1, <2>2, t \in Schedules DEF Schedule
    <2> QED
        BY <2>3 DEF Same, Freed
<1>6. ASSUME NEW e \in Executors, RecordRun(e) PROVE RowFate(t)
    <2>1. held[e] \in JobIds
        BY <1>6 DEF RecordRun, IInv, BodyInv
    <2> QED
        BY <1>0, <1>6, <2>1 DEF RecordRun, Live, TypeOK, Schedule, Same, Recorded
<1>7. ASSUME NEW s \in Schedules,
             \/ CreateSchedule(s) \/ UpdateSchedule(s) \/ Toggle(s) \/ DeleteSchedule(s)
             \/ IntervalOver(s)
      PROVE  RowFate(t)
    <2>1. sched \in [Schedules -> Schedule]
        BY <1>0 DEF TypeOK
    <2>2. CASE UpdateSchedule(s) \/ Toggle(s) \/ IntervalOver(s)
        <3>1. sched'[t].st = sched[t].st /\ sched'[t].running = sched[t].running
            BY <2>1, <2>2 DEF UpdateSchedule, Toggle, IntervalOver, Schedule
        <3> QED
            BY <3>1 DEF Same
    <2>3. CASE CreateSchedule(s) \/ DeleteSchedule(s)
        <3>1. sched'[t] = sched[t] \/ sched'[t].running = NoJob
            BY <2>1, <2>3 DEF CreateSchedule, DeleteSchedule
        <3> QED
            BY <3>1 DEF Same, Freed
    <2> QED
        BY <1>7, <2>2, <2>3
<1> QED
    BY <1>1, <1>2, <1>3, <1>4, <1>5, <1>6, <1>7
    DEF Next, Step, Web, BeginTick, BeginManual, Acquire, PollDone, ScheduleGone, ResolveCreds,
        Launch, Unlock, Raises, ThreadRaises, AdHocBackup, JobEnds, Crash, dbVars, vars

\* What a step may do to an execution under way: go on with it, end it by replacing
\* the claim, or cut it.
Goes(e) == InBody(e)' /\ cur'[e] = cur[e]
Ends(e) == Live(cur[e]) => sched'[cur[e]].running # Starting
Cuts(e) == cur[e] \in cut'

\* Every step does one of these to every execution.
LEMMA StepBody ==
    ASSUME IInv, [Next]_vars, NEW d \in Executors, InBody(d)
    PROVE  Goes(d) \/ Ends(d) \/ Cuts(d)
<1> USE DEF Goes
<1>0. /\ TypeOK /\ lock = d /\ cur[d] \in Schedules
      /\ \A e \in Executors : pc[e] # "idle" => e = d
    BY DEF IInv, LockInv, BodyInv, InBody
<1>1. CASE UNCHANGED <<pc, cur>>
    BY <1>1 DEF InBody
<1>2. CASE BeginTick \/ \E s \in Schedules : BeginManual(s)
    BY <1>0, <1>2 DEF BeginTick, BeginManual, Acquire, Executors, Nobody
<1>3. ASSUME NEW e \in Executors, pc[e] \in {"poll", "body"} PROVE FALSE
    BY <1>0, <1>3 DEF InBody
<1>4. ASSUME NEW e \in Executors, ResolveCreds(e) \/ Launch(e) PROVE Goes(d)
    BY <1>0, <1>4 DEF ResolveCreds, Launch, Goto, InBody, TypeOK
<1>5. ASSUME NEW e \in Executors, CredsFail(e) \/ NoDevices(e) PROVE Ends(d)
    <2>1. e = d
        BY <1>0, <1>5 DEF CredsFail, NoDevices
    <2> QED
        BY <1>0, <1>5, <2>1, Constants DEF CredsFail, NoDevices, Ends, TypeOK, Schedule
<1>6. ASSUME NEW e \in Executors, RecordRun(e) PROVE Ends(d)
    <2>1. e = d /\ held[e] \in JobIds
        BY <1>0, <1>6 DEF RecordRun, IInv, BodyInv
    <2> QED
        BY <1>0, <1>6, <2>1, Constants DEF RecordRun, Ends, TypeOK, Schedule
<1>7. ASSUME NEW e \in Executors, Raises(e) \/ ThreadRaises(e) PROVE Cuts(d)
    <2>1. e = d
        BY <1>0, <1>7 DEF Raises, ThreadRaises
    <2> QED
        BY <1>7, <2>1 DEF Raises, ThreadRaises, Cuts
<1>8. CASE Crash
    <2>1. cut' = cut \cup {cur[e] : e \in {c \in Executors : InBody(c)}}
        BY <1>8 DEF Crash
    <2> QED
        BY <2>1 DEF Cuts
<1>9. ASSUME NEW e \in Executors, Step(e) PROVE Goes(d) \/ Ends(d) \/ Cuts(d)
    BY <1>3, <1>4, <1>5, <1>6, <1>9
    DEF Step, PollRow, PollDone, ScheduleGone, Skip, Claim, Target, Unlock
<1> QED
    BY <1>1, <1>2, <1>7, <1>8, <1>9
    DEF Next, Web, CreateSchedule, UpdateSchedule, Toggle, DeleteSchedule, AdHocBackup,
        JobEnds, IntervalOver, execVars, vars

\* What was cut is not forgotten.
LEMMA StepCut == [Next]_vars => cut \subseteq cut'
<1> SUFFICES ASSUME [Next]_vars PROVE cut \subseteq cut'
    OBVIOUS
<1>1. ASSUME NEW e \in Executors, Step(e) PROVE UNCHANGED envVars
    BY <1>1 DEF Step, PollRow, PollDone, ScheduleGone, Skip, Claim, ResolveCreds, CredsFail,
                NoDevices, Launch, RecordRun, Unlock
<1>2. ASSUME NEW e \in Executors, Raises(e) \/ ThreadRaises(e) PROVE cut \subseteq cut'
    BY <1>2 DEF Raises, ThreadRaises
<1>3. Web => UNCHANGED envVars
    BY DEF Web, BeginManual, Acquire, CreateSchedule, UpdateSchedule, Toggle,
           DeleteSchedule, AdHocBackup
<1>4. Crash => cut \subseteq cut'
    BY DEF Crash
<1> QED
    BY <1>1, <1>2, <1>3, <1>4
    DEF Next, BeginTick, Acquire, JobEnds, IntervalOver, vars, envVars

\* No step but a crash or an exception strands a claim.
LEMMA ClaimStep == IInv /\ IInv' /\ StrandInv /\ [Next]_vars => StrandInv'
<1> SUFFICES ASSUME IInv, IInv', StrandInv, [Next]_vars PROVE StrandInv'
    OBVIOUS
<1>1. DeadInv'
    BY StepRow DEF RowFate, Same, Freed, Claimed, Recorded, StrandInv, DeadInv, Live
<1>2. NoStrandedClaim'
    <2> SUFFICES ASSUME NEW s \in Schedules, sched'[s].running = Starting, s \notin cut'
                 PROVE  \E e \in Executors : cur'[e] = s /\ InBody(e)'
        BY DEF NoStrandedClaim
    <2>1. s \notin cut
        BY StepCut
    <2>2. CASE Same(s)
        <3>1. sched[s].running = Starting /\ Live(s)
            BY <2>2, Constants DEF Same, StrandInv, DeadInv
        <3>2. PICK e \in Executors : cur[e] = s /\ InBody(e)
            BY <2>1, <3>1 DEF StrandInv, NoStrandedClaim
        <3>3. Goes(e)
            BY <3>1, <3>2, StepBody DEF Ends, Cuts
        <3> QED
            BY <3>2, <3>3 DEF Goes
    <2>3. CASE Claimed(s)
        BY <2>3 DEF Claimed, InBody
    <2>4. ~Freed(s) /\ ~Recorded(s)
        BY Constants DEF Freed, Recorded
    <2> QED
        BY <2>2, <2>3, <2>4, StepRow DEF RowFate
<1> QED
    BY <1>1, <1>2 DEF StrandInv

\* Only a crash or an exception in the very execution of a schedule leaves __starting__
\* in its row with nobody to replace it (schedule_executor.py:353-429); no later tick would
\* clear it.
THEOREM ClaimsAlways == Spec => []NoStrandedClaim
<1>1. Init => StrandInv
    BY Constants DEF Init, StrandInv, NoStrandedClaim, DeadInv
<1>2. StrandInv => NoStrandedClaim
    BY DEF StrandInv
<1> QED
    BY <1>1, <1>2, ClaimStep, SpecInv, PTL DEF Spec

-----------------------------------------------------------------------------
(* The executor implements BackupSlot.                                     *)

\* A job is held only while its run is about to be recorded.
HeldInv == \A e \in Executors : held[e] # NoJob => pc[e] = "record"
RefInv  == IInv /\ HeldInv

LEMMA HeldStep == IInv /\ HeldInv /\ [Next]_vars => HeldInv'
<1> SUFFICES ASSUME IInv, HeldInv, [Next]_vars PROVE HeldInv'
    OBVIOUS
<1> USE DEF HeldInv, IInv, TypeOK
<1>1. CASE UNCHANGED <<pc, held>>
    BY <1>1
<1>2. CASE BeginTick \/ \E s \in Schedules : BeginManual(s)
    BY <1>2 DEF BeginTick, BeginManual, Acquire, Goto, Executors
<1>3. ASSUME NEW e \in Executors, Step(e) \/ Raises(e) \/ ThreadRaises(e) PROVE HeldInv'
    <2>1. CASE UNCHANGED <<pc, held>>
        BY <2>1
    <2>2. CASE PollDone(e) \/ ResolveCreds(e) \/ \E s \in Schedules : Claim(e, s)
        BY <2>2 DEF PollDone, ResolveCreds, Claim, Target, Goto
    <2>3. CASE CredsFail(e) \/ NoDevices(e) \/ RecordRun(e)
        BY <2>3 DEF CredsFail, NoDevices, RecordRun, NextBody, Goto
    <2>4. CASE \/ Unlock(e) \/ Raises(e) \/ ThreadRaises(e)
               \/ \E s \in Schedules : ScheduleGone(e, s)
        BY <2>4 DEF Unlock, Raises, ThreadRaises, ScheduleGone, Release
    <2>5. CASE Launch(e)
        BY <2>5 DEF Launch, Goto
    <2> QED
        BY <1>3, <2>1, <2>2, <2>3, <2>4, <2>5 DEF Step, PollRow, Skip
<1>4. CASE Crash
    <2>1. pc' = [e \in Executors |-> "idle"] /\ held' = [e \in Executors |-> NoJob]
        BY <1>4, Zenon DEF Crash
    <2> QED
        BY <2>1
<1> QED
    BY <1>1, <1>2, <1>3, <1>4
    DEF Next, Web, CreateSchedule, UpdateSchedule, Toggle, DeleteSchedule, AdHocBackup,
        JobEnds, IntervalOver, execVars, vars

-----------------------------------------------------------------------------
(* Reading the slots off the tables.                                       *)

\* The slot of a schedule, case by case.
LEMMA SlotCases ==
    ASSUME TypeOK, NEW s \in Schedules
    PROVE  /\ sched[s].st = "unborn" => SlotOf(s) = "none"
           /\ sched[s].st = "gone" => SlotOf(s) = "gone"
           /\ Live(s) =>
                 /\ sched[s].running = NoJob => SlotOf(s) = "free"
                 /\ sched[s].running \in JobIds => SlotOf(s) = "busy"
                 /\ sched[s].running = Starting =>
                       SlotOf(s) = IF Holds(s) THEN "started" ELSE "claimed"
BY Constants DEF SlotOf, Live, Holds, TypeOK, Schedule

\* While nobody holds a job, a schedule is started only by one that was lost.
LEMMA OnlyLost ==
    ASSUME NEW s, \A d \in Executors : held[d] = NoJob
    PROVE  Holds(s) <=> \E j \in untold : jobs[j].owner = s
BY DEF Holds

\* A slot is as it was if its row says so and the same jobs are held.
LEMMA SlotStays ==
    ASSUME TypeOK, TypeOK', NEW s \in Schedules,
           sched'[s].st = sched[s].st, sched'[s].running = sched[s].running,
           Holds(s)' <=> Holds(s)
    PROVE  SlotOf(s)' = SlotOf(s)
BY DEF SlotOf, Holds

\* One slot moves.
LEMMA MoveStep ==
    ASSUME NEW s \in Schedules, NEW to, SlotOf(s)' = to,
           \A t \in Schedules \ {s} : SlotOf(t)' = SlotOf(t)
    PROVE  Slots!Move(s, to)
BY DEF Slots!Move

\* No slot moves.
LEMMA NoMove ==
    ASSUME \A t \in Schedules : SlotOf(t)' = SlotOf(t)
    PROVE  UNCHANGED [s \in Schedules |-> SlotOf(s)]
OBVIOUS

\* No backup starts or ends.
LEMMA NoWork ==
    ASSUME \A j \in JobIds : /\ jobs'[j].owner = jobs[j].owner
                             /\ jobs'[j].state = "active" <=> jobs[j].state = "active"
    PROVE  UNCHANGED [s \in Schedules |-> WorkOf(s)]
BY DEF WorkOf

-----------------------------------------------------------------------------
(* Every step is a step of the slots, or leaves them alone.                *)

Implements == [Slots!SlotNext]_(Slots!vars)

\* A step that leaves rows, held jobs and running backups alone.
LEMMA QuietStep ==
    ASSUME TypeOK, TypeOK', UNCHANGED jobs,
           \A s \in Schedules : /\ sched'[s].st = sched[s].st
                                /\ sched'[s].running = sched[s].running
                                /\ Holds(s)' <=> Holds(s)
    PROVE  Implements
<1>1. UNCHANGED [s \in Schedules |-> SlotOf(s)]
    BY SlotStays, NoMove
<1>2. UNCHANGED [s \in Schedules |-> WorkOf(s)]
    BY NoWork
<1> QED
    BY <1>1, <1>2 DEF Implements, Slots!vars

\* While an executor is at work and does not record, nothing is held.
LEMMA NothingHeld ==
    ASSUME RefInv, NEW e \in Executors, pc[e] \notin {"idle", "record"}
    PROVE  \A d \in Executors : held[d] = NoJob
BY DEF RefInv, HeldInv, IInv, LockInv

\* A claim whose job was not started is given back, or the end of the backup of a row is
\* noticed.
LEMMA FreeStep ==
    ASSUME TypeOK, TypeOK', UNCHANGED jobs, NEW s \in Schedules, Live(s),
           SlotOf(s) = "claimed" \/ (SlotOf(s) = "busy" /\ WorkOf(s) = {}),
           sched'[s].st = sched[s].st, sched'[s].running = NoJob,
           \A t \in Schedules \ {s} : sched'[t].st = sched[t].st
                                      /\ sched'[t].running = sched[t].running,
           \A t \in Schedules : Holds(t)' <=> Holds(t)
    PROVE  Implements
<1>1. SlotOf(s)' = "free"
    BY SlotCases DEF SlotOf, Live
<1>2. \A t \in Schedules \ {s} : SlotOf(t)' = SlotOf(t)
    BY SlotStays
<1>3. Slots!Move(s, "free")
    BY <1>1, <1>2, MoveStep
<1>4. UNCHANGED [u \in Schedules |-> WorkOf(u)]
    BY NoWork
<1>5. Slots!Free(s)
    BY <1>3, <1>4 DEF Slots!Free
<1> QED
    BY <1>5 DEF Implements, Slots!SlotNext

\* Polling a run.
LEMMA PollRowSlot ==
    ASSUME RefInv, RefInv', NEW e \in Executors, NEW r \in RunIds, PollRow(e, r)
    PROVE  Implements
<1> DEFINE s == runs[r].sid
           j == runs[r].job
<1>1. TypeOK /\ TypeOK' /\ UNCHANGED jobs /\ UNCHANGED <<cur, held, untold>>
    BY DEF PollRow, RefInv, IInv, jobVars, envVars
<1>2. \A t \in Schedules : Holds(t)' <=> Holds(t)
    BY <1>1 DEF Holds
<1>3. CASE UNCHANGED sched
    BY <1>1, <1>2, <1>3, QuietStep
<1>4. CASE ~UNCHANGED sched
    <2>1. /\ runs[r].status = "running" /\ Seen(j) # "active" /\ sched' = Closed(s, j)
          /\ s \in Schedules /\ j \in JobIds /\ Live(s)
        BY <1>4 DEF PollRow, Closed, RefInv, IInv, RunInv, TypeOK, Run
    <2>2. sched[s].running = j
        BY <2>1 DEF RefInv, IInv, OpenRunInv
    <2>3. WorkOf(s) = {}
        <3> SUFFICES ASSUME NEW i \in JobIds, jobs[i].state = "active", jobs[i].owner = s
                     PROVE  FALSE
            BY DEF WorkOf
        <3>1. sched[s].running = i
            BY <2>1, <2>2, Constants DEF RefInv, IInv, NoUntrackedJob
        <3> QED
            BY <2>1, <2>2, <3>1 DEF RefInv, IInv, JobInv, Seen
    <2>4. SlotOf(s) = "busy"
        BY <1>1, <2>1, <2>2, SlotCases
    <2>5. /\ sched'[s].st = sched[s].st /\ sched'[s].running = NoJob
          /\ \A t \in Schedules \ {s} : sched'[t] = sched[t]
        BY <1>1, <2>1, ClosedRows
    <2> QED
        BY <1>1, <1>2, <2>1, <2>3, <2>4, <2>5, FreeStep
<1> QED
    BY <1>3, <1>4

\* Claiming a schedule that is free, or whose backup is over.
LEMMA ClaimSlot ==
    ASSUME RefInv, RefInv', NEW e \in Executors, NEW s \in Schedules, Claim(e, s)
    PROVE  Implements
<1>1. /\ TypeOK /\ TypeOK' /\ UNCHANGED jobs /\ UNCHANGED <<held, untold>>
      /\ \A d \in Executors : held[d] = NoJob /\ ~InBody(d)
    BY NothingHeld DEF Claim, Target, RefInv, IInv, LockInv, InBody, jobVars, envVars
<1>2. \A t \in Schedules : Holds(t)' <=> Holds(t)
    BY <1>1 DEF Holds
<1>3. /\ SchedReconciled(s) \in [Schedules -> Schedule]
      /\ \A t \in Schedules : /\ SchedReconciled(s)[t].st = sched[t].st
                              /\ t # s => SchedReconciled(s)[t] = sched[t]
      /\ Live(s) /\ ~Busy(s)
      /\ \A j \in JobIds : ~(jobs[j].state = "active" /\ jobs[j].owner = s)
    BY <1>1, Reconciled DEF Claim, Occupied, RefInv
<1>4. /\ sched'[s].st = "live" /\ sched'[s].running = Starting
      /\ \A t \in Schedules \ {s} : sched'[t] = sched[t]
    BY <1>3 DEF Claim, Live, Schedule
<1>5. SlotOf(s) \in {"free", "busy"} /\ WorkOf(s) = {}
    <2>1. sched[s].running \in JobIds \cup {NoJob}
        BY <1>1, <1>3 DEF Busy, TypeOK, Schedule
    <2> QED
        BY <1>1, <1>3, <2>1, SlotCases DEF WorkOf
<1>6. SlotOf(s)' = "claimed"
    <2>1. ~Holds(s)
        BY <1>1, <1>3, OnlyLost DEF Busy, RefInv, IInv, UntoldInv
    <2> QED
        BY <1>2, <1>4, <2>1, Constants DEF SlotOf
<1>7. \A t \in Schedules \ {s} : SlotOf(t)' = SlotOf(t)
    BY <1>1, <1>2, <1>4, SlotStays
<1>8. Slots!Move(s, "claimed")
    BY <1>6, <1>7, MoveStep
<1>9. UNCHANGED [u \in Schedules |-> WorkOf(u)]
    BY <1>1, NoWork
<1>10. Slots!TakeSlot(s)
    BY <1>5, <1>8, <1>9 DEF Slots!TakeSlot
<1> QED
    BY <1>10 DEF Implements, Slots!SlotNext

\* An execution without a job is over: a claim may be given back, or stays.
LEMMA CredsFailSlot ==
    ASSUME RefInv, RefInv', NEW e \in Executors, CredsFail(e) \/ NoDevices(e)
    PROVE  Implements
<1>1. /\ TypeOK /\ TypeOK' /\ UNCHANGED <<jobs, untold>> /\ cur[e] \in Schedules /\ InBody(e)
      /\ \A d \in Executors : held[d] = NoJob
    BY NothingHeld DEF CredsFail, NoDevices, RefInv, IInv, BodyInv, InBody, jobVars, envVars
<1>2. \A d \in Executors : held'[d] = NoJob
    BY <1>1 DEF CredsFail, NoDevices, NextBody, TypeOK
<1>3. \A t \in Schedules : Holds(t)' <=> Holds(t)
    BY <1>1, <1>2 DEF Holds
<1>4. CASE ~Live(cur[e])
    BY <1>1, <1>3, <1>4, QuietStep DEF CredsFail, NoDevices
<1>5. CASE Live(cur[e])
    <2>1. ~Holds(cur[e])
        BY <1>1, <1>5, OnlyLost DEF RefInv, IInv, UntoldInv
    <2>2. SlotOf(cur[e]) = "claimed"
        BY <1>1, <1>5, <2>1, SlotCases DEF RefInv, IInv, BodyInv
    <2>3. /\ sched'[cur[e]].st = sched[cur[e]].st /\ sched'[cur[e]].running = NoJob
          /\ \A t \in Schedules \ {cur[e]} : sched'[t] = sched[t]
        BY <1>1, <1>5 DEF CredsFail, NoDevices, TypeOK, Schedule
    <2> QED
        BY <1>1, <1>3, <1>5, <2>2, <2>3, FreeStep
<1> QED
    BY <1>4, <1>5

\* Whoever lets go of the lock at the end holds no job: slots and backups stay.
LEMMA ReleaseSlot ==
    ASSUME RefInv, RefInv', NEW e \in Executors, Release(e), pc[e] = "body",
           UNCHANGED <<sched, jobs, untold>>
    PROVE  Implements
<1>1. TypeOK /\ TypeOK' /\ \A d \in Executors : held[d] = NoJob
    BY NothingHeld DEF RefInv, IInv
<1>2. \A d \in Executors : held'[d] = NoJob
    BY <1>1 DEF Release, TypeOK
<1> QED
    BY <1>1, <1>2, QuietStep DEF Holds

\* An exception: a job that was held is now lost, and its schedule started as before.
LEMMA RaisesSlot ==
    ASSUME RefInv, RefInv', NEW e \in Executors, Raises(e)
    PROVE  Implements
<1>1. /\ TypeOK /\ TypeOK' /\ UNCHANGED <<sched, jobs>>
      /\ \A d \in Executors \ {e} : held[d] = NoJob
      /\ pc[e] # "record" => held[e] = NoJob
      /\ pc[e] = "record" => held[e] \in JobIds /\ jobs[held[e]].owner = cur[e]
    BY DEF Raises, RefInv, HeldInv, IInv, LockInv, BodyInv, dbVars, jobVars
<1>2. \A d \in Executors : held'[d] = NoJob
    BY <1>1 DEF Raises, Release, TypeOK
<1>3. ASSUME NEW t \in Schedules PROVE Holds(t)' <=> Holds(t)
    <2>1. CASE pc[e] # "record"
        <3>1. untold' = untold
            BY <2>1 DEF Raises
        <3> QED
            BY <1>1, <1>2, <2>1, <3>1 DEF Holds
    <2>2. CASE pc[e] = "record"
        <3>1. untold' = untold \cup {held[e]} /\ held[e] # NoJob
            BY <1>1, <2>2, Constants DEF Raises
        <3>2. Holds(t)' <=> cur[e] = t \/ \E j \in untold : jobs[j].owner = t
            BY <1>1, <1>2, <2>2, <3>1 DEF Holds
        <3>3. Holds(t) <=> cur[e] = t \/ \E j \in untold : jobs[j].owner = t
            BY <1>1, <3>1 DEF Holds
        <3> QED
            BY <3>2, <3>3
    <2> QED
        BY <2>1, <2>2
<1> QED
    BY <1>1, <1>3, QuietStep

\* The owners of the lost jobs do not change when a job is added.
LEMMA OldOwners ==
    ASSUME RefInv, NEW o \in Schedules \cup {0}, NEW st \in {"active", "queued"},
           nextJob \in JobIds, StartJob(o, st)
    PROVE  \A j \in untold : jobs'[j].owner = jobs[j].owner
<1>1. TypeOK /\ \A j \in untold : j \in JobIds \ {nextJob}
    BY Constants DEF RefInv, IInv, TypeOK, UntoldInv
<1> QED
    BY <1>1, StartJobRows

\* A job without a thread is no backup.
LEMMA ThreadRaisesSlot ==
    ASSUME RefInv, RefInv', NEW e \in Executors, ThreadRaises(e)
    PROVE  Implements
<1>1. /\ TypeOK /\ TypeOK' /\ UNCHANGED <<sched, untold>>
      /\ cur[e] \in Schedules /\ nextJob \in JobIds /\ StartJob(cur[e], "queued")
      /\ \A d \in Executors : held[d] = NoJob
    BY NothingHeld, BoundsAssumption
    DEF ThreadRaises, RefInv, IInv, BodyInv, InBody, dbVars, TypeOK, JobIds
<1>2. \A d \in Executors : held'[d] = NoJob
    BY <1>1 DEF ThreadRaises, Release, TypeOK
<1>3. \A t \in Schedules : Holds(t)' <=> Holds(t)
    BY <1>1, <1>2, OldOwners DEF Holds
<1>4. \A t \in Schedules : SlotOf(t)' = SlotOf(t)
    BY <1>1, <1>3, SlotStays
<1>5. \A j \in JobIds : /\ jobs'[j].state = "active" <=> jobs[j].state = "active"
                        /\ jobs[j].state = "active" => jobs'[j].owner = jobs[j].owner
    <2>1. jobs'[nextJob].state = "queued" /\ jobs[nextJob].state = "none"
        <3>1. jobs'[nextJob] = [state |-> "queued", owner |-> cur[e], kept |-> TRUE]
            BY <1>1, StartJobRows
        <3> QED
            BY <1>1, <3>1, Constants DEF RefInv, IInv, JobInv
    <2> QED
        BY <1>1, <2>1, StartJobRows
<1>6. \A t \in Schedules : WorkOf(t)' = WorkOf(t)
    BY <1>5 DEF WorkOf
<1> QED
    BY <1>4, <1>6 DEF Implements, Slots!vars

\* The job of an execution starts.
LEMMA LaunchSlot ==
    ASSUME RefInv, RefInv', NEW e \in Executors, Launch(e)
    PROVE  Implements
<1> SUFFICES ASSUME NEW s \in Schedules, cur[e] = s PROVE Implements
    BY DEF Launch, RefInv, IInv, BodyInv, InBody
<1>1. /\ TypeOK /\ TypeOK' /\ UNCHANGED <<sched, cur, untold>>
      /\ nextJob \in JobIds /\ StartJob(s, "active")
      /\ \A d \in Executors : held[d] = NoJob
      /\ sched[s].st # "unborn" /\ (Live(s) => sched[s].running = Starting)
      /\ InBody(e)
    BY NothingHeld, BoundsAssumption
    DEF Launch, RefInv, IInv, BodyInv, InBody, dbVars, envVars, TypeOK, JobIds
<1>2. Live(s) => ~Holds(s)
    BY <1>1, OnlyLost DEF RefInv, IInv, UntoldInv
<1>3. /\ Holds(s)'
      /\ \A t \in Schedules \ {s} : Holds(t)' <=> Holds(t)
    <2>1. /\ held'[e] = nextJob /\ nextJob # NoJob
          /\ \A d \in Executors \ {e} : held'[d] = NoJob
        BY <1>1, Constants DEF Launch, TypeOK
    <2>2. \A j \in untold : jobs'[j].owner = jobs[j].owner
        BY <1>1, OldOwners
    <2> QED
        BY <1>1, <2>1, <2>2 DEF Holds
<1>4. \A t \in Schedules \ {s} : SlotOf(t)' = SlotOf(t)
    BY <1>1, <1>3, SlotStays
<1>5. /\ jobs'[nextJob].state = "active" /\ jobs'[nextJob].owner = s
      /\ \A j \in JobIds \ {nextJob} : /\ jobs'[j].state = jobs[j].state
                                       /\ jobs'[j].owner = jobs[j].owner
    <2>1. TypeOK /\ nextJob \in JobIds /\ StartJob(s, "active") /\ s \in Schedules \cup {0}
        BY <1>1
    <2>2. /\ jobs'[nextJob] = [state |-> "active", owner |-> s, kept |-> TRUE]
          /\ \A j \in JobIds \ {nextJob} : /\ jobs'[j].state = jobs[j].state
                                           /\ jobs'[j].owner = jobs[j].owner
        BY <2>1, StartJobRows
    <2> QED
        BY <2>2
<1>6. jobs[nextJob].state = "none"
    BY <1>1, Constants DEF RefInv, IInv, JobInv
<1>7. \A t \in Schedules : nextJob \notin WorkOf(t)
    BY <1>6 DEF WorkOf
<1>8. WorkOf(s)' = WorkOf(s) \cup {nextJob}
    BY <1>1, <1>5 DEF WorkOf
<1>9. \A t \in Schedules \ {s} : WorkOf(t)' = WorkOf(t)
    BY <1>1, <1>5, <1>6 DEF WorkOf
<1>10. [t \in Schedules |-> WorkOf(t)]'
           = [[t \in Schedules |-> WorkOf(t)] EXCEPT ![s] = @ \cup {nextJob}]
    BY <1>1, <1>8, <1>9
<1>11. CASE Live(s)
    <2>1. SlotOf(s) = "claimed"
        BY <1>1, <1>2, <1>11, SlotCases
    <2>2. SlotOf(s)' = "started"
        BY <1>1, <1>3, <1>11, Constants DEF SlotOf, Live
    <2>3. Slots!Move(s, "started")
        BY <1>1, <1>4, <2>2, MoveStep
    <2>4. Slots!Start(s, nextJob)
        BY <1>1, <1>7, <1>10, <2>1, <2>3 DEF Slots!Start
    <2> QED
        BY <1>1, <2>4 DEF Implements, Slots!SlotNext
<1>12. CASE ~Live(s)
    <2>1. SlotOf(s) = "gone" /\ SlotOf(s)' = "gone"
        BY <1>1, <1>12 DEF SlotOf, Live, TypeOK, Schedule
    <2>2. UNCHANGED [t \in Schedules |-> SlotOf(t)]
        BY <1>4, <2>1
    <2>3. Slots!Start(s, nextJob)
        BY <1>1, <1>7, <1>10, <2>1, <2>2 DEF Slots!Start
    <2> QED
        BY <1>1, <2>3 DEF Implements, Slots!SlotNext
<1> QED
    BY <1>11, <1>12

\* The job is written to the row of its schedule.
LEMMA RecordRunSlot ==
    ASSUME RefInv, RefInv', NEW e \in Executors, RecordRun(e)
    PROVE  Implements
<1> SUFFICES ASSUME NEW s \in Schedules, cur[e] = s PROVE Implements
    BY DEF RecordRun, RefInv, IInv, BodyInv, InBody
<1>1. /\ TypeOK /\ TypeOK' /\ UNCHANGED <<jobs, untold>> /\ held[e] \in JobIds
      /\ sched[s].st # "unborn" /\ (Live(s) => sched[s].running = Starting)
      /\ \A d \in Executors \ {e} : held[d] = NoJob
    BY DEF RecordRun, RefInv, HeldInv, IInv, LockInv, BodyInv, InBody, jobVars, envVars
<1>2. \A d \in Executors : held'[d] = NoJob
    BY <1>1 DEF RecordRun, NextBody, TypeOK
<1>3. Holds(s) /\ \A t \in Schedules \ {s} : Holds(t)' <=> Holds(t)
    BY <1>1, <1>2, Constants DEF Holds
<1>4. \A t \in Schedules \ {s} : sched'[t] = sched[t]
    BY <1>1 DEF RecordRun, TypeOK
<1>5. \A t \in Schedules \ {s} : SlotOf(t)' = SlotOf(t)
    BY <1>1, <1>3, <1>4, SlotStays
<1>6. UNCHANGED [t \in Schedules |-> WorkOf(t)]
    BY <1>1, NoWork
<1>7. CASE Live(s)
    <2>1. SlotOf(s) = "started"
        BY <1>1, <1>3, <1>7, SlotCases
    <2>2. sched'[s].st = "live" /\ sched'[s].running \in JobIds
        BY <1>1, <1>7 DEF RecordRun, Live, TypeOK, Schedule
    <2>3. SlotOf(s)' = "busy"
        BY <2>2, Constants DEF SlotOf
    <2>4. Slots!Move(s, "busy")
        BY <1>1, <1>5, <2>3, MoveStep
    <2>5. Slots!Confirm(s)
        BY <1>6, <2>1, <2>4 DEF Slots!Confirm
    <2> QED
        BY <1>1, <2>5 DEF Implements, Slots!SlotNext
<1>8. CASE ~Live(s)
    <2>1. SlotOf(s)' = SlotOf(s)
        BY <1>1, <1>8 DEF RecordRun, SlotOf, Live, TypeOK, Schedule
    <2> QED
        BY <1>5, <1>6, <2>1 DEF Implements, Slots!vars
<1> QED
    BY <1>7, <1>8

\* A schedule is created or deleted.
LEMMA LifeSlot ==
    ASSUME RefInv, RefInv', NEW s \in Schedules, CreateSchedule(s) \/ DeleteSchedule(s)
    PROVE  Implements
<1>1. /\ TypeOK /\ TypeOK' /\ UNCHANGED <<jobs, cur, held, untold>>
      /\ \A t \in Schedules \ {s} : sched'[t] = sched[t]
    BY DEF CreateSchedule, DeleteSchedule, RefInv, IInv, jobVars, execVars, envVars, TypeOK
<1>2. \A t \in Schedules : Holds(t)' <=> Holds(t)
    BY <1>1 DEF Holds
<1>3. \A t \in Schedules \ {s} : SlotOf(t)' = SlotOf(t)
    BY <1>1, <1>2, SlotStays
<1>4. UNCHANGED [t \in Schedules |-> WorkOf(t)]
    BY <1>1, NoWork
<1>5. CASE CreateSchedule(s)
    <2>1. SlotOf(s) = "none"
        BY <1>1, <1>5, SlotCases DEF CreateSchedule
    <2>2. sched'[s].st = "live" /\ sched'[s].running = NoJob
        BY <1>1, <1>5 DEF CreateSchedule, TypeOK
    <2>3. SlotOf(s)' = "free"
        BY <2>2 DEF SlotOf
    <2>4. Slots!Move(s, "free")
        BY <1>3, <2>3, MoveStep
    <2>5. Slots!Add(s)
        BY <1>4, <2>1, <2>4 DEF Slots!Add
    <2> QED
        BY <2>5 DEF Implements, Slots!SlotNext
<1>6. CASE DeleteSchedule(s)
    <2>1. SlotOf(s) \notin {"none", "gone"}
        BY <1>1, <1>6, SlotCases DEF DeleteSchedule, TypeOK, Schedule
    <2>2. sched'[s].st = "gone"
        BY <1>1, <1>6 DEF DeleteSchedule, TypeOK
    <2>3. SlotOf(s)' = "gone"
        BY <2>2 DEF SlotOf
    <2>4. Slots!Move(s, "gone")
        BY <1>3, <2>3, MoveStep
    <2>5. Slots!Remove(s)
        BY <1>4, <2>1, <2>4 DEF Slots!Remove
    <2> QED
        BY <2>5 DEF Implements, Slots!SlotNext
<1> QED
    BY <1>5, <1>6

\* A backup no schedule owns starts: the slots do not see it.
LEMMA AdHocSlot ==
    ASSUME RefInv, RefInv', AdHocBackup PROVE Implements
<1>1. /\ TypeOK /\ TypeOK' /\ UNCHANGED <<sched, cur, held, untold>>
      /\ StartJob(0, "active") /\ nextJob \in JobIds
    BY BoundsAssumption DEF AdHocBackup, RefInv, IInv, dbVars, execVars, envVars, TypeOK, JobIds
<1>2. /\ jobs'[nextJob] = [state |-> "active", owner |-> 0, kept |-> TRUE]
      /\ \A j \in JobIds \ {nextJob} : /\ jobs'[j].state = jobs[j].state
                                       /\ jobs'[j].owner = jobs[j].owner
    BY <1>1, StartJobRows
<1>3. jobs[nextJob].state = "none"
    BY <1>1, Constants DEF RefInv, IInv, JobInv
<1>4. jobs'[nextJob].owner = 0
    BY <1>2
<1>5. \A t \in Schedules : WorkOf(t)' = WorkOf(t)
    BY <1>2, <1>3, <1>4, Constants DEF WorkOf
<1>6. \A t \in Schedules : SlotOf(t)' = SlotOf(t)
    <2>1. \A j \in untold : jobs'[j].owner = jobs[j].owner
        BY <1>1, OldOwners
    <2> QED
        BY <1>1, <2>1 DEF SlotOf, Holds
<1> QED
    BY <1>5, <1>6 DEF Implements, Slots!vars

\* A backup ends.
LEMMA JobEndsSlot ==
    ASSUME RefInv, RefInv', NEW j \in JobIds, JobEnds(j) PROVE Implements
<1>1. TypeOK /\ jobs[j].state = "active" /\ UNCHANGED <<sched, cur, held, untold>>
    BY DEF JobEnds, RefInv, IInv, dbVars, execVars, envVars
<1>2. PICK st \in {"done", "failed"} : jobs' = [jobs EXCEPT ![j].state = st]
    BY DEF JobEnds
<1>3. /\ jobs'[j].state = st /\ jobs'[j].owner = jobs[j].owner
      /\ \A i \in JobIds \ {j} : jobs'[i] = jobs[i]
    BY <1>1, <1>2 DEF TypeOK, Job
<1>4. \A t \in Schedules : WorkOf(t)' = WorkOf(t) \ {j}
    BY <1>2, <1>3 DEF WorkOf
<1>5. UNCHANGED [t \in Schedules |-> SlotOf(t)]
    <2>1. \A i \in untold : jobs'[i].owner = jobs[i].owner
        BY <1>1, <1>3 DEF TypeOK
    <2>2. \A t \in Schedules : SlotOf(t)' = SlotOf(t)
        BY <1>1, <2>1 DEF SlotOf, Holds
    <2> QED
        BY <2>2
<1>6. CASE jobs[j].owner \in Schedules
    <2> SUFFICES ASSUME NEW s \in Schedules, jobs[j].owner = s PROVE Implements
        BY <1>6
    <2>1. /\ j \in WorkOf(s)
          /\ \A t \in Schedules \ {s} : WorkOf(t)' = WorkOf(t)
        BY <1>1, <1>4 DEF WorkOf
    <2>2. [t \in Schedules |-> WorkOf(t)]'
              = [[t \in Schedules |-> WorkOf(t)] EXCEPT ![s] = @ \ {j}]
        BY <1>4, <2>1
    <2>3. Slots!End(s, j)
        BY <1>5, <2>1, <2>2 DEF Slots!End
    <2> QED
        BY <2>3 DEF Implements, Slots!SlotNext
<1>7. CASE jobs[j].owner \notin Schedules
    <2>1. \A t \in Schedules : WorkOf(t)' = WorkOf(t)
        BY <1>4, <1>7 DEF WorkOf
    <2> QED
        BY <1>5, <2>1 DEF Implements, Slots!vars
<1> QED
    BY <1>6, <1>7

\* A restart ends every backup, and forgets the jobs that were held.
LEMMA CrashSlot ==
    ASSUME RefInv, RefInv', Crash PROVE Implements
<1>1. /\ TypeOK /\ UNCHANGED sched
      /\ held' = [e \in Executors |-> NoJob] /\ untold' = {}
    BY Zenon DEF Crash, RefInv, IInv, dbVars
<1>2. \A j \in JobIds : jobs'[j].state # "active"
    BY <1>1 DEF Crash, TypeOK, Job
<1>3. \A t \in Schedules : WorkOf(t)' = {}
    BY <1>2 DEF WorkOf
<1>4. \A t \in Schedules : ~Holds(t)'
    BY <1>1 DEF Holds
<1>5. \A t \in Schedules :
         SlotOf(t)' = IF SlotOf(t) = "started" THEN "claimed" ELSE SlotOf(t)
    BY <1>1, <1>4, Constants DEF SlotOf, TypeOK, Schedule
<1>6. Slots!Restart
    BY <1>3, <1>5 DEF Slots!Restart
<1> QED
    BY <1>6 DEF Implements, Slots!SlotNext

\* Every step.
LEMMA StepSlot == RefInv /\ RefInv' /\ [Next]_vars => Implements
<1> SUFFICES ASSUME RefInv, RefInv', [Next]_vars PROVE Implements
    OBVIOUS
<1>1. TypeOK /\ TypeOK'
    BY DEF RefInv, IInv
<1>2. CASE UNCHANGED <<sched, jobs, cur, held, untold>>
    BY <1>1, <1>2, QuietStep DEF Holds
<1>3. ASSUME NEW e \in Executors, NEW s \in Schedules, Skip(e, s) PROVE Implements
    <2>1. Live(s) /\ \A d \in Executors : ~InBody(d)
        BY <1>3 DEF Skip, Target, RefInv, IInv, LockInv, InBody
    <2>2. sched' = sched
        BY <1>3, <2>1, Reconciled DEF Skip, Occupied, RefInv
    <2> QED
        BY <1>2, <1>3, <2>2 DEF Skip, jobVars, envVars
<1>4. ASSUME NEW e \in Executors, Unlock(e) \/ \E s \in Schedules : ScheduleGone(e, s)
      PROVE  Implements
    BY <1>4, ReleaseSlot DEF Unlock, ScheduleGone, Target, dbVars, jobVars, envVars
<1>5. ASSUME NEW e \in Executors, Step(e) \/ Raises(e) \/ ThreadRaises(e) PROVE Implements
    BY <1>2, <1>3, <1>4, <1>5, PollRowSlot, ClaimSlot, CredsFailSlot, LaunchSlot, RecordRunSlot,
       RaisesSlot, ThreadRaisesSlot
    DEF Step, PollDone, ResolveCreds, dbVars, jobVars, envVars
<1>6. ASSUME NEW s \in Schedules, UpdateSchedule(s) \/ Toggle(s) \/ IntervalOver(s)
      PROVE  Implements
    <2>1. /\ UNCHANGED <<jobs, cur, held, untold>>
          /\ \A t \in Schedules : /\ sched'[t].st = sched[t].st
                                  /\ sched'[t].running = sched[t].running
        <3>1. UNCHANGED <<jobs, cur, held, untold>>
            BY <1>6 DEF UpdateSchedule, Toggle, IntervalOver, jobVars, execVars, envVars
        <3>2. sched \in [Schedules -> Schedule]
            BY <1>1 DEF TypeOK
        <3>3. ASSUME NEW t \in Schedules
              PROVE  sched'[t].st = sched[t].st /\ sched'[t].running = sched[t].running
            BY <1>6, <3>2 DEF UpdateSchedule, Toggle, IntervalOver, Schedule
        <3> QED
            BY <3>1, <3>3
    <2> QED
        BY <1>1, <2>1, QuietStep DEF Holds
<1>7. CASE BeginTick \/ \E s \in Schedules : BeginManual(s)
    BY <1>2, <1>7 DEF BeginTick, BeginManual, Acquire, dbVars, jobVars, envVars
<1> QED
    BY <1>2, <1>5, <1>6, <1>7, LifeSlot, AdHocSlot, JobEndsSlot, CrashSlot
    DEF Next, Web, dbVars, jobVars, execVars, envVars, vars

\* A fresh installation has no slot and no backup.
LEMMA InitSlot == Init => Slots!SlotInit
<1> SUFFICES ASSUME Init PROVE Slots!SlotInit
    OBVIOUS
<1>1. \A s \in Schedules : SlotOf(s) = "none" /\ WorkOf(s) = {}
    BY DEF Init, SlotOf, WorkOf, Holds
<1> QED
    BY <1>1 DEF Slots!SlotInit

\* The two transactions, the polls, the handlers, the jobs, every exception and a restart
\* (schedule_executor.py:227-476, job_manager.py:35-150) implement one slot for one backup.
THEOREM SlotsImplemented == Spec => ImplementsSlots
<1>1. Init => RefInv
    BY InitInv DEF RefInv, HeldInv, Init
<1>2. RefInv /\ [Next]_vars => RefInv'
    BY NextInv, HeldStep DEF RefInv
<1>3. RefInv /\ RefInv' /\ [Next]_vars => [Slots!SlotNext]_(Slots!vars)
    BY StepSlot DEF Implements
<1> QED
    BY <1>1, <1>2, <1>3, InitSlot, PTL DEF Spec, ImplementsSlots, Slots!SlotSpec
=============================================================================
