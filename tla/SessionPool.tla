---------------------------- MODULE SessionPool ----------------------------
(***************************************************************************)
(* The agent's pool of SSH sessions (client/pool.py), the sessions with    *)
(* their command queues (client/session.py) and the handlers of the        *)
(* command and connect requests.                                           *)
(*                                                                         *)
(* Everything runs on one asyncio event loop.  A coroutine that awaits     *)
(* something unfinished gives the loop away; until then it runs alone.     *)
(* "loop" is the actor whose turn is under way: the steps of one turn are  *)
(* separate actions, but nobody else acts between them.  Whether an await  *)
(* suspends is taken from the code: the key lock never does, because the   *)
(* section under it creates a session without awaiting anything.           *)
(***************************************************************************)
EXTENDS Integers, Sequences, FiniteSets

CONSTANTS
    NReq,       \* HTTP requests to the agent, numbered as they arrive
    Keys,       \* session keys: protocol://user@ip:port
    Variants,   \* the parameters is_same compares: vendor, model, passwords
    QueueSize,  \* queue_size: commands a session queues
    IdleLimit,  \* whether the session profile has max_idle_time
    Batches,    \* how many commands a request may bring; 0 is a connect
    MaxRounds   \* bound: rounds of the monitor

ASSUME PoolAssumption ==
    /\ NReq \in Nat /\ QueueSize \in Nat \ {0}
    /\ Batches \subseteq Nat /\ MaxRounds \in Nat
    /\ IdleLimit \in BOOLEAN

VARIABLES
    loop,       \* the actor whose turn it is, or Nobody
    pc,         \* where each actor is
    on,         \* the session each actor holds a reference to
    asked,      \* what each request asks for
    left,       \* commands it has still to send
    pool,       \* _pool: key -> session
    ses,        \* every session ever created
    mon         \* the monitor's loops over the pool

vars == <<loop, pc, on, asked, left, pool, ses, mon>>

Requests  == 1..NReq
Sessions  == 1..NReq       \* a request creates one session at most
NoSession == 0
Monitor   == 0
Actors    == Requests \cup {Monitor}
Nobody    == -1
None      == "none"

Asks  == [key : Keys, made : Variants, cmds : Batches]
NoAsk == [key |-> None, made |-> None, cmds |-> 0]

\* A session not created yet.
Unborn == [key |-> None, made |-> None, init |-> "none", chan |-> "none",
           closing |-> FALSE, stale |-> FALSE,
           consumer |-> "none", queue |-> <<>>, current |-> Nobody]
-----------------------------------------------------------------------------
Pooled      == {pool[k] : k \in Keys} \ {NoSession}
Pending(s)  == ses[s].init = "pending"
IsAlive(s)  == ses[s].chan \in {"none", "open"}
Unfinished(s) == ses[s].queue # <<>> \/ ses[s].current # Nobody
IsIdle(s)   == ~Unfinished(s)
NeverUsed(s) == IdleLimit /\ ses[s].chan = "none"     \* _last_use is None
IsSame(r, s) == asked[r].made = ses[s].made

\* The future _init_task_done wakes those who await it in the order they
\* came: the creator first, then the others, with no other turn in between.
Creating(s) == \E r \in Requests : pc[r] = "init" /\ on[r] = s
Woken == {a \in Actors : /\ pc[a] \in {"alive", "ping", "display"} /\ on[a] # NoSession
                         /\ ~Pending(on[a]) /\ ~Creating(on[a])}

Turn(a)    == loop = Nobody /\ (Woken = {} \/ a \in Woken)
Resumed(a) == loop = a \/ (loop = Nobody /\ a \in Woken)

\* What comes from a socket or a timer comes after the turns that are ready,
\* and a cancelled consumer is ready.
CancelDue(s) == ses[s].closing /\ ses[s].consumer = "on"
LoopEvent == loop = Nobody /\ Woken = {} /\ \A s \in Sessions : ~CancelDue(s)

\* The actor goes on, gives the loop away, or is finished.
Go(a, label)   == pc' = [pc EXCEPT ![a] = label] /\ loop' = a
Yield(a, label) == pc' = [pc EXCEPT ![a] = label] /\ loop' = Nobody
Respond(r) == /\ Yield(r, "done")
              /\ on' = [on EXCEPT ![r] = NoSession]
              /\ asked' = [asked EXCEPT ![r] = NoAsk]
              /\ left' = [left EXCEPT ![r] = 0]
-----------------------------------------------------------------------------
\* get_session looks the key up; is_alive awaits the end of a pending init.
Arrive(r) ==
    /\ Turn(r) /\ pc[r] = "new" /\ \A q \in 1..(r - 1) : pc[q] # "new"
    /\ \E ask \in Asks :
        LET s == pool[ask.key] IN
        /\ asked' = [asked EXCEPT ![r] = ask]
        /\ left' = [left EXCEPT ![r] = ask.cmds]
        /\ on' = [on EXCEPT ![r] = s]
        /\ IF s = NoSession THEN Go(r, "get")
           ELSE IF Pending(s) THEN Yield(r, "alive") ELSE Go(r, "alive")
    /\ UNCHANGED <<pool, ses, mon>>

\* _handle_closed_session: whatever session the pool has under this key goes,
\* the consumer is cancelled, and close waits for the queue to be worked off,
\* for one second at most.  Without a consumer, or with nothing unfinished, it
\* waits for nothing.
MustJoin(s) == ses[s].consumer # "none" /\ Unfinished(s)
Shut(chan)  == IF chan = "none" THEN "none" ELSE "closed"
Close(a, s, stale, next) ==
    /\ pool' = [pool EXCEPT ![ses[s].key] = NoSession]
    /\ ses' = [ses EXCEPT ![s].closing = TRUE, ![s].stale = stale,
                          ![s].chan = IF MustJoin(s) THEN @ ELSE Shut(@)]
    /\ IF MustJoin(s) THEN Yield(a, "close") ELSE Go(a, next)

\* Seeded fault: close gives up on a queue that is not worked off.
CloseEndLeaves(a) ==
    /\ Turn(a) /\ pc[a] = "close"
    /\ ses[on[a]].consumer = "stopped"
    /\ Go(a, IF a = Monitor THEN "check" ELSE "get")
    /\ UNCHANGED <<on, asked, left, pool, ses, mon>>

\* A cancel reaches the consumer long before the second is over.
CloseEnd(a) ==
    /\ Turn(a) /\ pc[a] = "close"
    /\ ses[on[a]].consumer = "stopped"
    /\ ses' = [ses EXCEPT ![on[a]].chan = Shut(@)]
    /\ Go(a, IF a = Monitor THEN "check" ELSE "get")
    /\ UNCHANGED <<on, asked, left, pool, mon>>

\* Seeded fault: a session with other parameters is closed though it works.
JudgeClosesBusy(r) ==
    /\ pc[r] = "alive" /\ Resumed(r)
    /\ \E stale \in BOOLEAN :
        /\ ~IsAlive(on[r]) \/ stale \/ (~NeverUsed(on[r]) /\ ~IsSame(r, on[r]))
        /\ Close(r, on[r], stale, "get")
    /\ UNCHANGED <<on, asked, left, mon>>

\* _get_session_by_key and get_session judge the session.  Whether it is stale
\* (past expiration_time or max_idle_time) depends on the clock.
JudgeCloses(r) ==
    /\ pc[r] = "alive" /\ Resumed(r)
    /\ \E stale \in BOOLEAN :
        /\ ~IsAlive(on[r]) \/ stale
           \/ (~NeverUsed(on[r]) /\ ~IsSame(r, on[r]) /\ IsIdle(on[r]))
        /\ Close(r, on[r], stale, "get")
    /\ UNCHANGED <<on, asked, left, mon>>

\* check_idle_time raises when there is no first use to subtract.
JudgeRaises(r) ==
    /\ pc[r] = "alive" /\ Resumed(r) /\ NeverUsed(on[r])
    /\ Respond(r)
    /\ UNCHANGED <<pool, ses, mon>>

JudgeRefuses(r) ==
    /\ pc[r] = "alive" /\ Resumed(r) /\ IsAlive(on[r]) /\ ~NeverUsed(on[r])
    /\ ~IsSame(r, on[r]) /\ ~IsIdle(on[r])
    /\ Respond(r)
    /\ UNCHANGED <<pool, ses, mon>>

JudgeAccepts(r) ==
    /\ pc[r] = "alive" /\ Resumed(r) /\ IsAlive(on[r]) /\ ~NeverUsed(on[r])
    /\ IsSame(r, on[r])
    /\ Go(r, "send")
    /\ UNCHANGED <<on, asked, left, pool, ses, mon>>

\* Under the key lock: what another request put into the pool meanwhile is
\* taken as it is; else a session is created, and its init awaited.
Reuse(r) ==
    /\ loop = r /\ pc[r] = "get" /\ pool[asked[r].key] # NoSession
    /\ on' = [on EXCEPT ![r] = pool[asked[r].key]]
    /\ Go(r, "send")
    /\ UNCHANGED <<asked, left, pool, ses, mon>>

Create(r) ==
    /\ loop = r /\ pc[r] = "get" /\ pool[asked[r].key] = NoSession
    /\ \E s \in Sessions :
        /\ ses[s].init = "none" /\ \A t \in 1..(s - 1) : ses[t].init # "none"
        /\ ses' = [ses EXCEPT ![s].key = asked[r].key, ![s].made = asked[r].made,
                              ![s].init = "pending"]
        /\ pool' = [pool EXCEPT ![asked[r].key] = s]
        /\ on' = [on EXCEPT ![r] = s]
    /\ Yield(r, "init")
    /\ UNCHANGED <<asked, left, mon>>

\* No plugin for the vendor, or a parameter the session refuses.
CreateRaises(r) ==
    /\ loop = r /\ pc[r] = "get" /\ pool[asked[r].key] = NoSession
    /\ Respond(r)
    /\ UNCHANGED <<pool, ses, mon>>

\* Seeded fault: a session that failed stays in the pool.
InitFailedKeeps(r) ==
    /\ Turn(r) /\ pc[r] = "init" /\ ses[on[r]].init = "failed"
    /\ Respond(r)
    /\ UNCHANGED <<pool, ses, mon>>

InitFailed(r) ==
    /\ Turn(r) /\ pc[r] = "init" /\ ses[on[r]].init = "failed"
    /\ pool' = [pool EXCEPT ![asked[r].key] = NoSession]
    /\ Respond(r)
    /\ UNCHANGED <<ses, mon>>
-----------------------------------------------------------------------------
\* A request has its session, or its next command to send: the creator when
\* the init is done, a batch when the last command is answered.
HasSession(r) ==
    \/ loop = r /\ pc[r] = "send"
    \/ Turn(r) /\ pc[r] = "init" /\ ses[on[r]].init = "ok"
    \/ Turn(r) /\ pc[r] = "answered" /\ left[r] > 0

\* The connect handler asks the session once more whether it is alive.
Ping(r) ==
    /\ HasSession(r) /\ asked[r].cmds = 0
    /\ IF Pending(on[r]) THEN Yield(r, "ping") /\ UNCHANGED <<on, asked, left>>
                         ELSE Respond(r)
    /\ UNCHANGED <<pool, ses, mon>>

Pong(r) ==
    /\ r \in Woken /\ loop = Nobody /\ pc[r] = "ping"
    /\ Respond(r)
    /\ UNCHANGED <<pool, ses, mon>>

\* Seeded fault: the queue has no limit.
RefusesClosing(s) == ses[s].closing

\* send_cmd: a closing session and a full queue refuse the command.
Refuses(s) == ses[s].closing \/ Len(ses[s].queue) >= QueueSize

Send(r) ==
    /\ HasSession(r) /\ asked[r].cmds > 0 /\ ~Refuses(on[r])
    /\ ses' = [ses EXCEPT ![on[r]].queue = Append(@, r)]
    /\ left' = [left EXCEPT ![r] = @ - 1]
    /\ Yield(r, "wait")
    /\ UNCHANGED <<on, asked, pool, mon>>

SendRefused(r) ==
    /\ HasSession(r) /\ asked[r].cmds > 0 /\ Refuses(on[r])
    /\ Respond(r)
    /\ UNCHANGED <<pool, ses, mon>>

\* The response: after the last command, or after one that failed if the
\* request does not say to continue.
Finish(r) ==
    /\ Turn(r) /\ pc[r] = "answered"
    /\ Respond(r)
    /\ UNCHANGED <<pool, ses, mon>>
-----------------------------------------------------------------------------
\* _async_init: the channel is created, then the session initialised; only a
\* success starts the consumer of the queue.
InitSucceeds(s) ==
    /\ LoopEvent /\ Pending(s)
    /\ ses' = [ses EXCEPT ![s].init = "ok", ![s].chan = "open", ![s].consumer = "on"]
    /\ UNCHANGED <<loop, pc, on, asked, left, pool, mon>>

InitFails(s) ==
    /\ LoopEvent /\ Pending(s)
    /\ \E c \in {"none", "open", "dead"} :
          ses' = [ses EXCEPT ![s].init = "failed", ![s].chan = c]
    /\ UNCHANGED <<loop, pc, on, asked, left, pool, mon>>

\* _consume_cmd_queue.  After a command the consumer takes the next one, if
\* there is one, in the same turn.
NextCommand(rec) == IF rec.queue = <<>> THEN [rec EXCEPT !.current = Nobody]
              ELSE [rec EXCEPT !.current = Head(rec.queue), !.queue = Tail(@)]
Serving(s) == ses[s].consumer = "on" /\ ~ses[s].closing

Take(s) ==
    /\ LoopEvent /\ Serving(s) /\ ses[s].current = Nobody /\ ses[s].queue # <<>>
    /\ ses' = [ses EXCEPT ![s] = NextCommand(@)]
    /\ UNCHANGED <<loop, pc, on, asked, left, pool, mon>>

\* Seeded fault: the consumer ends with the first command.
AnswerStops(s) ==
    /\ LoopEvent /\ Serving(s) /\ ses[s].current # Nobody
    /\ pc' = [pc EXCEPT ![ses[s].current] = "answered"]
    /\ ses' = [ses EXCEPT ![s].current = Nobody, ![s].consumer = "stopped"]
    /\ UNCHANGED <<loop, on, asked, left, pool, mon>>

\* The command is over: with its output, an error or its own timeout.
Answer(s) ==
    /\ LoopEvent /\ Serving(s) /\ ses[s].current # Nobody
    /\ pc' = [pc EXCEPT ![ses[s].current] = "answered"]
    /\ ses' = [ses EXCEPT ![s] = NextCommand(@)]
    /\ UNCHANGED <<loop, on, asked, left, pool, mon>>

\* Seeded fault: the cancelled command is not answered.
CancelledUnanswered(s) ==
    /\ loop = Nobody /\ Woken = {} /\ CancelDue(s)
    /\ ses' = [ses EXCEPT ![s].consumer = "stopped", ![s].current = Nobody]
    /\ UNCHANGED <<loop, pc, on, asked, left, pool, mon>>

\* close cancelled the consumer: the command that runs is answered with a
\* timeout, those in the queue are not looked at again.
Cancelled(s) ==
    /\ loop = Nobody /\ Woken = {} /\ CancelDue(s)
    /\ IF ses[s].current = Nobody THEN UNCHANGED pc
       ELSE pc' = [pc EXCEPT ![ses[s].current] = "answered"]
    /\ ses' = [ses EXCEPT ![s].consumer = "stopped", ![s].current = Nobody]
    /\ UNCHANGED <<loop, on, asked, left, pool, mon>>

ChannelDies(s) ==
    /\ LoopEvent /\ ~Pending(s) /\ ses[s].chan = "open"
    /\ ses' = [ses EXCEPT ![s].chan = "dead"]
    /\ UNCHANGED <<loop, pc, on, asked, left, pool, mon>>

-----------------------------------------------------------------------------
\* monitor_sessions.  The display loop iterates the dict itself: sessions are
\* numbered in the order of insertion, "seen" is the last one displayed and
\* "more" how many the iterator still has.  A dict that changed meanwhile
\* makes it raise, and nothing restarts the monitor.
MonitorWakes ==
    /\ Turn(Monitor) /\ pc[Monitor] = "idle" /\ mon.rounds < MaxRounds
    /\ mon' = [seen |-> 0, size |-> Cardinality(Pooled), more |-> Cardinality(Pooled),
               keys |-> {}, rounds |-> mon.rounds + 1]
    /\ Go(Monitor, "display")
    /\ UNCHANGED <<on, asked, left, pool, ses>>

Ahead == {s \in Pooled : s > mon.seen}
DictChanged == mon.size # Cardinality(Pooled) \/ (Ahead # {} /\ mon.more = 0)

DisplayRow ==
    /\ pc[Monitor] = "display" /\ Resumed(Monitor) /\ ~DictChanged
    /\ \E s \in Ahead :
        /\ \A t \in Ahead : s <= t
        /\ mon' = [mon EXCEPT !.seen = s, !.more = @ - 1]
        /\ on' = [on EXCEPT ![Monitor] = s]
        /\ IF Pending(s) THEN Yield(Monitor, "display") ELSE Go(Monitor, "display")
    /\ UNCHANGED <<asked, left, pool, ses>>

DisplayRaises ==
    /\ pc[Monitor] = "display" /\ Resumed(Monitor) /\ DictChanged
    /\ Yield(Monitor, "dead")
    /\ on' = [on EXCEPT ![Monitor] = NoSession]
    /\ UNCHANGED <<asked, left, pool, ses, mon>>

\* _remove_closed_sessions works on a copy of the keys.
DisplayEnds ==
    /\ pc[Monitor] = "display" /\ Resumed(Monitor) /\ ~DictChanged /\ Ahead = {}
    /\ mon' = [mon EXCEPT !.keys = {k \in Keys : pool[k] # NoSession}]
    /\ Go(Monitor, "check")
    /\ UNCHANGED <<on, asked, left, pool, ses>>

CheckKey(k) ==
    /\ loop = Monitor /\ pc[Monitor] = "check" /\ k \in mon.keys
    /\ mon' = [mon EXCEPT !.keys = @ \ {k}]
    /\ on' = [on EXCEPT ![Monitor] = pool[k]]
    /\ IF pool[k] = NoSession THEN Go(Monitor, "check")
       ELSE IF Pending(pool[k]) THEN Yield(Monitor, "alive") ELSE Go(Monitor, "alive")
    /\ UNCHANGED <<asked, left, pool, ses>>

RemoveClosed ==
    /\ pc[Monitor] = "alive" /\ Resumed(Monitor)
    /\ IF IsAlive(on[Monitor]) THEN Go(Monitor, "check") /\ UNCHANGED <<pool, ses>>
       ELSE Close(Monitor, on[Monitor], FALSE, "check")
    /\ UNCHANGED <<on, asked, left, mon>>

MonitorSleeps ==
    /\ loop = Monitor /\ pc[Monitor] = "check" /\ mon.keys = {}
    /\ Yield(Monitor, "idle")
    /\ on' = [on EXCEPT ![Monitor] = NoSession]
    /\ mon' = [mon EXCEPT !.seen = 0, !.size = 0, !.more = 0]
    /\ UNCHANGED <<asked, left, pool, ses>>
-----------------------------------------------------------------------------
Init ==
    /\ loop = Nobody
    /\ pc = [a \in Actors |-> IF a = Monitor THEN "idle" ELSE "new"]
    /\ on = [a \in Actors |-> NoSession]
    /\ asked = [r \in Requests |-> NoAsk]
    /\ left = [r \in Requests |-> 0]
    /\ pool = [k \in Keys |-> NoSession]
    /\ ses = [s \in Sessions |-> Unborn]
    /\ mon = [seen |-> 0, size |-> 0, more |-> 0, keys |-> {}, rounds |-> 0]

\* What a request does once it has arrived.
RequestStep(r) ==
    \/ CloseEnd(r) \/ JudgeRaises(r) \/ JudgeCloses(r) \/ JudgeRefuses(r) \/ JudgeAccepts(r)
    \/ Reuse(r) \/ Create(r) \/ CreateRaises(r) \/ InitFailed(r)
    \/ Ping(r) \/ Pong(r) \/ Send(r) \/ SendRefused(r) \/ Finish(r)

InitEnds(s)     == InitSucceeds(s) \/ InitFails(s)
ConsumerStep(s) == Take(s) \/ Answer(s) \/ Cancelled(s)

MonitorStep ==
    \/ DisplayRow \/ DisplayRaises \/ DisplayEnds
    \/ (\E k \in Keys : CheckKey(k)) \/ RemoveClosed \/ CloseEnd(Monitor)
    \/ MonitorSleeps

Next ==
    \/ \E r \in Requests : Arrive(r) \/ RequestStep(r)
    \/ \E s \in Sessions : InitEnds(s) \/ ConsumerStep(s) \/ ChannelDies(s)
    \/ MonitorWakes \/ MonitorStep

Spec == Init /\ [][Next]_vars

\* The event loop never rests while a task is ready, and connections, logins
\* and commands have timeouts.
Progress ==
    \/ \E r \in Requests : RequestStep(r)
    \/ \E s \in Sessions : InitEnds(s) \/ ConsumerStep(s)
    \/ MonitorStep
FairSpec == Spec /\ WF_vars(Progress)
-----------------------------------------------------------------------------
\* Types; a queue never holds more than QueueSize commands.
TypeOK ==
    /\ loop \in Actors \cup {Nobody}
    /\ pc \in [Actors -> {"new", "alive", "close", "get", "init", "send", "ping", "wait",
                          "answered", "done", "idle", "display", "check", "dead"}]
    /\ on \in [Actors -> Sessions \cup {NoSession}]
    /\ asked \in [Requests -> Asks \cup {NoAsk}]
    /\ left \in [Requests -> Nat]
    /\ pool \in [Keys -> Sessions \cup {NoSession}]
    /\ ses \in [Sessions ->
          [key : Keys \cup {None}, made : Variants \cup {None},
           init : {"none", "pending", "ok", "failed"},
           chan : {"none", "open", "dead", "closed"},
           closing : BOOLEAN, stale : BOOLEAN, consumer : {"none", "on", "stopped"},
           queue : Seq(Requests), current : Requests \cup {Nobody}]]
    /\ \A s \in Sessions : Len(ses[s].queue) <= QueueSize
    /\ mon \in [seen : Sessions \cup {0}, size : Nat, more : Nat,
                keys : SUBSET Keys, rounds : 0..MaxRounds]

\* The pool offers no session that is closing, and none whose init failed
\* once its creator has been told (pool.py:192-202, 208).
PoolOffersOpen ==
    \A s \in Pooled : ~ses[s].closing /\ (ses[s].init = "failed" => Creating(s))

\* A caller that waits has its command in one place, in the queue or under
\* execution, of the session it holds, and nobody else has one there: no
\* command is lost, doubled or answered twice, whoever closes what meanwhile.
WaitersAreQueued ==
    \A s \in Sessions, r \in Requests :
        LET places == {i \in DOMAIN ses[s].queue : ses[s].queue[i] = r}
        IN  Cardinality(places) + (IF ses[s].current = r THEN 1 ELSE 0)
            = IF pc[r] = "wait" /\ on[r] = s THEN 1 ELSE 0

\* A session that has commands is closed only because it is dead or stale,
\* never because another request brings other parameters (pool.py:127-144):
\* what is_alive and is_idle said still holds when the session is closed.
AbortOnlyUnusable ==
    [][\A s \in Sessions : ~ses[s].closing /\ ses'[s].closing /\ Unfinished(s)
                              => ~IsAlive(s) \/ ses'[s].stale]_vars

\* A caller is answered unless its session is closed or never came up.
Abandoned(s) == ses[s].closing \/ ses[s].init = "failed"
ServedUnlessAbandoned ==
    \A r \in Requests :
        pc[r] = "wait" /\ ~Abandoned(on[r]) ~> pc[r] # "wait" \/ Abandoned(on[r])

\* close ends with a closed connection, whatever became of the queue.
ClosingCloses ==
    \A s \in Sessions : ses[s].closing ~> ses[s].chan \in {"none", "closed"}

\* What the documents say: commands to one device run one after the other
\* (quick-start-agent.md:23, pool.py:20).
OneRunsPerKey ==
    \A s, t \in Sessions :
        ses[s].current # Nobody /\ ses[t].current # Nobody /\ ses[s].key = ses[t].key => s = t
=============================================================================
