------------------------- MODULE SessionPoolProofs --------------------------
(***************************************************************************)
(* Proofs about SessionPool, for any number of requests, keys and          *)
(* parameters, any sizes of queues and batches, and any rounds of the      *)
(* monitor.                                                                *)
(***************************************************************************)
EXTENDS SessionPool, FiniteSetTheorems, TLAPS

\* TypeOK by what the parts of the state belong to.
Labels == {"new", "alive", "close", "get", "init", "send", "ping", "wait",
           "answered", "done", "idle", "display", "check", "dead"}
SessionRecords ==
    [key : Keys \cup {None}, made : Variants \cup {None},
     init : {"none", "pending", "ok", "failed"},
     chan : {"none", "open", "dead", "closed"},
     closing : BOOLEAN, stale : BOOLEAN, consumer : {"none", "on", "stopped"},
     queue : Seq(Requests), current : Requests \cup {Nobody}]

TurnType == /\ loop \in Actors \cup {Nobody}
            /\ pc \in [Actors -> Labels]
            /\ on \in [Actors -> Sessions \cup {NoSession}]
AskType  == /\ asked \in [Requests -> Asks \cup {NoAsk}]
            /\ left \in [Requests -> Nat]
PoolType == pool \in [Keys -> Sessions \cup {NoSession}]
SesType  == /\ ses \in [Sessions -> SessionRecords]
            /\ \A s \in Sessions : Len(ses[s].queue) <= QueueSize
MonType  == mon \in [seen : Sessions \cup {0}, size : Nat, more : Nat,
                     keys : SUBSET Keys, rounds : 0..MaxRounds]

\* What a request holds at each place: until it has its session it asks for all
\* of its commands, and from then on it has one.
RequestTrue(r) ==
    /\ pc[r] \notin {"idle", "display", "check", "dead"}
    /\ pc[r] \notin {"new", "done"} => asked[r] \in Asks
    /\ pc[r] \in {"alive", "close", "get", "init", "send"} => left[r] = asked[r].cmds
    /\ pc[r] \notin {"new", "get", "done"} => on[r] # NoSession
    /\ pc[r] = "init" => ses[on[r]].key = asked[r].key

MonitorTrue ==
    /\ pc[Monitor] \in {"idle", "display", "check", "alive", "close", "dead"}
    /\ pc[Monitor] \in {"alive", "close"} => on[Monitor] # NoSession

\* Only sessions that were created are held or pooled, each under its own key, and
\* while one is initialised its creator waits for it.
Born ==
    /\ \A a \in Actors : on[a] # NoSession => ses[on[a]].init # "none"
    /\ \A k \in Keys : pool[k] # NoSession => /\ ses[pool[k]].init # "none"
                                              /\ ses[pool[k]].key = k
    /\ \A s \in Sessions : /\ ses[s].init = "none" => ses[s] = Unborn
                           /\ Pending(s) => Creating(s)

\* The commands of a session are different callers', and those are the callers
\* that wait on it.
In(q, r)    == \E i \in DOMAIN q : q[i] = r
Distinct(q) == \A i, j \in DOMAIN q : q[i] = q[j] => i = j
Has(rec, r) == rec.current = r \/ In(rec.queue, r)
Orderly(rec) == Distinct(rec.queue) /\ ~In(rec.queue, rec.current)
Waits(r, s) == pc[r] = "wait" /\ on[r] = s
QueueTrue(s) ==
    /\ Orderly(ses[s])
    /\ \A r \in Requests : Has(ses[s], r) <=> Waits(r, s)

PoolInv ==
    /\ TypeOK
    /\ \A r \in Requests : RequestTrue(r)
    /\ MonitorTrue /\ Born
    /\ \A s \in Sessions : QueueTrue(s)
    /\ PoolOffersOpen

-----------------------------------------------------------------------------
(* Parts of the state.                                                     *)

LEMMA TypeParts ==
    TypeOK <=> TurnType /\ AskType /\ PoolType /\ SesType /\ MonType
BY DEF TypeOK, TurnType, AskType, PoolType, SesType, MonType, Labels, SessionRecords

\* The same of the state after a step.
LEMMA TypesThen ==
    ASSUME TurnType', AskType', PoolType', SesType', MonType'
    PROVE  TypeOK'
BY DEF TypeOK, TurnType, AskType, PoolType, SesType, MonType, Labels, SessionRecords

\* Nobody, the monitor and the requests are told apart, sessions from none.
LEMMA Numbers ==
    /\ Requests = Sessions /\ Requests \subseteq Nat
    /\ Monitor \in Actors /\ Monitor \notin Requests /\ Requests \subseteq Actors
    /\ Nobody \notin Requests /\ Nobody \notin Actors /\ NoSession \notin Sessions
    /\ \A a \in Actors : a \in Requests \/ a = Monitor
BY PoolAssumption DEF Requests, Sessions, Monitor, Actors, Nobody, NoSession

LEMMA PoolParts ==
    ASSUME PoolInv
    PROVE  /\ TurnType /\ AskType /\ PoolType /\ SesType /\ MonType
           /\ \A r \in Requests : RequestTrue(r)
           /\ MonitorTrue /\ Born
           /\ \A s \in Sessions : QueueTrue(s)
           /\ PoolOffersOpen
BY TypeParts DEF PoolInv

\* The pool has finitely many sessions.
LEMMA PooledFinite == PoolType => Cardinality(Pooled) \in Nat /\ Pooled \subseteq Sessions
<1> SUFFICES ASSUME PoolType PROVE Cardinality(Pooled) \in Nat /\ Pooled \subseteq Sessions
    OBVIOUS
<1>1. Pooled \subseteq Sessions
    BY DEF PoolType, Pooled
<1>2. IsFiniteSet(Sessions)
    BY FS_Interval, PoolAssumption DEF Sessions
<1>3. IsFiniteSet(Pooled)
    BY <1>1, <1>2, FS_Subset
<1> QED
    BY <1>1, <1>3, FS_CardinalityType

\* A command joins the end of a queue.
LEMMA Joins ==
    ASSUME NEW q \in Seq(Requests), NEW r \in Requests
    PROVE  /\ Append(q, r) \in Seq(Requests) /\ Len(Append(q, r)) = Len(q) + 1
           /\ \A x : In(Append(q, r), x) <=> In(q, x) \/ x = r
           /\ Distinct(q) /\ ~In(q, r) => Distinct(Append(q, r))
<1>1. PICK p : p = Append(q, r)
    OBVIOUS
<1>2. /\ p \in Seq(Requests) /\ Len(p) = Len(q) + 1 /\ Len(q) \in Nat
      /\ DOMAIN q = 1..Len(q) /\ DOMAIN p = 1..(Len(q) + 1)
      /\ \A i \in 1..Len(q) : p[i] = q[i]
      /\ p[Len(q) + 1] = r
    BY <1>1
<1>3. \A x : In(p, x) <=> In(q, x) \/ x = r
    BY <1>2 DEF In
<1>4. Distinct(q) /\ ~In(q, r) => Distinct(p)
    BY <1>2 DEF Distinct, In
<1> QED
    BY <1>1, <1>2, <1>3, <1>4

\* The first command leaves a queue.
LEMMA Leaves ==
    ASSUME NEW q \in Seq(Requests), q # <<>>
    PROVE  /\ Head(q) \in Requests /\ Tail(q) \in Seq(Requests) /\ Len(Tail(q)) <= Len(q)
           /\ \A x : In(q, x) <=> In(Tail(q), x) \/ x = Head(q)
           /\ Distinct(q) => Distinct(Tail(q)) /\ ~In(Tail(q), Head(q))
<1>1. PICK p : p = Tail(q)
    OBVIOUS
<1>2. PICK h : h = Head(q)
    OBVIOUS
<1>3. /\ p \in Seq(Requests) /\ Len(p) = Len(q) - 1 /\ Len(q) \in Nat /\ Len(q) > 0
      /\ DOMAIN q = 1..Len(q) /\ DOMAIN p = 1..(Len(q) - 1)
      /\ \A i \in 1..(Len(q) - 1) : p[i] = q[i + 1]
      /\ h = q[1] /\ h \in Requests
    BY <1>1, <1>2
<1>4. \A x : In(p, x) => In(q, x)
    BY <1>3 DEF In
<1>5. ASSUME NEW x, In(q, x) PROVE In(p, x) \/ x = h
    <2>1. PICK i \in 1..Len(q) : q[i] = x
        BY <1>3, <1>5 DEF In
    <2>2. CASE i = 1
        BY <1>3, <2>1, <2>2
    <2>3. CASE i # 1
        <3>1. i - 1 \in 1..(Len(q) - 1) /\ p[i - 1] = q[(i - 1) + 1] /\ (i - 1) + 1 = i
            BY <1>3, <2>3
        <3> QED
            BY <1>3, <2>1, <3>1 DEF In
    <2> QED
        BY <2>2, <2>3
<1>6. In(q, h)
    BY <1>3 DEF In
<1>7. ASSUME Distinct(q) PROVE Distinct(p) /\ ~In(p, h)
    <2>1. ASSUME NEW i \in DOMAIN p, NEW j \in DOMAIN p, p[i] = p[j] PROVE i = j
        <3>1. i + 1 \in DOMAIN q /\ j + 1 \in DOMAIN q /\ q[i + 1] = q[j + 1]
            BY <1>3, <2>1
        <3>2. i + 1 = j + 1
            BY <1>7, <3>1 DEF Distinct
        <3> QED
            BY <1>3, <2>1, <3>2
    <2>2. ASSUME NEW i \in DOMAIN p, p[i] = h PROVE FALSE
        <3>1. i + 1 \in DOMAIN q /\ 1 \in DOMAIN q /\ q[i + 1] = q[1]
            BY <1>3, <2>2
        <3>2. i + 1 = 1
            BY <1>7, <3>1 DEF Distinct
        <3> QED
            BY <1>3, <2>2, <3>2
    <2> QED
        BY <2>1, <2>2 DEF Distinct, In
<1> QED
    BY <1>1, <1>2, <1>3, <1>4, <1>5, <1>6, <1>7

-----------------------------------------------------------------------------
(* Steps of one actor that create no session and move no command.          *)

\* What closing and the death of a channel leave of a session.
Alike(rec, old) == /\ rec.key = old.key /\ rec.init = old.init
                   /\ rec.queue = old.queue /\ rec.current = old.current

\* Who waits on what, and who creates what, is decided by the actor that steps.
LEMMA ActorStep ==
    ASSUME PoolInv, NEW a \in Actors,
           TurnType', AskType', PoolType', SesType', MonType',
           \A b \in Actors \ {a} : pc'[b] = pc[b] /\ on'[b] = on[b],
           \A r \in Requests \ {a} : asked'[r] = asked[r] /\ left'[r] = left[r],
           \A k \in Keys : pool'[k] = pool[k] \/ pool'[k] = NoSession,
           \A s \in Sessions : /\ Alike(ses'[s], ses[s])
                               /\ ses[s].init = "none" => ses'[s] = ses[s],
           \A s \in Sessions : ses'[s].closing => \/ ses[s].closing
                                                  \/ \A k \in Keys : pool'[k] # s,
           a \in Requests => RequestTrue(a)',
           a = Monitor => MonitorTrue',
           on'[a] # NoSession => ses[on'[a]].init # "none",
           a \in Requests => \A s \in Sessions :
               (pc'[a] = "wait" /\ on'[a] = s) <=> (pc[a] = "wait" /\ on[a] = s),
           pc[a] = "init" => \/ pc'[a] = "init" /\ on'[a] = on[a]
                             \/ ses[on[a]].init = "ok"
                             \/ /\ ses[on[a]].init = "failed"
                                /\ \A k \in Keys : pool'[k] # on[a]
    PROVE  PoolInv'
<1>1. /\ TurnType /\ PoolType /\ SesType /\ MonitorTrue /\ Born /\ PoolOffersOpen
      /\ \A r \in Requests : RequestTrue(r)
      /\ \A s \in Sessions : QueueTrue(s)
    BY PoolParts
<1>2. TypeOK'
    BY TypesThen
<1>3. ASSUME NEW r \in Requests PROVE RequestTrue(r)'
    <2>1. CASE r = a
        BY <1>3, <2>1
    <2>2. CASE r # a
        <3>1. /\ pc'[r] = pc[r] /\ on'[r] = on[r] /\ asked'[r] = asked[r] /\ left'[r] = left[r]
              /\ RequestTrue(r)
            BY <1>1, <2>2, Numbers
        <3>2. pc[r] = "init" => on[r] \in Sessions
            BY <1>1, <3>1, Numbers DEF RequestTrue, TurnType
        <3>3. pc[r] = "init" => ses'[on[r]].key = ses[on[r]].key
            BY <3>2 DEF Alike
        <3> QED
            BY <3>1, <3>3 DEF RequestTrue
    <2> QED
        BY <2>1, <2>2
<1>4. MonitorTrue'
    BY <1>1, Numbers DEF MonitorTrue
<1>5. ASSUME NEW s \in Sessions, Creating(s), Pending(s) \/ ses[s].init = "failed"
      PROVE  \/ Creating(s)'
             \/ ses[s].init = "failed" /\ \A k \in Keys : pool'[k] # s
    <2>1. PICK r \in Requests : pc[r] = "init" /\ on[r] = s
        BY <1>5 DEF Creating
    <2>2. CASE r = a
        BY <1>5, <2>1, <2>2 DEF Pending, Creating
    <2>3. CASE r # a
        BY <2>1, <2>3, Numbers DEF Creating
    <2> QED
        BY <2>2, <2>3
<1>6. Born'
    <2>1. ASSUME NEW b \in Actors, on'[b] # NoSession PROVE ses'[on'[b]].init # "none"
        <3>1. on'[b] \in Sessions
            BY <2>1 DEF TurnType
        <3>2. ses[on'[b]].init # "none"
            BY <1>1, <2>1 DEF Born
        <3> QED
            BY <3>1, <3>2 DEF Alike
    <2>2. ASSUME NEW k \in Keys, pool'[k] # NoSession
          PROVE  ses'[pool'[k]].init # "none" /\ ses'[pool'[k]].key = k
        <3>1. pool'[k] = pool[k] /\ pool[k] \in Sessions
            BY <1>1, <2>2 DEF PoolType
        <3> QED
            BY <1>1, <2>2, <3>1 DEF Born, Alike
    <2>3. ASSUME NEW s \in Sessions, ses'[s].init = "none" PROVE ses'[s] = Unborn
        BY <1>1, <2>3 DEF Born, Alike
    <2>4. ASSUME NEW s \in Sessions, Pending(s)' PROVE Creating(s)'
        <3>1. Pending(s)
            BY <2>4 DEF Pending, Alike
        <3> QED
            BY <1>1, <1>5, <3>1 DEF Born, Pending
    <2> QED
        BY <2>1, <2>2, <2>3, <2>4 DEF Born
<1>7. ASSUME NEW s \in Sessions PROVE QueueTrue(s)'
    <2>1. QueueTrue(s) /\ Alike(ses'[s], ses[s])
        BY <1>1
    <2>2. ASSUME NEW r \in Requests PROVE Waits(r, s)' <=> Waits(r, s)
        BY Numbers DEF Waits
    <2>3. Orderly(ses'[s])
        BY <2>1 DEF QueueTrue, Orderly, Alike
    <2>4. ASSUME NEW r \in Requests PROVE Has(ses'[s], r) <=> Has(ses[s], r)
        BY <2>1 DEF Has, Alike
    <2> QED
        BY <2>1, <2>2, <2>3, <2>4 DEF QueueTrue
<1>8. PoolOffersOpen'
    <2>1. ASSUME NEW s \in Pooled'
          PROVE  ~ses'[s].closing /\ (ses'[s].init = "failed" => Creating(s)')
        <3>1. PICK k \in Keys : pool'[k] = s /\ s # NoSession
            BY <2>1 DEF Pooled
        <3>2. s \in Sessions /\ s \in Pooled
            BY <1>1, <3>1 DEF PoolType, Pooled
        <3>3. ~ses[s].closing /\ (ses[s].init = "failed" => Creating(s))
            BY <1>1, <3>2 DEF PoolOffersOpen
        <3>4. ~ses'[s].closing
            BY <3>1, <3>2, <3>3
        <3>5. ses'[s].init = "failed" => Creating(s)'
            BY <1>5, <3>1, <3>2, <3>3 DEF Alike
        <3> QED
            BY <3>4, <3>5
    <2> QED
        BY <2>1 DEF PoolOffersOpen
<1> QED
    BY <1>2, <1>3, <1>4, <1>6, <1>7, <1>8 DEF PoolInv

\* A step that leaves the pool and the sessions alone.
LEMMA ActorMoves ==
    ASSUME PoolInv, NEW a \in Actors, TurnType', AskType', MonType',
           UNCHANGED <<pool, ses>>,
           \A b \in Actors \ {a} : pc'[b] = pc[b] /\ on'[b] = on[b],
           \A r \in Requests \ {a} : asked'[r] = asked[r] /\ left'[r] = left[r],
           a \in Requests => RequestTrue(a)',
           a = Monitor => MonitorTrue',
           on'[a] # NoSession => ses[on'[a]].init # "none",
           a \in Requests => pc[a] # "wait" /\ pc'[a] # "wait",
           pc[a] = "init" => ses[on[a]].init = "ok"
    PROVE  PoolInv'
<1>1. PoolType' /\ SesType'
    BY PoolParts DEF PoolType, SesType
<1>2. \A s \in Sessions : Alike(ses'[s], ses[s]) /\ (ses[s].init = "none" => ses'[s] = ses[s])
    BY DEF Alike
<1> QED
    BY <1>1, <1>2, ActorStep

\* The response: the request is over, wherever it was.
LEMMA Responds ==
    ASSUME PoolInv, NEW r \in Requests, Respond(r), UNCHANGED <<ses, mon>>, PoolType',
           \A k \in Keys : pool'[k] = pool[k] \/ pool'[k] = NoSession,
           pc[r] # "wait",
           pc[r] = "init" => \/ ses[on[r]].init = "ok"
                             \/ /\ ses[on[r]].init = "failed"
                                /\ \A k \in Keys : pool'[k] # on[r]
    PROVE  PoolInv'
<1>1. TurnType /\ AskType /\ SesType /\ MonType /\ PoolOffersOpen
    BY PoolParts
<1>2. TurnType' /\ AskType' /\ SesType' /\ MonType'
    BY <1>1, Numbers DEF Respond, Yield, TurnType, AskType, SesType, MonType, Labels
<1>3. /\ pc'[r] = "done" /\ on'[r] = NoSession
      /\ \A b \in Actors \ {r} : pc'[b] = pc[b] /\ on'[b] = on[b]
      /\ \A q \in Requests \ {r} : asked'[q] = asked[q] /\ left'[q] = left[q]
    BY <1>1, Numbers DEF Respond, Yield, TurnType, AskType
<1>4. RequestTrue(r)'
    BY <1>3 DEF RequestTrue
<1>5. \A s \in Sessions : Alike(ses'[s], ses[s]) /\ (ses[s].init = "none" => ses'[s] = ses[s])
    BY DEF Alike
<1> QED
    BY <1>2, <1>3, <1>4, <1>5, ActorStep, Numbers

\* A request goes on with the session it has.
LEMMA RequestGoes ==
    ASSUME PoolInv, NEW r \in Requests, NEW label \in Labels,
           pc' = [pc EXCEPT ![r] = label], loop' \in {r, Nobody},
           UNCHANGED <<on, asked, left, pool, ses, mon>>,
           label \in {"send", "ping"} /\ on[r] # NoSession /\ asked[r] \in Asks,
           label = "send" => left[r] = asked[r].cmds,
           pc[r] # "wait", pc[r] = "init" => ses[on[r]].init = "ok"
    PROVE  PoolInv'
<1>1. TurnType /\ AskType /\ MonType /\ Born
    BY PoolParts
<1>2. TurnType' /\ AskType' /\ MonType'
    BY <1>1, Numbers DEF TurnType, AskType, MonType
<1>3. /\ pc'[r] = label /\ on'[r] = on[r]
      /\ \A b \in Actors \ {r} : pc'[b] = pc[b] /\ on'[b] = on[b]
    BY <1>1, Numbers DEF TurnType
<1>4. RequestTrue(r)'
    BY <1>3 DEF RequestTrue
<1>5. on'[r] # NoSession => ses[on'[r]].init # "none"
    BY <1>1, <1>3, Numbers DEF Born
<1>6. r \in Actors /\ r # Monitor /\ pc'[r] # "wait"
    BY <1>3, Numbers
<1> QED
    BY <1>2, <1>3, <1>4, <1>5, <1>6, ActorMoves

\* A request arrives, or takes what it finds in the pool.
LEMMA ArriveKeeps == ASSUME PoolInv, NEW r \in Requests, Arrive(r) PROVE PoolInv'
<1>1. /\ TurnType /\ AskType /\ MonType /\ PoolType /\ Born /\ r \in Actors /\ r # Monitor
      /\ Batches \subseteq Nat
    BY PoolParts, Numbers, PoolAssumption
<1>2. PICK ask \in Asks :
        /\ asked' = [asked EXCEPT ![r] = ask] /\ left' = [left EXCEPT ![r] = ask.cmds]
        /\ on' = [on EXCEPT ![r] = pool[ask.key]]
        /\ IF pool[ask.key] = NoSession THEN Go(r, "get")
           ELSE IF Pending(pool[ask.key]) THEN Yield(r, "alive") ELSE Go(r, "alive")
        /\ pc[r] = "new" /\ UNCHANGED <<pool, ses, mon>>
    BY DEF Arrive
<1>3. ask.key \in Keys /\ ask.cmds \in Nat
    BY <1>1, <1>2 DEF Asks
<1>4. PICK s \in Sessions \cup {NoSession} : s = pool[ask.key]
    BY <1>1, <1>3 DEF PoolType
<1>5. PICK label \in {"get", "alive"} : /\ pc' = [pc EXCEPT ![r] = label]
                                        /\ loop' \in {r, Nobody}
                                        /\ label = "alive" => s # NoSession
    BY <1>2, <1>4 DEF Go, Yield
<1>6. TurnType' /\ AskType' /\ MonType'
    BY <1>1, <1>2, <1>3, <1>4, <1>5 DEF TurnType, AskType, MonType, Labels
<1>7. /\ pc'[r] = label /\ on'[r] = s /\ asked'[r] = ask /\ left'[r] = ask.cmds
      /\ \A b \in Actors \ {r} : pc'[b] = pc[b] /\ on'[b] = on[b]
      /\ \A q \in Requests \ {r} : asked'[q] = asked[q] /\ left'[q] = left[q]
    BY <1>1, <1>2, <1>4, <1>5 DEF TurnType, AskType
<1>8. RequestTrue(r)'
    BY <1>5, <1>7 DEF RequestTrue
<1>9. on'[r] # NoSession => ses[on'[r]].init # "none"
    BY <1>1, <1>3, <1>4, <1>7 DEF Born
<1>10. pc'[r] # "wait" /\ pc[r] # "wait" /\ pc[r] # "init"
    BY <1>2, <1>7
<1> QED
    BY <1>1, <1>2, <1>6, <1>7, <1>8, <1>9, <1>10, ActorMoves

LEMMA ReuseKeeps == ASSUME PoolInv, NEW r \in Requests, Reuse(r) PROVE PoolInv'
<1>1. /\ TurnType /\ AskType /\ MonType /\ PoolType /\ Born /\ r \in Actors /\ r # Monitor
      /\ RequestTrue(r)
    BY PoolParts, Numbers
<1>2. /\ pc[r] = "get" /\ asked[r] \in Asks /\ asked[r].key \in Keys
      /\ left[r] = asked[r].cmds
    BY <1>1 DEF Reuse, RequestTrue, Asks
<1>3. PICK s \in Sessions : s = pool[asked[r].key]
    BY <1>1, <1>2 DEF Reuse, PoolType
<1>4. /\ pc' = [pc EXCEPT ![r] = "send"] /\ loop' = r /\ on' = [on EXCEPT ![r] = s]
      /\ UNCHANGED <<asked, left, pool, ses, mon>>
    BY <1>3 DEF Reuse, Go
<1>5. TurnType' /\ AskType' /\ MonType'
    BY <1>1, <1>4 DEF TurnType, AskType, MonType, Labels
<1>6. /\ pc'[r] = "send" /\ on'[r] = s
      /\ \A b \in Actors \ {r} : pc'[b] = pc[b] /\ on'[b] = on[b]
    BY <1>1, <1>3, <1>4 DEF TurnType
<1>7. RequestTrue(r)'
    BY <1>2, <1>3, <1>4, <1>6, Numbers DEF RequestTrue
<1>8. ses[on'[r]].init # "none"
    BY <1>1, <1>2, <1>3, <1>6, Numbers DEF Born
<1> QED
    BY <1>1, <1>2, <1>4, <1>5, <1>6, <1>7, <1>8, ActorMoves

\* Changing what closing changes leaves a record of a session.
LEMMA RecordChanges ==
    ASSUME NEW old \in SessionRecords, NEW new
    PROVE  /\ \A c \in BOOLEAN : new = [old EXCEPT !.closing = c] =>
                 new \in SessionRecords /\ Alike(new, old) /\ new.closing = c
           /\ \A st \in BOOLEAN : new = [old EXCEPT !.stale = st] =>
                 /\ new \in SessionRecords /\ Alike(new, old)
                 /\ new.closing = old.closing /\ new.stale = st
           /\ \A ch \in {"none", "open", "dead", "closed"} : new = [old EXCEPT !.chan = ch] =>
                 /\ new \in SessionRecords /\ Alike(new, old)
                 /\ new.closing = old.closing /\ new.stale = old.stale
BY DEF SessionRecords, Alike

\* What close does to the session.
LEMMA CloseSession ==
    ASSUME PoolInv, NEW a \in Actors, NEW s \in Sessions, NEW stale \in BOOLEAN,
           NEW next, Close(a, s, stale, next)
    PROVE  /\ SesType'
           /\ \A t \in Sessions \ {s} : ses'[t] = ses[t]
           /\ Alike(ses'[s], ses[s]) /\ ses'[s].closing /\ ses'[s].stale = stale
<1>1. SesType
    BY PoolParts
<1>2. PICK old \in SessionRecords : old = ses[s]
    BY <1>1 DEF SesType
<1>3. PICK chan \in {"none", "open", "dead", "closed"} :
        chan = IF MustJoin(s) THEN ses[s].chan ELSE Shut(ses[s].chan)
    BY <1>1 DEF SesType, SessionRecords, Shut
<1>4. ses' = [ses EXCEPT ![s].closing = TRUE, ![s].stale = stale, ![s].chan = chan]
    BY <1>1, <1>3 DEF Close, SesType, SessionRecords
<1>5. PICK first : first = [old EXCEPT !.closing = TRUE]
    OBVIOUS
<1>6. PICK second : second = [first EXCEPT !.stale = stale]
    OBVIOUS
<1>7. PICK new : new = [second EXCEPT !.chan = chan]
    OBVIOUS
<1>8. first \in SessionRecords /\ Alike(first, old) /\ first.closing = TRUE
    BY <1>5, RecordChanges
<1>9. /\ second \in SessionRecords /\ Alike(second, first)
      /\ second.closing = first.closing /\ second.stale = stale
    BY <1>6, <1>8, RecordChanges
<1>10. /\ new \in SessionRecords /\ Alike(new, second)
       /\ new.closing = second.closing /\ new.stale = second.stale
    BY <1>7, <1>9, RecordChanges
<1>11. ses' = [ses EXCEPT ![s] = new]
    BY <1>1, <1>2, <1>4, <1>5, <1>6, <1>7 DEF SesType
<1>12. ses'[s] = new /\ \A t \in Sessions \ {s} : ses'[t] = ses[t]
    BY <1>1, <1>11 DEF SesType
<1>13. Alike(new, ses[s]) /\ new.closing = TRUE /\ new.stale = stale
    BY <1>2, <1>8, <1>9, <1>10 DEF Alike
<1>14. SesType'
    BY <1>1, <1>10, <1>11, <1>12, <1>13 DEF SesType, Alike
<1> QED
    BY <1>12, <1>13, <1>14

\* Closing takes the session out of the pool, and whatever has its key.
LEMMA CloseKeeps ==
    ASSUME PoolInv, NEW a \in Actors, pc[a] = "alive", NEW stale \in BOOLEAN,
           NEW next \in {"get", "check"}, a = Monitor <=> next = "check",
           Close(a, on[a], stale, next), UNCHANGED <<on, asked, left, mon>>
    PROVE  PoolInv'
<1>1. /\ TurnType /\ AskType /\ MonType /\ PoolType /\ SesType /\ Born /\ MonitorTrue
      /\ a \in Requests => RequestTrue(a)
    BY PoolParts
<1>2. PICK s \in Sessions : s = on[a]
    BY <1>1, Numbers DEF TurnType, RequestTrue, MonitorTrue
<1>3. /\ SesType'
      /\ \A t \in Sessions \ {s} : ses'[t] = ses[t]
      /\ Alike(ses'[s], ses[s])
    BY <1>2, CloseSession
<1>4. PICK label \in {"close", next} : pc' = [pc EXCEPT ![a] = label] /\ loop' \in {a, Nobody}
    BY DEF Close, Yield, Go
<1>5. TurnType' /\ AskType' /\ MonType'
    BY <1>1, <1>4 DEF TurnType, AskType, MonType, Labels
<1>6. /\ PoolType'
      /\ \A k \in Keys : pool'[k] = pool[k] \/ pool'[k] = NoSession
    BY <1>1 DEF Close, PoolType
<1>7. /\ pc'[a] = label /\ on'[a] = s
      /\ \A b \in Actors \ {a} : pc'[b] = pc[b] /\ on'[b] = on[b]
    BY <1>1, <1>2, <1>4 DEF TurnType
<1>8. ses[s].init # "none"
    BY <1>1, <1>2, Numbers DEF Born
<1>9. \A t \in Sessions : /\ Alike(ses'[t], ses[t])
                          /\ ses[t].init = "none" => ses'[t] = ses[t]
    BY <1>3, <1>8 DEF Alike
<1>10. \A k \in Keys : pool'[k] # s
    BY <1>1, <1>2, Numbers DEF Close, PoolType, Born
<1>11. \A t \in Sessions : ses'[t].closing => ses[t].closing \/ \A k \in Keys : pool'[k] # t
    BY <1>3, <1>10
<1>12. a \in Requests => RequestTrue(a)'
    <2>1. CASE a \in Requests
        <3>1. label \in {"close", "get"}
            BY <2>1, <1>4, Numbers
        <3> QED
            BY <1>1, <1>2, <1>7, <2>1, <3>1, Numbers DEF RequestTrue
    <2> QED
        BY <2>1
<1>13. a = Monitor => MonitorTrue'
    BY <1>2, <1>7, Numbers DEF MonitorTrue
<1>14. a \in Requests => \A t \in Sessions :
           (pc'[a] = "wait" /\ on'[a] = t) <=> (pc[a] = "wait" /\ on[a] = t)
    BY <1>7
<1>15. on'[a] # NoSession => ses[on'[a]].init # "none"
    BY <1>7, <1>8
<1>16. pc[a] # "init" /\ \A q \in Requests \ {a} : asked'[q] = asked[q] /\ left'[q] = left[q]
    OBVIOUS
<1> QED
    BY <1>3, <1>5, <1>6, <1>7, <1>9, <1>11, <1>12, <1>13, <1>14, <1>15, <1>16, ActorStep

\* A closed session is let go of.
LEMMA CloseEndKeeps == ASSUME PoolInv, NEW a \in Actors, CloseEnd(a) PROVE PoolInv'
<1>1. /\ TurnType /\ AskType /\ MonType /\ PoolType /\ SesType /\ Born /\ MonitorTrue
      /\ a \in Requests => RequestTrue(a)
    BY PoolParts
<1>2. PICK s \in Sessions : s = on[a]
    BY <1>1, Numbers DEF TurnType, RequestTrue, MonitorTrue, CloseEnd
<1>3. PICK old \in SessionRecords : old = ses[s]
    BY <1>1 DEF SesType
<1>4. PICK chan \in {"none", "open", "dead", "closed"} : chan = Shut(old.chan)
    BY <1>3 DEF SessionRecords, Shut
<1>5. PICK new : new = [key |-> old.key, made |-> old.made, init |-> old.init,
                        chan |-> chan, closing |-> old.closing, stale |-> old.stale,
                        consumer |-> old.consumer, queue |-> old.queue,
                        current |-> old.current]
    OBVIOUS
<1>6. ses' = [ses EXCEPT ![s].chan = chan]
    BY <1>1, <1>2, <1>3, <1>4 DEF CloseEnd, SesType
<1>7. [old EXCEPT !.chan = chan] = new
    BY <1>3, <1>5 DEF SessionRecords
<1>8. ses' = [ses EXCEPT ![s] = new]
    BY <1>1, <1>3, <1>6, <1>7 DEF SesType
<1>9. new \in SessionRecords
    BY <1>3, <1>4, <1>5 DEF SessionRecords
<1>10. ses'[s] = new /\ \A t \in Sessions \ {s} : ses'[t] = ses[t]
    BY <1>1, <1>8 DEF SesType
<1>11. SesType'
    BY <1>1, <1>3, <1>5, <1>8, <1>9, <1>10 DEF SesType
<1>12. ses[s].init # "none"
    BY <1>1, <1>2, Numbers DEF Born
<1>13. \A t \in Sessions : /\ Alike(ses'[t], ses[t])
                           /\ ses[t].init = "none" => ses'[t] = ses[t]
                           /\ ses'[t].closing => ses[t].closing
    BY <1>3, <1>5, <1>10, <1>12 DEF Alike
<1>14. PICK label \in {"get", "check"} : /\ label = "check" <=> a = Monitor
                                         /\ pc' = [pc EXCEPT ![a] = label] /\ loop' = a
    BY DEF CloseEnd, Go
<1>15. TurnType' /\ AskType' /\ MonType' /\ PoolType' /\ UNCHANGED <<on, asked, left, pool>>
    BY <1>1, <1>14 DEF CloseEnd, TurnType, AskType, MonType, PoolType, Labels
<1>16. /\ pc'[a] = label /\ on'[a] = s /\ pc[a] = "close"
       /\ \A b \in Actors \ {a} : pc'[b] = pc[b] /\ on'[b] = on[b]
    BY <1>1, <1>2, <1>14 DEF TurnType, CloseEnd
<1>17. a \in Requests => RequestTrue(a)'
    BY <1>1, <1>2, <1>14, <1>15, <1>16, Numbers DEF RequestTrue
<1>18. a = Monitor => MonitorTrue'
    BY <1>14, <1>16 DEF MonitorTrue
<1>19. a \in Requests => \A t \in Sessions :
           (pc'[a] = "wait" /\ on'[a] = t) <=> (pc[a] = "wait" /\ on[a] = t)
    BY <1>14, <1>16
<1>20. /\ \A t \in Sessions : ses'[t].closing => ses[t].closing \/ \A k \in Keys : pool'[k] # t
       /\ \A k \in Keys : pool'[k] = pool[k] \/ pool'[k] = NoSession
       /\ \A q \in Requests \ {a} : asked'[q] = asked[q] /\ left'[q] = left[q]
       /\ \A t \in Sessions : /\ Alike(ses'[t], ses[t])
                              /\ ses[t].init = "none" => ses'[t] = ses[t]
       /\ on'[a] # NoSession => ses[on'[a]].init # "none"
       /\ pc[a] # "init"
    BY <1>12, <1>13, <1>15, <1>16
<1> QED
    BY <1>11, <1>15, <1>16, <1>17, <1>18, <1>19, <1>20, ActorStep

\* Who has its session has one that came up, and commands left if it asks for any.
LEMMA SessionHeld ==
    ASSUME PoolInv, NEW r \in Requests, HasSession(r)
    PROVE  /\ on[r] \in Sessions /\ asked[r] \in Asks /\ pc[r] # "wait"
           /\ pc[r] = "init" => ses[on[r]].init = "ok"
           /\ asked[r].cmds > 0 => left[r] > 0
<1>1. TurnType /\ AskType /\ RequestTrue(r) /\ Numbers
    BY PoolParts, Numbers
<1>2. pc[r] \in {"send", "init", "answered"} /\ (pc[r] = "init" => ses[on[r]].init = "ok")
    BY DEF HasSession
<1>3. on[r] \in Sessions /\ asked[r] \in Asks
    BY <1>1, <1>2, Numbers DEF RequestTrue, TurnType
<1>4. asked[r].cmds > 0 => left[r] > 0
    BY <1>1, <1>2 DEF HasSession, RequestTrue
<1> QED
    BY <1>2, <1>3, <1>4

\* The steps of a request that end it or let it go on.
LEMMA RequestKeeps ==
    ASSUME PoolInv, NEW r \in Requests,
           \/ JudgeRaises(r) \/ JudgeCloses(r) \/ JudgeRefuses(r) \/ JudgeAccepts(r)
           \/ CloseEnd(r) \/ Reuse(r) \/ CreateRaises(r) \/ InitFailed(r)
           \/ Ping(r) \/ Pong(r) \/ SendRefused(r) \/ Finish(r)
    PROVE  PoolInv'
<1>1. /\ TurnType /\ AskType /\ PoolType /\ SesType /\ Born /\ RequestTrue(r) /\ r \in Actors
      /\ r # Monitor
    BY PoolParts, Numbers
<1>2. ASSUME Respond(r), UNCHANGED <<pool, ses, mon>>, pc[r] # "wait",
             pc[r] = "init" => ses[on[r]].init = "ok"
      PROVE  PoolInv'
    <2>1. PoolType' /\ \A k \in Keys : pool'[k] = pool[k]
        BY <1>1, <1>2 DEF PoolType
    <2> QED
        BY <1>2, <2>1, Responds
<1>3. CASE JudgeRaises(r)
    BY <1>2, <1>3 DEF JudgeRaises
<1>4. CASE JudgeRefuses(r)
    BY <1>2, <1>4 DEF JudgeRefuses
<1>5. CASE CreateRaises(r)
    BY <1>2, <1>5 DEF CreateRaises
<1>6. CASE Pong(r)
    BY <1>2, <1>6 DEF Pong
<1>7. CASE Finish(r)
    BY <1>2, <1>7 DEF Finish
<1>8. CASE SendRefused(r)
    <2>1. HasSession(r) /\ Respond(r) /\ UNCHANGED <<pool, ses, mon>>
        BY <1>8 DEF SendRefused
    <2> QED
        BY <1>2, <2>1, SessionHeld
<1>9. CASE InitFailed(r)
    <2>1. /\ Respond(r) /\ pc[r] = "init" /\ ses[on[r]].init = "failed" /\ UNCHANGED <<ses, mon>>
          /\ pool' = [pool EXCEPT ![asked[r].key] = NoSession]
        BY <1>9 DEF InitFailed
    <2>2. /\ asked[r].key \in Keys /\ on[r] \in Sessions /\ on[r] # NoSession
          /\ ses[on[r]].key = asked[r].key
        BY <1>1, <2>1, Numbers DEF RequestTrue, TurnType, Asks
    <2>3. PoolType' /\ \A k \in Keys : pool'[k] = pool[k] \/ pool'[k] = NoSession
        BY <1>1, <2>1 DEF PoolType
    <2>4. \A k \in Keys : pool'[k] # on[r]
        BY <1>1, <2>1, <2>2 DEF PoolType, Born
    <2> QED
        BY <2>1, <2>3, <2>4, Responds
<1>10. CASE Ping(r)
    <2>1. HasSession(r) /\ UNCHANGED <<pool, ses, mon>>
        BY <1>10 DEF Ping
    <2>2. CASE Pending(on[r])
        BY <1>1, <1>10, <2>1, <2>2, SessionHeld, RequestGoes, Numbers DEF Ping, Yield, Labels
    <2>3. CASE ~Pending(on[r])
        <3>1. Respond(r)
            BY <1>10, <2>3 DEF Ping
        <3> QED
            BY <1>2, <2>1, <3>1, SessionHeld
    <2> QED
        BY <2>2, <2>3
<1>11. CASE JudgeAccepts(r)
    <2>1. on[r] # NoSession /\ asked[r] \in Asks /\ left[r] = asked[r].cmds /\ pc[r] = "alive"
        BY <1>1, <1>11 DEF JudgeAccepts, RequestTrue
    <2>2. /\ pc' = [pc EXCEPT ![r] = "send"] /\ loop' \in {r, Nobody} /\ "send" \in Labels
          /\ UNCHANGED <<on, asked, left, pool, ses, mon>>
        BY <1>11 DEF JudgeAccepts, Go, Labels
    <2> QED
        BY <2>1, <2>2, RequestGoes
<1>12. CASE JudgeCloses(r)
    <2>1. PICK stale \in BOOLEAN : Close(r, on[r], stale, "get")
        BY <1>12 DEF JudgeCloses
    <2>2. pc[r] = "alive" /\ UNCHANGED <<on, asked, left, mon>>
        BY <1>12 DEF JudgeCloses
    <2>3. PICK next \in {"get", "check"} : next = "get"
        OBVIOUS
    <2> QED
        BY <1>1, <2>1, <2>2, <2>3, CloseKeeps
<1> QED
    BY <1>1, <1>3, <1>4, <1>5, <1>6, <1>7, <1>8, <1>9, <1>10, <1>11, <1>12,
       CloseEndKeeps, ReuseKeeps

-----------------------------------------------------------------------------
(* The monitor.                                                            *)

LEMMA MonitorKeeps ==
    ASSUME PoolInv, MonitorWakes \/ MonitorStep
    PROVE  PoolInv'
<1>1. /\ TurnType /\ AskType /\ PoolType /\ SesType /\ MonType /\ Born /\ MonitorTrue
      /\ Monitor \in Actors /\ Monitor \notin Requests
      /\ Cardinality(Pooled) \in Nat /\ Pooled \subseteq Sessions
    BY PoolParts, Numbers, PooledFinite
<1>2. ASSUME NEW label \in {"idle", "display", "check", "alive", "dead"},
             pc' = [pc EXCEPT ![Monitor] = label], loop' \in {Monitor, Nobody},
             NEW s \in Sessions \cup {NoSession}, on' = [on EXCEPT ![Monitor] = s],
             s # NoSession => ses[s].init # "none", label = "alive" => s # NoSession,
             MonType', UNCHANGED <<asked, left, pool, ses>>
      PROVE  PoolInv'
    <2>1. TurnType' /\ AskType'
        BY <1>1, <1>2 DEF TurnType, AskType, Labels
    <2>2. /\ pc'[Monitor] = label /\ on'[Monitor] = s
          /\ \A b \in Actors \ {Monitor} : pc'[b] = pc[b] /\ on'[b] = on[b]
        BY <1>1, <1>2 DEF TurnType
    <2>3. MonitorTrue' /\ pc[Monitor] # "init"
        BY <1>1, <1>2, <2>2 DEF MonitorTrue
    <2> QED
        BY <1>1, <1>2, <2>1, <2>2, <2>3, ActorMoves
<1>3. /\ on = [on EXCEPT ![Monitor] = on[Monitor]]
      /\ on[Monitor] \in Sessions \cup {NoSession}
      /\ on[Monitor] # NoSession => ses[on[Monitor]].init # "none"
    BY <1>1 DEF TurnType, Born
<1>4. CASE MonitorWakes
    <2>1. MonType'
        BY <1>1, <1>4, PoolAssumption DEF MonitorWakes, MonType
    <2>2. /\ pc' = [pc EXCEPT ![Monitor] = "display"] /\ loop' = Monitor
          /\ UNCHANGED <<on, asked, left, pool, ses>>
        BY <1>4 DEF MonitorWakes, Go
    <2> QED
        BY <1>2, <1>3, <2>1, <2>2
<1>5. CASE DisplayRow
    <2>1. PICK s \in Ahead : /\ mon' = [mon EXCEPT !.seen = s, !.more = @ - 1]
                             /\ on' = [on EXCEPT ![Monitor] = s]
                             /\ pc' = [pc EXCEPT ![Monitor] = "display"]
                             /\ loop' \in {Monitor, Nobody}
        BY <1>5 DEF DisplayRow, Go, Yield
    <2>2. mon.more # 0 /\ s \in Sessions /\ s \in Pooled
        BY <1>1, <1>5, <2>1 DEF DisplayRow, DictChanged, Ahead
    <2>3. MonType'
        <3>1. PICK n \in Nat : n = mon.more - 1
            BY <1>1, <2>2 DEF MonType
        <3>2. mon' = [seen |-> s, size |-> mon.size, more |-> n, keys |-> mon.keys,
                      rounds |-> mon.rounds]
            BY <1>1, <2>1, <3>1 DEF MonType
        <3> QED
            BY <1>1, <2>2, <3>2 DEF MonType
    <2>4. ses[s].init # "none"
        BY <1>1, <2>2 DEF Pooled, Born
    <2>5. UNCHANGED <<asked, left, pool, ses>>
        BY <1>5 DEF DisplayRow
    <2> QED
        BY <1>2, <2>1, <2>2, <2>3, <2>4, <2>5
<1>6. CASE DisplayRaises
    <2>1. /\ pc' = [pc EXCEPT ![Monitor] = "dead"] /\ loop' = Nobody
          /\ on' = [on EXCEPT ![Monitor] = NoSession]
          /\ UNCHANGED <<asked, left, pool, ses, mon>>
        BY <1>6 DEF DisplayRaises, Yield
    <2> QED
        BY <1>1, <1>2, <2>1 DEF MonType
<1>7. CASE DisplayEnds
    <2>1. MonType'
        BY <1>1, <1>7 DEF DisplayEnds, MonType
    <2>2. /\ pc' = [pc EXCEPT ![Monitor] = "check"] /\ loop' = Monitor
          /\ UNCHANGED <<on, asked, left, pool, ses>>
        BY <1>7 DEF DisplayEnds, Go
    <2> QED
        BY <1>2, <1>3, <2>1, <2>2
<1>8. ASSUME NEW k \in Keys, CheckKey(k) PROVE PoolInv'
    <2>1. MonType'
        BY <1>1, <1>8 DEF CheckKey, MonType
    <2>2. PICK s \in Sessions \cup {NoSession} : s = pool[k]
        BY <1>1 DEF PoolType
    <2>3. PICK label \in {"check", "alive"} : /\ pc' = [pc EXCEPT ![Monitor] = label]
                                              /\ loop' \in {Monitor, Nobody}
                                              /\ label = "alive" => s # NoSession
        BY <1>8, <2>2 DEF CheckKey, Go, Yield
    <2>4. /\ on' = [on EXCEPT ![Monitor] = s] /\ UNCHANGED <<asked, left, pool, ses>>
        BY <1>8, <2>2 DEF CheckKey
    <2>5. s # NoSession => ses[s].init # "none"
        BY <1>1, <2>2 DEF Born
    <2> QED
        BY <1>2, <2>1, <2>2, <2>3, <2>4, <2>5
<1>9. CASE RemoveClosed
    <2>1. CASE IsAlive(on[Monitor])
        <3>1. /\ pc' = [pc EXCEPT ![Monitor] = "check"] /\ loop' = Monitor
              /\ UNCHANGED <<on, asked, left, pool, ses, mon>>
            BY <1>9, <2>1 DEF RemoveClosed, Go
        <3> QED
            BY <1>1, <1>2, <1>3, <3>1 DEF MonType
    <2>2. CASE ~IsAlive(on[Monitor])
        <3>1. /\ Close(Monitor, on[Monitor], FALSE, "check") /\ pc[Monitor] = "alive"
              /\ UNCHANGED <<on, asked, left, mon>>
            BY <1>9, <2>2 DEF RemoveClosed
        <3>2. PICK next \in {"get", "check"} : next = "check"
            OBVIOUS
        <3>3. PICK stale \in BOOLEAN : Close(Monitor, on[Monitor], stale, next)
            BY <3>1, <3>2
        <3> QED
            BY <1>1, <3>1, <3>2, <3>3, CloseKeeps
    <2> QED
        BY <2>1, <2>2
<1>10. CASE MonitorSleeps
    <2>1. MonType'
        BY <1>1, <1>10 DEF MonitorSleeps, MonType
    <2>2. /\ pc' = [pc EXCEPT ![Monitor] = "idle"] /\ loop' = Nobody
          /\ on' = [on EXCEPT ![Monitor] = NoSession]
          /\ UNCHANGED <<asked, left, pool, ses>>
        BY <1>10 DEF MonitorSleeps, Yield
    <2> QED
        BY <1>2, <2>1, <2>2
<1> QED
    BY <1>1, <1>4, <1>5, <1>6, <1>7, <1>8, <1>9, <1>10, CloseEndKeeps DEF MonitorStep

-----------------------------------------------------------------------------
(* Sessions are created and commands move.                                 *)

LEMMA CreateKeeps == ASSUME PoolInv, NEW r \in Requests, Create(r) PROVE PoolInv'
<1>1. /\ TurnType /\ AskType /\ PoolType /\ SesType /\ MonType /\ Born /\ MonitorTrue
      /\ PoolOffersOpen /\ RequestTrue(r) /\ r \in Actors /\ r # Monitor
      /\ \A q \in Requests : RequestTrue(q)
      /\ \A t \in Sessions : QueueTrue(t)
    BY PoolParts, Numbers
<1>2. /\ pc[r] = "get" /\ asked[r] \in Asks /\ left[r] = asked[r].cmds
      /\ asked[r].key \in Keys /\ asked[r].made \in Variants
      /\ pool[asked[r].key] = NoSession
    BY <1>1 DEF Create, RequestTrue, Asks
<1>3. PICK s \in Sessions :
        /\ ses[s].init = "none"
        /\ ses' = [ses EXCEPT ![s].key = asked[r].key, ![s].made = asked[r].made,
                              ![s].init = "pending"]
        /\ pool' = [pool EXCEPT ![asked[r].key] = s]
        /\ on' = [on EXCEPT ![r] = s]
    BY DEF Create
<1>4. /\ pc' = [pc EXCEPT ![r] = "init"] /\ loop' = Nobody
      /\ UNCHANGED <<asked, left, mon>>
    BY DEF Create, Yield
<1>5. PICK new : /\ ses' = [ses EXCEPT ![s] = new]
                 /\ new \in SessionRecords
                 /\ new.key = asked[r].key /\ new.init = "pending" /\ ~new.closing
                 /\ new.queue = <<>> /\ new.current = Nobody
    <2>1. PICK old : old = Unborn
        OBVIOUS
    <2>2. old \in SessionRecords /\ old.queue = <<>> /\ old.current = Nobody
        BY <2>1 DEF Unborn, SessionRecords
    <2>3. ~old.closing
        BY <2>1 DEF Unborn
    <2>4. ses[s] = old
        BY <1>1, <1>3, <2>1 DEF Born
    <2>5. PICK first : first = [old EXCEPT !.key = asked[r].key]
        OBVIOUS
    <2>6. PICK second : second = [first EXCEPT !.made = asked[r].made]
        OBVIOUS
    <2>7. PICK new : new = [second EXCEPT !.init = "pending"]
        OBVIOUS
    <2>8. ses' = [ses EXCEPT ![s] = new]
        BY <1>1, <1>3, <2>4, <2>5, <2>6, <2>7 DEF SesType
    <2>9. /\ first \in SessionRecords /\ first.key = asked[r].key
          /\ first.queue = <<>> /\ first.current = Nobody /\ first.closing = old.closing
        BY <1>2, <2>2, <2>5 DEF SessionRecords
    <2>10. /\ second \in SessionRecords /\ second.key = asked[r].key
           /\ second.queue = <<>> /\ second.current = Nobody /\ second.closing = first.closing
        BY <1>2, <2>6, <2>9 DEF SessionRecords
    <2>11. /\ new \in SessionRecords /\ new.key = asked[r].key /\ new.init = "pending"
           /\ new.queue = <<>> /\ new.current = Nobody /\ new.closing = second.closing
        BY <2>7, <2>10 DEF SessionRecords
    <2> QED
        BY <2>3, <2>8, <2>9, <2>10, <2>11
<1>6. ses[s] = Unborn
    BY <1>1, <1>3 DEF Born
<1>7. PICK changed : changed = [ses EXCEPT ![s] = new]
    OBVIOUS
<1>8. ses' = changed
    BY <1>5, <1>7
<1>9. changed[s] = new /\ \A t \in Sessions \ {s} : changed[t] = ses[t]
    BY <1>1, <1>7 DEF SesType
<1>10. new \in SessionRecords /\ Len(new.queue) <= QueueSize
    BY <1>5, PoolAssumption
<1>11. TurnType' /\ AskType' /\ PoolType' /\ SesType' /\ MonType'
    <2>1. TurnType' /\ AskType' /\ MonType'
        BY <1>1, <1>3, <1>4 DEF TurnType, AskType, MonType, Labels
    <2>2. PoolType'
        BY <1>1, <1>2, <1>3 DEF PoolType
    <2>3. changed \in [Sessions -> SessionRecords]
        BY <1>1, <1>7, <1>10 DEF SesType
    <2>4. \A t \in Sessions : Len(changed[t].queue) <= QueueSize
        BY <1>1, <1>9, <1>10 DEF SesType
    <2> QED
        BY <1>8, <2>1, <2>2, <2>3, <2>4 DEF SesType
<1>12. /\ pc'[r] = "init" /\ on'[r] = s
       /\ \A b \in Actors \ {r} : pc'[b] = pc[b] /\ on'[b] = on[b]
    BY <1>1, <1>3, <1>4 DEF TurnType
<1>13. \A b \in Actors : on[b] # s
    BY <1>1, <1>3, Numbers DEF Born
<1>14. ASSUME NEW q \in Requests PROVE RequestTrue(q)'
    <2>1. CASE q = r
        BY <1>2, <1>4, <1>5, <1>8, <1>9, <1>12, <2>1, Numbers DEF RequestTrue
    <2>2. CASE q # r
        <3>1. pc'[q] = pc[q] /\ on'[q] = on[q] /\ on[q] # s /\ RequestTrue(q)
            BY <1>1, <1>12, <1>13, <2>2, Numbers
        <3>2. pc[q] = "init" => on[q] \in Sessions
            BY <1>1, <3>1, Numbers DEF RequestTrue, TurnType
        <3>3. pc[q] = "init" => ses'[on[q]].key = ses[on[q]].key
            BY <1>8, <1>9, <3>1, <3>2
        <3> QED
            BY <1>4, <3>1, <3>3 DEF RequestTrue
    <2> QED
        BY <2>1, <2>2
<1>15. MonitorTrue'
    BY <1>1, <1>12, Numbers DEF MonitorTrue
<1>16. ASSUME NEW t \in Sessions, Creating(t) PROVE Creating(t)'
    <2>1. PICK q \in Requests : pc[q] = "init" /\ on[q] = t
        BY <1>16 DEF Creating
    <2>2. q # r /\ q \in Actors
        BY <1>2, <2>1, Numbers
    <2> QED
        BY <1>12, <2>1, <2>2 DEF Creating
<1>17. Creating(s)'
    BY <1>12 DEF Creating
<1>18. Born'
    <2>1. ASSUME NEW b \in Actors, on'[b] # NoSession PROVE ses'[on'[b]].init # "none"
        <3>1. CASE b = r
            BY <1>5, <1>8, <1>9, <1>12, <3>1
        <3>2. CASE b # r
            <4>1. on'[b] = on[b] /\ on[b] # s /\ on[b] \in Sessions
                BY <1>1, <1>12, <1>13, <2>1, <3>2 DEF TurnType
            <4> QED
                BY <1>1, <1>8, <1>9, <2>1, <4>1 DEF Born
        <3> QED
            BY <3>1, <3>2
    <2>2. ASSUME NEW k \in Keys, pool'[k] # NoSession
          PROVE  ses'[pool'[k]].init # "none" /\ ses'[pool'[k]].key = k
        <3>1. CASE k = asked[r].key
            BY <1>1, <1>3, <1>5, <1>8, <1>9, <3>1 DEF PoolType
        <3>2. CASE k # asked[r].key
            <4>1. pool'[k] = pool[k] /\ pool[k] \in Sessions
                BY <1>1, <1>3, <2>2, <3>2 DEF PoolType
            <4>2. pool[k] # s
                BY <1>1, <1>3, <2>2, <4>1 DEF Born
            <4> QED
                BY <1>1, <1>8, <1>9, <2>2, <4>1, <4>2 DEF Born
        <3> QED
            BY <3>1, <3>2
    <2>3. ASSUME NEW t \in Sessions, ses'[t].init = "none" PROVE ses'[t] = Unborn
        BY <1>1, <1>5, <1>8, <1>9, <2>3 DEF Born
    <2>4. ASSUME NEW t \in Sessions, Pending(t)' PROVE Creating(t)'
        BY <1>1, <1>8, <1>9, <1>16, <1>17, <2>4 DEF Born, Pending
    <2> QED
        BY <2>1, <2>2, <2>3, <2>4 DEF Born
<1>19. ASSUME NEW t \in Sessions PROVE QueueTrue(t)'
    <2>1. ses'[t].queue = ses[t].queue /\ ses'[t].current = ses[t].current
        BY <1>5, <1>6, <1>8, <1>9 DEF Unborn
    <2>2. ASSUME NEW q \in Requests PROVE Waits(q, t)' <=> Waits(q, t)
        BY <1>2, <1>12, Numbers DEF Waits
    <2>3. Orderly(ses'[t]) /\ \A q \in Requests : Has(ses'[t], q) <=> Has(ses[t], q)
        BY <1>1, <2>1 DEF QueueTrue, Orderly, Has
    <2> QED
        BY <1>1, <2>2, <2>3 DEF QueueTrue
<1>20. PoolOffersOpen'
    <2>1. ASSUME NEW t \in Pooled'
          PROVE  ~ses'[t].closing /\ (ses'[t].init = "failed" => Creating(t)')
        <3>1. CASE t = s
            BY <1>5, <1>8, <1>9, <3>1
        <3>2. CASE t # s
            <4>1. t \in Pooled /\ t \in Sessions
                BY <1>1, <1>3, <2>1, <3>2 DEF Pooled, PoolType
            <4> QED
                BY <1>1, <1>8, <1>9, <1>16, <3>2, <4>1 DEF PoolOffersOpen
        <3> QED
            BY <3>1, <3>2
    <2> QED
        BY <2>1 DEF PoolOffersOpen
<1> QED
    BY <1>11, <1>14, <1>15, <1>18, <1>19, <1>20, TypesThen DEF PoolInv

\* A step of one session that exists: its callers' places may move with its commands.
LEMMA SessionStep ==
    ASSUME PoolInv, NEW s \in Sessions, ses[s].init # "none",
           NEW new \in SessionRecords, ses' = [ses EXCEPT ![s] = new],
           new.key = ses[s].key, new.init # "none", new.closing => ses[s].closing,
           new.init = "pending" => ses[s].init = "pending",
           new.init = "failed" => ses[s].init \in {"pending", "failed"},
           Len(new.queue) <= QueueSize, Orderly(new),
           TurnType', AskType', UNCHANGED <<on, asked, pool, mon>>,
           pc'[Monitor] = pc[Monitor],
           \A q \in Requests : \/ pc'[q] = pc[q] /\ left'[q] = left[q]
                               \/ RequestTrue(q)' /\ pc'[q] # "init",
           \A q \in Requests : pc[q] = "init" /\ pc'[q] # "init" => ses[on[q]].init = "ok",
           \A q \in Requests : Has(new, q) <=> (pc'[q] = "wait" /\ on[q] = s),
           \A q \in Requests : on[q] # s => (pc'[q] = "wait" <=> pc[q] = "wait")
    PROVE  PoolInv'
<1>1. /\ TurnType /\ PoolType /\ SesType /\ MonType /\ MonitorTrue /\ Born /\ PoolOffersOpen
      /\ \A r \in Requests : RequestTrue(r)
      /\ \A t \in Sessions : QueueTrue(t)
    BY PoolParts
<1>2. PICK changed : changed = [ses EXCEPT ![s] = new]
    OBVIOUS
<1>3. changed[s] = new /\ \A t \in Sessions \ {s} : changed[t] = ses[t]
    BY <1>1, <1>2 DEF SesType
<1>4. ses' = changed
    BY <1>2
<1>5. PoolType' /\ SesType' /\ MonType'
    <2>1. changed \in [Sessions -> SessionRecords]
        BY <1>1, <1>2 DEF SesType
    <2>2. \A t \in Sessions : Len(changed[t].queue) <= QueueSize
        BY <1>1, <1>3 DEF SesType
    <2> QED
        BY <1>1, <1>4, <2>1, <2>2 DEF PoolType, SesType, MonType
<1>6. \A t \in Sessions : /\ ses'[t].key = ses[t].key
                          /\ ses[t].init # "none" => ses'[t].init # "none"
                          /\ ses'[t].init = "none" => ses'[t] = ses[t]
                          /\ ses'[t].init = "pending" => ses[t].init = "pending"
                          /\ ses'[t].init = "failed" => ses[t].init \in {"pending", "failed"}
    BY <1>3, <1>4
<1>7. ASSUME NEW r \in Requests PROVE RequestTrue(r)'
    <2>1. CASE pc'[r] = pc[r] /\ left'[r] = left[r]
        <3>1. pc[r] = "init" => on[r] \in Sessions
            BY <1>1, Numbers DEF RequestTrue, TurnType
        <3>2. pc[r] = "init" => ses'[on[r]].key = ses[on[r]].key
            BY <1>6, <3>1
        <3> QED
            BY <1>1, <2>1, <3>2 DEF RequestTrue
    <2> QED
        BY <2>1
<1>8. MonitorTrue'
    BY <1>1 DEF MonitorTrue
<1>9. ASSUME NEW t \in Sessions, Creating(t), ses[t].init # "ok" PROVE Creating(t)'
    <2>1. PICK r \in Requests : pc[r] = "init" /\ on[r] = t
        BY <1>9 DEF Creating
    <2> QED
        BY <1>9, <2>1 DEF Creating
<1>10. Born'
    <2>1. ASSUME NEW b \in Actors, on'[b] # NoSession PROVE ses'[on'[b]].init # "none"
        BY <1>1, <1>6, <2>1 DEF Born, TurnType
    <2>2. ASSUME NEW k \in Keys, pool'[k] # NoSession
          PROVE  ses'[pool'[k]].init # "none" /\ ses'[pool'[k]].key = k
        BY <1>1, <1>6, <2>2 DEF Born, PoolType
    <2>3. ASSUME NEW t \in Sessions, ses'[t].init = "none" PROVE ses'[t] = Unborn
        BY <1>1, <1>6, <2>3 DEF Born
    <2>4. ASSUME NEW t \in Sessions, Pending(t)' PROVE Creating(t)'
        <3>1. ses[t].init = "pending"
            BY <1>6, <2>4 DEF Pending
        <3> QED
            BY <1>1, <1>9, <3>1 DEF Born, Pending
    <2> QED
        BY <2>1, <2>2, <2>3, <2>4 DEF Born
<1>11. ASSUME NEW t \in Sessions PROVE QueueTrue(t)'
    <2>1. CASE t = s
        BY <1>3, <1>4, <2>1 DEF QueueTrue, Waits
    <2>2. CASE t # s
        BY <1>1, <1>3, <1>4, <2>2 DEF QueueTrue, Waits
    <2> QED
        BY <2>1, <2>2
<1>12. PoolOffersOpen'
    <2>1. ASSUME NEW t \in Pooled'
          PROVE  ~ses'[t].closing /\ (ses'[t].init = "failed" => Creating(t)')
        <3>1. t \in Pooled /\ t \in Sessions
            BY <1>1, <2>1 DEF Pooled, PoolType
        <3>2. ~ses'[t].closing
            BY <1>1, <1>3, <1>4, <3>1 DEF PoolOffersOpen
        <3>3. ses[t].init \in {"pending", "failed"} => Creating(t)
            BY <1>1, <3>1 DEF PoolOffersOpen, Born, Pending
        <3> QED
            BY <1>6, <1>9, <3>1, <3>2, <3>3
    <2> QED
        BY <2>1 DEF PoolOffersOpen
<1> QED
    BY <1>5, <1>7, <1>8, <1>10, <1>11, <1>12, TypesThen DEF PoolInv

\* What else changes in the record of a session.
LEMMA RecordServes ==
    ASSUME NEW old \in SessionRecords, NEW new
    PROVE  /\ \A i \in {"none", "pending", "ok", "failed"} : new = [old EXCEPT !.init = i] =>
                 /\ new \in SessionRecords /\ new.init = i /\ new.key = old.key
                 /\ new.closing = old.closing
                 /\ new.queue = old.queue /\ new.current = old.current
           /\ \A c \in {"none", "on", "stopped"} : new = [old EXCEPT !.consumer = c] =>
                 new \in SessionRecords /\ Alike(new, old) /\ new.closing = old.closing
           /\ \A q \in Seq(Requests) : new = [old EXCEPT !.queue = q] =>
                 /\ new \in SessionRecords /\ new.init = old.init /\ new.key = old.key
                 /\ new.closing = old.closing
                 /\ new.queue = q /\ new.current = old.current
           /\ \A c \in Requests \cup {Nobody} : new = [old EXCEPT !.current = c] =>
                 /\ new \in SessionRecords /\ new.init = old.init /\ new.key = old.key
                 /\ new.closing = old.closing
                 /\ new.queue = old.queue /\ new.current = c
BY DEF SessionRecords, Alike

\* A command is queued for a caller that has none anywhere.
LEMMA SendKeeps == ASSUME PoolInv, NEW r \in Requests, Send(r) PROVE PoolInv'
<1>1. /\ TurnType /\ AskType /\ SesType /\ Born /\ r \in Actors /\ r # Monitor
      /\ RequestTrue(r) /\ \A s \in Sessions : QueueTrue(s)
    BY PoolParts, Numbers
<1>2. /\ asked[r] \in Asks /\ pc[r] # "wait" /\ left[r] > 0
      /\ pc[r] = "init" => ses[on[r]].init = "ok"
    BY SessionHeld DEF Send
<1>3. PICK s \in Sessions : s = on[r]
    BY SessionHeld DEF Send
<1>4. PICK old \in SessionRecords : old = ses[s]
    BY <1>1 DEF SesType
<1>5. PICK q \in Seq(Requests) : q = old.queue
    BY <1>4 DEF SessionRecords
<1>6. PICK p : p = Append(q, r)
    OBVIOUS
<1>7. PICK new : new = [old EXCEPT !.queue = p]
    OBVIOUS
<1>8. /\ ses' = [ses EXCEPT ![s].queue = p]
      /\ left' = [left EXCEPT ![r] = @ - 1]
      /\ pc' = [pc EXCEPT ![r] = "wait"] /\ loop' = Nobody
      /\ UNCHANGED <<on, asked, pool, mon>>
    BY <1>1, <1>3, <1>4, <1>5, <1>6 DEF Send, Yield, SesType
<1>9. ses' = [ses EXCEPT ![s] = new]
    BY <1>1, <1>4, <1>7, <1>8 DEF SesType
<1>10. \A x \in Requests : ~Waits(r, s) /\ (Has(old, x) <=> Waits(x, s)) /\ Orderly(old)
    BY <1>1, <1>2, <1>4 DEF QueueTrue, Waits
<1>11. ~In(q, r) /\ old.current # r
    BY <1>5, <1>10 DEF Has
<1>12. /\ p \in Seq(Requests) /\ Len(p) = Len(q) + 1
       /\ \A x : In(p, x) <=> In(q, x) \/ x = r
       /\ Distinct(p)
    BY <1>5, <1>6, <1>10, <1>11, Joins DEF Orderly
<1>13. /\ new \in SessionRecords /\ new.init = old.init /\ new.key = old.key
       /\ new.closing = old.closing
       /\ new.queue = p /\ new.current = old.current
    BY <1>4, <1>7, <1>12, RecordServes
<1>14. Len(p) <= QueueSize
    <2>1. ~(Len(q) >= QueueSize) /\ Len(q) \in Nat
        BY <1>3, <1>4, <1>5 DEF Send, Refuses
    <2> QED
        BY <1>12, <2>1, PoolAssumption
<1>15. Orderly(new)
    BY <1>5, <1>10, <1>11, <1>12, <1>13 DEF Orderly
<1>16. /\ pc'[r] = "wait" /\ left'[r] = left[r] - 1
       /\ \A b \in Actors \ {r} : pc'[b] = pc[b]
       /\ \A x \in Requests \ {r} : left'[x] = left[x]
    BY <1>1, <1>8 DEF TurnType, AskType
<1>17. TurnType' /\ AskType'
    BY <1>1, <1>2, <1>8 DEF TurnType, AskType, Labels
<1>18. RequestTrue(r)'
    BY <1>2, <1>3, <1>8, <1>16, Numbers DEF RequestTrue
<1>19. ASSUME NEW x \in Requests PROVE Has(new, x) <=> (pc'[x] = "wait" /\ on[x] = s)
    <2>1. CASE x = r
        BY <1>3, <1>12, <1>13, <1>16, <2>1 DEF Has
    <2>2. CASE x # r
        BY <1>5, <1>10, <1>12, <1>13, <1>16, <2>2, Numbers DEF Has, Waits
    <2> QED
        BY <2>1, <2>2
<1>20. /\ pc'[Monitor] = pc[Monitor]
       /\ \A x \in Requests : \/ pc'[x] = pc[x] /\ left'[x] = left[x]
                              \/ RequestTrue(x)' /\ pc'[x] # "init"
       /\ \A x \in Requests : pc[x] = "init" /\ pc'[x] # "init" => ses[on[x]].init = "ok"
       /\ \A x \in Requests : on[x] # s => (pc'[x] = "wait" <=> pc[x] = "wait")
    BY <1>1, <1>2, <1>3, <1>16, <1>18, Numbers
<1>21. ses[s].init # "none"
    BY <1>1, <1>3, Numbers DEF Born
<1>22. /\ new.closing => ses[s].closing
       /\ new.key = ses[s].key /\ new.init = ses[s].init /\ Len(new.queue) <= QueueSize
    BY <1>4, <1>13, <1>14
<1>23. ses[s].init \in {"none", "pending", "ok", "failed"}
    BY <1>4 DEF SessionRecords
<1> QED
    BY <1>8, <1>9, <1>13, <1>15, <1>17, <1>19, <1>20, <1>21, <1>22, <1>23, SessionStep

\* The end of an init, and the death of a channel.
LEMMA InitKeeps ==
    ASSUME PoolInv, NEW s \in Sessions, InitEnds(s) \/ ChannelDies(s) PROVE PoolInv'
<1>1. TurnType /\ AskType /\ SesType /\ Born /\ (\A t \in Sessions : QueueTrue(t))
    BY PoolParts
<1>2. PICK old \in SessionRecords : old = ses[s]
    BY <1>1 DEF SesType
<1>3. UNCHANGED <<loop, pc, on, asked, left, pool, mon>>
    BY DEF InitEnds, InitSucceeds, InitFails, ChannelDies
<1>4. TurnType' /\ AskType' /\ pc'[Monitor] = pc[Monitor]
    BY <1>1, <1>3 DEF TurnType, AskType
<1>5. ASSUME NEW new \in SessionRecords, ses' = [ses EXCEPT ![s] = new],
             ses[s].init # "none", new.init # "none", new.key = old.key,
             new.queue = old.queue, new.current = old.current, new.closing = old.closing,
             new.init = "pending" => ses[s].init = "pending",
             new.init = "failed" => ses[s].init \in {"pending", "failed"}
      PROVE  PoolInv'
    <2>1. Orderly(new) /\ Len(new.queue) <= QueueSize
        BY <1>1, <1>2, <1>5 DEF QueueTrue, Orderly, SesType
    <2>2. \A q \in Requests : Has(new, q) <=> (pc'[q] = "wait" /\ on[q] = s)
        BY <1>1, <1>2, <1>3, <1>5 DEF QueueTrue, Has, Waits
    <2>3. new.closing => ses[s].closing
        BY <1>2, <1>5
    <2> QED
        BY <1>2, <1>3, <1>4, <1>5, <2>1, <2>2, <2>3, SessionStep
<1>6. CASE InitSucceeds(s)
    <2>1. PICK first : first = [old EXCEPT !.init = "ok"]
        OBVIOUS
    <2>2. PICK second : second = [first EXCEPT !.chan = "open"]
        OBVIOUS
    <2>3. PICK new : new = [second EXCEPT !.consumer = "on"]
        OBVIOUS
    <2>4. ses' = [ses EXCEPT ![s] = new]
        BY <1>1, <1>2, <1>6, <2>1, <2>2, <2>3 DEF InitSucceeds, SesType
    <2>5. /\ first \in SessionRecords /\ first.init = "ok" /\ first.key = old.key
          /\ first.closing = old.closing
          /\ first.queue = old.queue /\ first.current = old.current
        BY <1>2, <2>1, RecordServes
    <2>6. second \in SessionRecords /\ Alike(second, first) /\ second.closing = first.closing
        BY <2>2, <2>5, RecordChanges
    <2>7. new \in SessionRecords /\ Alike(new, second) /\ new.closing = second.closing
        BY <2>3, <2>6, RecordServes
    <2>8. ses[s].init = "pending"
        BY <1>6 DEF InitSucceeds, Pending
    <2>9. new.closing = old.closing
        BY <2>5, <2>6, <2>7
    <2> QED
        BY <1>5, <2>4, <2>5, <2>6, <2>7, <2>8, <2>9 DEF Alike
<1>7. CASE InitFails(s)
    <2>1. PICK c \in {"none", "open", "dead"} :
            ses' = [ses EXCEPT ![s].init = "failed", ![s].chan = c]
        BY <1>7 DEF InitFails
    <2>2. PICK first : first = [old EXCEPT !.init = "failed"]
        OBVIOUS
    <2>3. PICK new : new = [first EXCEPT !.chan = c]
        OBVIOUS
    <2>4. ses' = [ses EXCEPT ![s] = new]
        BY <1>1, <1>2, <2>1, <2>2, <2>3 DEF SesType
    <2>5. /\ first \in SessionRecords /\ first.init = "failed" /\ first.key = old.key
          /\ first.closing = old.closing
          /\ first.queue = old.queue /\ first.current = old.current
        BY <1>2, <2>2, RecordServes
    <2>6. new \in SessionRecords /\ Alike(new, first) /\ new.closing = first.closing
        BY <2>3, <2>5, RecordChanges
    <2>7. ses[s].init = "pending"
        BY <1>7 DEF InitFails, Pending
    <2>8. new.closing = old.closing
        BY <2>5, <2>6
    <2> QED
        BY <1>5, <2>4, <2>5, <2>6, <2>7, <2>8 DEF Alike
<1>8. CASE ChannelDies(s)
    <2>1. PICK new : new = [old EXCEPT !.chan = "dead"]
        OBVIOUS
    <2>2. ses' = [ses EXCEPT ![s] = new]
        BY <1>1, <1>2, <1>8, <2>1 DEF ChannelDies, SesType
    <2>3. new \in SessionRecords /\ Alike(new, old) /\ new.closing = old.closing
        BY <1>2, <2>1, RecordChanges
    <2>4. ses[s].init # "none"
        BY <1>1, <1>8 DEF ChannelDies, Born, Unborn
    <2>5. ses[s].init \in {"none", "pending", "ok", "failed"}
        BY <1>2 DEF SessionRecords
    <2> QED
        BY <1>2, <1>5, <2>2, <2>3, <2>4, <2>5 DEF Alike
<1> QED
    BY <1>6, <1>7, <1>8 DEF InitEnds

\* The consumer takes the head of the queue, if there is one, in place of what it had.
LEMMA NextTrue ==
    ASSUME NEW old \in SessionRecords, Orderly(old), NEW new, new = NextCommand(old)
    PROVE  /\ new \in SessionRecords /\ new.key = old.key /\ new.init = old.init
           /\ new.closing = old.closing
           /\ Len(new.queue) <= Len(old.queue) /\ Orderly(new)
           /\ \A x \in Requests : Has(new, x) <=> In(old.queue, x)
<1>1. PICK q \in Seq(Requests) : q = old.queue
    BY DEF SessionRecords
<1>2. Distinct(q)
    BY <1>1 DEF Orderly
<1>3. CASE q = <<>>
    <2>1. PICK nobody \in Requests \cup {Nobody} : /\ nobody = Nobody
                                                   /\ new = [old EXCEPT !.current = nobody]
        BY <1>1, <1>3 DEF NextCommand
    <2>2. /\ new \in SessionRecords /\ new.init = old.init /\ new.key = old.key
          /\ new.closing = old.closing
          /\ new.queue = old.queue /\ new.current = Nobody
        BY <2>1, RecordServes
    <2>3. \A x : ~In(q, x)
        BY <1>3 DEF In
    <2>4. \A x \in Requests : x # Nobody
        BY Numbers
    <2>5. Len(new.queue) <= Len(old.queue)
        BY <1>1, <2>2
    <2>6. Orderly(new) /\ \A x \in Requests : Has(new, x) <=> In(old.queue, x)
        BY <1>1, <1>2, <2>2, <2>3, <2>4 DEF Orderly, Has
    <2> QED
        BY <2>2, <2>5, <2>6
<1>4. CASE q # <<>>
    <2>1. PICK h : h = Head(q)
        OBVIOUS
    <2>2. PICK p : p = Tail(q)
        OBVIOUS
    <2>3. /\ h \in Requests /\ p \in Seq(Requests) /\ Len(p) <= Len(q)
          /\ \A x : In(q, x) <=> In(p, x) \/ x = h
          /\ Distinct(p) /\ ~In(p, h)
        BY <1>2, <1>4, <2>1, <2>2, Leaves
    <2>4. PICK first : first = [old EXCEPT !.current = h]
        OBVIOUS
    <2>5. new = [first EXCEPT !.queue = p]
        BY <1>1, <1>4, <2>1, <2>2, <2>4 DEF NextCommand, SessionRecords
    <2>6. /\ first \in SessionRecords /\ first.init = old.init /\ first.key = old.key
          /\ first.closing = old.closing
          /\ first.queue = old.queue /\ first.current = h
        BY <2>3, <2>4, RecordServes
    <2>7. /\ new \in SessionRecords /\ new.init = first.init /\ new.key = first.key
          /\ new.closing = first.closing
          /\ new.queue = p /\ new.current = first.current
        BY <2>3, <2>5, <2>6, RecordServes
    <2>8. new.closing = old.closing
        BY <2>6, <2>7
    <2> QED
        BY <1>1, <2>3, <2>6, <2>7, <2>8 DEF Orderly, Has
<1> QED
    BY <1>3, <1>4

\* The consumer takes, answers or gives up a command.
LEMMA ConsumerKeeps ==
    ASSUME PoolInv, NEW s \in Sessions, ConsumerStep(s) PROVE PoolInv'
<1>1. /\ TurnType /\ AskType /\ SesType /\ Born /\ QueueTrue(s)
      /\ \A r \in Requests : RequestTrue(r)
    BY PoolParts
<1>2. PICK old \in SessionRecords : old = ses[s]
    BY <1>1 DEF SesType
<1>3. ses[s].init # "none" /\ old.init \in {"none", "pending", "ok", "failed"}
    BY <1>1, <1>2
    DEF ConsumerStep, Take, Answer, Cancelled, Serving, CancelDue, Born, Unborn, SessionRecords
<1>4. Orderly(old) /\ Len(old.queue) <= QueueSize /\ old.queue \in Seq(Requests)
    BY <1>1, <1>2 DEF QueueTrue, SesType, SessionRecords
<1>5. \A x \in Requests : Has(old, x) <=> (pc[x] = "wait" /\ on[x] = s)
    BY <1>1, <1>2 DEF QueueTrue, Waits
<1>6. UNCHANGED <<loop, on, asked, left, pool, mon>>
    BY DEF ConsumerStep, Take, Answer, Cancelled
<1>7. AskType'
    BY <1>1, <1>6 DEF AskType
<1>8. CASE Take(s)
    <2>1. PICK new : new = NextCommand(old)
        OBVIOUS
    <2>2. ses' = [ses EXCEPT ![s] = new] /\ pc' = pc /\ old.current = Nobody
        BY <1>1, <1>2, <1>8, <2>1 DEF Take, SesType
    <2>3. /\ new \in SessionRecords /\ new.key = old.key /\ new.init = old.init
          /\ new.closing = old.closing
          /\ Len(new.queue) <= Len(old.queue) /\ Orderly(new)
          /\ \A x \in Requests : Has(new, x) <=> In(old.queue, x)
        BY <1>4, <2>1, NextTrue
    <2>4. \A x \in Requests : Has(new, x) <=> (pc'[x] = "wait" /\ on[x] = s)
        BY <1>5, <2>2, <2>3, Numbers DEF Has
    <2>5. TurnType' /\ Len(new.queue) <= QueueSize
        <3>1. Len(new.queue) \in Nat /\ Len(old.queue) \in Nat
            BY <1>4, <2>3 DEF SessionRecords
        <3> QED
            BY <1>1, <1>4, <1>6, <2>2, <2>3, <3>1, PoolAssumption DEF TurnType
    <2>6. new.closing => ses[s].closing
        BY <1>2, <2>3
    <2> QED
        BY <1>2, <1>3, <1>6, <1>7, <2>2, <2>3, <2>4, <2>5, <2>6, SessionStep
<1>9. ASSUME NEW new \in SessionRecords, ses' = [ses EXCEPT ![s] = new],
             new.key = old.key, new.init = old.init, new.closing = old.closing,
             Len(new.queue) <= QueueSize, Orderly(new),
             \A x \in Requests : Has(new, x) <=> In(old.queue, x),
             NEW r \in Requests, old.current = r, pc' = [pc EXCEPT ![r] = "answered"]
      PROVE  PoolInv'
    <2>1. pc[r] = "wait" /\ on[r] = s /\ asked[r] \in Asks
        BY <1>1, <1>5, <1>9 DEF Has, RequestTrue
    <2>2. /\ pc'[r] = "answered"
          /\ \A b \in Actors \ {r} : pc'[b] = pc[b]
        BY <1>1, <1>9, Numbers DEF TurnType
    <2>3. TurnType'
        BY <1>1, <1>6, <1>9, Numbers DEF TurnType, Labels
    <2>4. RequestTrue(r)'
        BY <1>6, <2>1, <2>2, Numbers DEF RequestTrue
    <2>5. ASSUME NEW x \in Requests PROVE Has(new, x) <=> (pc'[x] = "wait" /\ on[x] = s)
        <3>1. CASE x = r
            BY <1>4, <1>9, <2>2, <3>1 DEF Orderly
        <3>2. CASE x # r
            BY <1>5, <1>9, <2>2, <3>2, Numbers DEF Has
        <3> QED
            BY <3>1, <3>2
    <2>6. /\ pc'[Monitor] = pc[Monitor]
          /\ \A x \in Requests : \/ pc'[x] = pc[x] /\ left'[x] = left[x]
                                 \/ RequestTrue(x)' /\ pc'[x] # "init"
          /\ \A x \in Requests : pc[x] = "init" /\ pc'[x] # "init" => ses[on[x]].init = "ok"
          /\ \A x \in Requests : on[x] # s => (pc'[x] = "wait" <=> pc[x] = "wait")
        BY <1>6, <2>1, <2>2, <2>4, Numbers
    <2>7. new.closing => ses[s].closing
        BY <1>2, <1>9
    <2> QED
        BY <1>2, <1>3, <1>6, <1>7, <1>9, <2>3, <2>5, <2>6, <2>7, SessionStep
<1>10. CASE Answer(s)
    <2>1. PICK new : new = NextCommand(old)
        OBVIOUS
    <2>2. PICK r \in Requests : r = old.current
        BY <1>2, <1>10 DEF Answer, SessionRecords
    <2>3. ses' = [ses EXCEPT ![s] = new] /\ pc' = [pc EXCEPT ![r] = "answered"]
        BY <1>1, <1>2, <1>10, <2>1, <2>2 DEF Answer, SesType
    <2>4. /\ new \in SessionRecords /\ new.key = old.key /\ new.init = old.init
          /\ new.closing = old.closing
          /\ Len(new.queue) <= Len(old.queue) /\ Orderly(new)
          /\ \A x \in Requests : Has(new, x) <=> In(old.queue, x)
        BY <1>4, <2>1, NextTrue
    <2>5. Len(new.queue) <= QueueSize
        <3>1. Len(new.queue) \in Nat /\ Len(old.queue) \in Nat
            BY <1>4, <2>4 DEF SessionRecords
        <3> QED
            BY <1>4, <2>4, <3>1, PoolAssumption
    <2> QED
        BY <1>9, <2>2, <2>3, <2>4, <2>5
<1>11. CASE Cancelled(s)
    <2>1. PICK first : first = [old EXCEPT !.consumer = "stopped"]
        OBVIOUS
    <2>2. PICK new : new = [first EXCEPT !.current = Nobody]
        OBVIOUS
    <2>3. ses' = [ses EXCEPT ![s] = new]
        BY <1>1, <1>2, <1>11, <2>1, <2>2 DEF Cancelled, SesType
    <2>4. first \in SessionRecords /\ Alike(first, old) /\ first.closing = old.closing
        BY <2>1, RecordServes
    <2>5. /\ new \in SessionRecords /\ new.init = first.init /\ new.key = first.key
          /\ new.closing = first.closing
          /\ new.queue = first.queue /\ new.current = Nobody
        BY <2>2, <2>4, RecordServes
    <2>6. /\ new.init = old.init /\ new.key = old.key /\ new.closing = old.closing
          /\ new.queue = old.queue
        BY <2>4, <2>5 DEF Alike
    <2>7. \A x \in Requests : Has(new, x) <=> In(old.queue, x)
        BY <2>5, <2>6, Numbers DEF Has
    <2>8. Orderly(new)
        <3>1. ~In(old.queue, Nobody)
            BY <1>4, Numbers DEF In
        <3> QED
            BY <1>4, <2>5, <2>6, <3>1 DEF Orderly
    <2>9. CASE old.current = Nobody
        <3>1. pc' = pc
            BY <1>2, <1>11, <2>9 DEF Cancelled
        <3>2. \A x \in Requests : Has(new, x) <=> (pc'[x] = "wait" /\ on[x] = s)
            BY <1>5, <2>7, <2>9, <3>1, Numbers DEF Has
        <3>3. TurnType' /\ (new.closing => ses[s].closing) /\ Len(new.queue) <= QueueSize
            BY <1>1, <1>2, <1>4, <1>6, <2>6, <3>1 DEF TurnType
        <3> QED
            BY <1>2, <1>3, <1>6, <1>7, <2>3, <2>5, <2>6, <2>8, <3>1, <3>2, <3>3, SessionStep
    <2>10. CASE old.current # Nobody
        <3>1. PICK r \in Requests : r = old.current
            BY <2>10 DEF SessionRecords
        <3>2. pc' = [pc EXCEPT ![r] = "answered"]
            BY <1>2, <1>11, <2>10, <3>1 DEF Cancelled
        <3>3. Len(new.queue) <= QueueSize
            BY <1>4, <2>6
        <3> QED
            BY <1>9, <2>3, <2>5, <2>6, <2>7, <2>8, <3>1, <3>2, <3>3
    <2> QED
        BY <2>9, <2>10
<1> QED
    BY <1>8, <1>10, <1>11 DEF ConsumerStep

-----------------------------------------------------------------------------
(* The theorems.                                                           *)

\* Before the first request the pool is empty and nobody holds anything.
THEOREM PoolInitInv == Init => PoolInv
<1> SUFFICES ASSUME Init PROVE PoolInv
    OBVIOUS
<1>1. TurnType /\ AskType /\ PoolType
    BY Numbers DEF Init, TurnType, AskType, PoolType, Labels
<1>2. MonType
    BY PoolAssumption DEF Init, MonType
<1>3. ASSUME NEW s \in Sessions
      PROVE  /\ ses[s] = Unborn /\ ses[s].init = "none"
             /\ ses[s].queue = <<>> /\ ses[s].current = Nobody
    BY <1>3 DEF Init, Unborn
<1>4. Unborn \in SessionRecords
    BY DEF Unborn, SessionRecords
<1>5. SesType
    BY <1>3, <1>4, PoolAssumption DEF Init, SesType
<1>6. ASSUME NEW r \in Requests PROVE RequestTrue(r) /\ pc[r] = "new"
    BY Numbers DEF Init, RequestTrue
<1>7. MonitorTrue
    BY Numbers DEF Init, MonitorTrue
<1>8. Born
    BY <1>3 DEF Init, Born, Pending
<1>9. ASSUME NEW s \in Sessions PROVE QueueTrue(s)
    <2>1. DOMAIN ses[s].queue = {}
        BY <1>3
    <2> QED
        BY <1>3, <1>6, <2>1, Numbers DEF QueueTrue, Orderly, Distinct, In, Has, Waits
<1>10. PoolOffersOpen
    BY DEF Init, PoolOffersOpen, Pooled
<1> QED
    BY <1>1, <1>2, <1>5, <1>6, <1>7, <1>8, <1>9, <1>10, TypeParts DEF PoolInv

\* Every step of a request, of a session and of the monitor keeps the invariant.
THEOREM PoolNextInv == PoolInv /\ [Next]_vars => PoolInv'
<1> SUFFICES ASSUME PoolInv, [Next]_vars PROVE PoolInv'
    OBVIOUS
<1>1. ASSUME NEW r \in Requests, Arrive(r) \/ RequestStep(r) PROVE PoolInv'
    BY <1>1, ArriveKeeps, RequestKeeps, CreateKeeps, SendKeeps DEF RequestStep
<1>2. ASSUME NEW s \in Sessions, InitEnds(s) \/ ConsumerStep(s) \/ ChannelDies(s) PROVE PoolInv'
    BY <1>2, InitKeeps, ConsumerKeeps
<1>3. CASE MonitorWakes \/ MonitorStep
    BY <1>3, MonitorKeeps
<1>4. CASE UNCHANGED vars
    <2>1. UNCHANGED <<loop, pc, on, asked, left, pool, ses, mon>>
        BY <1>4 DEF vars
    <2>2. TypeOK'
        BY <2>1 DEF PoolInv, TypeOK
    <2>3. Born' /\ PoolOffersOpen' /\ MonitorTrue'
        BY <2>1 DEF PoolInv, Born, PoolOffersOpen, MonitorTrue, Pending, Creating, Pooled
    <2>4. ASSUME NEW r \in Requests PROVE RequestTrue(r)'
        BY <2>1 DEF PoolInv, RequestTrue
    <2>5. ASSUME NEW s \in Sessions PROVE QueueTrue(s)'
        BY <2>1 DEF PoolInv, QueueTrue, Waits
    <2> QED
        BY <2>2, <2>3, <2>4, <2>5 DEF PoolInv
<1> QED
    BY <1>1, <1>2, <1>3, <1>4 DEF Next

THEOREM PoolAlways == Spec => []PoolInv
BY PoolInitInv, PoolNextInv, PTL DEF Spec

\* Types, and no queue is ever longer than queue_size (session.py: send_cmd).
THEOREM PoolTypeCorrect == Spec => []TypeOK
<1>1. PoolInv => TypeOK
    BY DEF PoolInv
<1> QED
    BY <1>1, PoolAlways, PTL

\* get_session never finds a session that is closing, and one whose init failed only
\* before its creator was told (pool.py: get_session, _handle_closed_session).
THEOREM OffersAlways == Spec => []PoolOffersOpen
<1>1. PoolInv => PoolOffersOpen
    BY DEF PoolInv
<1> QED
    BY <1>1, PoolAlways, PTL

\* No command is lost, doubled or answered twice while its caller waits, whoever closes
\* what meanwhile (session.py: send_cmd, _consume_cmd_queue, close).
THEOREM WaitersAlways == Spec => []WaitersAreQueued
<1>1. ASSUME PoolInv, NEW s \in Sessions, NEW r \in Requests,
             NEW places, places = {i \in DOMAIN ses[s].queue : ses[s].queue[i] = r}
      PROVE  Cardinality(places) + (IF ses[s].current = r THEN 1 ELSE 0)
             = IF pc[r] = "wait" /\ on[r] = s THEN 1 ELSE 0
    <2>1. QueueTrue(s)
        BY <1>1, PoolParts
    <2>2. CASE places = {}
        <3>1. Cardinality(places) = 0 /\ ~In(ses[s].queue, r)
            BY <1>1, <2>2, FS_EmptySet DEF In
        <3> QED
            BY <2>1, <3>1 DEF QueueTrue, Has, Waits
    <2>3. CASE places # {}
        <3>1. PICK i \in DOMAIN ses[s].queue : ses[s].queue[i] = r
            BY <1>1, <2>3
        <3>2. places = {i}
            BY <1>1, <2>1, <3>1 DEF QueueTrue, Orderly, Distinct
        <3>3. Cardinality(places) = 1
            BY <3>2, FS_Singleton
        <3>4. ses[s].current # r /\ Waits(r, s)
            BY <2>1, <3>1 DEF QueueTrue, Orderly, In, Has
        <3> QED
            BY <3>3, <3>4 DEF Waits
    <2> QED
        BY <2>2, <2>3
<1>2. PoolInv => WaitersAreQueued
    BY <1>1 DEF WaitersAreQueued
<1> QED
    BY <1>2, PoolAlways, PTL

\* Only two steps close a session.
LEMMA WhoCloses ==
    ASSUME PoolInv, [Next]_vars, NEW s \in Sessions, ~ses[s].closing, ses'[s].closing
    PROVE  \/ \E r \in Requests : JudgeCloses(r) /\ on[r] = s
           \/ RemoveClosed /\ on[Monitor] = s /\ ~IsAlive(s)
<1>1. TurnType /\ SesType /\ MonitorTrue /\ \A r \in Requests : RequestTrue(r)
    BY PoolParts
<1>2. ASSUME UNCHANGED ses PROVE FALSE
    BY <1>2
<1>3. ASSUME NEW r \in Requests, JudgeCloses(r) PROVE on[r] = s
    <2>1. PICK stale \in BOOLEAN : Close(r, on[r], stale, "get")
        BY <1>3 DEF JudgeCloses
    <2>2. on[r] \in Sessions
        BY <1>1, <1>3, Numbers DEF JudgeCloses, RequestTrue, TurnType
    <2>3. on[r] # s => ses'[s] = ses[s]
        BY <2>1, <2>2, CloseSession, Numbers
    <2> QED
        BY <2>3
<1>4. ASSUME RemoveClosed PROVE on[Monitor] = s /\ ~IsAlive(s)
    <2>1. ~IsAlive(on[Monitor]) /\ Close(Monitor, on[Monitor], FALSE, "check")
        BY <1>2, <1>4 DEF RemoveClosed
    <2>2. on[Monitor] \in Sessions
        BY <1>1, <1>4, Numbers DEF RemoveClosed, MonitorTrue, TurnType
    <2>3. PICK stale \in BOOLEAN : stale = FALSE
        OBVIOUS
    <2>4. Close(Monitor, on[Monitor], stale, "check")
        BY <2>1, <2>3
    <2>5. on[Monitor] # s => ses'[s] = ses[s]
        BY <2>2, <2>4, CloseSession, Numbers
    <2> QED
        BY <2>1, <2>5
<1>5. ASSUME NEW a \in Actors, CloseEnd(a) PROVE FALSE
    <2>1. ses' = [ses EXCEPT ![on[a]].chan = Shut(@)]
        BY <1>5 DEF CloseEnd
    <2> QED
        BY <1>1, <2>1 DEF SesType, SessionRecords
<1>6. ASSUME NEW r \in Requests, Create(r) PROVE FALSE
    <2>1. PICK t \in Sessions :
            ses' = [ses EXCEPT ![t].key = asked[r].key, ![t].made = asked[r].made,
                               ![t].init = "pending"]
        BY <1>6 DEF Create
    <2> QED
        BY <1>1, <2>1 DEF SesType, SessionRecords
<1>7. ASSUME NEW r \in Requests, Send(r) PROVE FALSE
    BY <1>1, <1>7 DEF Send, SesType, SessionRecords
<1>8. ASSUME NEW t \in Sessions, InitEnds(t) \/ ChannelDies(t) PROVE FALSE
    <2>1. CASE InitSucceeds(t)
        BY <1>1, <2>1 DEF InitSucceeds, SesType, SessionRecords
    <2>2. CASE InitFails(t)
        <3>1. PICK c : ses' = [ses EXCEPT ![t].init = "failed", ![t].chan = c]
            BY <2>2 DEF InitFails
        <3> QED
            BY <1>1, <3>1 DEF SesType, SessionRecords
    <2>3. CASE ChannelDies(t)
        BY <1>1, <2>3 DEF ChannelDies, SesType, SessionRecords
    <2> QED
        BY <1>8, <2>1, <2>2, <2>3 DEF InitEnds
<1>9. ASSUME NEW t \in Sessions, Take(t) \/ Answer(t) PROVE FALSE
    <2>1. PICK new : new = NextCommand(ses[t])
        OBVIOUS
    <2>2. ses' = [ses EXCEPT ![t] = new]
        BY <1>9, <2>1 DEF Take, Answer
    <2>3. new.closing = ses[t].closing
        BY <1>1, <2>1, PoolParts, NextTrue DEF QueueTrue, SesType
    <2> QED
        BY <1>1, <2>2, <2>3 DEF SesType
<1>10. ASSUME NEW t \in Sessions, Cancelled(t) PROVE FALSE
    BY <1>1, <1>10 DEF Cancelled, SesType, SessionRecords
<1>11. ASSUME NEW r \in Requests,
              \/ Arrive(r) \/ JudgeRaises(r) \/ JudgeRefuses(r) \/ JudgeAccepts(r)
              \/ Reuse(r) \/ CreateRaises(r) \/ InitFailed(r)
              \/ Ping(r) \/ Pong(r) \/ SendRefused(r) \/ Finish(r)
       PROVE  UNCHANGED ses
    BY <1>11 DEF Arrive, JudgeRaises, JudgeRefuses, JudgeAccepts, Reuse, CreateRaises,
                 InitFailed, Ping, Pong, SendRefused, Finish
<1>12. ASSUME \/ MonitorWakes \/ DisplayRow \/ DisplayRaises \/ DisplayEnds
              \/ (\E k \in Keys : CheckKey(k)) \/ MonitorSleeps
       PROVE  UNCHANGED ses
    BY <1>12 DEF MonitorWakes, DisplayRow, DisplayRaises, DisplayEnds, CheckKey, MonitorSleeps
<1>13. CASE UNCHANGED vars
    BY <1>2, <1>13 DEF vars
<1> QED
    BY <1>2, <1>3, <1>4, <1>5, <1>6, <1>7, <1>8, <1>9, <1>10, <1>11, <1>12, <1>13, Numbers
    DEF Next, RequestStep, MonitorStep, ConsumerStep

\* A session with commands is closed only because it is dead or stale, never because a
\* request brings other parameters (pool.py: get_session, _remove_closed_sessions).
THEOREM AbortAlways == Spec => AbortOnlyUnusable
<1>1. ASSUME PoolInv, [Next]_vars,
             NEW s \in Sessions, ~ses[s].closing, ses'[s].closing, Unfinished(s)
      PROVE  ~IsAlive(s) \/ ses'[s].stale
    <2>1. ASSUME NEW r \in Requests, JudgeCloses(r), on[r] = s
          PROVE  ~IsAlive(s) \/ ses'[s].stale
        <3>1. PICK stale \in BOOLEAN :
                /\ ~IsAlive(s) \/ stale \/ IsIdle(s)
                /\ Close(r, s, stale, "get")
            BY <2>1 DEF JudgeCloses
        <3>2. ses'[s].stale = stale
            BY <1>1, <3>1, CloseSession, Numbers
        <3> QED
            BY <1>1, <3>1, <3>2 DEF IsIdle
    <2> QED
        BY <1>1, <2>1, WhoCloses
<1>2. PoolInv /\ [Next]_vars =>
        [\A s \in Sessions : ~ses[s].closing /\ ses'[s].closing /\ Unfinished(s)
                                => ~IsAlive(s) \/ ses'[s].stale]_vars
    BY <1>1
<1> QED
    BY <1>2, PoolAlways, PTL DEF Spec, AbortOnlyUnusable
=============================================================================
