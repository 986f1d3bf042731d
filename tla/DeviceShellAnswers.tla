------------------------- MODULE DeviceShellAnswers -------------------------
(***************************************************************************)
(* Proofs about the plugins of DeviceShell that write only the empty line  *)
(* before they read a prompt, on a device that echoes a line when it takes *)
(* it up: OwnAnswer, what a session takes for the answer to a line is one, *)
(* and RunsWhereAsked, a command runs in the mode and the vsys its task    *)
(* asked for.  The first invariant (InOrder) says how far the device is    *)
(* with the line that is waited for: not reached, executed, answered,      *)
(* asking, judging the password.  The second (InPlace) says what the       *)
(* session still plans to do, and that the device is where it believes.    *)
(***************************************************************************)
EXTENDS DeviceShellProofs

-----------------------------------------------------------------------------
(* Answers in order.  Where a device echoes a line when it takes it up and *)
(* the plugin writes one line at a time, what was said since the last      *)
(* write tells how far the device is with it: l is what it has to execute, *)
(* n of it received, and v what it said, read or not.                      *)

\* The device has a line to execute or the last that it said is a prompt or a question.
Turn(n, v) ==
    /\ n \in {0, 1}
    /\ n = 0 /\ Len(v) # 0 => v[Len(v)].t \in {"prompt", "ask"}
\* Nothing but empty lines, and no question.
Empties(l) == \A i \in DOMAIN l : l[i].is = ""
Blank(v) == \A i \in DOMAIN v : v[i].t # "ask" /\ (v[i].t = "echo" => v[i].is = "")

\* The device has only heard empty lines; a session at rest, one that asks for a prompt, and
\* one that waits for the answer to a line that was not taken up yet.
Calm(d, n, l, v) ==
    /\ d.mode # Gone /\ ~d.asked
    /\ Turn(n, v) /\ n <= Len(l) /\ Blank(v) /\ AtMostTwo(l, v)
Polled(d, n, l, v) == Calm(d, n, l, v) /\ Empties(l)
Rested(d, n, l, v) == Polled(d, n, l, v) /\ AtMostOne(l, v)
Unheeded(b, d, n, l, v) ==
    /\ Calm(d, n, l, v) /\ n < Len(l) /\ ~b.flag
    /\ l[Len(l)].is = b.cmd /\ \A i \in 1..Len(l) - 1 : l[i].is = ""

\* It was taken up: its echo is at e, with no other before it and at most a prompt right
\* before it.
Heeded(b, v, e) ==
    /\ e \in 1..Len(v) /\ v[e] = Echo(b.cmd) /\ (b.flag => e <= Len(b.got))
    /\ \A i \in 1..e - 1 : v[i] # Echo(b.cmd) /\ v[i].t # "ask" /\ (v[i].t = "prompt" => i = e - 1)

\* The device executes it, has answered it, or has closed the connection on it ...
Executing(b, d, n, l, v, e) == n = 1 /\ Len(l) = 1 /\ l[1].is = b.cmd /\ Len(v) = e /\ ~d.asked
Replied(b, d, n, l, v, e) ==
    /\ n = 0 /\ Len(l) = 0 /\ Len(v) = e + 2 /\ ~d.asked
    /\ v[e + 1] = Output(b.cmd) /\ v[e + 2].t = "prompt"
Closed(n, l, v, e) == n = 0 /\ Len(l) = 0 /\ Len(v) = e

\* ... or it was enable, and the question is unread, or the password is on its way, to be
\* judged, or was judged.
Asking(b, d, v, e) == b.cmd = "enable" /\ v[e + 1].t = "ask" /\ d.asked
Questioned(b, d, n, l, v, e) == Asking(b, d, v, e) /\ n = 0 /\ Len(l) = 0 /\ Len(v) = e + 1
Trusted(b, d, n, l, v, e) ==
    Asking(b, d, v, e) /\ n = 0 /\ Len(l) = 1 /\ Len(v) = e + 1 /\ b.from > e + 1
Judging(b, d, n, l, v, e) ==
    /\ Asking(b, d, v, e) /\ n = 1 /\ Len(l) = 1 /\ Len(v) = e + 2 /\ b.from > e + 1
    /\ v[e + 2].t = "echo"
Judged(b, d, n, l, v, e) ==
    /\ b.cmd = "enable" /\ ~d.asked /\ n = 0 /\ Len(l) = 0 /\ Len(v) = e + 4 /\ b.from > e + 1
    /\ v[e + 1].t = "ask" /\ v[e + 2].t = "echo" /\ v[e + 3].t = "output" /\ v[e + 4].t = "prompt"

Stage(b, d, n, l, v, e) ==
    \/ d.mode = Gone /\ Closed(n, l, v, e)
    \/ d.mode # Gone /\ Executing(b, d, n, l, v, e)
    \/ d.mode # Gone /\ Replied(b, d, n, l, v, e)
    \/ d.mode # Gone /\ Questioned(b, d, n, l, v, e)
    \/ d.mode # Gone /\ Trusted(b, d, n, l, v, e)
    \/ d.mode # Gone /\ Judging(b, d, n, l, v, e)
    \/ d.mode # Gone /\ Judged(b, d, n, l, v, e)

Awaiting(b, d, n, l, v) ==
    \/ Unheeded(b, d, n, l, v)
    \/ \E e \in 1..Len(v) : Heeded(b, v, e) /\ Stage(b, d, n, l, v, e)
Unread(b, d, l, v) == d.mode # Gone /\ d.asked /\ Len(l) = 0 => Len(b.got) < Len(v)

\* What is waited for, and its command.
Polls == {"drain", "decide"}
Speaks == {"line", "own", "moving"}
Commanded(s, b) ==
    /\ b.cmd # "" /\ s.todo # <<>>
    /\ s.wait \in {"line", "own"} => b.cmd = Head(s.todo).is /\ b.cmd # "enable"
    /\ s.wait = "moving" => b.cmd = Move(s.mode, Head(s.todo).is).cmd

Order(s, b, d, n, l, v) ==
    /\ s.wait \in {None} \cup Polls \cup Speaks
    /\ s.wait = None /\ d.mode = Gone => Len(l) = 0 /\ Len(v) = 0
    /\ s.wait = None /\ d.mode # Gone => Rested(d, n, l, v)
    /\ s.wait \in Polls => b.cmd = "" /\ Polled(d, n, l, v)
    /\ s.wait \in Speaks => Commanded(s, b) /\ Awaiting(b, d, n, l, v) /\ Unread(b, d, l, v)

\* What was said and is unread, with what the read under way has already got.
Said(s, b, a) == IF s.wait = None THEN a ELSE b.got \o a
InOrder == ~ahead => Order(ses, buf, dev, Len(stdin), stdin \o sent, Said(ses, buf, arriving))

\* What the device adds to what it said.
Prolongs(w, v) == IsList(v) /\ IsList(w) /\ Len(v) <= Len(w) /\ \A i \in 1..Len(v) : w[i] = v[i]

LEMMA TokenFacts ==
    /\ \A c, d : Echo(c).t = "echo" /\ Echo(c).is = c /\ (Echo(c) = Echo(d) => c = d)
                 /\ Output(c).t = "output" /\ Output(c) # Echo(d)
    /\ Question.t = "ask"
BY DEF Echo, Output, Question

LEMMA OneProlongs ==
    ASSUME NEW v, NEW x, IsList(v)
    PROVE  /\ Prolongs(Append(v, x), v) /\ Len(Append(v, x)) = Len(v) + 1
           /\ Append(v, x)[Len(v) + 1] = x
<1>1. IsList(Append(v, x)) /\ Extended(Append(v, x), v, x) /\ Len(v) \in Nat
    BY ListAppend, ListFacts
<1> QED
    BY <1>1 DEF Prolongs, Extended

LEMMA SomeProlong ==
    ASSUME NEW v, NEW p, IsList(v), IsList(p)
    PROVE  /\ Prolongs(v \o p, v) /\ Len(v \o p) = Len(v) + Len(p)
           /\ \A i \in 1..Len(p) : (v \o p)[Len(v) + i] = p[i]
<1>1. PICK a \in Nat, b \in Nat : a = Len(v) /\ b = Len(p)
    BY ListFacts
<1>2. PICK w : w = v \o p
    OBVIOUS
<1>3. IsList(w) /\ Len(w) = a + b /\ \A i \in 1..a + b : w[i] = IF i <= a THEN v[i] ELSE p[i - a]
    BY <1>1, <1>2, ListConcat
<1>4. \A i \in 1..a : i \in 1..a + b /\ i <= a
    OBVIOUS
<1>5. \A i \in 1..b : a + i \in 1..a + b /\ ~(a + i <= a) /\ (a + i) - a = i
    OBVIOUS
<1>6. \A i \in 1..a : w[i] = v[i]
    BY <1>3, <1>4
<1>7. \A i \in 1..b : w[a + i] = p[i]
    BY <1>3, <1>5
<1>8. a <= a + b
    OBVIOUS
<1> QED
    BY <1>1, <1>2, <1>3, <1>6, <1>7, <1>8 DEF Prolongs

\* A line is taken up; an empty one ...
Hears(l, v, w) == IsList(l) /\ IsList(v) /\ Len(l) # 0 /\ w = Append(v, Echo(l[1].is))
EmptyLine(x) == x.is = ""
LEMMA CalmReceives ==
    ASSUME NEW d, NEW l, NEW v, NEW w, Hears(l, v, w), EmptyLine(l[1]), Calm(d, 0, l, v)
    PROVE  Calm(d, 1, l, w) /\ (AtMostOne(l, v) => AtMostOne(l, w))
<1>1. PICK c, x : c = l[1].is /\ x = Echo(c) /\ x.t = "echo" /\ x.is = c
    BY TokenFacts
<1>2. IsList(v) /\ IsList(l) /\ w = Append(v, x) /\ x.t \notin {"prompt", "ask"} /\ Len(l) # 0
    BY <1>1 DEF Hears
<1>3. Answers(w) = Answers(v) /\ IsList(w)
    BY <1>2, QuietAdded
<1>4. Extended(w, v, x)
    BY <1>2, ListAppend
<1>5. \A i \in DOMAIN w : w[i] = x \/ (i \in DOMAIN v /\ w[i] = v[i])
    BY <1>2, <1>3, <1>4, LongerFacts
<1>6. Blank(w)
    BY <1>1, <1>5 DEF Calm, Blank, EmptyLine
<1>7. 1 <= Len(l)
    BY <1>2, ListFacts
<1> QED
    BY <1>3, <1>6, <1>7 DEF Calm, Turn, AtMostOne, AtMostTwo

\* ... and executed.
Obeys(l, m, v, w) ==
    /\ IsList(l) /\ IsList(m) /\ IsList(v) /\ IsList(w) /\ l # <<>> /\ Shorter(m, l)
    /\ Answered(w, v, "prompt") /\ \A i \in DOMAIN w : w[i].t \in {"output", "prompt"} \/ (i \in DOMAIN v /\ w[i] = v[i])
LEMMA CalmHandles ==
    ASSUME NEW d, NEW e, NEW l, NEW m, NEW v, NEW w, Obeys(l, m, v, w), Calm(d, 1, l, v),
           e.mode # Gone, ~e.asked
    PROVE  Calm(e, 0, m, w) /\ (AtMostOne(l, v) => AtMostOne(m, w))
<1>1. AtMostTwo(m, w)
    <2>1. "prompt" \in {"prompt", "ask"}
        OBVIOUS
    <2> QED
        BY <2>1, HandlesTwo DEF Obeys, Calm
<1>2. Blank(w)
    BY DEF Obeys, Calm, Blank
<1>3. Turn(0, w)
    BY DEF Obeys, Answered, Turn
<1>4. 0 <= Len(m)
    BY ListFacts DEF Obeys
<1>5. ASSUME AtMostOne(l, v) PROVE AtMostOne(m, w)
    <2>1. Len(l) = 1 /\ Len(m) = 0 /\ Answers(v) = {}
        <3>1. Len(l) \in Nat /\ Len(l) # 0 /\ Len(m) = Len(l) - 1
            BY ShorterFacts, ListFacts DEF Obeys
        <3> QED
            BY <1>5, <3>1 DEF AtMostOne
    <2>2. Answers(w) \subseteq {Len(w)}
        BY <2>1, AnsweredFacts DEF Obeys
    <2> QED
        BY <2>1, <2>2 DEF AtMostOne
<1> QED
    BY <1>1, <1>2, <1>3, <1>4, <1>5 DEF Calm

\* A line is written by a session at rest.
LEMMA RestedWrites ==
    ASSUME NEW d, NEW n, NEW l, NEW m, NEW x, NEW v, IsList(l), IsList(m), Extended(m, l, x),
           Rested(d, n, l, v)
    PROVE  /\ x.is = "" => Polled(d, n, m, v)
           /\ \A b : x.is = b.cmd /\ ~b.flag => Unheeded(b, d, n, m, v)
<1>1. /\ Len(l) \in Nat /\ Len(m) = Len(l) + 1 /\ m[Len(m)] = x
      /\ \A i \in DOMAIN m : i = Len(m) \/ (i \in DOMAIN l /\ m[i] = l[i])
    BY LongerFacts
<1>2. AtMostTwo(m, v)
    BY LongerTwo DEF Rested
<1>3. n \in {0, 1} /\ n <= Len(l) /\ Empties(l)
    BY DEF Rested, Polled, Calm, Turn
<1>4. n < Len(m) /\ n <= Len(m)
    BY <1>1, <1>3
<1>5. Calm(d, n, m, v)
    BY <1>2, <1>4 DEF Rested, Polled, Calm
<1>6. \A i \in 1..Len(m) - 1 : m[i].is = ""
    <2>1. \A i \in 1..Len(m) - 1 : i \in DOMAIN l /\ m[i] = l[i]
        BY <1>1, ListFacts DEF Extended
    <2> QED
        BY <1>3, <2>1 DEF Empties
<1>7. x.is = "" => Empties(m)
    BY <1>1, <1>3 DEF Empties
<1> QED
    BY <1>1, <1>4, <1>5, <1>6, <1>7 DEF Polled, Unheeded

\* The echo of the line stays where it is.
LEMMA HeededProlonged ==
    ASSUME NEW b, NEW v, NEW w, NEW e, Heeded(b, v, e), Prolongs(w, v)
    PROVE  Heeded(b, w, e) /\ e \in 1..Len(w) /\ e \in 1..Len(v)
<1>1. Len(v) \in Nat /\ Len(w) \in Nat /\ Len(v) <= Len(w) /\ \A i \in 1..Len(v) : w[i] = v[i]
    BY ListFacts DEF Prolongs
<1>2. e \in 1..Len(v)
    BY DEF Heeded
<1>3. e \in 1..Len(w) /\ w[e] = v[e] /\ \A i \in 1..e - 1 : w[i] = v[i]
    BY <1>1, <1>2
<1> QED
    BY <1>2, <1>3 DEF Heeded

\* The line, or an empty one before it, is taken up.
Spoke(b) == b.cmd # ""
LEMMA UnheededReceives ==
    ASSUME NEW b, NEW d, NEW l, NEW v, NEW w, Hears(l, v, w), Spoke(b), Unheeded(b, d, 0, l, v)
    PROVE  Awaiting(b, d, 1, l, w)
<1>1. Len(l) \in {1, 2} /\ Calm(d, 0, l, v)
    <2>1. Len(l) \in Nat /\ Len(l) <= 2 /\ 0 < Len(l)
        BY ListFacts DEF Unheeded, Calm, AtMostTwo, Hears
    <2>2. \A k \in Nat : k <= 2 /\ 0 < k => k \in {1, 2}
        OBVIOUS
    <2> QED
        BY <2>1, <2>2 DEF Unheeded
<1>2. CASE Len(l) = 2
    <2>1. l[1].is = ""
        <3>1. \A i \in 1..2 - 1 : l[i].is = ""
            BY <1>2 DEF Unheeded
        <3>2. 1 \in 1..2 - 1
            OBVIOUS
        <3> QED
            BY <3>1, <3>2
    <2>3. Calm(d, 1, l, w)
        BY <1>1, <2>1, CalmReceives DEF EmptyLine
    <2>4. Unheeded(b, d, 1, l, w)
        <3>1. 1 < Len(l)
            BY <1>2
        <3>2. ~b.flag /\ l[Len(l)].is = b.cmd /\ \A i \in 1..Len(l) - 1 : l[i].is = ""
            BY DEF Unheeded
        <3> QED
            BY <2>3, <3>1, <3>2, Zenon DEF Unheeded
    <2> QED
        BY <2>4 DEF Awaiting
<1>3. CASE Len(l) = 1
    <2>1. l[1].is = b.cmd
        BY <1>3 DEF Unheeded
    <2>2. PICK x : x = Echo(b.cmd) /\ x.t = "echo" /\ x.is = b.cmd
        BY TokenFacts
    <2>3. PICK k \in Nat : k = Len(v)
        BY ListFacts DEF Hears
    <2>4. Prolongs(w, v) /\ Len(w) = k + 1 /\ w[k + 1] = x /\ \A i \in 1..k : w[i] = v[i]
        BY <2>1, <2>2, <2>3, OneProlongs DEF Prolongs, Hears
    <2>5. DOMAIN v = 1..k
        BY <2>3, ListFacts DEF Hears
    <2>6. ASSUME NEW i \in 1..k PROVE w[i] # x /\ w[i].t # "ask" /\ (w[i].t = "prompt" => i = k)
        <3>1. v[i].t # "ask" /\ v[i] # x
            BY <1>1, <2>2, <2>5 DEF Calm, Blank, Spoke
        <3>2. ASSUME v[i].t = "prompt" PROVE i = k
            <4>1. k \in 1..k /\ k # 0
                OBVIOUS
            <4>2. v[k].t \in {"prompt", "ask"}
                BY <1>1, <2>3, <4>1 DEF Calm, Turn
            <4>3. i \in Answers(v) /\ k \in Answers(v)
                BY <2>5, <3>2, <4>1, <4>2 DEF Answers
            <4> QED
                BY <1>1, <1>3, <4>3 DEF Calm, AtMostTwo
        <3> QED
            BY <2>4, <3>1, <3>2
    <2>7. (k + 1) - 1 = k /\ k + 1 \in 1..k + 1
        BY <2>3
    <2>8. Heeded(b, w, k + 1)
        BY <2>2, <2>4, <2>6, <2>7 DEF Heeded, Unheeded
    <2>9. Stage(b, d, 1, l, w, k + 1)
        BY <1>1, <1>3, <2>1, <2>4 DEF Stage, Executing, Calm
    <2> QED
        BY <2>4, <2>7, <2>8, <2>9 DEF Awaiting
<1> QED
    BY <1>1, <1>2, <1>3

\* The password is taken up.
LEMMA TrustedReceives ==
    ASSUME NEW b, NEW d, NEW l, NEW v, NEW w, NEW e, NEW c, IsList(v), w = Append(v, Echo(c)),
           Heeded(b, v, e), d.mode # Gone, Trusted(b, d, 0, l, v, e)
    PROVE  Awaiting(b, d, 1, l, w)
<1>1. Prolongs(w, v) /\ Len(w) = Len(v) + 1 /\ w[Len(v) + 1] = Echo(c)
    BY OneProlongs
<1>2. Heeded(b, w, e) /\ e \in 1..Len(w) /\ e \in 1..Len(v)
    BY <1>1, HeededProlonged
<1>3. e \in Nat /\ Len(v) = e + 1 /\ Len(v) + 1 = e + 2 /\ e + 1 \in 1..Len(v)
    <2>1. Len(v) \in Nat
        BY ListFacts
    <2> QED
        BY <1>2, <2>1 DEF Trusted
<1>4. w[e + 1] = v[e + 1] /\ w[e + 2].t = "echo"
    BY <1>1, <1>3, TokenFacts DEF Prolongs
<1>5. Judging(b, d, 1, l, w, e)
    BY <1>1, <1>3, <1>4 DEF Trusted, Judging, Asking
<1> QED
    BY <1>2, <1>5 DEF Stage, Awaiting

\* The line is executed: the device closes the connection, asks, or shows a prompt.
Says(w, v, p) ==
    Prolongs(w, v) /\ Len(w) = Len(v) + Len(p) /\ \A i \in 1..Len(p) : w[Len(v) + i] = p[i]
Outcome(b, d, w, v) ==
    \/ d.mode = Gone /\ w = v
    \/ d.mode # Gone /\ d.asked /\ b.cmd = "enable" /\ Says(w, v, <<Question>>)
    \/ d.mode # Gone /\ ~d.asked /\ \E p : p.t = "prompt" /\ Says(w, v, <<Output(b.cmd), p>>)

LEMMA ExecutingHandles ==
    ASSUME NEW b, NEW d, NEW f, NEW n, NEW l, NEW m, NEW v, NEW w, NEW e, IsList(l), IsList(m), IsList(v),
           Shorter(m, l), Heeded(b, v, e), Executing(b, d, n, l, v, e), Outcome(b, f, w, v),
           Len(b.got) \in 0..Len(v)
    PROVE  Awaiting(b, f, 0, m, w) /\ Unread(b, f, m, w)
<1>1. PICK k \in Nat : k = Len(v)
    BY ListFacts
<1>2. Len(m) = 0 /\ e = k /\ e \in 1..k /\ Len(b.got) \in 0..k
    BY <1>1 DEF Executing, Heeded, Shorter
<1>3. CASE f.mode = Gone /\ w = v
    BY <1>1, <1>2, <1>3 DEF Awaiting, Stage, Closed, Unread
<1>4. CASE f.mode # Gone /\ f.asked /\ b.cmd = "enable" /\ Says(w, v, <<Question>>)
    <2>1. Prolongs(w, v) /\ Len(w) = k + 1 /\ w[k + 1] = Question
        <3>1. PICK p : p = <<Question>> /\ Len(p) = 1 /\ p[1] = Question
            BY ListOne
        <3> QED
            BY <1>1, <1>4, <3>1 DEF Says
    <2>2. Heeded(b, w, e) /\ e \in 1..Len(w)
        BY <2>1, HeededProlonged
    <2>3. Questioned(b, f, 0, m, w, e)
        BY <1>2, <1>4, <2>1, TokenFacts DEF Questioned, Asking
    <2>4. Len(b.got) < Len(w)
        BY <1>2, <2>1
    <2> QED
        BY <1>4, <2>2, <2>3, <2>4 DEF Awaiting, Stage, Unread
<1>5. CASE f.mode # Gone /\ ~f.asked /\ \E p : p.t = "prompt" /\ Says(w, v, <<Output(b.cmd), p>>)
    <2>1. PICK p : p.t = "prompt" /\ Says(w, v, <<Output(b.cmd), p>>)
        BY <1>5
    <2>2. PICK q : q = <<Output(b.cmd), p>> /\ Len(q) = 2 /\ q[1] = Output(b.cmd) /\ q[2] = p
        <3>1. \A x : <<x, p>>[1] = x /\ <<x, p>>[2] = p /\ Len(<<x, p>>) = 2
            OBVIOUS
        <3> QED
            BY <3>1
    <2>3. Prolongs(w, v) /\ Len(w) = k + 2 /\ w[k + 1] = Output(b.cmd) /\ w[k + 2] = p
        BY <1>1, <2>1, <2>2 DEF Says
    <2>4. Heeded(b, w, e) /\ e \in 1..Len(w)
        BY <2>3, HeededProlonged
    <2>5. Replied(b, f, 0, m, w, e)
        BY <1>2, <1>5, <2>1, <2>3 DEF Replied
    <2> QED
        BY <1>5, <2>4, <2>5 DEF Awaiting, Stage, Unread
<1> QED
    BY <1>3, <1>4, <1>5 DEF Outcome

\* The password is judged.
LEMMA JudgingHandles ==
    ASSUME NEW b, NEW d, NEW f, NEW n, NEW l, NEW m, NEW v, NEW w, NEW e, IsList(l), IsList(m), IsList(v),
           Shorter(m, l), Heeded(b, v, e), Judging(b, d, n, l, v, e), f.mode # Gone, ~f.asked,
           NEW p, NEW q, p.t = "output", q.t = "prompt", Says(w, v, <<p, q>>)
    PROVE  Awaiting(b, f, 0, m, w) /\ Unread(b, f, m, w)
<1>1. PICK k \in Nat : k = Len(v)
    BY ListFacts
<1>2. Len(m) = 0 /\ k = e + 2 /\ e \in 1..k /\ e \in Nat
    BY <1>1 DEF Judging, Heeded, Shorter
<1>3. PICK r : r = <<p, q>> /\ Len(r) = 2 /\ r[1] = p /\ r[2] = q
    OBVIOUS
<1>4. Prolongs(w, v) /\ Len(w) = k + 2 /\ w[k + 1] = p /\ w[k + 2] = q
    BY <1>1, <1>3 DEF Says
<1>5. w[e + 1] = v[e + 1] /\ w[e + 2] = v[e + 2]
    <2>1. e + 1 \in 1..k /\ e + 2 \in 1..k
        BY <1>2
    <2> QED
        BY <1>1, <1>4, <2>1 DEF Prolongs
<1>6. Heeded(b, w, e) /\ e \in 1..Len(w)
    BY <1>4, HeededProlonged
<1>7. Len(w) = e + 4 /\ w[e + 3] = p /\ w[e + 4] = q
    <2>1. k + 1 = e + 3 /\ k + 2 = e + 4
        BY <1>2
    <2> QED
        BY <1>4, <2>1
<1>8. Judged(b, f, 0, m, w, e)
    BY <1>2, <1>5, <1>7 DEF Judging, Asking, Judged
<1> QED
    BY <1>6, <1>8 DEF Awaiting, Stage, Unread

\* The agent reads on: what it got of v grows, its position does not go back, and an echo
\* that it saw is in what it got.
Onward(b, c, v) ==
    /\ c.cmd = b.cmd /\ Prolongs(v, c.got) /\ Len(b.got) \in 0..Len(c.got)
    /\ b.from \in 1..c.from /\ c.from \in Nat
    /\ c.flag => b.flag \/ \E j \in 1..Len(c.got) : c.got[j] = Echo(b.cmd)

\* Before the line is taken up nothing was echoed but empty lines.
LEMMA NoEcho ==
    ASSUME NEW b, NEW d, NEW n, NEW l, NEW v, IsList(v), Spoke(b), Calm(d, n, l, v)
    PROVE  \A j \in 1..Len(v) : v[j] # Echo(b.cmd) /\ v[j].t # "ask"
<1> TAKE j \in 1..Len(v)
<1>1. j \in DOMAIN v
    BY ListFacts
<1>2. Echo(b.cmd).t = "echo" /\ Echo(b.cmd).is = b.cmd
    BY TokenFacts
<1> QED
    BY <1>1, <1>2 DEF Calm, Blank, Spoke

LEMMA OnwardAwaits ==
    ASSUME NEW b, NEW c, NEW d, NEW n, NEW l, NEW v, IsList(v), Spoke(b), Onward(b, c, v),
           Awaiting(b, d, n, l, v)
    PROVE  Awaiting(c, d, n, l, v)
<1>1. /\ c.cmd = b.cmd /\ Len(c.got) \in Nat /\ Len(v) \in Nat /\ Len(c.got) <= Len(v)
      /\ \A i \in 1..Len(c.got) : v[i] = c.got[i]
    BY ListFacts DEF Onward, Prolongs
<1>2. \A j \in 1..Len(c.got) : j \in 1..Len(v)
    BY <1>1
<1>3. CASE Unheeded(b, d, n, l, v)
    <2>1. \A j \in 1..Len(c.got) : c.got[j] # Echo(b.cmd)
        <3>1. Calm(d, n, l, v)
            BY <1>3 DEF Unheeded
        <3>2. \A j \in 1..Len(v) : v[j] # Echo(b.cmd)
            BY <3>1, NoEcho
        <3> QED
            BY <1>1, <1>2, <3>2
    <2>2. ~c.flag
        BY <1>3, <2>1 DEF Onward, Unheeded
    <2>3. l[Len(l)].is = c.cmd
        BY <1>1, <1>3 DEF Unheeded
    <2> QED
        BY <1>3, <2>2, <2>3, Zenon DEF Unheeded, Awaiting
<1>4. ASSUME NEW e \in 1..Len(v), Heeded(b, v, e), Stage(b, d, n, l, v, e)
      PROVE  Heeded(c, v, e) /\ Stage(c, d, n, l, v, e)
    <2>1. ASSUME c.flag PROVE e <= Len(c.got)
        <3>1. CASE b.flag
            <4>1. e <= Len(b.got) /\ Len(b.got) \in 0..Len(c.got)
                BY <1>4, <3>1 DEF Heeded, Onward
            <4> QED
                BY <1>1, <1>4, <4>1
        <3>2. CASE ~b.flag
            <4>1. PICK j \in 1..Len(c.got) : c.got[j] = Echo(b.cmd)
                BY <2>1, <3>2 DEF Onward
            <4>2. v[j] = Echo(b.cmd)
                BY <1>1, <4>1
            <4>3. ~(j \in 1..e - 1)
                BY <1>4, <4>2 DEF Heeded
            <4> QED
                BY <1>1, <1>4, <4>3
        <3> QED
            BY <3>1, <3>2
    <2>2. Heeded(c, v, e)
        BY <1>1, <1>4, <2>1 DEF Heeded
    <2>3. b.from > e + 1 => c.from > e + 1
        <3>1. b.from \in 1..c.from /\ c.from \in Nat /\ e \in Nat
            BY <1>4 DEF Onward
        <3> QED
            BY <3>1
    <2>4. Stage(c, d, n, l, v, e)
        BY <1>1, <1>4, <2>3 DEF Stage, Closed, Executing, Replied, Asking, Questioned, Trusted, Judging, Judged
    <2> QED
        BY <2>2, <2>4
<1> QED
    BY <1>3, <1>4 DEF Awaiting

\* A prompt behind the echo is the last thing said: the device has dealt with the line.
LEMMA PromptLast ==
    ASSUME NEW c, NEW d, NEW n, NEW l, NEW v, IsList(v), NEW e \in 1..Len(v), Stage(c, d, n, l, v, e),
           NEW i \in 1..Len(v), i > e, v[i].t = "prompt"
    PROVE  /\ d.mode # Gone /\ ~d.asked /\ n = 0 /\ Len(l) = 0 /\ i = Len(v)
           /\ c.cmd # "enable" => e + 1 \in 1..Len(v) /\ v[e + 1] = Output(c.cmd)
<1>1. PICK k \in Nat : k = Len(v)
    BY ListFacts
<1>2. e \in 1..k /\ i \in 1..k /\ i > e
    BY <1>1
<1>3. Len(v) # e
    BY <1>1, <1>2
<1>4. CASE Replied(c, d, n, l, v, e) /\ d.mode # Gone
    <2>1. k = e + 2 /\ v[e + 1].t = "output"
        BY <1>1, <1>4, TokenFacts DEF Replied
    <2>2. i # e + 1
        BY <2>1
    <2>3. i = e + 2 /\ e + 1 \in 1..k
        BY <1>2, <2>1, <2>2
    <2> QED
        BY <1>1, <1>4, <2>1, <2>3 DEF Replied
<1>5. CASE Len(v) = e + 1 /\ v[e + 1].t = "ask"
    <2>1. i = e + 1
        BY <1>1, <1>2, <1>5
    <2> QED
        BY <1>5, <2>1
<1>6. CASE Len(v) = e + 2 /\ v[e + 1].t = "ask" /\ v[e + 2].t = "echo"
    <2>1. i = e + 1 \/ i = e + 2
        BY <1>1, <1>2, <1>6
    <2> QED
        BY <1>6, <2>1
<1>7. CASE Judged(c, d, n, l, v, e) /\ d.mode # Gone
    <2>1. k = e + 4 /\ v[e + 1].t = "ask" /\ v[e + 2].t = "echo" /\ v[e + 3].t = "output"
        BY <1>1, <1>7 DEF Judged
    <2>2. i # e + 1 /\ i # e + 2 /\ i # e + 3
        BY <2>1
    <2>3. i = e + 4
        BY <1>2, <2>1, <2>2
    <2> QED
        BY <1>1, <1>7, <2>1, <2>3 DEF Judged
<1> QED
    BY <1>3, <1>4, <1>5, <1>6, <1>7
       DEF Stage, Closed, Executing, Asking, Questioned, Trusted, Judging

Dealt(c, d, n, l, v) ==
    /\ d.mode # Gone /\ ~d.asked /\ n = 0 /\ Len(l) = 0 /\ Len(c.got) = Len(v)
    /\ c.cmd # "enable" => \E j \in DOMAIN c.got : c.got[j] = Output(c.cmd)
LEMMA HitDealt ==
    ASSUME NEW c, NEW d, NEW n, NEW l, NEW v, IsList(v), Spoke(c), BufferFits(c), Prolongs(v, c.got),
           Awaiting(c, d, n, l, v), NEW S, NEW i \in Hits(c, S, c.flag)
    PROVE  Dealt(c, d, n, l, v) /\ i = Len(v)
<1>1. PICK g : g = c.got
    OBVIOUS
<1>2. PICK k \in Nat : k = Len(g)
    BY <1>1, ListFacts DEF BufferFits
<1>3. /\ i \in c.from..k /\ g[i].t = "prompt" /\ Alone(c, i)
      /\ c.flag \/ \E j \in c.from..i : g[j] = Echo(c.cmd)
    BY <1>1, <1>2 DEF Hits, EchoIn, Spoke
<1>4. c.from \in 1..k + 1 /\ i \in 1..k /\ DOMAIN g = 1..k
    BY <1>1, <1>2, <1>3, ListFacts DEF BufferFits
<1>5. Len(v) \in Nat /\ k <= Len(v) /\ \A j \in 1..k : v[j] = g[j]
    BY <1>1, <1>2, ListFacts DEF Prolongs
<1>6. ASSUME NEW j \in c.from..i PROVE j \in 1..k /\ j \in 1..Len(v) /\ j <= i /\ v[j] = g[j]
    <2>1. j \in 1..k /\ j <= i
        BY <1>3, <1>4
    <2> QED
        BY <1>5, <2>1
<1>7. i \in 1..Len(v) /\ v[i].t = "prompt"
    BY <1>3, <1>4, <1>5
<1>8. CASE Unheeded(c, d, n, l, v)
    <2>1. \A j \in c.from..i : g[j] # Echo(c.cmd)
        <3>1. Calm(d, n, l, v) /\ ~c.flag
            BY <1>8 DEF Unheeded
        <3>2. \A j \in 1..Len(v) : v[j] # Echo(c.cmd)
            BY <3>1, NoEcho
        <3> QED
            BY <1>6, <3>2
    <2> QED
        BY <1>3, <1>8, <2>1 DEF Unheeded
<1>9. ASSUME NEW e \in 1..Len(v), Heeded(c, v, e), Stage(c, d, n, l, v, e)
      PROVE  Dealt(c, d, n, l, v) /\ i = Len(v)
    <2>1. i > e
        <3> SUFFICES ASSUME ~(i > e) PROVE FALSE
            OBVIOUS
        <3>1. i # e
            <4>1. v[e].t = "echo"
                BY <1>9, TokenFacts DEF Heeded
            <4> QED
                BY <1>7, <4>1
        <3>2. i \in 1..e - 1 /\ e \in Nat
            BY <1>4, <1>9, <3>1
        <3>3. i = e - 1
            BY <1>7, <1>9, <3>2 DEF Heeded
        <3>4. \A j \in c.from..i : g[j] # Echo(c.cmd)
            <4> TAKE j \in c.from..i
            <4>1. j \in 1..e - 1
                BY <1>4, <3>3
            <4> QED
                BY <1>6, <1>9, <4>1 DEF Heeded
        <3>5. e <= k
            BY <1>1, <1>2, <1>3, <1>9, <3>4 DEF Heeded
        <3>6. i # k /\ i + 1 = e /\ e \in 1..k
            BY <3>2, <3>3, <3>5
        <3>7. g[i + 1] = Echo(c.cmd)
            BY <1>5, <1>9, <3>6 DEF Heeded
        <3>8. g[i + 1] \in {Echo("")} \cup {Output(x) : x \in {""} \cup Silent}
            BY <1>1, <1>2, <1>3, <3>6 DEF Alone
        <3>9. \A x : Echo(c.cmd) # Output(x)
            BY TokenFacts
        <3>10. g[i + 1] = Echo("")
            BY <3>7, <3>8, <3>9
        <3> QED
            BY <3>7, <3>10, TokenFacts DEF Spoke
    <2>2. /\ d.mode # Gone /\ ~d.asked /\ n = 0 /\ Len(l) = 0 /\ i = Len(v)
          /\ c.cmd # "enable" => e + 1 \in 1..Len(v) /\ v[e + 1] = Output(c.cmd)
        BY <1>7, <1>9, <2>1, PromptLast
    <2>3. k = Len(v)
        BY <1>4, <1>5, <2>2
    <2> QED
        BY <1>1, <1>2, <1>4, <1>5, <2>2, <2>3 DEF Dealt
<1> QED
    BY <1>8, <1>9 DEF Awaiting

\* A question that is found is the last thing said, and the device waits for the password.
Asked(c, d, n, l, v) ==
    /\ d.mode # Gone /\ Len(c.got) = Len(v)
    /\ \E e \in 1..Len(v) : Heeded(c, v, e) /\ Questioned(c, d, n, l, v, e)
LEMMA QuestionAsked ==
    ASSUME NEW c, NEW d, NEW n, NEW l, NEW v, IsList(v), Spoke(c), BufferFits(c), Prolongs(v, c.got),
           Awaiting(c, d, n, l, v), NEW i \in Asks(c.got), i >= c.from
    PROVE  Asked(c, d, n, l, v)
<1>1. PICK k \in Nat, x \in Nat : k = Len(c.got) /\ x = Len(v)
    BY ListFacts DEF BufferFits
<1>2. i \in 1..k /\ c.got[i].t = "ask" /\ c.from \in 1..k + 1
    BY <1>1, ListFacts DEF BufferFits, Asks
<1>3. k <= x /\ i \in 1..x /\ v[i].t = "ask"
    BY <1>1, <1>2 DEF Prolongs
<1>4. ASSUME Unheeded(c, d, n, l, v) PROVE FALSE
    <2>1. Calm(d, n, l, v)
        BY <1>4 DEF Unheeded
    <2> QED
        BY <1>1, <1>3, <2>1, NoEcho
<1>5. ASSUME NEW e \in 1..x, Heeded(c, v, e), Stage(c, d, n, l, v, e)
      PROVE  Asked(c, d, n, l, v)
    <2>1. ~(i \in 1..e - 1) /\ v[e].t = "echo"
        BY <1>3, <1>5, TokenFacts DEF Heeded
    <2>2. i # e
        BY <1>3, <2>1
    <2>3. i \in e + 1..x
        BY <1>3, <1>5, <2>1, <2>2
    <2>4. x # e
        BY <2>3
    <2>5. ~Replied(c, d, n, l, v, e)
        <3> SUFFICES ASSUME Replied(c, d, n, l, v, e) PROVE FALSE
            OBVIOUS
        <3>1. x = e + 2 /\ v[e + 1].t = "output" /\ v[e + 2].t = "prompt"
            BY <1>1, TokenFacts DEF Replied
        <3>2. i # e + 1 /\ i # e + 2
            BY <1>3, <3>1
        <3> QED
            BY <2>3, <3>1, <3>2
    <2>6. ~Trusted(c, d, n, l, v, e)
        BY <1>1, <1>2, <2>3 DEF Trusted
    <2>7. ~Judging(c, d, n, l, v, e)
        <3> SUFFICES ASSUME Judging(c, d, n, l, v, e) PROVE FALSE
            OBVIOUS
        <3>1. x = e + 2 /\ v[e + 2].t = "echo" /\ c.from > e + 1
            BY <1>1 DEF Judging
        <3>2. i # e + 2
            BY <1>3, <3>1
        <3> QED
            BY <1>2, <2>3, <3>1, <3>2
    <2>8. ~Judged(c, d, n, l, v, e)
        <3> SUFFICES ASSUME Judged(c, d, n, l, v, e) PROVE FALSE
            OBVIOUS
        <3>1. x = e + 4 /\ c.from > e + 1
            BY <1>1 DEF Judged
        <3>2. v[e + 2].t = "echo" /\ v[e + 3].t = "output" /\ v[e + 4].t = "prompt"
            BY DEF Judged
        <3>3. i # e + 2 /\ i # e + 3 /\ i # e + 4
            BY <1>3, <3>2
        <3> QED
            BY <1>2, <2>3, <3>1, <3>3
    <2>9. Questioned(c, d, n, l, v, e) /\ d.mode # Gone
        BY <1>1, <1>5, <2>4, <2>5, <2>6, <2>7, <2>8 DEF Stage, Closed, Executing
    <2>10. k = x
        <3>1. x = e + 1
            BY <1>1, <2>9 DEF Questioned
        <3> QED
            BY <1>2, <1>3, <2>3, <3>1
    <2> QED
        BY <1>1, <1>5, <2>9, <2>10 DEF Asked
<1> QED
    BY <1>1, <1>4, <1>5 DEF Awaiting

\* The password is written.
LEMMA QuestionTrusted ==
    ASSUME NEW b, NEW c, NEW d, NEW n, NEW l, NEW m, NEW v, IsList(v), Asked(b, d, n, l, v),
           c.cmd = b.cmd, c.got = b.got, c.from = Len(b.got) + 1, Len(m) = 1
    PROVE  Awaiting(c, d, n, m, v) /\ Unread(c, d, m, v)
<1>1. PICK e \in 1..Len(v) : Heeded(b, v, e) /\ Questioned(b, d, n, l, v, e)
    BY DEF Asked
<1>2. Len(v) \in Nat /\ Len(b.got) = Len(v) /\ d.mode # Gone
    BY ListFacts DEF Asked
<1>3. Heeded(c, v, e)
    BY <1>1, <1>2 DEF Heeded
<1>4. c.from > e + 1
    BY <1>1, <1>2 DEF Questioned
<1>5. Trusted(c, d, n, m, v, e)
    BY <1>1, <1>4 DEF Questioned, Trusted, Asking
<1> QED
    BY <1>1, <1>2, <1>3, <1>5 DEF Awaiting, Stage, Unread

\* A read that finds no question leaves it unread.
Enters(b) == b.cmd = "enable"
LEMMA StillUnread ==
    ASSUME NEW b, NEW c, NEW d, NEW n, NEW l, NEW v, IsList(v), BufferFits(b), Awaiting(b, d, n, l, v),
           Unread(b, d, l, v), Prolongs(v, c.got),
           Enters(b) /\ d.asked => \A i \in Asks(c.got) : i < b.from
    PROVE  Unread(c, d, l, v)
<1> SUFFICES ASSUME d.mode # Gone, d.asked, Len(l) = 0 PROVE Len(c.got) < Len(v)
    BY DEF Unread
<1>1. PICK k \in Nat, x \in Nat : k = Len(c.got) /\ x = Len(v)
    BY ListFacts DEF Prolongs
<1>2. PICK e \in 1..x : Heeded(b, v, e) /\ Stage(b, d, n, l, v, e)
    BY <1>1 DEF Awaiting, Unheeded, Calm
<1>3. Questioned(b, d, n, l, v, e)
    BY <1>2 DEF Stage, Executing, Replied, Trusted, Judging, Judged
<1>4. x = e + 1 /\ v[e + 1].t = "ask" /\ Enters(b)
    BY <1>1, <1>3 DEF Questioned, Asking, Enters
<1>5. Len(b.got) \in Nat /\ Len(b.got) < x /\ b.from \in 1..Len(b.got) + 1
    BY <1>1, ListFacts DEF Unread, BufferFits
<1>6. k <= x /\ \A i \in 1..k : v[i] = c.got[i]
    BY <1>1 DEF Prolongs
<1>7. ASSUME k = x PROVE FALSE
    <2>1. c.got[x].t = "ask" /\ DOMAIN c.got = 1..k
        <3>1. x \in 1..k
            BY <1>4, <1>7
        <3>2. c.got[x] = v[x]
            BY <1>6, <3>1
        <3> QED
            BY <1>1, <1>4, <3>2, ListFacts DEF Prolongs
    <2>2. x \in Asks(c.got)
        BY <1>4, <1>7, <2>1 DEF Asks
    <2>3. x < b.from
        BY <1>4, <2>2
    <2> QED
        BY <1>5, <2>3
<1> QED
    BY <1>1, <1>6, <1>7

\* The prompt that was polled for is read: what is left is behind it.
LEMMA PolledRests ==
    ASSUME NEW d, NEW n, NEW l, NEW v, NEW a, IsList(l), IsList(v), IsList(a), Polled(d, n, l, v),
           NEW k, Behind(a, v, k), NEW i \in 1..k, i \in Answers(v)
    PROVE  Rested(d, n, l, a)
<1>1. AtMostTwo(l, v) /\ Blank(v) /\ Turn(n, v)
    BY DEF Polled, Calm
<1>2. AtMostOne(l, a) /\ AtMostTwo(l, a)
    BY <1>1, BehindOne, BehindTwo
<1>3. Blank(a)
    <2>1. \A j \in DOMAIN a : j + k \in DOMAIN v /\ a[j] = v[j + k]
        BY BehindFacts
    <2> QED
        BY <1>1, <2>1 DEF Blank
<1>4. Turn(n, a)
    <2>1. PICK x \in Nat, y \in Nat : x = Len(v) /\ y = Len(a)
        BY ListFacts
    <2>2. k \in 0..x /\ y = x - k /\ \A j \in 1..y : a[j] = v[j + k]
        BY <2>1 DEF Behind
    <2>3. ASSUME y # 0 PROVE a[y] = v[x] /\ x # 0
        BY <2>2, <2>3
    <2> QED
        BY <1>1, <2>1, <2>3 DEF Turn
<1> QED
    BY <1>2, <1>3, <1>4 DEF Rested, Polled, Calm

-----------------------------------------------------------------------------
(* The steps of a session keep the order.                                  *)

\* The empty line leads nowhere.
LEMMA EmptyExecuted ==
    ASSUME kind \in Kinds, NEW d, DeviceFits(d), NEW x, EmptyLine(x)
    PROVE  Executed(d, x.is).mode = d.mode
<1>1. PICK c : c = x.is /\ c = ""
    BY DEF EmptyLine
<1>2. Obeyed(d, c) = d.mode
    <2>1. LeadsOn(device.obeys)
        BY RowModed DEF Moded
    <2>2. {r \in device.obeys : r[1] = d.mode /\ r[2] = c} = {}
        BY <1>1, <2>1 DEF LeadsOn
    <2> QED
        BY <2>2 DEF Obeyed
<1>3. [d EXCEPT !.mode = d.mode].mode = d.mode
    BY DEF DeviceFits
<1>4. SiteObeys(d, c).mode = d.mode
    <2>1. c # "switch v1" /\ c # "exit" /\ c # "disable"
        BY <1>1
    <2>2. SiteObeys(d, c) = [d EXCEPT !.mode = Obeyed(d, c)]
        BY <2>1 DEF SiteObeys
    <2> QED
        BY <1>2, <1>3, <2>2
<1>5. UsgObeys(d, c).mode = d.mode
    <2>1. c # "return" /\ c # "switch vsys v1" /\ c # "quit"
        BY <1>1
    <2>2. UsgObeys(d, c) = [d EXCEPT !.mode = Obeyed(d, c)]
        BY <2>1 DEF UsgObeys
    <2> QED
        BY <1>2, <1>3, <2>2
<1>6. VdomObeys(d, c).mode = d.mode
    <2>1. Opens(c) = <<>> /\ c # "end" /\ c # "next" /\ c # "exit"
        BY <1>1 DEF Opens
    <2>2. VdomObeys(d, c) = d
        BY <2>1 DEF VdomObeys
    <2> QED
        BY <2>2
<1> QED
    BY <1>1, <1>2, <1>3, <1>4, <1>5, <1>6 DEF Executed

LEMMA ReadingIs ==
    ASSUME NEW c
    PROVE  Reading(c).got = <<>> /\ Reading(c).cmd = c /\ ~Reading(c).flag
<1>1. \A b, x, g, f, y : b = [cmd |-> x, got |-> g, from |-> f, flag |-> y] =>
        [b EXCEPT !.cmd = c] = [cmd |-> c, got |-> g, from |-> f, flag |-> y]
    OBVIOUS
<1>2. PICK b, x, y : b = NoBuffer /\ x = "" /\ y = FALSE
    OBVIOUS
<1>3. b = [cmd |-> x, got |-> <<>>, from |-> 1, flag |-> y]
    BY <1>2 DEF NoBuffer
<1>4. Reading(c) = [cmd |-> c, got |-> <<>>, from |-> 1, flag |-> y]
    <2>1. [b EXCEPT !.cmd = c] = [cmd |-> c, got |-> <<>>, from |-> 1, flag |-> y]
        BY <1>1, <1>3
    <2> QED
        BY <1>2, <2>1 DEF Reading
<1> HIDE DEF Reading
<1>5. ~y
    BY <1>2, Zenon
<1>6. Reading(c).got = <<>> /\ Reading(c).cmd = c /\ Reading(c).flag = y
    BY <1>4
<1> QED
    BY <1>5, <1>6

LEMMA Awaited ==
    ASSUME ShellInv, ses.todo # <<>>, NEW w, w # None, NEW c, Await(w, c)
    PROVE  ses'.wait = w /\ buf'.got = <<>> /\ buf'.cmd = c /\ ~buf'.flag
<1>1. SessionFits(kind, ses) /\ ses' = Waits(ses, w) /\ buf' = Reading(c)
    BY DEF ShellInv, Await, Waits
<1>2. ses'.wait = w
    BY <1>1, AwaitFits
<1> QED
    BY <1>1, <1>2, ReadingIs

LEMMA OrderNext ==
    ASSUME UNCHANGED <<kind, ahead>>,
           ~ahead => Order(ses', buf', dev', Len(stdin'), stdin' \o sent', Said(ses', buf', arriving'))
    PROVE  InOrder'
<1>1. PICK s, b, d, n, l, v : /\ s = ses' /\ b = buf' /\ d = dev' /\ n = Len(stdin') /\ l = stdin' \o sent'
                              /\ v = Said(ses', buf', arriving')
    OBVIOUS
<1>2. Commanded(s, b) => Commanded(ses, buf)'
    BY <1>1 DEF Commanded, Move, plugin
<1>3. Order(s, b, d, n, l, v) => Order(ses, buf, dev, Len(stdin), stdin \o sent, Said(ses, buf, arriving))'
    BY <1>1, <1>2 DEF Order
<1> QED
    BY <1>1, <1>3 DEF InOrder

LEMMA OrderParts ==
    ASSUME NEW s, NEW b, NEW d, NEW n, NEW l, NEW v
    PROVE  /\ (s.wait = None /\ d.mode # Gone /\ Rested(d, n, l, v)) => Order(s, b, d, n, l, v)
           /\ (s.wait = None /\ d.mode = Gone /\ Len(l) = 0 /\ Len(v) = 0) => Order(s, b, d, n, l, v)
           /\ (s.wait \in Polls /\ ~Spoke(b) /\ Polled(d, n, l, v)) => Order(s, b, d, n, l, v)
           /\ (s.wait \in Speaks /\ Commanded(s, b) /\ Awaiting(b, d, n, l, v) /\ Unread(b, d, l, v))
                => Order(s, b, d, n, l, v)
<1>1. None \notin Polls /\ None \notin Speaks /\ \A w \in Polls : w \notin Speaks
    BY DEF None, Polls, Speaks
<1>2. ~Spoke(b) <=> b.cmd = ""
    BY DEF Spoke
<1>3. Order(s, b, d, n, l, v) <=>
        /\ s.wait \in {None} \cup Polls \cup Speaks
        /\ s.wait = None /\ d.mode = Gone => Len(l) = 0 /\ Len(v) = 0
        /\ s.wait = None /\ d.mode # Gone => Rested(d, n, l, v)
        /\ s.wait \in Polls => ~Spoke(b) /\ Polled(d, n, l, v)
        /\ s.wait \in Speaks => Commanded(s, b) /\ Awaiting(b, d, n, l, v) /\ Unread(b, d, l, v)
    BY <1>2, Zenon DEF Order
<1>4. (s.wait = None /\ d.mode # Gone /\ Rested(d, n, l, v)) => Order(s, b, d, n, l, v)
    BY <1>1, <1>3
<1>5. (s.wait = None /\ d.mode = Gone /\ Len(l) = 0 /\ Len(v) = 0) => Order(s, b, d, n, l, v)
    BY <1>1, <1>3
<1>6. (s.wait \in Polls /\ ~Spoke(b) /\ Polled(d, n, l, v)) => Order(s, b, d, n, l, v)
    BY <1>1, <1>3
<1>7. (s.wait \in Speaks /\ Commanded(s, b) /\ Awaiting(b, d, n, l, v) /\ Unread(b, d, l, v))
        => Order(s, b, d, n, l, v)
    BY <1>1, <1>3
<1> QED
    BY <1>4, <1>5, <1>6, <1>7

LEMMA OrderMeans ==
    ASSUME NEW s, NEW b, NEW d, NEW n, NEW l, NEW v, Order(s, b, d, n, l, v)
    PROVE  /\ s.wait \in {None} \cup Polls \cup Speaks
           /\ s.wait \in Polls => ~Spoke(b) /\ Polled(d, n, l, v)
           /\ s.wait \in Speaks => /\ Spoke(b) /\ Commanded(s, b)
                                   /\ Awaiting(b, d, n, l, v) /\ Unread(b, d, l, v)
<1>1. ~Spoke(b) <=> b.cmd = ""
    BY DEF Spoke
<1>2. Commanded(s, b) => Spoke(b)
    BY <1>1, Zenon DEF Commanded
<1> QED
    BY <1>1, <1>2, Zenon DEF Order

LEMMA SpokeSame == ASSUME NEW b, NEW c, c.cmd = b.cmd PROVE Spoke(c) <=> Spoke(b)
BY Zenon DEF Spoke

\* The session does something else.
LEMMA QuietOrder ==
    ASSUME InOrder, UNCHANGED <<kind, ahead, dev, stdin, arriving>>, sent' = sent, ses.wait = None, ses'.wait = None
    PROVE  InOrder'
<1>1. None \notin Polls /\ None \notin Speaks
    BY DEF None, Polls, Speaks
<1> QED
    BY <1>1, OrderNext DEF InOrder, Order, Said

\* A session at rest that can write.
LEMMA AtRest ==
    ASSUME ShellInv, InOrder, ~ahead, ses.wait = None, ~(dev.mode = Gone /\ arriving = <<>>)
    PROVE  /\ dev.mode # Gone /\ Rested(dev, Len(stdin), stdin \o sent, arriving)
           /\ IsList(stdin) /\ IsList(sent) /\ IsList(arriving)
<1>1. IsList(stdin) /\ IsList(sent) /\ IsList(arriving)
    BY DEF ShellInv, Conversation
<1>2. Len(arriving) = 0 => arriving = <<>>
    BY <1>1, ListFacts
<1> QED
    BY <1>1, <1>2 DEF InOrder, Order, Said

\* It asks for a prompt, with an empty line or without.
LEMMA PollsOrder ==
    ASSUME ShellInv, InOrder, ses.wait = None, ~(dev.mode = Gone /\ arriving = <<>>), ses.todo # <<>>,
           UNCHANGED <<kind, ahead, dev, stdin, arriving>>, NEW w \in Polls, Await(w, ""),
           NEW x, EmptyLine(x), sent' \in {sent, Append(sent, x)}
    PROVE  InOrder'
<1> SUFFICES ASSUME ~ahead
             PROVE  Order(ses', buf', dev, Len(stdin), stdin \o sent', Said(ses', buf', arriving))
    BY OrderNext
<1>1. PICK l, n, v : l = stdin \o sent /\ n = Len(stdin) /\ v = arriving
    OBVIOUS
<1>2. Rested(dev, n, l, v) /\ IsList(stdin) /\ IsList(sent) /\ IsList(v)
    BY <1>1, AtRest
<1>3. Polled(dev, n, stdin \o sent', v)
    <2>1. CASE sent' = sent
        BY <1>1, <1>2, <2>1 DEF Rested
    <2>2. CASE sent' = Append(sent, x)
        <3>1. PICK m : m = stdin \o Append(sent, x)
            OBVIOUS
        <3>2. IsList(l) /\ IsList(m) /\ Extended(m, l, x)
            BY <1>1, <1>2, <3>1, LineAdded
        <3>3. Polled(dev, n, m, v)
            BY <1>2, <3>2, RestedWrites DEF EmptyLine
        <3> QED
            BY <2>2, <3>1, <3>3
    <2> QED
        BY <2>1, <2>2
<1>4. w # None
    BY DEF Polls, None
<1>5. ses'.wait = w /\ buf'.got = <<>> /\ buf'.cmd = ""
    BY <1>4, Awaited
<1>6. Said(ses', buf', arriving) = v
    <2>1. <<>> \o arriving = arriving
        BY <1>1, <1>2, ListEmpty, ListConcat
    <2> QED
        BY <1>1, <1>4, <1>5, <2>1 DEF Said
<1>7. ~Spoke(buf')
    BY <1>5 DEF Spoke
<1> QED
    BY <1>1, <1>3, <1>5, <1>6, <1>7, OrderParts

\* It writes a line.
LEMMA SpeaksOrder ==
    ASSUME ShellInv, InOrder, ses.wait = None, ~(dev.mode = Gone /\ arriving = <<>>), ses.todo # <<>>,
           UNCHANGED <<kind, ahead, dev, stdin, arriving>>, NEW w \in Speaks, NEW c, Await(w, c),
           NEW x, x.is = c, sent' = Append(sent, x), Commanded(ses', buf')
    PROVE  InOrder'
<1> SUFFICES ASSUME ~ahead
             PROVE  Order(ses', buf', dev, Len(stdin), stdin \o sent', Said(ses', buf', arriving))
    BY OrderNext
<1>1. PICK l, n, v, m : l = stdin \o sent /\ n = Len(stdin) /\ v = arriving /\ m = stdin \o Append(sent, x)
    OBVIOUS
<1>2. Rested(dev, n, l, v) /\ IsList(stdin) /\ IsList(sent) /\ IsList(v)
    BY <1>1, AtRest
<1>3. IsList(l) /\ IsList(m) /\ Extended(m, l, x)
    BY <1>1, <1>2, LineAdded
<1>4. w # None
    BY DEF Speaks, None
<1>5. ses'.wait = w /\ buf'.got = <<>> /\ buf'.cmd = c /\ ~buf'.flag
    BY <1>4, Awaited
<1>6. Unheeded(buf', dev, n, m, v)
    BY <1>2, <1>3, <1>5, RestedWrites
<1>7. Awaiting(buf', dev, n, m, v)
    BY <1>6 DEF Awaiting
<1>8. Unread(buf', dev, m, v)
    <2>1. Len(m) # 0
        BY <1>3, LongerFacts, ListFacts
    <2> QED
        BY <2>1 DEF Unread
<1>9. Said(ses', buf', arriving) = v
    <2>1. <<>> \o arriving = arriving
        BY <1>1, <1>2, ListEmpty, ListConcat
    <2>2. w # None
        BY DEF Speaks, None
    <2> QED
        BY <1>1, <1>4, <1>5, <2>1, <2>2 DEF Said
<1>10. stdin \o sent' = m
    BY <1>1
<1> QED
    BY <1>1, <1>5, <1>7, <1>8, <1>9, <1>10, OrderParts

LEMMA WaitsSame ==
    ASSUME NEW k, NEW s, SessionFits(k, s), NEW w
    PROVE  Waits(s, w).todo = s.todo /\ Waits(s, w).mode = s.mode
<1>1. Waits(s, w) = [mode |-> s.mode, vsys |-> s.vsys, todo |-> s.todo, wait |-> w, task |-> s.task,
                     begun |-> s.begun, up |-> s.up, wide |-> s.wide]
    BY DEF SessionFits, Waits
<1> QED
    BY <1>1

Steady == \A k \in Kinds : Pairs[k].plugin.leaves = "never"

LEMMA DrainsOrder == ASSUME ShellInv, InOrder, Drains PROVE InOrder'
<1>1. ses.wait = None /\ ses.todo # <<>> /\ ~(dev.mode = Gone /\ arriving = <<>>)
    BY DEF Drains, Ready
<1>2. UNCHANGED <<kind, ahead, dev, stdin, arriving>> /\ sent' = sent /\ Await("drain", "") /\ "drain" \in Polls
    BY DEF Drains, AgentOnly, Polls
<1>3. PICK x : x = Question
    OBVIOUS
<1>4. EmptyLine(x) /\ sent' \in {sent, Append(sent, x)}
    BY <1>2, <1>3 DEF EmptyLine, Question
<1> QED
    BY <1>1, <1>2, <1>4, PollsOrder

LEMMA DecidesOrder == ASSUME Steady, ShellInv, InOrder, Decides PROVE InOrder'
<1>1. ses.wait = None /\ ses.todo # <<>> /\ ~(dev.mode = Gone /\ arriving = <<>>)
    BY DEF Decides, Ready
<1>2. UNCHANGED <<kind, ahead, dev, stdin, arriving>> /\ Await("decide", "") /\ "decide" \in Polls
    BY DEF Decides, AgentOnly, Polls
<1>3. plugin.leaves = "never"
    BY DEF Steady, ShellInv, plugin
<1>4. Write(<<"">>)
    BY <1>3 DEF Decides
<1>5. PICK x : x = [is |-> "", for |-> NotAsked]
    OBVIOUS
<1>6. IsList(sent)
    BY DEF ShellInv, Conversation
<1>7. sent' = Append(sent, x) /\ EmptyLine(x)
    BY <1>4, <1>5, <1>6, LineOfOne DEF Write, EmptyLine
<1> QED
    BY <1>1, <1>2, <1>7, PollsOrder

LEMMA WritesLineOrder == ASSUME ShellInv, InOrder, WritesLine PROVE InOrder'
<1>1. PICK do \in {"line", "own"} : Ready(do)
    BY DEF WritesLine
<1>2. ses.todo # <<>> /\ ses.wait = None /\ Now.do = do /\ Now.is \notin Forbidden /\ SessionFits(kind, ses)
    BY <1>1, ReadyFits DEF StepFits
<1>3. PICK x : /\ x = [is |-> Now.is, for |-> IF Now.do = "own" THEN ses.task ELSE NotAsked]
               /\ sent' = Append(sent, x)
    BY DEF WritesLine
<1>4. Await(do, Now.is) /\ do # None /\ do # "moving" /\ UNCHANGED <<kind, ahead, dev, stdin, arriving>>
      /\ do \in Speaks
    BY <1>2 DEF WritesLine, AgentOnly, None, Speaks
<1>5. ~(dev.mode = Gone /\ arriving = <<>>)
    BY <1>1 DEF Ready
<1>6. ses'.wait = do /\ buf'.cmd = Now.is
    BY <1>2, <1>4, Awaited
<1>7. ses'.todo = ses.todo
    <2>1. ses' = Waits(ses, do)
        BY <1>4 DEF Await, Waits
    <2> QED
        BY <1>2, <2>1, WaitsSame
<1>8. Commanded(ses', buf')
    <2>1. buf'.cmd # "" /\ buf'.cmd # "enable" /\ buf'.cmd = Head(ses'.todo).is
        BY <1>2, <1>6, <1>7 DEF Forbidden, Loud, Now
    <2> QED
        BY <1>2, <1>4, <1>6, <1>7, <2>1 DEF Commanded
<1>9. x.is = Now.is
    BY <1>3
<1> QED
    BY <1>2, <1>3, <1>4, <1>5, <1>8, <1>9, SpeaksOrder

LEMMA MovesOrder == ASSUME ShellInv, InOrder, Moves PROVE InOrder'
<1>1. Ready("moving") /\ AgentOnly
    BY DEF Moves
<1>2. SessionFits(kind, ses) /\ ses.todo # <<>> /\ ses.wait = None /\ Now = Head(ses.todo)
    BY <1>1, ReadyFits
<1>3. CASE ses.mode = Now.is
    <2>1. ses' = Rest(ses) /\ UNCHANGED <<sent, buf>>
        BY <1>3 DEF Moves
    <2>2. ses'.wait = None
        BY <1>2, <2>1, RestFits
    <2> QED
        BY <1>1, <1>2, <2>1, <2>2, QuietOrder DEF AgentOnly
<1>4. CASE ses.mode # Now.is
    <2>1. PICK c : c = Move(ses.mode, Now.is).cmd
        OBVIOUS
    <2>2. Write(<<c>>) /\ Await("moving", c)
        BY <1>4, <2>1 DEF Moves
    <2>3. PICK x : x = [is |-> c, for |-> NotAsked]
        OBVIOUS
    <2>4. IsList(sent)
        BY DEF ShellInv, Conversation
    <2>5. sent' = Append(sent, x) /\ x.is = c
        BY <2>2, <2>3, <2>4, LineOfOne DEF Write
    <2>6. UNCHANGED <<kind, ahead, dev, stdin, arriving>> /\ "moving" # None /\ "moving" \in Speaks
        BY <1>1 DEF AgentOnly, None, Speaks
    <2>7. c # ""
        BY <2>1, MoveFacts DEF Forbidden
    <2>8. ses'.wait = "moving" /\ buf'.cmd = c
        BY <1>2, <2>2, <2>6, Awaited
    <2>9. ses'.todo = ses.todo /\ ses'.mode = ses.mode
        <3>1. ses' = Waits(ses, "moving")
            BY <2>2 DEF Await, Waits
        <3> QED
            BY <1>2, <3>1, WaitsSame
    <2>10. Commanded(ses', buf')
        BY <1>2, <2>1, <2>7, <2>8, <2>9 DEF Commanded
    <2>11. ~(dev.mode = Gone /\ arriving = <<>>)
        BY <1>1 DEF Ready
    <2> QED
        BY <1>2, <2>2, <2>5, <2>6, <2>10, <2>11, SpeaksOrder
<1> QED
    BY <1>3, <1>4

\* The steps that write nothing and read nothing.
LEMMA OtherOrder ==
    ASSUME ShellInv, InOrder,
           SwitchesVsys \/ Believes \/ SwitchesMode \/ Finishes \/ WriteFails \/ TakesTask
    PROVE  InOrder'
<1>1. SessionFits(kind, ses) /\ kind \in Kinds
    BY DEF ShellInv
<1>2. UNCHANGED <<kind, ahead, dev, stdin, arriving>> /\ sent' = sent
    BY DEF SwitchesVsys, Believes, SwitchesMode, Finishes, WriteFails, TakesTask, AgentOnly
<1>3. ASSUME ses' \in {Rest(ses), Failed(ses)}, ses.todo # <<>> PROVE ses'.wait = None
    BY <1>1, <1>3, RestFits, FailedFits
<1>4. ASSUME NEW q, ses' = Listed(ses, q), ses.wait = None PROVE ses'.wait = None
    <2>1. Listed(ses, q) = [mode |-> ses.mode, vsys |-> ses.vsys, todo |-> q, wait |-> ses.wait, task |-> ses.task,
                            begun |-> ses.begun, up |-> ses.up, wide |-> ses.wide]
        BY <1>1 DEF SessionFits, Listed
    <2> QED
        BY <1>4, <2>1
<1>5. CASE SwitchesVsys
    <2>1. Ready("vsys")
        BY <1>5 DEF SwitchesVsys
    <2>2. ses.todo # <<>> /\ ses.wait = None
        BY <2>1 DEF Ready
    <2>3. ses'.wait = None
        BY <1>3, <1>4, <1>5, <2>2 DEF SwitchesVsys, Listed
    <2> QED
        BY <1>2, <2>2, <2>3, QuietOrder
<1>6. CASE Believes
    <2>1. Ready("believe")
        BY <1>6 DEF Believes
    <2>2. ses.todo # <<>> /\ ses.wait = None
        BY <2>1 DEF Ready
    <2>3. PICK s : s = Rest(ses) /\ SessionFits(kind, s) /\ s.wait = None
        BY <1>1, <2>2, RestFits
    <2>4. Believed(ses', s, Now.is)
        BY <1>6, <2>3 DEF Believes, Believed
    <2>5. ses'.wait = None
        BY <2>3, <2>4, BelievedFits
    <2> QED
        BY <1>2, <2>2, <2>5, QuietOrder
<1>7. CASE SwitchesMode
    <2>1. Ready("mode")
        BY <1>7 DEF SwitchesMode
    <2>2. ses.todo # <<>> /\ ses.wait = None
        BY <2>1 DEF Ready
    <2>3. ses'.wait = None
        BY <1>3, <1>4, <1>7, <2>2 DEF SwitchesMode, Listed
    <2> QED
        BY <1>2, <2>2, <2>3, QuietOrder
<1>8. CASE Finishes
    <2>1. ses.wait = None /\ ses'.wait = None
        BY <1>1, <1>8 DEF Finishes, SessionFits
    <2> QED
        BY <1>2, <2>1, QuietOrder
<1>9. CASE WriteFails
    <2>1. ses.wait = None /\ ses'.wait = None
        BY <1>3, <1>9 DEF WriteFails
    <2> QED
        BY <1>2, <2>1, QuietOrder
<1>10. CASE TakesTask
    <2>1. ses.wait = None /\ ses'.wait = None
        BY <1>1, <1>10, TaskFits
    <2> QED
        BY <1>2, <2>1, QuietOrder
<1> QED
    BY <1>5, <1>6, <1>7, <1>8, <1>9, <1>10

-----------------------------------------------------------------------------
(* The steps of the device keep the order.                                 *)

SaidGrown(s, b, a, r) ==
    /\ Said(s, b, a \o r) = Said(s, b, a) \o r /\ IsList(Said(s, b, a)) /\ IsList(a \o r)
    /\ s.wait # None => Len(b.got) \in 0..Len(Said(s, b, a))
LEMMA SaidGrows ==
    ASSUME NEW s, NEW b, NEW a, NEW r, BufferFits(b), IsList(a), IsList(r)
    PROVE  SaidGrown(s, b, a, r)
<1>1. IsList(b.got) /\ IsList(b.got \o a) /\ IsList(a \o r)
    BY ListConcat DEF BufferFits
<1>2. b.got \o (a \o r) = (b.got \o a) \o r
    <2>1. \A g : IsList(g) => g \o (a \o r) = (g \o a) \o r
        BY ListAssociative
    <2> QED
        BY <1>1, <2>1
<1>3. Len(b.got) \in 0..Len(b.got \o a)
    <2>1. PICK x \in Nat, y \in Nat : x = Len(b.got) /\ y = Len(a)
        BY <1>1, ListFacts
    <2>2. Len(b.got \o a) = x + y
        BY <1>1, <2>1, ListConcat
    <2> QED
        BY <2>1, <2>2
<1> QED
    BY <1>1, <1>2, <1>3 DEF Said, SaidGrown

LEMMA OrderReceives ==
    ASSUME NEW s, NEW b, NEW d, NEW l, NEW v, NEW w, Hears(l, v, w), d.mode # Gone, Order(s, b, d, 0, l, v)
    PROVE  Order(s, b, d, 1, l, w)
<1>1. IsList(l) /\ IsList(v) /\ Len(l) # 0 /\ l # <<>> /\ 1 \in DOMAIN l
    <2>1. IsList(l) /\ IsList(v) /\ Len(l) # 0
        BY DEF Hears
    <2>2. l # <<>>
        BY <2>1, ListFacts
    <2> QED
        BY <2>1, <2>2, ListTail
<1>2. ASSUME Polled(d, 0, l, v) PROVE Polled(d, 1, l, w) /\ (AtMostOne(l, v) => AtMostOne(l, w))
    <2>1. EmptyLine(l[1]) /\ Calm(d, 0, l, v) /\ Empties(l)
        BY <1>1, <1>2 DEF Polled, Empties, EmptyLine
    <2>2. Calm(d, 1, l, w) /\ (AtMostOne(l, v) => AtMostOne(l, w))
        BY <2>1, CalmReceives
    <2> QED
        BY <2>1, <2>2 DEF Polled
<1>3. CASE s.wait = None
    <2>1. Rested(d, 0, l, v)
        BY <1>3 DEF Order
    <2>2. Rested(d, 1, l, w)
        BY <1>2, <2>1 DEF Rested
    <2> QED
        BY <1>3, <2>2, OrderParts
<1>4. CASE s.wait \in Polls
    <2>1. Polled(d, 0, l, v) /\ ~Spoke(b)
        BY <1>4 DEF Order, Spoke
    <2> QED
        BY <1>2, <1>4, <2>1, OrderParts
<1>5. CASE s.wait \in Speaks
    <2>1. Commanded(s, b) /\ Awaiting(b, d, 0, l, v)
        BY <1>5 DEF Order
    <2>2. Spoke(b)
        BY <2>1 DEF Commanded, Spoke
    <2>3. Awaiting(b, d, 1, l, w)
        <3>1. CASE Unheeded(b, d, 0, l, v)
            BY <2>2, <3>1, UnheededReceives
        <3>2. CASE ~Unheeded(b, d, 0, l, v)
            <4>1. PICK e \in 1..Len(v) : Heeded(b, v, e) /\ Stage(b, d, 0, l, v, e)
                BY <2>1, <3>2 DEF Awaiting
            <4>2. Trusted(b, d, 0, l, v, e)
                BY <1>1, <4>1 DEF Stage, Closed, Executing, Replied, Questioned, Judging, Judged
            <4>3. PICK c : w = Append(v, Echo(c))
                BY DEF Hears
            <4> QED
                BY <1>1, <4>1, <4>2, <4>3, TrustedReceives
        <3> QED
            BY <3>1, <3>2
    <2>4. Unread(b, d, l, w)
        BY <1>1 DEF Unread
    <2> QED
        BY <1>5, <2>1, <2>3, <2>4, OrderParts
<1> QED
    BY <1>3, <1>4, <1>5 DEF Order

LEMMA ReceivesOrder == ASSUME ShellInv, InOrder, DeviceReceives PROVE InOrder'
<1> SUFFICES ASSUME ~ahead
             PROVE  Order(ses', buf', dev', Len(stdin'), stdin' \o sent', Said(ses', buf', arriving'))
    BY OrderNext DEF DeviceReceives
<1>1. IsList(stdin) /\ IsList(sent) /\ IsList(arriving) /\ BufferFits(buf)
    BY DEF ShellInv, Conversation
<1>2. sent # <<>> /\ dev.mode # Gone /\ stdin = <<>> /\ UNCHANGED <<dev, ses, buf>>
    BY DEF DeviceReceives
<1>3. PICK x : x = Echo(Head(sent).is)
    OBVIOUS
<1>4. PICK l : l = stdin \o sent
    OBVIOUS
<1>5. PICK v : v = Said(ses, buf, arriving)
    OBVIOUS
<1>6. arriving' = arriving \o <<x>> /\ IsList(<<x>>)
    BY <1>1, <1>3, ListAppend, ListOne DEF DeviceReceives
<1>7. Said(ses', buf', arriving') = Append(v, x) /\ IsList(v)
    <2>1. Said(ses, buf, arriving \o <<x>>) = v \o <<x>> /\ IsList(v)
        <3>1. SaidGrown(ses, buf, arriving, <<x>>)
            BY <1>1, <1>6, SaidGrows
        <3> QED
            BY <1>5, <3>1 DEF SaidGrown
    <2> QED
        BY <1>2, <1>6, <2>1, ListAppend
<1>8. stdin' \o sent' = l
    BY <1>1, <1>2, <1>4, LinesReceived DEF DeviceReceives
<1>9. Len(stdin) = 0 /\ Len(stdin') = 1
    <2>1. Len(stdin) = 0
        BY <1>1, <1>2, ListFacts
    <2>2. PICK y : stdin' = Append(stdin, y)
        BY DEF DeviceReceives
    <2>3. Len(stdin') = Len(stdin) + 1
        BY <1>1, <2>2, ListAppend DEF Extended
    <2> QED
        BY <2>1, <2>3
<1>10. l = sent
    BY <1>1, <1>2, <1>4, ListConcat
<1>11. Hears(l, v, Append(v, x))
    <2>1. Head(sent) = sent[1] /\ Len(sent) # 0
        BY <1>1, <1>2, ListTail, ListFacts
    <2> QED
        BY <1>1, <1>3, <1>7, <1>10, <2>1 DEF Hears
<1>12. Order(ses, buf, dev, 0, l, v)
    BY <1>4, <1>5, <1>9 DEF InOrder
<1>13. Order(ses, buf, dev, 1, l, Append(v, x))
    BY <1>2, <1>11, <1>12, OrderReceives
<1> QED
    BY <1>2, <1>7, <1>8, <1>9, <1>13

\* What the device says to a line c, of which v was said and w is: it closes the connection,
\* asks for the password, or shows a prompt; on the password it shows a prompt.
ShowsPrompt(w, v, x) == \E p : p.t = "prompt" /\ Says(w, v, <<x, p>>)
Handled(d, f, c, v, w) ==
    IF d.asked
    THEN f.mode # Gone /\ ~f.asked /\ \E x : x.t = "output" /\ ShowsPrompt(w, v, x)
    ELSE \/ f.mode = Gone /\ w = v /\ c # ""
         \/ f.mode # Gone /\ f.asked /\ c = "enable" /\ Says(w, v, <<Question>>)
         \/ f.mode # Gone /\ ~f.asked /\ ShowsPrompt(w, v, Output(c))

LEMMA ShowsAnswers ==
    ASSUME NEW v, NEW w, NEW x, IsList(v), IsList(w), x.t = "output", ShowsPrompt(w, v, x)
    PROVE  /\ Answered(w, v, "prompt")
           /\ \A i \in DOMAIN w : w[i].t \in {"output", "prompt"} \/ (i \in DOMAIN v /\ w[i] = v[i])
<1>1. PICK p : p.t = "prompt" /\ Says(w, v, <<x, p>>)
    BY DEF ShowsPrompt
<1>2. PICK q : q = <<x, p>> /\ Len(q) = 2 /\ q[1] = x /\ q[2] = p
    <2>1. \A y, z : <<y, z>>[1] = y /\ <<y, z>>[2] = z /\ Len(<<y, z>>) = 2
        OBVIOUS
    <2> QED
        BY <2>1
<1>3. PICK k \in Nat : k = Len(v)
    BY ListFacts
<1>4. Len(w) = k + 2 /\ w[k + 1] = x /\ w[k + 2] = p /\ \A i \in 1..k : w[i] = v[i]
    BY <1>1, <1>2, <1>3 DEF Says, Prolongs
<1>5. DOMAIN w = 1..k + 2 /\ DOMAIN v = 1..k
    BY <1>3, <1>4, ListFacts
<1>6. \A i \in 1..k + 2 : i \in 1..k \/ i = k + 1 \/ i = k + 2
    OBVIOUS
<1>7. \A i \in DOMAIN w : w[i].t \in {"output", "prompt"} \/ (i \in DOMAIN v /\ w[i] = v[i])
    BY <1>1, <1>4, <1>5, <1>6
<1>8. Answered(w, v, "prompt")
    <2>1. \A i \in k + 1..(k + 2) - 1 : i = k + 1
        OBVIOUS
    <2>2. k + 2 > k
        OBVIOUS
    <2> QED
        BY <1>1, <1>3, <1>4, <2>1, <2>2 DEF Answered
<1> QED
    BY <1>7, <1>8

Executes(l, m, v, w) == IsList(l) /\ IsList(m) /\ IsList(v) /\ IsList(w) /\ l # <<>> /\ Shorter(m, l)

LEMMA OrderHandles ==
    ASSUME NEW s, NEW b, NEW d, NEW f, NEW l, NEW m, NEW v, NEW w, Executes(l, m, v, w),
           d.mode # Gone, Handled(d, f, l[1].is, v, w), Order(s, b, d, 1, l, v),
           s.wait # None => Len(b.got) \in 0..Len(v)
    PROVE  Order(s, b, f, 0, m, w)
<1>1. 1 \in DOMAIN l
    BY ListTail DEF Executes
<1>2. ASSUME NEW n, Calm(d, n, l, v), EmptyLine(l[1])
      PROVE  f.mode # Gone /\ ~f.asked /\ Obeys(l, m, v, w)
    <2>1. f.mode # Gone /\ ~f.asked /\ ShowsPrompt(w, v, Output(l[1].is))
        BY <1>2 DEF Handled, EmptyLine, Calm
    <2>2. Output(l[1].is).t = "output"
        BY TokenFacts
    <2>3. PICK x : x = Output(l[1].is) /\ x.t = "output" /\ ShowsPrompt(w, v, x)
        BY <2>1, <2>2
    <2>4. IsList(v) /\ IsList(w)
        BY DEF Executes
    <2> QED
        BY <2>1, <2>3, <2>4, ShowsAnswers DEF Obeys, Executes
<1>3. \A i \in DOMAIN m : i + 1 \in DOMAIN l /\ m[i] = l[i + 1]
    BY ShorterFacts DEF Executes
<1>4. ASSUME Polled(d, 1, l, v)
      PROVE  f.mode # Gone /\ Polled(f, 0, m, w) /\ (AtMostOne(l, v) => AtMostOne(m, w))
    <2>1. Calm(d, 1, l, v) /\ EmptyLine(l[1])
        BY <1>1, <1>4 DEF Polled, Empties, EmptyLine
    <2>2. f.mode # Gone /\ ~f.asked /\ Obeys(l, m, v, w)
        BY <1>2, <2>1
    <2>3. Calm(f, 0, m, w) /\ (AtMostOne(l, v) => AtMostOne(m, w))
        BY <2>1, <2>2, CalmHandles
    <2>4. Empties(m)
        BY <1>3, <1>4 DEF Polled, Empties
    <2> QED
        BY <2>2, <2>3, <2>4 DEF Polled
<1>5. CASE s.wait = None
    <2>1. Rested(d, 1, l, v)
        BY <1>5 DEF Order
    <2>2. f.mode # Gone /\ Rested(f, 0, m, w)
        BY <1>4, <2>1 DEF Rested
    <2> QED
        BY <1>5, <2>2, OrderParts
<1>6. CASE s.wait \in Polls
    <2>1. Polled(d, 1, l, v) /\ ~Spoke(b)
        BY <1>6 DEF Order, Spoke
    <2> QED
        BY <1>4, <1>6, <2>1, OrderParts
<1>7. CASE s.wait \in Speaks
    <2>1. Commanded(s, b) /\ Awaiting(b, d, 1, l, v)
        BY <1>7 DEF Order
    <2>2. Awaiting(b, f, 0, m, w) /\ Unread(b, f, m, w)
        <3>1. CASE Unheeded(b, d, 1, l, v)
            <4>1. Calm(d, 1, l, v) /\ Len(l) = 2 /\ ~b.flag
                <5>1. Len(l) \in Nat /\ Len(l) <= 2 /\ 1 < Len(l)
                    BY <3>1, ListFacts DEF Unheeded, Calm, AtMostTwo, Executes
                <5>2. \A k \in Nat : k <= 2 /\ 1 < k => k = 2
                    OBVIOUS
                <5> QED
                    BY <3>1, <5>1, <5>2 DEF Unheeded
            <4>2. EmptyLine(l[1]) /\ l[2].is = b.cmd
                <5>1. 1 \in 1..2 - 1
                    OBVIOUS
                <5> QED
                    BY <3>1, <4>1, <5>1 DEF Unheeded, EmptyLine
            <4>3. f.mode # Gone /\ ~f.asked /\ Obeys(l, m, v, w)
                BY <1>2, <4>1, <4>2
            <4>4. Calm(f, 0, m, w)
                BY <4>1, <4>3, CalmHandles
            <4>5. Len(m) = 1 /\ m[1] = l[2]
                BY <4>1 DEF Executes, Shorter
            <4>6. Unheeded(b, f, 0, m, w)
                <5>1. 0 < Len(m) /\ m[Len(m)].is = b.cmd /\ \A i \in 1..Len(m) - 1 : FALSE
                    BY <4>2, <4>5
                <5> QED
                    BY <4>1, <4>4, <5>1 DEF Unheeded
            <4> QED
                BY <4>3, <4>6 DEF Awaiting, Unread
        <3>2. CASE ~Unheeded(b, d, 1, l, v)
            <4>1. PICK e \in 1..Len(v) : Heeded(b, v, e) /\ Stage(b, d, 1, l, v, e)
                BY <2>1, <3>2 DEF Awaiting
            <4>2. Executing(b, d, 1, l, v, e) \/ Judging(b, d, 1, l, v, e)
                BY <4>1 DEF Stage, Closed, Replied, Questioned, Trusted, Judged
            <4>3. Len(b.got) \in 0..Len(v)
                BY <1>7 DEF Speaks, None
            <4>4. CASE Executing(b, d, 1, l, v, e)
                <5>1. Outcome(b, f, w, v)
                    BY <4>4 DEF Handled, Executing, Outcome, ShowsPrompt
                <5> QED
                    BY <4>1, <4>3, <4>4, <5>1, ExecutingHandles DEF Executes
            <4>5. CASE Judging(b, d, 1, l, v, e)
                <5>1. d.asked
                    BY <4>5 DEF Judging, Asking
                <5>2. f.mode # Gone /\ ~f.asked /\ \E x : x.t = "output" /\ ShowsPrompt(w, v, x)
                    BY <5>1 DEF Handled
                <5>3. PICK p, q : p.t = "output" /\ q.t = "prompt" /\ Says(w, v, <<p, q>>)
                    BY <5>2 DEF ShowsPrompt
                <5> QED
                    BY <4>1, <4>5, <5>2, <5>3, JudgingHandles DEF Executes
            <4> QED
                BY <4>2, <4>4, <4>5
        <3> QED
            BY <3>1, <3>2
    <2>3. Commanded(s, b)
        BY <2>1
    <2> QED
        BY <1>7, <2>2, <2>3, OrderParts
<1> QED
    BY <1>5, <1>6, <1>7 DEF Order

LEMMA OneReceived ==
    ASSUME NEW s, NEW b, NEW d, NEW n, NEW l, NEW v, d.mode # Gone, Order(s, b, d, n, l, v)
    PROVE  n \in {0, 1}
<1>1. Awaiting(b, d, n, l, v) => n \in {0, 1}
    BY DEF Awaiting, Unheeded, Calm, Turn, Stage, Closed, Executing, Replied, Questioned, Trusted, Judging, Judged
<1>2. Polled(d, n, l, v) => n \in {0, 1}
    BY DEF Polled, Calm, Turn
<1> QED
    BY <1>1, <1>2 DEF Order, Rested

\* What a handler does with a line.
LEMMA LineHandled ==
    ASSUME ShellInv, DeviceHandles, NEW v, IsList(v)
    PROVE  \E p : arriving' = arriving \o p /\ IsList(p) /\ Handled(dev, dev', Head(stdin).is, v, v \o p)
<1>1. PICK c : c = Head(stdin).is
    OBVIOUS
<1>2. dev.mode # Gone /\ DeviceFits(dev) /\ kind \in Kinds
    BY DEF ShellInv, DeviceHandles
<1> DEFINE right == c = "right"
           Told == [dev EXCEPT !.asked = FALSE, !.mode = IF right THEN ENABLE ELSE LOGIN]
           Queries == device.asks /\ dev.mode = LOGIN /\ c = "enable"
<1>3. PICK d : d = (IF dev.asked THEN Told
                    ELSE IF Queries THEN [dev EXCEPT !.asked = TRUE] ELSE Executed(dev, c))
    OBVIOUS
<1>4. PICK o : o = Output(IF dev.asked /\ right THEN "" ELSE c)
    OBVIOUS
<1>5. PICK p : p = CASE d.mode = Gone -> <<>>
                     [] d.asked -> <<Question>>
                     [] OTHER -> <<o, Shown(d)>>
    OBVIOUS
<1>6. dev' = d /\ arriving' = arriving \o p
    BY <1>1, <1>3, <1>4, <1>5 DEF DeviceHandles
<1>7. o.t = "output" /\ (~dev.asked => o = Output(c))
    BY <1>4, TokenFacts
<1>8. Shown(d).t = "prompt"
    BY ShownIsPrompt
<1>9. ASSUME dev.asked PROVE d.mode # Gone /\ ~d.asked
    <2>1. PICK y, mode : y = FALSE /\ mode = IF right THEN ENABLE ELSE LOGIN
        OBVIOUS
    <2>2. d = [mode |-> mode, vsys |-> dev.vsys, open |-> dev.open, asked |-> y]
        BY <1>2, <1>3, <1>9, <2>1 DEF DeviceFits
    <2>3. d.mode = mode /\ d.asked = y
        BY <2>2
    <2>4. mode # Gone
        BY <2>1 DEF ENABLE, LOGIN, Gone
    <2>5. ~y
        BY <2>1, Zenon
    <2> QED
        BY <2>3, <2>4, <2>5
<1>10. ASSUME ~dev.asked, Queries PROVE d.mode # Gone /\ d.asked
    <2>1. d = [mode |-> dev.mode, vsys |-> dev.vsys, open |-> dev.open, asked |-> TRUE]
        BY <1>2, <1>3, <1>10 DEF DeviceFits
    <2> QED
        BY <1>2, <2>1
<1>11. ASSUME ~dev.asked, ~Queries PROVE d = Executed(dev, c) /\ ~d.asked /\ (c = "" => d.mode # Gone)
    <2>1. d = Executed(dev, c) /\ DeviceKept(dev, d)
        BY <1>2, <1>3, <1>11, ExecutedFits
    <2>2. PICK x : x = Head(stdin) /\ x.is = c
        BY <1>1
    <2>3. EmptyLine(x) => Executed(dev, c).mode = dev.mode
        BY <1>2, <2>2, EmptyExecuted
    <2>4. c = "" => d.mode # Gone
        BY <1>2, <2>1, <2>2, <2>3 DEF EmptyLine
    <2> QED
        BY <1>11, <2>1, <2>4 DEF DeviceKept
<1> HIDE DEF Queries, Told, right
<1>12. IsList(p) /\ (d.mode = Gone /\ ~d.asked => p = <<>>) /\ (d.mode # Gone /\ d.asked => p = <<Question>>)
       /\ (d.mode # Gone /\ ~d.asked => p = <<o, Shown(d)>>)
    <2>1. CASE d.mode = Gone /\ ~d.asked
        BY <1>5, <2>1, ListEmpty
    <2>2. CASE d.mode # Gone /\ d.asked
        BY <1>5, <2>2, ListOne
    <2>3. CASE d.mode # Gone /\ ~d.asked
        <3>1. \A y, z : <<y, z>> \in Seq({y, z})
            OBVIOUS
        <3> QED
            BY <1>5, <2>3, <3>1 DEF IsList
    <2>4. ~(d.mode = Gone /\ d.asked)
        BY <1>9, <1>10, <1>11
    <2> QED
        BY <2>1, <2>2, <2>3, <2>4
<1>13. Says(v \o p, v, p)
    BY <1>12, SomeProlong DEF Says
<1>14. CASE dev.asked
    <2>1. ShowsPrompt(v \o p, v, o)
        BY <1>8, <1>9, <1>12, <1>13, <1>14 DEF ShowsPrompt
    <2> QED
        BY <1>1, <1>6, <1>7, <1>9, <1>12, <1>14, <2>1 DEF Handled
<1>15. CASE ~dev.asked /\ Queries
    <2>1. c = "enable"
        BY <1>15 DEF Queries
    <2>2. d.mode # Gone /\ d.asked /\ Says(v \o p, v, <<Question>>)
        BY <1>10, <1>12, <1>13, <1>15
    <2> QED
        BY <1>1, <1>6, <1>12, <1>15, <2>1, <2>2 DEF Handled
<1>16. CASE ~dev.asked /\ ~Queries /\ d.mode = Gone
    <2>1. v \o p = v /\ ~d.asked
        BY <1>11, <1>12, <1>16, ListConcat, ListEmpty
    <2>2. c # ""
        BY <1>11, <1>16
    <2> QED
        BY <1>1, <1>6, <1>12, <1>16, <2>1, <2>2 DEF Handled
<1>17. CASE ~dev.asked /\ ~Queries /\ d.mode # Gone
    <2>1. ShowsPrompt(v \o p, v, Output(c)) /\ ~d.asked
        BY <1>7, <1>8, <1>11, <1>12, <1>13, <1>17 DEF ShowsPrompt
    <2> QED
        BY <1>1, <1>6, <1>12, <1>17, <2>1 DEF Handled
<1> QED
    BY <1>14, <1>15, <1>16, <1>17

LEMMA HandlesOrder == ASSUME ShellInv, InOrder, DeviceHandles PROVE InOrder'
<1> SUFFICES ASSUME ~ahead
             PROVE  Order(ses', buf', dev', Len(stdin'), stdin' \o sent', Said(ses', buf', arriving'))
    BY OrderNext DEF DeviceHandles
<1>1. IsList(stdin) /\ IsList(sent) /\ IsList(arriving) /\ BufferFits(buf)
    BY DEF ShellInv, Conversation
<1>2. /\ stdin # <<>> /\ dev.mode # Gone /\ stdin' = Tail(stdin)
      /\ UNCHANGED <<sent, ses, buf>>
    BY DEF DeviceHandles
<1>3. PICK l, m, v : l = stdin \o sent /\ m = Tail(stdin) \o sent /\ v = Said(ses, buf, arriving)
    OBVIOUS
<1>4. IsList(v)
    BY <1>1, <1>3, ListEmpty, SaidGrows DEF SaidGrown
<1>5. PICK p : arriving' = arriving \o p /\ IsList(p) /\ Handled(dev, dev', Head(stdin).is, v, v \o p)
    BY <1>4, LineHandled
<1>6. Said(ses, buf, arriving \o p) = v \o p /\ (ses.wait # None => Len(buf.got) \in 0..Len(v))
    <2>1. SaidGrown(ses, buf, arriving, p)
        BY <1>1, <1>5, SaidGrows
    <2> QED
        BY <1>3, <2>1 DEF SaidGrown
<1>7. IsList(l) /\ IsList(m) /\ Shorter(m, l) /\ l[1] = Head(stdin) /\ l # <<>>
    BY <1>1, <1>2, <1>3, LinesExecuted
<1>8. Order(ses, buf, dev, Len(stdin), l, v)
    BY <1>3 DEF InOrder
<1>9. Len(stdin) = 1 /\ Len(stdin') = 0
    <2>1. Len(stdin) # 0 /\ Len(stdin) \in {0, 1}
        BY <1>1, <1>2, <1>8, OneReceived, ListFacts
    <2>2. Len(stdin') = Len(stdin) - 1
        BY <1>1, <1>2, ListTail DEF Shorter
    <2> QED
        BY <2>1, <2>2
<1>10. PICK w : w = v \o p
    OBVIOUS
<1>11. Executes(l, m, v, w)
    BY <1>4, <1>5, <1>7, <1>10, ListConcat DEF Executes
<1>12. Handled(dev, dev', l[1].is, v, w) /\ Order(ses, buf, dev, 1, l, v)
    BY <1>5, <1>7, <1>8, <1>9, <1>10
<1>13. Order(ses, buf, dev', 0, m, w)
    BY <1>2, <1>6, <1>11, <1>12, OrderHandles
<1> QED
    BY <1>2, <1>3, <1>5, <1>6, <1>9, <1>10, <1>13

-----------------------------------------------------------------------------
(* The reads keep the order.                                               *)

ChunkOf(b, v, a) ==
    /\ IsList(v) /\ IsList(a) /\ v = b.got \o a /\ Prolongs(v, b.got) /\ Behind(a, v, Len(b.got))
    /\ BufferFits(b) /\ BufferFits(buf) /\ Len(buf.got) \in 0..Len(b.got)
    /\ b.cmd = buf.cmd /\ b.from = buf.from /\ b.flag = buf.flag

LEMMA ChunkSaid ==
    ASSUME ShellInv, ses.wait # None, NEW n \in 1..Len(arriving), Reads(n), NEW b, b = Chunk(n)
    PROVE  /\ ChunkOf(b, Said(ses, buf, arriving), arriving')
           /\ UNCHANGED <<kind, ahead, dev, stdin>>
<1>1. IsList(arriving) /\ BufferFits(buf) /\ ChunkIs(n, b)
    BY ChunkFits DEF ShellInv, Conversation
<1>2. PICK g, h, a, r : g = buf.got /\ h = b.got /\ a = arriving /\ r = arriving'
    OBVIOUS
<1>3. IsList(g) /\ IsList(h) /\ BufferFits(b) /\ b.from = buf.from /\ Taken(g, a, n, h, r)
    BY <1>1, <1>2 DEF ChunkIs, BufferFits
<1>4. TakenIs(g, a, n, h, r)
    BY <1>1, <1>2, <1>3, ChunkFacts
<1>5. IsList(r) /\ Len(h) = Len(g) + n /\ h \o r = g \o a
    BY <1>4 DEF TakenIs
<1>6. PICK v : v = Said(ses, buf, arriving)
    OBVIOUS
<1>7. v = h \o r
    BY <1>2, <1>5, <1>6 DEF Said
<1>8. IsList(v) /\ Prolongs(v, h) /\ Len(v) = Len(h) + Len(r) /\ \A i \in 1..Len(r) : v[Len(h) + i] = r[i]
    <2>1. Says(h \o r, h, r)
        BY <1>3, <1>5, SomeProlong DEF Says
    <2> QED
        BY <1>7, <2>1 DEF Prolongs, Says
<1>9. PICK x \in Nat, y \in Nat, z \in Nat : x = Len(h) /\ y = Len(r) /\ z = Len(g)
    BY <1>3, <1>5, ListFacts
<1>10. Behind(r, v, Len(h))
    <2>1. x \in 0..x + y /\ y = (x + y) - x /\ \A i \in 1..y : x + i = i + x
        OBVIOUS
    <2> QED
        BY <1>8, <1>9, <2>1 DEF Behind
<1>11. Len(g) \in 0..Len(h)
    <2>1. n \in Nat
        BY <1>1, ListFacts
    <2>2. z \in 0..z + n
        BY <2>1
    <2> QED
        BY <1>5, <1>9, <2>2
<1>12. b.cmd = buf.cmd /\ b.flag = buf.flag
    <2>1. b = [cmd |-> buf.cmd, got |-> buf.got \o SubSeq(arriving, 1, n), from |-> buf.from, flag |-> buf.flag]
        BY <1>1 DEF BufferFits, Chunk
    <2> QED
        BY <2>1
<1>13. ChunkOf(b, v, r)
    BY <1>1, <1>2, <1>3, <1>5, <1>7, <1>8, <1>10, <1>11, <1>12 DEF ChunkOf
<1> QED
    BY <1>2, <1>6, <1>13 DEF Reads

\* Searching and moving on.
LEMMA SearchedOn ==
    ASSUME NEW b, NEW v, NEW a, ChunkOf(b, v, a), NEW c, c \in {b, Searched(b), Advanced(Searched(b))}
    PROVE  Onward(buf, c, v) /\ BufferKept(b, c)
<1>1. PICK s : s = Searched(b)
    OBVIOUS
<1>2. BufferFits(b) /\ BufferKept(b, b) /\ BufferKept(b, s) /\ BufferFits(s)
    BY <1>1, SearchedFits DEF ChunkOf, BufferKept
<1>3. s.cmd = b.cmd /\ (s.flag => b.flag \/ EchoIn(b, b.from, Len(b.got)))
    <2>1. PICK x : x = (b.flag \/ EchoIn(b, b.from, Len(b.got)))
        OBVIOUS
    <2>2. s = [b EXCEPT !.flag = x]
        BY <1>1, <2>1 DEF Searched
    <2>3. s = [cmd |-> b.cmd, got |-> b.got, from |-> b.from, flag |-> x]
        BY <1>2, <2>2 DEF BufferFits
    <2> QED
        BY <2>1, <2>3
<1>4. BufferKept(b, Advanced(s)) /\ Advanced(s).cmd = s.cmd /\ Advanced(s).flag = s.flag
    <2>1. BufferKept(s, Advanced(s))
        BY <1>2, AdvancedFits
    <2>2. BufferKept(b, Advanced(s))
        BY <1>2, <2>1, KeptKept
    <2>3. \A e : [s EXCEPT !.from = e].cmd = s.cmd /\ [s EXCEPT !.from = e].flag = s.flag
        <3> TAKE e
        <3>1. [s EXCEPT !.from = e] = [cmd |-> s.cmd, got |-> s.got, from |-> e, flag |-> s.flag]
            BY <1>2 DEF BufferFits
        <3> QED
            BY <3>1
    <2>4. Advanced(s).cmd = s.cmd /\ Advanced(s).flag = s.flag
        BY <2>3 DEF Advanced
    <2> QED
        BY <2>2, <2>4
<1>5. BufferKept(b, c) /\ c.cmd = b.cmd /\ (c.flag => b.flag \/ EchoIn(b, b.from, Len(b.got)))
    BY <1>1, <1>2, <1>3, <1>4
<1>6. PICK k \in Nat : k = Len(b.got)
    BY <1>2, ListFacts DEF BufferFits
<1>7. b.from \in 1..k + 1 /\ c.from \in b.from..k + 1 /\ c.got = b.got
    BY <1>2, <1>5, <1>6 DEF BufferFits, BufferKept
<1>8. b.from \in 1..c.from /\ c.from \in Nat
    BY <1>7
<1>9. ASSUME c.flag PROVE b.flag \/ \E j \in 1..Len(c.got) : c.got[j] = Echo(b.cmd)
    <2>1. CASE EchoIn(b, b.from, k)
        <3>1. PICK j \in b.from..k : b.got[j] = Echo(b.cmd)
            BY <2>1 DEF EchoIn
        <3>2. j \in 1..k
            BY <1>7
        <3> QED
            BY <1>6, <1>7, <3>1, <3>2
    <2> QED
        BY <1>5, <1>6, <1>9, <2>1
<1> QED
    BY <1>5, <1>7, <1>8, <1>9 DEF Onward, ChunkOf

\* The buffer is kept and the session waits on.
LEMMA OnOrder ==
    ASSUME ShellInv, InOrder, NEW b, ChunkOf(b, Said(ses, buf, arriving), arriving'), ses.wait # None,
           UNCHANGED <<kind, ahead, dev, stdin>>, ses' = ses, sent' = sent,
           buf' \in {b, Searched(b), Advanced(Searched(b))},
           ~ahead /\ ses.wait \in Speaks => Unread(buf', dev, stdin \o sent, Said(ses, buf, arriving))
    PROVE  InOrder'
<1> SUFFICES ASSUME ~ahead
             PROVE  Order(ses, buf', dev, Len(stdin), stdin \o sent, Said(ses, buf', arriving'))
    BY OrderNext
<1>1. PICK n, l, v, a, c : /\ n = Len(stdin) /\ l = stdin \o sent /\ v = Said(ses, buf, arriving)
                           /\ a = arriving' /\ c = buf'
    OBVIOUS
<1>2. Order(ses, buf, dev, n, l, v)
    BY <1>1 DEF InOrder
<1>3. ChunkOf(b, v, a) /\ c \in {b, Searched(b), Advanced(Searched(b))}
    BY <1>1
<1>4. Onward(buf, c, v) /\ BufferKept(b, c)
    BY <1>3, SearchedOn
<1>5. c.cmd = buf.cmd /\ c.got = b.got
    BY <1>4 DEF Onward, BufferKept
<1>6. Said(ses, c, a) = v
    BY <1>3, <1>5 DEF Said, ChunkOf
<1>7. CASE ses.wait \in Polls
    <2>1. ~Spoke(buf) /\ Polled(dev, n, l, v)
        BY <1>2, <1>7 DEF Order, Spoke
    <2>2. ~Spoke(c)
        BY <1>5, <2>1 DEF Spoke
    <2> QED
        BY <1>1, <1>6, <1>7, <2>1, <2>2, OrderParts
<1>8. CASE ses.wait \in Speaks
    <2>1. Commanded(ses, buf) /\ Awaiting(buf, dev, n, l, v)
        BY <1>2, <1>8 DEF Order
    <2>2. Spoke(buf) /\ Commanded(ses, c)
        BY <1>5, <2>1 DEF Spoke, Commanded
    <2>3. IsList(v)
        BY <1>3 DEF ChunkOf
    <2>4. Awaiting(c, dev, n, l, v)
        BY <1>4, <2>1, <2>2, <2>3, OnwardAwaits
    <2>5. Unread(c, dev, l, v)
        BY <1>1, <1>8
    <2> QED
        BY <1>1, <1>6, <1>8, <2>2, <2>4, <2>5, OrderParts
<1> QED
    BY <1>2, <1>7, <1>8 DEF Order

\* The prompt that is taken for the answer is one.
LEMMA HitMeans ==
    ASSUME InOrder, ~ahead, ses.wait \in Speaks, NEW b, NEW a,
           ChunkOf(b, Said(ses, buf, arriving), a), NEW c, c \in {b, Searched(b)},
           NEW S, Hits(c, S, c.flag) # {}
    PROVE  /\ Dealt(c, dev, Len(stdin), stdin \o sent, Said(ses, buf, arriving))
           /\ c.cmd = buf.cmd /\ c.got = b.got
           /\ \A i \in Hits(c, S, c.flag) : i = Len(Said(ses, buf, arriving))
<1>1. PICK n, l, v : n = Len(stdin) /\ l = stdin \o sent /\ v = Said(ses, buf, arriving)
    OBVIOUS
<1>2. Awaiting(buf, dev, n, l, v) /\ Spoke(buf)
    <2>1. Order(ses, buf, dev, n, l, v)
        BY <1>1 DEF InOrder
    <2> QED
        BY <2>1, OrderMeans
<1>3. Onward(buf, c, v) /\ BufferKept(b, c) /\ IsList(v)
    BY <1>1, SearchedOn DEF ChunkOf
<1>5. c.cmd = buf.cmd /\ c.got = b.got /\ BufferFits(c) /\ Prolongs(v, c.got)
    BY <1>3 DEF Onward, BufferKept
<1>6. Spoke(c)
    BY <1>2, <1>5, SpokeSame
<1>7. Awaiting(c, dev, n, l, v)
    BY <1>2, <1>3, OnwardAwaits
<1>8. Dealt(c, dev, n, l, v) /\ \A i \in Hits(c, S, c.flag) : i = Len(v)
    BY <1>3, <1>5, <1>6, <1>7, HitDealt
<1> QED
    BY <1>1, <1>5, <1>8

LEMMA EmptyRested ==
    ASSUME NEW d, NEW l, NEW v, IsList(l), IsList(v), Len(l) = 0, Len(v) = 0, d.mode # Gone, ~d.asked
    PROVE  Rested(d, 0, l, v)
<1>1. DOMAIN l = {} /\ DOMAIN v = {}
    <2>1. DOMAIN l = 1..Len(l) /\ DOMAIN v = 1..Len(v)
        BY ListFacts
    <2>2. 1..0 = {}
        OBVIOUS
    <2> QED
        BY <2>1, <2>2
<1>2. Answers(v) = {}
    BY <1>1 DEF Answers
<1>3. AtMostOne(l, v) /\ AtMostTwo(l, v)
    BY <1>2 DEF AtMostOne, AtMostTwo
<1>4. Turn(0, v)
    BY DEF Turn
<1> QED
    BY <1>1, <1>3, <1>4 DEF Rested, Polled, Calm, Blank, Empties

\* The prompt is there and the session goes on.
LEMMA HitOrder ==
    ASSUME ShellInv, InOrder, ses.wait # None, NEW b, ChunkOf(b, Said(ses, buf, arriving), arriving'),
           NEW c, c \in {b, Searched(b)}, NEW S, Hits(c, S, c.flag) # {},
           UNCHANGED <<kind, ahead, dev, stdin>>, sent' = sent, ses'.wait = None
    PROVE  InOrder'
<1> SUFFICES ASSUME ~ahead
             PROVE  Order(ses', buf', dev, Len(stdin), stdin \o sent, Said(ses', buf', arriving'))
    BY OrderNext
<1>1. PICK n, l, v, a : /\ n = Len(stdin) /\ l = stdin \o sent /\ v = Said(ses, buf, arriving)
                        /\ a = arriving'
    OBVIOUS
<1>2. Order(ses, buf, dev, n, l, v) /\ ChunkOf(b, v, a) /\ IsList(l)
    <2>1. IsList(stdin) /\ IsList(sent)
        BY DEF ShellInv, Conversation
    <2> QED
        BY <1>1, <2>1, ListConcat DEF InOrder
<1>3. Said(ses', buf', a) = a
    BY DEF Said
<1>4. IsList(v) /\ IsList(a) /\ Behind(a, v, Len(b.got))
    BY <1>2 DEF ChunkOf
<1>5. CASE ses.wait \in Speaks
    <2>1. Dealt(c, dev, n, l, v) /\ c.got = b.got
        BY <1>1, <1>2, <1>5, HitMeans
    <2>2. Len(a) = 0
        <3>1. PICK x \in Nat : x = Len(v)
            BY <1>4, ListFacts
        <3>2. Len(b.got) = x
            BY <2>1, <3>1 DEF Dealt
        <3> QED
            BY <1>4, <3>1, <3>2 DEF Behind
    <2>3. Rested(dev, n, l, a) /\ dev.mode # Gone
        BY <1>2, <1>4, <2>1, <2>2, EmptyRested DEF Dealt
    <2> QED
        BY <1>1, <1>3, <2>3, OrderParts
<1>6. CASE ses.wait \in Polls
    <2>1. Polled(dev, n, l, v)
        BY <1>2, <1>6, OrderMeans
    <2>2. BufferKept(b, c) /\ Prolongs(v, b.got) /\ BufferFits(b)
        BY <1>2, SearchedOn DEF ChunkOf
    <2>3. PICK k \in Nat : k = Len(b.got)
        BY <2>2, ListFacts DEF BufferFits
    <2>4. PICK i \in c.from..k : b.got[i].t = "prompt"
        <3>1. c.got = b.got
            BY <2>2 DEF BufferKept
        <3>2. PICK i \in Hits(c, S, c.flag) : TRUE
            OBVIOUS
        <3>3. i \in c.from..Len(c.got) /\ c.got[i].t = "prompt"
            BY <3>2, Zenon DEF Hits
        <3> QED
            BY <2>3, <3>1, <3>3
    <2>5. i \in 1..k
        BY <2>2, <2>3, <2>4 DEF BufferKept, BufferFits
    <2>6. i \in Answers(v)
        <3>1. Len(v) \in Nat /\ k <= Len(v) /\ v[i] = b.got[i] /\ DOMAIN v = 1..Len(v)
            BY <1>4, <2>2, <2>3, <2>5, ListFacts DEF Prolongs
        <3>2. i \in 1..Len(v)
            BY <2>5, <3>1
        <3> QED
            BY <2>4, <3>1, <3>2 DEF Answers
    <2>7. Rested(dev, n, l, a)
        BY <1>2, <1>4, <2>1, <2>3, <2>5, <2>6, PolledRests
    <2>8. dev.mode # Gone
        BY <2>1 DEF Polled, Calm
    <2> QED
        BY <1>1, <1>3, <2>7, <2>8, OrderParts
<1> QED
    BY <1>2, <1>5, <1>6, OrderMeans

LEMMA ReadsUntilPromptOrder == ASSUME Steady, ShellInv, InOrder, ReadsUntilPrompt PROVE InOrder'
<1>1. ses.wait # None /\ ses.wait # "moving"
    BY DEF ReadsUntilPrompt, None
<1>2. SessionFits(kind, ses) /\ ses.todo # <<>>
    BY <1>1 DEF ShellInv, SessionFits
<1>3. PICK n \in 1..Len(arriving) :
        LET b == Chunk(n)
            c == Candidates(b)
            p == b.got[FirstOf(c)]
        IN /\ Reads(n)
           /\ IF Hits(b, Union, b.flag) = {}
              THEN /\ buf' = IF plugin.moves THEN Advanced(Searched(b)) ELSE Searched(b)
                   /\ UNCHANGED <<ses, sent>>
              ELSE IF ses.wait \in {"drain", "line", "own"}
              THEN ses' = Rest(ses) /\ buf' = b /\ UNCHANGED sent
              ELSE IF c = {}
              THEN ses' = Failed(ses) /\ buf' = b /\ UNCHANGED sent
              ELSE IF ses.wait = "decide" /\ plugin.leaves = "level" /\ p.v \notin {Own, ses.vsys}
              THEN Write(<<"end">>) /\ Await("reread", "")
              ELSE ses' = Decided(ses, p) /\ buf' = b /\ UNCHANGED sent
    BY DEF ReadsUntilPrompt
<1>4. PICK b : b = Chunk(n)
    OBVIOUS
<1>5. PICK p : p = b.got[FirstOf(Candidates(b))]
    OBVIOUS
<1>6. ChunkOf(b, Said(ses, buf, arriving), arriving') /\ UNCHANGED <<kind, ahead, dev, stdin>>
    BY <1>1, <1>3, <1>4, ChunkSaid
<1>7. CASE Hits(b, Union, b.flag) = {}
    <2>1. UNCHANGED <<ses, sent>> /\ buf' \in {b, Searched(b), Advanced(Searched(b))}
        BY <1>3, <1>4, <1>7
    <2>2. PICK v, l : v = Said(ses, buf, arriving) /\ l = stdin \o sent
        OBVIOUS
    <2>3. ASSUME ~ahead, ses.wait \in Speaks PROVE Unread(buf', dev, l, v)
        <3>1. ses.wait \in {"line", "own"}
            BY <1>1, <2>3 DEF Speaks
        <3>2. Order(ses, buf, dev, Len(stdin), l, v)
            BY <2>2, <2>3 DEF InOrder
        <3>3. Commanded(ses, buf) /\ Awaiting(buf, dev, Len(stdin), l, v) /\ Unread(buf, dev, l, v)
            BY <2>3, <3>2, OrderMeans
        <3>4. ~Enters(buf)
            BY <3>1, <3>3, Zenon DEF Commanded, Enters
        <3>5. ChunkOf(b, v, arriving')
            BY <1>6, <2>2
        <3>6. IsList(v) /\ BufferFits(buf) /\ Prolongs(v, buf'.got)
            BY <2>1, <3>5, SearchedOn DEF ChunkOf, BufferKept
        <3> QED
            BY <3>3, <3>4, <3>6, StillUnread
    <2> QED
        BY <1>1, <1>6, <2>1, <2>2, <2>3, OnOrder
<1>8. CASE Hits(b, Union, b.flag) # {} /\ UNCHANGED sent /\ ses' \in {Rest(ses), Failed(ses), Decided(ses, p)}
    <2>1. ses'.wait = None
        BY <1>2, <1>8, RestFits, FailedFits, DecidedFits
    <2> QED
        BY <1>1, <1>6, <1>8, <2>1, HitOrder
<1>9. plugin.leaves = "never"
    BY DEF Steady, ShellInv, plugin
<1> QED
    BY <1>3, <1>4, <1>5, <1>7, <1>8, <1>9

\* The question that is found.
LEMMA QuestionFound ==
    ASSUME InOrder, ~ahead, ses.wait \in Speaks, NEW b, NEW a, ChunkOf(b, Said(ses, buf, arriving), a),
           {i \in b.from..Len(b.got) : b.got[i].t = "ask"} # {}, NEW c, c = Searched(b)
    PROVE  Asked(c, dev, Len(stdin), stdin \o sent, Said(ses, buf, arriving))
<1>1. PICK v, l, k : v = Said(ses, buf, arriving) /\ l = stdin \o sent /\ k = Len(stdin)
    OBVIOUS
<1>2. Spoke(buf) /\ Awaiting(buf, dev, k, l, v)
    <2>1. Order(ses, buf, dev, k, l, v)
        BY <1>1 DEF InOrder
    <2> QED
        BY <2>1, OrderMeans
<1>3. ChunkOf(b, v, a) /\ Onward(buf, c, v) /\ BufferKept(b, c) /\ IsList(v)
    BY <1>1, SearchedOn DEF ChunkOf
<1>4. Awaiting(c, dev, k, l, v) /\ c.cmd = buf.cmd /\ c.got = b.got /\ BufferFits(c) /\ Prolongs(v, c.got)
    BY <1>2, <1>3, OnwardAwaits DEF Onward, BufferKept
<1>5. Spoke(c)
    BY <1>2, <1>4, SpokeSame
<1>6. PICK i \in Asks(c.got) : i >= c.from
    <2>1. c.from = b.from
        BY <1>3 DEF Searched, ChunkOf, BufferFits
    <2>2. PICK i \in b.from..Len(b.got) : b.got[i].t = "ask"
        OBVIOUS
    <2>3. Len(c.got) \in Nat /\ DOMAIN c.got = 1..Len(c.got) /\ c.from \in 1..Len(c.got) + 1
        BY <1>4, ListFacts DEF BufferFits
    <2>4. i \in DOMAIN c.got /\ i >= c.from
        BY <1>4, <2>1, <2>2, <2>3
    <2> QED
        BY <1>4, <2>2, <2>4 DEF Asks
<1>7. Asked(c, dev, k, l, v)
    BY <1>3, <1>4, <1>5, <1>6, QuestionAsked
<1> QED
    BY <1>1, <1>7

LEMMA ReadsMoveOrder == ASSUME ShellInv, InOrder, ReadsMove PROVE InOrder'
<1>1. ses.wait = "moving" /\ ses.wait # None /\ ses.wait \in Speaks
    BY DEF ReadsMove, None, Speaks
<1>2. SessionFits(kind, ses) /\ ses.todo # <<>> /\ BufferFits(buf)
    BY <1>1 DEF ShellInv, SessionFits
<1>3. PICK m : m = Move(ses.mode, Now.is)
    OBVIOUS
<1>4. PICK more : more = IF m.cmd = "enable" /\ plugin.policy = "login-only" THEN Paging(plugin)
                         ELSE IF m.becomes = CONFIG /\ plugin.width /\ ~ses.wide
                         THEN <<Step("line", "terminal width 0")>> ELSE <<>>
    OBVIOUS
<1>5. PICK n \in 1..Len(arriving) :
        LET b == Chunk(n)
            b1 == Searched(b)
            asked == {i \in b.from..Len(b.got) : b.got[i].t = "ask"}
        IN /\ Reads(n)
           /\ IF Hits(b, plugin.sees[m.becomes], b.flag) # {}
              THEN /\ ses' = [ses EXCEPT !.mode = m.becomes, !.wait = None, !.todo = more \o @,
                                         !.wide = @ \/ m.becomes = CONFIG]
                   /\ buf' = b /\ UNCHANGED sent
              ELSE IF Hits(b1, plugin.sees[m.fails], b1.flag) # {}
              THEN ses' = Failed(ses) /\ buf' = b /\ UNCHANGED sent
              ELSE IF m.cmd = "enable" /\ plugin.asks /\ asked # {}
              THEN /\ Write(<<secret>>)
                   /\ buf' = PastQuestion(b1) /\ UNCHANGED ses
              ELSE /\ buf' = IF m.cmd = "enable" /\ ~plugin.asks THEN b1 ELSE Advanced(b1)
                   /\ UNCHANGED <<ses, sent>>
    BY <1>3, <1>4 DEF ReadsMove
<1>6. PICK b, b1 : b = Chunk(n) /\ b1 = Searched(b)
    OBVIOUS
<1>7. ChunkOf(b, Said(ses, buf, arriving), arriving') /\ UNCHANGED <<kind, ahead, dev, stdin>>
    BY <1>1, <1>5, <1>6, ChunkSaid
<1>8. PICK v, l, k : v = Said(ses, buf, arriving) /\ l = stdin \o sent /\ k = Len(stdin)
    OBVIOUS
<1>9. ChunkOf(b, v, arriving') /\ Onward(buf, b1, v) /\ BufferKept(b, b1) /\ IsList(v)
    BY <1>6, <1>7, <1>8, SearchedOn DEF ChunkOf
<1>10. CASE Hits(b, plugin.sees[m.becomes], b.flag) # {}
    <2>1. Moved(ses', ses, m.becomes, more, m.becomes = CONFIG) /\ sent' = sent
        BY <1>5, <1>6, <1>10 DEF Moved
    <2>2. StepsFit(kind, more)
        BY <1>4, PagingFits, StepsOfNone
    <2>3. ses'.wait = None
        BY <1>2, <2>1, <2>2, MovedFits
    <2> QED
        BY <1>1, <1>7, <1>10, <2>1, <2>3, HitOrder
<1>11. CASE Hits(b1, plugin.sees[m.fails], b1.flag) # {} /\ ses' = Failed(ses) /\ UNCHANGED sent
    <2>1. ses'.wait = None
        BY <1>2, <1>11, FailedFits
    <2> QED
        BY <1>1, <1>6, <1>7, <1>11, <2>1, HitOrder
<1>12. CASE /\ m.cmd = "enable" /\ {i \in b.from..Len(b.got) : b.got[i].t = "ask"} # {}
            /\ Write(<<secret>>) /\ buf' = PastQuestion(b1) /\ UNCHANGED ses
    <2> SUFFICES ASSUME ~ahead
                 PROVE  Order(ses, buf', dev, k, stdin \o sent', Said(ses, buf', arriving'))
        BY <1>7, <1>8, <1>12, OrderNext
    <2>1. Commanded(ses, buf)
        <3>1. Order(ses, buf, dev, k, l, v)
            BY <1>8 DEF InOrder
        <3> QED
            BY <1>1, <3>1, OrderMeans
    <2>2. b1.cmd = buf.cmd /\ b1.got = b.got /\ BufferFits(b1)
        BY <1>9 DEF Onward, BufferKept
    <2>3. Asked(b1, dev, k, l, v)
        BY <1>1, <1>6, <1>7, <1>8, <1>12, QuestionFound
    <2>4. PICK x : x = [is |-> secret, for |-> NotAsked]
        OBVIOUS
    <2>5. IsList(stdin) /\ IsList(sent) /\ sent' = Append(sent, x)
        BY <1>12, <2>4, LineOfOne DEF Write, ShellInv, Conversation
    <2>6. PICK w : w = stdin \o sent' /\ Extended(w, l, x) /\ IsList(l)
        BY <1>8, <2>5, LineAdded
    <2>7. Len(w) = 1
        <3>1. Len(l) = 0
            BY <2>3 DEF Asked, Questioned
        <3> QED
            BY <2>6, <3>1 DEF Extended
    <2>8. PICK c : c = buf' /\ c.cmd = buf.cmd /\ c.got = b1.got /\ c.from = Len(b1.got) + 1
        <3>1. PastQuestion(b1) = [cmd |-> b1.cmd, got |-> b1.got, from |-> Len(b1.got) + 1, flag |-> b1.flag]
            BY <2>2 DEF PastQuestion, BufferFits
        <3> QED
            BY <1>12, <2>2, <3>1
    <2>9. Awaiting(c, dev, k, w, v) /\ Unread(c, dev, w, v)
        BY <1>9, <2>2, <2>3, <2>7, <2>8, QuestionTrusted
    <2>10. Commanded(ses, c)
        BY <2>1, <2>8, Zenon DEF Commanded
    <2>11. Said(ses, c, arriving') = v
        BY <1>1, <1>9, <2>2, <2>8 DEF Said, ChunkOf
    <2>12. Order(ses, c, dev, k, w, v)
        BY <1>1, <2>9, <2>10, OrderParts
    <2> QED
        BY <2>6, <2>8, <2>11, <2>12
<1>13. CASE /\ ~(m.cmd = "enable" /\ plugin.asks /\ {i \in b.from..Len(b.got) : b.got[i].t = "ask"} # {})
            /\ UNCHANGED <<ses, sent>> /\ buf' \in {b1, Advanced(b1)}
    <2>1. buf' \in {b, Searched(b), Advanced(Searched(b))}
        BY <1>6, <1>13
    <2>2. ASSUME ~ahead PROVE Unread(buf', dev, l, v)
        <3>1. Order(ses, buf, dev, k, l, v)
            BY <1>8, <2>2 DEF InOrder
        <3>2. Commanded(ses, buf) /\ Awaiting(buf, dev, k, l, v) /\ Unread(buf, dev, l, v)
            BY <1>1, <3>1, OrderMeans
        <3>3. PICK g : g = buf'.got /\ g = b.got
            BY <1>9, <2>1, SearchedOn DEF BufferKept
        <3>4. ASSUME Enters(buf), dev.asked, dev.mode # Gone PROVE \A i \in Asks(g) : i < buf.from
            <4>1. m.cmd = "enable"
                BY <1>1, <1>3, <3>2, <3>4, Zenon DEF Commanded, Enters, Now
            <4>2. plugin.asks
                <5>1. device.asks
                    <6>1. PICK u : u = Unheard(ses, buf, arriving)
                        OBVIOUS
                    <6>2. Channel(Pairs[kind].device.asks, ses, dev, l, u)
                        BY <1>8, <6>1 DEF ShellInv, Conversation
                    <6> QED
                        BY <3>4, <6>2, Zenon DEF Channel, device
                <5>2. plugin.asks = TRUE
                    BY <5>1, PluginProper
                <5> QED
                    BY <5>2, Zenon
            <4>3. {i \in b.from..Len(b.got) : b.got[i].t = "ask"} = {}
                BY <1>13, <4>1, <4>2
            <4>4. b.from = buf.from /\ b.from \in 1..Len(b.got) + 1 /\ Len(b.got) \in Nat /\ DOMAIN b.got = 1..Len(b.got)
                BY <1>9, ListFacts DEF ChunkOf, BufferFits
            <4>5. ASSUME NEW i \in Asks(g) PROVE i < buf.from
                <5>1. i \in 1..Len(b.got) /\ b.got[i].t = "ask"
                    BY <3>3, <4>4, <4>5 DEF Asks
                <5>2. ~(i \in b.from..Len(b.got))
                    BY <4>3, <5>1
                <5> QED
                    BY <4>4, <5>1, <5>2
            <4> QED
                BY <4>5
        <3>5. IsList(v) /\ Prolongs(v, buf'.got)
            BY <1>9, <3>3 DEF ChunkOf
        <3>6. CASE dev.mode = Gone
            BY <3>6 DEF Unread
        <3>7. CASE dev.mode # Gone
            <4>1. Enters(buf) /\ dev.asked => \A i \in Asks(buf'.got) : i < buf.from
                BY <3>3, <3>4, <3>7
            <4> QED
                BY <1>2, <3>2, <3>5, <4>1, StillUnread
        <3> QED
            BY <3>6, <3>7
    <2> QED
        BY <1>1, <1>7, <1>8, <1>13, <2>1, <2>2, OnOrder
<1> QED
    BY <1>5, <1>6, <1>10, <1>11, <1>12, <1>13

LEMMA ReadsEofOrder == ASSUME ShellInv, InOrder, ReadsEof PROVE InOrder'
<1> SUFFICES ASSUME ~ahead
             PROVE  Order(ses', buf', dev', Len(stdin'), stdin' \o sent', Said(ses', buf', arriving'))
    BY OrderNext DEF ReadsEof, AgentOnly
<1>1. /\ ses.wait # None /\ dev.mode = Gone /\ arriving = <<>> /\ ses' \in {Rest(ses), Failed(ses)}
      /\ UNCHANGED <<dev, stdin, arriving>> /\ sent' = sent
    BY DEF ReadsEof, AgentOnly
<1>2. SessionFits(kind, ses) /\ ses.todo # <<>>
    BY <1>1 DEF ShellInv, SessionFits
<1>3. ses'.wait = None
    BY <1>1, <1>2, RestFits, FailedFits
<1>4. PICK n, l, v : n = Len(stdin) /\ l = stdin \o sent /\ v = Said(ses, buf, arriving)
    OBVIOUS
<1>5. Order(ses, buf, dev, n, l, v)
    BY <1>4 DEF InOrder
<1>6. ~Polled(dev, n, l, v)
    BY <1>1 DEF Polled, Calm
<1>7. Awaiting(buf, dev, n, l, v)
    BY <1>1, <1>5, <1>6, OrderMeans
<1>8. Len(l) = 0
    BY <1>1, <1>7 DEF Awaiting, Unheeded, Calm, Stage, Closed
<1>9. PICK a : a = arriving /\ Len(a) = 0
    BY <1>1, ListEmpty
<1>10. Order(ses', buf', dev, n, l, a)
    BY <1>1, <1>3, <1>8, <1>9, OrderParts
<1> QED
    BY <1>1, <1>3, <1>4, <1>9, <1>10 DEF Said

\* A timeout that fires when nothing is on its way.
LEMMA TimesOutOrder == ASSUME ~Late, ShellInv, InOrder, TimesOut PROVE InOrder'
<1> SUFFICES ASSUME ~ahead
             PROVE  Order(ses', buf', dev', Len(stdin'), stdin' \o sent', Said(ses', buf', arriving'))
    BY OrderNext DEF TimesOut, AgentOnly
<1>1. /\ ses.wait # None /\ dev.mode # Gone /\ ses' = Failed(ses)
      /\ sent = <<>> /\ stdin = <<>> /\ arriving = <<>>
      /\ UNCHANGED <<dev, stdin, arriving>> /\ sent' = sent
    BY DEF TimesOut, AgentOnly
<1>2. ses'.wait = None
    BY <1>1, FailedFits DEF ShellInv
<1>3. PICK n, l, v, a : n = Len(stdin) /\ l = stdin \o sent /\ v = Said(ses, buf, arriving) /\ a = arriving
    OBVIOUS
<1>4. Order(ses, buf, dev, n, l, v)
    BY <1>3 DEF InOrder
<1>5. IsList(l) /\ IsList(a) /\ Len(l) = 0 /\ Len(a) = 0 /\ n = 0
    BY <1>1, <1>3, ListEmpty, ListConcat
<1>6. v = buf.got
    <2>1. IsList(buf.got)
        BY DEF ShellInv, BufferFits
    <2> QED
        BY <1>1, <1>3, <2>1, ListConcat, ListEmpty DEF Said
<1>7. ~dev.asked
    <2>1. CASE ses.wait \in Polls
        BY <1>4, <2>1, OrderMeans DEF Polled, Calm
    <2>2. CASE ses.wait \in Speaks
        <3>1. Unread(buf, dev, l, v)
            BY <1>4, <2>2, OrderMeans
        <3>2. Len(v) \in Nat
            BY <1>6, ListFacts DEF ShellInv, BufferFits
        <3>3. ~(Len(buf.got) < Len(v))
            BY <1>6, <3>2
        <3> QED
            BY <1>1, <1>5, <3>1, <3>3 DEF Unread
    <2> QED
        BY <1>1, <1>4, <2>1, <2>2, OrderMeans
<1>8. Rested(dev, 0, l, a)
    BY <1>1, <1>5, <1>7, EmptyRested
<1>9. Order(ses', buf', dev, n, l, a)
    BY <1>1, <1>2, <1>5, <1>8, OrderParts
<1> QED
    BY <1>1, <1>2, <1>3, <1>9 DEF Said

\* The welcome and a prompt are on their way to a session at rest.
LEMMA OrderBegins == ASSUME ShellInit PROVE InOrder
<1>1. kind \in Kinds /\ ses.wait = None /\ sent = <<>> /\ stdin = <<>>
    BY DEF ShellInit
<1>2. dev.mode # Gone /\ ~dev.asked
    <2>1. device.start \in Modes
        BY <1>1, RowModed DEF Moded
    <2>2. PICK y, s : y = FALSE /\ s = device.start
        OBVIOUS
    <2>3. dev = [mode |-> s, vsys |-> Own, open |-> <<>>, asked |-> y]
        BY <2>2 DEF ShellInit
    <2>4. dev.mode = s /\ dev.asked = y
        BY <2>3
    <2>5. ~y
        BY <2>2, Zenon
    <2>6. s # Gone
        BY <2>1, <2>2 DEF Modes, LOGIN, ENABLE, CONFIG, Gone
    <2> QED
        BY <2>4, <2>5, <2>6
<1>3. PICK x, y : arriving = <<x, y>> /\ x.t = "output" /\ y.t = "prompt"
    BY TokenFacts, ShownIsPrompt DEF ShellInit
<1>4. PICK v : /\ v = <<x, y>> /\ Len(v) = 2 /\ DOMAIN v = {1, 2} /\ v[1] = x /\ v[2] = y
    <2>1. \A c, d : Len(<<c, d>>) = 2 /\ DOMAIN <<c, d>> = {1, 2} /\ <<c, d>>[1] = c /\ <<c, d>>[2] = d
        OBVIOUS
    <2> QED
        BY <2>1
<1>5. PICK l : l = stdin \o sent /\ l = <<>> /\ Len(l) = 0 /\ DOMAIN l = {} /\ Len(stdin) = 0
    BY <1>1, ListEmpty, ListConcat
<1>6. Answers(v) \subseteq {2} /\ Blank(v) /\ Turn(0, v)
    BY <1>3, <1>4 DEF Answers, Blank, Turn
<1>7. AtMostOne(l, v) /\ AtMostTwo(l, v)
    BY <1>5, <1>6 DEF AtMostOne, AtMostTwo
<1>8. Rested(dev, 0, l, v)
    BY <1>2, <1>5, <1>6, <1>7 DEF Rested, Polled, Calm, Empties
<1>9. Said(ses, buf, arriving) = v
    BY <1>1, <1>3, <1>4 DEF Said
<1>10. Order(ses, buf, dev, 0, l, v)
    BY <1>1, <1>2, <1>8, OrderParts
<1> QED
    BY <1>5, <1>9, <1>10 DEF InOrder

LEMMA OrderSteps == ASSUME ~Late, Steady, ShellInv, InOrder, [ShellNext]_shellVars PROVE InOrder'
<1>1. CASE ShellNext
    BY <1>1, ReceivesOrder, HandlesOrder, DrainsOrder, DecidesOrder, MovesOrder, WritesLineOrder, OtherOrder,
       ReadsUntilPromptOrder, ReadsMoveOrder, ReadsEofOrder, TimesOutOrder DEF ShellNext
<1>2. CASE UNCHANGED shellVars
    <2>1. UNCHANGED <<kind, ahead, dev, stdin, sent, arriving, ses, buf>>
        BY <1>2 DEF shellVars
    <2> QED
        BY <2>1, OrderNext DEF InOrder
<1> QED
    BY <1>1, <1>2

LEMMA FailedTask == ASSUME NEW k, NEW s, SessionFits(k, s) PROVE Failed(s).task = NotAsked
<1>1. PICK r : r = Failed(s)
    OBVIOUS
<1>2. r = [mode |-> s.mode, vsys |-> s.vsys, todo |-> <<>>, wait |-> None, task |-> NotAsked,
           begun |-> s.begun, up |-> s.begun, wide |-> s.wide]
    BY <1>1 DEF Failed, SessionFits
<1> QED
    BY <1>1, <1>2

\* A wait for a line that was written ends with a read or a timeout, or with the connection.
LEMMA WaitEnds ==
    ASSUME ShellInv, [ShellNext]_shellVars, ses.wait \in {"own", "moving"}, ses'.wait = None
    PROVE  \/ ReadsUntilPrompt /\ ses.wait = "own"
           \/ ReadsMove /\ ses.wait = "moving"
           \/ ReadsEof \/ TimesOut
<1>1. ses.wait # None /\ ses' # ses
    BY DEF None
<1>2. \A do : ~Ready(do)
    BY <1>1 DEF Ready
<1>3. ~TakesTask
    BY <1>1 DEF TakesTask, ShellInv, SessionFits
<1>4. ~DeviceReceives /\ ~DeviceHandles /\ ShellNext
    BY <1>1 DEF DeviceReceives, DeviceHandles, shellVars
<1>5. ~Drains /\ ~Decides /\ ~SwitchesVsys /\ ~Believes /\ ~SwitchesMode /\ ~Moves /\ ~WritesLine
    BY <1>2 DEF Drains, Decides, SwitchesVsys, Believes, SwitchesMode, Moves, WritesLine
<1>6. ~Finishes /\ ~WriteFails
    BY <1>1 DEF Finishes, WriteFails
<1>7. ReadsUntilPrompt \/ ReadsMove \/ ReadsEof \/ TimesOut
    BY <1>3, <1>4, <1>5, <1>6 DEF ShellNext
<1>8. ReadsUntilPrompt => ses.wait # "moving"
    BY DEF ReadsUntilPrompt
<1>9. ReadsMove => ses.wait = "moving"
    BY DEF ReadsMove
<1> QED
    BY <1>7, <1>8, <1>9

\* A result holds the output of the command of the task.
LEMMA OwnOutput ==
    ASSUME ~Late, Steady, ShellInv, InOrder, [ShellNext]_shellVars, ~ahead,
           ses.wait = "own", ses'.wait = None, ses'.task # NotAsked, dev.mode # Gone
    PROVE  \E i \in DOMAIN buf'.got : buf'.got[i] = Output(Now.is)
<1>1. ses.wait # None /\ ses.wait # "moving" /\ ses.wait \in Speaks /\ ses.wait # "decide"
    BY DEF None, Speaks
<1>2. ReadsUntilPrompt
    <2>1. ~TimesOut /\ ~ReadsEof
        BY FailedTask DEF TimesOut, ReadsEof, ShellInv
    <2> QED
        BY <1>1, <2>1, WaitEnds
<1>3. PICK n \in 1..Len(arriving) :
        LET b == Chunk(n)
        IN /\ Reads(n)
           /\ Hits(b, Union, b.flag) = {} => ses' = ses
           /\ Hits(b, Union, b.flag) # {} => buf' = b
    BY <1>1, <1>2 DEF ReadsUntilPrompt
<1>4. PICK b : b = Chunk(n)
    OBVIOUS
<1>5. ChunkOf(b, Said(ses, buf, arriving), arriving')
    BY <1>1, <1>3, <1>4, ChunkSaid
<1>6. Hits(b, Union, b.flag) # {} /\ buf' = b
    BY <1>1, <1>3, <1>4
<1>7. PICK k, l, v : k = Len(stdin) /\ l = stdin \o sent /\ v = Said(ses, buf, arriving)
    OBVIOUS
<1>8. Dealt(b, dev, k, l, v) /\ b.cmd = buf.cmd
    BY <1>1, <1>5, <1>6, <1>7, HitMeans
<1>9. Commanded(ses, buf)
    <2>1. Order(ses, buf, dev, k, l, v)
        BY <1>7 DEF InOrder
    <2> QED
        BY <1>1, <2>1, OrderMeans
<1>10. buf.cmd = Now.is /\ ~Enters(buf)
    BY <1>9, Zenon DEF Commanded, Enters, Now
<1>11. \E j \in DOMAIN b.got : b.got[j] = Output(b.cmd)
    BY <1>8, <1>10, Zenon DEF Dealt, Enters
<1> QED
    BY <1>6, <1>8, <1>10, <1>11

\* A switch of the mode is given up when the device has dealt with it.
LEMMA MoveRefused ==
    ASSUME ~Late, ShellInv, InOrder, [ShellNext]_shellVars, ~ahead,
           ses.wait = "moving", ses'.wait = None, arriving' # arriving
    PROVE  sent = <<>> /\ stdin = <<>>
<1>1. ses.wait # None /\ ses.wait \in Speaks
    BY DEF None, Speaks
<1>2. ReadsMove
    <2>1. ~TimesOut /\ ~ReadsEof
        BY DEF TimesOut, ReadsEof, AgentOnly
    <2> QED
        BY <1>1, <2>1, WaitEnds
<1>3. PICK m : m = Move(ses.mode, Now.is)
    OBVIOUS
<1>4. PICK n \in 1..Len(arriving) :
        LET b == Chunk(n)
            b1 == Searched(b)
        IN /\ Reads(n)
           /\ \/ Hits(b, plugin.sees[m.becomes], b.flag) # {}
              \/ Hits(b1, plugin.sees[m.fails], b1.flag) # {}
              \/ ses' = ses
    BY <1>2, <1>3 DEF ReadsMove
<1>5. PICK b : b = Chunk(n)
    OBVIOUS
<1>6. ChunkOf(b, Said(ses, buf, arriving), arriving')
    BY <1>1, <1>4, <1>5, ChunkSaid
<1>7. PICK k, l, v : k = Len(stdin) /\ l = stdin \o sent /\ v = Said(ses, buf, arriving)
    OBVIOUS
<1>8. PICK y, T, F : y = Searched(b) /\ T = plugin.sees[m.becomes] /\ F = plugin.sees[m.fails]
    OBVIOUS
<1>9. b \in {b, Searched(b)} /\ y \in {b, Searched(b)}
    BY <1>8
<1>10. Len(stdin) = 0 /\ Len(l) = 0
    <2>1. CASE Hits(b, T, b.flag) # {}
        <3>1. Dealt(b, dev, k, l, v)
            BY <1>1, <1>6, <1>7, <1>9, <2>1, HitMeans
        <3> QED
            BY <1>7, <3>1 DEF Dealt
    <2>2. CASE Hits(y, F, y.flag) # {}
        <3>1. Dealt(y, dev, k, l, v)
            BY <1>1, <1>6, <1>7, <1>9, <2>2, HitMeans
        <3> QED
            BY <1>7, <3>1 DEF Dealt
    <2> QED
        BY <1>1, <1>4, <1>5, <1>8, <2>1, <2>2
<1>11. IsList(stdin) /\ IsList(sent)
    BY DEF ShellInv, Conversation
<1>12. stdin = <<>>
    BY <1>10, <1>11, ListFacts
<1>13. l = sent
    BY <1>7, <1>11, <1>12, ListConcat
<1> QED
    BY <1>10, <1>11, <1>12, <1>13, ListFacts

\* What is taken for an answer is one, for any sessions, tasks and however output is cut up,
\* on a device that echoes a line when it takes it up and whose plugin writes nothing ahead
\* of the empty line that asks for a prompt, when a timeout never fires while an answer is
\* on its way: the result of a task holds the output of its own command (exec_cmd), and a
\* switch of the mode fails on what the device said to it (enable and the others of Base).
THEOREM OwnAnswerAlways ==
    ASSUME ~Late, Steady
    PROVE  ShellSpec => OwnAnswer
<1>1. ShellInit => ShellInv /\ InOrder
    BY ShellBegins, OrderBegins
<1>2. ShellInv /\ InOrder /\ [ShellNext]_shellVars => (ShellInv /\ InOrder)'
    BY ShellSteps, OrderSteps
<1>3. ShellInv /\ InOrder /\ [ShellNext]_shellVars =>
        [~ahead =>
           /\ ses.wait = "own" /\ ses'.wait = None /\ ses'.task # NotAsked /\ dev.mode # Gone
                => \E i \in DOMAIN buf'.got : buf'.got[i] = Output(Now.is)
           /\ ses.wait = "moving" /\ ses'.wait = None /\ ses'.todo = <<>> /\ ses'.task = NotAsked
                /\ arriving' # arriving => sent = <<>> /\ stdin = <<>>]_shellVars
    BY OwnOutput, MoveRefused
<1> QED
    BY <1>1, <1>2, <1>3, PTL DEF ShellSpec, OwnAnswer

-----------------------------------------------------------------------------
(* Where commands run.  A plugin that is steady talks to a device whose    *)
(* prompts tell its modes apart, where the commands of the plugin lead to  *)
(* the modes they are meant for and those that set up a terminal nowhere.  *)

\* What sets up a terminal.
Quiet == {"terminal length 0", "more off", "terminal pager 0", "no page", "language-mode chinese",
          "terminal line 0", "set cli pager off", "set clienv rows 0", "terminal width 0"}
Quiets(q) == IsList(q) /\ \A i \in DOMAIN q : q[i] \in Quiet

\* A row of a handler's table, and all of them, where exit is the plugin's exit command.
Fair(exit, r) ==
    /\ r[2] \notin Quiet
    /\ r[1] = LOGIN /\ r[2] = "enable" => r[3] = ENABLE
    /\ r[1] = CONFIG /\ r[2] = exit => r[3] = ENABLE
    /\ r[1] = ENABLE /\ r[2] = "exit" => r[3] = Gone
    /\ r[3] = LOGIN => r[2] = "disable"
AllFair(exit, S) == \A r \in S : Fair(exit, r)

\* The prompts of the login, the enable and the config mode are told apart.
Legend(p, l, e, c) ==
    /\ l \notin p.sees[ENABLE] /\ l \notin p.sees[CONFIG]
    /\ e \notin p.sees[LOGIN] /\ e \notin p.sees[CONFIG]
    /\ c \notin p.sees[LOGIN] /\ (c \in p.sees[ENABLE] => c \in p.sees[CONFIG])
Legends(p, d) ==
    /\ Legend(p, d.shows[LOGIN], d.shows[ENABLE], d.shows[CONFIG])
    /\ d.levels = "site" => Legend(p, d.shows[LOGIN], "vs$", "vs(config)$")
\* The config mode is what a prompt is tried against first, and is left by the exit command.
Ranked(p, d) ==
    p.sees[CONFIG] # {} => p.decides[1] = CONFIG /\ 1 \in DOMAIN p.decides
                           /\ <<CONFIG, p.exit, ENABLE>> \in d.obeys
Simple(p, d) == p.vsys = "none" /\ d.levels = "none"
Parted(p, d) ==
    /\ p.vsys = "site" /\ d.levels = "site" /\ p.config = "configure terminal" /\ p.exit = "exit"
    /\ p.policy = "any" /\ p.width = FALSE
Orderly(p, d) ==
    /\ Simple(p, d) \/ Parted(p, d)
    /\ p.drains = FALSE /\ Quiets(p.paging) /\ AllFair(p.exit, d.obeys)
    /\ Legends(p, d) /\ Ranked(p, d)

LEMMA Three ==
    /\ \A x, y, z : Sees(x, y, z)[LOGIN] = x /\ Sees(x, y, z)[ENABLE] = y /\ Sees(x, y, z)[CONFIG] = z
    /\ \A x, y, z : Shows(x, y, z)[LOGIN] = x /\ Shows(x, y, z)[ENABLE] = y /\ Shows(x, y, z)[CONFIG] = z
BY DEF Sees, Shows, Modes, LOGIN, ENABLE, CONFIG

LEMMA QuietLists ==
    /\ Quiets(<<>>) /\ \A x \in Quiet : Quiets(<<x>>) /\ \A y \in Quiet : Quiets(<<x, y>>)
<1>1. Quiets(<<>>)
    BY ListEmpty DEF Quiets
<1>2. ASSUME NEW x \in Quiet, NEW y \in Quiet PROVE Quiets(<<x>>) /\ Quiets(<<x, y>>)
    <2>1. <<x>> \in Seq({x, y}) /\ <<x, y>> \in Seq({x, y})
        OBVIOUS
    <2>2. \A q \in Seq({x, y}) : IsList(q) /\ \A i \in DOMAIN q : q[i] \in {x, y}
        BY DEF IsList
    <2> QED
        BY <1>2, <2>1, <2>2 DEF Quiets
<1> QED
    BY <1>1, <1>2

LEMMA FairParts ==
    /\ \A x, S, T : S \subseteq T /\ AllFair(x, T) => AllFair(x, S)
    /\ \A x, S, T : AllFair(x, S) /\ AllFair(x, T) => AllFair(x, S \cup T)
    /\ \A x, a, b, c : Fair(x, <<a, b, c>>) => AllFair(x, {<<a, b, c>>})
<1>1. ASSUME NEW x, NEW a, NEW b, NEW c, Fair(x, <<a, b, c>>) PROVE AllFair(x, {<<a, b, c>>})
    <2>1. PICK r : r = <<a, b, c>>
        OBVIOUS
    <2> QED
        BY <1>1, <2>1 DEF AllFair
<1>2. \A x, S, T : S \subseteq T /\ AllFair(x, T) => AllFair(x, S)
    BY DEF AllFair
<1>3. \A x, S, T : AllFair(x, S) /\ AllFair(x, T) => AllFair(x, S \cup T)
    BY DEF AllFair
<1> QED
    BY <1>1, <1>2, <1>3

LEMMA FairRow ==
    ASSUME NEW x, NEW a, NEW b, NEW c, b \notin Quiet, a = LOGIN /\ b = "enable" => c = ENABLE,
           a = CONFIG /\ b = x => c = ENABLE, a = ENABLE /\ b = "exit" => c = Gone,
           c = LOGIN => b = "disable"
    PROVE  Fair(x, <<a, b, c>>)
<1>1. \A e, f, g : <<e, f, g>>[1] = e /\ <<e, f, g>>[2] = f /\ <<e, f, g>>[3] = g
    OBVIOUS
<1>2. PICK r : r = <<a, b, c>>
    OBVIOUS
<1>3. r[1] = a /\ r[2] = b /\ r[3] = c
    BY <1>1, <1>2
<1> QED
    BY <1>2, <1>3 DEF Fair

LEMMA AristaFair == AllFair("exit", AristaEOS.obeys) /\ <<CONFIG, "exit", ENABLE>> \in AristaEOS.obeys
<1>1. PICK a, b, c, d, e, f, g, h :
        /\ a = {<<LOGIN, "exit", Gone>>} /\ b = {<<LOGIN, "enable", ENABLE>>}
        /\ c = {<<ENABLE, "exit", Gone>>} /\ d = {<<ENABLE, "configure terminal", CONFIG>>}
        /\ e = {<<ENABLE, "disable", LOGIN>>} /\ f = {<<CONFIG, "exit", ENABLE>>}
        /\ g = {<<CONFIG, "end", ENABLE>>} /\ h = {<<CONFIG, "disable", LOGIN>>}
    OBVIOUS
<1>2. AristaEOS.obeys = a \cup b \cup c \cup d \cup e \cup f \cup g \cup h
    BY <1>1 DEF AristaEOS
<1>3. /\ Fair("exit", <<LOGIN, "exit", Gone>>) /\ Fair("exit", <<LOGIN, "enable", ENABLE>>)
      /\ Fair("exit", <<ENABLE, "exit", Gone>>) /\ Fair("exit", <<ENABLE, "configure terminal", CONFIG>>)
      /\ Fair("exit", <<ENABLE, "disable", LOGIN>>) /\ Fair("exit", <<CONFIG, "exit", ENABLE>>)
      /\ Fair("exit", <<CONFIG, "end", ENABLE>>) /\ Fair("exit", <<CONFIG, "disable", LOGIN>>)
    BY FairRow DEF Quiet, LOGIN, ENABLE, CONFIG, Gone
<1>4. /\ AllFair("exit", a) /\ AllFair("exit", b) /\ AllFair("exit", c) /\ AllFair("exit", d)
      /\ AllFair("exit", e) /\ AllFair("exit", f) /\ AllFair("exit", g) /\ AllFair("exit", h)
    BY <1>1, <1>3, FairParts
<1>5. AllFair("exit", a \cup b) /\ AllFair("exit", a \cup b \cup c) /\ AllFair("exit", a \cup b \cup c \cup d)
    BY <1>4, FairParts
<1>6. PICK S : S = a \cup b \cup c \cup d
    OBVIOUS
<1>7. AllFair("exit", S \cup e) /\ AllFair("exit", S \cup e \cup f) /\ AllFair("exit", S \cup e \cup f \cup g)
      /\ AllFair("exit", S \cup e \cup f \cup g \cup h)
    BY <1>4, <1>5, <1>6, FairParts
<1>8. AristaEOS.obeys = S \cup e \cup f \cup g \cup h
    BY <1>2, <1>6
<1>9. <<CONFIG, "exit", ENABLE>> \in f
    BY <1>1
<1> QED
    BY <1>7, <1>8, <1>9

\* What a device has of its own, where exit is the plugin's exit command.
Acts(d, shows, levels, exit) ==
    AllFair(exit, d.obeys) /\ <<CONFIG, exit, ENABLE>> \in d.obeys /\ d.shows = shows /\ d.levels = levels
LEMMA TwoFair ==
    ASSUME NEW s, NEW x, NEW c, NEW l, NEW q, c \notin Quiet, l \cap Quiet = {}, q \cap Quiet = {},
           c # "exit", c # x, x \in l
    PROVE  Acts(TwoMode(s, c, l, q), s, "none", x)
<1>1. PICK h : h = TwoMode(s, c, l, q)
    OBVIOUS
<1>2. /\ h.obeys = {<<ENABLE, c, CONFIG>>} \cup {<<CONFIG, z, ENABLE>> : z \in l}
                   \cup {<<ENABLE, z, Gone>> : z \in q}
      /\ h.shows = s /\ h.levels = "none"
    BY <1>1 DEF TwoMode
<1>3. LOGIN # ENABLE /\ LOGIN # CONFIG /\ ENABLE # CONFIG /\ Gone # LOGIN
    BY DEF LOGIN, ENABLE, CONFIG, Gone
<1>4. ASSUME NEW z \in l PROVE Fair(x, <<CONFIG, z, ENABLE>>)
    BY <1>3, FairRow
<1>5. ASSUME NEW z \in q PROVE Fair(x, <<ENABLE, z, Gone>>)
    BY <1>3, FairRow
<1>6. Fair(x, <<ENABLE, c, CONFIG>>)
    BY <1>3, FairRow
<1>7. AllFair(x, {<<CONFIG, z, ENABLE>> : z \in l}) /\ AllFair(x, {<<ENABLE, z, Gone>> : z \in q})
    BY <1>4, <1>5 DEF AllFair
<1>8. AllFair(x, {<<ENABLE, c, CONFIG>>})
    BY <1>6, FairParts
<1>9. x \in l => <<CONFIG, x, ENABLE>> \in {<<CONFIG, z, ENABLE>> : z \in l}
    OBVIOUS
<1>10. PICK A, B, C : A = {<<ENABLE, c, CONFIG>>} /\ B = {<<CONFIG, z, ENABLE>> : z \in l}
                     /\ C = {<<ENABLE, z, Gone>> : z \in q}
    OBVIOUS
<1>11. AllFair(x, A \cup B) /\ AllFair(x, A \cup B \cup C)
    BY <1>7, <1>8, <1>10, FairParts
<1>12. h.obeys = A \cup B \cup C /\ (x \in l => <<CONFIG, x, ENABLE>> \in B)
    BY <1>2, <1>9, <1>10
<1> QED
    BY <1>1, <1>2, <1>11, <1>12 DEF Acts

\* What a plugin has of its own.
Looks(p, sees, exit, vsys, decides) ==
    p.sees = sees /\ p.exit = exit /\ p.vsys = vsys /\ p.decides = decides /\ p.drains = FALSE
LEMMA SteadyPlugins ==
    /\ \A q : BasePlugin.decides = q =>
          /\ Looks(Arista, IosSees, "exit", "none", q) /\ Looks(ChaiTin, IosSees, "exit", "none", q)
          /\ Looks(MaiPu, IosSees, "exit", "none", q) /\ Looks(Venustech, IosSees, "exit", "none", q)
          /\ Looks(Cisco, IosSees, "exit", "none", q) /\ Looks(CiscoASA, IosSees, "exit", "none", q)
          /\ Looks(ArrayAG, ArrayBase.sees, "exit", "site", q)
    /\ \A q : NoLogin.decides = q =>
          /\ Looks(Dptech, Brackets, "end", "none", q)
          /\ Looks(Juniper, AtHost, "exit", "none", q) /\ Looks(Paloalto, AtHost, "exit", "none", q)
    /\ \A q : EnableOnly.decides = q =>
          /\ Looks(CheckPoint, Sees({}, {"host>"}, {}), "exit", "none", q)
          /\ Looks(TopSec, Sees({}, {"host#"}, {}), "exit", "none", q)
    /\ ArrayAG.config = "configure terminal" /\ ArrayAG.policy = "any" /\ ArrayAG.width = FALSE
<1>1. ASSUME NEW q, BasePlugin.decides = q
      PROVE  /\ Looks(Arista, IosSees, "exit", "none", q) /\ Looks(ChaiTin, IosSees, "exit", "none", q)
             /\ Looks(MaiPu, IosSees, "exit", "none", q) /\ Looks(Venustech, IosSees, "exit", "none", q)
             /\ Looks(Cisco, IosSees, "exit", "none", q) /\ Looks(CiscoASA, IosSees, "exit", "none", q)
    BY <1>1 DEF Looks, Arista, ChaiTin, MaiPu, Venustech, Cisco, CiscoASA, BasePlugin
<1>2. \A q : BasePlugin.decides = q => Looks(ArrayAG, ArrayBase.sees, "exit", "site", q)
    BY DEF Looks, ArrayAG, ArrayBase, BasePlugin
<1>3. ASSUME NEW q, NoLogin.decides = q
      PROVE  /\ Looks(Dptech, Brackets, "end", "none", q)
             /\ Looks(Juniper, AtHost, "exit", "none", q) /\ Looks(Paloalto, AtHost, "exit", "none", q)
    BY <1>3 DEF Looks, Dptech, Juniper, Paloalto, NoLogin, BasePlugin
<1>4. ASSUME NEW q, EnableOnly.decides = q
      PROVE  /\ Looks(CheckPoint, Sees({}, {"host>"}, {}), "exit", "none", q)
             /\ Looks(TopSec, Sees({}, {"host#"}, {}), "exit", "none", q)
    BY <1>4 DEF Looks, CheckPoint, TopSec, EnableOnly, BasePlugin
<1>5. ArrayAG.config = "configure terminal" /\ ArrayAG.policy = "any" /\ ArrayAG.width = FALSE
    BY DEF ArrayAG, ArrayBase, BasePlugin
<1> QED
    BY <1>1, <1>2, <1>3, <1>4, <1>5

\* What sets up the terminals.
LEMMA SteadyPaging ==
    /\ Quiets(Arista.paging) /\ Quiets(ChaiTin.paging) /\ Quiets(Cisco.paging)
    /\ Quiets(MaiPu.paging) /\ Quiets(Venustech.paging) /\ Quiets(CiscoASA.paging)
    /\ Quiets(ArrayAG.paging) /\ Quiets(Dptech.paging) /\ Quiets(Juniper.paging)
    /\ Quiets(Paloalto.paging) /\ Quiets(CheckPoint.paging) /\ Quiets(TopSec.paging)
<1>1. \A q : BasePlugin.paging = q => Arista.paging = q /\ ChaiTin.paging = q /\ Cisco.paging = q
    BY DEF Arista, ChaiTin, Cisco, BasePlugin
<1>2. MaiPu.paging = <<"more off">> /\ Venustech.paging = <<>> /\ CiscoASA.paging = <<"terminal pager 0">>
      /\ BasePlugin.paging = <<"terminal length 0">>
    BY DEF MaiPu, Venustech, CiscoASA, Cisco, BasePlugin
<1>3. ArrayAG.paging = <<"no page">>
    BY DEF ArrayAG, ArrayBase, BasePlugin
<1>4. /\ Dptech.paging = <<"language-mode chinese", "terminal line 0">> /\ Juniper.paging = <<>>
      /\ Paloalto.paging = <<"set cli pager off">>
    BY DEF Dptech, Juniper, Paloalto, NoLogin, BasePlugin
<1>5. CheckPoint.paging = <<"set clienv rows 0">> /\ TopSec.paging = <<>>
    BY DEF CheckPoint, TopSec, EnableOnly, BasePlugin
<1>6. /\ "more off" \in Quiet /\ "terminal pager 0" \in Quiet /\ "terminal length 0" \in Quiet
      /\ "no page" \in Quiet /\ "language-mode chinese" \in Quiet /\ "terminal line 0" \in Quiet
      /\ "set cli pager off" \in Quiet /\ "set clienv rows 0" \in Quiet
    BY DEF Quiet
<1>7. Quiets(<<>>) /\ (\A x \in Quiet : Quiets(<<x>>)) /\ \A x, y \in Quiet : Quiets(<<x, y>>)
    BY QuietLists
<1>8. /\ Quiets(<<"more off">>) /\ Quiets(<<"terminal pager 0">>) /\ Quiets(<<"terminal length 0">>)
      /\ Quiets(<<"no page">>) /\ Quiets(<<"set cli pager off">>) /\ Quiets(<<"set clienv rows 0">>)
      /\ Quiets(<<"language-mode chinese", "terminal line 0">>)
    BY <1>6, <1>7, Zenon
<1>9. Quiets(MaiPu.paging) /\ Quiets(Venustech.paging) /\ Quiets(CiscoASA.paging) /\ Quiets(ArrayAG.paging)
    BY <1>2, <1>3, <1>7, <1>8, Zenon
<1>10. Quiets(Dptech.paging) /\ Quiets(Juniper.paging) /\ Quiets(Paloalto.paging)
    BY <1>4, <1>7, <1>8, Zenon
<1>11. Quiets(CheckPoint.paging) /\ Quiets(TopSec.paging) /\ Quiets(BasePlugin.paging)
    BY <1>2, <1>5, <1>7, <1>8, Zenon
<1>12. Quiets(Arista.paging) /\ Quiets(ChaiTin.paging) /\ Quiets(Cisco.paging)
    BY <1>1, <1>11, Zenon
<1> QED
    BY <1>9, <1>10, <1>11, <1>12

LEMMA IosFair ==
    /\ Acts(AristaEOS, IosShows, "none", "exit") /\ Acts(ChaitinCTDSG, IosShows, "none", "exit")
    /\ Acts(MaipuNSS, IosShows, "none", "exit") /\ Acts(VenustechUSG, IosShows, "none", "exit")
    /\ Acts(ASA, IosShows, "none", "exit") /\ Acts(Nexus, IosShows, "none", "exit")
    /\ Acts(AG, IosShows, "site", "exit")
<1>1. PICK S : S = AristaEOS.obeys
    OBVIOUS
<1>2. AristaEOS = [start |-> ENABLE, shows |-> IosShows, asks |-> FALSE, levels |-> "none", obeys |-> S]
    BY <1>1 DEF AristaEOS
<1>3. PICK A, B, C : /\ A = {<<LOGIN, "quit", Gone>>} /\ B = {<<ENABLE, "quit", Gone>>}
                     /\ C = {<<CONFIG, "quit", ENABLE>>}
    OBVIOUS
<1>4. PICK T : T = A \cup B \cup C
    OBVIOUS
<1>5. T = {<<LOGIN, "quit", Gone>>, <<ENABLE, "quit", Gone>>, <<CONFIG, "quit", ENABLE>>}
    BY <1>3, <1>4
<1>6. /\ ChaitinCTDSG.obeys = S /\ MaipuNSS.obeys = S /\ VenustechUSG.obeys = S
      /\ ChaitinCTDSG.shows = IosShows /\ MaipuNSS.shows = IosShows /\ VenustechUSG.shows = IosShows
      /\ ChaitinCTDSG.levels = "none" /\ MaipuNSS.levels = "none" /\ VenustechUSG.levels = "none"
    BY <1>2 DEF ChaitinCTDSG, MaipuNSS, VenustechUSG
<1>7. ASA.obeys = S \cup T /\ ASA.shows = IosShows /\ ASA.levels = "none"
    BY <1>2, <1>5 DEF ASA
<1>8. Nexus.obeys = {r \in S : r[1] # LOGIN /\ r[2] # "disable"} /\ Nexus.shows = IosShows
      /\ Nexus.levels = "none"
    BY <1>2 DEF Nexus
<1>9. AG.obeys = {r \in S : r[2] # "end"} /\ AG.shows = IosShows /\ AG.levels = "site"
    BY <1>2 DEF AG
<1>10. /\ Fair("exit", <<LOGIN, "quit", Gone>>) /\ Fair("exit", <<ENABLE, "quit", Gone>>)
       /\ Fair("exit", <<CONFIG, "quit", ENABLE>>)
    BY FairRow DEF Quiet, LOGIN, ENABLE, CONFIG, Gone
<1>11. AllFair("exit", A) /\ AllFair("exit", B) /\ AllFair("exit", C)
    BY <1>3, <1>10, FairParts
<1>12. AllFair("exit", A \cup B) /\ AllFair("exit", T)
    BY <1>4, <1>11, FairParts
<1>13. \A x, y, z : <<x, y, z>>[1] = x /\ <<x, y, z>>[2] = y
    OBVIOUS
<1>14. PICK r : r = <<CONFIG, "exit", ENABLE>> /\ r[1] = CONFIG /\ r[2] = "exit"
    BY <1>13
<1>15. r \in S /\ AllFair("exit", S) /\ CONFIG # LOGIN
    BY <1>1, <1>14, AristaFair DEF CONFIG, LOGIN
<1>16. r \in S \cup T /\ r \in Nexus.obeys /\ r \in AG.obeys
    BY <1>8, <1>9, <1>14, <1>15
<1>17. AllFair("exit", S \cup T) /\ AllFair("exit", Nexus.obeys) /\ AllFair("exit", AG.obeys)
    BY <1>8, <1>9, <1>12, <1>15, FairParts
<1>18. Acts(AristaEOS, IosShows, "none", "exit")
    BY <1>2, <1>14, <1>15 DEF Acts
<1>19. /\ Acts(ChaitinCTDSG, IosShows, "none", "exit") /\ Acts(MaipuNSS, IosShows, "none", "exit")
       /\ Acts(VenustechUSG, IosShows, "none", "exit")
    BY <1>6, <1>14, <1>15 DEF Acts
<1>20. /\ Acts(ASA, IosShows, "none", "exit") /\ Acts(Nexus, IosShows, "none", "exit")
       /\ Acts(AG, IosShows, "site", "exit")
    BY <1>7, <1>8, <1>9, <1>14, <1>16, <1>17 DEF Acts
<1> QED
    BY <1>18, <1>19, <1>20

LEMMA OthersFair ==
    /\ Acts(FW1000, BracketShows, "none", "end") /\ Acts(JuniperEX, AtHostShows, "none", "exit")
    /\ Acts(JuniperSRX, AtHostShows, "none", "exit") /\ Acts(PaloaltoPA, AtHostShows, "none", "exit")
    /\ AllFair("exit", Gaia.obeys) /\ Gaia.levels = "none" /\ Gaia.shows = Shows("", "host>", "")
    /\ AllFair("exit", NGFW.obeys) /\ NGFW.levels = "none" /\ NGFW.shows = Shows("", "host#", "")
<1>2. Acts(JuniperEX, AtHostShows, "none", "exit") /\ Acts(JuniperSRX, AtHostShows, "none", "exit")
    <2>1. PICK x, c, l : x = "exit" /\ c = "configure private" /\ l = {"exit"}
        OBVIOUS
    <2>2. c \notin Quiet /\ l \cap Quiet = {} /\ c # "exit" /\ c # x /\ x \in l
        BY <2>1 DEF Quiet
    <2>3. Acts(TwoMode(AtHostShows, c, l, l), AtHostShows, "none", x)
        BY <2>2, TwoFair
    <2> QED
        BY <2>1, <2>3 DEF JuniperEX, JuniperSRX
<1>3. Acts(PaloaltoPA, AtHostShows, "none", "exit")
    <2>1. PICK x, c, l : x = "exit" /\ c = "configure" /\ l = {"exit"}
        OBVIOUS
    <2>2. c \notin Quiet /\ l \cap Quiet = {} /\ c # "exit" /\ c # x /\ x \in l
        BY <2>1 DEF Quiet
    <2>3. Acts(TwoMode(AtHostShows, c, l, l), AtHostShows, "none", x)
        BY <2>2, TwoFair
    <2> QED
        BY <2>1, <2>3 DEF PaloaltoPA
<1>4. Acts(FW1000, BracketShows, "none", "end")
    <2>1. PICK s, c, l, q, y : /\ s = BracketShows /\ c = "conf-mode" /\ l = {"end"} /\ q = {"exit"}
                               /\ y = "end"
        OBVIOUS
    <2>2. c \notin Quiet /\ l \cap Quiet = {} /\ q \cap Quiet = {} /\ c # "exit" /\ c # y /\ y \in l
          /\ y \notin Quiet /\ y # "exit" /\ y # "enable"
        BY <2>1 DEF Quiet
    <2>3. PICK h : h = TwoMode(s, c, l, q)
        OBVIOUS
    <2>4. PICK T : T = h.obeys \cup {<<ENABLE, y, ENABLE>>}
        OBVIOUS
    <2>5. OtherObeys(FW1000, h, T)
        BY <2>1, <2>3, <2>4 DEF FW1000, OtherObeys
    <2>6. FW1000.obeys = T /\ FW1000.shows = s /\ FW1000.levels = "none"
        <3>1. PICK S : S = h.obeys
            OBVIOUS
        <3>2. h = [start |-> ENABLE, shows |-> s, asks |-> FALSE, levels |-> "none", obeys |-> S]
            BY <2>3, <3>1 DEF TwoMode
        <3> QED
            BY <2>5, <3>2 DEF OtherObeys
    <2>7. AllFair(y, h.obeys) /\ <<CONFIG, y, ENABLE>> \in h.obeys
        BY <2>2, <2>3, TwoFair DEF Acts
    <2>8. Fair(y, <<ENABLE, y, ENABLE>>)
        BY <2>2, FairRow DEF LOGIN, ENABLE, CONFIG
    <2>9. AllFair(y, {<<ENABLE, y, ENABLE>>})
        BY <2>8, FairParts
    <2>10. AllFair(y, T) /\ <<CONFIG, y, ENABLE>> \in T
        BY <2>4, <2>7, <2>9, FairParts
    <2> QED
        BY <2>1, <2>6, <2>10 DEF Acts
<1>5. PICK S : S = {<<ENABLE, "exit", Gone>>}
    OBVIOUS
<1>6. PICK w, z : w = Shows("", "host>", "") /\ z = Shows("", "host#", "")
    OBVIOUS
<1>7. Gaia = [start |-> ENABLE, shows |-> w, asks |-> FALSE, levels |-> "none", obeys |-> S]
    BY <1>5, <1>6 DEF Gaia
<1>8. Gaia.obeys = S /\ Gaia.levels = "none" /\ Gaia.shows = w
    BY <1>7
<1>9. NGFW = [Gaia EXCEPT !.shows = z]
    BY <1>6 DEF NGFW
<1>10. NGFW.obeys = S /\ NGFW.levels = "none" /\ NGFW.shows = z
    BY <1>7, <1>9
<1>11. Fair("exit", <<ENABLE, "exit", Gone>>)
    BY FairRow DEF Quiet, LOGIN, ENABLE, CONFIG, Gone
<1>12. AllFair("exit", S)
    BY <1>5, <1>11, FairParts
<1> QED
    BY <1>2, <1>3, <1>4, <1>6, <1>8, <1>10, <1>12

\* The prompts.
LEMMA LegendOf ==
    ASSUME NEW x, NEW y, NEW z, NEW l, NEW e, NEW c, NEW p, p.sees = Sees(x, y, z),
           l \notin y, l \notin z, e \notin x, e \notin z, c \notin x, c \in y => c \in z
    PROVE  Legend(p, l, e, c)
BY Three DEF Legend

LEMMA LegendHas ==
    ASSUME NEW x, NEW y, NEW z, NEW l, NEW e, NEW c, NEW p, NEW d, p.sees = Sees(x, y, z),
           d.shows = Shows(l, e, c), d.levels = "none",
           l \notin y, l \notin z, e \notin x, e \notin z, c \notin x, c \in y => c \in z
    PROVE  Legends(p, d) /\ p.sees[CONFIG] = z
<1>1. Legend(p, d.shows[LOGIN], d.shows[ENABLE], d.shows[CONFIG]) /\ p.sees[CONFIG] = z
    BY Three, LegendOf
<1>2. "none" # "site"
    OBVIOUS
<1> QED
    BY <1>1, <1>2 DEF Legends

\* A device that shows one prompt only.
LEMMA OneLetter ==
    ASSUME NEW p, NEW d, d.levels = "none"
    PROVE  /\ p.sees = Sees({}, {"host>"}, {}) /\ d.shows = Shows("", "host>", "")
                => Legends(p, d) /\ p.sees[CONFIG] = {}
           /\ p.sees = Sees({}, {"host#"}, {}) /\ d.shows = Shows("", "host#", "")
                => Legends(p, d) /\ p.sees[CONFIG] = {}
<1>1. PICK u : u = ""
    OBVIOUS
<1>2. u # "host>" /\ u # "host#"
    BY <1>1
<1>3. ASSUME NEW e, p.sees = Sees({}, {e}, {}), d.shows = Shows(u, e, u), u # e
      PROVE  Legends(p, d) /\ p.sees[CONFIG] = {}
    <2>1. PICK x, y : x = {} /\ y = {e}
        OBVIOUS
    <2>2. p.sees = Sees(x, y, x) /\ u \notin y /\ u \notin x /\ e \notin x
        BY <1>3, <2>1
    <2> QED
        BY <1>3, <2>1, <2>2, LegendHas
<1> QED
    BY <1>1, <1>2, <1>3, Zenon

\* The other devices.
LEMMA Lettering ==
    ASSUME NEW p, NEW d
    PROVE  /\ p.sees = IosSees /\ d.shows = IosShows /\ d.levels = "none" => Legends(p, d)
           /\ p.sees = ArrayBase.sees /\ d.shows = IosShows => Legends(p, d)
           /\ p.sees = Brackets /\ d.shows = BracketShows /\ d.levels = "none" => Legends(p, d)
           /\ p.sees = AtHost /\ d.shows = AtHostShows /\ d.levels = "none" => Legends(p, d)
<1>1. ASSUME p.sees = IosSees, d.shows = IosShows, d.levels = "none" PROVE Legends(p, d)
    <2>1. PICK x, y, z : x = {"host>"} /\ y = {"host#", "host(config)#"} /\ z = {"host(config)#"}
        OBVIOUS
    <2>2. p.sees = Sees(x, y, z) /\ d.shows = Shows("host>", "host#", "host(config)#")
        BY <1>1, <2>1 DEF IosSees, IosShows
    <2>3. /\ "host>" \notin y /\ "host>" \notin z /\ "host#" \notin x /\ "host#" \notin z
          /\ "host(config)#" \notin x /\ "host(config)#" \in z
        BY <2>1
    <2> QED
        BY <1>1, <2>2, <2>3, LegendHas
<1>2. ASSUME p.sees = ArrayBase.sees, d.shows = IosShows PROVE Legends(p, d)
    <2>1. PICK x, y, z : /\ x = {"host>"} /\ y = {"host#", "host(config)#", "vs$", "vs(config)$"}
                         /\ z = {"host(config)#", "vs(config)$"}
        OBVIOUS
    <2>2. p.sees = Sees(x, y, z) /\ d.shows = Shows("host>", "host#", "host(config)#")
        BY <1>2, <2>1 DEF ArrayBase, BasePlugin, IosShows
    <2>3. /\ "host>" \notin y /\ "host>" \notin z /\ "host#" \notin x /\ "host#" \notin z
          /\ "host(config)#" \notin x /\ "host(config)#" \in z
          /\ "vs$" \notin x /\ "vs$" \notin z /\ "vs(config)$" \notin x /\ "vs(config)$" \in z
        BY <2>1
    <2>4. d.shows[LOGIN] = "host>" /\ d.shows[ENABLE] = "host#" /\ d.shows[CONFIG] = "host(config)#"
        BY <2>2, Three
    <2>5. Legend(p, "host>", "host#", "host(config)#") /\ Legend(p, "host>", "vs$", "vs(config)$")
        BY <2>2, <2>3, LegendOf
    <2> QED
        BY <2>4, <2>5 DEF Legends
<1>3. PICK u : u = ""
    OBVIOUS
<1>4. u # "<host>" /\ u # "[host]" /\ u # "u@host>" /\ u # "u@host#"
    BY <1>3
<1>5. ASSUME p.sees = Brackets, d.shows = BracketShows, d.levels = "none" PROVE Legends(p, d)
    <2>1. PICK x, y, z : x = {} /\ y = {"<host>"} /\ z = {"[host]"}
        OBVIOUS
    <2>2. p.sees = Sees(x, y, z) /\ d.shows = Shows(u, "<host>", "[host]")
        BY <1>3, <1>5, <2>1, Zenon DEF Brackets, BracketShows
    <2>3. /\ u \notin y /\ u \notin z /\ "<host>" \notin x /\ "<host>" \notin z
          /\ "[host]" \notin x /\ "[host]" \in z
        BY <1>4, <2>1
    <2> QED
        BY <1>5, <2>2, <2>3, LegendHas
<1>6. ASSUME p.sees = AtHost, d.shows = AtHostShows, d.levels = "none" PROVE Legends(p, d)
    <2>1. PICK x, y, z : x = {} /\ y = {"u@host>"} /\ z = {"u@host#"}
        OBVIOUS
    <2>2. p.sees = Sees(x, y, z) /\ d.shows = Shows(u, "u@host>", "u@host#")
        BY <1>3, <1>6, <2>1, Zenon DEF AtHost, AtHostShows
    <2>3. /\ u \notin y /\ u \notin z /\ "u@host>" \notin x /\ "u@host>" \notin z
          /\ "u@host#" \notin x /\ "u@host#" \in z
        BY <1>4, <2>1
    <2> QED
        BY <1>6, <2>2, <2>3, LegendHas
<1> QED
    BY <1>1, <1>2, <1>5, <1>6

\* The pairs of a plugin that is steady and its device.
LEMMA SteadyRows ==
    \A k \in DOMAIN Pairs : Pairs[k].plugin.leaves = "never" => Orderly(Pairs[k].plugin, Pairs[k].device)
<1>1. PICK q, r, s : q = BasePlugin.decides /\ r = NoLogin.decides /\ s = EnableOnly.decides
    OBVIOUS
<1>2. q[1] = CONFIG /\ 1 \in DOMAIN q /\ r[1] = CONFIG /\ 1 \in DOMAIN r
    <2>1. q = <<CONFIG, ENABLE, LOGIN>> /\ r = <<CONFIG, ENABLE>>
        BY <1>1 DEF BasePlugin, NoLogin
    <2> QED
        BY <2>1
<1>3. ASSUME NEW p, NEW d, NEW sees, NEW shows, NEW exit, NEW t, Looks(p, sees, exit, "none", t),
             Acts(d, shows, "none", exit), t \in {q, r}, Quiets(p.paging), Legends(p, d)
      PROVE  Orderly(p, d)
    BY <1>2, <1>3 DEF Orderly, Simple, Ranked, Looks, Acts
<1>4. /\ Orderly(Arista, AristaEOS) /\ Orderly(ChaiTin, ChaitinCTDSG) /\ Orderly(MaiPu, MaipuNSS)
      /\ Orderly(Venustech, VenustechUSG) /\ Orderly(CiscoASA, ASA) /\ Orderly(Cisco, Nexus)
    <2>1. \A p, d : Looks(p, IosSees, "exit", "none", q) /\ Acts(d, IosShows, "none", "exit")
                    /\ Quiets(p.paging) => Orderly(p, d)
        <3>1. \A p, d : Looks(p, IosSees, "exit", "none", q) /\ Acts(d, IosShows, "none", "exit")
                        => Legends(p, d)
            BY Lettering DEF Looks, Acts
        <3> QED
            BY <1>3, <3>1
    <2> QED
        BY <1>1, <2>1, SteadyPlugins, SteadyPaging, IosFair
<1>5. Orderly(ArrayAG, AG)
    <2>1. Looks(ArrayAG, ArrayBase.sees, "exit", "site", q) /\ Acts(AG, IosShows, "site", "exit")
        BY <1>1, SteadyPlugins, IosFair
    <2>2. Legends(ArrayAG, AG)
        BY <2>1, Lettering DEF Looks, Acts
    <2>3. Parted(ArrayAG, AG)
        BY <2>1, SteadyPlugins DEF Parted, Looks, Acts
    <2>4. Quiets(ArrayAG.paging)
        BY SteadyPaging
    <2> QED
        BY <1>2, <2>1, <2>2, <2>3, <2>4 DEF Orderly, Ranked, Looks, Acts
<1>6. Orderly(Dptech, FW1000)
    <2>1. Looks(Dptech, Brackets, "end", "none", r) /\ Acts(FW1000, BracketShows, "none", "end")
        BY <1>1, SteadyPlugins, OthersFair
    <2>2. Legends(Dptech, FW1000) /\ Quiets(Dptech.paging)
        BY <2>1, Lettering, SteadyPaging DEF Looks, Acts
    <2> QED
        BY <1>3, <2>1, <2>2
<1>7. Orderly(Juniper, JuniperEX) /\ Orderly(Juniper, JuniperSRX) /\ Orderly(Paloalto, PaloaltoPA)
    <2>1. \A p, d : Looks(p, AtHost, "exit", "none", r) /\ Acts(d, AtHostShows, "none", "exit")
                    /\ Quiets(p.paging) => Orderly(p, d)
        <3>1. \A p, d : Looks(p, AtHost, "exit", "none", r) /\ Acts(d, AtHostShows, "none", "exit")
                        => Legends(p, d)
            BY Lettering DEF Looks, Acts
        <3> QED
            BY <1>3, <3>1
    <2> QED
        BY <1>1, <2>1, SteadyPlugins, SteadyPaging, OthersFair
<1>8. Orderly(CheckPoint, Gaia) /\ Orderly(TopSec, NGFW)
    <2>1. ASSUME NEW p, NEW d, NEW sees, Looks(p, sees, "exit", "none", s), AllFair("exit", d.obeys),
                 d.levels = "none", Legends(p, d), p.sees[CONFIG] = {}, Quiets(p.paging)
          PROVE  Orderly(p, d)
        BY <2>1 DEF Orderly, Simple, Ranked, Looks
    <2>2. /\ Looks(CheckPoint, Sees({}, {"host>"}, {}), "exit", "none", s)
          /\ Looks(TopSec, Sees({}, {"host#"}, {}), "exit", "none", s)
        BY <1>1, SteadyPlugins
    <2>3. Legends(CheckPoint, Gaia) /\ CheckPoint.sees[CONFIG] = {}
        BY <2>2, OneLetter, OthersFair, Zenon DEF Looks
    <2>4. Legends(TopSec, NGFW) /\ TopSec.sees[CONFIG] = {}
        BY <2>2, OneLetter, OthersFair, Zenon DEF Looks
    <2>5. AllFair("exit", Gaia.obeys) /\ Gaia.levels = "none" /\ AllFair("exit", NGFW.obeys) /\ NGFW.levels = "none"
        BY OthersFair, Zenon
    <2> QED
        BY <2>1, <2>2, <2>3, <2>4, <2>5, SteadyPaging
<1>9. /\ Huawei.leaves # "never" /\ HuaweiUSG.leaves # "never" /\ H3C.leaves # "never"
      /\ Hillstone.leaves # "never" /\ QiAnXin.leaves # "never" /\ FortiGate.leaves # "never"
    BY DEF Huawei, HuaweiUSG, H3C, Hillstone, QiAnXin, FortiGate, Fortinet, NoLogin, EnableOnly, BasePlugin
<1> DEFINE Fits(p, d) == p.leaves = "never" => Orderly(p, d)
<1>10. /\ Fits(Arista, AristaEOS) /\ Fits(ChaiTin, ChaitinCTDSG) /\ Fits(MaiPu, MaipuNSS)
       /\ Fits(Venustech, VenustechUSG) /\ Fits(CiscoASA, ASA) /\ Fits(Cisco, Nexus)
       /\ Fits(ArrayAG, AG) /\ Fits(Huawei, HuaweiCE) /\ Fits(HuaweiUSG, USG)
       /\ Fits(H3C, SecPath) /\ Fits(H3C, VSR) /\ Fits(Dptech, FW1000)
       /\ Fits(Hillstone, SG6000) /\ Fits(Juniper, JuniperEX) /\ Fits(Juniper, JuniperSRX)
       /\ Fits(Paloalto, PaloaltoPA) /\ Fits(QiAnXin, NSG) /\ Fits(CheckPoint, Gaia)
       /\ Fits(TopSec, NGFW) /\ Fits(FortiGate, FortiGateNG)
    BY <1>4, <1>5, <1>6, <1>7, <1>8, <1>9
<1> HIDE DEF Fits
<1>11. \A k \in DOMAIN Pairs : Fits(Pairs[k].plugin, Pairs[k].device)
    BY <1>10 DEF Pairs
<1> QED
    BY <1>11 DEF Fits

-----------------------------------------------------------------------------
(* A device of such a row, and what its prompts tell.                      *)

Sited == plugin.vsys = "site"

LEMMA RowOrderly ==
    ASSUME Steady, kind \in Kinds
    PROVE  /\ Orderly(plugin, device)
           /\ Sited => Parted(plugin, device)
           /\ ~Sited => Simple(plugin, device)
<1>1. Orderly(plugin, device)
    <2>1. Pairs[kind].plugin.leaves = "never" /\ kind \in DOMAIN Pairs
        BY KindsAssumption DEF Steady
    <2> QED
        BY <2>1, SteadyRows DEF plugin, device
<1> QED
    BY <1>1 DEF Orderly, Simple, Parted, Sited

Usual(d) ==
    /\ d.open = <<>> /\ d.mode \in Modes /\ (d.asked => d.mode = LOGIN)
    /\ d.vsys \in {Own, "v1"} /\ (d.mode = LOGIN => d.vsys = Own)
    /\ ~Sited => d.vsys = Own

LEMMA ModesApart ==
    /\ LOGIN # ENABLE /\ LOGIN # CONFIG /\ ENABLE # CONFIG /\ Gone \notin Modes
    /\ Modes = {LOGIN, ENABLE, CONFIG} /\ None \notin Modes
BY DEF Modes, LOGIN, ENABLE, CONFIG, Gone, None

\* What a prompt shows: p is the prompt in the mode m and the vsys v.
Tells(p, m, v) ==
    /\ p.t = "prompt" /\ p.v = v
    /\ m = LOGIN => p.is \notin plugin.sees[ENABLE] /\ p.is \notin plugin.sees[CONFIG]
    /\ m = ENABLE => p.is \notin plugin.sees[LOGIN] /\ p.is \notin plugin.sees[CONFIG]
    /\ m = CONFIG => p.is \notin plugin.sees[LOGIN]
                     /\ (p.is \in plugin.sees[ENABLE] => p.is \in plugin.sees[CONFIG])

LEMMA PromptFields ==
    \A s, v : Prompt(s, v).t = "prompt" /\ Prompt(s, v).is = s /\ Prompt(s, v).v = v
BY DEF Prompt

LEMMA ShownTells ==
    ASSUME Steady, kind \in Kinds, NEW d, Usual(d)
    PROVE  Tells(Shown(d), d.mode, d.vsys)
<1>1. Orderly(plugin, device) /\ (Sited => device.levels = "site") /\ (~Sited => device.levels = "none")
    BY RowOrderly DEF Parted, Simple
<1>2. Legends(plugin, device)
    BY <1>1 DEF Orderly
<1>3. d.mode \in {LOGIN, ENABLE, CONFIG}
    BY ModesApart DEF Usual
<1>4. CASE Sited /\ d.vsys # Own
    <2>1. PICK x : x = IF d.mode = ENABLE THEN "vs$" ELSE "vs(config)$"
        OBVIOUS
    <2>2. Shown(d) = Prompt(x, d.vsys)
        BY <1>1, <1>4, <2>1 DEF Shown
    <2>3. d.mode # LOGIN
        BY <1>4 DEF Usual
    <2>4. Legend(plugin, device.shows[LOGIN], "vs$", "vs(config)$")
        BY <1>1, <1>2, <1>4 DEF Legends
    <2>5. PICK p : p = Shown(d) /\ p.t = "prompt" /\ p.is = x /\ p.v = d.vsys
        BY <2>2, PromptFields
    <2> QED
        BY <1>3, <2>1, <2>3, <2>4, <2>5, ModesApart DEF Tells, Legend
<1>5. CASE ~(Sited /\ d.vsys # Own)
    <2>1. d.vsys = Own
        BY <1>5 DEF Usual
    <2>2. Shown(d) = Prompt(device.shows[d.mode], Own)
        <3>1. ~(device.levels = "site" /\ d.vsys # Own) /\ ~(device.levels = "vdom" /\ d.open # <<>>)
            BY <2>1 DEF Usual
        <3> QED
            BY <3>1 DEF Shown
    <2>3. PICK p : p = Shown(d) /\ p.t = "prompt" /\ p.is = device.shows[d.mode] /\ p.v = d.vsys
        BY <2>1, <2>2, PromptFields
    <2> QED
        BY <1>2, <1>3, <2>3, ModesApart DEF Tells, Legends, Legend
<1> QED
    BY <1>4, <1>5

\* A prompt that is recognized is taken for the mode that it shows.
LEMMA ModeTold ==
    ASSUME Steady, kind \in Kinds, NEW d, Usual(d), Shown(d).is \in Union
    PROVE  ModeOf(Shown(d)) = d.mode
<1>1. PICK p : p = Shown(d) /\ Tells(p, d.mode, d.vsys)
    BY ShownTells
<1>2. PICK q \in Seq(Modes) : q = plugin.decides
    BY RowModed
<1>3. PICK S : S = {i \in DOMAIN q : p.is \in plugin.sees[q[i]]}
    OBVIOUS
<1>4. S # {} /\ S \in SUBSET Nat
    BY <1>1, <1>2, <1>3 DEF Union
<1>5. PICK i : i = FirstOf(S) /\ i \in S /\ \A j \in S : i <= j
    <2>1. \E m \in S : \A k \in S : m <= k
        BY <1>4, Smallest
    <2> QED
        BY <2>1 DEF FirstOf
<1>6. ModeOf(p) = q[i]
    BY <1>2, <1>3, <1>5 DEF ModeOf
<1>7. q[i] \in Modes /\ p.is \in plugin.sees[q[i]] /\ i \in DOMAIN q
    <2>1. i \in DOMAIN q /\ p.is \in plugin.sees[q[i]]
        BY <1>3, <1>5
    <2> QED
        BY <1>2, <2>1
<1>8. d.mode \in Modes /\ Ranked(plugin, device)
    BY RowOrderly DEF Usual, Orderly
<1>9. CASE d.mode = CONFIG /\ q[i] = ENABLE
    <2>1. p.is \in plugin.sees[CONFIG]
        BY <1>1, <1>7, <1>9 DEF Tells
    <2>2. q[1] = CONFIG /\ 1 \in DOMAIN q
        BY <1>2, <1>8, <2>1 DEF Ranked
    <2>3. 1 \in S
        BY <1>3, <2>1, <2>2
    <2>4. i = 1
        BY <1>4, <1>5, <1>7, <2>3
    <2> QED
        BY <1>9, <2>2, <2>4, ModesApart
<1>10. CASE ~(d.mode = CONFIG /\ q[i] = ENABLE)
    BY <1>1, <1>6, <1>7, <1>8, <1>10, ModesApart DEF Tells
<1> QED
    BY <1>9, <1>10

\* What a handler makes of a line.
Turned(e, d, m, v) == e.mode = m /\ e.vsys = v /\ e.open = d.open /\ (e.asked => d.asked)
LEMMA Turns ==
    ASSUME NEW d, DeviceFits(d), NEW x
    PROVE  /\ Turned([d EXCEPT !.mode = x], d, x, d.vsys) /\ Turned([d EXCEPT !.vsys = x], d, d.mode, x)
           /\ Turned(d, d, d.mode, d.vsys) /\ [d EXCEPT !.mode = d.mode] = d
<1>1. PICK a, b, c, y : d = [mode |-> a, vsys |-> b, open |-> c, asked |-> y]
    BY DEF DeviceFits
<1>2. PICK e : e = [d EXCEPT !.mode = x]
    OBVIOUS
<1>3. e = [mode |-> x, vsys |-> b, open |-> c, asked |-> y]
    BY <1>1, <1>2
<1>4. PICK f : f = [d EXCEPT !.vsys = x]
    OBVIOUS
<1>5. f = [mode |-> a, vsys |-> x, open |-> c, asked |-> y]
    BY <1>1, <1>4
<1>6. d.mode = a /\ d.vsys = b /\ d.open = c /\ d.asked = y
    BY <1>1
<1>7. e.mode = x /\ e.vsys = b /\ e.open = c /\ e.asked = y
    BY <1>3
<1>8. f.mode = a /\ f.vsys = x /\ f.open = c /\ f.asked = y
    BY <1>5
<1>9. [d EXCEPT !.mode = d.mode] = d
    BY <1>1
<1> QED
    BY <1>2, <1>4, <1>6, <1>7, <1>8, <1>9 DEF Turned

\* Where a line leads, by the table.
LEMMA ObeyedRow ==
    ASSUME NEW d, NEW c
    PROVE  \/ Obeyed(d, c) = d.mode /\ \A r \in device.obeys : ~(r[1] = d.mode /\ r[2] = c)
           \/ \E r \in device.obeys : r[1] = d.mode /\ r[2] = c /\ r[3] = Obeyed(d, c)
<1>1. PICK to : to = {r \in device.obeys : r[1] = d.mode /\ r[2] = c}
    OBVIOUS
<1>2. CASE to = {}
    BY <1>1, <1>2 DEF Obeyed
<1>3. CASE to # {}
    <2>1. PICK r : r = CHOOSE q \in to : TRUE
        OBVIOUS
    <2>2. r \in to
        BY <1>3, <2>1
    <2>3. Obeyed(d, c) = r[3]
        BY <1>1, <1>3, <2>1 DEF Obeyed
    <2> QED
        BY <1>1, <2>2, <2>3
<1> QED
    BY <1>2, <1>3

LEMMA ObeyedFair ==
    ASSUME Steady, kind \in Kinds, NEW d, NEW c
    PROVE  /\ Obeyed(d, c) = LOGIN => d.mode = LOGIN \/ c = "disable"
           /\ d.mode = LOGIN /\ c = "enable" => Obeyed(d, c) \in {LOGIN, ENABLE}
           /\ d.mode = ENABLE /\ c = "exit" => Obeyed(d, c) \in {ENABLE, Gone}
           /\ d.mode = CONFIG /\ c = plugin.exit =>
                 Obeyed(d, c) = ENABLE \/ (Obeyed(d, c) = CONFIG /\ plugin.sees[CONFIG] = {})
           /\ c \in Quiet => Obeyed(d, c) = d.mode
<1>1. AllFair(plugin.exit, device.obeys) /\ Ranked(plugin, device)
    BY RowOrderly DEF Orderly
<1>2. PICK m : m = Obeyed(d, c)
    OBVIOUS
<1>3. CASE \E r \in device.obeys : r[1] = d.mode /\ r[2] = c /\ r[3] = m
    BY <1>1, <1>2, <1>3 DEF AllFair, Fair
<1>4. CASE m = d.mode /\ \A r \in device.obeys : ~(r[1] = d.mode /\ r[2] = c)
    <2>1. d.mode = CONFIG /\ c = plugin.exit => plugin.sees[CONFIG] = {}
        <3>1. PICK r : r = <<CONFIG, plugin.exit, ENABLE>>
            OBVIOUS
        <3>2. r[1] = CONFIG /\ r[2] = plugin.exit
            <4>1. \A x, y, z : <<x, y, z>>[1] = x /\ <<x, y, z>>[2] = y
                OBVIOUS
            <4> QED
                BY <3>1, <4>1
        <3> QED
            BY <1>1, <1>4, <3>1, <3>2 DEF Ranked
    <2> QED
        BY <1>2, <1>4, <2>1
<1> QED
    BY <1>2, <1>3, <1>4, ObeyedRow

\* What a line makes of a device.
Led(e, d, c) ==
    \/ Sited /\ d.mode # LOGIN /\ c = "switch v1" /\ Turned(e, d, d.mode, "v1")
    \/ Sited /\ d.mode = ENABLE /\ c = "exit" /\ d.vsys # Own /\ Turned(e, d, ENABLE, Own)
    \/ Sited /\ d.mode = ENABLE /\ c = "disable" /\ d.vsys # Own /\ e.mode = Gone
    \/ Sited /\ d.mode = CONFIG /\ c = "disable" /\ d.vsys # Own /\ e = d
    \/ /\ Sited => c # "switch v1" \/ d.mode = LOGIN
       /\ Sited /\ c \in {"exit", "disable"} /\ d.mode = ENABLE => d.vsys = Own
       /\ Sited /\ c = "disable" /\ d.mode = CONFIG => d.vsys = Own
       /\ e = [d EXCEPT !.mode = Obeyed(d, c)] /\ Turned(e, d, Obeyed(d, c), d.vsys)

LEMMA LineLeads ==
    ASSUME Steady, kind \in Kinds, NEW d, DeviceFits(d), NEW c
    PROVE  Led(Executed(d, c), d, c)
<1>1. PICK e, m, f, g, h : e = Executed(d, c) /\ m = Obeyed(d, c) /\ f = [d EXCEPT !.mode = m]
                     /\ g = [d EXCEPT !.vsys = "v1"] /\ h = [d EXCEPT !.vsys = Own]
    OBVIOUS
<1>2. Turned(f, d, m, d.vsys) /\ Turned(g, d, d.mode, "v1") /\ Turned(h, d, d.mode, Own)
    BY <1>1, Turns
<1>3. CASE ~Sited
    <2>1. device.levels = "none"
        BY <1>3, RowOrderly DEF Simple
    <2>2. e = f
        BY <1>1, <2>1 DEF Executed
    <2> QED
        BY <1>1, <1>2, <1>3, <2>2 DEF Led
<1>4. CASE Sited
    <2>1. device.levels = "site"
        BY <1>4, RowOrderly DEF Parted
    <2>2. e = SiteObeys(d, c)
        BY <1>1, <2>1 DEF Executed
    <2>3. CASE d.mode # LOGIN /\ c = "switch v1"
        <3>1. e = g
            BY <1>1, <2>2, <2>3 DEF SiteObeys
        <3> QED
            BY <1>1, <1>2, <1>4, <2>3, <3>1 DEF Led
    <2>4. CASE d.mode = ENABLE /\ c = "exit" /\ d.vsys # Own
        <3>1. e = h
            BY <1>1, <2>2, <2>4 DEF SiteObeys
        <3> QED
            BY <1>1, <1>2, <1>4, <2>4, <3>1 DEF Led
    <2>5. CASE d.mode = ENABLE /\ c = "disable" /\ d.vsys # Own
        <3>1. e = [d EXCEPT !.mode = Gone]
            BY <1>1, <2>2, <2>5, ModesApart DEF SiteObeys
        <3>2. e.mode = Gone
            BY <3>1, DeviceModes
        <3> QED
            BY <1>1, <1>4, <2>5, <3>2 DEF Led
    <2>6. CASE d.mode = CONFIG /\ c = "disable" /\ d.vsys # Own
        <3>1. e = d
            BY <1>1, <2>2, <2>6, ModesApart DEF SiteObeys
        <3> QED
            BY <1>1, <1>4, <2>6, <3>1 DEF Led
    <2>7. CASE /\ ~(d.mode # LOGIN /\ c = "switch v1")
               /\ ~(d.mode = ENABLE /\ c = "exit" /\ d.vsys # Own)
               /\ ~(d.mode = ENABLE /\ c = "disable" /\ d.vsys # Own)
               /\ ~(d.mode = CONFIG /\ c = "disable" /\ d.vsys # Own)
        <3>1. e = f
            BY <1>1, <2>2, <2>7 DEF SiteObeys
        <3> QED
            BY <1>1, <1>2, <1>4, <2>7, <3>1 DEF Led
    <2> QED
        BY <2>3, <2>4, <2>5, <2>6, <2>7
<1> QED
    BY <1>3, <1>4

LEMMA LineUsual ==
    ASSUME Steady, kind \in Kinds, NEW d, DeviceFits(d), Usual(d), ~d.asked, NEW c
    PROVE  Executed(d, c).mode = Gone \/ (Usual(Executed(d, c)) /\ ~Executed(d, c).asked)
<1>1. PICK e, m : e = Executed(d, c) /\ m = Obeyed(d, c) /\ Led(e, d, c)
    BY LineLeads
<1>2. e.mode \in Modes \cup {Gone}
    BY <1>1, ExecutedMode DEF Usual
<1>3. m = LOGIN => d.mode = LOGIN \/ c = "disable"
    BY <1>1, ObeyedFair
<1>4. Own \in {Own, "v1"} /\ "v1" \in {Own, "v1"}
    OBVIOUS
<1>5. CASE Sited /\ d.mode # LOGIN /\ c = "switch v1" /\ Turned(e, d, d.mode, "v1")
    BY <1>1, <1>2, <1>4, <1>5 DEF Turned, Usual
<1>6. CASE Sited /\ d.mode = ENABLE /\ c = "exit" /\ d.vsys # Own /\ Turned(e, d, ENABLE, Own)
    BY <1>1, <1>2, <1>4, <1>6, ModesApart DEF Turned, Usual
<1>7. CASE Sited /\ d.mode = ENABLE /\ c = "disable" /\ d.vsys # Own /\ e.mode = Gone
    BY <1>1, <1>7
<1>8. CASE Sited /\ d.mode = CONFIG /\ c = "disable" /\ d.vsys # Own /\ e = d
    BY <1>1, <1>8
<1>9. CASE /\ Sited /\ c \in {"exit", "disable"} /\ d.mode = ENABLE => d.vsys = Own
           /\ Sited /\ c = "disable" /\ d.mode = CONFIG => d.vsys = Own
           /\ Turned(e, d, m, d.vsys)
    <2>1. e.mode = m /\ e.vsys = d.vsys /\ e.open = d.open /\ (e.asked => d.asked)
        BY <1>9 DEF Turned
    <2>2. m = LOGIN => d.vsys = Own
        BY <1>3, <1>9, ModesApart DEF Usual
    <2> QED
        BY <1>1, <1>2, <2>1, <2>2 DEF Usual
<1> QED
    BY <1>1, <1>5, <1>6, <1>7, <1>8, <1>9 DEF Led

\* What sets up a terminal, and the empty line, changes nothing.
LEMMA QuietLine ==
    ASSUME Steady, kind \in Kinds, NEW d, DeviceFits(d), Usual(d), NEW x, x.is \in Quiet \/ EmptyLine(x)
    PROVE  Executed(d, x.is) = d
<1>1. PICK e, c : c = x.is /\ e = Executed(d, c) /\ Led(e, d, c)
    BY LineLeads
<1>2. c \notin {"switch v1", "exit", "disable"}
    <2>1. CASE x.is \in Quiet
        BY <1>1, <2>1 DEF Quiet
    <2>2. CASE EmptyLine(x)
        BY <1>1, <2>2 DEF EmptyLine
    <2> QED
        BY <2>1, <2>2
<1>3. e = [d EXCEPT !.mode = Obeyed(d, c)]
    BY <1>1, <1>2 DEF Led
<1>4. CASE x.is \in Quiet
    <2>1. Obeyed(d, c) = d.mode
        BY <1>1, <1>4, ObeyedFair
    <2> QED
        BY <1>1, <1>3, <2>1, Turns
<1>5. CASE EmptyLine(x)
    <2>1. e.mode = d.mode
        BY <1>1, <1>5, EmptyExecuted
    <2>2. e.mode = Obeyed(d, c)
        BY <1>3, DeviceModes
    <2> QED
        BY <1>1, <1>3, <2>1, <2>2, Turns
<1> QED
    BY <1>4, <1>5

\* The lines that enter and leave a site.
Word(v) == IF v = Own THEN "exit" ELSE "switch v1"
LEMMA EnterLine ==
    ASSUME Steady, Sited, kind \in Kinds, NEW d, DeviceFits(d), Usual(d), d.mode = ENABLE,
           NEW v \in {Own, "v1"}
    PROVE  Executed(d, Word(v)).mode = Gone
           \/ (Executed(d, Word(v)).mode = ENABLE /\ Executed(d, Word(v)).vsys = v)
<1>1. PICK e, c : c = Word(v) /\ e = Executed(d, c) /\ Led(e, d, c)
    BY LineLeads
<1>2. LOGIN # ENABLE /\ ENABLE # CONFIG
    BY ModesApart
<1>3. CASE v = Own
    <2>1. c = "exit"
        BY <1>1, <1>3 DEF Word
    <2>2. Obeyed(d, c) \in {ENABLE, Gone}
        BY <2>1, ObeyedFair
    <2>3. CASE d.vsys = Own
        <3>1. Turned(e, d, Obeyed(d, c), d.vsys)
            BY <1>1, <1>2, <2>1, <2>3 DEF Led
        <3> QED
            BY <1>1, <1>3, <2>2, <2>3, <3>1 DEF Turned
    <2>4. CASE d.vsys # Own
        <3>1. Turned(e, d, ENABLE, Own)
            BY <1>1, <1>2, <2>1, <2>4 DEF Led
        <3> QED
            BY <1>1, <1>3, <3>1 DEF Turned
    <2> QED
        BY <2>3, <2>4
<1>4. CASE v # Own
    <2>1. c = "switch v1" /\ v = "v1"
        BY <1>1, <1>4 DEF Word
    <2>2. Turned(e, d, d.mode, "v1")
        BY <1>1, <1>2, <2>1 DEF Led
    <2> QED
        BY <1>1, <2>1, <2>2 DEF Turned
<1> QED
    BY <1>3, <1>4

\* A move: when its prompt is shown, it worked.
Carried(e, v, m) == e.vsys = v /\ (Shown(e).is \in plugin.sees[m] => e.mode = m)
LEMMA CarriedBy ==
    ASSUME Steady, kind \in Kinds, NEW e, Usual(e), NEW m,
           m = ENABLE /\ e.mode = CONFIG => plugin.sees[CONFIG] = {}, m \in Modes
    PROVE  Carried(e, e.vsys, m)
<1>1. PICK p : p = Shown(e) /\ Tells(p, e.mode, e.vsys)
    BY ShownTells
<1>2. e.mode \in {LOGIN, ENABLE, CONFIG} /\ m \in {LOGIN, ENABLE, CONFIG}
    BY ModesApart DEF Usual
<1> QED
    BY <1>1, <1>2 DEF Tells, Carried

LEMMA MoveLine ==
    ASSUME Steady, kind \in Kinds, NEW d, DeviceFits(d), Usual(d), ~d.asked, NEW from \in Modes, NEW to \in Modes,
           from # to, d.mode = from
    PROVE  Executed(d, Move(from, to).cmd).mode = Gone
           \/ Carried(Executed(d, Move(from, to).cmd), d.vsys, Move(from, to).becomes)
<1>1. PICK c, e, m : /\ c = Move(from, to).cmd /\ m = Move(from, to).becomes /\ e = Executed(d, c)
                     /\ Led(e, d, c)
    BY LineLeads
<1>2. SUFFICES ASSUME e.mode # Gone PROVE Carried(e, d.vsys, m)
    BY <1>1
<1>3. Usual(e)
    BY <1>1, <1>2, LineUsual
<1>4. from \in {LOGIN, ENABLE, CONFIG} /\ to \in {LOGIN, ENABLE, CONFIG}
    BY ModesApart
<1>5. CASE from = LOGIN
    <2>1. c = "enable" /\ m = ENABLE
        BY <1>1, <1>5, ModesApart DEF Move
    <2>2. e.vsys = d.vsys /\ e.mode \in {LOGIN, ENABLE}
        <3>1. Turned(e, d, Obeyed(d, c), d.vsys)
            BY <1>1, <2>1 DEF Led
        <3> QED
            BY <1>5, <2>1, <3>1, ObeyedFair DEF Turned
    <2>3. Carried(e, e.vsys, m)
        BY <1>3, <2>1, <2>2, CarriedBy, ModesApart
    <2> QED
        BY <2>2, <2>3
<1>6. CASE from = ENABLE
    <2>1. m \in {LOGIN, CONFIG} /\ c \in {"disable", plugin.config}
        BY <1>1, <1>4, <1>6, ModesApart DEF Move
    <2>2. Carried(e, e.vsys, m)
        BY <1>3, <2>1, CarriedBy, ModesApart
    <2>3. e.vsys = d.vsys
        <3>1. Sited => plugin.config = "configure terminal"
            BY RowOrderly DEF Parted
        <3>2. CASE ~Sited
            BY <1>3, <3>2 DEF Usual
        <3>3. CASE Sited
            <4>1. c \in {"disable", "configure terminal"}
                BY <2>1, <3>1, <3>3
            <4>2. e = d \/ Turned(e, d, Obeyed(d, c), d.vsys)
                BY <1>1, <1>2, <4>1 DEF Led
            <4> QED
                BY <4>2 DEF Turned
        <3> QED
            BY <3>2, <3>3
    <2> QED
        BY <2>2, <2>3
<1>7. CASE from = CONFIG
    <2>1. m = ENABLE /\ c = plugin.exit
        BY <1>1, <1>7, ModesApart DEF Move
    <2>2. Obeyed(d, c) = ENABLE \/ (Obeyed(d, c) = CONFIG /\ plugin.sees[CONFIG] = {})
        BY <1>7, <2>1, ObeyedFair
    <2>3. Turned(e, d, Obeyed(d, c), d.vsys)
        <3>1. Sited => plugin.exit = "exit"
            BY RowOrderly DEF Parted
        <3>2. CASE ~Sited
            BY <1>1, <3>2 DEF Led
        <3>3. CASE Sited
            <4>1. c = "exit"
                BY <2>1, <3>1, <3>3
            <4> QED
                BY <1>1, <1>7, <4>1, ModesApart DEF Led
        <3> QED
            BY <3>2, <3>3
    <2>4. Carried(e, e.vsys, m)
        BY <1>3, <2>1, <2>2, <2>3, CarriedBy, ModesApart DEF Turned
    <2> QED
        BY <2>3, <2>4 DEF Turned
<1> QED
    BY <1>4, <1>5, <1>6, <1>7

-----------------------------------------------------------------------------
(* What a session plans to do: its list of steps.                          *)

\* A step of a list; a word for a vsys that leaves it alone is no vsys.
Nowhere(x) == x.is = ""
Elem(x) ==
    /\ x.do \in {"decide", "vsys", "mode", "moving", "line", "believe", "own"}
    /\ x.do = "vsys" => Nowhere(x) \/ x.is = Own \/ (Sited /\ x.is = "v1")
    /\ x.do = "moving" => x.is \in Modes
    /\ x.do = "believe" => Sited /\ x.is \in {Own, "v1"}
\* A line that enters or leaves a site: it is written in the enable mode, and believed.
Entering(x) == x.do = "line" /\ x.is \notin Quiet
Follows(x, y) ==
    /\ Entering(x) <=> y.do = "believe"
    /\ Entering(x) => x.is = Word(y.is)
    /\ Entering(y) => x.do \in {"mode", "moving"} /\ x.is = ENABLE
    /\ x.do # "own"
Chain(q) ==
    /\ IsList(q) /\ \A i \in DOMAIN q : Elem(q[i])
    /\ \A i \in 1..Len(q) - 1 : Follows(q[i], q[i + 1])
Script(q) == Chain(q) /\ (Len(q) # 0 => ~Entering(q[Len(q)]))

LEMMA NoScript == Script(<<>>)
BY ListEmpty DEF Script, Chain

LEMMA ScriptTail ==
    ASSUME NEW q, Script(q), q # <<>>
    PROVE  /\ Script(Tail(q)) /\ Elem(Head(q)) /\ Head(q) = q[1]
           /\ Tail(q) # <<>> => Follows(Head(q), Head(Tail(q)))
           /\ Tail(q) = <<>> => ~Entering(Head(q))
<1>1. IsList(q) /\ Len(q) \in Nat /\ DOMAIN q = 1..Len(q) /\ Len(q) # 0
    BY ListFacts DEF Script, Chain
<1>2. PICK n \in Nat : n = Len(q)
    BY <1>1
<1>3. PICK r : r = Tail(q)
    OBVIOUS
<1>4. r = Tail(q) /\ n = Len(q) /\ n # 0 /\ IsList(q) /\ DOMAIN q = 1..n
    BY <1>1, <1>2, <1>3
<1>5. IsList(r) /\ Len(r) = n - 1 /\ DOMAIN r = 1..n - 1 /\ \A i \in 1..n - 1 : r[i] = q[i + 1]
    BY <1>4, ListTail, ListFacts DEF Shorter
<1>6. Head(q) = q[1] /\ Elem(q[1])
    BY <1>4, ListTail DEF Script, Chain
<1>7. \A i \in DOMAIN r : Elem(r[i])
    BY <1>4, <1>5 DEF Script, Chain
<1>8. \A i \in 1..Len(r) - 1 : Follows(r[i], r[i + 1])
    <2>1. ASSUME NEW i \in 1..n - 2 PROVE Follows(r[i], r[i + 1])
        <3>1. i + 1 \in 1..n - 1 /\ r[i] = q[i + 1] /\ r[i + 1] = q[i + 1 + 1]
            BY <1>5
        <3>2. Follows(q[i + 1], q[i + 1 + 1])
            BY <1>4, <3>1 DEF Script, Chain
        <3> QED
            BY <3>1, <3>2
    <2> QED
        BY <1>5, <2>1
<1>9. Len(r) # 0 => ~Entering(r[Len(r)])
    BY <1>4, <1>5 DEF Script
<1>10. Script(r)
    BY <1>5, <1>7, <1>8, <1>9 DEF Script, Chain
<1>11. r # <<>> => Follows(q[1], Head(r))
    <2>1. ASSUME r # <<>> PROVE Follows(q[1], r[1]) /\ Head(r) = r[1]
        <3>1. 1 \in 1..n - 1
            BY <1>5, <2>1, ListFacts
        <3>2. Follows(q[1], q[1 + 1]) /\ r[1] = q[1 + 1]
            BY <1>4, <1>5, <3>1 DEF Script, Chain
        <3> QED
            BY <1>5, <2>1, <3>2, ListTail
    <2> QED
        BY <2>1
<1>12. r = <<>> => ~Entering(q[1])
    <2>1. ASSUME r = <<>> PROVE n = 1
        <3>1. n - 1 = 0
            BY <1>5, <2>1, ListEmpty
        <3> QED
            BY <3>1
    <2> QED
        BY <1>4, <2>1 DEF Script
<1> QED
    BY <1>4, <1>6, <1>10, <1>11, <1>12

\* A list before another.
LEMMA ScriptJoin ==
    ASSUME NEW p, NEW q, Chain(p), Script(q), Len(p) # 0,
           q # <<>> => Follows(p[Len(p)], Head(q)), q = <<>> => ~Entering(p[Len(p)])
    PROVE  /\ Script(p \o q) /\ Len(p \o q) = Len(p) + Len(q) /\ Head(p \o q) = p[1]
           /\ \A i \in 1..Len(q) : (p \o q)[Len(p) + i] = q[i]
           /\ \A i \in 1..Len(p) : (p \o q)[i] = p[i]
           /\ p \o q # <<>>
<1>1. IsList(p) /\ IsList(q)
    BY DEF Script, Chain
<1>2. PICK m \in Nat : m = Len(p)
    BY <1>1, ListFacts
<1>3. PICK n \in Nat : n = Len(q)
    BY <1>1, ListFacts
<1>4. PICK r : r = p \o q
    OBVIOUS
<1>5. /\ r = p \o q /\ m = Len(p) /\ n = Len(q) /\ m # 0
      /\ IsList(p) /\ IsList(q) /\ DOMAIN p = 1..m /\ DOMAIN q = 1..n
    BY <1>1, <1>2, <1>3, <1>4, ListFacts
<1>6. IsList(r) /\ Len(r) = m + n /\ DOMAIN r = 1..m + n
      /\ \A i \in 1..m + n : r[i] = IF i <= m THEN p[i] ELSE q[i - m]
    BY <1>5, ListConcat, ListFacts
<1>7. \A i \in 1..m : r[i] = p[i]
    BY <1>5, <1>6
<1>8. \A i \in 1..n : r[m + i] = q[i] /\ m + i \in 1..m + n
    <2> TAKE i \in 1..n
    <2>1. m + i \in 1..m + n /\ ~(m + i <= m) /\ m + i - m = i
        OBVIOUS
    <2> QED
        BY <1>6, <2>1
<1>9. \A i \in 1..m + n : i \in 1..m \/ \E j \in 1..n : i = m + j
    <2> TAKE i \in 1..m + n
    <2>1. i > m => i - m \in 1..n /\ i = m + (i - m)
        OBVIOUS
    <2> QED
        BY <2>1
<1>10. \A i \in DOMAIN r : Elem(r[i])
    <2>1. ASSUME NEW i \in 1..m PROVE Elem(p[i])
        BY <1>5, <2>1 DEF Chain
    <2>2. ASSUME NEW i \in 1..n PROVE Elem(q[i])
        BY <1>5, <2>2 DEF Script, Chain
    <2> QED
        BY <1>6, <1>7, <1>8, <1>9, <2>1, <2>2
<1>11. n # 0 => Head(q) = q[1] /\ q # <<>>
    BY <1>5, ListFacts, ListTail
<1>12. \A i \in 1..Len(r) - 1 : Follows(r[i], r[i + 1])
    <2> SUFFICES ASSUME NEW i \in 1..m + n - 1 PROVE Follows(r[i], r[i + 1])
        BY <1>6
    <2>1. CASE i < m
        <3>1. Follows(p[i], p[i + 1])
            BY <1>5, <2>1 DEF Chain
        <3> QED
            BY <1>7, <2>1, <3>1
    <2>2. CASE i = m
        <3>1. 1 \in 1..n
            BY <2>2
        <3>2. r[m + 1] = q[1] /\ r[m] = p[m]
            BY <1>5, <1>7, <1>8, <3>1
        <3> QED
            BY <1>5, <1>11, <2>2, <3>1, <3>2
    <2>3. CASE i > m
        <3>1. PICK j : j = i - m
            OBVIOUS
        <3>2. j \in 1..n - 1 /\ j + 1 \in 1..n /\ j \in 1..n /\ i = m + j /\ i + 1 = m + (j + 1)
            BY <2>3, <3>1
        <3>3. Follows(q[j], q[j + 1])
            BY <1>5, <3>2 DEF Script, Chain
        <3> QED
            BY <1>8, <3>2, <3>3
    <2> QED
        BY <2>1, <2>2, <2>3
<1>13. ~Entering(r[Len(r)])
    <2>1. CASE n = 0
        <3>1. q = <<>> /\ m \in 1..m /\ Len(r) = m
            BY <1>5, <1>6, <2>1, ListFacts
        <3> QED
            BY <1>5, <1>7, <3>1
    <2>2. CASE n # 0
        <3>1. n \in 1..n
            BY <2>2
        <3>2. r[m + n] = q[n]
            BY <1>8, <3>1
        <3> QED
            BY <1>5, <1>6, <2>2, <3>2 DEF Script
    <2> QED
        BY <2>1, <2>2
<1>14. Script(r)
    BY <1>6, <1>10, <1>12, <1>13 DEF Script, Chain
<1>15. r # <<>> /\ Head(r) = p[1]
    <2>1. r # <<>> /\ 1 \in 1..m
        BY <1>5, <1>6, ListFacts
    <2> QED
        BY <1>6, <1>7, <2>1, ListTail
<1> QED
    BY <1>5, <1>6, <1>7, <1>8, <1>14, <1>15

LEMMA ChainsOfFew ==
    /\ \A x : Elem(x) => Chain(<<x>>) /\ Len(<<x>>) = 1 /\ <<x>>[1] = x
    /\ \A x, y, z : Elem(x) /\ Elem(y) /\ Elem(z) /\ Follows(x, y) /\ Follows(y, z) =>
          /\ Chain(<<x, y, z>>) /\ Len(<<x, y, z>>) = 3
          /\ <<x, y, z>>[1] = x /\ <<x, y, z>>[3] = z
<1>1. ASSUME NEW x, Elem(x) PROVE Chain(<<x>>) /\ Len(<<x>>) = 1 /\ <<x>>[1] = x
    <2>1. PICK q : q = <<x>> /\ IsList(q) /\ Len(q) = 1 /\ q[1] = x /\ DOMAIN q = {1}
        BY ListOne
    <2> QED
        BY <1>1, <2>1 DEF Chain
<1>2. ASSUME NEW x, NEW y, NEW z, Elem(x), Elem(y), Elem(z), Follows(x, y), Follows(y, z)
      PROVE  Chain(<<x, y, z>>) /\ Len(<<x, y, z>>) = 3 /\ <<x, y, z>>[1] = x /\ <<x, y, z>>[3] = z
    <2>0. /\ <<x, y, z>> \in Seq({x, y, z}) /\ Len(<<x, y, z>>) = 3
          /\ <<x, y, z>>[1] = x /\ <<x, y, z>>[2] = y /\ <<x, y, z>>[3] = z
        OBVIOUS
    <2>1. PICK q : q = <<x, y, z>> /\ q \in Seq({x, y, z}) /\ Len(q) = 3 /\ q[1] = x /\ q[2] = y /\ q[3] = z
        BY <2>0
    <2>2. IsList(q) /\ DOMAIN q = 1..3
        <3>1. IsList(q)
            BY <2>1 DEF IsList
        <3> QED
            BY <2>1, <3>1, ListFacts
    <2>3. \A i \in 1..3 : i = 1 \/ i = 2 \/ i = 3
        OBVIOUS
    <2>4. \A i \in DOMAIN q : Elem(q[i])
        BY <1>2, <2>1, <2>2, <2>3
    <2>5. \A i \in 1..Len(q) - 1 : Follows(q[i], q[i + 1])
        <3>1. Follows(q[1], q[1 + 1]) /\ Follows(q[2], q[2 + 1])
            BY <1>2, <2>1
        <3>2. \A i \in 1..Len(q) - 1 : i = 1 \/ i = 2
            BY <2>1
        <3> QED
            BY <3>1, <3>2
    <2> QED
        BY <2>1, <2>2, <2>4, <2>5 DEF Chain
<1> QED
    BY <1>1, <1>2

-----------------------------------------------------------------------------
(* What a task asked for is met before its command is written.             *)

Unsaid(m) == m \in {None, ""}
ModeMet(m, x) ==
    ~Unsaid(m) /\ ~(plugin.policy = "login-only" /\ m # CONFIG) => x = m
VsysMet(w, x) == ~Unsaid(w) /\ plugin.vsys # "none" => x = w
Meets(t, m, v) == ModeMet(t.mode, m) /\ VsysMet(t.vsys, v)

\* t is asked for, m and v believed; the list q ends with the command of the task.
Switching(x) == x.do \in {"mode", "moving"}
Entrusting(x) == x.do \in {"vsys", "believe"}
Aim(t, m, v, q) ==
    /\ Len(q) # 0 => q[Len(q)].do = "own"
    /\ Len(q) = 1 => ModeMet(t.mode, m)
    /\ Len(q) >= 2 => Switching(q[Len(q) - 1]) /\ q[Len(q) - 1].is = t.mode
    /\ Sited /\ Len(q) \in {1, 2} => VsysMet(t.vsys, v)
    /\ Sited /\ Len(q) >= 3 => Entrusting(q[Len(q) - 2]) /\ q[Len(q) - 2].is = t.vsys

LEMMA AimTail ==
    ASSUME NEW t, NEW m, NEW v, NEW n, NEW w, NEW q, IsList(q), q # <<>>, Aim(t, m, v, q),
           Switching(q[1]) => ModeMet(q[1].is, n) /\ w = v,
           Entrusting(q[1]) => VsysMet(q[1].is, w)
    PROVE  Aim(t, n, w, Tail(q))
<1>1. PICK r : r = Tail(q)
    OBVIOUS
<1>2. PICK k \in Nat : k = Len(q)
    BY ListFacts
<1>3. k # 0 /\ Len(r) = k - 1 /\ \A i \in 1..k - 1 : r[i] = q[i + 1]
    BY <1>1, <1>2, ListFacts, ListTail DEF Shorter
<1>4. r[k - 1] = IF k >= 2 THEN q[k] ELSE r[k - 1]
    <2>1. k >= 2 => k - 1 \in 1..k - 1 /\ k - 1 + 1 = k
        OBVIOUS
    <2> QED
        BY <1>3, <2>1
<1>5. k >= 3 => r[k - 2] = q[k - 1]
    <2>1. k >= 3 => k - 2 \in 1..k - 1 /\ k - 2 + 1 = k - 1
        OBVIOUS
    <2> QED
        BY <1>3, <2>1
<1>6. k >= 4 => r[k - 3] = q[k - 2]
    <2>1. k >= 4 => k - 3 \in 1..k - 1 /\ k - 3 + 1 = k - 2
        OBVIOUS
    <2> QED
        BY <1>3, <2>1
<1>7. k # 0 => q[k].do = "own"
    BY <1>2 DEF Aim
<1>8. k >= 2 => Switching(q[k - 1]) /\ q[k - 1].is = t.mode
    BY <1>2 DEF Aim
<1>9. Sited /\ k >= 3 => Entrusting(q[k - 2]) /\ q[k - 2].is = t.vsys
    BY <1>2 DEF Aim
<1>10. Sited /\ k = 2 => VsysMet(t.vsys, v)
    BY <1>2 DEF Aim
<1>11. k = 2 => ModeMet(t.mode, n) /\ (Sited => VsysMet(t.vsys, w))
    BY <1>8, <1>10
<1>12. Sited /\ k = 3 => VsysMet(t.vsys, w)
    BY <1>9
<1>13. Len(r) # 0 => r[Len(r)].do = "own"
    BY <1>3, <1>4, <1>7
<1>14. Len(r) = 1 => ModeMet(t.mode, n)
    <2>1. Len(r) = 1 => k = 2
        <3>1. PICK l : l = Len(r) /\ l = k - 1
            BY <1>3
        <3>2. l = 1 => k = 2
            BY <3>1
        <3> QED
            BY <3>1, <3>2
    <2> QED
        BY <1>11, <2>1
<1>15. Len(r) >= 2 => Switching(r[Len(r) - 1]) /\ r[Len(r) - 1].is = t.mode
    BY <1>3, <1>5, <1>8
<1>16. Sited /\ Len(r) \in {1, 2} => VsysMet(t.vsys, w)
    BY <1>3, <1>11, <1>12
<1>17. Sited /\ Len(r) >= 3 => Entrusting(r[Len(r) - 2]) /\ r[Len(r) - 2].is = t.vsys
    BY <1>3, <1>6, <1>9
<1> QED
    BY <1>1, <1>13, <1>14, <1>15, <1>16, <1>17 DEF Aim

\* The first step becomes k + 1 steps, of which the last leads to the same.
Near(x, y) == x.is = y.is /\ (Switching(y) => Switching(x)) /\ (Entrusting(y) => Entrusting(x))
Grown(r, q, k) ==
    /\ Len(r) = Len(q) + k /\ Near(r[k + 1], q[1])
    /\ \A i \in 2..Len(q) : r[i + k] = q[i]
LEMMA AimGrown ==
    ASSUME NEW t, NEW m, NEW v, NEW n, NEW w, NEW q, NEW r, IsList(q), q # <<>>, Aim(t, m, v, q),
           NEW k \in Nat, Grown(r, q, k), q[1].do # "own", k = 0 \/ ~Sited \/ Entrusting(q[1]),
           Sited => w = v
    PROVE  Aim(t, n, w, r)
<1>1. PICK l \in Nat : l = Len(q)
    BY ListFacts
<1>2. l # 0 /\ l # 1
    BY <1>1, ListFacts DEF Aim
<1>3. Len(r) = l + k /\ \A i \in 2..l : r[i + k] = q[i]
    BY <1>1 DEF Grown
<1>4. q[l].do = "own" /\ Switching(q[l - 1]) /\ q[l - 1].is = t.mode
    BY <1>1, <1>2 DEF Aim
<1>5. Sited /\ l >= 3 => Entrusting(q[l - 2]) /\ q[l - 2].is = t.vsys
    BY <1>1 DEF Aim
<1>6. Sited /\ l = 2 => VsysMet(t.vsys, v)
    BY <1>1 DEF Aim
<1>7. r[l + k] = q[l]
    <2>1. l \in 2..l
        BY <1>2
    <2> QED
        BY <1>3, <2>1
<1>8. Near(r[l + k - 1], q[l - 1])
    <2>1. CASE l = 2
        <3>1. l + k - 1 = k + 1 /\ l - 1 = 1
            BY <2>1
        <3> QED
            BY <3>1 DEF Grown
    <2>2. CASE l # 2
        <3>1. l - 1 \in 2..l /\ l - 1 + k = l + k - 1
            BY <1>2, <2>2
        <3>2. r[l + k - 1] = q[l - 1]
            BY <1>3, <3>1
        <3> QED
            BY <3>2 DEF Near
    <2> QED
        BY <2>1, <2>2
<1>9. l >= 3 => Near(r[l + k - 2], q[l - 2])
    <2>1. CASE l = 3
        <3>1. l + k - 2 = k + 1 /\ l - 2 = 1
            BY <2>1
        <3> QED
            BY <3>1 DEF Grown
    <2>2. CASE l > 3
        <3>1. l - 2 \in 2..l /\ l - 2 + k = l + k - 2
            BY <2>2
        <3>2. r[l + k - 2] = q[l - 2]
            BY <1>3, <3>1
        <3> QED
            BY <3>2 DEF Near
    <2> QED
        BY <2>1, <2>2
<1>10. Sited => k = 0 \/ l >= 3
    <2>1. Switching(q[1]) /\ Entrusting(q[1]) => FALSE
        BY DEF Switching, Entrusting
    <2> QED
        BY <1>2, <1>4, <2>1
<1>11. Len(r) # 0 => r[Len(r)].do = "own"
    BY <1>3, <1>4, <1>7
<1>12. Switching(r[Len(r) - 1]) /\ r[Len(r) - 1].is = t.mode /\ Len(r) # 1 /\ Len(r) >= 2
    BY <1>2, <1>3, <1>4, <1>8 DEF Near
<1>13. Sited /\ Len(r) \in {1, 2} => VsysMet(t.vsys, w)
    BY <1>2, <1>3, <1>6, <1>10
<1>14. Sited /\ Len(r) >= 3 => Entrusting(r[Len(r) - 2]) /\ r[Len(r) - 2].is = t.vsys
    <2>1. Sited /\ Len(r) >= 3 => l >= 3
        BY <1>2, <1>3, <1>10
    <2> QED
        BY <1>3, <1>5, <1>9, <2>1 DEF Near
<1> QED
    BY <1>11, <1>12, <1>13, <1>14 DEF Aim

-----------------------------------------------------------------------------
(* The plan of a session.                                                  *)

Plan(s) ==
    /\ s.wait # None => Head(s.todo).do = s.wait
    /\ Script(s.todo)
    /\ s.todo # <<>> /\ Entering(Head(s.todo)) => s.mode = ENABLE
    /\ s.wait = "moving" => s.mode # Head(s.todo).is
    /\ ~Sited => s.vsys = Own
    /\ s.task # NotAsked => Aim(s.task, s.mode, s.vsys, s.todo)

\* What a step makes of a session: it drops the first step, puts others in its place, waits,
\* or quits.
Drops(r, s, m, v) ==
    r.todo = Tail(s.todo) /\ r.wait = None /\ r.task = s.task /\ r.mode = m /\ r.vsys = v
Puts(r, s, q, m) ==
    r.todo = q /\ r.wait = None /\ r.task = s.task /\ r.mode = m /\ r.vsys = s.vsys
Stays(r, s, w) ==
    r.todo = s.todo /\ r.wait = w /\ r.task = s.task /\ r.mode = s.mode /\ r.vsys = s.vsys
Quits(r, s) == r.todo = <<>> /\ r.wait = None /\ r.mode = s.mode /\ r.vsys = s.vsys

\* A step that is dropped in a mode and a vsys.
Settled(x, s, m, v) ==
    /\ Switching(x) => ModeMet(x.is, m) /\ v = s.vsys /\ (Sited /\ x.is = ENABLE => m = ENABLE)
    /\ Entrusting(x) => VsysMet(x.is, v)
    /\ ~Sited => v = Own

LEMMA PlanDrops ==
    ASSUME NEW s, NEW r, NEW m, NEW v, Plan(s), s.todo # <<>>, Drops(r, s, m, v),
           Settled(Head(s.todo), s, m, v)
    PROVE  Plan(r)
<1>1. PICK q : q = s.todo /\ Script(q) /\ q # <<>> /\ r.todo = Tail(q)
    BY DEF Plan, Drops
<1>2. Script(Tail(q)) /\ Head(q) = q[1] /\ (Tail(q) # <<>> => Follows(q[1], Head(Tail(q))))
    BY <1>1, ScriptTail
<1>3. PICK x : x = q[1] /\ Settled(x, s, m, v)
    BY <1>1, <1>2
<1>4. r.todo # <<>> /\ Entering(Head(r.todo)) => r.mode = ENABLE
    <2>1. ASSUME r.todo # <<>>, Entering(Head(r.todo)) PROVE m = ENABLE
        <3>1. Follows(x, Head(r.todo)) /\ Script(r.todo)
            BY <1>1, <1>2, <1>3, <2>1
        <3>2. Switching(x) /\ x.is = ENABLE
            BY <2>1, <3>1 DEF Follows, Switching
        <3>3. Sited
            <4>1. PICK z : z = r.todo
                OBVIOUS
            <4>2. Script(z) /\ z # <<>> /\ Entering(Head(z))
                BY <2>1, <3>1, <4>1
            <4>3. Tail(z) # <<>> /\ Follows(Head(z), Head(Tail(z))) /\ Script(Tail(z))
                BY <4>2, ScriptTail
            <4>4. Elem(Head(Tail(z))) /\ Head(Tail(z)).do = "believe"
                BY <4>2, <4>3, ScriptTail DEF Follows
            <4> QED
                BY <4>4 DEF Elem
        <3> QED
            BY <1>3, <3>2, <3>3 DEF Settled
    <2> QED
        BY <2>1 DEF Drops
<1>5. s.task # NotAsked => Aim(s.task, m, v, Tail(q))
    <2>1. ASSUME s.task # NotAsked PROVE Aim(s.task, m, v, Tail(q))
        <3>1. Aim(s.task, s.mode, s.vsys, q) /\ IsList(q)
            BY <1>1, <2>1 DEF Plan, Script, Chain
        <3> QED
            BY <1>1, <1>3, <3>1, AimTail DEF Settled
    <2> QED
        BY <2>1
<1>6. ~Sited => v = Own
    BY <1>3 DEF Settled
<1>7. r.wait = None /\ None # "moving"
    BY DEF Drops, None
<1> QED
    BY <1>1, <1>2, <1>4, <1>5, <1>6, <1>7 DEF Plan, Drops

LEMMA PlanPuts ==
    ASSUME NEW s, NEW r, NEW q, NEW m, Plan(s), s.todo # <<>>, Puts(r, s, q, m), Script(q),
           q # <<>> /\ Entering(Head(q)) => m = ENABLE,
           NEW k \in Nat, Grown(q, s.todo, k), Head(s.todo).do # "own",
           k = 0 \/ ~Sited \/ Entrusting(Head(s.todo))
    PROVE  Plan(r)
<1>1. IsList(s.todo) /\ Head(s.todo) = s.todo[1]
    BY ListTail DEF Plan, Script, Chain
<1>2. s.task # NotAsked => Aim(s.task, m, s.vsys, q)
    BY <1>1, AimGrown DEF Plan
<1>3. r.wait = None /\ None # "moving"
    BY DEF Puts, None
<1> QED
    BY <1>2, <1>3 DEF Plan, Puts

LEMMA PlanStays ==
    ASSUME NEW s, NEW r, NEW w, Plan(s), Stays(r, s, w), w # None => Head(s.todo).do = w,
           w = "moving" => s.mode # Head(s.todo).is
    PROVE  Plan(r)
BY DEF Plan, Stays

LEMMA PlanQuits ==
    ASSUME NEW s, NEW r, Plan(s), Quits(r, s)
    PROVE  Plan(r)
<1>1. \A t, m, v : Aim(t, m, v, <<>>)
    BY ListEmpty DEF Aim
<1>2. r.wait = None /\ None # "moving"
    BY DEF Quits, None
<1> QED
    BY <1>1, <1>2, NoScript DEF Plan, Quits

-----------------------------------------------------------------------------
(* The steps of a session keep its plan.                                   *)

\* What the session knows of the vsys, before it has noted it down.
Sure(s, q) == IF q # <<>> /\ Head(q).do = "believe" THEN Head(q).is ELSE s.vsys
Planless(q) == q = <<>> \/ Deciding(q)
\* A step that neither writes nor reads.
Follow(r, s) ==
    /\ Plan(r) /\ r.wait = None
    /\ ~Planless(r.todo) => /\ ~Planless(s.todo) /\ r.mode = s.mode
                            /\ Sure(r, r.todo) = Sure(s, s.todo)

LEMMA SessionFields ==
    ASSUME NEW k, NEW s, SessionFits(k, s)
    PROVE  /\ Drops(Rest(s), s, s.mode, s.vsys) /\ Quits(Failed(s), s)
           /\ \A w : Stays(Waits(s, w), s, w)
           /\ s.wait = None => \A q : Puts(Listed(s, q), s, q, s.mode)
<1>1. PICK a, b, c, d, e, f, g, h :
        s = [mode |-> a, vsys |-> b, todo |-> c, wait |-> d, task |-> e, begun |-> f, up |-> g, wide |-> h]
    BY DEF SessionFits
<1>2. s.mode = a /\ s.vsys = b /\ s.todo = c /\ s.wait = d /\ s.task = e
    BY <1>1
<1>3. Drops(Rest(s), s, s.mode, s.vsys)
    <2>1. PICK r : r = Rest(s)
        OBVIOUS
    <2>2. r = [mode |-> a, vsys |-> b, todo |-> Tail(c), wait |-> None, task |-> e, begun |-> f, up |-> g, wide |-> h]
        BY <1>1, <2>1 DEF Rest
    <2>3. r.mode = a /\ r.vsys = b /\ r.todo = Tail(c) /\ r.wait = None /\ r.task = e
        BY <2>2
    <2> QED
        BY <1>2, <2>1, <2>3 DEF Drops
<1>4. Quits(Failed(s), s)
    <2>1. PICK r : r = Failed(s)
        OBVIOUS
    <2>2. r = [mode |-> a, vsys |-> b, todo |-> <<>>, wait |-> None, task |-> NotAsked, begun |-> f, up |-> f,
               wide |-> h]
        BY <1>1, <2>1 DEF Failed
    <2>3. r.mode = a /\ r.vsys = b /\ r.todo = <<>> /\ r.wait = None
        BY <2>2
    <2> QED
        BY <1>2, <2>1, <2>3 DEF Quits
<1>5. ASSUME NEW w PROVE Stays(Waits(s, w), s, w)
    <2>1. PICK r : r = Waits(s, w)
        OBVIOUS
    <2>2. r = [mode |-> a, vsys |-> b, todo |-> c, wait |-> w, task |-> e, begun |-> f, up |-> g, wide |-> h]
        BY <1>1, <2>1 DEF Waits
    <2>3. r.mode = a /\ r.vsys = b /\ r.todo = c /\ r.wait = w /\ r.task = e
        BY <2>2
    <2> QED
        BY <1>2, <2>1, <2>3 DEF Stays
<1>6. ASSUME NEW q, s.wait = None PROVE Puts(Listed(s, q), s, q, s.mode)
    <2>1. PICK r : r = Listed(s, q)
        OBVIOUS
    <2>2. r = [mode |-> a, vsys |-> b, todo |-> q, wait |-> d, task |-> e, begun |-> f, up |-> g, wide |-> h]
        BY <1>1, <2>1 DEF Listed
    <2>3. r.mode = a /\ r.vsys = b /\ r.todo = q /\ r.wait = d /\ r.task = e
        BY <2>2
    <2> QED
        BY <1>2, <1>6, <2>1, <2>3 DEF Puts
<1> QED
    BY <1>3, <1>4, <1>5, <1>6

\* What is noted down: a mode and a vsys.
Noted(s, m, v) == [s EXCEPT !.mode = m, !.vsys = v]
LEMMA NotedFields ==
    ASSUME NEW k, NEW s, SessionFits(k, s), s.todo # <<>>, NEW m, NEW v
    PROVE  Drops(Noted(Rest(s), m, v), s, m, v)
<1>1. PICK r, t : r = Rest(s) /\ t = Noted(r, m, v)
    OBVIOUS
<1>2. SessionFits(k, r) /\ Drops(r, s, s.mode, s.vsys)
    BY <1>1, RestFits, SessionFields
<1>3. PICK a, b, c, d, e, f, g, h :
        r = [mode |-> a, vsys |-> b, todo |-> c, wait |-> d, task |-> e, begun |-> f, up |-> g, wide |-> h]
    BY <1>2 DEF SessionFits
<1>4. t = [mode |-> m, vsys |-> v, todo |-> c, wait |-> d, task |-> e, begun |-> f, up |-> g, wide |-> h]
    <2>1. t = [r EXCEPT !.mode = m, !.vsys = v]
        BY <1>1 DEF Noted
    <2> QED
        BY <1>3, <2>1
<1>5. r.todo = c /\ r.wait = d /\ r.task = e
    BY <1>3
<1>6. t.mode = m /\ t.vsys = v /\ t.todo = c /\ t.wait = d /\ t.task = e
    BY <1>4
<1> QED
    BY <1>1, <1>2, <1>5, <1>6 DEF Drops

LEMMA QuitsFollows == ASSUME NEW s, NEW r, Plan(s), Quits(r, s) PROVE Follow(r, s)
BY PlanQuits DEF Follow, Planless, Quits

\* A step is dropped: what was sure, is.
LEMMA DropsFollows ==
    ASSUME NEW s, NEW r, NEW m, NEW v, Plan(s), s.todo # <<>>, Drops(r, s, m, v),
           Settled(Head(s.todo), s, m, v), ~Entering(Head(s.todo)), Head(s.todo).do # "decide",
           m = s.mode, v = Sure(s, s.todo)
    PROVE  Follow(r, s)
<1>1. Plan(r)
    BY PlanDrops
<1>2. Script(s.todo)
    BY DEF Plan
<1>3. Tail(s.todo) # <<>> => Follows(Head(s.todo), Head(Tail(s.todo)))
    BY <1>2, ScriptTail
<1>4. Sure(r, r.todo) = v
    BY <1>3 DEF Sure, Drops, Follows
<1> QED
    BY <1>1, <1>4 DEF Follow, Planless, Deciding, Drops

LEMMA Unasked ==
    /\ \A x, m, v : Nowhere(x) => ModeMet(x.is, m) /\ VsysMet(x.is, v)
    /\ \A x, m : ModeMet(x, x) /\ VsysMet(x, x)
<1>1. \A x, m, v : Nowhere(x) => ModeMet(x.is, m) /\ VsysMet(x.is, v)
    BY Zenon DEF Nowhere, ModeMet, VsysMet, Unsaid
<1>2. \A x : ModeMet(x, x) /\ VsysMet(x, x)
    BY Zenon DEF ModeMet, VsysMet
<1> QED
    BY <1>1, <1>2

\* A session that takes up a step.
Taking(do) ==
    /\ SessionFits(kind, ses) /\ kind \in Kinds /\ Plan(ses)
    /\ ses.wait = None /\ ses.todo # <<>> /\ Now = Head(ses.todo) /\ Now.do = do
    /\ Script(ses.todo) /\ IsList(ses.todo) /\ Elem(Now) /\ Now = ses.todo[1] /\ Script(Tail(ses.todo))
    /\ Tail(ses.todo) # <<>> => Follows(Now, Head(Tail(ses.todo)))
LEMMA TakesUp ==
    ASSUME ShellInv, Plan(ses), NEW do, Ready(do)
    PROVE  Taking(do)
<1>1. Script(ses.todo) /\ IsList(ses.todo)
    BY DEF Plan, Script, Chain
<1>2. SessionFits(kind, ses) /\ kind \in Kinds
    BY DEF ShellInv
<1>3. ses.wait = None /\ ses.todo # <<>> /\ Now = Head(ses.todo) /\ Now.do = do
    BY ReadyFits
<1> QED
    BY <1>1, <1>2, <1>3, ScriptTail DEF Taking

LEMMA StepIs == \A x, y : Step(x, y).do = x /\ Step(x, y).is = y
BY DEF Step

LEMMA WordSpoken == \A v : Word(v) \notin Quiet
BY DEF Word, Quiet

LEMMA SwitchesVsysPlans == ASSUME Steady, ShellInv, Plan(ses), SwitchesVsys PROVE Follow(ses', ses)
<1>1. Taking("vsys")
    BY TakesUp DEF SwitchesVsys
<1>2. CASE Nowhere(Now) \/ Now.is = ses.vsys
    <2>1. Now.is \in {"", ses.vsys}
        BY <1>2, Zenon DEF Nowhere
    <2>2. ses' = Rest(ses)
        BY <2>1 DEF SwitchesVsys
    <2>3. Drops(ses', ses, ses.mode, ses.vsys)
        BY <1>1, <2>2, SessionFields DEF Taking
    <2>4. VsysMet(Now.is, ses.vsys)
        BY <1>2, Unasked
    <2>5. Settled(Now, ses, ses.mode, ses.vsys)
        BY <1>1, <2>4 DEF Settled, Taking, Switching, Entrusting, Plan
    <2> QED
        BY <1>1, <2>3, <2>5, DropsFollows DEF Taking, Entering, Sure
<1>3. CASE ~(Nowhere(Now) \/ Now.is = ses.vsys)
    <2>1. Now.is \notin {"", ses.vsys}
        BY <1>3, Zenon DEF Nowhere
    <2>2. PICK v : v = Now.is /\ v \in {Own, "v1"} /\ Sited
        <3>1. Now.is = Own \/ (Sited /\ Now.is = "v1")
            BY <1>1, <1>3 DEF Taking, Elem
        <3>2. ~Sited => ses.vsys = Own
            BY DEF Plan
        <3> QED
            BY <1>3, <3>1, <3>2
    <2>3. PICK x, y, z : x = Step("mode", ENABLE) /\ y = Step("line", Word(v)) /\ z = Step("believe", v)
        OBVIOUS
    <2>4. /\ x.do = "mode" /\ x.is = ENABLE /\ y.do = "line" /\ y.is = Word(v)
          /\ z.do = "believe" /\ z.is = v
        BY <2>3, StepIs
    <2>5. PICK p : p = SwitchVsys(ses, v)
        OBVIOUS
    <2>6. p = <<x, y, z>>
        BY <2>2, <2>3, <2>5 DEF SwitchVsys, Word, Sited
    <2>7. Elem(x) /\ Elem(y) /\ Elem(z)
        BY <2>2, <2>4 DEF Elem
    <2>8. Entering(y) /\ ~Entering(x) /\ ~Entering(z)
        BY <2>4, WordSpoken DEF Entering
    <2>9. Follows(x, y) /\ Follows(y, z)
        BY <2>4, <2>8 DEF Follows
    <2>10. Chain(p) /\ Len(p) = 3 /\ p[1] = x /\ p[3] = z
        BY <2>6, <2>7, <2>9, ChainsOfFew
    <2>11. PICK t : t = Tail(ses.todo) /\ Script(t)
        BY <1>1 DEF Taking
    <2>12. t # <<>> => Follows(z, Head(t))
        <3>1. ASSUME t # <<>> PROVE Follows(z, Head(t))
            <4>1. Follows(Now, Head(t)) /\ Now.do = "vsys"
                BY <1>1, <2>11, <3>1 DEF Taking
            <4>2. Head(t).do # "believe" /\ ~Entering(Head(t))
                BY <4>1 DEF Follows, Entering
            <4> QED
                BY <2>4, <2>8, <4>2 DEF Follows
        <3> QED
            BY <3>1
    <2>13. PICK q : q = p \o t
        OBVIOUS
    <2>14. /\ Script(q) /\ Len(q) = 3 + Len(t) /\ Head(q) = x /\ q # <<>>
           /\ \A i \in 1..Len(t) : q[3 + i] = t[i]
           /\ q[3] = z
        <3>1. p[Len(p)] = z /\ Len(p) # 0 /\ 3 \in 1..Len(p)
            BY <2>10
        <3>2. t # <<>> => Follows(p[Len(p)], Head(t))
            BY <2>12, <3>1
        <3>3. t = <<>> => ~Entering(p[Len(p)])
            BY <2>8, <3>1
        <3>4. /\ Script(q) /\ Len(q) = Len(p) + Len(t) /\ Head(q) = p[1] /\ q # <<>>
              /\ \A i \in 1..Len(t) : q[Len(p) + i] = t[i]
              /\ \A i \in 1..Len(p) : q[i] = p[i]
            <4>1. Chain(p) /\ Script(t)
                BY <2>10, <2>11
            <4>2. /\ Script(p \o t) /\ Len(p \o t) = Len(p) + Len(t) /\ Head(p \o t) = p[1]
                  /\ \A i \in 1..Len(t) : (p \o t)[Len(p) + i] = t[i]
                  /\ \A i \in 1..Len(p) : (p \o t)[i] = p[i]
                  /\ p \o t # <<>>
                BY <3>1, <3>2, <3>3, <4>1, ScriptJoin
            <4> QED
                BY <2>13, <4>2
        <3> QED
            BY <2>10, <3>1, <3>4
    <2>15. ses' = Listed(ses, q)
        BY <2>1, <2>2, <2>5, <2>11, <2>13 DEF SwitchesVsys, Listed
    <2>16. Puts(ses', ses, q, ses.mode)
        BY <1>1, <2>15, SessionFields DEF Taking
    <2>17. Grown(q, ses.todo, 2)
        <3>1. PICK n \in Nat : n = Len(ses.todo) /\ IsList(ses.todo) /\ ses.todo # <<>> /\ Now = ses.todo[1]
            BY <1>1, ListFacts DEF Taking
        <3>2. Len(t) = n - 1 /\ \A i \in 1..n - 1 : t[i] = ses.todo[i + 1]
            BY <2>11, <3>1, ListTail DEF Shorter
        <3>3. ASSUME NEW i \in 2..n PROVE q[i + 2] = ses.todo[i]
            <4>1. i - 1 \in 1..n - 1 /\ 3 + (i - 1) = i + 2 /\ i - 1 + 1 = i
                OBVIOUS
            <4> QED
                BY <2>14, <3>2, <4>1
        <3>4. q[2 + 1] = z
            BY <2>14
        <3>5. Near(z, Now)
            BY <1>1, <2>2, <2>4 DEF Near, Taking, Switching, Entrusting
        <3>6. Len(q) = n + 2
            BY <2>14, <3>2
        <3> QED
            BY <3>1, <3>3, <3>4, <3>5, <3>6 DEF Grown
    <2>18. Plan(ses')
        <3>1. Entrusting(Head(ses.todo)) /\ Head(ses.todo).do # "own"
            BY <1>1 DEF Taking, Entrusting
        <3>2. ~Entering(Head(q)) /\ 2 \in Nat
            BY <2>8, <2>14
        <3> QED
            BY <1>1, <2>14, <2>16, <2>17, <3>1, <3>2, PlanPuts DEF Taking
    <2>19. Sure(ses', ses'.todo) = ses'.vsys /\ Sure(ses, ses.todo) = ses.vsys
        BY <1>1, <2>4, <2>14, <2>16 DEF Sure, Puts, Taking
    <2> QED
        BY <1>1, <2>16, <2>18, <2>19 DEF Follow, Puts, Planless, Deciding, Taking
<1> QED
    BY <1>2, <1>3

LEMMA BelievesPlans == ASSUME Steady, ShellInv, Plan(ses), Believes PROVE Follow(ses', ses)
<1>1. Taking("believe")
    BY TakesUp DEF Believes
<1>2. Sited /\ plugin.vsys # "usg"
    BY <1>1 DEF Taking, Elem, Sited
<1>3. PICK r : r = Rest(ses)
    OBVIOUS
<1>4. r.mode = ses.mode
    BY <1>1, <1>3, SessionFields DEF Taking, Drops
<1>5. ses' = [r EXCEPT !.vsys = Now.is, !.mode = r.mode]
    BY <1>2, <1>3 DEF Believes
<1>6. ses' = Noted(Rest(ses), ses.mode, Now.is)
    <2>1. SessionFits(kind, r)
        BY <1>1, <1>3, RestFits DEF Taking
    <2>2. PICK a, b, c, d, e, f, g, h :
            r = [mode |-> a, vsys |-> b, todo |-> c, wait |-> d, task |-> e, begun |-> f, up |-> g, wide |-> h]
        BY <2>1 DEF SessionFits
    <2>3. PICK m, w : m = ses.mode /\ w = Now.is
        OBVIOUS
    <2>4. [r EXCEPT !.vsys = w, !.mode = m] = [r EXCEPT !.mode = m, !.vsys = w]
        BY <2>2
    <2>5. Noted(Rest(ses), ses.mode, Now.is) = [r EXCEPT !.mode = m, !.vsys = w]
        BY <1>3, <2>3 DEF Noted
    <2> QED
        BY <1>4, <1>5, <2>3, <2>4, <2>5
<1>7. Drops(ses', ses, ses.mode, Now.is)
    BY <1>1, <1>6, NotedFields DEF Taking
<1>8. Settled(Now, ses, ses.mode, Now.is)
    <2>1. VsysMet(Now.is, Now.is)
        BY Unasked
    <2> QED
        BY <1>1, <1>2, <2>1 DEF Settled, Taking, Switching
<1> QED
    BY <1>1, <1>7, <1>8, DropsFollows DEF Taking, Entering, Sure

\* A switch of the mode that is not needed.
LEMMA NeedlessMode ==
    ASSUME Plan(ses), NEW x, Switching(x),
           \/ Nowhere(x) \/ x.is = ses.mode
           \/ ~Sited /\ plugin.policy = "login-only" /\ x.is \in {LOGIN, ENABLE}
    PROVE  Settled(x, ses, ses.mode, ses.vsys)
<1>1. ModeMet(x.is, ses.mode)
    <2>1. CASE ~Sited /\ plugin.policy = "login-only" /\ x.is \in {LOGIN, ENABLE}
        BY <2>1, ModesApart DEF ModeMet
    <2> QED
        BY <2>1, Unasked, Zenon
<1>2. Sited /\ x.is = ENABLE => ses.mode = ENABLE
    <2>1. Nowhere(x) => x.is # ENABLE
        BY Zenon DEF Nowhere, ENABLE
    <2> QED
        BY <2>1
<1>3. ~Sited => ses.vsys = Own
    BY DEF Plan
<1> QED
    BY <1>1, <1>2, <1>3 DEF Settled, Entrusting, Switching

LEMMA SwitchesModePlans == ASSUME Steady, ShellInv, Plan(ses), SwitchesMode PROVE Follow(ses', ses)
<1>1. Taking("mode")
    BY TakesUp DEF SwitchesMode
<1>2. PICK m : m = Now.is
    OBVIOUS
<1>3. PICK skips : skips = (plugin.policy = "login-only" /\ (m = ENABLE \/ (m = LOGIN /\ ses.mode = ENABLE)))
    OBVIOUS
<1>4. ses' = IF m \in {"", ses.mode} \/ skips THEN Rest(ses)
             ELSE IF m \notin Range(plugin.decides) THEN Failed(ses)
             ELSE [ses EXCEPT !.todo = <<Step("moving", m)>> \o Tail(@)]
    BY <1>2, <1>3 DEF SwitchesMode
<1>5. skips => ~Sited /\ plugin.policy = "login-only" /\ m \in {LOGIN, ENABLE}
    <2>1. Sited => plugin.policy = "any"
        BY <1>1, RowOrderly DEF Taking, Parted
    <2> QED
        BY <1>3, <2>1
<1>6. CASE m \in {"", ses.mode} \/ skips
    <2>1. Nowhere(Now) \/ Now.is = ses.mode
              \/ (~Sited /\ plugin.policy = "login-only" /\ Now.is \in {LOGIN, ENABLE})
        BY <1>2, <1>5, <1>6, Zenon DEF Nowhere
    <2>2. Settled(Now, ses, ses.mode, ses.vsys)
        <3>1. Switching(Now)
            BY <1>1 DEF Taking, Switching
        <3> QED
            BY <2>1, <3>1, NeedlessMode
    <2>3. ses' = Rest(ses)
        BY <1>4, <1>6
    <2>4. Drops(ses', ses, ses.mode, ses.vsys)
        BY <1>1, <2>3, SessionFields DEF Taking
    <2> QED
        BY <1>1, <2>2, <2>4, DropsFollows DEF Taking, Entering, Sure
<1>7. CASE ses' = Failed(ses)
    <2>1. Quits(ses', ses)
        BY <1>1, <1>7, SessionFields DEF Taking
    <2> QED
        BY <1>1, <2>1, QuitsFollows
<1>8. CASE m \in Range(plugin.decides) /\ ses' = [ses EXCEPT !.todo = <<Step("moving", m)>> \o Tail(@)]
    <2>1. m \in Modes
        <3>1. PICK S : S = plugin.decides /\ S \in Seq(Modes)
            BY <1>1, RowModed DEF Taking
        <3>2. m \in Range(S)
            BY <1>8, <3>1
        <3> QED
            BY <3>1, <3>2 DEF Range
    <2>2. PICK y : y = Step("moving", m)
        OBVIOUS
    <2>3. y.do = "moving" /\ y.is = m
        BY <2>2, StepIs
    <2>4. Elem(y) /\ ~Entering(y)
        BY <2>1, <2>3 DEF Elem, Entering
    <2>5. PICK p : p = <<y>> /\ Chain(p) /\ Len(p) = 1 /\ p[1] = y
        BY <2>4, ChainsOfFew
    <2>6. PICK t : t = Tail(ses.todo) /\ Script(t)
        BY <1>1 DEF Taking
    <2>7. t # <<>> => Follows(y, Head(t))
        <3>1. ASSUME t # <<>> PROVE Follows(y, Head(t))
            <4>1. Follows(Now, Head(t)) /\ Now.do = "mode"
                BY <1>1, <2>6, <3>1 DEF Taking
            <4> QED
                BY <1>2, <2>3, <2>4, <4>1 DEF Follows, Entering
        <3> QED
            BY <3>1
    <2>8. PICK q : q = p \o t
        OBVIOUS
    <2>9. /\ Script(q) /\ Len(q) = 1 + Len(t) /\ Head(q) = y /\ q # <<>>
          /\ \A i \in 1..Len(t) : q[1 + i] = t[i]
          /\ q[1] = y
        <3>1. p[Len(p)] = y /\ Len(p) # 0 /\ 1 \in 1..Len(p)
            BY <2>5
        <3>2. t # <<>> => Follows(p[Len(p)], Head(t))
            BY <2>7, <3>1
        <3>3. t = <<>> => ~Entering(p[Len(p)])
            BY <2>4, <3>1
        <3>4. Chain(p) /\ Script(t)
            BY <2>5, <2>6
        <3>5. /\ Script(p \o t) /\ Len(p \o t) = Len(p) + Len(t) /\ Head(p \o t) = p[1]
              /\ \A i \in 1..Len(t) : (p \o t)[Len(p) + i] = t[i]
              /\ \A i \in 1..Len(p) : (p \o t)[i] = p[i]
              /\ p \o t # <<>>
            BY <3>1, <3>2, <3>3, <3>4, ScriptJoin
        <3> QED
            BY <2>5, <2>8, <3>1, <3>5
    <2>10. ses' = Listed(ses, q)
        BY <1>8, <2>2, <2>5, <2>6, <2>8 DEF Listed
    <2>11. Puts(ses', ses, q, ses.mode)
        BY <1>1, <2>10, SessionFields DEF Taking
    <2>12. Grown(q, ses.todo, 0)
        <3>1. PICK n \in Nat : n = Len(ses.todo) /\ IsList(ses.todo) /\ ses.todo # <<>> /\ Now = ses.todo[1]
            BY <1>1, ListFacts DEF Taking
        <3>2. Len(t) = n - 1 /\ \A i \in 1..n - 1 : t[i] = ses.todo[i + 1]
            BY <2>6, <3>1, ListTail DEF Shorter
        <3>3. ASSUME NEW i \in 2..n PROVE q[i + 0] = ses.todo[i]
            <4>1. i - 1 \in 1..n - 1 /\ 1 + (i - 1) = i /\ i - 1 + 1 = i /\ i + 0 = i
                OBVIOUS
            <4> QED
                BY <2>9, <3>2, <4>1
        <3>4. q[0 + 1] = y
            BY <2>9
        <3>5. Near(y, Now)
            BY <1>1, <1>2, <2>3 DEF Near, Taking, Switching, Entrusting
        <3>6. Len(q) = n + 0
            BY <2>9, <3>2
        <3> QED
            BY <3>1, <3>3, <3>4, <3>5, <3>6 DEF Grown
    <2>13. Plan(ses')
        <3>1. Head(ses.todo).do # "own"
            BY <1>1 DEF Taking
        <3>2. ~Entering(Head(q)) /\ 0 \in Nat
            BY <2>4, <2>9
        <3> QED
            BY <1>1, <2>9, <2>11, <2>12, <3>1, <3>2, PlanPuts DEF Taking
    <2>14. Sure(ses', ses'.todo) = ses'.vsys /\ Sure(ses, ses.todo) = ses.vsys
        BY <1>1, <2>3, <2>9, <2>11 DEF Sure, Puts, Taking
    <2> QED
        BY <1>1, <2>11, <2>13, <2>14 DEF Follow, Puts, Planless, Deciding, Taking
<1> QED
    BY <1>4, <1>6, <1>7, <1>8

\* The loop of switch_mode: the mode is reached, or its command is written.
LEMMA MovesPlans ==
    ASSUME Steady, ShellInv, Plan(ses), Moves
    PROVE  \/ Follow(ses', ses) /\ sent' = sent
           \/ Plan(ses') /\ Stays(ses', ses, "moving") /\ ses.mode # Now.is /\ Taking("moving")
<1>1. Taking("moving")
    BY TakesUp DEF Moves
<1>2. CASE ses.mode = Now.is
    <2>1. ses' = Rest(ses) /\ sent' = sent
        BY <1>2 DEF Moves
    <2>2. Drops(ses', ses, ses.mode, ses.vsys)
        BY <1>1, <2>1, SessionFields DEF Taking
    <2>3. Settled(Now, ses, ses.mode, ses.vsys)
        <3>1. Switching(Now)
            BY <1>1 DEF Taking, Switching
        <3> QED
            BY <1>2, <3>1, NeedlessMode
    <2> QED
        BY <1>1, <2>1, <2>2, <2>3, DropsFollows DEF Taking, Entering, Sure
<1>3. CASE ses.mode # Now.is
    <2>1. ses' = Waits(ses, "moving")
        BY <1>3 DEF Moves, Await, Waits
    <2>2. Stays(ses', ses, "moving")
        BY <1>1, <2>1, SessionFields DEF Taking
    <2>3. Plan(ses')
        BY <1>1, <1>3, <2>2, PlanStays DEF Taking
    <2> QED
        BY <1>1, <1>3, <2>2, <2>3
<1> QED
    BY <1>2, <1>3

LEMMA WritesLinePlans ==
    ASSUME ShellInv, Plan(ses), WritesLine
    PROVE  Plan(ses') /\ Stays(ses', ses, Now.do) /\ Now.do \in {"line", "own"} /\ Taking(Now.do)
<1>1. PICK do : do \in {"line", "own"} /\ Ready(do)
    BY DEF WritesLine
<1>2. Taking(do) /\ Now.do = do
    BY <1>1, TakesUp DEF Taking
<1>3. ses' = Waits(ses, Now.do)
    BY DEF WritesLine, Await, Waits
<1>4. Stays(ses', ses, Now.do)
    BY <1>2, <1>3, SessionFields DEF Taking
<1>5. Plan(ses')
    <2>1. Now.do # "moving" /\ Head(ses.todo).do = Now.do
        BY <1>1, <1>2 DEF Taking
    <2> QED
        BY <1>4, <2>1, PlanStays
<1> QED
    BY <1>1, <1>2, <1>4, <1>5

LEMMA DecidesPlans ==
    ASSUME ShellInv, Plan(ses), Decides
    PROVE  Plan(ses') /\ Stays(ses', ses, "decide")
<1>1. Taking("decide")
    BY TakesUp DEF Decides
<1>2. ses' = Waits(ses, "decide")
    BY DEF Decides, Await, Waits
<1>3. Stays(ses', ses, "decide")
    BY <1>1, <1>2, SessionFields DEF Taking
<1>4. Head(ses.todo).do = "decide"
    BY <1>1 DEF Taking
<1> QED
    BY <1>3, <1>4, PlanStays

LEMMA DrainsNever == ASSUME ShellInv, Plan(ses) PROVE ~Drains
<1>1. ASSUME Drains PROVE FALSE
    <2>1. Taking("drain")
        BY <1>1, TakesUp DEF Drains
    <2> QED
        BY <2>1 DEF Taking, Elem
<1> QED
    BY <1>1

LEMMA EndsPlans == ASSUME ShellInv, Plan(ses), Finishes \/ WriteFails PROVE Follow(ses', ses)
<1>1. CASE Finishes
    <2>1. SessionFits(kind, ses) /\ ses.todo = <<>> /\ ses.wait = None
        BY <1>1 DEF ShellInv, Finishes
    <2>2. PICK x : x = TRUE
        OBVIOUS
    <2>3. ses' = [ses EXCEPT !.begun = x, !.task = NotAsked]
        BY <1>1, <2>2 DEF Finishes
    <2>4. PICK a, b, c, d, e, f, g, h :
            ses = [mode |-> a, vsys |-> b, todo |-> c, wait |-> d, task |-> e, begun |-> f, up |-> g, wide |-> h]
        BY <2>1 DEF SessionFits
    <2>5. ses' = [mode |-> a, vsys |-> b, todo |-> c, wait |-> d, task |-> NotAsked, begun |-> x, up |-> g, wide |-> h]
        BY <2>3, <2>4
    <2>6. ses'.mode = a /\ ses'.vsys = b /\ ses'.todo = c /\ ses'.wait = d
        BY <2>5
    <2>7. ses.mode = a /\ ses.vsys = b /\ ses.todo = c /\ ses.wait = d
        BY <2>4
    <2>8. Quits(ses', ses)
        BY <2>1, <2>6, <2>7 DEF Quits
    <2> QED
        BY <2>8, QuitsFollows
<1>2. CASE WriteFails
    <2>1. SessionFits(kind, ses) /\ ses' = Failed(ses)
        BY <1>2 DEF ShellInv, WriteFails
    <2>2. Quits(ses', ses)
        BY <2>1, SessionFields
    <2> QED
        BY <2>2, QuitsFollows
<1> QED
    BY <1>1, <1>2

-----------------------------------------------------------------------------
(* What a task, and the start of a session, has to do.                     *)

\* To decide the mode and the vsys, to switch the one, the other, and to run the command.
LEMMA TaskScript ==
    ASSUME NEW a, NEW b, NEW c, NEW d,
           a.do = "decide", b.do = "vsys", c.do = "mode", d.do = "own", Elem(b)
    PROVE  /\ Script(<<a, b, c, d>>) /\ <<a, b, c, d>> # <<>> /\ Head(<<a, b, c, d>>) = a
           /\ Len(<<a, b, c, d>>) = 4
           /\ <<a, b, c, d>>[4] = d /\ <<a, b, c, d>>[3] = c /\ <<a, b, c, d>>[2] = b
<1>1. /\ <<a, b, c, d>> \in Seq({a, b, c, d}) /\ Len(<<a, b, c, d>>) = 4
      /\ <<a, b, c, d>>[1] = a /\ <<a, b, c, d>>[2] = b /\ <<a, b, c, d>>[3] = c /\ <<a, b, c, d>>[4] = d
    OBVIOUS
<1>2. PICK r : /\ r = <<a, b, c, d>> /\ r \in Seq({a, b, c, d}) /\ Len(r) = 4
               /\ r[1] = a /\ r[2] = b /\ r[3] = c /\ r[4] = d
    BY <1>1
<1>3. IsList(r) /\ DOMAIN r = 1..4 /\ r # <<>>
    <2>1. IsList(r)
        BY <1>2 DEF IsList
    <2> QED
        BY <1>2, <2>1, ListFacts
<1>4. Elem(a) /\ Elem(c) /\ Elem(d)
    BY DEF Elem
<1>5. ~Entering(a) /\ ~Entering(b) /\ ~Entering(c) /\ ~Entering(d)
    BY DEF Entering
<1>6. Follows(a, b) /\ Follows(b, c) /\ Follows(c, d)
    BY <1>5 DEF Follows
<1>7. \A i \in 1..4 : i = 1 \/ i = 2 \/ i = 3 \/ i = 4
    OBVIOUS
<1>8. \A i \in DOMAIN r : Elem(r[i])
    BY <1>2, <1>3, <1>4, <1>7
<1>9. \A i \in 1..Len(r) - 1 : Follows(r[i], r[i + 1])
    <2>1. Follows(r[1], r[1 + 1]) /\ Follows(r[2], r[2 + 1]) /\ Follows(r[3], r[3 + 1])
        BY <1>2, <1>6
    <2>2. \A i \in 1..Len(r) - 1 : i = 1 \/ i = 2 \/ i = 3
        BY <1>2
    <2> QED
        BY <2>1, <2>2
<1>10. Script(r)
    BY <1>2, <1>3, <1>5, <1>8, <1>9 DEF Script, Chain
<1>11. Head(r) = a
    BY <1>2, <1>3, ListTail
<1> QED
    BY <1>2, <1>3, <1>10, <1>11

LEMMA TakesTaskPlans == ASSUME Steady, ShellInv, Plan(ses), TakesTask PROVE Follow(ses', ses)
<1>1. SessionFits(kind, ses) /\ kind \in Kinds /\ ses.wait = None
    BY DEF ShellInv, TakesTask, SessionFits
<1>2. PICK m, v, c :
        v \in Vsyses /\ ses' = [ses EXCEPT !.task = [mode |-> m, vsys |-> v],
                           !.todo = <<Step("decide", ""), Step("vsys", v), Step("mode", m), Step("own", c)>>]
    BY Zenon DEF TakesTask
<1>3. PICK x, y, z, w : x = Step("decide", "") /\ y = Step("vsys", v) /\ z = Step("mode", m) /\ w = Step("own", c)
    OBVIOUS
<1>4. x.do = "decide" /\ y.do = "vsys" /\ y.is = v /\ z.do = "mode" /\ z.is = m /\ w.do = "own"
    BY <1>3, StepIs
<1>5. Elem(y)
    <2>1. v \notin {"", Own} => v = "v1" /\ Sited
        <3>1. ~Sited => plugin.vsys = "none"
            BY <1>1, RowOrderly DEF Simple
        <3> QED
            BY <1>2, <3>1 DEF Vsyses
    <2>2. Nowhere(y) \/ y.is = Own \/ (Sited /\ y.is = "v1")
        BY <1>4, <2>1, Zenon DEF Nowhere
    <2> QED
        BY <1>4, <2>2 DEF Elem
<1>6. PICK t : t = [mode |-> m, vsys |-> v]
    OBVIOUS
<1>7. t.mode = m /\ t.vsys = v
    BY <1>6
<1>8. PICK q : q = <<x, y, z, w>>
    OBVIOUS
<1>9. Script(q) /\ q # <<>> /\ Head(q) = x /\ Len(q) = 4 /\ q[4] = w /\ q[3] = z /\ q[2] = y
    <2>1. /\ Script(<<x, y, z, w>>) /\ <<x, y, z, w>> # <<>> /\ Head(<<x, y, z, w>>) = x
          /\ Len(<<x, y, z, w>>) = 4
          /\ <<x, y, z, w>>[4] = w /\ <<x, y, z, w>>[3] = z /\ <<x, y, z, w>>[2] = y
        BY <1>4, <1>5, TaskScript
    <2> QED
        BY <1>8, <2>1
<1>10. /\ ses'.todo = q /\ ses'.wait = None /\ ses'.task = t /\ ses'.mode = ses.mode /\ ses'.vsys = ses.vsys
    <2>1. ses' = [ses EXCEPT !.task = t, !.todo = q]
        BY <1>2, <1>3, <1>6, <1>8
    <2>2. GivenIs(ses', ses, t, q)
        BY <1>1, <2>1, GivenFields DEF Given
    <2> QED
        BY <1>1, <2>2 DEF GivenIs
<1>11. Aim(t, ses.mode, ses.vsys, q)
    <2>1. Switching(z) /\ z.is = t.mode /\ Entrusting(y) /\ y.is = t.vsys
        BY <1>4, <1>7 DEF Switching, Entrusting
    <2>a. PICK n : n = Len(q) /\ n = 4
        BY <1>9
    <2>2. q[Len(q)] = w /\ q[Len(q) - 1] = z /\ q[Len(q) - 2] = y
        <3>1. n - 1 = 3 /\ n - 2 = 2
            BY <2>a
        <3> QED
            BY <1>9, <2>a, <3>1
    <2>3. ~(Len(q) = 1) /\ ~(Len(q) \in {1, 2})
        BY <2>a
    <2> QED
        BY <1>4, <2>1, <2>2, <2>3 DEF Aim
<1>12. ~Entering(x)
    BY <1>4 DEF Entering
<1>13. None # "moving"
    BY DEF None
<1>14. Plan(ses')
    BY <1>1, <1>9, <1>10, <1>11, <1>12, <1>13 DEF Plan
<1>15. Planless(ses'.todo)
    BY <1>4, <1>9, <1>10 DEF Planless, Deciding
<1> QED
    BY <1>10, <1>14, <1>15 DEF Follow

\* What sets up the terminal: a list of steps that can be put before others.
Preface(p) ==
    /\ Script(p)
    /\ p # <<>> => /\ Head(p).do \in {"decide", "line"} /\ ~Entering(Head(p))
                   /\ p[Len(p)].do = "line" /\ Len(p) # 0
LEMMA LinesScript ==
    ASSUME NEW cs, Quiets(cs)
    PROVE  Preface(Lines(cs)) /\ Len(Lines(cs)) = Len(cs) /\ (Lines(cs) # <<>> => Head(Lines(cs)).do = "line")
<1>1. PICK n \in Nat : n = Len(cs) /\ DOMAIN cs = 1..n
    BY ListFacts DEF Quiets
<1>2. PICK r : r = Lines(cs)
    OBVIOUS
<1>3. r = [i \in 1..n |-> Step("line", cs[i])]
    BY <1>1, <1>2 DEF Lines
<1>4. r \in Seq({Step("line", cs[i]) : i \in 1..n})
    BY <1>3
<1>5. IsList(r) /\ DOMAIN r = 1..n /\ Len(r) = n
    <2>1. IsList(r)
        BY <1>4 DEF IsList
    <2>2. DOMAIN r = 1..n
        BY <1>3
    <2> QED
        BY <1>3, <2>1, <2>2
<1>6. ASSUME NEW i \in 1..n PROVE r[i].do = "line" /\ ~Entering(r[i]) /\ Elem(r[i])
    <2>1. r[i] = Step("line", cs[i])
        BY <1>3
    <2>2. r[i].do = "line" /\ r[i].is \in Quiet
        BY <1>1, <2>1, StepIs DEF Quiets
    <2> QED
        BY <2>2 DEF Entering, Elem
<1>7. ASSUME NEW i \in 1..n - 1 PROVE Follows(r[i], r[i + 1])
    <2>1. i \in 1..n /\ i + 1 \in 1..n
        OBVIOUS
    <2> QED
        BY <1>6, <2>1 DEF Follows
<1>8. Script(r)
    <2>1. Len(r) # 0 => Len(r) \in 1..n
        BY <1>5
    <2> QED
        BY <1>5, <1>6, <1>7, <2>1 DEF Script, Chain
<1>9. r # <<>> => Head(r) = r[1] /\ 1 \in 1..n /\ n \in 1..n /\ Len(r) # 0
    <2>1. r # <<>> => n # 0
        BY <1>5, ListFacts
    <2> QED
        BY <1>5, <2>1, ListTail
<1>10. Preface(r) /\ (r # <<>> => Head(r).do = "line")
    BY <1>5, <1>6, <1>8, <1>9 DEF Preface
<1> QED
    BY <1>1, <1>2, <1>5, <1>10

Ahead(q) == q # <<>> => ~Entering(Head(q)) /\ Head(q).do # "believe"
LEMMA PrefaceJoins ==
    ASSUME NEW p, NEW q, Preface(p), Script(q), Ahead(q)
    PROVE  /\ Script(p \o q) /\ Len(p \o q) = Len(p) + Len(q)
           /\ \A i \in 1..Len(q) : (p \o q)[Len(p) + i] = q[i]
           /\ p = <<>> => p \o q = q
           /\ p # <<>> => p \o q # <<>> /\ Head(p \o q) = Head(p)
<1>1. CASE p = <<>>
    <2>1. IsList(q) /\ Len(q) \in Nat /\ Len(<<>>) = 0 /\ IsList(<<>>)
        BY ListFacts, ListEmpty DEF Script, Chain
    <2>2. p \o q = q /\ Len(p) = 0
        BY <1>1, <2>1, ListConcat
    <2>3. \A i \in 1..Len(q) : 0 + i = i
        OBVIOUS
    <2>4. 0 + Len(q) = Len(q)
        BY <2>1
    <2> QED
        BY <1>1, <2>2, <2>3, <2>4
<1>2. CASE p # <<>>
    <2>1. Chain(p) /\ Len(p) # 0 /\ p[Len(p)].do = "line" /\ ~Entering(p[Len(p)])
        BY <1>2 DEF Preface, Script
    <2>2. q # <<>> => Follows(p[Len(p)], Head(q))
        BY <2>1 DEF Ahead, Follows
    <2>3. /\ Script(p \o q) /\ Len(p \o q) = Len(p) + Len(q) /\ Head(p \o q) = p[1]
          /\ \A i \in 1..Len(q) : (p \o q)[Len(p) + i] = q[i]
          /\ p \o q # <<>>
        BY <2>1, <2>2, ScriptJoin
    <2>4. Head(p) = p[1]
        BY <1>2, <2>1, ListTail DEF Chain
    <2> QED
        BY <1>2, <2>3, <2>4
<1> QED
    BY <1>1, <1>2

\* To decide where the device is, to switch the vsys, to switch the mode.
LEMMA ThreeSteps ==
    ASSUME NEW a, NEW b, NEW c, a.do = "decide", b.do = "vsys", Elem(b), c.do = "mode"
    PROVE  /\ Chain(<<a, b, c>>) /\ Len(<<a, b, c>>) = 3 /\ <<a, b, c>>[1] = a /\ <<a, b, c>>[3] = c
           /\ ~Entering(a) /\ ~Entering(c)
<1>1. Elem(a) /\ Elem(c)
    BY DEF Elem
<1>2. ~Entering(a) /\ ~Entering(b) /\ ~Entering(c)
    BY DEF Entering
<1>3. Follows(a, b) /\ Follows(b, c)
    BY <1>2 DEF Follows
<1> QED
    BY <1>1, <1>2, <1>3, ChainsOfFew

LEMMA PagingPreface ==
    ASSUME Steady, kind \in Kinds
    PROVE  Preface(Paging(plugin)) /\ (Paging(plugin) # <<>> => Head(Paging(plugin)).do = "decide")
<1>1. Quiets(plugin.paging)
    BY RowOrderly DEF Orderly
<1>2. PICK a, b, c : a = Step("decide", "") /\ b = Step("vsys", Own) /\ c = Step("mode", plugin.pagingIn)
    OBVIOUS
<1>3. a.do = "decide" /\ b.do = "vsys" /\ b.is = Own /\ c.do = "mode"
    BY <1>2, StepIs
<1>4. PICK h : /\ h = <<a, b, c>> /\ Chain(h) /\ Len(h) = 3 /\ h[1] = a /\ h[3] = c
               /\ ~Entering(a) /\ ~Entering(c)
    <2>1. Elem(b)
        BY <1>3 DEF Elem
    <2> QED
        BY <1>3, <2>1, ThreeSteps
<1>5. CASE plugin.paging = <<>>
    <2>1. Paging(plugin) = <<>>
        BY <1>5 DEF Paging
    <2> QED
        BY <2>1, NoScript DEF Preface
<1>6. CASE plugin.paging # <<>>
    <2>1. PICK l : l = Lines(plugin.paging)
        OBVIOUS
    <2>2. Preface(l) /\ Len(l) = Len(plugin.paging) /\ (l # <<>> => Head(l).do = "line")
        BY <1>1, <2>1, LinesScript
    <2>3. l # <<>> /\ Len(l) # 0
        <3>1. Len(plugin.paging) # 0
            BY <1>1, <1>6, ListFacts DEF Quiets
        <3>2. l # <<>>
            BY <2>2, <3>1, ListEmpty
        <3> QED
            BY <2>2, <3>1, <3>2
    <2>4. PICK n \in Nat : n = Len(l)
        BY <2>2, ListFacts DEF Preface, Script, Chain
    <2>5. Follows(c, Head(l))
        BY <1>3, <1>4, <2>2, <2>3 DEF Follows, Preface
    <2>6. h[Len(h)] = c /\ Len(h) # 0 /\ Script(l)
        BY <1>4, <2>2 DEF Preface
    <2>7. l # <<>> => Follows(h[Len(h)], Head(l))
        BY <2>5, <2>6
    <2>8. l = <<>> => ~Entering(h[Len(h)])
        BY <1>4, <2>6
    <2>9. /\ Script(h \o l) /\ Len(h \o l) = Len(h) + Len(l) /\ Head(h \o l) = h[1]
          /\ \A i \in 1..Len(l) : (h \o l)[Len(h) + i] = l[i]
          /\ h \o l # <<>>
        <3>1. Chain(h) /\ Script(l) /\ Len(h) # 0
            BY <1>4, <2>6
        <3> QED
            BY <2>7, <2>8, <3>1, ScriptJoin
    <2>10. PICK p : p = h \o l
        OBVIOUS
    <2>11. p = Paging(plugin)
        BY <1>2, <1>4, <1>6, <2>1, <2>10 DEF Paging
    <2>12. p[Len(p)] = l[Len(l)] /\ Len(p) # 0
        <3>1. n # 0 /\ n \in 1..n /\ 3 + n # 0
            BY <2>3, <2>4
        <3> QED
            BY <1>4, <2>4, <2>9, <2>10, <3>1
    <2>13. Preface(p) /\ Head(p).do = "decide"
        BY <1>3, <1>4, <2>2, <2>3, <2>9, <2>10, <2>12 DEF Preface
    <2> QED
        BY <2>11, <2>13
<1> QED
    BY <1>5, <1>6

\* What precedes the commands that are still to do after a move.
LEMMA WidthPreface == Preface(<<Step("line", "terminal width 0")>>)
<1>1. PICK x : x = Step("line", "terminal width 0")
    OBVIOUS
<1>2. x = Step("line", "terminal width 0") /\ x.do = "line" /\ x.is = "terminal width 0"
    BY <1>1, StepIs
<1>3. ~Entering(x) /\ Elem(x)
    BY <1>2 DEF Entering, Elem, Quiet
<1>4. PICK p : p = <<x>> /\ Chain(p) /\ Len(p) = 1 /\ p[1] = x
    BY <1>3, ChainsOfFew
<1>5. Head(p) = x
    BY <1>4
<1>6. p[Len(p)] = x /\ Len(p) # 0
    BY <1>4
<1> QED
    BY <1>2, <1>3, <1>4, <1>5, <1>6 DEF Preface, Script

\* A session that begins decides the mode and sets up the terminal.
LEMMA BeginsPlanned == ASSUME Steady, ShellInit PROVE Plan(ses) /\ ses.wait = None /\ Planless(ses.todo)
<1>1. kind \in Kinds
    BY DEF ShellInit
<1>2. PICK x : x = Step("decide", "") /\ x.do = "decide"
    BY StepIs
<1>3. Elem(x) /\ ~Entering(x)
    BY <1>2 DEF Elem, Entering
<1>4. PICK p : p = <<x>> /\ Chain(p) /\ Len(p) = 1 /\ p[1] = x
    BY <1>3, ChainsOfFew
<1>5. PICK r : r = Paging(plugin) /\ Preface(r) /\ (r # <<>> => Head(r).do = "decide")
    BY <1>1, PagingPreface
<1>6. p[Len(p)] = x /\ Len(p) # 0 /\ Script(r)
    BY <1>4, <1>5 DEF Preface
<1>7. r # <<>> => Follows(p[Len(p)], Head(r))
    BY <1>2, <1>3, <1>5, <1>6 DEF Follows, Preface
<1>8. r = <<>> => ~Entering(p[Len(p)])
    BY <1>3, <1>6
<1>9. Script(p \o r) /\ Head(p \o r) = p[1] /\ p \o r # <<>>
    BY <1>4, <1>6, <1>7, <1>8, ScriptJoin
<1>10. PICK q : q = Beginning(plugin)
    OBVIOUS
<1>11. q = p \o r
    <2>1. ~plugin.drains
        <3>1. plugin.drains = FALSE
            BY <1>1, RowOrderly DEF Orderly
        <3> QED
            BY <3>1, Zenon
    <2>2. q = (<<>> \o p) \o r
        BY <1>2, <1>4, <1>5, <1>10, <2>1 DEF Beginning
    <2>3. <<>> \o p = p
        BY <1>4, ListConcat, ListEmpty DEF Chain
    <2> QED
        BY <2>2, <2>3
<1>12. PICK f, g, h : f = FALSE /\ g = TRUE /\ h = FALSE
    OBVIOUS
<1>13. ses = [mode |-> None, vsys |-> Own, todo |-> q, wait |-> None, task |-> NotAsked,
             begun |-> f, up |-> g, wide |-> h]
    BY <1>10, <1>12 DEF ShellInit
<1>14. ses.vsys = Own /\ ses.todo = q /\ ses.wait = None /\ ses.task = NotAsked
    BY <1>13
<1>15. None # "moving"
    BY DEF None
<1>16. Head(q) = x /\ q # <<>> /\ Script(q)
    BY <1>4, <1>9, <1>11
<1> QED
    BY <1>2, <1>3, <1>14, <1>15, <1>16 DEF Plan, Planless, Deciding

\* A session that waits for what it wrote.
LEMMA Awaits ==
    ASSUME ShellInv, Plan(ses), ses.wait # None
    PROVE  /\ SessionFits(kind, ses) /\ kind \in Kinds /\ ses.todo # <<>> /\ Head(ses.todo).do = ses.wait
           /\ Script(ses.todo) /\ Elem(Head(ses.todo)) /\ ses.wait \notin {"drain", "reread"}
           /\ Tail(ses.todo) # <<>> => Follows(Head(ses.todo), Head(Tail(ses.todo)))
<1>1. SessionFits(kind, ses) /\ kind \in Kinds /\ ses.todo # <<>>
    BY DEF ShellInv, SessionFits
<1>2. Script(ses.todo) /\ Head(ses.todo).do = ses.wait
    BY DEF Plan
<1>3. Elem(Head(ses.todo)) /\ (Tail(ses.todo) # <<>> => Follows(Head(ses.todo), Head(Tail(ses.todo))))
    BY <1>1, <1>2, ScriptTail
<1>4. ses.wait \notin {"drain", "reread"}
    BY <1>2, <1>3 DEF Elem
<1> QED
    BY <1>1, <1>2, <1>3, <1>4

\* The prompt that answers a line.
LEMMA HeardPlans ==
    ASSUME ShellInv, Plan(ses), ses.wait \in {"line", "own", "drain"}, ses' = Rest(ses)
    PROVE  /\ Plan(ses') /\ Drops(ses', ses, ses.mode, ses.vsys)
           /\ ses.wait = "own" => Planless(ses'.todo)
<1>1. ses.wait # None
    BY DEF None
<1>2. /\ SessionFits(kind, ses) /\ ses.todo # <<>> /\ Head(ses.todo).do = ses.wait
      /\ Tail(ses.todo) # <<>> => Follows(Head(ses.todo), Head(Tail(ses.todo)))
    BY <1>1, Awaits
<1>3. Drops(ses', ses, ses.mode, ses.vsys)
    BY <1>2, SessionFields
<1>4. Settled(Head(ses.todo), ses, ses.mode, ses.vsys)
    BY <1>2 DEF Settled, Switching, Entrusting, Plan
<1>5. Plan(ses')
    BY <1>2, <1>3, <1>4, PlanDrops
<1>6. ses.wait = "own" => Tail(ses.todo) = <<>>
    BY <1>2 DEF Follows
<1> QED
    BY <1>3, <1>5, <1>6 DEF Drops, Planless

\* The prompt that shows the mode and the vsys.
LEMMA DecidedPlans ==
    ASSUME Steady, ShellInv, Plan(ses), ses.wait = "decide", NEW p, ses' = Decided(ses, p)
    PROVE  /\ Plan(ses') /\ ses'.wait = None /\ ses'.mode = ModeOf(p)
           /\ Sure(ses', ses'.todo) = IF Sited THEN p.v ELSE Own
<1>1. ses.wait # None
    BY DEF None
<1>2. /\ SessionFits(kind, ses) /\ kind \in Kinds /\ ses.todo # <<>> /\ Head(ses.todo).do = "decide"
      /\ Tail(ses.todo) # <<>> => Follows(Head(ses.todo), Head(Tail(ses.todo)))
    BY <1>1, Awaits
<1>3. PICK w : w = IF plugin.vsys \in {"site", "vdom"} THEN p.v ELSE Own
    OBVIOUS
<1>4. w = IF Sited THEN p.v ELSE Own
    <2>1. CASE Sited
        BY <1>3, <2>1 DEF Sited
    <2>2. CASE ~Sited
        <3>1. plugin.vsys = "none"
            BY <1>2, <2>2, RowOrderly DEF Simple
        <3> QED
            BY <1>3, <2>2, <3>1
    <2> QED
        BY <2>1, <2>2
<1>5. ses' = Noted(Rest(ses), ModeOf(p), w)
    BY <1>3 DEF Decided, Noted
<1>6. Drops(ses', ses, ModeOf(p), w)
    BY <1>2, <1>5, NotedFields
<1>7. Settled(Head(ses.todo), ses, ModeOf(p), w)
    BY <1>2, <1>4 DEF Settled, Switching, Entrusting
<1>8. Plan(ses')
    BY <1>2, <1>6, <1>7, PlanDrops
<1>9. Sure(ses', ses'.todo) = w
    <2>1. Tail(ses.todo) # <<>> => Head(Tail(ses.todo)).do # "believe"
        BY <1>2 DEF Follows, Entering
    <2> QED
        BY <1>6, <2>1 DEF Sure, Drops
<1> QED
    BY <1>4, <1>6, <1>8, <1>9 DEF Drops

\* What is done after a move, of which c says that it was enable, to the mode m.
Setup(c, m) == IF c /\ plugin.policy = "login-only" THEN Paging(plugin)
               ELSE IF m = CONFIG /\ plugin.width /\ ~ses.wide
               THEN <<Step("line", "terminal width 0")>> ELSE <<>>
\* The prompt of the mode that was moved to; what sets up the terminal comes first.
LEMMA MovedPlans ==
    ASSUME Steady, ShellInv, Plan(ses), ses.wait = "moving", NEW m, NEW c,
           NEW w, Moved(ses', ses, m, Setup(c, m), w)
    PROVE  /\ Plan(ses') /\ ses'.wait = None /\ ses'.mode = m
           /\ Sure(ses', ses'.todo) = ses.vsys
<1>1. ses.wait # None
    BY DEF None
<1>2. /\ SessionFits(kind, ses) /\ kind \in Kinds /\ ses.todo # <<>> /\ Head(ses.todo).do = "moving"
      /\ Script(ses.todo)
    BY <1>1, Awaits
<1>3. PICK more : more = Setup(c, m)
    OBVIOUS
<1>4. Preface(more)
    <2>1. Preface(<<>>)
        BY NoScript DEF Preface
    <2> QED
        BY <1>2, <1>3, <2>1, PagingPreface, WidthPreface DEF Setup
<1>5. Sited => more = <<>>
    <2>1. Sited => plugin.policy = "any" /\ plugin.width = FALSE
        BY <1>2, RowOrderly DEF Parted
    <2>2. Sited => ~(plugin.policy = "login-only") /\ ~plugin.width
        BY <2>1, Zenon
    <2> QED
        BY <1>3, <2>2 DEF Setup
<1>6. Ahead(ses.todo)
    BY <1>2 DEF Ahead, Entering
<1>7. PICK q : q = more \o ses.todo
    OBVIOUS
<1>8. /\ Script(q) /\ Len(q) = Len(more) + Len(ses.todo)
      /\ \A i \in 1..Len(ses.todo) : q[Len(more) + i] = ses.todo[i]
      /\ more = <<>> => q = ses.todo
      /\ more # <<>> => q # <<>> /\ Head(q) = Head(more)
    <2>1. Script(ses.todo)
        BY <1>2
    <2>2. /\ Script(more \o ses.todo) /\ Len(more \o ses.todo) = Len(more) + Len(ses.todo)
          /\ \A i \in 1..Len(ses.todo) : (more \o ses.todo)[Len(more) + i] = ses.todo[i]
          /\ more = <<>> => more \o ses.todo = ses.todo
          /\ more # <<>> => more \o ses.todo # <<>> /\ Head(more \o ses.todo) = Head(more)
        BY <1>4, <1>6, <2>1, PrefaceJoins
    <2> QED
        BY <1>7, <2>2
<1>9. ~Entering(Head(q)) /\ Head(q).do # "believe" /\ q # <<>>
    BY <1>2, <1>4, <1>6, <1>8 DEF Preface, Ahead
<1>10. Puts(ses', ses, q, m)
    <2>1. PICK a, b, t, d, e, f, g, h :
            ses = [mode |-> a, vsys |-> b, todo |-> t, wait |-> d, task |-> e, begun |-> f, up |-> g, wide |-> h]
        BY <1>2 DEF SessionFits
    <2>2. PICK y : y = (h \/ w)
        OBVIOUS
    <2>3. ses' = [mode |-> m, vsys |-> b, todo |-> q, wait |-> None, task |-> e, begun |-> f, up |-> g, wide |-> y]
        BY <1>7, <1>3, <2>1, <2>2 DEF Moved
    <2>4. ses'.mode = m /\ ses'.vsys = b /\ ses'.todo = q /\ ses'.wait = None /\ ses'.task = e
        BY <2>3
    <2>5. ses.vsys = b /\ ses.task = e
        BY <2>1
    <2> QED
        BY <2>4, <2>5 DEF Puts
<1>11. PICK n \in Nat : n = Len(ses.todo) /\ n # 0
    BY <1>2, ListFacts DEF Script, Chain
<1>12. PICK k \in Nat : k = Len(more)
    BY <1>4, ListFacts DEF Preface, Script, Chain
<1>13. Grown(q, ses.todo, k)
    <2>1. \A i \in 2..n : q[i + k] = ses.todo[i]
        <3>1. ASSUME NEW i \in 2..n PROVE q[i + k] = ses.todo[i]
            <4>1. i \in 1..n /\ k + i = i + k
                OBVIOUS
            <4> QED
                BY <1>8, <1>11, <1>12, <4>1
        <3> QED
            BY <3>1
    <2>2. q[k + 1] = ses.todo[1]
        <3>1. 1 \in 1..n
            BY <1>11
        <3> QED
            BY <1>8, <1>11, <1>12, <3>1
    <2>3. Near(q[k + 1], ses.todo[1])
        BY <2>2 DEF Near
    <2>4. Len(q) = n + k
        BY <1>8, <1>11, <1>12
    <2> QED
        BY <1>11, <2>1, <2>3, <2>4 DEF Grown
<1>14. k = 0 \/ ~Sited
    BY <1>5, <1>12, ListEmpty
<1>15. Plan(ses')
    <2>1. Head(ses.todo).do # "own"
        BY <1>2
    <2> QED
        BY <1>2, <1>8, <1>9, <1>10, <1>13, <1>14, <2>1, PlanPuts
<1> QED
    BY <1>9, <1>10, <1>15 DEF Puts, Sure

-----------------------------------------------------------------------------
(* Where the device is, as the session believes: s is the session, d the   *)
(* device, l the lines it has to execute and v what it said.               *)

Facing(d, v) == \A i \in DOMAIN v : v[i].t = "prompt" => v[i] = Shown(d)
Synced(s, d) == d.mode = s.mode /\ d.vsys = s.vsys
Due(s, q, d) == d.mode = s.mode /\ d.vsys = Sure(s, q)
Becoming(s) == Move(s.mode, Head(s.todo).is).becomes
Obliged(d, l) == \A i \in DOMAIN l : Meets(l[i].for, d.mode, d.vsys)
\* The line that is waited for was executed.
Brought(s, d, v) ==
    /\ v[Len(v)].t = "prompt" => v[Len(v)] = Shown(d)
    /\ s.wait = "line" => Due(s, Tail(s.todo), d)
    /\ s.wait = "moving" => (d.asked => d.mode = s.mode) /\ Carried(d, s.vsys, Becoming(s))
Placed(s, d, l, v) ==
    /\ Usual(d) /\ Obliged(d, l)
    /\ s.wait \notin Speaks => Facing(d, v)
    /\ s.wait = None /\ ~Planless(s.todo) => Due(s, s.todo, d)
    /\ s.wait \in Speaks => IF Len(l) # 0 THEN Synced(s, d) ELSE Brought(s, d, v)
InPlace ==
    /\ Plan(ses)
    /\ ~ahead => /\ Meets(ran.for, ran.at.mode, ran.at.vsys)
                 /\ dev.mode # Gone => Placed(ses, dev, stdin \o sent, Said(ses, buf, arriving))

LEMMA PlanNext == ASSUME UNCHANGED kind, Plan(ses') PROVE Plan(ses)'
<1>1. PICK s : s = ses'
    OBVIOUS
<1>2. Script(s.todo) => Script(ses.todo)'
    BY <1>1 DEF Script, Chain, Elem, Sited, plugin
<1>3. Aim(s.task, s.mode, s.vsys, s.todo) => Aim(ses.task, ses.mode, ses.vsys, ses.todo)'
    BY <1>1 DEF Aim, ModeMet, VsysMet, Sited, plugin
<1>4. Sited' = Sited
    BY DEF Sited, plugin
<1> QED
    BY <1>1, <1>2, <1>3, <1>4 DEF Plan

LEMMA PlacedNext ==
    ASSUME UNCHANGED <<kind, ahead>>, Plan(ses'),
           ~ahead => /\ Meets(ran'.for, ran'.at.mode, ran'.at.vsys)
                     /\ dev'.mode # Gone => Placed(ses', dev', stdin' \o sent', Said(ses', buf', arriving'))
    PROVE  InPlace'
<1>1. PICK s, b, d, l, v, r : /\ s = ses' /\ b = buf' /\ d = dev' /\ l = stdin' \o sent' /\ r = ran'
                              /\ v = Said(ses', buf', arriving')
    OBVIOUS
<1>2. Plan(ses)'
    BY PlanNext
<1>3. Meets(r.for, r.at.mode, r.at.vsys) => Meets(ran.for, ran.at.mode, ran.at.vsys)'
    BY <1>1 DEF Meets, ModeMet, VsysMet, plugin
<1>4. Usual(d) => Usual(dev)'
    BY <1>1 DEF Usual, Sited, plugin
<1>5. Obliged(d, l) => Obliged(dev, stdin \o sent)'
    BY <1>1 DEF Obliged, Meets, ModeMet, VsysMet, plugin
<1>6. Facing(d, v) => Facing(dev, Said(ses, buf, arriving))'
    BY <1>1 DEF Facing, Shown, device
<1>7. Brought(s, d, v) => Brought(ses, dev, Said(ses, buf, arriving))'
    BY <1>1 DEF Brought, Shown, Due, Sure, Carried, Becoming, Move, plugin, device
<1>8. Placed(s, d, l, v) => Placed(ses, dev, stdin \o sent, Said(ses, buf, arriving))'
    BY <1>1, <1>4, <1>5, <1>6, <1>7 DEF Placed, Due, Sure, Synced
<1> QED
    BY <1>1, <1>2, <1>3, <1>8 DEF InPlace

LEMMA NoneMet == \A m, v : Meets(NotAsked, m, v)
<1>1. Unsaid(None)
    BY Zenon DEF Unsaid
<1>2. \A m, v : ModeMet(None, m) /\ VsysMet(None, v)
    BY <1>1 DEF ModeMet, VsysMet
<1>3. NotAsked.mode = None /\ NotAsked.vsys = None
    BY DEF NotAsked
<1> QED
    BY <1>2, <1>3 DEF Meets

LEMMA ObligedMore ==
    ASSUME NEW d, NEW l, NEW m, NEW x, IsList(l), IsList(m), Extended(m, l, x), Obliged(d, l),
           Meets(x.for, d.mode, d.vsys)
    PROVE  Obliged(d, m) /\ Len(m) # 0
<1>1. PICK n \in Nat : n = Len(l) /\ DOMAIN l = 1..n
    BY ListFacts
<1>2. DOMAIN m = 1..n + 1 /\ m[n + 1] = x /\ Len(m) = n + 1 /\ \A i \in 1..n : m[i] = l[i]
    BY <1>1, ListFacts DEF Extended
<1>3. ASSUME NEW i \in 1..n + 1 PROVE Meets(m[i].for, d.mode, d.vsys)
    <2>1. CASE i = n + 1
        BY <1>2, <2>1
    <2>2. CASE i # n + 1
        <3>1. i \in 1..n
            BY <2>2
        <3> QED
            BY <1>1, <1>2, <3>1 DEF Obliged
    <2> QED
        BY <2>1, <2>2
<1> QED
    BY <1>2, <1>3 DEF Obliged

-----------------------------------------------------------------------------
(* The steps of a session leave it in place.                               *)

\* A step of the session that neither writes nor reads.
LEMMA FollowsPlaced ==
    ASSUME InPlace, Follow(ses', ses), ses.wait = None, sent' = sent,
           UNCHANGED <<kind, ahead, dev, stdin, arriving, ran>>
    PROVE  InPlace'
<1>1. Plan(ses') /\ ses'.wait = None
    BY DEF Follow
<1>2. None \notin Speaks
    BY DEF None, Speaks
<1>3. ASSUME ~ahead, dev.mode # Gone
      PROVE  Placed(ses', dev, stdin \o sent, Said(ses', buf', arriving))
    <2>1. PICK l, v : l = stdin \o sent /\ v = arriving
        OBVIOUS
    <2>2. Said(ses', buf', arriving) = v /\ Said(ses, buf, arriving) = v
        BY <1>1, <2>1 DEF Said
    <2>3. Placed(ses, dev, l, v)
        BY <1>3, <2>1, <2>2 DEF InPlace
    <2>4. ~Planless(ses'.todo) => Due(ses', ses'.todo, dev)
        BY <2>3 DEF Follow, Placed, Due
    <2>5. Placed(ses', dev, l, v)
        BY <1>1, <1>2, <2>3, <2>4 DEF Placed
    <2> QED
        BY <2>1, <2>2, <2>5
<1>4. ~ahead => Meets(ran'.for, ran'.at.mode, ran'.at.vsys)
    BY DEF InPlace
<1> QED
    BY <1>1, <1>3, <1>4, PlacedNext

\* A session at rest writes a line.
LEMMA WrittenPlaced ==
    ASSUME ShellInv, InPlace, ses.wait = None, UNCHANGED <<kind, ahead, dev, stdin, arriving, ran>>,
           NEW w, w # None, Stays(ses', ses, w), Plan(ses'), buf'.got = <<>>,
           NEW x, sent' = Append(sent, x), Due(ses, ses.todo, dev) => Meets(x.for, dev.mode, dev.vsys),
           x.for = NotAsked \/ ~Planless(ses.todo),
           w \in Speaks => ~Planless(ses.todo) /\ Sure(ses, ses.todo) = ses.vsys
    PROVE  InPlace'
<1>1. PICK l, m, v : l = stdin \o sent /\ m = stdin \o Append(sent, x) /\ v = arriving
    OBVIOUS
<1>2. IsList(stdin) /\ IsList(sent) /\ IsList(v)
    BY <1>1 DEF ShellInv, Conversation
<1>3. IsList(l) /\ IsList(m) /\ Extended(m, l, x)
    BY <1>1, <1>2, LineAdded
<1>4. ses'.wait = w /\ ses'.todo = ses.todo /\ ses'.mode = ses.mode /\ ses'.vsys = ses.vsys
    BY DEF Stays
<1>5. Said(ses', buf', arriving) = v
    <2>1. <<>> \o arriving = arriving
        BY <1>1, <1>2, ListEmpty, ListConcat
    <2> QED
        BY <1>1, <1>4, <2>1 DEF Said
<1>6. ASSUME ~ahead, dev.mode # Gone PROVE Placed(ses', dev, m, v)
    <2>1. Placed(ses, dev, l, v)
        <3>1. Said(ses, buf, arriving) = v
            BY <1>1 DEF Said
        <3> QED
            BY <1>1, <1>6, <3>1 DEF InPlace
    <2>2. ~Planless(ses.todo) => Due(ses, ses.todo, dev)
        BY <2>1 DEF Placed
    <2>3. Meets(x.for, dev.mode, dev.vsys)
        BY <2>2, NoneMet
    <2>4. Obliged(dev, m) /\ Len(m) # 0
        BY <1>3, <2>1, <2>3, ObligedMore DEF Placed
    <2>5. w \in Speaks => Synced(ses', dev)
        BY <1>4, <2>2 DEF Due, Synced
    <2>6. Facing(dev, v)
        <3>1. None \notin Speaks
            BY DEF None, Speaks
        <3> QED
            BY <2>1, <3>1 DEF Placed
    <2> QED
        BY <1>4, <2>1, <2>4, <2>5, <2>6 DEF Placed
<1>7. ~ahead => Meets(ran'.for, ran'.at.mode, ran'.at.vsys)
    BY DEF InPlace
<1>8. stdin' \o sent' = m
    BY <1>1
<1> QED
    BY <1>1, <1>5, <1>6, <1>7, <1>8, PlacedNext

LEMMA DecidesPlaced == ASSUME Steady, ShellInv, InPlace, Decides PROVE InPlace'
<1>1. Plan(ses') /\ Stays(ses', ses, "decide")
    BY DecidesPlans DEF InPlace
<1>2. Ready("decide") /\ UNCHANGED <<kind, ahead, dev, stdin, arriving, ran>> /\ Await("decide", "")
    BY DEF Decides, AgentOnly
<1>3. ses.wait = None /\ ses.todo # <<>>
    BY <1>2 DEF Ready
<1>4. plugin.leaves = "never"
    BY DEF Steady, ShellInv, plugin
<1>5. Write(<<"">>)
    BY <1>4 DEF Decides
<1>6. PICK x : x = [is |-> "", for |-> NotAsked]
    OBVIOUS
<1>7. IsList(sent)
    BY DEF ShellInv, Conversation
<1>8. sent' = Append(sent, x) /\ x.for = NotAsked
    BY <1>5, <1>6, <1>7, LineOfOne DEF Write
<1>9. "decide" # None /\ "decide" \notin Speaks
    BY DEF None, Speaks
<1>10. buf'.got = <<>>
    BY <1>2, <1>3, <1>9, Awaited
<1> QED
    BY <1>1, <1>2, <1>3, <1>8, <1>9, <1>10, NoneMet, WrittenPlaced

LEMMA WritesLinePlaced == ASSUME Steady, ShellInv, InPlace, WritesLine PROVE InPlace'
<1>1. Plan(ses') /\ Stays(ses', ses, Now.do) /\ Now.do \in {"line", "own"} /\ Taking(Now.do)
    BY WritesLinePlans DEF InPlace
<1>2. UNCHANGED <<kind, ahead, dev, stdin, arriving, ran>> /\ Await(Now.do, Now.is)
    BY DEF WritesLine, AgentOnly
<1>3. ses.wait = None /\ ses.todo # <<>> /\ Now = Head(ses.todo)
    BY <1>1 DEF Taking
<1>4. PICK x : x = [is |-> Now.is, for |-> IF Now.do = "own" THEN ses.task ELSE NotAsked]
    OBVIOUS
<1>5. sent' = Append(sent, x) /\ x.for = IF Now.do = "own" THEN ses.task ELSE NotAsked
    BY <1>4 DEF WritesLine
<1>6. Now.do # None /\ Now.do \in Speaks
    BY <1>1 DEF None, Speaks
<1>7. buf'.got = <<>>
    BY <1>2, <1>3, <1>6, Awaited
<1>8. ~Planless(ses.todo) /\ Sure(ses, ses.todo) = ses.vsys
    BY <1>1, <1>3 DEF Planless, Deciding, Sure
<1>9. ASSUME Due(ses, ses.todo, dev) PROVE Meets(x.for, dev.mode, dev.vsys)
    <2>1. CASE x.for = NotAsked
        BY <2>1, NoneMet
    <2>2. CASE x.for # NotAsked
        <3>1. Now.do = "own" /\ x.for = ses.task /\ ses.task # NotAsked
            BY <1>5, <2>2
        <3>2. Tail(ses.todo) = <<>>
            BY <1>1, <3>1 DEF Taking, Follows
        <3>3. Len(ses.todo) = 1
            <4>1. IsList(ses.todo)
                BY <1>1 DEF Taking
            <4>2. PICK n \in Nat : n = Len(ses.todo)
                BY <4>1, ListFacts
            <4>3. Len(Tail(ses.todo)) = n - 1 /\ Len(Tail(ses.todo)) = 0
                BY <1>3, <3>2, <4>1, <4>2, ListTail, ListEmpty DEF Shorter
            <4> QED
                BY <4>2, <4>3
        <3>4. Aim(ses.task, ses.mode, ses.vsys, ses.todo)
            BY <1>1, <3>1 DEF Taking, Plan
        <3>5. ModeMet(ses.task.mode, ses.mode) /\ (Sited => VsysMet(ses.task.vsys, ses.vsys))
            BY <3>3, <3>4 DEF Aim
        <3>6. ~Sited => VsysMet(ses.task.vsys, ses.vsys)
            <4>1. ~Sited => plugin.vsys = "none"
                BY <1>1, RowOrderly DEF Taking, Simple
            <4> QED
                BY <4>1 DEF VsysMet
        <3> QED
            BY <1>8, <1>9, <3>1, <3>5, <3>6 DEF Meets, Due
    <2> QED
        BY <2>1, <2>2
<1> QED
    BY <1>1, <1>2, <1>3, <1>5, <1>6, <1>7, <1>8, <1>9, WrittenPlaced

LEMMA MovesPlaced == ASSUME Steady, ShellInv, InPlace, Moves PROVE InPlace'
<1>1. Ready("moving") /\ UNCHANGED <<kind, ahead, dev, stdin, arriving, ran>>
    BY DEF Moves, AgentOnly
<1>2. ses.wait = None /\ ses.todo # <<>>
    BY <1>1 DEF Ready
<1>3. Plan(ses)
    BY DEF InPlace
<1>4. CASE Follow(ses', ses) /\ sent' = sent
    BY <1>1, <1>2, <1>4, FollowsPlaced
<1>5. CASE Plan(ses') /\ Stays(ses', ses, "moving") /\ ses.mode # Now.is /\ Taking("moving")
    <2>1. PICK c : c = Move(ses.mode, Now.is).cmd
        OBVIOUS
    <2>2. Write(<<c>>) /\ Await("moving", c)
        BY <1>5, <2>1 DEF Moves
    <2>3. PICK x : x = [is |-> c, for |-> NotAsked]
        OBVIOUS
    <2>4. IsList(sent)
        BY DEF ShellInv, Conversation
    <2>5. sent' = Append(sent, x) /\ x.for = NotAsked
        BY <2>2, <2>3, <2>4, LineOfOne DEF Write
    <2>6. "moving" # None /\ "moving" \in Speaks
        BY DEF None, Speaks
    <2>7. buf'.got = <<>>
        BY <1>2, <2>2, <2>6, Awaited
    <2>8. ~Planless(ses.todo) /\ Sure(ses, ses.todo) = ses.vsys
        BY <1>2, <1>5 DEF Taking, Planless, Deciding, Sure
    <2> QED
        BY <1>1, <1>2, <1>5, <2>5, <2>6, <2>7, <2>8, NoneMet, WrittenPlaced
<1> QED
    BY <1>3, <1>4, <1>5, MovesPlans

LEMMA OtherPlaced ==
    ASSUME Steady, ShellInv, InPlace,
           SwitchesVsys \/ Believes \/ SwitchesMode \/ Finishes \/ WriteFails \/ TakesTask
    PROVE  InPlace'
<1>1. Plan(ses)
    BY DEF InPlace
<1>2. Follow(ses', ses)
    BY <1>1, SwitchesVsysPlans, BelievesPlans, SwitchesModePlans, EndsPlans, TakesTaskPlans
<1>3. UNCHANGED <<kind, ahead, dev, stdin, arriving, ran>> /\ sent' = sent
    BY DEF SwitchesVsys, Believes, SwitchesMode, Finishes, WriteFails, TakesTask, AgentOnly
<1>4. ses.wait = None
    <2>1. TakesTask => ses.wait = None
        BY DEF TakesTask, ShellInv, SessionFits
    <2> QED
        BY <2>1 DEF SwitchesVsys, Believes, SwitchesMode, Finishes, WriteFails, Ready
<1> QED
    BY <1>2, <1>3, <1>4, FollowsPlaced

-----------------------------------------------------------------------------
(* The steps of the device leave a session in place.                       *)

LEMMA FacingMore ==
    ASSUME NEW d, NEW v, NEW x, IsList(v), Facing(d, v), x.t = "prompt" => x = Shown(d)
    PROVE  Facing(d, Append(v, x))
<1>1. PICK w : w = Append(v, x) /\ IsList(w) /\ Extended(w, v, x)
    BY ListAppend
<1>2. \A i \in DOMAIN w : w[i] = x \/ (i \in DOMAIN v /\ w[i] = v[i])
    BY <1>1, LongerFacts
<1> QED
    BY <1>1, <1>2 DEF Facing

LEMMA ReceivesPlaced == ASSUME ShellInv, InPlace, DeviceReceives PROVE InPlace'
<1>1. IsList(stdin) /\ IsList(sent) /\ IsList(arriving) /\ BufferFits(buf)
    BY DEF ShellInv, Conversation
<1>2. sent # <<>> /\ dev.mode # Gone /\ UNCHANGED <<kind, ahead, dev, ses, buf, ran>>
    BY DEF DeviceReceives
<1>3. PICK x : x = Echo(Head(sent).is) /\ x.t # "prompt"
    BY TokenFacts
<1>4. PICK l, v : l = stdin \o sent /\ v = Said(ses, buf, arriving)
    OBVIOUS
<1>5. arriving' = arriving \o <<x>> /\ IsList(<<x>>)
    BY <1>1, <1>3, ListAppend, ListOne DEF DeviceReceives
<1>6. Said(ses', buf', arriving') = Append(v, x) /\ IsList(v)
    <2>1. Said(ses, buf, arriving \o <<x>>) = v \o <<x>> /\ IsList(v)
        <3>1. SaidGrown(ses, buf, arriving, <<x>>)
            BY <1>1, <1>5, SaidGrows
        <3> QED
            BY <1>4, <3>1 DEF SaidGrown
    <2> QED
        BY <1>2, <1>5, <2>1, ListAppend
<1>7. stdin' \o sent' = l /\ Len(l) # 0
    <2>1. stdin' \o sent' = l
        BY <1>1, <1>2, <1>4, LinesReceived DEF DeviceReceives
    <2>2. PICK a \in Nat, b \in Nat : a = Len(stdin) /\ b = Len(sent)
        BY <1>1, ListFacts
    <2>3. b # 0 /\ Len(l) = a + b
        BY <1>1, <1>2, <1>4, <2>2, ListFacts, ListConcat
    <2> QED
        BY <2>1, <2>2, <2>3
<1>8. ASSUME Placed(ses, dev, l, v) PROVE Placed(ses, dev, l, Append(v, x))
    <2>1. Facing(dev, v) => Facing(dev, Append(v, x))
        BY <1>3, <1>6, FacingMore
    <2> QED
        BY <1>7, <1>8, <2>1 DEF Placed
<1> QED
    BY <1>2, <1>4, <1>6, <1>7, <1>8, PlacedNext DEF InPlace

\* What a handler makes of the line x: it judges the password, asks for it, or executes x.
Deed(d, f, x) ==
    \/ d.asked /\ f.mode \in {ENABLE, LOGIN} /\ Turned(f, d, f.mode, d.vsys) /\ ~f.asked
    \/ /\ ~d.asked /\ x.is = "enable" /\ d.mode = LOGIN
       /\ f.asked /\ f.mode = LOGIN /\ f.vsys = d.vsys /\ f.open = d.open
    \/ ~d.asked /\ f = Executed(d, x.is) /\ ~f.asked
\* What is said with it: a prompt is the one that is shown.
Prints(f, p) ==
    /\ IsList(p) /\ (f.mode # Gone => Len(p) # 0)
    /\ \A i \in DOMAIN p : p[i].t = "prompt" => p[i] = Shown(f)

LEMMA ShowsFew ==
    ASSUME NEW f, NEW x, x.t # "prompt"
    PROVE  Prints(f, <<x>>) /\ Prints(f, <<x, Shown(f)>>) /\ (f.mode = Gone => Prints(f, <<>>))
<1>1. ASSUME NEW y, NEW z PROVE IsList(<<y, z>>) /\ IsList(<<y>>)
    <2>1. <<y, z>> \in Seq({y, z}) /\ <<y>> \in Seq({y})
        OBVIOUS
    <2> QED
        BY <2>1 DEF IsList
<1>2. \A y, z : Len(<<y, z>>) = 2 /\ DOMAIN <<y, z>> = {1, 2} /\ <<y, z>>[1] = y /\ <<y, z>>[2] = z
    OBVIOUS
<1>3. \A y : Len(<<y>>) = 1 /\ DOMAIN <<y>> = {1} /\ <<y>>[1] = y
    OBVIOUS
<1>4. Prints(f, <<x>>)
    <2>1. PICK q : q = <<x>>
        OBVIOUS
    <2>2. Len(q) = 1 /\ DOMAIN q = {1} /\ q[1] = x /\ IsList(q)
        BY <1>1, <1>3, <2>1
    <2>3. Prints(f, q)
        BY <2>2 DEF Prints
    <2> QED
        BY <2>1, <2>3
<1>5. Prints(f, <<x, Shown(f)>>)
    <2>1. PICK z : z = Shown(f)
        OBVIOUS
    <2>2. PICK q : q = <<x, z>>
        OBVIOUS
    <2>3. Len(q) = 2 /\ DOMAIN q = {1, 2} /\ q[1] = x /\ q[2] = z /\ IsList(q)
        BY <1>1, <1>2, <2>2
    <2>4. Prints(f, q)
        BY <2>1, <2>3 DEF Prints
    <2> QED
        BY <2>1, <2>2, <2>4
<1>6. f.mode = Gone => Prints(f, <<>>)
    BY ListEmpty DEF Prints
<1> QED
    BY <1>4, <1>5, <1>6

LEMMA LineDone ==
    ASSUME ShellInv, DeviceHandles
    PROVE  /\ Deed(dev, dev', Head(stdin))
           /\ \E p : arriving' = arriving \o p /\ Prints(dev', p)
<1>1. PICK h : h = Head(stdin)
    OBVIOUS
<1>2. PICK c : c = h.is
    OBVIOUS
<1>3. DeviceFits(dev)
    BY DEF ShellInv
<1> DEFINE right == c = "right"
           Told == [dev EXCEPT !.asked = FALSE, !.mode = IF right THEN ENABLE ELSE LOGIN]
           Queries == device.asks /\ dev.mode = LOGIN /\ c = "enable"
<1>4. PICK d : d = (IF dev.asked THEN Told
                    ELSE IF Queries THEN [dev EXCEPT !.asked = TRUE] ELSE Executed(dev, c))
    OBVIOUS
<1>5. PICK o : o = Output(IF dev.asked /\ right THEN "" ELSE c)
    OBVIOUS
<1>6. PICK p : p = CASE d.mode = Gone -> <<>>
                     [] d.asked -> <<Question>>
                     [] OTHER -> <<o, Shown(d)>>
    OBVIOUS
<1>7. dev' = d /\ arriving' = arriving \o p
    BY <1>1, <1>2, <1>4, <1>5, <1>6 DEF DeviceHandles
<1>8. o.t # "prompt" /\ Question.t # "prompt"
    BY <1>5, TokenFacts
<1>9. ASSUME dev.asked PROVE d.mode \in {ENABLE, LOGIN} /\ Turned(d, dev, d.mode, dev.vsys) /\ ~d.asked
    <2>1. PICK y, mode : y = FALSE /\ mode = IF right THEN ENABLE ELSE LOGIN
        OBVIOUS
    <2>2. d = [mode |-> mode, vsys |-> dev.vsys, open |-> dev.open, asked |-> y]
        BY <1>3, <1>4, <1>9, <2>1 DEF DeviceFits
    <2>3. d.mode = mode /\ d.asked = y /\ d.vsys = dev.vsys /\ d.open = dev.open
        BY <2>2
    <2>4. mode \in {ENABLE, LOGIN}
        BY <2>1
    <2>5. ~y
        BY <2>1, Zenon
    <2> QED
        BY <1>9, <2>3, <2>4, <2>5 DEF Turned
<1>10. ASSUME ~dev.asked, Queries
       PROVE  d.asked /\ d.mode = LOGIN /\ d.vsys = dev.vsys /\ d.open = dev.open
    <2>1. d = [mode |-> dev.mode, vsys |-> dev.vsys, open |-> dev.open, asked |-> TRUE]
        BY <1>3, <1>4, <1>10 DEF DeviceFits
    <2> QED
        BY <1>10, <2>1
<1>11. ASSUME ~dev.asked, ~Queries PROVE d = Executed(dev, c) /\ ~d.asked
    <2>1. d = Executed(dev, c) /\ DeviceKept(dev, d)
        BY <1>3, <1>4, <1>11, ExecutedFits DEF ShellInv
    <2> QED
        BY <1>11, <2>1 DEF DeviceKept
<1>12. Queries => h.is = "enable" /\ dev.mode = LOGIN
    BY <1>2
<1> HIDE DEF Queries, Told, right
<1>13. Deed(dev, d, h)
    <2>1. CASE dev.asked
        BY <1>9, <2>1 DEF Deed
    <2>2. CASE ~dev.asked /\ Queries
        BY <1>10, <1>12, <2>2 DEF Deed
    <2>3. CASE ~dev.asked /\ ~Queries
        BY <1>2, <1>11, <2>3 DEF Deed
    <2> QED
        BY <2>1, <2>2, <2>3
<1>14. Prints(d, p)
    <2>1. CASE d.mode = Gone
        BY <1>6, <1>8, <2>1, ShowsFew
    <2>2. CASE d.mode # Gone /\ d.asked
        BY <1>6, <1>8, <2>2, ShowsFew
    <2>3. CASE d.mode # Gone /\ ~d.asked
        BY <1>6, <1>8, <2>3, ShowsFew
    <2> QED
        BY <2>1, <2>2, <2>3
<1> QED
    BY <1>1, <1>7, <1>13, <1>14

LEMMA DeedUsual ==
    ASSUME Steady, kind \in Kinds, NEW d, NEW f, NEW x, DeviceFits(d), Usual(d), Deed(d, f, x), f.mode # Gone
    PROVE  Usual(f)
<1>1. CASE d.asked
    <2>1. d.mode = LOGIN /\ d.vsys = Own /\ f.mode \in {ENABLE, LOGIN} /\ f.vsys = d.vsys /\ f.open = d.open /\ ~f.asked
        BY <1>1 DEF Usual, Deed, Turned
    <2> QED
        BY <2>1, ModesApart DEF Usual
<1>2. CASE ~d.asked /\ f = Executed(d, x.is)
    BY <1>2, LineUsual
<1>3. CASE ~d.asked /\ f.asked /\ d.mode = LOGIN /\ f.mode = LOGIN /\ f.vsys = d.vsys /\ f.open = d.open
    BY <1>3 DEF Usual
<1> QED
    BY <1>1, <1>2, <1>3 DEF Deed

\* The empty line changes nothing.
LEMMA DeedEmpty ==
    ASSUME Steady, kind \in Kinds, NEW d, NEW f, NEW x, DeviceFits(d), Usual(d), Deed(d, f, x), EmptyLine(x), ~d.asked
    PROVE  f = d
<1>1. x.is # "enable"
    <2>1. "" # "enable"
        OBVIOUS
    <2> QED
        BY <2>1, Zenon DEF EmptyLine
<1>2. f = Executed(d, x.is)
    BY <1>1 DEF Deed
<1> QED
    BY <1>2, QuietLine

\* The command c of a session that waits for the answer to a line.
Uttered(s, c) ==
    /\ s.wait \in {"line", "own"} => c = Head(s.todo).is /\ c # "enable"
    /\ s.wait = "moving" => c = Move(s.mode, Head(s.todo).is).cmd

LEMMA FromLogin == \A m : Move(LOGIN, m).becomes = ENABLE
<1> TAKE m
<1>1. PICK r : r = [cmd |-> "enable", becomes |-> ENABLE, fails |-> LOGIN]
    OBVIOUS
<1>2. Move(LOGIN, m) = r
    BY <1>1, ModesApart DEF Move
<1>3. r.becomes = ENABLE
    BY <1>1
<1> QED
    BY <1>2, <1>3

\* What waits for its answer is executed: where the device is then.
LEMMA LineBrings ==
    ASSUME Steady, kind \in Kinds, NEW s, NEW d, NEW f, NEW x, DeviceFits(d), Usual(d), f = Executed(d, x.is),
           f.mode # Gone, ~d.asked, Plan(s), s.wait = "line", s.todo # <<>>, Head(s.todo).do = "line", Synced(s, d),
           x.is = Head(s.todo).is
    PROVE  Due(s, Tail(s.todo), f)
<1>1. PICK h, t : h = Head(s.todo) /\ t = Tail(s.todo)
    OBVIOUS
<1>2. Script(t) /\ (t # <<>> => Follows(h, Head(t))) /\ (t = <<>> => ~Entering(h))
    BY <1>1, ScriptTail DEF Plan
<1>3. CASE Entering(h)
    <2>1. PICK y : y = Head(t) /\ Elem(y) /\ Follows(h, y) /\ t # <<>>
        BY <1>2, <1>3, ScriptTail
    <2>2. y.do = "believe" /\ h.is = Word(y.is) /\ Sited /\ y.is \in {Own, "v1"}
        BY <1>3, <2>1 DEF Follows, Elem
    <2>3. s.mode = ENABLE /\ d.mode = ENABLE
        BY <1>1, <1>3 DEF Plan, Synced
    <2>4. f.mode = ENABLE /\ f.vsys = y.is
        BY <1>1, <2>2, <2>3, EnterLine
    <2>5. Sure(s, t) = y.is
        BY <2>1, <2>2 DEF Sure
    <2> QED
        BY <1>1, <2>3, <2>4, <2>5 DEF Due
<1>4. CASE ~Entering(h)
    <2>1. h.is \in Quiet
        BY <1>1, <1>4 DEF Entering
    <2>2. f = d
        BY <1>1, <2>1, QuietLine
    <2>3. Sure(s, t) = s.vsys
        BY <1>2, <1>4 DEF Sure, Follows
    <2> QED
        BY <1>1, <2>2, <2>3 DEF Due, Synced
<1> QED
    BY <1>3, <1>4

LEMMA MoveBrings ==
    ASSUME Steady, kind \in Kinds, NEW s, NEW d, NEW f, NEW x, DeviceFits(d), Usual(d), Deed(d, f, x),
           f.mode # Gone, Plan(s), s.wait = "moving", Head(s.todo).is \in Modes, Synced(s, d),
           ~d.asked => x.is = Move(s.mode, Head(s.todo).is).cmd
    PROVE  (f.asked => f.mode = s.mode) /\ Carried(f, s.vsys, Becoming(s))
<1>1. PICK h : h = Head(s.todo)
    OBVIOUS
<1>2. Usual(f)
    BY DeedUsual
<1>3. CASE ~d.asked /\ f = Executed(d, x.is) /\ ~f.asked
    <2>1. d.mode \in Modes /\ s.mode = d.mode /\ s.vsys = d.vsys /\ s.mode # h.is
        BY <1>1 DEF Usual, Synced, Plan
    <2>2. Carried(f, d.vsys, Move(d.mode, h.is).becomes)
        BY <1>1, <1>3, <2>1, MoveLine
    <2> QED
        BY <1>1, <1>3, <2>1, <2>2 DEF Becoming
<1>4. CASE d.mode = LOGIN /\ f.mode \in {ENABLE, LOGIN} /\ f.vsys = d.vsys /\ (f.asked => f.mode = LOGIN)
    <2>1. Becoming(s) = ENABLE /\ s.mode = LOGIN /\ s.vsys = d.vsys
        BY <1>4, FromLogin DEF Becoming, Synced
    <2>2. Carried(f, f.vsys, ENABLE)
        BY <1>2, <1>4, CarriedBy, ModesApart
    <2> QED
        BY <1>4, <2>1, <2>2
<1>5. d.asked => d.mode = LOGIN
    BY DEF Usual
<1> QED
    BY <1>3, <1>4, <1>5 DEF Deed, Turned

LEMMA DeedBrings ==
    ASSUME Steady, kind \in Kinds, NEW s, NEW d, NEW f, NEW x, NEW c, DeviceFits(d), Usual(d), Deed(d, f, x),
           f.mode # Gone, Plan(s), s.wait \in Speaks, s.todo # <<>>, Head(s.todo).do = s.wait,
           Elem(Head(s.todo)), Synced(s, d), Uttered(s, c), d.asked => c = "enable", ~d.asked => x.is = c,
           NEW v, v[Len(v)].t = "prompt" => v[Len(v)] = Shown(f)
    PROVE  Brought(s, f, v)
<1>1. ASSUME s.wait = "line" PROVE Due(s, Tail(s.todo), f)
    <2>1. c # "enable" /\ c = Head(s.todo).is
        BY <1>1 DEF Uttered
    <2>2. ~d.asked /\ x.is = c /\ f = Executed(d, x.is)
        BY <2>1 DEF Deed
    <2> QED
        BY <1>1, <2>1, <2>2, LineBrings
<1>2. ASSUME s.wait = "moving" PROVE (f.asked => f.mode = s.mode) /\ Carried(f, s.vsys, Becoming(s))
    <2>1. Head(s.todo).is \in Modes /\ c = Move(s.mode, Head(s.todo).is).cmd
        BY <1>2 DEF Elem, Uttered
    <2> QED
        BY <1>2, <2>1, MoveBrings
<1> QED
    BY <1>1, <1>2 DEF Brought

LEMMA ObligedLess ==
    ASSUME NEW d, NEW l, NEW m, IsList(l), IsList(m), l # <<>>, Shorter(m, l), Obliged(d, l)
    PROVE  Obliged(d, m)
<1>1. \A i \in DOMAIN m : i + 1 \in DOMAIN l /\ m[i] = l[i + 1]
    BY ShorterFacts
<1> QED
    BY <1>1 DEF Obliged

LEMMA FacingJoin ==
    ASSUME NEW d, NEW v, NEW p, IsList(v), Facing(d, v), Prints(d, p)
    PROVE  Facing(d, v \o p)
<1>1. PICK a \in Nat, b \in Nat : a = Len(v) /\ b = Len(p)
    BY ListFacts DEF Prints
<1>2. PICK w : w = v \o p
    OBVIOUS
<1>3. /\ DOMAIN v = 1..a /\ DOMAIN p = 1..b /\ DOMAIN w = 1..a + b
      /\ \A i \in 1..a + b : w[i] = IF i <= a THEN v[i] ELSE p[i - a]
    BY <1>1, <1>2, ListConcat, ListFacts DEF Prints
<1>4. \A i \in 1..a + b : IF i <= a THEN i \in 1..a ELSE i - a \in 1..b
    OBVIOUS
<1>5. \A i \in DOMAIN w : (i \in DOMAIN v /\ w[i] = v[i]) \/ \E j \in DOMAIN p : w[i] = p[j]
    BY <1>3, <1>4
<1> QED
    BY <1>2, <1>5 DEF Facing, Prints

LEMMA LastShown ==
    ASSUME NEW f, NEW v, NEW p, IsList(v), Prints(f, p), f.mode # Gone, NEW w, w = v \o p
    PROVE  w[Len(w)].t = "prompt" => w[Len(w)] = Shown(f)
<1>1. PICK a \in Nat, b \in Nat : a = Len(v) /\ b = Len(p)
    BY ListFacts DEF Prints
<1>2. b # 0 /\ IsList(p) /\ DOMAIN p = 1..b
    BY <1>1, ListFacts DEF Prints
<1>3. b \in 1..b
    BY <1>2
<1>4. Len(w) = a + b /\ w[a + b] = p[b]
    BY <1>1, <1>2, <1>3, SomeProlong
<1> QED
    BY <1>2, <1>3, <1>4 DEF Prints

LEMMA OrderSpoken ==
    ASSUME NEW s, NEW b, NEW d, NEW n, NEW l, NEW v, Order(s, b, d, n, l, v), s.wait \in Speaks
    PROVE  Uttered(s, b.cmd)
<1>1. Commanded(s, b)
    BY OrderMeans
<1> QED
    BY <1>1, Zenon DEF Commanded, Uttered

\* A line is executed.
LEMMA HandledPlaced ==
    ASSUME Steady, kind \in Kinds, NEW s, NEW b, NEW d, NEW f, NEW l, NEW m, NEW v, NEW p, NEW w, w = v \o p,
           Executes(l, m, v, w), DeviceFits(d), Deed(d, f, l[1]), f.mode # Gone, Prints(f, p), Plan(s),
           s.wait # None => s.todo # <<>> /\ Elem(Head(s.todo)),
           d.mode # Gone, Order(s, b, d, 1, l, v), Placed(s, d, l, v)
    PROVE  Placed(s, f, m, w)
<1>1. Usual(f) /\ Usual(d)
    BY DeedUsual DEF Placed
<1>2. IsList(l) /\ IsList(m) /\ IsList(v) /\ IsList(w) /\ l # <<>> /\ Shorter(m, l) /\ 1 \in DOMAIN l
    BY ListTail DEF Executes
<1>3. ASSUME Calm(d, 1, l, v), EmptyLine(l[1]) PROVE f = d /\ Obliged(f, m)
    <2>1. f = d
        BY <1>1, <1>3, DeedEmpty DEF Calm
    <2> QED
        BY <1>2, <2>1, ObligedLess DEF Placed
<1>4. CASE s.wait \in {None} \cup Polls
    <2>1. Polled(d, 1, l, v)
        BY <1>4 DEF Order, Rested
    <2>2. Calm(d, 1, l, v) /\ EmptyLine(l[1])
        BY <1>2, <2>1 DEF Polled, Empties, EmptyLine
    <2>3. s.wait \notin Speaks
        BY <1>4 DEF None, Polls, Speaks
    <2>4. Facing(f, w)
        BY <1>2, <1>3, <2>2, <2>3, FacingJoin DEF Placed
    <2> QED
        BY <1>1, <1>3, <2>2, <2>3, <2>4 DEF Placed
<1>5. CASE s.wait \in Speaks
    <2>1. s.wait # None /\ Len(l) \in Nat /\ Len(l) # 0
        BY <1>2, <1>5, ListFacts DEF Speaks, None
    <2>2. Synced(s, d) /\ Awaiting(b, d, 1, l, v)
        BY <1>5, <2>1, OrderMeans DEF Placed
    <2>3. CASE Unheeded(b, d, 1, l, v)
        <3>1. Calm(d, 1, l, v) /\ 1 < Len(l)
            BY <2>3 DEF Unheeded
        <3>2. EmptyLine(l[1])
            <4>1. 1 \in 1..Len(l) - 1
                BY <2>1, <3>1
            <4> QED
                BY <2>3, <4>1 DEF Unheeded, EmptyLine
        <3>3. Len(m) # 0
            BY <1>2, <2>1, <3>1 DEF Shorter
        <3> QED
            BY <1>1, <1>3, <1>5, <2>1, <2>2, <3>1, <3>2, <3>3 DEF Placed
    <2>4. CASE ~Unheeded(b, d, 1, l, v)
        <3>1. PICK e \in 1..Len(v) : Heeded(b, v, e) /\ Stage(b, d, 1, l, v, e)
            BY <2>2, <2>4 DEF Awaiting
        <3>2. Executing(b, d, 1, l, v, e) \/ Judging(b, d, 1, l, v, e)
            BY <3>1 DEF Stage, Closed, Replied, Questioned, Trusted, Judged
        <3>3. PICK c : c = b.cmd
            OBVIOUS
        <3>4. Len(l) = 1 /\ (d.asked => c = "enable") /\ (~d.asked => l[1].is = c)
            BY <3>2, <3>3 DEF Executing, Judging, Asking
        <3>5. Len(m) = 0 /\ DOMAIN m = {}
            <4>1. Len(m) = 0
                BY <1>2, <3>4 DEF Shorter
            <4>2. DOMAIN m = 1..0 /\ 1..0 = {}
                BY <1>2, <4>1, ListFacts
            <4> QED
                BY <4>1, <4>2
        <3>6. Obliged(f, m)
            BY <3>5 DEF Obliged
        <3>7. w[Len(w)].t = "prompt" => w[Len(w)] = Shown(f)
            BY <1>2, LastShown
        <3>8. Uttered(s, c)
            BY <1>5, <3>3, OrderSpoken
        <3>9. Head(s.todo).do = s.wait
            BY <2>1 DEF Plan
        <3>10. Brought(s, f, w)
            BY <1>1, <1>5, <2>1, <2>2, <3>4, <3>7, <3>8, <3>9, DeedBrings
        <3> QED
            BY <1>1, <1>5, <2>1, <3>5, <3>6, <3>10 DEF Placed
    <2> QED
        BY <2>3, <2>4
<1> QED
    BY <1>4, <1>5, OrderMeans

\* Where a line is executed.
LEMMA RanPlaced ==
    ASSUME ShellInv, DeviceHandles, NEW x, x = Head(stdin), Meets(x.for, dev.mode, dev.vsys), Usual(dev),
           Meets(ran.for, ran.at.mode, ran.at.vsys)
    PROVE  Meets(ran'.for, ran'.at.mode, ran'.at.vsys)
<1>1. PICK r : r = [for |-> x.for, at |-> Where(dev)] /\ ran' = IF x.for = NotAsked THEN ran ELSE r
    BY DEF DeviceHandles
<1>2. PICK y : y = Where(dev)
    OBVIOUS
<1>3. y = [mode |-> dev.mode, vsys |-> dev.vsys]
    BY <1>2 DEF Where, Usual
<1>4. r.for = x.for /\ r.at = y /\ y.mode = dev.mode /\ y.vsys = dev.vsys
    BY <1>1, <1>2, <1>3
<1> QED
    BY <1>1, <1>4

LEMMA HandlesPlaced == ASSUME Steady, ShellInv, InOrder, InPlace, DeviceHandles PROVE InPlace'
<1>1. IsList(stdin) /\ IsList(sent) /\ IsList(arriving) /\ BufferFits(buf) /\ kind \in Kinds /\ DeviceFits(dev)
    BY DEF ShellInv, Conversation
<1>2. /\ stdin # <<>> /\ dev.mode # Gone /\ stdin' = Tail(stdin)
      /\ UNCHANGED <<kind, ahead, sent, ses, buf>>
    BY DEF DeviceHandles
<1>3. PICK l, m, v : l = stdin \o sent /\ m = Tail(stdin) \o sent /\ v = Said(ses, buf, arriving)
    OBVIOUS
<1>4. PICK x : x = Head(stdin)
    OBVIOUS
<1>5. Deed(dev, dev', x) /\ \E p : arriving' = arriving \o p /\ Prints(dev', p)
    BY <1>4, LineDone
<1>6. PICK p : arriving' = arriving \o p /\ Prints(dev', p)
    BY <1>5
<1>7. Said(ses, buf, arriving \o p) = v \o p /\ IsList(v) /\ IsList(p)
    <2>1. IsList(p)
        BY <1>6 DEF Prints
    <2>2. SaidGrown(ses, buf, arriving, p)
        BY <1>1, <2>1, SaidGrows
    <2> QED
        BY <1>3, <2>1, <2>2 DEF SaidGrown
<1>8. IsList(l) /\ IsList(m) /\ Shorter(m, l) /\ l[1] = x /\ l # <<>>
    BY <1>1, <1>2, <1>3, <1>4, LinesExecuted
<1>9. Plan(ses) /\ (ses.wait # None => ses.todo # <<>> /\ Elem(Head(ses.todo)))
    BY Awaits DEF InPlace
<1>10. ASSUME ~ahead
       PROVE  /\ Meets(ran'.for, ran'.at.mode, ran'.at.vsys)
              /\ dev'.mode # Gone => Placed(ses, dev', m, v \o p)
    <2>1. Placed(ses, dev, l, v) /\ Meets(ran.for, ran.at.mode, ran.at.vsys)
        BY <1>2, <1>3, <1>10 DEF InPlace
    <2>2. Usual(dev) /\ Meets(x.for, dev.mode, dev.vsys)
        BY <1>8, <2>1, ListTail DEF Placed, Obliged
    <2>3. Meets(ran'.for, ran'.at.mode, ran'.at.vsys)
        BY <1>4, <2>1, <2>2, RanPlaced
    <2>4. Order(ses, buf, dev, Len(stdin), l, v)
        BY <1>3, <1>10 DEF InOrder
    <2>5. Len(stdin) = 1
        <3>1. Len(stdin) \in {0, 1}
            BY <1>2, <2>4, OneReceived
        <3>2. Len(stdin) # 0
            BY <1>1, <1>2, ListFacts
        <3> QED
            BY <3>1, <3>2
    <2>6. PICK w, f : w = v \o p /\ f = dev'
        OBVIOUS
    <2>7. Executes(l, m, v, w)
        BY <1>7, <1>8, <2>6, ListConcat DEF Executes
    <2>8. ASSUME f.mode # Gone PROVE Placed(ses, f, m, w)
        BY <1>1, <1>2, <1>5, <1>6, <1>8, <1>9, <2>1, <2>4, <2>5, <2>6, <2>7, <2>8, HandledPlaced
    <2> QED
        BY <2>3, <2>6, <2>8
<1>11. stdin' \o sent' = m /\ Said(ses', buf', arriving') = v \o p
    BY <1>2, <1>3, <1>6, <1>7
<1> QED
    BY <1>2, <1>9, <1>10, <1>11, PlacedNext

-----------------------------------------------------------------------------
(* The reads leave a session in place.                                     *)

LEMMA FacingBehind ==
    ASSUME NEW d, NEW v, NEW a, NEW k, IsList(a), IsList(v), Behind(a, v, k), Facing(d, v)
    PROVE  Facing(d, a)
<1>1. \A j \in DOMAIN a : j + k \in DOMAIN v /\ a[j] = v[j + k]
    BY BehindFacts
<1> QED
    BY <1>1 DEF Facing

\* The session waits on.
LEMMA OnPlaced ==
    ASSUME InPlace, ses.wait # None, NEW b, ChunkOf(b, Said(ses, buf, arriving), arriving'),
           UNCHANGED <<kind, ahead, dev, stdin, ran>>, ses' = ses, sent' = sent, buf'.got = b.got
    PROVE  InPlace'
<1>1. PICK l, v : l = stdin \o sent /\ v = Said(ses, buf, arriving)
    OBVIOUS
<1>2. Said(ses', buf', arriving') = v
    BY <1>1 DEF Said, ChunkOf
<1> QED
    BY <1>1, <1>2, PlacedNext DEF InPlace

\* It ends a wait: what it expects of the device, and what it has not read.
LEMMA EndsPlaced ==
    ASSUME InPlace, UNCHANGED <<kind, ahead, dev, stdin, ran>>, sent' = sent, Plan(ses'), ses'.wait = None,
           ~ahead /\ dev.mode # Gone => /\ Facing(dev, arriving')
                                        /\ ~Planless(ses'.todo) => Due(ses', ses'.todo, dev)
    PROVE  InPlace'
<1>1. PICK l : l = stdin \o sent
    OBVIOUS
<1>2. Said(ses', buf', arriving') = arriving'
    BY DEF Said
<1>3. None \notin Speaks
    BY DEF None, Speaks
<1>4. ASSUME ~ahead, dev.mode # Gone PROVE Placed(ses', dev, l, arriving')
    <2>1. PICK v : Placed(ses, dev, l, v)
        BY <1>1, <1>4 DEF InPlace
    <2> QED
        BY <1>3, <1>4, <2>1 DEF Placed
<1> QED
    BY <1>1, <1>2, <1>4, PlacedNext DEF InPlace

\* It gives up.
LEMMA QuitsPlaced ==
    ASSUME InPlace, UNCHANGED <<kind, ahead, dev, stdin, ran>>, sent' = sent, Quits(ses', ses),
           ~ahead /\ dev.mode # Gone => Facing(dev, arriving')
    PROVE  InPlace'
<1>1. Plan(ses') /\ ses'.wait = None
    BY PlanQuits DEF InPlace, Quits
<1>2. Planless(ses'.todo)
    BY DEF Quits, Planless
<1> QED
    BY <1>1, <1>2, EndsPlaced

\* The prompt was found at the end of what was said.
LEMMA AllRead ==
    ASSUME InOrder, InPlace, ~ahead, ses.wait \in Speaks, NEW b,
           ChunkOf(b, Said(ses, buf, arriving), arriving'), NEW c, c \in {b, Searched(b)},
           NEW S, Hits(c, S, c.flag) # {}
    PROVE  /\ dev.mode # Gone /\ Facing(dev, arriving')
           /\ Brought(ses, dev, Said(ses, buf, arriving))
           /\ c.got = b.got /\ Len(b.got) = Len(Said(ses, buf, arriving))
           /\ \A i \in Hits(c, S, c.flag) : i = Len(Said(ses, buf, arriving))
<1>1. PICK l, v, a : l = stdin \o sent /\ v = Said(ses, buf, arriving) /\ a = arriving'
    OBVIOUS
<1>2. /\ Dealt(c, dev, Len(stdin), l, v) /\ c.got = b.got
      /\ \A i \in Hits(c, S, c.flag) : i = Len(v)
    BY <1>1, HitMeans
<1>3. dev.mode # Gone /\ Len(l) = 0 /\ Len(b.got) = Len(v)
    BY <1>2 DEF Dealt
<1>4. Brought(ses, dev, v)
    BY <1>1, <1>3 DEF InPlace, Placed
<1>5. DOMAIN a = {}
    <2>1. IsList(a) /\ IsList(v) /\ Behind(a, v, Len(b.got))
        BY <1>1 DEF ChunkOf
    <2>2. PICK k \in Nat : k = Len(v)
        BY <2>1, ListFacts
    <2>3. Len(a) = 0
        BY <1>3, <2>1, <2>2 DEF Behind
    <2>4. DOMAIN a = 1..0 /\ 1..0 = {}
        BY <2>1, <2>3, ListFacts
    <2> QED
        BY <2>4
<1> QED
    BY <1>1, <1>2, <1>3, <1>4, <1>5 DEF Facing

\* The prompt after a line.
LEMMA HeardPlaced ==
    ASSUME ShellInv, InOrder, InPlace, ses.wait \in {"line", "own"}, NEW b,
           ChunkOf(b, Said(ses, buf, arriving), arriving'), Hits(b, Union, b.flag) # {},
           UNCHANGED <<kind, ahead, dev, stdin, ran>>, sent' = sent, ses' = Rest(ses)
    PROVE  InPlace'
<1>1. Plan(ses') /\ Drops(ses', ses, ses.mode, ses.vsys) /\ (ses.wait = "own" => Planless(ses'.todo))
    BY HeardPlans DEF InPlace
<1>2. ses.wait \in Speaks
    BY DEF Speaks
<1>3. ASSUME ~ahead
      PROVE  /\ Facing(dev, arriving')
             /\ ~Planless(ses'.todo) => Due(ses', ses'.todo, dev)
    <2>1. Facing(dev, arriving') /\ Brought(ses, dev, Said(ses, buf, arriving))
        BY <1>2, <1>3, AllRead
    <2>2. ASSUME ses.wait = "line" PROVE Due(ses', ses'.todo, dev)
        <3>1. Due(ses, Tail(ses.todo), dev)
            BY <2>1, <2>2 DEF Brought
        <3> QED
            BY <1>1, <3>1 DEF Drops, Due, Sure
    <2> QED
        BY <1>1, <2>1, <2>2
<1>4. ses'.wait = None
    BY <1>1 DEF Drops
<1> QED
    BY <1>1, <1>3, <1>4, EndsPlaced

\* The prompt that shows the mode and the vsys.
LEMMA CandidateShown ==
    ASSUME Steady, kind \in Kinds, NEW d, Usual(d), NEW v, Facing(d, v), NEW b, NEW a, ChunkOf(b, v, a),
           Candidates(b) # {}, NEW p, p = b.got[FirstOf(Candidates(b))]
    PROVE  ModeOf(p) = d.mode /\ p.v = d.vsys
<1>1. PICK C : C = Candidates(b)
    OBVIOUS
<1>2. PICK k \in Nat : k = Len(b.got) /\ DOMAIN b.got = 1..k
    BY ListFacts DEF ChunkOf, BufferFits
<1>3. \A i \in C : i \in 1..k /\ b.got[i].t = "prompt" /\ b.got[i].is \in Union
    BY <1>1, <1>2 DEF Candidates, LastTwo, Starts
<1>4. C \in SUBSET Nat
    BY <1>3
<1>5. FirstOf(C) \in C
    <2>1. \E m \in C : \A j \in C : m <= j
        BY <1>1, <1>4, Smallest
    <2> QED
        BY <2>1 DEF FirstOf
<1>6. PICK i : i = FirstOf(C) /\ i \in 1..k /\ p = b.got[i] /\ p.t = "prompt" /\ p.is \in Union
    BY <1>1, <1>3, <1>5
<1>7. IsList(v) /\ Len(b.got) <= Len(v) /\ v[i] = b.got[i]
    BY <1>2, <1>6 DEF ChunkOf, Prolongs
<1>8. i \in DOMAIN v
    <2>1. PICK n \in Nat : n = Len(v) /\ DOMAIN v = 1..n
        BY <1>7, ListFacts
    <2>2. i \in 1..n
        BY <1>2, <1>6, <1>7, <2>1
    <2> QED
        BY <2>1, <2>2
<1>9. p = Shown(d)
    BY <1>6, <1>7, <1>8 DEF Facing
<1> QED
    BY <1>6, <1>9, ModeTold, ShownTells DEF Tells

LEMMA DecidedPlaced ==
    ASSUME Steady, ShellInv, InPlace, ses.wait = "decide", NEW b,
           ChunkOf(b, Said(ses, buf, arriving), arriving'), Candidates(b) # {},
           UNCHANGED <<kind, ahead, dev, stdin, ran>>, sent' = sent,
           NEW p, p = b.got[FirstOf(Candidates(b))], ses' = Decided(ses, p)
    PROVE  InPlace'
<1>1. /\ Plan(ses') /\ ses'.wait = None /\ ses'.mode = ModeOf(p)
      /\ Sure(ses', ses'.todo) = IF Sited THEN p.v ELSE Own
    BY DecidedPlans DEF InPlace
<1>2. ses.wait \notin Speaks /\ ses.wait # None /\ kind \in Kinds
    BY DEF Speaks, None, ShellInv
<1>3. PICK v, l : v = Said(ses, buf, arriving) /\ l = stdin \o sent
    OBVIOUS
<1>4. ASSUME ~ahead, dev.mode # Gone
      PROVE  Facing(dev, arriving') /\ Due(ses', ses'.todo, dev)
    <2>1. Usual(dev) /\ Facing(dev, v)
        BY <1>2, <1>3, <1>4 DEF InPlace, Placed
    <2>2. IsList(v) /\ IsList(arriving') /\ Behind(arriving', v, Len(b.got))
        BY <1>3 DEF ChunkOf
    <2>3. Facing(dev, arriving')
        BY <2>1, <2>2, FacingBehind
    <2>4. ModeOf(p) = dev.mode /\ p.v = dev.vsys
        BY <1>2, <1>3, <2>1, CandidateShown
    <2>5. Sure(ses', ses'.todo) = dev.vsys
        BY <1>1, <2>1, <2>4 DEF Usual
    <2> QED
        BY <1>1, <2>3, <2>4, <2>5 DEF Due
<1> QED
    BY <1>1, <1>4, EndsPlaced

LEMMA ReadsUntilPromptPlaced == ASSUME Steady, ShellInv, InOrder, InPlace, ReadsUntilPrompt PROVE InPlace'
<1>1. ses.wait # None /\ ses.wait # "moving"
    BY DEF ReadsUntilPrompt, None
<1>2. SessionFits(kind, ses) /\ ses.wait \notin {"drain", "reread"} /\ Plan(ses)
    BY <1>1, Awaits DEF InPlace
<1>3. ses.wait \in {"decide", "line", "own"} /\ plugin.leaves = "never"
    BY <1>2 DEF ReadsUntilPrompt, Steady, ShellInv, plugin
<1>4. PICK n \in 1..Len(arriving) :
        LET b == Chunk(n)
            c == Candidates(b)
            p == b.got[FirstOf(c)]
        IN /\ Reads(n)
           /\ IF Hits(b, Union, b.flag) = {}
              THEN /\ buf' = IF plugin.moves THEN Advanced(Searched(b)) ELSE Searched(b)
                   /\ UNCHANGED <<ses, sent>>
              ELSE IF ses.wait \in {"drain", "line", "own"}
              THEN ses' = Rest(ses) /\ buf' = b /\ UNCHANGED sent
              ELSE IF c = {}
              THEN ses' = Failed(ses) /\ buf' = b /\ UNCHANGED sent
              ELSE IF ses.wait = "decide" /\ plugin.leaves = "level" /\ p.v \notin {Own, ses.vsys}
              THEN Write(<<"end">>) /\ Await("reread", "")
              ELSE ses' = Decided(ses, p) /\ buf' = b /\ UNCHANGED sent
    BY DEF ReadsUntilPrompt
<1>5. PICK b : b = Chunk(n)
    OBVIOUS
<1>6. PICK p : p = b.got[FirstOf(Candidates(b))]
    OBVIOUS
<1>7. ChunkOf(b, Said(ses, buf, arriving), arriving') /\ UNCHANGED <<kind, ahead, dev, stdin, ran>>
    <2>1. ran' = ran
        BY <1>4 DEF Reads
    <2> QED
        BY <1>1, <1>4, <1>5, <2>1, ChunkSaid
<1>8. CASE Hits(b, Union, b.flag) = {}
    <2>1. UNCHANGED <<ses, sent>> /\ buf' \in {b, Searched(b), Advanced(Searched(b))}
        BY <1>4, <1>5, <1>8
    <2>2. PICK v, a : v = Said(ses, buf, arriving) /\ a = arriving'
        OBVIOUS
    <2>3. buf'.got = b.got
        BY <1>7, <2>1, <2>2, SearchedOn DEF BufferKept
    <2> QED
        BY <1>1, <1>7, <2>1, <2>3, OnPlaced
<1>9. CASE Hits(b, Union, b.flag) # {} /\ ses.wait \in {"line", "own"}
    <2>1. ses' = Rest(ses) /\ sent' = sent
        BY <1>4, <1>5, <1>9
    <2> QED
        BY <1>7, <1>9, <2>1, HeardPlaced
<1>10. CASE ses' = Failed(ses) /\ UNCHANGED sent /\ ses.wait = "decide"
    <2>1. Quits(ses', ses)
        BY <1>2, <1>10, SessionFields
    <2>2. ses.wait \notin Speaks
        BY <1>10 DEF Speaks
    <2>3. ASSUME ~ahead, dev.mode # Gone PROVE Facing(dev, arriving')
        <3>1. PICK v : v = Said(ses, buf, arriving)
            OBVIOUS
        <3>2. Facing(dev, v)
            BY <2>2, <2>3, <3>1 DEF InPlace, Placed
        <3>3. IsList(v) /\ IsList(arriving') /\ Behind(arriving', v, Len(b.got))
            BY <1>7, <3>1 DEF ChunkOf
        <3> QED
            BY <3>2, <3>3, FacingBehind
    <2> QED
        BY <1>7, <1>10, <2>1, <2>3, QuitsPlaced
<1>11. CASE Candidates(b) # {} /\ ses' = Decided(ses, p) /\ UNCHANGED sent /\ ses.wait = "decide"
    BY <1>6, <1>7, <1>11, DecidedPlaced
<1> QED
    BY <1>3, <1>4, <1>5, <1>6, <1>8, <1>9, <1>10, <1>11

LEMMA ReadsEofPlaced == ASSUME ShellInv, InPlace, ReadsEof PROVE InPlace'
<1>1. /\ ses.wait # None /\ dev.mode = Gone /\ sent' = sent
      /\ ses' = IF ses.wait \in {"line", "own", "drain"} THEN Rest(ses) ELSE Failed(ses)
      /\ UNCHANGED <<kind, ahead, dev, stdin, ran>>
    BY DEF ReadsEof, AgentOnly
<1>2. CASE ses.wait \in {"line", "own", "drain"} /\ ses' = Rest(ses)
    <2>1. Plan(ses') /\ ses'.wait = None
        BY <1>2, HeardPlans DEF InPlace, Drops
    <2> QED
        BY <1>1, <2>1, EndsPlaced
<1>3. CASE ses' = Failed(ses)
    <2>1. Quits(ses', ses)
        BY <1>3, SessionFields DEF ShellInv
    <2> QED
        BY <1>1, <2>1, QuitsPlaced
<1> QED
    BY <1>1, <1>2, <1>3

LEMMA TimesOutPlaced == ASSUME ~Late, ShellInv, InPlace, TimesOut PROVE InPlace'
<1>1. /\ ses' = Failed(ses) /\ sent' = sent /\ arriving' = arriving /\ arriving = <<>>
      /\ UNCHANGED <<kind, ahead, dev, stdin, ran>>
    BY DEF TimesOut, AgentOnly
<1>2. Quits(ses', ses)
    BY <1>1, SessionFields DEF ShellInv
<1>3. PICK a : a = arriving' /\ DOMAIN a = {}
    BY <1>1, ListEmpty
<1>4. Facing(dev, arriving')
    BY <1>3 DEF Facing
<1> QED
    BY <1>1, <1>2, <1>4, QuitsPlaced

\* The prompt of the mode that was moved to.
LEMMA MovedPlaced ==
    ASSUME Steady, ShellInv, InOrder, InPlace, ses.wait = "moving", NEW b,
           ChunkOf(b, Said(ses, buf, arriving), arriving'), NEW m, m = Becoming(ses), NEW c, NEW w,
           Moved(ses', ses, m, Setup(c, m), w), Hits(b, plugin.sees[m], b.flag) # {},
           UNCHANGED <<kind, ahead, dev, stdin, ran>>, sent' = sent
    PROVE  InPlace'
<1>1. Plan(ses') /\ ses'.wait = None /\ ses'.mode = m /\ Sure(ses', ses'.todo) = ses.vsys
    BY MovedPlans DEF InPlace
<1>2. ses.wait \in Speaks
    BY DEF Speaks
<1>3. PICK v, S : v = Said(ses, buf, arriving) /\ S = plugin.sees[m]
    OBVIOUS
<1>4. ASSUME ~ahead PROVE Facing(dev, arriving') /\ Due(ses', ses'.todo, dev)
    <2>1. /\ Facing(dev, arriving') /\ Brought(ses, dev, v) /\ Len(b.got) = Len(v)
          /\ \A i \in Hits(b, S, b.flag) : i = Len(v)
        BY <1>2, <1>3, <1>4, AllRead
    <2>2. PICK i \in Hits(b, S, b.flag) : TRUE
        BY <1>3
    <2>3. i \in b.from..Len(b.got) /\ b.got[i].t = "prompt" /\ b.got[i].is \in S
        BY <2>2, Zenon DEF Hits
    <2>4. Prolongs(v, b.got) /\ BufferFits(b)
        BY <1>3 DEF ChunkOf
    <2>5. i \in 1..Len(b.got)
        BY <2>3, <2>4, ListFacts DEF BufferFits
    <2>6. v[i] = b.got[i] /\ i = Len(v)
        BY <2>1, <2>2, <2>4, <2>5 DEF Prolongs
    <2>7. Shown(dev).is \in S
        BY <2>1, <2>3, <2>6 DEF Brought
    <2>8. Carried(dev, ses.vsys, m)
        BY <2>1 DEF Brought
    <2>9. dev.mode = m /\ dev.vsys = ses.vsys
        BY <1>3, <2>7, <2>8 DEF Carried
    <2> QED
        BY <1>1, <2>1, <2>9 DEF Due
<1> QED
    BY <1>1, <1>4, EndsPlaced

\* The device asks for the password, and gets it.
LEMMA TrustsPlaced ==
    ASSUME ShellInv, InOrder, InPlace, ses.wait = "moving", NEW b,
           ChunkOf(b, Said(ses, buf, arriving), arriving'),
           {i \in b.from..Len(b.got) : b.got[i].t = "ask"} # {},
           UNCHANGED <<kind, ahead, dev, stdin, ran, ses>>, Write(<<secret>>), buf'.got = b.got
    PROVE  InPlace'
<1>1. ses.wait \in Speaks /\ ses.wait # None
    BY DEF Speaks, None
<1>2. PICK v, l : v = Said(ses, buf, arriving) /\ l = stdin \o sent
    OBVIOUS
<1>3. PICK x : x = [is |-> secret, for |-> NotAsked]
    OBVIOUS
<1>4. IsList(stdin) /\ IsList(sent) /\ sent' = Append(sent, x)
    BY <1>3, LineOfOne DEF Write, ShellInv, Conversation
<1>5. PICK w : w = stdin \o Append(sent, x)
    OBVIOUS
<1>6. Extended(w, l, x) /\ IsList(l) /\ IsList(w)
    BY <1>2, <1>4, <1>5, LineAdded
<1>7. Said(ses', buf', arriving') = v
    BY <1>1, <1>2 DEF Said, ChunkOf
<1>8. ASSUME ~ahead, dev.mode # Gone PROVE Placed(ses, dev, w, v)
    <2>1. Asked(Searched(b), dev, Len(stdin), l, v)
        BY <1>1, <1>2, <1>8, QuestionFound
    <2>2. dev.asked /\ Len(l) = 0
        BY <2>1 DEF Asked, Questioned, Asking
    <2>3. Placed(ses, dev, l, v)
        BY <1>2, <1>8 DEF InPlace
    <2>4. Synced(ses, dev)
        BY <1>1, <2>2, <2>3 DEF Placed, Brought, Carried, Synced
    <2>5. x.for = NotAsked
        BY <1>3
    <2>6. Obliged(dev, w) /\ Len(w) # 0
        BY <1>6, <2>3, <2>5, NoneMet, ObligedMore DEF Placed
    <2> QED
        BY <1>1, <2>3, <2>4, <2>6 DEF Placed
<1>9. stdin' \o sent' = w
    BY <1>4, <1>5
<1> QED
    BY <1>7, <1>8, <1>9, PlacedNext DEF InPlace

LEMMA ReadsMovePlaced == ASSUME Steady, ShellInv, InOrder, InPlace, ReadsMove PROVE InPlace'
<1>1. ses.wait = "moving" /\ ses.wait # None /\ ses.wait \in Speaks
    BY DEF ReadsMove, None, Speaks
<1>2. SessionFits(kind, ses)
    BY DEF ShellInv
<1>3. PICK m : m = Move(ses.mode, Now.is)
    OBVIOUS
<1>4. PICK e : e = (m.cmd = "enable")
    OBVIOUS
<1>5. PICK n \in 1..Len(arriving) :
        LET b == Chunk(n)
            b1 == Searched(b)
            asked == {i \in b.from..Len(b.got) : b.got[i].t = "ask"}
        IN /\ Reads(n)
           /\ IF Hits(b, plugin.sees[m.becomes], b.flag) # {}
              THEN /\ ses' = [ses EXCEPT !.mode = m.becomes, !.wait = None, !.todo = Setup(e, m.becomes) \o @,
                                         !.wide = @ \/ m.becomes = CONFIG]
                   /\ buf' = b /\ UNCHANGED sent
              ELSE IF Hits(b1, plugin.sees[m.fails], b1.flag) # {}
              THEN ses' = Failed(ses) /\ buf' = b /\ UNCHANGED sent
              ELSE IF m.cmd = "enable" /\ plugin.asks /\ asked # {}
              THEN /\ Write(<<secret>>)
                   /\ buf' = PastQuestion(b1) /\ UNCHANGED ses
              ELSE /\ buf' = IF m.cmd = "enable" /\ ~plugin.asks THEN b1 ELSE Advanced(b1)
                   /\ UNCHANGED <<ses, sent>>
    BY <1>3, <1>4 DEF ReadsMove, Setup
<1>6. PICK b, b1 : b = Chunk(n) /\ b1 = Searched(b)
    OBVIOUS
<1>7. ChunkOf(b, Said(ses, buf, arriving), arriving') /\ UNCHANGED <<kind, ahead, dev, stdin, ran>>
    <2>1. ran' = ran
        BY <1>5 DEF Reads
    <2> QED
        BY <1>1, <1>5, <1>6, <2>1, ChunkSaid
<1>8. PICK v : v = Said(ses, buf, arriving)
    OBVIOUS
<1>9. ChunkOf(b, v, arriving') /\ BufferKept(b, b1) /\ BufferFits(b1) /\ b1.got = b.got
    BY <1>6, <1>7, <1>8, SearchedOn DEF BufferKept
<1>10. CASE Hits(b, plugin.sees[m.becomes], b.flag) # {}
    <2>1. PICK t, w : t = m.becomes /\ w = (m.becomes = CONFIG)
        OBVIOUS
    <2>2. Moved(ses', ses, t, Setup(e, t), w) /\ sent' = sent
        BY <1>5, <1>6, <1>10, <2>1 DEF Moved
    <2>3. t = Becoming(ses)
        BY <1>3, <2>1 DEF Becoming, Now
    <2>4. Hits(b, plugin.sees[t], b.flag) # {}
        BY <1>10, <2>1
    <2> QED
        BY <1>1, <1>7, <2>2, <2>3, <2>4, MovedPlaced
<1>11. CASE Hits(b1, plugin.sees[m.fails], b1.flag) # {} /\ ses' = Failed(ses) /\ UNCHANGED sent
    <2>1. Quits(ses', ses)
        BY <1>2, <1>11, SessionFields
    <2>2. ASSUME ~ahead PROVE Facing(dev, arriving')
        BY <1>1, <1>6, <1>7, <1>11, <2>2, AllRead
    <2> QED
        BY <1>7, <1>11, <2>1, <2>2, QuitsPlaced
<1>12. CASE /\ {i \in b.from..Len(b.got) : b.got[i].t = "ask"} # {}
            /\ Write(<<secret>>) /\ buf' = PastQuestion(b1) /\ UNCHANGED ses
    <2>1. buf'.got = b.got
        <3>1. PastQuestion(b1) = [cmd |-> b1.cmd, got |-> b1.got, from |-> Len(b1.got) + 1, flag |-> b1.flag]
            BY <1>9 DEF PastQuestion, BufferFits
        <3> QED
            BY <1>9, <1>12, <3>1
    <2> QED
        BY <1>1, <1>7, <1>12, <2>1, TrustsPlaced
<1>13. CASE UNCHANGED <<ses, sent>> /\ buf' \in {b1, Advanced(b1)}
    <2>1. buf' \in {b, Searched(b), Advanced(Searched(b))}
        BY <1>6, <1>13
    <2>2. buf'.got = b.got
        BY <1>9, <2>1, SearchedOn DEF BufferKept
    <2> QED
        BY <1>1, <1>7, <1>13, <2>2, OnPlaced
<1> QED
    BY <1>5, <1>6, <1>10, <1>11, <1>12, <1>13

-----------------------------------------------------------------------------
(* A session begins in place, stays there, and commands run where asked.   *)

LEMMA StartUsual ==
    ASSUME Steady, ShellInit
    PROVE  Usual(dev) /\ dev.mode # Gone
<1>1. kind \in Kinds /\ device.start \in Modes
    BY RowModed DEF ShellInit, Moded
<1>2. PICK y, s : y = FALSE /\ s = device.start
    OBVIOUS
<1>3. dev = [mode |-> s, vsys |-> Own, open |-> <<>>, asked |-> y]
    BY <1>2 DEF ShellInit
<1>4. dev.mode = s /\ dev.asked = y /\ dev.vsys = Own /\ dev.open = <<>>
    BY <1>3
<1>5. ~y
    BY <1>2, Zenon
<1>6. s # Gone /\ s \in Modes
    BY <1>1, <1>2, ModesApart
<1> QED
    BY <1>4, <1>5, <1>6 DEF Usual

LEMMA PlaceBegins == ASSUME Steady, ShellInit PROVE InPlace
<1>1. Plan(ses) /\ ses.wait = None /\ Planless(ses.todo)
    BY BeginsPlanned
<1>2. Usual(dev)
    BY StartUsual
<1>3. PICK l : l = stdin \o sent /\ DOMAIN l = {}
    BY ListEmpty, ListConcat DEF ShellInit
<1>4. PICK v : v = <<Output("welcome"), Shown(dev)>>
    OBVIOUS
<1>5. Facing(dev, v)
    <2>1. PICK x : x = Output("welcome") /\ x.t # "prompt"
        BY TokenFacts
    <2> QED
        BY <1>4, <2>1, ShowsFew DEF Prints, Facing
<1>6. Said(ses, buf, arriving) = v
    BY <1>1, <1>4 DEF Said, ShellInit
<1>7. None \notin Speaks
    BY DEF None, Speaks
<1>8. Placed(ses, dev, l, v)
    BY <1>1, <1>2, <1>3, <1>5, <1>7 DEF Placed, Obliged
<1>9. Meets(ran.for, ran.at.mode, ran.at.vsys)
    <2>1. PICK r : r = [for |-> NotAsked, at |-> NotAsked] /\ ran = r
        BY DEF ShellInit
    <2>2. ran.for = NotAsked
        BY <2>1
    <2> QED
        BY <2>2, NoneMet
<1> QED
    BY <1>1, <1>3, <1>6, <1>8, <1>9 DEF InPlace

LEMMA PlacedSteps ==
    ASSUME ~Late, Steady, ShellInv, InOrder, InPlace, [ShellNext]_shellVars
    PROVE  InPlace'
<1>1. CASE ShellNext
    <2>1. ~Drains
        BY DrainsNever DEF InPlace
    <2> QED
        BY <1>1, <2>1, ReceivesPlaced, HandlesPlaced, DecidesPlaced, MovesPlaced, WritesLinePlaced, OtherPlaced,
           ReadsUntilPromptPlaced, ReadsMovePlaced, ReadsEofPlaced, TimesOutPlaced DEF ShellNext
<1>2. CASE UNCHANGED shellVars
    <2>1. UNCHANGED <<kind, ahead, dev, stdin, sent, arriving, ses, buf, ran>>
        BY <1>2 DEF shellVars
    <2> QED
        BY <2>1, PlacedNext DEF InPlace
<1> QED
    BY <1>1, <1>2

LEMMA PlaceMeans == ASSUME InPlace, ~ahead PROVE RunsWhereAsked
<1>1. PICK f, a : f = ran.for /\ a = ran.at
    OBVIOUS
<1>2. Meets(f, a.mode, a.vsys)
    BY <1>1 DEF InPlace
<1>3. \A m : m \notin {None, ""} => ~Unsaid(m)
    BY Zenon DEF Unsaid
<1>4. \/ f.mode \in {None, ""}
      \/ plugin.policy = "login-only" /\ f.mode # CONFIG
      \/ a.mode = f.mode
    BY <1>2, <1>3, Zenon DEF Meets, ModeMet
<1>5. f.vsys \in {None, ""} \/ plugin.vsys = "none" \/ a.vsys = f.vsys
    BY <1>2, <1>3, Zenon DEF Meets, VsysMet
<1> QED
    BY <1>1, <1>4, <1>5, Zenon DEF RunsWhereAsked

\* The command of a task runs in the mode and the vsys the task asked for, for any sessions,
\* tasks and however output is cut up, on a device that echoes a line when it takes it up and
\* whose plugin writes nothing ahead of the empty line that asks for a prompt, when a timeout
\* never fires while an answer is on its way (_handle_cmd of Session, switch_vsys and
\* switch_mode of Base): nothing else executes in between, and what the prompt showed is still
\* so when the command is executed.
THEOREM RunsWhereAskedAlways ==
    ASSUME ~Late, Steady
    PROVE  ShellSpec => [](~ahead => RunsWhereAsked)
<1>1. ShellInit => ShellInv /\ InOrder /\ InPlace
    BY ShellBegins, OrderBegins, PlaceBegins
<1>2. ShellInv /\ InOrder /\ InPlace /\ [ShellNext]_shellVars => (ShellInv /\ InOrder /\ InPlace)'
    BY ShellSteps, OrderSteps, PlacedSteps
<1>3. InPlace => (~ahead => RunsWhereAsked)
    BY PlaceMeans
<1> QED
    BY <1>1, <1>2, <1>3, PTL DEF ShellSpec
=============================================================================
