---------------------------- MODULE DeviceShell ----------------------------
(***************************************************************************)
(* An agent session talking to a device over its SSH terminal: deciding    *)
(* the mode from prompts, switching vsys and mode, running a task's        *)
(* command, reading up to a prompt.  The two ends exchange lines and       *)
(* output asynchronously and a read returns whatever has arrived.          *)
(*                                                                         *)
(* What arrives is a sequence of tokens: the echo of a line, the output of *)
(* a command (both end a line), a prompt, and the password question.       *)
(***************************************************************************)
EXTENDS Vendors, FiniteSets

CONSTANTS Kinds,        \* the rows of Pairs to talk to
          MaxTasks,     \* bound: tasks given to a session whose device echoes in order
          MaxAhead,     \* bound: tasks given to one whose device echoes ahead
          Late,         \* BOOLEAN: whether a timeout may fire while an answer is on its way
          Passwords     \* subset of {"right", "wrong"}: the enable password configured

ASSUME KindsAssumption == Kinds \subseteq DOMAIN Pairs
ASSUME PasswordsAssumption == Passwords \subseteq {"right", "wrong"}
ASSUME TasksAssumption == MaxTasks \in Nat /\ MaxAhead \in Nat

VARIABLES kind,         \* the row of Pairs
          secret,       \* Session.enable_password, as right or wrong
          ahead,        \* whether the device echoes a line before it is done with the last
          dev,          \* the handler: mode, vsys, open levels, waiting for a password
          sent,         \* lines written by the agent on their way to the device
          stdin,        \* lines the device received and has not executed
          arriving,     \* tokens written by the device and not read by the agent
          ses,          \* the session: believed mode and vsys, what it still has to do
          buf,          \* the ReadBuffer of the read under way
          tasks,        \* tasks taken so far
          ran           \* ghost: the last line of a task the device executed, and where

shellVars == <<kind, secret, ahead, dev, sent, stdin, arriving, ses, buf, tasks, ran>>

plugin == Pairs[kind].plugin
device == Pairs[kind].device

None == "none"
NotAsked == [mode |-> None, vsys |-> None]
Echo(c)      == [t |-> "echo", is |-> c, v |-> Own]
Output(c)    == [t |-> "output", is |-> c, v |-> Own]
Prompt(s, v) == [t |-> "prompt", is |-> s, v |-> v]
Question     == [t |-> "ask", is |-> "", v |-> Own]

----------------------------------------------------------------------------
(* The device: CommandHandler.run *)

Shown(d) == CASE device.levels = "site" /\ d.vsys # Own ->
                   Prompt(IF d.mode = ENABLE THEN "vs$" ELSE "vs(config)$", d.vsys)
              [] device.levels = "vdom" /\ d.open # <<>> -> Prompt("host(v)#", Last(d.open)[2])
              [] OTHER -> Prompt(device.shows[d.mode], Own)

\* The mode after a command, by the table of the handler; the mode itself when it is no
\* command of that mode.
Obeyed(d, c) ==
  LET to == {r \in device.obeys : r[1] = d.mode /\ r[2] = c}
  IN IF to = {} THEN d.mode ELSE (CHOOSE r \in to : TRUE)[3]

\* ArrayAG: switch <vsys> outside the login mode, exit from a virtual site, and no
\* disable from the config mode of a site.  A site has no login prompt: the handler raises.
SiteObeys(d, c) ==
  CASE d.mode # LOGIN /\ c = "switch v1" -> [d EXCEPT !.vsys = "v1"]
    [] d.mode = ENABLE /\ c = "exit" /\ d.vsys # Own -> [d EXCEPT !.vsys = Own]
    [] d.mode = ENABLE /\ c = "disable" /\ d.vsys # Own -> [d EXCEPT !.mode = Gone]
    [] d.mode = CONFIG /\ c = "disable" /\ d.vsys # Own -> d
    [] OTHER -> [d EXCEPT !.mode = Obeyed(d, c)]

\* HuaweiUSG: return resets everything, switch vsys from the config mode enters the vsys
\* in enable mode, quit from there leaves it.
UsgObeys(d, c) ==
  CASE c = "return" -> [d EXCEPT !.mode = ENABLE, !.vsys = Own]
    [] c = "switch vsys v1" /\ d.vsys = Own /\ d.mode = CONFIG ->
         [d EXCEPT !.mode = ENABLE, !.vsys = "v1"]
    [] c = "quit" /\ d.vsys # Own /\ d.mode = ENABLE -> [d EXCEPT !.vsys = Own]
    [] OTHER -> [d EXCEPT !.mode = Obeyed(d, c)]

\* FortiGate: config and edit open a level, next closes an edit, end closes a config with
\* the edit inside it; exit logs out only when no level is open.
Opens(c) == CASE c = "config vdom" -> <<"config", "vdom">>
              [] c = "config global" -> <<"config", "global">>
              [] c = "config system console" -> <<"config", "console">>
              [] c = "edit v1" -> <<"edit", "v1">>
              [] OTHER -> <<>>
VdomObeys(d, c) ==
  LET inEdit == d.open # <<>> /\ Last(d.open)[1] = "edit"
      closed(n) == [d EXCEPT !.open = SubSeq(@, 1, Len(@) - n)]
  IN CASE Opens(c) # <<>> /\ Opens(c)[1] = "config" -> [d EXCEPT !.open = Append(@, Opens(c))]
       [] Opens(c) # <<>> /\ d.open # <<>> /\ ~inEdit -> [d EXCEPT !.open = Append(@, Opens(c))]
       [] c = "end" /\ d.open # <<>> -> closed(IF inEdit THEN 2 ELSE 1)
       [] c = "next" /\ inEdit -> closed(1)
       [] c = "exit" /\ d.open = <<>> -> [d EXCEPT !.mode = Gone]
       [] OTHER -> d

Executed(d, c) == CASE device.levels = "site" -> SiteObeys(d, c)
                    [] device.levels = "usg" -> UsgObeys(d, c)
                    [] device.levels = "vdom" -> VdomObeys(d, c)
                    [] OTHER -> [d EXCEPT !.mode = Obeyed(d, c)]

\* The line editor of the server echoes a line as it receives it, which may be while an
\* earlier one is still being executed.
DeviceReceives ==
  /\ sent # <<>> /\ dev.mode # Gone
  /\ ahead \/ stdin = <<>>
  /\ sent' = Tail(sent)
  /\ stdin' = Append(stdin, Head(sent))
  /\ arriving' = Append(arriving, Echo(Head(sent).is))
  /\ UNCHANGED <<kind, secret, ahead, dev, ses, buf, tasks, ran>>

\* exec_cmd: lines that switch mode or vsys print an empty line (taken so also in a mode where the
\* handler does not know the line and prints an error).
Silent == {r[2] : r \in device.obeys} \cup
          CASE device.levels = "site" -> {"switch v1", "exit"}
            [] device.levels = "usg" -> {"return", "switch vsys v1", "quit"}
            [] device.levels = "vdom" -> {"config vdom", "config global", "config system console",
                                          "edit v1", "end", "next"}
            [] OTHER -> {}

\* The handler executes a line and shows the prompt again; enable asks for the password
\* first where the handler has one.
Where(d) == [mode |-> d.mode, vsys |-> IF d.open # <<>> THEN Last(d.open)[2] ELSE d.vsys]
DeviceHandles ==
  /\ stdin # <<>> /\ dev.mode # Gone
  /\ stdin' = Tail(stdin)
  /\ LET c == Head(stdin).is
         right == c = "right"
         d == IF dev.asked THEN [dev EXCEPT !.asked = FALSE, !.mode = IF right THEN ENABLE ELSE LOGIN]
              ELSE IF device.asks /\ dev.mode = LOGIN /\ c = "enable" THEN [dev EXCEPT !.asked = TRUE]
              ELSE Executed(dev, c)
     IN /\ dev' = d
        /\ arriving' = arriving \o
             CASE d.mode = Gone -> <<>>
               [] d.asked -> <<Question>>
               [] OTHER -> <<Output(IF dev.asked /\ right THEN "" ELSE c), Shown(d)>>
  /\ ran' = IF Head(stdin).for = NotAsked THEN ran ELSE [for |-> Head(stdin).for, at |-> Where(dev)]
  /\ UNCHANGED <<kind, secret, ahead, sent, ses, buf, tasks>>

----------------------------------------------------------------------------
(* The read buffer *)

\* ReadBuffer.check_pattern: the first prompt of those shapes that stands alone on its
\* line, and after the echo of the command when a command was written.  flag says whether
\* an earlier search of this buffer saw that echo.
Alone(b, i) == i = Len(b.got) \/ b.got[i + 1] \in {Echo("")} \cup {Output(c) : c \in {""} \cup Silent}
EchoIn(b, lo, hi) == \E j \in lo..hi : b.got[j] = Echo(b.cmd)
\* Seeded fault: the echo is not waited for.
HitsAnywhere(b, shapes, flag) ==
  {i \in b.from..Len(b.got) :
     b.got[i].t = "prompt" /\ b.got[i].is \in shapes /\ Alone(b, i)}
Hits(b, shapes, flag) ==
  {i \in b.from..Len(b.got) :
     /\ b.got[i].t = "prompt" /\ b.got[i].is \in shapes /\ Alone(b, i)
     /\ b.cmd = "" \/ flag \/ EchoIn(b, b.from, i)}

\* A search that found nothing leaves the flag raised once the echo is in the buffer, and
\* the position behind the last complete line when the caller asks for it.
Searched(b) == [b EXCEPT !.flag = @ \/ EchoIn(b, b.from, Len(b.got))]
Advanced(b) ==
  LET ends == {i \in b.from..Len(b.got) : b.got[i].t \in {"echo", "output"}}
  IN IF ends = {} THEN b ELSE [b EXCEPT !.from = (CHOOSE i \in ends : \A j \in ends : j <= i) + 1]

\* A question that matched is not found again.  Seeded faults: it is; the position runs
\* past the end.
AtQuestion(b) == b
BeyondQuestion(b) == [b EXCEPT !.from = Len(b.got) + 2]
PastQuestion(b) == [b EXCEPT !.from = Len(b.got) + 1]

\* read_channel: what has arrived, or a first part of it
Chunk(n) == [buf EXCEPT !.got = @ \o SubSeq(arriving, 1, n)]
NoBuffer == [cmd |-> "", got |-> <<>>, from |-> 1, flag |-> FALSE]
Reading(c) == [NoBuffer EXCEPT !.cmd = c]

----------------------------------------------------------------------------
(* The session *)

\* What a session still has to do, as a list of steps.
Step(do, x) == [do |-> do, is |-> x]
Lines(cs)   == [i \in DOMAIN cs |-> Step("line", cs[i])]
Paging(p)   == IF p.paging = <<>> THEN <<>>
               ELSE <<Step("decide", ""), Step("vsys", Own), Step("mode", p.pagingIn)>> \o Lines(p.paging)
Beginning(p) == (IF p.drains THEN <<Step("drain", "")>> ELSE <<>>)
                \o <<Step("decide", "")>> \o Paging(p)

\* switch_vsys of the plugin, from the vsys the session believes in.
SwitchVsys(s, v) ==
  CASE plugin.vsys = "site" ->
         <<Step("mode", ENABLE), Step("line", IF v = Own THEN "exit" ELSE "switch v1"), Step("believe", v)>>
    [] plugin.vsys = "usg" ->
         <<Step("mode", CONFIG), Step("line", "switch vsys v1"), Step("believe", v)>>
    [] plugin.vsys = "vdom" ->
         <<Step("mode", ENABLE)>>
         \o (CASE v = Own -> <<Step("line", "end")>>
               [] v # Own /\ s.vsys = Own -> Lines(<<"config vdom", "edit v1">>)
               [] OTHER -> Lines(<<"next", "edit v1">>))
         \o <<Step("believe", v)>>
    [] OTHER -> <<Step("believe", v)>>

\* The command that moves one mode towards the target, and the shapes that mean it worked
\* and that it failed.
Move(from, to) ==
  CASE from = LOGIN -> [cmd |-> "enable", becomes |-> ENABLE, fails |-> LOGIN]
    [] from = ENABLE /\ to = LOGIN -> [cmd |-> "disable", becomes |-> LOGIN, fails |-> ENABLE]
    [] from = ENABLE /\ to = CONFIG -> [cmd |-> plugin.config, becomes |-> CONFIG, fails |-> ENABLE]
    [] OTHER -> [cmd |-> plugin.exit, becomes |-> ENABLE, fails |-> CONFIG]

Union == UNION {plugin.sees[plugin.decides[i]] : i \in DOMAIN plugin.decides}
Now == Head(ses.todo)
Rest(s)   == [s EXCEPT !.todo = Tail(@), !.wait = None]
\* Any exception: a task is answered with it, a session that was beginning is given up.
Failed(s) == [s EXCEPT !.todo = <<>>, !.wait = None, !.task = NotAsked, !.up = s.begun]

Write(cs) == sent' = sent \o [i \in DOMAIN cs |-> [is |-> cs[i], for |-> NotAsked]]
Await(w, c) == /\ ses' = [ses EXCEPT !.wait = w]
               /\ buf' = Reading(c)

\* _get_prompt: the first prompt among the last two lines that were read
Starts(g) == {i \in DOMAIN g : i = 1 \/ g[i - 1].t \in {"echo", "output"}}
LastTwo(g) == {i \in Starts(g) : Cardinality({j \in Starts(g) : j > i}) < 2}
Candidates(b) == {i \in LastTwo(b.got) : b.got[i].t = "prompt" /\ b.got[i].is \in Union /\ Alone(b, i)}
FirstOf(S) == CHOOSE i \in S : \A j \in S : i <= j

\* decide_current_mode and decide_current_vsys of the plugin
ModeOf(p) == plugin.decides[FirstOf({i \in DOMAIN plugin.decides : p.is \in plugin.sees[plugin.decides[i]]})]
\* Seeded fault: decided once per session.
DecidedOnce(s, p) == IF s.begun THEN Rest(s) ELSE [Rest(s) EXCEPT !.mode = ModeOf(p), !.vsys = Own]
Decided(s, p) ==
  [Rest(s) EXCEPT !.mode = ModeOf(p), !.vsys = IF plugin.vsys \in {"site", "vdom"} THEN p.v ELSE Own]

----------------------------------------------------------------------------
(* Steps of the session that write *)

Ready(do) == ses.wait = None /\ ses.todo # <<>> /\ Now.do = do /\ ~(dev.mode = Gone /\ arriving = <<>>)
AgentOnly == UNCHANGED <<kind, secret, ahead, dev, stdin, arriving, tasks, ran>>

\* _ignore_password_change reads up to a prompt before anything is written
Drains == /\ Ready("drain") /\ Await("drain", "") /\ UNCHANGED sent /\ AgentOnly

\* _decide_init_state writes an empty line, after the exit command where the plugin has it
Decides ==
  /\ Ready("decide")
  /\ Write(IF plugin.leaves = "always" \/ (plugin.leaves = "config" /\ ses.mode = CONFIG)
           THEN <<plugin.exit, "">> ELSE <<"">>)
  /\ Await("decide", "") /\ AgentOnly

SwitchesVsys ==
  /\ Ready("vsys")
  /\ ses' = IF Now.is \in {"", ses.vsys} THEN Rest(ses)
            ELSE [ses EXCEPT !.todo = SwitchVsys(ses, Now.is) \o Tail(@)]
  /\ UNCHANGED <<sent, buf>> /\ AgentOnly

Believes ==
  /\ Ready("believe")
  /\ ses' = [Rest(ses) EXCEPT !.vsys = Now.is, !.mode = IF plugin.vsys = "usg" THEN ENABLE ELSE @]
  /\ UNCHANGED <<sent, buf>> /\ AgentOnly

\* switch_mode: nothing to do, nothing done by the policy of Cisco, or the loop
SwitchesMode ==
  /\ Ready("mode")
  /\ LET m == Now.is
         skips == plugin.policy = "login-only" /\ (m = ENABLE \/ (m = LOGIN /\ ses.mode = ENABLE))
     IN ses' = IF m \in {"", ses.mode} \/ skips THEN Rest(ses)
               ELSE IF m \notin Range(plugin.decides) THEN Failed(ses)
               ELSE [ses EXCEPT !.todo = <<Step("moving", m)>> \o Tail(@)]
  /\ UNCHANGED <<sent, buf>> /\ AgentOnly

Moves ==
  /\ Ready("moving")
  /\ IF ses.mode = Now.is THEN ses' = Rest(ses) /\ UNCHANGED <<sent, buf>>
     ELSE LET c == Move(ses.mode, Now.is).cmd IN Write(<<c>>) /\ Await("moving", c)
  /\ AgentOnly

\* exec_cmd; the line of a task carries what the task asked for (ghost)
WritesLine ==
  /\ Ready("line") \/ Ready("own")
  /\ sent' = Append(sent, [is |-> Now.is, for |-> IF Now.do = "own" THEN ses.task ELSE NotAsked])
  /\ Await(Now.do, Now.is) /\ AgentOnly

\* The list is done: the session is up, or the task has its result.
Finishes ==
  /\ ses.todo = <<>> /\ ses.wait = None /\ ((~ses.begun /\ ses.up) \/ ses.task # NotAsked)
  /\ ses' = [ses EXCEPT !.begun = TRUE, !.task = NotAsked]
  /\ buf' = NoBuffer /\ UNCHANGED sent /\ AgentOnly

\* A write on a closed connection raises.
WriteFails ==
  /\ ses.wait = None /\ ses.todo # <<>> /\ dev.mode = Gone /\ arriving = <<>>
  /\ ses' = Failed(ses) /\ UNCHANGED <<sent, buf>> /\ AgentOnly

----------------------------------------------------------------------------
(* Steps of the session that read *)

Reads(n) == /\ n \in 1..Len(arriving)
            /\ arriving' = SubSeq(arriving, n + 1, Len(arriving))
            /\ UNCHANGED <<kind, secret, ahead, dev, stdin, tasks, ran>>

\* read_channel_until, for the drain, the prompt and the answer to a line
ReadsUntilPrompt ==
  /\ ses.wait \in {"drain", "decide", "reread", "line", "own"}
  /\ \E n \in 1..Len(arriving) :
       LET b == Chunk(n)
           c == Candidates(b)
           p == b.got[FirstOf(c)]
       IN /\ Reads(n)
          /\ IF Hits(b, Union, b.flag) = {}
             THEN /\ buf' = IF plugin.moves THEN Advanced(Searched(b)) ELSE Searched(b)
                  /\ UNCHANGED <<ses, sent>>
             ELSE IF ses.wait \in {"drain", "line", "own"}
             THEN ses' = Rest(ses) /\ buf' = b /\ UNCHANGED sent
             ELSE IF c = {}
             THEN ses' = Failed(ses) /\ buf' = b /\ UNCHANGED sent
             ELSE IF ses.wait = "decide" /\ plugin.leaves = "level" /\ p.v \notin {Own, ses.vsys}
             THEN Write(<<"end">>) /\ Await("reread", "")
             ELSE ses' = Decided(ses, p) /\ buf' = b /\ UNCHANGED sent

\* enable, disable, config and exit_config read chunk by chunk: first the prompt of success,
\* then the one of failure, then the password question.  enable of Cisco disables paging
\* once more; config of the ASA sets the width the first time.
ReadsMove ==
  /\ ses.wait = "moving"
  /\ \E n \in 1..Len(arriving) :
       LET m == Move(ses.mode, Now.is)
           b == Chunk(n)
           b1 == Searched(b)
           asked == {i \in b.from..Len(b.got) : b.got[i].t = "ask"}
           more == IF m.cmd = "enable" /\ plugin.policy = "login-only" THEN Paging(plugin)
                   ELSE IF m.becomes = CONFIG /\ plugin.width /\ ~ses.wide
                   THEN <<Step("line", "terminal width 0")>> ELSE <<>>
       IN /\ Reads(n)
          /\ IF Hits(b, plugin.sees[m.becomes], b.flag) # {}
             THEN /\ ses' = [ses EXCEPT !.mode = m.becomes, !.wait = None, !.todo = more \o @,
                                        !.wide = @ \/ m.becomes = CONFIG]
                  /\ buf' = b /\ UNCHANGED sent
             ELSE IF Hits(b1, plugin.sees[m.fails], b1.flag) # {}
             THEN ses' = Failed(ses) /\ buf' = b /\ UNCHANGED sent
             ELSE IF m.cmd = "enable" /\ plugin.asks /\ asked # {}
             THEN /\ Write(<<secret>>)
                  /\ buf' = PastQuestion(b1) /\ UNCHANGED ses
             ELSE /\ buf' = IF m.cmd = "enable" /\ ~plugin.asks THEN b1 ELSE Advanced(b1)
                  /\ UNCHANGED <<ses, sent>>

\* The connection is closed and everything was read: a line ends with what there is, a
\* prompt is not found, and the next move cannot be written.
ReadsEof ==
  /\ ses.wait # None /\ dev.mode = Gone /\ arriving = <<>>
  /\ ses' = IF ses.wait \in {"line", "own", "drain"} THEN Rest(ses) ELSE Failed(ses)
  /\ UNCHANGED <<sent, buf>> /\ AgentOnly

\* async_timeout and wait_for of the task: what was waited for is given up
TimesOut ==
  /\ ses.wait # None
  /\ Late \/ (sent = <<>> /\ stdin = <<>> /\ arriving = <<>> /\ dev.mode # Gone)
  /\ ses' = Failed(ses) /\ buf' = NoBuffer /\ UNCHANGED sent /\ AgentOnly

\* send_cmd and _dequeue: one command, where it shall run
Bound == IF ahead THEN MaxAhead ELSE MaxTasks
Commands == {"show", plugin.config, plugin.exit}
Vsyses == IF plugin.vsys = "none" THEN {"", Own} ELSE {"", Own, "v1"}
TakesTask ==
  /\ ses.begun /\ ses.up /\ ses.task = NotAsked /\ tasks < Bound /\ dev.mode # Gone
  /\ \E m \in Range(plugin.decides) \cup {""}, v \in Vsyses, c \in Commands :
       ses' = [ses EXCEPT !.task = [mode |-> m, vsys |-> v],
                          !.todo = <<Step("decide", ""), Step("vsys", v), Step("mode", m), Step("own", c)>>]
  /\ tasks' = tasks + 1
  /\ buf' = NoBuffer
  /\ UNCHANGED <<kind, secret, ahead, dev, sent, stdin, arriving, ran>>

----------------------------------------------------------------------------
ShellInit ==
  /\ kind \in Kinds /\ secret \in Passwords /\ ahead \in BOOLEAN /\ (ahead => MaxAhead > 0)
  /\ dev = [mode |-> device.start, vsys |-> Own, open |-> <<>>, asked |-> FALSE]
  /\ sent = <<>> /\ stdin = <<>>
  /\ arriving = <<Output("welcome"), Shown(dev)>>
  /\ ses = [mode |-> None, vsys |-> Own, todo |-> Beginning(plugin), wait |-> None,
            task |-> NotAsked, begun |-> FALSE, up |-> TRUE, wide |-> FALSE]
  /\ buf = NoBuffer /\ tasks = 0
  /\ ran = [for |-> NotAsked, at |-> NotAsked]

ShellNext == \/ DeviceReceives \/ DeviceHandles
             \/ Drains \/ Decides \/ SwitchesVsys \/ Believes \/ SwitchesMode \/ Moves
             \/ WritesLine \/ Finishes \/ WriteFails
             \/ ReadsUntilPrompt \/ ReadsMove \/ ReadsEof \/ TimesOut \/ TakesTask

ShellSpec == ShellInit /\ [][ShellNext]_shellVars

----------------------------------------------------------------------------
(* Properties *)

ShellTypeOK ==
  /\ kind \in Kinds /\ secret \in Passwords /\ tasks \in 0..Bound
  /\ dev.mode \in Modes \cup {Gone} /\ dev.asked \in BOOLEAN
  /\ ses.mode \in Modes \cup {None} /\ (ses.begun => ses.mode # None)
  /\ ses.wait # None => ses.todo # <<>>
  /\ buf.from \in 1..(Len(buf.got) + 1)

\* The command of a task runs in the mode and the vsys the task asked for, whatever earlier
\* commands did to the device and however its output was cut up (Cisco never sends enable
\* or disable for a task, and most plugins have no vsys).  On a device that echoes ahead this
\* is so for the first task only: a later one may meet an old prompt that passes for the
\* answer to its switch of the mode.
RunsWhereAsked ==
  (ahead => tasks <= 1) =>
  /\ (ran.for.mode \notin {None, ""} /\ ~(plugin.policy = "login-only" /\ ran.for.mode # CONFIG))
       => ran.at.mode = ran.for.mode
  /\ (ran.for.vsys \notin {None, ""} /\ plugin.vsys # "none") => ran.at.vsys = ran.for.vsys

\* What is taken for an answer is one, on a device that echoes a line when it takes it up:
\* the result of a task holds the output of its own command, and a switch of the mode is
\* reported as refused only when the device has dealt with it, not on an old prompt.
OwnAnswer ==
  [][~ahead =>
       /\ ses.wait = "own" /\ ses'.wait = None /\ ses'.task # NotAsked /\ dev.mode # Gone
            => \E i \in DOMAIN buf'.got : buf'.got[i] = Output(Now.is)
       /\ ses.wait = "moving" /\ ses'.wait = None /\ ses'.todo = <<>> /\ ses'.task = NotAsked
            /\ arriving' # arriving => sent = <<>> /\ stdin = <<>>]_shellVars

\* The enable password is written only to a device that is asking for it: nowhere else is
\* it a command that is logged and echoed.
SecretOnlyAsked ==
  [][(stdin # <<>> /\ stdin' = Tail(stdin) /\ Head(stdin).is \in Passwords) => dev.asked]_shellVars
=============================================================================
