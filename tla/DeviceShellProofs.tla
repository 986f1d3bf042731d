------------------------- MODULE DeviceShellProofs --------------------------
(***************************************************************************)
(* Proofs about DeviceShell, for any rows of Pairs, any number of tasks,    *)
(* devices that echo in order or ahead, and chunks of any size.            *)
(***************************************************************************)
EXTENDS DeviceShell, SequenceTheorems, WellFoundedInduction, TLAPS

-----------------------------------------------------------------------------
(* The tables: what plugins write.                                         *)

\* enable, and what the configured password may be: no plugin has them among its
\* commands, so they come from Move and from the answer to the question only.  No plugin
\* has the empty line among them either: that one asks for a prompt.
Loud == {"enable", "right", "wrong"}
Forbidden == Loud \cup {""}
Worded(q) == \E S : q \in Seq(S) /\ S \cap Forbidden = {}
Spoken(p) == p.config \notin Forbidden /\ p.exit \notin Forbidden /\ Worded(p.paging)
\* The plugins of devices that ask for a password write one line before a prompt and
\* read nothing first, and answer the question.
Prompted(p) == p.leaves = "never" /\ p.drains = FALSE /\ p.asks = TRUE

LEMMA WordedLists ==
    /\ Worded(<<>>)
    /\ \A v : v \notin Forbidden => Worded(<<v>>)
    /\ \A v, w : v \notin Forbidden /\ w \notin Forbidden => Worded(<<v, w>>)
    /\ \A v, w, x : v \notin Forbidden /\ w \notin Forbidden /\ x \notin Forbidden =>
          Worded(<<v, w, x>>)
    /\ \A q, r : Worded(q) /\ Worded(r) => Worded(q \o r)
<1>1. Worded(<<>>)
    <2>1. <<>> \in Seq({}) /\ {} \cap Forbidden = {}
        OBVIOUS
    <2> QED
        BY <2>1 DEF Worded
<1>2. ASSUME NEW v, NEW w, NEW x, v \notin Forbidden, w \notin Forbidden, x \notin Forbidden
      PROVE  Worded(<<v>>) /\ Worded(<<v, w>>) /\ Worded(<<v, w, x>>)
    <2> DEFINE S == {v, w, x}
    <2>1. <<v>> \in Seq(S) /\ <<v, w>> \in Seq(S) /\ <<v, w, x>> \in Seq(S)
        OBVIOUS
    <2>2. S \cap Forbidden = {}
        BY <1>2
    <2> HIDE DEF S
    <2> QED
        BY <2>1, <2>2 DEF Worded
<1>3. ASSUME NEW q, NEW r, Worded(q), Worded(r) PROVE Worded(q \o r)
    <2>1. PICK S : q \in Seq(S) /\ S \cap Forbidden = {}
        BY <1>3 DEF Worded
    <2>2. PICK T : r \in Seq(T) /\ T \cap Forbidden = {}
        BY <1>3 DEF Worded
    <2> DEFINE U == S \cup T
    <2>3. q \in Seq(U) /\ r \in Seq(U)
        BY <2>1, <2>2, SeqMonotonic
    <2>4. U \cap Forbidden = {}
        BY <2>1, <2>2
    <2> HIDE DEF U
    <2>5. q \o r \in Seq(U)
        BY <2>3, ConcatProperties
    <2> QED
        BY <2>4, <2>5 DEF Worded
<1> QED
    BY <1>1, <1>2, <1>3

LEMMA PagingTexts ==
    /\ Worded(<<"terminal length 0">>) /\ Worded(<<"more off">>) /\ Worded(<<"terminal pager 0">>)
    /\ Worded(<<"no page">>) /\ Worded(<<"screen-length 0 temporary">>)
    /\ Worded(<<"screen-length disable">>) /\ Worded(<<"set cli pager off">>)
    /\ Worded(<<"set clienv rows 0">>) /\ Worded(<<"language-mode chinese", "terminal line 0">>)
    /\ Worded(<<"config global">>) /\ Worded(<<"end">>) /\ Worded(<<>>)
    /\ Worded(<<"config system console", "set output standard", "end">>)
<1>1. \A w : w \notin Forbidden => Worded(<<w>>)
    BY WordedLists
<1>2. "terminal length 0" \notin Forbidden /\ "more off" \notin Forbidden
      /\ "terminal pager 0" \notin Forbidden /\ "no page" \notin Forbidden
      /\ "screen-length 0 temporary" \notin Forbidden /\ "screen-length disable" \notin Forbidden
      /\ "set cli pager off" \notin Forbidden /\ "set clienv rows 0" \notin Forbidden
      /\ "config global" \notin Forbidden /\ "end" \notin Forbidden
    BY DEF Loud, Forbidden
<1>3. Worded(<<"language-mode chinese", "terminal line 0">>)
    BY WordedLists DEF Loud, Forbidden
<1>4. Worded(<<"config system console", "set output standard", "end">>)
    BY WordedLists DEF Loud, Forbidden
<1> QED
    BY <1>1, <1>2, <1>3, <1>4, WordedLists

LEMMA IosSpoken ==
    /\ Spoken(Arista) /\ Spoken(ChaiTin) /\ Spoken(MaiPu) /\ Spoken(Venustech) /\ Spoken(Cisco)
    /\ Spoken(CiscoASA) /\ Spoken(ArrayAG)
    /\ Prompted(CiscoASA) /\ Prompted(ArrayAG)
<1>1. Spoken(Arista)
    BY PagingTexts DEF Spoken, Arista, BasePlugin, Loud, Forbidden
<1>2. Spoken(ChaiTin)
    BY PagingTexts DEF Spoken, ChaiTin, BasePlugin, Loud, Forbidden
<1>3. Spoken(MaiPu)
    BY PagingTexts DEF Spoken, MaiPu, BasePlugin, Loud, Forbidden
<1>4. Spoken(Venustech)
    BY PagingTexts DEF Spoken, Venustech, BasePlugin, Loud, Forbidden
<1>5. Spoken(Cisco)
    BY PagingTexts DEF Spoken, Cisco, BasePlugin, Loud, Forbidden
<1>6. Spoken(CiscoASA) /\ Prompted(CiscoASA)
    BY PagingTexts DEF Spoken, Prompted, CiscoASA, Cisco, BasePlugin, Loud, Forbidden
<1>7. Spoken(ArrayAG) /\ Prompted(ArrayAG)
    BY PagingTexts DEF Spoken, Prompted, ArrayAG, ArrayBase, BasePlugin, Loud, Forbidden
<1> QED
    BY <1>1, <1>2, <1>3, <1>4, <1>5, <1>6, <1>7

LEMMA OthersSpoken ==
    /\ Spoken(Huawei) /\ Spoken(HuaweiUSG) /\ Spoken(H3C) /\ Spoken(Dptech) /\ Spoken(Hillstone)
    /\ Spoken(Juniper) /\ Spoken(Paloalto) /\ Spoken(QiAnXin)
    /\ Spoken(CheckPoint) /\ Spoken(TopSec) /\ Spoken(FortiGate)
<1>1. Spoken(Huawei)
    BY PagingTexts DEF Spoken, Huawei, NoLogin, BasePlugin, Loud, Forbidden
<1>2. Spoken(HuaweiUSG)
    BY PagingTexts DEF Spoken, HuaweiUSG, Huawei, NoLogin, BasePlugin, Loud, Forbidden
<1>3. Spoken(H3C)
    BY PagingTexts DEF Spoken, H3C, NoLogin, BasePlugin, Loud, Forbidden
<1>4. Spoken(Dptech)
    BY PagingTexts DEF Spoken, Dptech, NoLogin, BasePlugin, Loud, Forbidden
<1>5. Spoken(Hillstone)
    BY PagingTexts DEF Spoken, Hillstone, NoLogin, BasePlugin, Loud, Forbidden
<1>6. Spoken(Juniper)
    BY PagingTexts DEF Spoken, Juniper, NoLogin, BasePlugin, Loud, Forbidden
<1>7. Spoken(Paloalto)
    BY PagingTexts DEF Spoken, Paloalto, NoLogin, BasePlugin, Loud, Forbidden
<1>8. Spoken(QiAnXin)
    BY PagingTexts DEF Spoken, QiAnXin, NoLogin, BasePlugin, Loud, Forbidden
<1>9. Spoken(CheckPoint) /\ Spoken(TopSec)
    BY PagingTexts DEF Spoken, CheckPoint, TopSec, EnableOnly, BasePlugin, Loud, Forbidden
<1>10. Spoken(FortiGate)
    <2>1. Fortinet.paging = <<"config system console", "set output standard", "end">>
          /\ FortiGate.paging = <<"config global">> \o Fortinet.paging \o <<"end">>
          /\ FortiGate.config = "configure terminal" /\ FortiGate.exit = "exit"
        BY DEF FortiGate, Fortinet, EnableOnly, BasePlugin
    <2>2. Worded(<<"config global">> \o Fortinet.paging)
        BY <2>1, WordedLists, PagingTexts
    <2>3. Worded(FortiGate.paging)
        BY <2>1, <2>2, WordedLists, PagingTexts
    <2> QED
        BY <2>1, <2>3 DEF Spoken, Loud, Forbidden
<1> QED
    BY <1>1, <1>2, <1>3, <1>4, <1>5, <1>6, <1>7, <1>8, <1>9, <1>10

LEMMA OnlyTwoAsk ==
    /\ AristaEOS.asks = FALSE /\ ChaitinCTDSG.asks = FALSE /\ MaipuNSS.asks = FALSE
    /\ VenustechUSG.asks = FALSE /\ Nexus.asks = FALSE /\ HuaweiCE.asks = FALSE /\ SecPath.asks = FALSE
    /\ VSR.asks = FALSE /\ FW1000.asks = FALSE /\ SG6000.asks = FALSE /\ JuniperEX.asks = FALSE
    /\ JuniperSRX.asks = FALSE /\ PaloaltoPA.asks = FALSE /\ NSG.asks = FALSE /\ USG.asks = FALSE
    /\ Gaia.asks = FALSE /\ NGFW.asks = FALSE /\ FortiGateNG.asks = FALSE
    /\ ASA.asks = TRUE /\ AG.asks = TRUE
<1>1. AristaEOS.asks = FALSE
    BY DEF AristaEOS
<1>2. ChaitinCTDSG.asks = FALSE /\ MaipuNSS.asks = FALSE /\ VenustechUSG.asks = FALSE
    BY DEF ChaitinCTDSG, MaipuNSS, VenustechUSG, AristaEOS
<1>3. Nexus.asks = FALSE
    BY DEF Nexus, AristaEOS
<1>4. ASA.asks = TRUE
    BY DEF ASA, AristaEOS
<1>5. AG.asks = TRUE
    BY DEF AG, AristaEOS
<1>6. \A shows, config, leave, quit : TwoMode(shows, config, leave, quit).asks = FALSE
    BY DEF TwoMode
<1>7. HuaweiCE.asks = FALSE /\ SecPath.asks = FALSE /\ VSR.asks = FALSE /\ SG6000.asks = FALSE
      /\ JuniperEX.asks = FALSE /\ JuniperSRX.asks = FALSE /\ PaloaltoPA.asks = FALSE
    BY <1>6 DEF HuaweiCE, SecPath, VSR, SG6000, JuniperEX, JuniperSRX, PaloaltoPA
<1>8. FW1000.asks = FALSE
    BY DEF FW1000, TwoMode
<1>9. NSG.asks = FALSE
    BY DEF NSG, TwoMode
<1>10. USG.asks = FALSE
    BY DEF USG, TwoMode
<1>11. Gaia.asks = FALSE /\ NGFW.asks = FALSE
    BY DEF Gaia, NGFW
<1>12. FortiGateNG.asks = FALSE
    BY DEF FortiGateNG, Gaia
<1> QED
    BY <1>1, <1>2, <1>3, <1>4, <1>5, <1>7, <1>8, <1>9, <1>10, <1>11, <1>12

LEMMA PairsProper ==
    \A k \in DOMAIN Pairs :
        /\ Spoken(Pairs[k].plugin) /\ Pairs[k].device.asks \in BOOLEAN
        /\ Pairs[k].device.asks => Prompted(Pairs[k].plugin)
<1> DEFINE Fits(p, d) == Spoken(p) /\ d.asks \in BOOLEAN /\ (d.asks => Prompted(p))
<1>1. /\ Fits(Arista, AristaEOS) /\ Fits(ChaiTin, ChaitinCTDSG) /\ Fits(MaiPu, MaipuNSS)
      /\ Fits(Venustech, VenustechUSG) /\ Fits(CiscoASA, ASA) /\ Fits(Cisco, Nexus)
      /\ Fits(ArrayAG, AG) /\ Fits(Huawei, HuaweiCE) /\ Fits(HuaweiUSG, USG)
      /\ Fits(H3C, SecPath) /\ Fits(H3C, VSR) /\ Fits(Dptech, FW1000)
      /\ Fits(Hillstone, SG6000) /\ Fits(Juniper, JuniperEX) /\ Fits(Juniper, JuniperSRX)
      /\ Fits(Paloalto, PaloaltoPA) /\ Fits(QiAnXin, NSG) /\ Fits(CheckPoint, Gaia)
      /\ Fits(TopSec, NGFW) /\ Fits(FortiGate, FortiGateNG)
    BY IosSpoken, OthersSpoken, OnlyTwoAsk
<1> HIDE DEF Fits
<1>2. \A k \in DOMAIN Pairs : Fits(Pairs[k].plugin, Pairs[k].device)
    BY <1>1 DEF Pairs
<1> QED
    BY <1>2 DEF Fits

-----------------------------------------------------------------------------
(* The conversation: l is what the device has to execute, u what the agent *)
(* has to read.  Both are short, because the agent writes one line at a    *)
(* time and waits for a prompt.                                            *)

IsList(s) == \E S : s \in Seq(S)

Secrets == {"right", "wrong"}

Answers(u) == {i \in DOMAIN u : u[i].t \in {"prompt", "ask"}}
Asks(u)    == {i \in DOMAIN u : u[i].t = "ask"}
Harmless(l) == \A i \in DOMAIN l : l[i].is \notin Secrets
Sober(l) == \A i \in DOMAIN l : l[i].is # "enable"

\* At most one prompt is missing, or one unread; while a line is answered, one more.
AtMostOne(l, u) ==
    /\ Len(l) <= 1 /\ (Len(l) = 1 => Answers(u) = {})
    /\ \A i, j \in Answers(u) : i = j
AtMostTwo(l, u) ==
    /\ Len(l) <= 2 /\ (Len(l) = 2 => Answers(u) = {})
    /\ Len(l) = 1 => \A i, j \in Answers(u) : i = j
    /\ \A i, j, k \in Answers(u) : i = j \/ j = k \/ i = k

\* A session at rest has no password on its way; Clean: nor an enable or a question, which
\* a session that believes itself in the login mode knows.
Idle(l, u) == AtMostOne(l, u) /\ Harmless(l)
Clean(l, u) == Asks(u) = {} /\ Sober(l)
\* Waiting for the answer to a line: every question is old, a prompt comes after it.
Waiting(l, u) ==
    /\ AtMostTwo(l, u) /\ Harmless(l)
    /\ \A i \in Asks(u) : l # <<>> \/ \E j \in Answers(u) : j > i
    /\ l # <<>> => l[Len(l)].is # "enable"
\* Waiting for the answer to enable: a question is the last thing that was said, and a
\* password on its way goes to the device that asked it.
Enabling(l, u, asked) ==
    /\ AtMostTwo(l, u)
    /\ \A i \in Asks(u) : l = <<>> /\ asked = TRUE /\ \A j \in Answers(u) : j <= i
    /\ \A i \in DOMAIN l : l[i].is = "enable" => i = Len(l)
    /\ \A i \in DOMAIN l : l[i].is \in Secrets => Len(l) = 1 /\ asked = TRUE /\ Answers(u) = {}

\* How the two lists change.
Extended(m, l, x) ==
    Len(m) = Len(l) + 1 /\ m[Len(m)] = x /\ \A i \in 1..Len(l) : m[i] = l[i]
Shorter(m, l) == Len(m) = Len(l) - 1 /\ \A i \in 1..Len(m) : m[i] = l[i + 1]
Behind(v, u, n) == n \in 0..Len(u) /\ Len(v) = Len(u) - n /\ \A i \in 1..Len(v) : v[i] = u[i + n]
Answered(v, u, t) ==
    /\ Len(v) > Len(u) /\ \A i \in 1..Len(u) : v[i] = u[i]
    /\ v[Len(v)].t = t
    /\ \A i \in Len(u) + 1..Len(v) - 1 : v[i].t \notin {"prompt", "ask"}

LEMMA ListFacts ==
    \A s : IsList(s) => Len(s) \in Nat /\ DOMAIN s = 1..Len(s) /\ (s = <<>> <=> Len(s) = 0)
BY DEF IsList

LEMMA AnsweredFacts ==
    ASSUME NEW u, NEW v, NEW t, IsList(u), IsList(v), Answered(v, u, t)
    PROVE  /\ Answers(v) \subseteq Answers(u) \cup {Len(v)}
           /\ t = "prompt" => Asks(v) = Asks(u) /\ Len(v) \in Answers(v)
           /\ Asks(v) \subseteq Asks(u) \cup {Len(v)}
           /\ \A i \in Answers(u) : i < Len(v)
           /\ Answers(u) \subseteq Answers(v)
<1>1. Len(u) \in Nat /\ Len(v) \in Nat /\ DOMAIN u = 1..Len(u) /\ DOMAIN v = 1..Len(v)
    BY ListFacts
<1>2. \A i \in DOMAIN v : i \in DOMAIN u \/ i = Len(v) \/ i \in Len(u) + 1..Len(v) - 1
    BY <1>1
<1>3. DOMAIN u \subseteq DOMAIN v /\ Len(v) \in DOMAIN v /\ \A i \in DOMAIN u : i < Len(v)
    BY <1>1 DEF Answered
<1>4. \A i \in DOMAIN u : v[i] = u[i]
    BY <1>1 DEF Answered
<1> QED
    BY <1>2, <1>3, <1>4 DEF Answered, Answers, Asks

LEMMA ShorterFacts ==
    ASSUME NEW l, NEW m, IsList(l), IsList(m), Shorter(m, l), l # <<>>
    PROVE  /\ Len(l) \in Nat /\ Len(m) \in Nat /\ Len(m) = Len(l) - 1
           /\ \A i \in DOMAIN m : i + 1 \in DOMAIN l /\ m[i] = l[i + 1]
           /\ m # <<>> => m[Len(m)] = l[Len(l)]
           /\ (m = <<>> <=> Len(l) = 1) /\ 1 \in DOMAIN l
BY ListFacts DEF Shorter

LEMMA HandlesIdle ==
    ASSUME NEW l, NEW m, NEW u, NEW v, NEW t \in {"prompt", "ask"},
           IsList(l), IsList(m), IsList(u), IsList(v), l # <<>>,
           Shorter(m, l), Answered(v, u, t), Idle(l, u)
    PROVE  /\ Idle(m, v)
           /\ Clean(l, u) /\ (t = "ask" => l[1].is = "enable") => Clean(m, v)
<1>1. Len(l) = 1 /\ Len(m) = 0 /\ DOMAIN m = {} /\ Answers(u) = {} /\ 1 \in DOMAIN l
    BY ShorterFacts, ListFacts DEF Idle, AtMostOne
<1>2. Answers(v) \subseteq {Len(v)}
    BY <1>1, AnsweredFacts
<1>3. Idle(m, v)
    BY <1>1, <1>2 DEF Idle, AtMostOne, Harmless
<1>4. ASSUME Clean(l, u), t = "ask" => l[1].is = "enable" PROVE Clean(m, v)
    <2>1. t = "prompt"
        BY <1>1, <1>4 DEF Clean, Sober
    <2>2. Asks(v) = {}
        BY <2>1, <1>4, AnsweredFacts DEF Clean
    <2> QED
        BY <2>2, <1>1 DEF Clean, Sober
<1> QED
    BY <1>3, <1>4

LEMMA HandlesTwo ==
    ASSUME NEW l, NEW m, NEW u, NEW v, NEW t \in {"prompt", "ask"},
           IsList(l), IsList(m), IsList(u), IsList(v), l # <<>>,
           Shorter(m, l), Answered(v, u, t), AtMostTwo(l, u)
    PROVE  AtMostTwo(m, v)
<1>1. Len(l) \in {1, 2} /\ Len(m) = Len(l) - 1
    <2>1. Len(l) \in Nat /\ Len(l) # 0 /\ Len(m) = Len(l) - 1
        BY ListFacts, ShorterFacts
    <2>2. Len(l) <= 2
        BY DEF AtMostTwo
    <2> QED
        BY <2>1, <2>2
<1>2. Answers(v) \subseteq Answers(u) \cup {Len(v)}
    BY AnsweredFacts
<1>3. CASE Len(l) = 2
    BY <1>1, <1>2, <1>3 DEF AtMostTwo
<1>4. CASE Len(l) = 1
    BY <1>1, <1>2, <1>4 DEF AtMostTwo
<1> QED
    BY <1>1, <1>3, <1>4

LEMMA HandlesWaiting ==
    ASSUME NEW l, NEW m, NEW u, NEW v, NEW t \in {"prompt", "ask"},
           IsList(l), IsList(m), IsList(u), IsList(v), l # <<>>,
           Shorter(m, l), Answered(v, u, t), Waiting(l, u), t = "ask" => l[1].is = "enable"
    PROVE  Waiting(m, v)
<1>1. AtMostTwo(m, v)
    BY HandlesTwo DEF Waiting
<1>2. Harmless(m)
    BY ShorterFacts DEF Waiting, Harmless
<1>3. m # <<>> => m[Len(m)].is # "enable"
    BY ShorterFacts DEF Waiting
<1>4. ASSUME NEW i \in Asks(v) PROVE m # <<>> \/ \E j \in Answers(v) : j > i
    <2>1. CASE t = "prompt"
        BY <2>1, AnsweredFacts DEF Asks, Answers
    <2>2. CASE t = "ask"
        BY <2>2, ShorterFacts DEF Waiting
    <2> QED
        BY <2>1, <2>2
<1> QED
    BY <1>1, <1>2, <1>3, <1>4 DEF Waiting

\* asked, after: whether the device waits for the password before and after it.
LEMMA HandlesEnabling ==
    ASSUME NEW l, NEW m, NEW u, NEW v, NEW t \in {"prompt", "ask"}, NEW asked, NEW after,
           IsList(l), IsList(m), IsList(u), IsList(v), l # <<>>,
           Shorter(m, l), Answered(v, u, t), Enabling(l, u, asked),
           t = "ask" => l[1].is = "enable" /\ after = TRUE
    PROVE  Enabling(m, v, after)
<1>1. AtMostTwo(m, v)
    BY HandlesTwo DEF Enabling
<1>2. \A i \in DOMAIN m : m[i].is = "enable" => i = Len(m)
    <2> SUFFICES ASSUME NEW i \in DOMAIN m, m[i].is = "enable" PROVE i = Len(m)
        OBVIOUS
    <2>1. i + 1 = Len(l)
        BY ShorterFacts DEF Enabling
    <2>2. i \in Nat
        BY ListFacts
    <2> QED
        BY <2>1, <2>2, ShorterFacts
<1>3. \A i \in DOMAIN m : m[i].is \notin Secrets
    <2> SUFFICES ASSUME NEW i \in DOMAIN m, m[i].is \in Secrets PROVE FALSE
        OBVIOUS
    <2>1. Len(l) = 1 /\ i \in 1..Len(m)
        BY ShorterFacts, ListFacts DEF Enabling
    <2> QED
        BY <2>1, ShorterFacts
<1>4. ASSUME NEW i \in Asks(v) PROVE m = <<>> /\ after = TRUE /\ \A j \in Answers(v) : j <= i
    <2>1. Asks(u) = {}
        BY DEF Enabling
    <2>2. t = "ask" /\ i = Len(v)
        BY <2>1, AnsweredFacts
    <2>3. 1 = Len(l)
        BY <2>2, ShorterFacts DEF Enabling
    <2>4. Answers(v) \subseteq 1..Len(v) /\ Len(v) \in Nat
        BY ListFacts DEF Answers
    <2> QED
        BY <2>2, <2>3, <2>4, ShorterFacts
<1> QED
    BY <1>1, <1>2, <1>3, <1>4 DEF Enabling

LEMMA BehindFacts ==
    ASSUME NEW u, NEW v, NEW n, IsList(u), IsList(v), Behind(v, u, n)
    PROVE  /\ n \in Nat
           /\ \A i \in DOMAIN v : i \in Nat /\ i + n \in DOMAIN u /\ v[i] = u[i + n]
           /\ \A i \in DOMAIN u : i > n => i - n \in DOMAIN v /\ v[i - n] = u[i]
           /\ \A i \in DOMAIN u : i \in Nat
           /\ \A i \in Answers(v) : i + n \in Answers(u)
           /\ \A i \in Asks(v) : i + n \in Asks(u)
           /\ \A i \in Answers(u) : i > n => i - n \in Answers(v)
<1>1. Len(u) \in Nat /\ Len(v) \in Nat /\ DOMAIN u = 1..Len(u) /\ DOMAIN v = 1..Len(v)
    BY ListFacts
<1>2. n \in Nat /\ Len(v) = Len(u) - n
    BY <1>1 DEF Behind
<1>3. \A i \in DOMAIN v : i \in Nat /\ i + n \in DOMAIN u /\ v[i] = u[i + n]
    BY <1>1, <1>2 DEF Behind
<1>4. \A i \in DOMAIN u : i > n => i - n \in DOMAIN v /\ (i - n) + n = i
    BY <1>1, <1>2
<1>5. \A i \in DOMAIN u : i > n => i - n \in DOMAIN v /\ v[i - n] = u[i]
    BY <1>3, <1>4
<1>6. \A i \in DOMAIN u : i \in Nat
    BY <1>1
<1> QED
    BY <1>2, <1>3, <1>5, <1>6 DEF Answers, Asks

LEMMA BehindTwo ==
    ASSUME NEW l, NEW u, NEW v, NEW n, IsList(u), IsList(v), Behind(v, u, n), AtMostTwo(l, u)
    PROVE  AtMostTwo(l, v)
<1>1. \A i \in Answers(v) : i \in Nat /\ i + n \in Answers(u)
    BY BehindFacts DEF Answers
<1>2. n \in Nat
    BY BehindFacts
<1>3. \A i, j \in Answers(v) : i + n = j + n => i = j
    BY <1>1, <1>2
<1> QED
    BY <1>1, <1>3 DEF AtMostTwo

\* Reading does not change what is still to come.
LEMMA BehindWaiting ==
    ASSUME NEW l, NEW u, NEW v, NEW n, IsList(u), IsList(v), Behind(v, u, n), Waiting(l, u)
    PROVE  Waiting(l, v)
<1>1. AtMostTwo(l, v)
    BY BehindTwo DEF Waiting
<1>2. ASSUME NEW i \in Asks(v), l = <<>> PROVE \E j \in Answers(v) : j > i
    <2>1. i \in Nat /\ n \in Nat /\ i + n \in Asks(u)
        BY BehindFacts DEF Asks
    <2>2. PICK j \in Answers(u) : j > i + n
        BY <1>2, <2>1 DEF Waiting
    <2>3. j \in Nat
        BY BehindFacts DEF Answers
    <2>4. j > n /\ j - n > i
        BY <2>1, <2>2, <2>3
    <2> QED
        BY <2>4, BehindFacts
<1> QED
    BY <1>1, <1>2 DEF Waiting

LEMMA BehindEnabling ==
    ASSUME NEW l, NEW u, NEW v, NEW n, NEW asked, IsList(u), IsList(v), Behind(v, u, n),
           Enabling(l, u, asked)
    PROVE  Enabling(l, v, asked)
<1>1. AtMostTwo(l, v)
    BY BehindTwo DEF Enabling
<1>2. ASSUME NEW i \in Asks(v) PROVE l = <<>> /\ asked = TRUE /\ \A j \in Answers(v) : j <= i
    <2>1. i \in Nat /\ n \in Nat /\ i + n \in Asks(u)
        BY BehindFacts DEF Asks
    <2>2. l = <<>> /\ asked = TRUE /\ \A j \in Answers(u) : j <= i + n
        BY <2>1 DEF Enabling
    <2>3. \A j \in Answers(v) : j \in Nat /\ j + n \in Answers(u)
        BY BehindFacts DEF Answers
    <2>4. \A j \in Answers(v) : j + n <= i + n
        BY <2>2, <2>3
    <2> QED
        BY <2>1, <2>2, <2>3, <2>4
<1>3. Answers(u) = {} => Answers(v) = {}
    BY BehindFacts
<1> QED
    BY <1>1, <1>2, <1>3 DEF Enabling

\* Behind a prompt at most one answer is left ...
LEMMA BehindOne ==
    ASSUME NEW l, NEW u, NEW v, NEW n, IsList(l), IsList(u), IsList(v), Behind(v, u, n),
           NEW k \in 1..n, k \in Answers(u), AtMostTwo(l, u)
    PROVE  AtMostOne(l, v)
<1>1. \A i \in Answers(v) : i \in Nat /\ i + n \in Answers(u) /\ i > 0
    <2>1. \A i \in DOMAIN v : i > 0
        BY ListFacts
    <2> QED
        BY <2>1, BehindFacts DEF Answers
<1>2. n \in Nat
    BY BehindFacts
<1>3. \A i \in Answers(v) : i + n # k
    BY <1>1, <1>2
<1>4. Len(l) \in Nat /\ Len(l) <= 2 /\ Len(l) # 2
    BY ListFacts DEF AtMostTwo
<1>5. Len(l) <= 1
    <2>1. PICK d \in Nat : d = Len(l)
        BY <1>4
    <2>2. d <= 2 /\ d # 2
        BY <1>4, <2>1
    <2>3. d <= 1
        BY <2>2
    <2> QED
        BY <2>1, <2>3
<1>6. Len(l) = 1 => Answers(v) = {}
    BY <1>1, <1>3 DEF AtMostTwo
<1>7. \A i, j \in Answers(v) : i = j
    <2>1. \A i, j \in Answers(v) : i + n = j + n
        BY <1>1, <1>3 DEF AtMostTwo
    <2> QED
        BY <1>1, <1>2, <2>1
<1> QED
    BY <1>5, <1>6, <1>7 DEF AtMostOne

\* ... and it is no question, unless enable was what the prompt answered.
LEMMA PromptEndsWaiting ==
    ASSUME NEW l, NEW u, NEW v, NEW n, IsList(l), IsList(u), IsList(v), Behind(v, u, n),
           NEW k \in 1..n, k \in Answers(u), Waiting(l, u)
    PROVE  Idle(l, v) /\ Clean(l, v)
<1>1. AtMostOne(l, v)
    BY BehindOne DEF Waiting
<1>2. Waiting(l, v)
    BY BehindWaiting
<1>3. Asks(v) \subseteq Answers(v)
    BY DEF Asks, Answers
<1>4. Asks(v) = {}
    <2> SUFFICES ASSUME NEW i \in Asks(v) PROVE FALSE
        OBVIOUS
    <2>1. Len(l) \in Nat /\ (l = <<>> <=> Len(l) = 0) /\ Len(l) <= 1
        BY <1>1, ListFacts DEF AtMostOne
    <2>2. Len(l) # 1
        BY <1>1, <1>3 DEF AtMostOne
    <2>5. l = <<>>
        <3>1. PICK d \in Nat : d = Len(l)
            BY <2>1
        <3>2. d <= 1 /\ d # 1
            BY <2>1, <2>2, <3>1
        <3>3. d = 0
            BY <3>2
        <3> QED
            BY <2>1, <3>1, <3>3
    <2>3. PICK j \in Answers(v) : j > i
        BY <1>2, <2>5 DEF Waiting
    <2>4. j = i /\ i \in Nat
        BY <1>1, <1>3, BehindFacts DEF AtMostOne, Asks
    <2> QED
        BY <2>3, <2>4
<1>5. Sober(l)
    <2>1. DOMAIN l = 1..Len(l) /\ Len(l) \in Nat /\ Len(l) <= 1 /\ (l = <<>> <=> Len(l) = 0)
        BY <1>1, ListFacts DEF AtMostOne
    <2>2. \A i \in DOMAIN l : i = Len(l) /\ l # <<>>
        BY <2>1
    <2> QED
        BY <2>2 DEF Waiting, Sober
<1> QED
    BY <1>1, <1>4, <1>5 DEF Waiting, Idle, Clean

LEMMA PromptEndsEnabling ==
    ASSUME NEW l, NEW u, NEW v, NEW n, NEW asked, IsList(l), IsList(u), IsList(v), Behind(v, u, n),
           NEW k \in 1..n, k \in Answers(u), Enabling(l, u, asked)
    PROVE  Idle(l, v)
BY BehindOne DEF Idle, Enabling, Harmless

\* What is written to a session at rest: a line that is no enable, or enable.
LEMMA LongerTwo ==
    ASSUME NEW l, NEW m, NEW x, NEW u, IsList(l), IsList(m), Extended(m, l, x), AtMostOne(l, u)
    PROVE  AtMostTwo(m, u)
<1>1. Len(l) \in Nat /\ Len(m) = Len(l) + 1 /\ Len(l) <= 1
    BY ListFacts DEF Extended, AtMostOne
<1>2. Len(m) <= 2 /\ (Len(m) = 2 => Len(l) = 1)
    <2>1. PICK d \in Nat : d = Len(l)
        BY <1>1
    <2>2. d <= 1 /\ Len(m) = d + 1
        BY <1>1, <2>1
    <2>3. d + 1 <= 2 /\ (d + 1 = 2 => d = 1)
        BY <2>2
    <2> QED
        BY <2>1, <2>2, <2>3
<1> QED
    BY <1>2 DEF AtMostOne, AtMostTwo

LEMMA LongerFacts ==
    ASSUME NEW l, NEW m, NEW x, IsList(l), IsList(m), Extended(m, l, x)
    PROVE  /\ Len(l) \in Nat /\ Len(m) = Len(l) + 1 /\ m # <<>> /\ m[Len(m)] = x
           /\ \A i \in DOMAIN m : i = Len(m) \/ (i \in DOMAIN l /\ m[i] = l[i])
<1>1. Len(l) \in Nat /\ Len(m) = Len(l) + 1 /\ Len(m) # 0 /\ DOMAIN m = 1..Len(m) /\ DOMAIN l = 1..Len(l)
    BY ListFacts DEF Extended
<1>2. \A i \in 1..Len(m) : i = Len(m) \/ i \in 1..Len(l)
    BY <1>1
<1> QED
    BY <1>1, <1>2, ListFacts DEF Extended

LEMMA LineWritten ==
    ASSUME NEW l, NEW m, NEW x, NEW u, IsList(l), IsList(m), IsList(u), Extended(m, l, x), Idle(l, u),
           x.is \notin Loud
    PROVE  Waiting(m, u)
<1>1. AtMostTwo(m, u)
    BY LongerTwo DEF Idle
<1> QED
    BY <1>1, LongerFacts DEF Idle, Waiting, Harmless, Loud, Secrets

LEMMA EnableWritten ==
    ASSUME NEW l, NEW m, NEW x, NEW u, NEW asked, IsList(l), IsList(m), IsList(u), Extended(m, l, x),
           Idle(l, u), Clean(l, u), x.is = "enable"
    PROVE  Enabling(m, u, asked)
<1>1. AtMostTwo(m, u)
    BY LongerTwo DEF Idle
<1>2. \A i \in DOMAIN m : m[i].is \notin Secrets
    BY LongerFacts DEF Idle, Harmless, Secrets
<1> QED
    BY <1>1, <1>2, LongerFacts DEF Clean, Sober, Enabling

\* The password is written to a device that asks for it and has read everything.
LEMMA SecretWritten ==
    ASSUME NEW l, NEW m, NEW x, NEW u, NEW v, NEW n, NEW asked,
           IsList(l), IsList(m), IsList(u), IsList(v), Behind(v, u, n), Extended(m, l, x),
           NEW k \in 1..n, k \in Asks(u), Enabling(l, u, asked), x.is \in Secrets
    PROVE  Enabling(m, v, asked)
<1>1. l = <<>> /\ asked = TRUE /\ \A j \in Answers(u) : j <= k
    BY DEF Enabling
<1>2. Len(m) = 1 /\ DOMAIN m = {1} /\ m[1].is \in Secrets
    <2>1. Len(l) = 0 /\ Len(m) = Len(l) + 1 /\ m[Len(m)] = x
        BY <1>1, LongerFacts, ListFacts
    <2>2. Len(m) = 1
        BY <2>1
    <2> QED
        BY <2>1, <2>2, ListFacts
<1>3. Answers(v) = {}
    <2> SUFFICES ASSUME NEW i \in Answers(v) PROVE FALSE
        OBVIOUS
    <2>1. i \in 1..Len(v) /\ Len(v) \in Nat /\ i + n \in Answers(u) /\ n \in Nat
        BY BehindFacts, ListFacts DEF Answers
    <2>2. i + n <= k
        BY <1>1, <2>1
    <2> QED
        BY <2>1, <2>2
<1>4. Asks(v) = {}
    BY <1>3 DEF Asks, Answers
<1>5. AtMostTwo(m, v)
    BY <1>2, <1>3 DEF AtMostTwo
<1> QED
    BY <1>1, <1>2, <1>3, <1>4, <1>5 DEF Enabling

\* Lists of whatever elements: IsList of what is built from lists, and its elements.
-----------------------------------------------------------------------------
(* Lists.                                                                  *)

LEMMA ListEmpty == IsList(<<>>) /\ Len(<<>>) = 0 /\ DOMAIN <<>> = {}
<1>1. <<>> \in Seq({})
    OBVIOUS
<1> QED
    BY <1>1 DEF IsList

LEMMA ListConcat ==
    ASSUME NEW s, NEW r, IsList(s), IsList(r)
    PROVE  /\ IsList(s \o r) /\ Len(s \o r) = Len(s) + Len(r)
           /\ \A i \in 1..Len(s) + Len(r) : (s \o r)[i] = IF i <= Len(s) THEN s[i] ELSE r[i - Len(s)]
           /\ s \o <<>> = s /\ <<>> \o s = s
<1>1. PICK S : s \in Seq(S)
    BY DEF IsList
<1>2. PICK T : r \in Seq(T)
    BY DEF IsList
<1> DEFINE U == S \cup T
<1>3. s \in Seq(U) /\ r \in Seq(U)
    BY <1>1, <1>2, SeqMonotonic
<1> HIDE DEF U
<1>4. s \o r \in Seq(U)
    BY <1>3, ConcatProperties
<1> QED
    BY <1>3, <1>4, ConcatProperties, ConcatEmptySeq DEF IsList

LEMMA ListSame ==
    ASSUME NEW s, NEW r, IsList(s), IsList(r), Len(s) = Len(r), \A i \in 1..Len(s) : s[i] = r[i]
    PROVE  s = r
<1>1. PICK S : s \in Seq(S)
    BY DEF IsList
<1>2. PICK T : r \in Seq(T)
    BY DEF IsList
<1> DEFINE U == S \cup T
<1>3. s \in Seq(U) /\ r \in Seq(U)
    BY <1>1, <1>2, SeqMonotonic
<1> HIDE DEF U
<1> QED
    BY <1>3, SeqEqual

LEMMA ListAssociative ==
    ASSUME NEW s, NEW r, NEW q, IsList(s), IsList(r), IsList(q)
    PROVE  s \o (r \o q) = (s \o r) \o q
<1>1. PICK S : s \in Seq(S)
    BY DEF IsList
<1>2. PICK T : r \in Seq(T)
    BY DEF IsList
<1>3. PICK V : q \in Seq(V)
    BY DEF IsList
<1> DEFINE U == S \cup T \cup V
<1>4. s \in Seq(U) /\ r \in Seq(U) /\ q \in Seq(U)
    BY <1>1, <1>2, <1>3, SeqMonotonic
<1> HIDE DEF U
<1> QED
    BY <1>4, ConcatAssociative

LEMMA ListOne ==
    \A x : IsList(<<x>>) /\ Len(<<x>>) = 1 /\ <<x>>[1] = x /\ DOMAIN <<x>> = {1} /\ <<x>> # <<>>
<1> SUFFICES ASSUME NEW x PROVE IsList(<<x>>) /\ Len(<<x>>) = 1 /\ <<x>>[1] = x /\ DOMAIN <<x>> = {1} /\ <<x>> # <<>>
    OBVIOUS
<1>1. <<x>> \in Seq({x})
    OBVIOUS
<1>2. IsList(<<x>>)
    BY <1>1 DEF IsList
<1> QED
    BY <1>2

LEMMA ListAppend ==
    ASSUME NEW s, NEW x, IsList(s)
    PROVE  IsList(Append(s, x)) /\ Extended(Append(s, x), s, x) /\ Append(s, x) = s \o <<x>>
<1>1. PICK S : s \in Seq(S)
    BY DEF IsList
<1> DEFINE U == S \cup {x}
<1>2. s \in Seq(U)
    BY <1>1, SeqMonotonic
<1>3. x \in U
    OBVIOUS
<1> HIDE DEF U
<1>4. Append(s, x) \in Seq(U) /\ Len(Append(s, x)) = Len(s) + 1
    BY <1>2, <1>3
<1>5. Append(s, x)[Len(s) + 1] = x /\ \A i \in 1..Len(s) : Append(s, x)[i] = s[i]
    BY <1>2, <1>3
<1>6. <<x>> \in Seq(U)
    BY <1>3
<1>7. s \o <<x>> \in Seq(U) /\ Len(s \o <<x>>) = Len(s) + 1
    BY <1>2, <1>6, ConcatProperties
<1>8. Append(s, x) = s \o <<x>>
    BY <1>2, <1>3
<1> QED
    BY <1>4, <1>5, <1>8 DEF IsList, Extended

LEMMA ListTail ==
    ASSUME NEW s, IsList(s), s # <<>>
    PROVE  IsList(Tail(s)) /\ Shorter(Tail(s), s) /\ Head(s) = s[1] /\ 1 \in DOMAIN s
<1>1. PICK S : s \in Seq(S)
    BY DEF IsList
<1>2. Tail(s) \in Seq(S) /\ Len(Tail(s)) = Len(s) - 1
      /\ \A i \in 1..Len(Tail(s)) : Tail(s)[i] = s[i + 1]
    BY <1>1, HeadTailProperties
<1>3. Head(s) = s[1] /\ 1 \in DOMAIN s
    BY <1>1
<1> QED
    BY <1>2, <1>3 DEF IsList, Shorter

LEMMA ListSub ==
    ASSUME NEW s, IsList(s), NEW m \in 1..Len(s) + 1, NEW n \in m - 1..Len(s)
    PROVE  /\ IsList(SubSeq(s, m, n)) /\ Len(SubSeq(s, m, n)) = n + 1 - m
           /\ \A i \in 1..n + 1 - m : SubSeq(s, m, n)[i] = s[m + i - 1]
<1>1. PICK S : s \in Seq(S)
    BY DEF IsList
<1>2. m \in Int /\ n \in Int /\ Len(s) \in Nat
    BY ListFacts
<1>3. \A i \in m..n : s[i] \in S
    BY <1>1, <1>2, ElementOfSeq
<1>4. /\ SubSeq(s, m, n) \in Seq(S)
      /\ Len(SubSeq(s, m, n)) = IF m <= n THEN n - m + 1 ELSE 0
      /\ \A i \in 1..n - m + 1 : SubSeq(s, m, n)[i] = s[m + i - 1]
    BY <1>2, <1>3, SubSeqProperties
<1>5. n - m + 1 = n + 1 - m /\ (~(m <= n) => n + 1 - m = 0)
    BY <1>2
<1> QED
    BY <1>4, <1>5 DEF IsList

-----------------------------------------------------------------------------
\* Lined when the device takes up, executes or is sent a line.
LEMMA LinesReceived ==
    ASSUME NEW s, NEW r, IsList(s), IsList(r), r # <<>>
    PROVE  Append(s, Head(r)) \o Tail(r) = s \o r
<1>1. r = <<Head(r)>> \o Tail(r)
    <2>1. PICK S : r \in Seq(S)
        BY DEF IsList
    <2> QED
        BY <2>1
<1>2. Append(s, Head(r)) = s \o <<Head(r)>> /\ IsList(<<Head(r)>>) /\ IsList(Tail(r))
    BY ListAppend, ListTail, ListOne
<1>3. PICK h, t : h = <<Head(r)>> /\ t = Tail(r)
    OBVIOUS
<1>4. s \o (h \o t) = (s \o h) \o t
    BY <1>2, <1>3, ListAssociative
<1>5. r = h \o t /\ Append(s, Head(r)) = s \o h
    BY <1>1, <1>2, <1>3
<1>6. s \o r = s \o (h \o t)
    BY <1>5
<1> QED
    BY <1>3, <1>4, <1>5, <1>6

LEMMA LinesExecuted ==
    ASSUME NEW s, NEW r, IsList(s), IsList(r), s # <<>>
    PROVE  /\ IsList(Tail(s) \o r) /\ Shorter(Tail(s) \o r, s \o r)
           /\ (s \o r)[1] = Head(s) /\ s \o r # <<>> /\ IsList(s \o r)
<1>1. IsList(Tail(s)) /\ Shorter(Tail(s), s) /\ Head(s) = s[1]
    BY ListTail
<1>2. PICK a \in Nat : a = Len(s)
    BY ListFacts
<1>3. PICK b \in Nat : b = Len(r)
    BY ListFacts
<1>4. Len(Tail(s)) = a - 1 /\ a > 0
    BY <1>1, <1>2, ListFacts DEF Shorter
<1>5. Len(s \o r) = a + b /\ Len(Tail(s) \o r) = a - 1 + b
    BY <1>1, <1>2, <1>3, <1>4, ListConcat
<1>6. \A i \in 1..a - 1 + b : (Tail(s) \o r)[i] = IF i <= a - 1 THEN Tail(s)[i] ELSE r[i - (a - 1)]
    BY <1>1, <1>2, <1>3, <1>4, ListConcat
<1>7. \A i \in 1..a + b : (s \o r)[i] = IF i <= a THEN s[i] ELSE r[i - a]
    BY <1>2, <1>3, ListConcat
<1>8. \A i \in 1..a - 1 : Tail(s)[i] = s[i + 1]
    BY <1>1, <1>4 DEF Shorter
<1>9. \A i \in 1..a - 1 + b : i + 1 \in 1..a + b /\ (i <= a - 1 <=> i + 1 <= a) /\ i - (a - 1) = (i + 1) - a
    BY <1>4
<1>10. \A i \in 1..a - 1 + b : (Tail(s) \o r)[i] = (s \o r)[i + 1]
    <2> TAKE i \in 1..a - 1 + b
    <2>1. (s \o r)[i + 1] = IF i <= a - 1 THEN s[i + 1] ELSE r[i - (a - 1)]
        BY <1>7, <1>9
    <2>2. i <= a - 1 => i \in 1..a - 1
        BY <1>4
    <2> QED
        BY <1>6, <1>8, <2>1, <2>2
<1>11. 1 \in 1..a + b /\ 1 <= a
    BY <1>4
<1>12. (s \o r)[1] = Head(s)
    BY <1>1, <1>7, <1>11
<1>13. Len(Tail(s) \o r) = Len(s \o r) - 1 /\ Len(s \o r) # 0
    BY <1>4, <1>5
<1> QED
    BY <1>1, <1>5, <1>10, <1>12, <1>13, ListConcat, ListFacts DEF Shorter

LEMMA LineAdded ==
    ASSUME NEW s, NEW r, NEW x, IsList(s), IsList(r)
    PROVE  /\ IsList(s \o Append(r, x)) /\ Extended(s \o Append(r, x), s \o r, x)
           /\ s \o (r \o <<x>>) = s \o Append(r, x) /\ IsList(s \o r)
<1>1. IsList(<<x>>) /\ IsList(s \o r) /\ Append(r, x) = r \o <<x>>
    BY ListOne, ListConcat, ListAppend
<1>2. s \o Append(r, x) = (s \o r) \o <<x>>
    BY <1>1, ListAssociative
<1> QED
    BY <1>1, <1>2, ListAppend

-----------------------------------------------------------------------------
(* The read buffer and what arrives.                                       *)

\* What is unread of a buffer g from position f, and of what arrives.
From(g, f, a) == SubSeq(g, f, Len(g)) \o a

FromIs(g, f, a) ==
    /\ IsList(From(g, f, a)) /\ IsList(SubSeq(g, f, Len(g)))
    /\ Len(From(g, f, a)) = Len(g) + 1 - f + Len(a)
    /\ \A i \in 1..Len(g) + 1 - f + Len(a) : From(g, f, a)[i] = (g \o a)[f + i - 1]

LEMMA FromFacts ==
    ASSUME NEW g, NEW a, IsList(g), IsList(a), NEW f \in 1..Len(g) + 1
    PROVE  FromIs(g, f, a)
<1>1. PICK n \in Nat : n = Len(g)
    BY ListFacts
<1>2. PICK b \in Nat : b = Len(a)
    BY ListFacts
<1>3. f \in 1..n + 1 /\ n \in f - 1..n
    BY <1>1
<1>4. PICK q : q = SubSeq(g, f, n)
    OBVIOUS
<1>5. IsList(q) /\ Len(q) = n + 1 - f /\ \A i \in 1..n + 1 - f : q[i] = g[f + i - 1]
    BY <1>1, <1>3, <1>4, ListSub
<1>6. PICK c \in Nat : c = n + 1 - f /\ c = Len(q)
    BY <1>3, <1>5
<1>7. IsList(q \o a) /\ Len(q \o a) = c + b
      /\ \A i \in 1..c + b : (q \o a)[i] = IF i <= c THEN q[i] ELSE a[i - c]
    BY <1>2, <1>5, <1>6, ListConcat
<1>8. \A i \in 1..n + b : (g \o a)[i] = IF i <= n THEN g[i] ELSE a[i - n]
    BY <1>1, <1>2, ListConcat
<1>9. \A i \in 1..c + b : (q \o a)[i] = (g \o a)[f + i - 1]
    <2> TAKE i \in 1..c + b
    <2>1. f + i - 1 \in 1..n + b /\ (f + i - 1 <= n <=> i <= c) /\ f + i - 1 - n = i - c
        BY <1>3, <1>6
    <2>2. i <= c => i \in 1..n + 1 - f
        BY <1>6
    <2>3. PICK j \in 1..n + b : j = f + i - 1
        BY <2>1
    <2>4. (g \o a)[j] = IF j <= n THEN g[j] ELSE a[j - n]
        BY <1>8
    <2>5. (j <= n <=> i <= c) /\ j - n = i - c
        BY <2>1, <2>3
    <2>6. (g \o a)[j] = IF i <= c THEN g[j] ELSE a[i - c]
        BY <2>4, <2>5
    <2>7. i <= c => q[i] = g[j]
        BY <1>5, <2>2, <2>3
    <2>8. (q \o a)[i] = IF i <= c THEN q[i] ELSE a[i - c]
        BY <1>7
    <2>9. (q \o a)[i] = (g \o a)[j]
        BY <2>6, <2>7, <2>8
    <2> QED
        BY <2>3, <2>9
<1> QED
    BY <1>1, <1>2, <1>4, <1>5, <1>6, <1>7, <1>9 DEF From, FromIs

LEMMA FromEnd ==
    ASSUME NEW g, NEW a, IsList(g), IsList(a)
    PROVE  /\ From(g, Len(g) + 1, a) = a
           /\ From(<<>>, 1, a) = a
<1>1. \A h : IsList(h) => From(h, Len(h) + 1, a) = a
    <2> SUFFICES ASSUME NEW h, IsList(h) PROVE From(h, Len(h) + 1, a) = a
        OBVIOUS
    <2>1. Len(h) \in Nat
        BY ListFacts
    <2>2. PICK n \in Nat : n = Len(h)
        BY <2>1
    <2>3. n + 1 \in Int /\ n \in Int /\ n < n + 1
        OBVIOUS
    <2>4. SubSeq(h, n + 1, n) = <<>>
        BY <2>3, SubSeqEmpty
    <2> QED
        BY <2>2, <2>4, ListConcat DEF From
<1> QED
    BY <1>1, ListEmpty

\* A chunk moves n tokens from what arrives into the buffer: h and b are the two then.
Taken(g, a, n, h, b) == h = g \o SubSeq(a, 1, n) /\ b = SubSeq(a, n + 1, Len(a))

TakenIs(g, a, n, h, b) ==
    /\ IsList(h) /\ IsList(b) /\ Len(h) = Len(g) + n /\ Len(b) = Len(a) - n
    /\ h \o b = g \o a

LEMMA ChunkFacts ==
    ASSUME NEW g, NEW a, IsList(g), IsList(a), NEW n \in 1..Len(a),
           NEW h, NEW b, Taken(g, a, n, h, b)
    PROVE  TakenIs(g, a, n, h, b)
<1>1. PICK l \in Nat : l = Len(a)
    BY ListFacts
<1>2. n \in 1..l /\ n \in Nat
    BY <1>1
<1>3. 1 \in 1..l + 1 /\ n \in 1 - 1..l /\ n + 1 \in 1..l + 1 /\ l \in (n + 1) - 1..l
    BY <1>2
<1>4. PICK c : c = SubSeq(a, 1, n)
    OBVIOUS
<1>5. IsList(c) /\ Len(c) = n + 1 - 1
    BY <1>1, <1>3, <1>4, ListSub
<1>6. IsList(b) /\ Len(b) = l + 1 - (n + 1)
    <2>1. b = SubSeq(a, n + 1, l)
        BY <1>1 DEF Taken
    <2>2. IsList(SubSeq(a, n + 1, l)) /\ Len(SubSeq(a, n + 1, l)) = l + 1 - (n + 1)
        BY <1>1, <1>3, ListSub
    <2> QED
        BY <2>1, <2>2
<1>7. c \o b = a
    <2>1. PICK S : a \in Seq(S)
        BY DEF IsList
    <2>2. 1 \in 1..Len(a) + 1 /\ n \in 1 - 1..Len(a) /\ Len(a) \in n..Len(a)
        BY <1>1, <1>2
    <2>3. SubSeq(a, 1, n) \o SubSeq(a, n + 1, Len(a)) = SubSeq(a, 1, Len(a))
        BY <2>1, <2>2, ConcatAdjacentSubSeq
    <2> QED
        BY <1>4, <2>1, <2>3, SubSeqFull DEF Taken
<1>8. (g \o c) \o b = g \o (c \o b)
    BY <1>5, <1>6, ListAssociative
<1>9. IsList(g \o c) /\ Len(g \o c) = Len(g) + Len(c)
    BY <1>5, ListConcat
<1>10. n + 1 - 1 = n /\ l + 1 - (n + 1) = l - n
    BY <1>2
<1>11. h = g \o c
    BY <1>4 DEF Taken
<1> QED
    BY <1>1, <1>5, <1>6, <1>7, <1>8, <1>9, <1>10, <1>11 DEF TakenIs

\* What is unread then, if the position moves up to e, is what was unread behind the rest.
LEMMA ReadBehind ==
    ASSUME NEW g, NEW a, IsList(g), IsList(a), NEW f \in 1..Len(g) + 1, NEW n \in 1..Len(a),
           NEW h, NEW b, Taken(g, a, n, h, b),
           NEW e \in f..Len(h) + 1
    PROVE  /\ Behind(From(h, e, b), From(g, f, a), e - f)
           /\ IsList(From(h, e, b)) /\ IsList(From(g, f, a))
           /\ \A i \in f..e - 1 : i + 1 - f \in 1..e - f /\ i + 1 - f \in DOMAIN From(g, f, a)
                                 /\ From(g, f, a)[i + 1 - f] = h[i]
<1>1. PICK l \in Nat : l = Len(a)
    BY ListFacts
<1>2. PICK k \in Nat : k = Len(g)
    BY ListFacts
<1>3. IsList(h) /\ IsList(b) /\ Len(h) = k + n /\ Len(b) = l - n /\ h \o b = g \o a
    <2>1. TakenIs(g, a, n, h, b)
        BY ChunkFacts
    <2> QED
        BY <1>1, <1>2, <2>1 DEF TakenIs
<1>4. n \in 1..l /\ f \in 1..k + 1 /\ e \in f..k + n + 1 /\ e \in 1..k + n + 1
    BY <1>1, <1>2, <1>3
<1>5. PICK u : u = From(g, f, a)
    OBVIOUS
<1>6. PICK v : v = From(h, e, b)
    OBVIOUS
<1>7. IsList(u) /\ Len(u) = k + 1 - f + l /\ \A i \in 1..k + 1 - f + l : u[i] = (g \o a)[f + i - 1]
    <2>1. FromIs(g, f, a)
        BY FromFacts
    <2> QED
        BY <1>1, <1>2, <1>5, <2>1 DEF FromIs
<1>8. e \in 1..Len(h) + 1
    BY <1>3, <1>4
<1>9. IsList(v) /\ Len(v) = k + n + 1 - e + (l - n)
      /\ \A i \in 1..k + n + 1 - e + (l - n) : v[i] = (g \o a)[e + i - 1]
    <2>1. FromIs(h, e, b)
        BY <1>3, <1>8, FromFacts
    <2> QED
        BY <1>3, <1>6, <2>1 DEF FromIs
<1>10. e - f \in 0..k + 1 - f + l /\ k + n + 1 - e + (l - n) = (k + 1 - f + l) - (e - f)
    BY <1>4
<1>11. \A i \in 1..Len(v) : v[i] = u[i + (e - f)]
    <2> TAKE i \in 1..Len(v)
    <2>1. i \in 1..k + n + 1 - e + (l - n)
        BY <1>9
    <2>2. i + (e - f) \in 1..k + 1 - f + l /\ f + (i + (e - f)) - 1 = e + i - 1
        BY <1>4, <2>1
    <2> QED
        BY <1>7, <1>9, <2>1, <2>2
<1>12. Behind(v, u, e - f)
    BY <1>7, <1>9, <1>10, <1>11 DEF Behind
<1>13. ASSUME NEW i \in f..e - 1
       PROVE  i + 1 - f \in 1..e - f /\ i + 1 - f \in DOMAIN u /\ u[i + 1 - f] = h[i]
    <2>1. i + 1 - f \in 1..e - f /\ i + 1 - f \in 1..k + 1 - f + l /\ f + (i + 1 - f) - 1 = i
        BY <1>4
    <2>2. i \in 1..(k + n) + (l - n) /\ i <= k + n
        BY <1>4
    <2>3. (h \o b)[i] = h[i]
        BY <1>3, <2>2, ListConcat
    <2>4. i + 1 - f \in DOMAIN u
        BY <1>7, <2>1, ListFacts
    <2> QED
        BY <1>3, <1>7, <2>1, <2>3, <2>4
<1> QED
    BY <1>5, <1>6, <1>7, <1>9, <1>12, <1>13

\* What the device writes is added to what is unread.
Reply(r, t) ==
    /\ IsList(r) /\ r # <<>> /\ r[Len(r)].t = t
    /\ \A i \in 1..Len(r) - 1 : r[i].t \notin {"prompt", "ask"}

LEMMA ReplyAdded ==
    ASSUME NEW u, NEW r, NEW t, IsList(u), Reply(r, t)
    PROVE  Answered(u \o r, u, t) /\ IsList(u \o r)
<1>1. PICK a \in Nat : a = Len(u)
    BY ListFacts
<1>2. PICK b \in Nat : b = Len(r)
    BY ListFacts DEF Reply
<1>3. b # 0
    BY <1>2, ListFacts DEF Reply
<1>4. PICK v : v = u \o r
    OBVIOUS
<1>5. IsList(v) /\ Len(v) = a + b /\ \A i \in 1..a + b : v[i] = IF i <= a THEN u[i] ELSE r[i - a]
    BY <1>1, <1>2, <1>4, ListConcat DEF Reply
<1>6. \A i \in 1..a : v[i] = u[i]
    <2>1. \A i \in 1..a : i \in 1..a + b /\ i <= a
        OBVIOUS
    <2> QED
        BY <1>5, <2>1
<1>7. a + b \in 1..a + b /\ ~(a + b <= a) /\ a + b - a = b
    BY <1>3
<1>8. v[a + b] = r[b]
    BY <1>5, <1>7
<1>9. \A i \in a + 1..a + b - 1 : v[i].t \notin {"prompt", "ask"}
    <2> TAKE i \in a + 1..a + b - 1
    <2>1. i \in 1..a + b /\ ~(i <= a) /\ i - a \in 1..b - 1
        OBVIOUS
    <2>2. v[i] = r[i - a]
        BY <1>5, <2>1
    <2> QED
        BY <1>2, <2>1, <2>2 DEF Reply
<1>10. a + b > a
    BY <1>3
<1> QED
    BY <1>1, <1>2, <1>4, <1>5, <1>6, <1>8, <1>9, <1>10 DEF Answered, Reply

LEMMA QuietAdded ==
    ASSUME NEW u, NEW x, IsList(u), x.t \notin {"prompt", "ask"}
    PROVE  /\ IsList(Append(u, x))
           /\ Answers(Append(u, x)) = Answers(u) /\ Asks(Append(u, x)) = Asks(u)
<1>1. PICK v : v = Append(u, x)
    OBVIOUS
<1>2. IsList(v) /\ Extended(v, u, x)
    BY <1>1, ListAppend
<1>3. \A i \in DOMAIN v : i = Len(v) \/ (i \in DOMAIN u /\ v[i] = u[i])
    BY <1>2, LongerFacts
<1>4. DOMAIN u \subseteq DOMAIN v /\ \A i \in DOMAIN u : v[i] = u[i]
    <2>1. PICK a \in Nat : a = Len(u)
        BY ListFacts
    <2>2. DOMAIN u = 1..a /\ DOMAIN v = 1..a + 1 /\ \A i \in 1..a : v[i] = u[i]
        BY <1>2, <2>1, ListFacts DEF Extended
    <2> QED
        BY <2>2
<1>5. v[Len(v)] = x
    BY <1>2 DEF Extended
<1> QED
    BY <1>1, <1>2, <1>3, <1>4, <1>5 DEF Answers, Asks

LEMMA FromGrows ==
    ASSUME NEW g, NEW a, NEW r, IsList(g), IsList(a), IsList(r), NEW f \in 1..Len(g) + 1
    PROVE  From(g, f, a \o r) = From(g, f, a) \o r
<1>1. IsList(SubSeq(g, f, Len(g)))
    BY FromFacts DEF FromIs
<1>2. \A q : IsList(q) => q \o (a \o r) = (q \o a) \o r
    BY ListAssociative
<1> QED
    BY <1>1, <1>2 DEF From

-----------------------------------------------------------------------------
(* What the session, the buffer and the device look like.                  *)

\* A step that is a line is none of the forbidden ones; only a device that asks for no
\* password is drained.
StepFits(k, x) ==
    /\ x.do \in {"line", "own"} => x.is \notin Forbidden
    /\ x.do = "drain" => ~Pairs[k].device.asks
StepsFit(k, q) == IsList(q) /\ \A i \in DOMAIN q : StepFits(k, q[i])

SessionFits(k, s) ==
    /\ s = [mode |-> s.mode, vsys |-> s.vsys, todo |-> s.todo, wait |-> s.wait, task |-> s.task,
            begun |-> s.begun, up |-> s.up, wide |-> s.wide]
    /\ StepsFit(k, s.todo)
    /\ s.wait # None => s.todo # <<>>
    /\ s.begun /\ s.task = NotAsked => s.wait = None /\ s.todo = <<>>
BufferFits(b) ==
    /\ b = [cmd |-> b.cmd, got |-> b.got, from |-> b.from, flag |-> b.flag]
    /\ IsList(b.got) /\ b.from \in 1..Len(b.got) + 1
DeviceFits(d) ==
    /\ d = [mode |-> d.mode, vsys |-> d.vsys, open |-> d.open, asked |-> d.asked]
    /\ d.asked \in BOOLEAN

LEMMA StepsOfNone == \A k : StepsFit(k, <<>>)
BY ListEmpty DEF StepsFit

LEMMA StepsOfFew ==
    ASSUME NEW k, NEW a, NEW b, NEW c, NEW d,
           StepFits(k, a), StepFits(k, b), StepFits(k, c), StepFits(k, d)
    PROVE  /\ StepsFit(k, <<a>>) /\ StepsFit(k, <<a, b>>)
           /\ StepsFit(k, <<a, b, c>>) /\ StepsFit(k, <<a, b, c, d>>)
<1>1. <<a>> \in Seq({a, b, c, d}) /\ <<a, b>> \in Seq({a, b, c, d})
      /\ <<a, b, c>> \in Seq({a, b, c, d}) /\ <<a, b, c, d>> \in Seq({a, b, c, d})
    OBVIOUS
<1>2. \A q \in Seq({a, b, c, d}) : StepsFit(k, q)
    <2> TAKE q \in Seq({a, b, c, d})
    <2>1. \A i \in DOMAIN q : q[i] \in {a, b, c, d}
        OBVIOUS
    <2>2. \A x \in {a, b, c, d} : StepFits(k, x)
        OBVIOUS
    <2>3. IsList(q)
        BY DEF IsList
    <2> QED
        BY <2>1, <2>2, <2>3 DEF StepsFit
<1> QED
    BY <1>1, <1>2

LEMMA StepsOfTail ==
    ASSUME NEW k, NEW q, StepsFit(k, q), q # <<>>
    PROVE  StepsFit(k, Tail(q)) /\ StepFits(k, Head(q))
<1>1. IsList(q) /\ IsList(Tail(q)) /\ Shorter(Tail(q), q) /\ Head(q) = q[1] /\ 1 \in DOMAIN q
    BY ListTail DEF StepsFit
<1>2. \A i \in DOMAIN Tail(q) : i + 1 \in DOMAIN q /\ Tail(q)[i] = q[i + 1]
    BY <1>1, ShorterFacts
<1> QED
    BY <1>1, <1>2 DEF StepsFit

\* All elements of two lists have what all elements of their concatenation have.
LEMMA ConcatElements ==
    ASSUME NEW s, NEW r, IsList(s), IsList(r), NEW i \in DOMAIN (s \o r)
    PROVE  \/ \E j \in DOMAIN s : (s \o r)[i] = s[j]
           \/ \E j \in DOMAIN r : (s \o r)[i] = r[j]
<1>1. PICK a \in Nat : a = Len(s) /\ DOMAIN s = 1..a
    BY ListFacts
<1>2. PICK b \in Nat : b = Len(r) /\ DOMAIN r = 1..b
    BY ListFacts
<1>3. PICK v : v = s \o r
    OBVIOUS
<1>4. IsList(v) /\ Len(v) = a + b /\ \A j \in 1..a + b : v[j] = IF j <= a THEN s[j] ELSE r[j - a]
    BY <1>1, <1>2, <1>3, ListConcat
<1>5. i \in 1..a + b
    BY <1>3, <1>4, ListFacts
<1>6. CASE i <= a
    BY <1>1, <1>3, <1>4, <1>5, <1>6
<1>7. CASE ~(i <= a)
    <2>1. i - a \in 1..b
        BY <1>5, <1>7
    <2> QED
        BY <1>2, <1>3, <1>4, <1>5, <1>7, <2>1
<1> QED
    BY <1>6, <1>7

LEMMA StepsOfConcat ==
    ASSUME NEW k, NEW s, NEW r, StepsFit(k, s), StepsFit(k, r)
    PROVE  StepsFit(k, s \o r)
<1>1. IsList(s) /\ IsList(r) /\ IsList(s \o r)
    BY ListConcat DEF StepsFit
<1>2. ASSUME NEW i \in DOMAIN (s \o r) PROVE StepFits(k, (s \o r)[i])
    BY <1>1, ConcatElements DEF StepsFit
<1> QED
    BY <1>1, <1>2 DEF StepsFit

LEMMA ConcatHarmless ==
    ASSUME NEW s, NEW r, IsList(s), IsList(r), Harmless(s), Harmless(r)
    PROVE  Harmless(s \o r)
<1>1. ASSUME NEW i \in DOMAIN (s \o r) PROVE (s \o r)[i].is \notin Secrets
    BY ConcatElements DEF Harmless
<1> QED
    BY <1>1 DEF Harmless

\* A sequence made of another, element by element.
LEMMA StepsOfLines == ASSUME NEW k, NEW q, Worded(q) PROVE StepsFit(k, Lines(q))
<1>1. PICK S : q \in Seq(S) /\ S \cap Forbidden = {}
    BY DEF Worded
<1> DEFINE T == {Step("line", x) : x \in S}
<1>2. Lines(q) \in Seq(T) /\ \A i \in DOMAIN Lines(q) : Lines(q)[i] \in T
    BY <1>1 DEF Lines
<1>3. \A x \in T : StepFits(k, x)
    BY <1>1 DEF StepFits, Step
<1> HIDE DEF T
<1> QED
    BY <1>2, <1>3 DEF StepsFit, IsList

LEMMA LineOfOne ==
    ASSUME NEW c, NEW s, IsList(s)
    PROVE  s \o [i \in DOMAIN <<c>> |-> [is |-> <<c>>[i], for |-> NotAsked]]
             = Append(s, [is |-> c, for |-> NotAsked])
<1>1. [i \in DOMAIN <<c>> |-> [is |-> <<c>>[i], for |-> NotAsked]] = <<[is |-> c, for |-> NotAsked]>>
    OBVIOUS
<1> QED
    BY <1>1, ListAppend

LEMMA LinesOfTwo ==
    ASSUME NEW b, NEW c, NEW q,
           q = [i \in DOMAIN <<b, c>> |-> [is |-> <<b, c>>[i], for |-> NotAsked]],
           b \notin Loud, c \notin Loud
    PROVE  IsList(q) /\ Harmless(q)
<1>1. q = <<[is |-> b, for |-> NotAsked], [is |-> c, for |-> NotAsked]>>
    OBVIOUS
<1>2. PICK x, y : x = [is |-> b, for |-> NotAsked] /\ y = [is |-> c, for |-> NotAsked]
    OBVIOUS
<1>3. <<x, y>> \in Seq({x, y}) /\ \A i \in DOMAIN <<x, y>> : <<x, y>>[i] \in {x, y}
    OBVIOUS
<1>4. x.is \notin Secrets /\ y.is \notin Secrets
    BY <1>2 DEF Loud, Forbidden, Secrets
<1> QED
    BY <1>1, <1>2, <1>3, <1>4 DEF IsList, Harmless

-----------------------------------------------------------------------------
(* The invariant.  Where a device asks for a password, the plugin reads a  *)
(* prompt before each line, so that a question is never left over from an  *)
(* earlier enable; where it asks for none, no question and no password are *)
(* ever on their way.                                                      *)

Enables(s) == s.wait = "moving" /\ s.mode = LOGIN
Strict(s) == s.mode = LOGIN /\ s.todo # <<>> /\ Head(s.todo).do # "decide"
Channel(asks, s, d, l, u) ==
    d.mode # Gone =>
        IF asks
        THEN /\ s.wait = None => Idle(l, u) /\ (Strict(s) => Clean(l, u))
             /\ s.wait # None /\ Enables(s) => Enabling(l, u, d.asked)
             /\ s.wait # None /\ ~Enables(s) => Waiting(l, u)
        ELSE Asks(u) = {} /\ d.asked = FALSE /\ Harmless(l)
Unheard(s, b, a) == IF s.wait = None THEN a ELSE From(b.got, b.from, a)

Conversation(k, s, b, d, out, in, a) ==
    /\ IsList(out) /\ IsList(in) /\ IsList(a)
    /\ Channel(Pairs[k].device.asks, s, d, in \o out, Unheard(s, b, a))
ShellInv ==
    /\ kind \in Kinds /\ secret \in Passwords
    /\ DeviceFits(dev) /\ SessionFits(kind, ses) /\ BufferFits(buf)
    /\ Conversation(kind, ses, buf, dev, sent, stdin, arriving)

LEMMA InvNext ==
    ASSUME kind' \in Kinds, secret' \in Passwords, DeviceFits(dev'), SessionFits(kind', ses'),
           BufferFits(buf'), Conversation(kind', ses', buf', dev', sent', stdin', arriving')
    PROVE  ShellInv'
BY DEF ShellInv

-----------------------------------------------------------------------------
(* What the session does to itself.                                        *)

LEMMA RestFits ==
    ASSUME NEW k, NEW s, SessionFits(k, s), s.todo # <<>>
    PROVE  /\ SessionFits(k, Rest(s)) /\ Rest(s).wait = None /\ Rest(s).todo = Tail(s.todo)
           /\ Rest(s).mode = s.mode
<1>1. PICK r : r = Rest(s)
    OBVIOUS
<1>2. /\ r = [mode |-> s.mode, vsys |-> s.vsys, todo |-> Tail(s.todo), wait |-> None, task |-> s.task,
              begun |-> s.begun, up |-> s.up, wide |-> s.wide]
    BY <1>1 DEF Rest, SessionFits
<1>3. StepsFit(k, Tail(s.todo))
    BY StepsOfTail DEF SessionFits
<1>4. ~(s.begun /\ s.task = NotAsked)
    BY DEF SessionFits
<1> QED
    BY <1>1, <1>2, <1>3, <1>4 DEF SessionFits

LEMMA FailedFits ==
    ASSUME NEW k, NEW s, SessionFits(k, s)
    PROVE  SessionFits(k, Failed(s)) /\ Failed(s).wait = None /\ Failed(s).todo = <<>>
<1>1. PICK r : r = Failed(s)
    OBVIOUS
<1>2. r = [mode |-> s.mode, vsys |-> s.vsys, todo |-> <<>>, wait |-> None, task |-> NotAsked,
           begun |-> s.begun, up |-> s.begun, wide |-> s.wide]
    BY <1>1 DEF Failed, SessionFits
<1> QED
    BY <1>1, <1>2, StepsOfNone DEF SessionFits

\* Another list, belief or wait; the task stays.
LEMMA ChangedFits ==
    ASSUME NEW k, NEW s, SessionFits(k, s), s.todo # <<>>,
           NEW mode, NEW vsys, NEW todo, NEW wait, NEW wide, StepsFit(k, todo), wait # None => todo # <<>>,
           NEW r, r = [mode |-> mode, vsys |-> vsys, todo |-> todo, wait |-> wait, task |-> s.task,
                       begun |-> s.begun, up |-> s.up, wide |-> wide]
    PROVE  SessionFits(k, r)
<1>1. ~(s.begun /\ s.task = NotAsked)
    BY DEF SessionFits
<1> QED
    BY <1>1 DEF SessionFits

\* The list with its first step replaced by others.
LEMMA StepsReplaced ==
    ASSUME NEW k, NEW s, SessionFits(k, s), s.todo # <<>>, NEW q, StepsFit(k, q)
    PROVE  /\ StepsFit(k, q \o Tail(s.todo)) /\ StepsFit(k, q \o s.todo)
           /\ s.todo # <<>> => q \o s.todo # <<>>
<1>1. StepsFit(k, Tail(s.todo)) /\ StepsFit(k, s.todo)
    BY StepsOfTail DEF SessionFits
<1>2. s.todo # <<>> => q \o s.todo # <<>>
    <2>1. PICK a \in Nat : a = Len(q)
        BY ListFacts DEF StepsFit
    <2>2. PICK b \in Nat : b = Len(s.todo) /\ b # 0
        BY <1>1, ListFacts DEF StepsFit
    <2>3. Len(q \o s.todo) = a + b /\ IsList(q \o s.todo)
        BY <1>1, <2>1, <2>2, ListConcat DEF StepsFit
    <2>4. a + b # 0
        BY <2>2
    <2> QED
        BY <2>3, <2>4, ListFacts
<1> QED
    BY <1>1, <1>2, StepsOfConcat

-----------------------------------------------------------------------------
(* The kinds of steps the agent makes.                                     *)

\* The device is gone: nothing more is executed.
LEMMA GoneKeeps ==
    ASSUME ShellInv, dev.mode = Gone, UNCHANGED <<kind, secret, dev, stdin, arriving>>, sent' = sent,
           SessionFits(kind, ses'), BufferFits(buf')
    PROVE  ShellInv'
BY InvNext DEF ShellInv, Conversation, Channel

\* A step of a session at rest that writes nothing.
LEMMA QuietKeeps ==
    ASSUME ShellInv, UNCHANGED <<kind, secret, dev, stdin, arriving>>, sent' = sent,
           SessionFits(kind, ses'), BufferFits(buf'), ses.wait = None, ses'.wait = None,
           Strict(ses') => Strict(ses)
    PROVE  ShellInv'
<1>1. Conversation(kind, ses', buf', dev, sent, stdin, arriving)
    BY DEF ShellInv, Conversation, Channel, Unheard
<1> QED
    BY <1>1, InvNext DEF ShellInv

LEMMA NoBufferFits ==
    /\ BufferFits(NoBuffer) /\ NoBuffer.got = <<>> /\ NoBuffer.from = 1
    /\ \A c : BufferFits(Reading(c)) /\ Reading(c).got = <<>> /\ Reading(c).from = 1
<1>1. /\ NoBuffer = [cmd |-> "", got |-> <<>>, from |-> 1, flag |-> FALSE]
      /\ \A c : Reading(c) = [cmd |-> c, got |-> <<>>, from |-> 1, flag |-> FALSE]
    <2>1. NoBuffer = [cmd |-> "", got |-> <<>>, from |-> 1, flag |-> FALSE]
        BY DEF NoBuffer
    <2>2. ASSUME NEW c PROVE Reading(c) = [cmd |-> c, got |-> <<>>, from |-> 1, flag |-> FALSE]
        <3>1. \A b, x, g, f, y : b = [cmd |-> x, got |-> g, from |-> f, flag |-> y] =>
                [b EXCEPT !.cmd = c] = [cmd |-> c, got |-> g, from |-> f, flag |-> y]
            OBVIOUS
        <3> QED
            <4>1. PICK b, x, y : b = NoBuffer /\ x = "" /\ y = FALSE
                OBVIOUS
            <4>2. b = [cmd |-> x, got |-> <<>>, from |-> 1, flag |-> y]
                BY <2>1, <4>1
            <4>3. [b EXCEPT !.cmd = c] = [cmd |-> c, got |-> <<>>, from |-> 1, flag |-> y]
                BY <3>1, <4>2
            <4> QED
                BY <4>1, <4>3 DEF Reading
    <2> QED
        BY <2>1, <2>2
<1>2. IsList(<<>>) /\ 1 \in 1..Len(<<>>) + 1
    BY ListEmpty
<1> HIDE DEF NoBuffer, Reading
<1> QED
    BY <1>1, <1>2 DEF BufferFits

\* The session writes a line and waits for the answer.
Waits(s, w) == [s EXCEPT !.wait = w]
LEMMA AwaitFits ==
    ASSUME NEW k, NEW s, SessionFits(k, s), s.todo # <<>>, NEW w, w # None
    PROVE  SessionFits(k, Waits(s, w)) /\ Waits(s, w).wait = w /\ Waits(s, w).mode = s.mode
<1> PICK r : r = Waits(s, w)
    OBVIOUS
<1>1. r = [mode |-> s.mode, vsys |-> s.vsys, todo |-> s.todo, wait |-> w, task |-> s.task,
           begun |-> s.begun, up |-> s.up, wide |-> s.wide]
    BY DEF SessionFits, Waits
<1>2. StepsFit(k, s.todo)
    BY DEF SessionFits
<1>3. SessionFits(k, r)
    BY <1>1, <1>2, ChangedFits
<1> QED
    BY <1>1, <1>3

LEMMA WriteKeeps ==
    ASSUME ShellInv, UNCHANGED <<kind, secret, dev, stdin, arriving>>,
           ses.wait = None, ses.todo # <<>>, NEW w, w # None, NEW c, Await(w, c),
           NEW x, sent' = Append(sent, x),
           \/ x.is \notin Loud /\ ~(w = "moving" /\ ses.mode = LOGIN)
           \/ x.is = "enable" /\ w = "moving" /\ ses.mode = LOGIN /\ Strict(ses)
    PROVE  ShellInv'
<1>1. SessionFits(kind, ses') /\ ses'.wait = w /\ ses'.mode = ses.mode
    <2>1. SessionFits(kind, ses) /\ ses' = Waits(ses, w)
        BY DEF ShellInv, Await, Waits
    <2> QED
        BY <2>1, AwaitFits
<1>2. BufferFits(buf') /\ buf'.got = <<>> /\ buf'.from = 1
    BY NoBufferFits DEF Await
<1>3. IsList(sent) /\ IsList(stdin) /\ IsList(arriving)
    BY DEF ShellInv, Conversation
<1>4. PICK l, m : l = stdin \o sent /\ m = stdin \o Append(sent, x)
    OBVIOUS
<1>5. IsList(l) /\ IsList(m) /\ Extended(m, l, x) /\ IsList(Append(sent, x))
    BY <1>3, <1>4, LineAdded, ListAppend
<1>6. Unheard(ses', buf', arriving) = arriving /\ Unheard(ses, buf, arriving) = arriving
    BY <1>1, <1>2, <1>3, FromEnd, ListEmpty DEF Unheard
<1>7. Channel(Pairs[kind].device.asks, ses, dev, l, arriving)
    BY <1>4, <1>6 DEF ShellInv, Conversation
<1>8. Channel(Pairs[kind].device.asks, ses', dev, m, arriving)
    <2> SUFFICES ASSUME dev.mode # Gone PROVE Channel(Pairs[kind].device.asks, ses', dev, m, arriving)
        BY DEF Channel
    <2>1. CASE ~Pairs[kind].device.asks
        <3>1. Harmless(m)
            <4>1. x.is \notin Secrets
                BY DEF Loud, Forbidden, Secrets
            <4>2. Harmless(l)
                BY <1>7, <2>1 DEF Channel
            <4> QED
                BY <1>5, <4>1, <4>2, LongerFacts DEF Harmless
        <3> QED
            BY <1>7, <2>1, <3>1 DEF Channel
    <2>2. CASE Pairs[kind].device.asks /\ x.is \notin Loud /\ ~(w = "moving" /\ ses.mode = LOGIN)
        <3>1. Idle(l, arriving)
            BY <1>7, <2>2 DEF Channel
        <3>2. Waiting(m, arriving)
            BY <1>3, <1>5, <2>2, <3>1, LineWritten
        <3> QED
            BY <1>1, <2>2, <3>2 DEF Channel, Enables
    <2>3. CASE Pairs[kind].device.asks /\ x.is = "enable" /\ w = "moving" /\ ses.mode = LOGIN /\ Strict(ses)
        <3>1. Idle(l, arriving) /\ Clean(l, arriving)
            BY <1>7, <2>3 DEF Channel
        <3>2. Enabling(m, arriving, dev.asked)
            BY <1>3, <1>5, <2>3, <3>1, EnableWritten
        <3> QED
            BY <1>1, <2>3, <3>2 DEF Channel, Enables
    <2> QED
        BY <2>1, <2>2, <2>3
<1>9. Conversation(kind, ses', buf', dev, sent', stdin, arriving)
    BY <1>3, <1>4, <1>5, <1>6, <1>8 DEF Conversation
<1> QED
    BY <1>1, <1>2, <1>9, InvNext DEF ShellInv

\* On a device that asks for no password it is enough that none is asked for.
LEMMA PlainKeeps ==
    ASSUME ShellInv, UNCHANGED <<kind, secret, dev, stdin>>, ~Pairs[kind].device.asks,
           NEW q, IsList(q), Harmless(q), sent' = sent \o q,
           SessionFits(kind, ses'), BufferFits(buf'), IsList(arriving'),
           dev.mode # Gone => Asks(Unheard(ses', buf', arriving')) = {}
    PROVE  ShellInv'
<1>1. IsList(sent) /\ IsList(stdin) /\ IsList(arriving)
      /\ (dev.mode # Gone => dev.asked = FALSE /\ Harmless(stdin \o sent))
    BY DEF ShellInv, Conversation, Channel
<1>2. IsList(sent \o q) /\ IsList(stdin \o sent)
    BY <1>1, ListConcat
<1>3. stdin \o (sent \o q) = (stdin \o sent) \o q
    BY <1>1, ListAssociative
<1>4. dev.mode # Gone => Harmless(stdin \o (sent \o q))
    BY <1>1, <1>2, <1>3, ConcatHarmless
<1>5. Conversation(kind, ses', buf', dev, sent \o q, stdin, arriving')
    BY <1>1, <1>2, <1>4 DEF Conversation, Channel
<1> QED
    BY <1>5, InvNext DEF ShellInv

-----------------------------------------------------------------------------
(* Reading.                                                                *)

ReadIs(u, h, b, f, e) ==
    /\ IsList(h) /\ IsList(b) /\ From(h, Len(h) + 1, b) = b
    /\ Behind(From(h, e, b), u, e - f) /\ IsList(From(h, e, b)) /\ IsList(u)
    /\ \A i \in f..e - 1 : i + 1 - f \in 1..e - f /\ i + 1 - f \in DOMAIN u /\ u[i + 1 - f] = h[i]

LEMMA ReadParts ==
    ASSUME ShellInv, ses.wait # None, NEW n \in 1..Len(arriving), NEW h, NEW b,
           Taken(buf.got, arriving, n, h, b), NEW e \in buf.from..Len(h) + 1
    PROVE  ReadIs(Unheard(ses, buf, arriving), h, b, buf.from, e)
<1>1. IsList(buf.got) /\ IsList(arriving) /\ buf.from \in 1..Len(buf.got) + 1
    BY DEF ShellInv, Conversation, BufferFits
<1>2. TakenIs(buf.got, arriving, n, h, b)
    BY <1>1, ChunkFacts
<1>3. From(h, Len(h) + 1, b) = b
    BY <1>2, FromEnd DEF TakenIs
<1>4. PICK g, f, a : g = buf.got /\ f = buf.from /\ a = arriving
    OBVIOUS
<1>5. /\ Behind(From(h, e, b), From(g, f, a), e - f)
      /\ IsList(From(h, e, b)) /\ IsList(From(g, f, a))
      /\ \A i \in f..e - 1 : i + 1 - f \in 1..e - f /\ i + 1 - f \in DOMAIN From(g, f, a)
                            /\ From(g, f, a)[i + 1 - f] = h[i]
    <2>1. IsList(g) /\ IsList(a) /\ f \in 1..Len(g) + 1 /\ n \in 1..Len(a)
          /\ Taken(g, a, n, h, b) /\ e \in f..Len(h) + 1
        BY <1>1, <1>4
    <2> QED
        BY <2>1, ReadBehind
<1>6. Unheard(ses, buf, arriving) = From(g, f, a)
    BY <1>4 DEF Unheard
<1> QED
    BY <1>2, <1>3, <1>4, <1>5, <1>6 DEF TakenIs, ReadIs

\* What stands in the buffer was unread, and all of that is read.
LEMMA ReadAll ==
    ASSUME ShellInv, ses.wait # None, NEW n \in 1..Len(arriving), NEW h,
           Taken(buf.got, arriving, n, h, arriving'), NEW i \in buf.from..Len(h)
    PROVE  /\ IsList(Unheard(ses, buf, arriving)) /\ IsList(arriving')
           /\ From(h, Len(h) + 1, arriving') = arriving'
           /\ \E d : \E j \in 1..d : /\ Behind(arriving', Unheard(ses, buf, arriving), d)
                                    /\ j \in DOMAIN Unheard(ses, buf, arriving)
                                    /\ Unheard(ses, buf, arriving)[j] = h[i]
<1>1. PICK f \in Nat, k \in Nat : f = buf.from /\ k = Len(h)
    <2>1. IsList(buf.got) /\ IsList(arriving) /\ buf.from \in 1..Len(buf.got) + 1
        BY DEF ShellInv, Conversation, BufferFits
    <2>2. TakenIs(buf.got, arriving, n, h, arriving')
        BY <2>1, ChunkFacts
    <2>3. Len(h) \in Nat /\ Len(buf.got) \in Nat
        BY <2>1, <2>2, ListFacts DEF TakenIs
    <2>4. buf.from \in Nat
        BY <2>1, <2>3
    <2> QED
        BY <2>3, <2>4
<1>2. k + 1 \in f..k + 1 /\ i \in f..(k + 1) - 1
    BY <1>1
<1>3. ReadIs(Unheard(ses, buf, arriving), h, arriving', buf.from, Len(h) + 1)
    BY <1>1, <1>2, ReadParts
<1>4. ReadIs(Unheard(ses, buf, arriving), h, arriving', f, k + 1)
    BY <1>1, <1>3
<1>5. PICK d, j : d = k + 1 - f /\ j = i + 1 - f
    OBVIOUS
<1>6. PICK u : u = Unheard(ses, buf, arriving)
    OBVIOUS
<1>7. Behind(arriving', u, d) /\ j \in 1..d /\ j \in DOMAIN u /\ u[j] = h[i]
    <2>1. \A m \in f..(k + 1) - 1 : /\ m + 1 - f \in 1..(k + 1) - f /\ m + 1 - f \in DOMAIN u
                                    /\ u[m + 1 - f] = h[m]
        BY <1>4, <1>6 DEF ReadIs
    <2>2. j \in 1..d /\ j \in DOMAIN u /\ u[j] = h[i]
        BY <1>2, <1>5, <2>1
    <2>3. Behind(From(h, k + 1, arriving'), u, d)
        BY <1>4, <1>5, <1>6 DEF ReadIs
    <2>4. From(h, k + 1, arriving') = arriving'
        BY <1>1, <1>3 DEF ReadIs
    <2> QED
        BY <2>2, <2>3, <2>4
<1> QED
    BY <1>3, <1>6, <1>7 DEF ReadIs

\* A chunk without what is looked for.
LEMMA ReadOn ==
    ASSUME ShellInv, ses.wait # None, NEW n \in 1..Len(arriving), NEW h,
           Taken(buf.got, arriving, n, h, arriving'), UNCHANGED <<kind, secret, dev, stdin>>,
           ses' = ses, sent' = sent, BufferFits(buf'), buf'.got = h, buf'.from \in buf.from..Len(h) + 1
    PROVE  ShellInv'
<1>1. PICK e \in buf.from..Len(h) + 1 : e = buf'.from
    OBVIOUS
<1>2. PICK u, v, l : u = Unheard(ses, buf, arriving) /\ v = From(h, e, arriving') /\ l = stdin \o sent
    OBVIOUS
<1>3. Behind(v, u, e - buf.from) /\ IsList(u) /\ IsList(v) /\ IsList(arriving')
    BY <1>2, ReadParts DEF ReadIs
<1>4. v = Unheard(ses', buf', arriving')
    BY <1>1, <1>2 DEF Unheard
<1>5. Channel(Pairs[kind].device.asks, ses, dev, l, u)
    BY <1>2 DEF ShellInv, Conversation
<1>6. Asks(u) = {} => Asks(v) = {}
    BY <1>3, BehindFacts
<1>7. Channel(Pairs[kind].device.asks, ses, dev, l, v)
    BY <1>3, <1>5, <1>6, BehindWaiting, BehindEnabling DEF Channel
<1>8. Conversation(kind, ses', buf', dev, sent', stdin, arriving')
    BY <1>2, <1>3, <1>4, <1>7 DEF ShellInv, Conversation
<1> QED
    BY <1>8, InvNext DEF ShellInv

\* A prompt ends what was waited for.
LEMMA ReadPrompt ==
    ASSUME ShellInv, ses.wait # None, NEW n \in 1..Len(arriving), NEW h,
           Taken(buf.got, arriving, n, h, arriving'), UNCHANGED <<kind, secret, dev, stdin>>,
           NEW i \in buf.from..Len(h), h[i].t = "prompt", sent' = sent,
           SessionFits(kind, ses'), ses'.wait = None, Strict(ses') => ~Enables(ses), BufferFits(buf')
    PROVE  ShellInv'
<1>3. PICK u, l, a : u = Unheard(ses, buf, arriving) /\ l = stdin \o sent /\ a = arriving'
    OBVIOUS
<1>4. IsList(u) /\ IsList(a) /\ IsList(arriving')
    BY <1>3, ReadAll
<1>5. PICK d : \E j \in 1..d : Behind(a, u, d) /\ j \in DOMAIN u /\ u[j] = h[i]
    BY <1>3, ReadAll
<1>6. PICK j \in 1..d : Behind(a, u, d) /\ j \in Answers(u)
    BY <1>5 DEF Answers
<1>7. Channel(Pairs[kind].device.asks, ses, dev, l, u) /\ IsList(l)
    BY <1>3, ListConcat DEF ShellInv, Conversation
<1>8. Asks(u) = {} => Asks(a) = {}
    BY <1>4, <1>6, BehindFacts
<1>9. Channel(Pairs[kind].device.asks, ses', dev, l, a)
    <2>1. CASE Enables(ses)
        <3>1. Enabling(l, u, dev.asked) => Idle(l, a)
            BY <1>4, <1>6, <1>7, PromptEndsEnabling
        <3> QED
            BY <1>7, <1>8, <2>1, <3>1 DEF Channel
    <2>2. CASE ~Enables(ses)
        <3>1. Waiting(l, u) => Idle(l, a) /\ Clean(l, a)
            BY <1>4, <1>6, <1>7, PromptEndsWaiting
        <3> QED
            BY <1>7, <1>8, <2>2, <3>1 DEF Channel
    <2> QED
        BY <2>1, <2>2
<1>10. Conversation(kind, ses', buf', dev, sent', stdin, arriving')
    BY <1>3, <1>4, <1>9 DEF ShellInv, Conversation, Unheard
<1> QED
    BY <1>10, InvNext DEF ShellInv

\* The question is answered.
LEMMA ReadQuestion ==
    ASSUME ShellInv, ses.wait # None, NEW n \in 1..Len(arriving), NEW h,
           Taken(buf.got, arriving, n, h, arriving'), UNCHANGED <<kind, secret, dev, stdin>>,
           NEW i \in buf.from..Len(h), h[i].t = "ask", Enables(ses), ses' = ses,
           NEW x, x.is \in Secrets, sent' = Append(sent, x),
           BufferFits(buf'), buf'.got = h, buf'.from = Len(h) + 1
    PROVE  ShellInv'
<1>3. PICK u, l, m, a : /\ u = Unheard(ses, buf, arriving) /\ l = stdin \o sent
                        /\ m = stdin \o Append(sent, x) /\ a = arriving'
    OBVIOUS
<1>4. IsList(u) /\ IsList(a) /\ IsList(arriving') /\ From(h, Len(h) + 1, a) = a
    BY <1>3, ReadAll
<1>5. PICK d : \E j \in 1..d : Behind(a, u, d) /\ j \in DOMAIN u /\ u[j] = h[i]
    BY <1>3, ReadAll
<1>6. PICK j \in 1..d : Behind(a, u, d) /\ j \in Asks(u)
    BY <1>5 DEF Asks
<1>7. Channel(Pairs[kind].device.asks, ses, dev, l, u) /\ IsList(sent) /\ IsList(stdin)
    BY <1>3 DEF ShellInv, Conversation
<1>8. IsList(l) /\ IsList(m) /\ Extended(m, l, x) /\ IsList(Append(sent, x))
    BY <1>3, <1>7, LineAdded, ListAppend
<1>9. Channel(Pairs[kind].device.asks, ses, dev, m, a)
    <2>1. Enabling(l, u, dev.asked) => Enabling(m, a, dev.asked)
        BY <1>4, <1>6, <1>8, SecretWritten
    <2> QED
        BY <1>6, <1>7, <2>1 DEF Channel
<1>10. Unheard(ses', buf', arriving') = a
    BY <1>3, <1>4 DEF Unheard
<1>11. Conversation(kind, ses', buf', dev, sent', stdin, arriving')
    BY <1>3, <1>4, <1>7, <1>8, <1>9, <1>10 DEF Conversation
<1> QED
    BY <1>11, InvNext DEF ShellInv

-----------------------------------------------------------------------------
(* The device receives a line.                                             *)

LEMMA ChannelSame ==
    ASSUME NEW asks, NEW s, NEW d, NEW l, NEW u, NEW v, Channel(asks, s, d, l, u),
           Answers(v) = Answers(u), Asks(v) = Asks(u)
    PROVE  Channel(asks, s, d, l, v)
BY DEF Channel, Idle, Clean, Waiting, Enabling, AtMostOne, AtMostTwo

\* What is unread when more arrives.
UnheardGrown(s, b, a, r) ==
    Unheard(s, b, a \o r) = Unheard(s, b, a) \o r /\ IsList(Unheard(s, b, a)) /\ IsList(a \o r)

LEMMA UnheardGrows ==
    ASSUME NEW s, NEW b, BufferFits(b), NEW a, NEW r, IsList(a), IsList(r)
    PROVE  UnheardGrown(s, b, a, r)
<1>1. IsList(b.got) /\ b.from \in 1..Len(b.got) + 1
    BY DEF BufferFits
<1>2. PICK g, f : g = b.got /\ f = b.from
    OBVIOUS
<1>3. From(g, f, a \o r) = From(g, f, a) \o r
    <2>1. IsList(g) /\ f \in 1..Len(g) + 1
        BY <1>1, <1>2
    <2> QED
        BY <2>1, FromGrows
<1>4. FromIs(g, f, a)
    BY <1>1, <1>2, FromFacts
<1>5. IsList(a \o r)
    BY ListConcat
<1> QED
    BY <1>2, <1>3, <1>4, <1>5 DEF Unheard, FromIs, UnheardGrown

LEMMA ReceivesKeeps == ASSUME ShellInv, DeviceReceives PROVE ShellInv'
<1>1. PICK s, r, a, x : s = stdin /\ r = sent /\ a = arriving /\ x = Echo(Head(sent).is)
    OBVIOUS
<1>2. IsList(s) /\ IsList(r) /\ IsList(a) /\ r # <<>>
    BY <1>1 DEF ShellInv, Conversation, DeviceReceives
<1>3. stdin' = Append(s, Head(r)) /\ sent' = Tail(r) /\ arriving' = Append(a, x)
      /\ UNCHANGED <<kind, secret, dev, ses, buf>>
    BY <1>1 DEF DeviceReceives
<1>4. Append(s, Head(r)) \o Tail(r) = s \o r
    BY <1>2, LinesReceived
<1>5. IsList(Append(s, Head(r))) /\ IsList(Tail(r)) /\ IsList(<<x>>) /\ Append(a, x) = a \o <<x>>
    BY <1>2, ListAppend, ListTail, ListOne
<1>6. PICK u : u = Unheard(ses, buf, a)
    OBVIOUS
<1>7. Unheard(ses, buf, a \o <<x>>) = u \o <<x>> /\ IsList(u) /\ IsList(a \o <<x>>)
    <2>1. BufferFits(buf)
        BY DEF ShellInv
    <2> QED
        <3>1. UnheardGrown(ses, buf, a, <<x>>)
            BY <1>2, <1>5, <2>1, UnheardGrows
        <3> QED
            BY <1>6, <3>1 DEF UnheardGrown
<1>8. u \o <<x>> = Append(u, x) /\ x.t \notin {"prompt", "ask"}
    BY <1>1, <1>7, ListAppend DEF Echo
<1>9. Answers(u \o <<x>>) = Answers(u) /\ Asks(u \o <<x>>) = Asks(u)
    BY <1>7, <1>8, QuietAdded
<1>10. Channel(Pairs[kind].device.asks, ses, dev, s \o r, u)
    BY <1>1, <1>6 DEF ShellInv, Conversation
<1>11. Channel(Pairs[kind].device.asks, ses, dev, s \o r, u \o <<x>>)
    BY <1>9, <1>10, ChannelSame
<1>12. Conversation(kind, ses, buf, dev, Tail(r), Append(s, Head(r)), a \o <<x>>)
    BY <1>4, <1>5, <1>7, <1>11 DEF Conversation
<1> QED
    BY <1>3, <1>5, <1>12, InvNext DEF ShellInv

-----------------------------------------------------------------------------
(* The device executes a line.                                             *)

DeviceKept(d, e) == DeviceFits(e) /\ e.asked = d.asked

LEMMA DeviceChanged ==
    ASSUME NEW d, DeviceFits(d), NEW x
    PROVE  /\ DeviceKept(d, [d EXCEPT !.mode = x]) /\ DeviceKept(d, [d EXCEPT !.vsys = x])
           /\ DeviceKept(d, [d EXCEPT !.open = x]) /\ DeviceKept(d, d)
<1>1. \A e, w, y, z : e = [mode |-> w, vsys |-> y, open |-> z, asked |-> d.asked] => DeviceKept(d, e)
    BY DEF DeviceFits, DeviceKept
<1>2. [d EXCEPT !.mode = x] = [mode |-> x, vsys |-> d.vsys, open |-> d.open, asked |-> d.asked]
    BY DEF DeviceFits
<1>3. [d EXCEPT !.vsys = x] = [mode |-> d.mode, vsys |-> x, open |-> d.open, asked |-> d.asked]
    BY DEF DeviceFits
<1>4. [d EXCEPT !.open = x] = [mode |-> d.mode, vsys |-> d.vsys, open |-> x, asked |-> d.asked]
    BY DEF DeviceFits
<1>5. DeviceKept(d, d)
    BY DEF DeviceKept
<1> QED
    BY <1>1, <1>2, <1>3, <1>4, <1>5

LEMMA DeviceReset ==
    ASSUME NEW d, DeviceFits(d), NEW m, NEW v
    PROVE  DeviceKept(d, [d EXCEPT !.mode = m, !.vsys = v])
<1>1. PICK e : e = [d EXCEPT !.mode = m]
    OBVIOUS
<1>2. DeviceKept(d, e)
    BY <1>1, DeviceChanged
<1>3. DeviceKept(e, [e EXCEPT !.vsys = v])
    BY <1>2, DeviceChanged DEF DeviceKept
<1>4. [e EXCEPT !.vsys = v] = [d EXCEPT !.mode = m, !.vsys = v]
    BY <1>1
<1> QED
    BY <1>2, <1>3, <1>4 DEF DeviceKept

LEMMA ExecutedFits ==
    ASSUME NEW d, DeviceFits(d), NEW c
    PROVE  DeviceKept(d, Executed(d, c))
<1>1. DeviceKept(d, SiteObeys(d, c))
    BY DeviceChanged DEF SiteObeys
<1>2. DeviceKept(d, UsgObeys(d, c))
    BY DeviceChanged, DeviceReset DEF UsgObeys
<1>3. DeviceKept(d, VdomObeys(d, c))
    BY DeviceChanged DEF VdomObeys
<1> QED
    BY <1>1, <1>2, <1>3, DeviceChanged DEF Executed

\* The device handles a line of a session that enables.
Enabled(l, m, u, v, t, asked, after) ==
    /\ IsList(l) /\ IsList(m) /\ IsList(u) /\ IsList(v) /\ l # <<>> /\ Shorter(m, l) /\ Answered(v, u, t)
    /\ t \in {"prompt", "ask"} /\ Enabling(l, u, asked)
    /\ t = "ask" => l[1].is = "enable" /\ after = TRUE

LEMMA EnabledStays ==
    ASSUME NEW l, NEW m, NEW u, NEW v, NEW t, NEW asked, NEW after, Enabled(l, m, u, v, t, asked, after)
    PROVE  Enabling(m, v, after)
BY HandlesEnabling DEF Enabled

LEMMA ShownIsPrompt == ASSUME NEW d PROVE Shown(d).t = "prompt"
<1>1. \A s, v : Prompt(s, v).t = "prompt"
    BY DEF Prompt
<1> QED
    BY <1>1 DEF Shown

LEMMA HandlesKeeps == ASSUME ShellInv, DeviceHandles PROVE ShellInv'
<1>1. PICK s, r, a, c, asks : /\ s = stdin /\ r = sent /\ a = arriving /\ c = Head(stdin).is
                             /\ asks = Pairs[kind].device.asks
    OBVIOUS
<1>2. IsList(s) /\ IsList(r) /\ IsList(a) /\ s # <<>> /\ dev.mode # Gone /\ DeviceFits(dev)
    BY <1>1 DEF ShellInv, Conversation, DeviceHandles
<1> DEFINE right == c = "right"
           Asked == [dev EXCEPT !.asked = FALSE, !.mode = IF right THEN ENABLE ELSE LOGIN]
           Asking == device.asks /\ dev.mode = LOGIN /\ c = "enable"
<1>3. PICK d : d = (IF dev.asked THEN Asked
                    ELSE IF Asking THEN [dev EXCEPT !.asked = TRUE] ELSE Executed(dev, c))
    OBVIOUS
<1>4. PICK p : p = CASE d.mode = Gone -> <<>>
                     [] d.asked -> <<Question>>
                     [] OTHER -> <<Output(IF dev.asked /\ right THEN "" ELSE c), Shown(d)>>
    OBVIOUS
<1>5. /\ dev' = d /\ arriving' = a \o p /\ stdin' = Tail(s) /\ UNCHANGED <<kind, secret, sent, ses, buf>>
    BY <1>1, <1>3, <1>4 DEF DeviceHandles
<1>6. /\ DeviceFits(d) /\ (d.asked => ~dev.asked /\ Asking /\ d.mode = LOGIN)
    <2>1. CASE dev.asked
        <3>1. PICK e : e = [dev EXCEPT !.asked = FALSE]
            OBVIOUS
        <3>2. e = [mode |-> dev.mode, vsys |-> dev.vsys, open |-> dev.open, asked |-> FALSE]
            BY <1>2, <3>1 DEF DeviceFits
        <3>3. DeviceFits(e) /\ e.asked = FALSE
            BY <3>2 DEF DeviceFits
        <3>4. d = [e EXCEPT !.mode = IF right THEN ENABLE ELSE LOGIN]
            BY <1>3, <2>1, <3>1
        <3>5. DeviceKept(e, d)
            BY <3>3, <3>4, DeviceChanged
        <3> QED
            BY <3>3, <3>5 DEF DeviceKept
    <2>2. CASE ~dev.asked /\ Asking
        <3>1. d = [mode |-> dev.mode, vsys |-> dev.vsys, open |-> dev.open, asked |-> TRUE]
            BY <1>2, <1>3, <2>2 DEF DeviceFits
        <3> QED
            BY <2>2, <3>1 DEF DeviceFits
    <2>3. CASE ~dev.asked /\ ~Asking
        <3>1. DeviceKept(dev, Executed(dev, c)) /\ d = Executed(dev, c)
            BY <1>2, <1>3, <2>3, ExecutedFits
        <3> QED
            BY <2>3, <3>1 DEF DeviceKept
    <2> QED
        BY <2>1, <2>2, <2>3
<1>7. IsList(p) /\ (d.mode # Gone => Reply(p, IF d.asked THEN "ask" ELSE "prompt"))
    <2>1. CASE d.mode = Gone
        <3>1. ~d.asked
            BY <1>6, <2>1 DEF LOGIN, Gone
        <3>2. p = <<>>
            BY <1>4, <2>1, <3>1
        <3> QED
            BY <2>1, <3>2, ListEmpty
    <2>2. CASE d.mode # Gone /\ d.asked
        <3>1. p = <<Question>> /\ Question.t = "ask"
            BY <1>4, <2>2 DEF Question
        <3>2. IsList(p) /\ p # <<>> /\ Len(p) = 1 /\ p[1] = Question
            BY <3>1, ListOne
        <3> QED
            BY <2>2, <3>1, <3>2 DEF Reply
    <2>3. CASE d.mode # Gone /\ ~d.asked
        <3>1. PICK x, y : p = <<x, y>> /\ x.t = "output" /\ y.t = "prompt"
            <4>1. \A z : Output(z).t = "output"
                BY DEF Output
            <4> QED
                BY <1>4, <2>3, <4>1, ShownIsPrompt
        <3>2. <<x, y>> \in Seq({x, y}) /\ Len(<<x, y>>) = 2 /\ <<x, y>>[1] = x /\ <<x, y>>[2] = y
              /\ <<x, y>> # <<>>
            OBVIOUS
        <3>3. \A i \in 1..2 - 1 : i = 1
            OBVIOUS
        <3>4. IsList(p)
            BY <3>1, <3>2 DEF IsList
        <3> QED
            BY <2>3, <3>1, <3>2, <3>3, <3>4 DEF Reply
    <2> QED
        BY <2>1, <2>2, <2>3
<1>8. PICK u, l, m : /\ u = Unheard(ses, buf, a) /\ l = s \o r /\ m = Tail(s) \o r
    OBVIOUS
<1>9. IsList(u) /\ IsList(a \o p) /\ Unheard(ses, buf, a \o p) = u \o p
    <2>1. BufferFits(buf)
        BY DEF ShellInv
    <2>2. UnheardGrown(ses, buf, a, p)
        BY <1>2, <1>7, <2>1, UnheardGrows
    <2> QED
        BY <1>8, <2>2 DEF UnheardGrown
<1>10. IsList(l) /\ IsList(m) /\ Shorter(m, l) /\ l[1] = Head(s) /\ l # <<>> /\ IsList(Tail(s))
    BY <1>2, <1>8, LinesExecuted, ListTail
<1>11. Channel(asks, ses, dev, l, u)
    BY <1>1, <1>8 DEF ShellInv, Conversation
<1>12. Channel(asks, ses, d, m, u \o p)
    <2> SUFFICES ASSUME d.mode # Gone PROVE Channel(asks, ses, d, m, u \o p)
        BY DEF Channel
    <2> DEFINE t == IF d.asked THEN "ask" ELSE "prompt"
    <2>1. PICK v : v = u \o p /\ Answered(v, u, t) /\ IsList(v)
        BY <1>7, <1>9, ReplyAdded
    <2>2. t = "ask" => l[1].is = "enable" /\ d.asked = TRUE /\ asks
        BY <1>1, <1>6, <1>10 DEF device, DeviceFits
    <2>3. t \in {"prompt", "ask"}
        OBVIOUS
    <2>4. t = "prompt" \/ t = "ask"
        OBVIOUS
    <2> HIDE DEF t
    <2>5. CASE ~asks
        <3>1. t = "prompt" /\ d.asked = FALSE
            BY <1>6, <2>2, <2>4, <2>5, <1>1 DEF device, DeviceFits
        <3>2. Asks(u) = {} /\ Harmless(l)
            BY <1>2, <1>11, <2>5 DEF Channel
        <3>3. Asks(v) = {}
            BY <1>9, <2>1, <3>1, <3>2, AnsweredFacts
        <3>4. Harmless(m)
            BY <1>10, <3>2, ShorterFacts DEF Harmless
        <3> QED
            BY <2>1, <2>5, <3>1, <3>3, <3>4 DEF Channel
    <2>6. CASE asks /\ ses.wait = None
        <3>1. Idle(l, u) /\ (Strict(ses) => Clean(l, u))
            BY <1>2, <1>11, <2>6 DEF Channel
        <3>2. Idle(m, v) /\ (Clean(l, u) => Clean(m, v))
            BY <1>9, <1>10, <2>1, <2>2, <2>3, <3>1, HandlesIdle
        <3> QED
            BY <2>1, <2>6, <3>1, <3>2 DEF Channel
    <2>7. CASE asks /\ ses.wait # None /\ Enables(ses)
        <3>1. Enabling(l, u, dev.asked)
            BY <1>2, <1>11, <2>7 DEF Channel
        <3>2. PICK before, after : before = dev.asked /\ after = d.asked
            OBVIOUS
        <3>3. Enabling(l, u, before) /\ (t = "ask" => l[1].is = "enable" /\ after = TRUE)
            BY <2>2, <3>1, <3>2
        <3>5. Enabled(l, m, u, v, t, before, after)
            BY <1>9, <1>10, <2>1, <2>3, <3>3 DEF Enabled
        <3>4. Enabling(m, v, after)
            BY <3>5, EnabledStays
        <3> QED
            BY <2>1, <2>7, <3>2, <3>4 DEF Channel
    <2>8. CASE asks /\ ses.wait # None /\ ~Enables(ses)
        <3>1. Waiting(l, u)
            BY <1>2, <1>11, <2>8 DEF Channel
        <3>2. Waiting(m, v)
            BY <1>9, <1>10, <2>1, <2>2, <2>3, <3>1, HandlesWaiting
        <3> QED
            BY <2>1, <2>8, <3>2 DEF Channel
    <2> QED
        BY <2>5, <2>6, <2>7, <2>8
<1>13. Conversation(kind, ses, buf, d, r, Tail(s), a \o p)
    BY <1>1, <1>2, <1>8, <1>9, <1>10, <1>12 DEF Conversation
<1> QED
    BY <1>1, <1>5, <1>6, <1>13, InvNext DEF ShellInv

-----------------------------------------------------------------------------
(* The steps of the session that write.                                    *)

\* One or two lines, none of them a password.
LEMMA LinesOfFew ==
    ASSUME NEW cs, NEW q, q = [i \in DOMAIN cs |-> [is |-> cs[i], for |-> NotAsked]],
           \/ \E c : cs = <<c>> /\ c \notin Loud
           \/ \E b, c : cs = <<b, c>> /\ b \notin Loud /\ c \notin Loud
    PROVE  IsList(q) /\ Harmless(q)
<1>1. CASE \E c : cs = <<c>> /\ c \notin Loud
    <2>1. PICK c : cs = <<c>> /\ c \notin Loud
        BY <1>1
    <2>2. PICK x : x = [is |-> c, for |-> NotAsked]
        OBVIOUS
    <2>3. q = <<x>> /\ x.is \notin Secrets
        BY <2>1, <2>2 DEF Loud, Forbidden, Secrets
    <2>4. IsList(<<x>>) /\ DOMAIN <<x>> = {1} /\ <<x>>[1] = x
        BY ListOne
    <2> QED
        BY <2>3, <2>4 DEF Harmless
<1>2. CASE \E b, c : cs = <<b, c>> /\ b \notin Loud /\ c \notin Loud
    <2>1. PICK b, c : cs = <<b, c>> /\ b \notin Loud /\ c \notin Loud
        BY <1>2
    <2> QED
        BY <2>1, LinesOfTwo
<1> QED
    BY <1>1, <1>2

\* A line written, or a read begun, where no password is asked for.
LEMMA PlainAwaits ==
    ASSUME ShellInv, UNCHANGED <<kind, secret, dev, stdin>>, ~Pairs[kind].device.asks,
           ses.todo # <<>>, NEW w, w # None, NEW c, Await(w, c),
           NEW q, IsList(q), Harmless(q), sent' = sent \o q,
           IsList(arriving'), dev.mode # Gone => Asks(arriving') = {}
    PROVE  ShellInv'
<1>1. SessionFits(kind, ses') /\ ses'.wait = w
    <2>1. SessionFits(kind, ses) /\ ses' = Waits(ses, w)
        BY DEF ShellInv, Await, Waits
    <2> QED
        BY <2>1, AwaitFits
<1>2. BufferFits(buf') /\ buf'.got = <<>> /\ buf'.from = 1
    BY NoBufferFits DEF Await
<1>3. Unheard(ses', buf', arriving') = arriving'
    BY <1>1, <1>2, FromEnd, ListEmpty DEF Unheard
<1> QED
    BY <1>1, <1>2, <1>3, PlainKeeps

\* Nothing is asked for by such a device.
LEMMA PlainQuiet ==
    ASSUME ShellInv, ~Pairs[kind].device.asks, dev.mode # Gone
    PROVE  Asks(Unheard(ses, buf, arriving)) = {}
BY DEF ShellInv, Conversation, Channel

LEMMA PlainRests ==
    ASSUME ShellInv, ~Pairs[kind].device.asks, ses.wait = None
    PROVE  IsList(arriving) /\ (dev.mode # Gone => Asks(arriving) = {})
<1>1. IsList(arriving) /\ Unheard(ses, buf, arriving) = arriving
    BY DEF ShellInv, Conversation, Unheard
<1> QED
    BY <1>1, PlainQuiet

LEMMA SessionReady ==
    ASSUME SessionFits(kind, ses), NEW do, Ready(do)
    PROVE  /\ SessionFits(kind, ses) /\ ses.wait = None /\ ses.todo # <<>> /\ Now.do = do
           /\ StepFits(kind, Now) /\ StepsFit(kind, Tail(ses.todo)) /\ Now = Head(ses.todo)
<1>1. SessionFits(kind, ses) /\ ses.wait = None /\ ses.todo # <<>> /\ Now.do = do
    BY DEF Ready
<1>2. StepsFit(kind, ses.todo)
    BY <1>1 DEF SessionFits
<1>3. StepFits(kind, Head(ses.todo)) /\ StepsFit(kind, Tail(ses.todo))
    BY <1>1, <1>2, StepsOfTail
<1> QED
    BY <1>1, <1>3 DEF Now

LEMMA ReadyFits ==
    ASSUME ShellInv, NEW do, Ready(do)
    PROVE  /\ SessionFits(kind, ses) /\ ses.wait = None /\ ses.todo # <<>> /\ Now.do = do
           /\ StepFits(kind, Now) /\ StepsFit(kind, Tail(ses.todo)) /\ Now = Head(ses.todo)
BY SessionReady DEF ShellInv

LEMMA DrainsKeeps == ASSUME ShellInv, Drains PROVE ShellInv'
<1>1. ses.wait = None /\ ses.todo # <<>> /\ ~Pairs[kind].device.asks
    BY ReadyFits DEF Drains, StepFits
<1>2. IsList(arriving) /\ (dev.mode # Gone => Asks(arriving) = {})
    BY <1>1, PlainRests
<1>3. IsList(<<>>) /\ Harmless(<<>>) /\ sent \o <<>> = sent
    <2>1. IsList(sent)
        BY DEF ShellInv, Conversation
    <2> QED
        BY <2>1, ListEmpty, ListConcat DEF Harmless
<1>4. /\ UNCHANGED <<kind, secret, dev, stdin, arriving>> /\ sent' = sent
      /\ Await("drain", "") /\ "drain" # None
    BY DEF Drains, AgentOnly, None
<1> QED
    BY <1>1, <1>2, <1>3, <1>4, PlainAwaits

\* The plugin of the row.
LEMMA PluginOfRow ==
    ASSUME kind \in Kinds
    PROVE  /\ plugin = Pairs[kind].plugin /\ device = Pairs[kind].device
           /\ plugin.config \notin Forbidden /\ plugin.exit \notin Forbidden /\ Worded(plugin.paging)
           /\ device.asks \in BOOLEAN
           /\ device.asks => plugin.leaves = "never" /\ plugin.drains = FALSE /\ plugin.asks = TRUE
<1>1. kind \in DOMAIN Pairs
    BY KindsAssumption
<1> QED
    BY <1>1, PairsProper DEF plugin, device, Spoken, Prompted

LEMMA PluginProper ==
    ASSUME ShellInv
    PROVE  /\ plugin = Pairs[kind].plugin /\ device = Pairs[kind].device
           /\ plugin.config \notin Forbidden /\ plugin.exit \notin Forbidden /\ Worded(plugin.paging)
           /\ device.asks \in BOOLEAN
           /\ device.asks => plugin.leaves = "never" /\ plugin.drains = FALSE /\ plugin.asks = TRUE
BY PluginOfRow DEF ShellInv

LEMMA DecidesKeeps == ASSUME ShellInv, Decides PROVE ShellInv'
<1>1. ses.wait = None /\ ses.todo # <<>>
    BY ReadyFits DEF Decides
<1>2. /\ UNCHANGED <<kind, secret, dev, stdin, arriving>>
      /\ Await("decide", "") /\ "decide" # None /\ "decide" # "moving"
    BY DEF Decides, AgentOnly, None
<1>3. IsList(sent)
    BY DEF ShellInv, Conversation
<1>4. "" \notin Loud
    BY DEF Loud
<1>5. CASE device.asks
    <2>1. plugin.leaves = "never" /\ Pairs[kind].device.asks
        BY <1>5, PluginProper
    <2>2. Write(<<"">>)
        BY <2>1 DEF Decides
    <2>3. PICK x : x = [is |-> "", for |-> NotAsked]
        OBVIOUS
    <2>4. sent' = Append(sent, x) /\ x.is = ""
        BY <1>3, <2>2, <2>3, LineOfOne DEF Write
    <2> QED
        BY <1>1, <1>2, <1>4, <2>4, WriteKeeps
<1>6. CASE ~device.asks
    <2>1. PICK cs : Write(cs) /\ cs \in {<<plugin.exit, "">>, <<"">>}
        BY DEF Decides
    <2>2. PICK q : q = [i \in DOMAIN cs |-> [is |-> cs[i], for |-> NotAsked]]
        OBVIOUS
    <2>3. plugin.exit \notin Loud /\ ~Pairs[kind].device.asks
        BY <1>6, PluginProper DEF Forbidden
    <2>4. IsList(q) /\ Harmless(q)
        BY <1>4, <2>1, <2>2, <2>3, LinesOfFew
    <2>5. sent' = sent \o q
        BY <2>1, <2>2 DEF Write
    <2>6. IsList(arriving) /\ (dev.mode # Gone => Asks(arriving) = {})
        BY <1>1, <2>3, PlainRests
    <2> QED
        BY <1>1, <1>2, <2>3, <2>4, <2>5, <2>6, PlainAwaits
<1> QED
    BY <1>5, <1>6

\* A session at rest that puts other steps in its list.
Listed(s, q) == [s EXCEPT !.todo = q]
LEMMA ListedFits ==
    ASSUME NEW k, NEW s, SessionFits(k, s), s.todo # <<>>, s.wait = None, NEW q, StepsFit(k, q)
    PROVE  SessionFits(k, Listed(s, q)) /\ Listed(s, q).wait = None /\ Listed(s, q).mode = s.mode
           /\ Listed(s, q).todo = q
<1> PICK r : r = Listed(s, q)
    OBVIOUS
<1>1. r = [mode |-> s.mode, vsys |-> s.vsys, todo |-> q, wait |-> None, task |-> s.task,
           begun |-> s.begun, up |-> s.up, wide |-> s.wide]
    BY DEF SessionFits, Listed
<1>2. SessionFits(k, r)
    BY <1>1, ChangedFits
<1> QED
    BY <1>1, <1>2

\* switch_vsys writes no word that enables.
LEMMA SwitchFits == ASSUME NEW k, NEW s, NEW v PROVE StepsFit(k, SwitchVsys(s, v))
<1>1. /\ \A x : StepFits(k, Step("mode", x)) /\ StepFits(k, Step("believe", x))
      /\ \A x : x \notin Forbidden => StepFits(k, Step("line", x))
    BY DEF StepFits, Step
<1>2. /\ StepFits(k, Step("line", "exit")) /\ StepFits(k, Step("line", "switch v1"))
      /\ StepFits(k, Step("line", "switch vsys v1")) /\ StepFits(k, Step("line", "end"))
    BY <1>1 DEF Loud, Forbidden
<1>3. StepsFit(k, Lines(<<"config vdom", "edit v1">>)) /\ StepsFit(k, Lines(<<"next", "edit v1">>))
    BY WordedLists, StepsOfLines DEF Loud, Forbidden
<1> HIDE DEF Step
<1>4. CASE plugin.vsys = "site"
    <2>1. PICK x : x = IF v = Own THEN "exit" ELSE "switch v1"
        OBVIOUS
    <2>2. SwitchVsys(s, v) = <<Step("mode", ENABLE), Step("line", x), Step("believe", v)>>
        BY <1>4, <2>1 DEF SwitchVsys
    <2>3. StepFits(k, Step("line", x))
        BY <1>2, <2>1
    <2> QED
        BY <1>1, <2>2, <2>3, StepsOfFew
<1>5. CASE plugin.vsys = "usg"
    <2>1. SwitchVsys(s, v) = <<Step("mode", CONFIG), Step("line", "switch vsys v1"), Step("believe", v)>>
        BY <1>5 DEF SwitchVsys
    <2> QED
        BY <1>1, <1>2, <2>1, StepsOfFew
<1>6. CASE plugin.vsys = "vdom"
    <2>1. PICK q : q = CASE v = Own -> <<Step("line", "end")>>
                         [] v # Own /\ s.vsys = Own -> Lines(<<"config vdom", "edit v1">>)
                         [] OTHER -> Lines(<<"next", "edit v1">>)
        OBVIOUS
    <2>2. StepsFit(k, q)
        BY <1>2, <1>3, <2>1, StepsOfFew
    <2>3. SwitchVsys(s, v) = <<Step("mode", ENABLE)>> \o q \o <<Step("believe", v)>>
        BY <1>6, <2>1 DEF SwitchVsys
    <2>4. StepsFit(k, <<Step("mode", ENABLE)>>) /\ StepsFit(k, <<Step("believe", v)>>)
        BY <1>1, StepsOfFew
    <2>5. StepsFit(k, <<Step("mode", ENABLE)>> \o q)
        BY <2>2, <2>4, StepsOfConcat
    <2> QED
        BY <2>3, <2>4, <2>5, StepsOfConcat
<1>7. CASE plugin.vsys \notin {"site", "usg", "vdom"}
    <2>1. SwitchVsys(s, v) = <<Step("believe", v)>>
        BY <1>7 DEF SwitchVsys
    <2> QED
        BY <1>1, <2>1, StepsOfFew
<1> QED
    BY <1>4, <1>5, <1>6, <1>7

\* What a session at rest may become when it has taken up a step that was no decide.
LEMMA RestedKeeps ==
    ASSUME ShellInv, NEW do, do # "decide", Ready(do), UNCHANGED <<sent, buf>>, AgentOnly,
           SessionFits(kind, ses'), ses'.wait = None, Strict(ses') => ses.mode = LOGIN
    PROVE  ShellInv'
<1>1. /\ UNCHANGED <<kind, secret, dev, stdin, arriving>> /\ sent' = sent /\ buf' = buf
      /\ BufferFits(buf')
    BY DEF AgentOnly, ShellInv
<1>2. Strict(ses') => Strict(ses)
    BY ReadyFits DEF Strict
<1>3. ses.wait = None
    BY ReadyFits
<1> QED
    BY <1>1, <1>2, <1>3, QuietKeeps

LEMMA SwitchesVsysKeeps == ASSUME ShellInv, SwitchesVsys PROVE ShellInv'
<1>1. Ready("vsys") /\ "vsys" # "decide" /\ UNCHANGED <<sent, buf>> /\ AgentOnly
    BY DEF SwitchesVsys
<1>2. SessionFits(kind, ses) /\ ses.todo # <<>> /\ ses.wait = None
    BY <1>1, ReadyFits
<1>3. SessionFits(kind, ses') /\ ses'.wait = None /\ ses'.mode = ses.mode
    <2>1. CASE ses' = Rest(ses)
        BY <1>2, <2>1, RestFits
    <2>2. CASE ses' # Rest(ses)
        <3>1. PICK q : q = SwitchVsys(ses, Now.is) \o Tail(ses.todo)
            OBVIOUS
        <3>2. ses' = Listed(ses, q)
            BY <2>2, <3>1 DEF SwitchesVsys, Listed
        <3>3. StepsFit(kind, q)
            BY <1>2, <3>1, SwitchFits, StepsReplaced
        <3> QED
            BY <1>2, <3>2, <3>3, ListedFits
    <2> QED
        BY <2>1, <2>2
<1> QED
    BY <1>1, <1>3, RestedKeeps DEF Strict

\* Another belief.
Believed(r, s, v) ==
    r = [s EXCEPT !.vsys = v, !.mode = ENABLE] \/ r = [s EXCEPT !.vsys = v, !.mode = @]
LEMMA BelievedFits ==
    ASSUME NEW k, NEW s, SessionFits(k, s), s.wait = None, NEW v, NEW r,
           Believed(r, s, v)
    PROVE  SessionFits(k, r) /\ r.wait = None /\ r.todo = s.todo /\ (r.mode = LOGIN => s.mode = LOGIN)
<1>1. PICK m \in {ENABLE, s.mode} :
        r = [mode |-> m, vsys |-> v, todo |-> s.todo, wait |-> None,
             task |-> s.task, begun |-> s.begun, up |-> s.up, wide |-> s.wide]
    BY DEF SessionFits, Believed
<1>2. r.mode = LOGIN => s.mode = LOGIN
    BY <1>1 DEF LOGIN, ENABLE
<1> QED
    BY <1>1, <1>2 DEF SessionFits

LEMMA BelievesKeeps == ASSUME ShellInv, Believes PROVE ShellInv'
<1>1. Ready("believe") /\ "believe" # "decide" /\ UNCHANGED <<sent, buf>> /\ AgentOnly
    BY DEF Believes
<1>2. SessionFits(kind, ses) /\ ses.todo # <<>>
    BY <1>1, ReadyFits
<1>3. PICK s : s = Rest(ses) /\ SessionFits(kind, s) /\ s.wait = None /\ s.mode = ses.mode
    BY <1>2, RestFits
<1>4. PICK r : r = ses'
    OBVIOUS
<1>5. r = [s EXCEPT !.vsys = Now.is, !.mode = IF plugin.vsys = "usg" THEN ENABLE ELSE @]
    BY <1>3, <1>4 DEF Believes
<1>6. SessionFits(kind, r) /\ r.wait = None /\ (r.mode = LOGIN => s.mode = LOGIN)
    <2>1. Believed(r, s, Now.is)
        BY <1>5 DEF Believed
    <2> QED
        BY <1>3, <2>1, BelievedFits
<1> QED
    BY <1>1, <1>3, <1>4, <1>6, RestedKeeps DEF Strict

LEMMA SwitchesModeKeeps == ASSUME ShellInv, SwitchesMode PROVE ShellInv'
<1>1. Ready("mode") /\ "mode" # "decide" /\ UNCHANGED <<sent, buf>> /\ AgentOnly
    BY DEF SwitchesMode
<1>2. SessionFits(kind, ses) /\ ses.todo # <<>> /\ ses.wait = None
    BY <1>1, ReadyFits
<1>3. SessionFits(kind, ses') /\ ses'.wait = None /\ (Strict(ses') => ses.mode = LOGIN)
    <2>1. CASE ses' = Rest(ses)
        BY <1>2, <2>1, RestFits DEF Strict
    <2>2. CASE ses' = Failed(ses)
        BY <1>2, <2>2, FailedFits DEF Strict
    <2>3. CASE ses' # Rest(ses) /\ ses' # Failed(ses)
        <3>1. PICK m : m = Now.is
            OBVIOUS
        <3>2. PICK q : q = <<Step("moving", m)>> \o Tail(ses.todo)
            OBVIOUS
        <3>3. ses' = Listed(ses, q)
            BY <2>3, <3>1, <3>2 DEF SwitchesMode, Listed
        <3>4. StepsFit(kind, <<Step("moving", m)>>)
            <4>1. StepFits(kind, Step("moving", m))
                BY DEF StepFits, Step
            <4> QED
                BY <4>1, StepsOfFew
        <3>5. StepsFit(kind, q)
            BY <1>2, <3>2, <3>4, StepsReplaced
        <3> QED
            BY <1>2, <3>3, <3>5, ListedFits DEF Strict
    <2> QED
        BY <2>1, <2>2, <2>3
<1> QED
    BY <1>1, <1>3, RestedKeeps

LEMMA MoveFacts ==
    ASSUME ShellInv, NEW from, NEW to
    PROVE  /\ from = LOGIN => Move(from, to).cmd = "enable" /\ Move(from, to).becomes = ENABLE
           /\ from # LOGIN => Move(from, to).cmd \notin Forbidden
<1>1. CASE from = LOGIN
    <2>1. Move(from, to) = [cmd |-> "enable", becomes |-> ENABLE, fails |-> LOGIN]
        BY <1>1 DEF Move, LOGIN, ENABLE
    <2> QED
        BY <1>1, <2>1
<1>2. CASE from # LOGIN
    <2>1. Move(from, to).cmd \in {"disable", plugin.config, plugin.exit}
        BY <1>2 DEF Move, LOGIN, ENABLE, CONFIG
    <2>2. "disable" \notin Forbidden
        BY DEF Loud, Forbidden
    <2> QED
        BY <1>2, <2>1, <2>2, PluginProper
<1> QED
    BY <1>1, <1>2

LEMMA MovesKeeps == ASSUME ShellInv, Moves PROVE ShellInv'
<1>1. Ready("moving") /\ "moving" # "decide" /\ AgentOnly
    BY DEF Moves
<1>2. SessionFits(kind, ses) /\ ses.todo # <<>> /\ ses.wait = None /\ Now.do = "moving" /\ Now = Head(ses.todo)
    BY <1>1, ReadyFits
<1>3. CASE ses.mode = Now.is
    <2>1. ses' = Rest(ses) /\ UNCHANGED <<sent, buf>>
        BY <1>3 DEF Moves
    <2>2. SessionFits(kind, ses') /\ ses'.wait = None /\ ses'.mode = ses.mode
        BY <1>2, <2>1, RestFits
    <2> QED
        BY <1>1, <2>1, <2>2, RestedKeeps DEF Strict
<1>4. CASE ses.mode # Now.is
    <2>1. PICK c : c = Move(ses.mode, Now.is).cmd
        OBVIOUS
    <2>2. Write(<<c>>) /\ Await("moving", c)
        BY <1>4, <2>1 DEF Moves
    <2>3. PICK x : x = [is |-> c, for |-> NotAsked]
        OBVIOUS
    <2>4. IsList(sent)
        BY DEF ShellInv, Conversation
    <2>5. sent' = Append(sent, x) /\ x.is = c
        BY <2>2, <2>3, <2>4, LineOfOne DEF Write
    <2>6. UNCHANGED <<kind, secret, dev, stdin, arriving>> /\ "moving" # None
        BY <1>1 DEF AgentOnly, None
    <2>7. \/ x.is \notin Loud /\ ses.mode # LOGIN
          \/ x.is = "enable" /\ ses.mode = LOGIN /\ Strict(ses)
        BY <1>2, <2>1, <2>5, MoveFacts DEF Strict, Forbidden
    <2> QED
        BY <1>2, <2>2, <2>5, <2>6, <2>7, WriteKeeps
<1> QED
    BY <1>3, <1>4

LEMMA WritesLineKeeps == ASSUME ShellInv, WritesLine PROVE ShellInv'
<1>1. PICK do \in {"line", "own"} : Ready(do)
    BY DEF WritesLine
<1>2. ses.todo # <<>> /\ ses.wait = None /\ Now.do = do /\ Now.is \notin Forbidden
    BY <1>1, ReadyFits DEF StepFits
<1>3. PICK x : /\ x = [is |-> Now.is, for |-> IF Now.do = "own" THEN ses.task ELSE NotAsked]
               /\ sent' = Append(sent, x)
    BY DEF WritesLine
<1>4. Await(do, Now.is) /\ do # None /\ do # "moving" /\ UNCHANGED <<kind, secret, dev, stdin, arriving>>
    BY <1>2 DEF WritesLine, AgentOnly, None
<1>5. x.is \notin Loud
    BY <1>2, <1>3 DEF Forbidden
<1> QED
    BY <1>2, <1>3, <1>4, <1>5, WriteKeeps

LEMMA FinishesKeeps == ASSUME ShellInv, Finishes PROVE ShellInv'
<1>1. SessionFits(kind, ses) /\ ses.todo = <<>> /\ ses.wait = None
    BY DEF ShellInv, Finishes
<1>2. ses' = [mode |-> ses.mode, vsys |-> ses.vsys, todo |-> <<>>, wait |-> None, task |-> NotAsked,
              begun |-> TRUE, up |-> ses.up, wide |-> ses.wide]
    BY <1>1 DEF Finishes, SessionFits
<1>3. SessionFits(kind, ses') /\ ses'.wait = None /\ ~Strict(ses')
    BY <1>2, StepsOfNone DEF SessionFits, Strict
<1>4. UNCHANGED <<kind, secret, dev, stdin, arriving>> /\ sent' = sent /\ BufferFits(buf')
    BY NoBufferFits DEF Finishes, AgentOnly
<1> QED
    BY <1>1, <1>3, <1>4, QuietKeeps

LEMMA WriteFailsKeeps == ASSUME ShellInv, WriteFails PROVE ShellInv'
<1>1. /\ dev.mode = Gone /\ UNCHANGED <<kind, secret, dev, stdin, arriving>> /\ sent' = sent
      /\ ses' = Failed(ses) /\ buf' = buf
    BY DEF WriteFails, AgentOnly
<1>2. SessionFits(kind, ses') /\ BufferFits(buf')
    BY <1>1, FailedFits DEF ShellInv
<1> QED
    BY <1>1, <1>2, GoneKeeps

LEMMA ReadsEofKeeps == ASSUME ShellInv, ReadsEof PROVE ShellInv'
<1>1. /\ dev.mode = Gone /\ UNCHANGED <<kind, secret, dev, stdin, arriving>> /\ sent' = sent
      /\ ses' \in {Rest(ses), Failed(ses)} /\ buf' = buf /\ ses.wait # None
    BY DEF ReadsEof, AgentOnly
<1>2. SessionFits(kind, ses) /\ BufferFits(buf)
    BY DEF ShellInv
<1>3. ses.todo # <<>>
    BY <1>1, <1>2 DEF SessionFits
<1>4. SessionFits(kind, ses') /\ BufferFits(buf')
    BY <1>1, <1>2, <1>3, FailedFits, RestFits
<1> QED
    BY <1>1, <1>4, GoneKeeps

-----------------------------------------------------------------------------
(* The steps of the session that read.                                     *)

\* A nonempty set of numbers has a smallest, and one up to n a largest.
LEMMA Smallest ==
    ASSUME NEW S \in SUBSET Nat, S # {}
    PROVE  \E m \in S : \A k \in S : m <= k
<1>1. PICK m \in S : \A k \in S : ~(<<k, m>> \in OpToRel(<, Nat))
    BY WFMin, NatLessThanWellFounded, Zenon
<1>2. \A k \in S : ~(k < m)
    BY <1>1, Zenon DEF OpToRel
<1> QED
    BY <1>2

LEMMA Largest ==
    ASSUME NEW n \in Nat, NEW S, S \subseteq 1..n, S # {}
    PROVE  \E m \in S : \A k \in S : k <= m
<1> DEFINE T == {n - i : i \in S}
<1>1. T \in SUBSET Nat /\ T # {}
    <2>1. \A i \in S : n - i \in Nat
        OBVIOUS
    <2>2. PICK i \in S : TRUE
        OBVIOUS
    <2>3. n - i \in T
        OBVIOUS
    <2> QED
        BY <2>1, <2>3
<1>2. \A i \in S : n - i \in T
    OBVIOUS
<1>3. \A j \in T : \E i \in S : j = n - i
    OBVIOUS
<1> HIDE DEF T
<1>4. PICK m \in T : \A k \in T : m <= k
    BY <1>1, Smallest
<1>5. PICK i \in S : m = n - i
    BY <1>3
<1>6. \A k \in S : n - i <= n - k
    BY <1>2, <1>4, <1>5
<1> QED
    BY <1>6

BufferKept(b, c) ==
    BufferFits(c) /\ c.got = b.got /\ c.from \in b.from..Len(b.got) + 1

LEMMA SearchedFits == ASSUME NEW b, BufferFits(b) PROVE BufferKept(b, Searched(b)) /\ BufferKept(b, b)
<1>1. PICK x : x = (b.flag \/ EchoIn(b, b.from, Len(b.got)))
    OBVIOUS
<1>2. PICK c : c = Searched(b)
    OBVIOUS
<1>3. c = [cmd |-> b.cmd, got |-> b.got, from |-> b.from, flag |-> c.flag]
    BY <1>2 DEF BufferFits, Searched
<1>4. IsList(b.got) /\ b.from \in 1..Len(b.got) + 1 /\ Len(b.got) \in Nat
    BY ListFacts DEF BufferFits
<1>5. b.from \in b.from..Len(b.got) + 1
    BY <1>4
<1> QED
    BY <1>2, <1>3, <1>4, <1>5 DEF BufferKept, BufferFits

LEMMA MovedTo ==
    ASSUME NEW b, BufferFits(b), NEW f \in b.from..Len(b.got) + 1, NEW c, c = [b EXCEPT !.from = f]
    PROVE  BufferKept(b, c) /\ c.from = f
<1>1. c = [cmd |-> b.cmd, got |-> b.got, from |-> f, flag |-> b.flag]
    BY DEF BufferFits
<1>2. IsList(b.got) /\ b.from \in 1..Len(b.got) + 1 /\ Len(b.got) \in Nat
    BY ListFacts DEF BufferFits
<1>3. f \in 1..Len(b.got) + 1
    BY <1>2
<1> QED
    BY <1>1, <1>2, <1>3 DEF BufferKept, BufferFits

LEMMA AdvancedFits == ASSUME NEW b, BufferFits(b) PROVE BufferKept(b, Advanced(b))
<1> DEFINE ends == {i \in b.from..Len(b.got) : b.got[i].t \in {"echo", "output"}}
<1>1. CASE ends = {}
    <2>1. Advanced(b) = b
        BY <1>1 DEF Advanced
    <2> QED
        BY <2>1, SearchedFits
<1>2. CASE ends # {}
    <2>1. PICK n \in Nat, f \in Nat : n = Len(b.got) /\ f = b.from /\ f \in 1..n + 1
        BY ListFacts DEF BufferFits
    <2>2. ends \subseteq f..n /\ ends \subseteq 1..n
        BY <2>1
    <2>3. PICK e : e = CHOOSE i \in ends : \A j \in ends : j <= i
        OBVIOUS
    <2>4. [b EXCEPT !.from = e + 1] = Advanced(b)
        BY <1>2, <2>3 DEF Advanced
    <2> HIDE DEF ends
    <2>5. e \in ends
        BY <1>2, <2>1, <2>2, <2>3, Largest
    <2>6. e + 1 \in b.from..Len(b.got) + 1
        BY <2>1, <2>2, <2>5
    <2> QED
        BY <2>4, <2>6, MovedTo
<1> QED
    BY <1>1, <1>2

LEMMA KeptKept ==
    ASSUME NEW b, NEW c, NEW d, BufferFits(b), BufferKept(b, c), BufferKept(c, d) PROVE BufferKept(b, d)
<1>1. PICK n \in Nat : n = Len(b.got)
    BY ListFacts DEF BufferFits
<1>2. c.got = b.got /\ d.got = b.got /\ c.from \in b.from..n + 1 /\ d.from \in c.from..n + 1
    BY <1>1 DEF BufferKept
<1>3. b.from \in 1..n + 1
    BY <1>1 DEF BufferFits
<1>4. d.from \in b.from..n + 1
    BY <1>2, <1>3
<1> QED
    BY <1>1, <1>2, <1>4 DEF BufferKept

LEMMA PastFits ==
    ASSUME NEW b, BufferFits(b)
    PROVE  BufferKept(b, PastQuestion(b)) /\ PastQuestion(b).from = Len(b.got) + 1
<1>1. Len(b.got) \in Nat /\ b.from \in 1..Len(b.got) + 1
    BY ListFacts DEF BufferFits
<1>2. Len(b.got) + 1 \in b.from..Len(b.got) + 1
    BY <1>1
<1> QED
    BY <1>2, MovedTo DEF PastQuestion

ChunkIs(n, b) ==
    /\ BufferFits(b) /\ b.from = buf.from
    /\ Taken(buf.got, arriving, n, b.got, arriving')
    /\ UNCHANGED <<kind, secret, dev, stdin>>

LEMMA ChunkOfBuffer ==
    ASSUME BufferFits(buf), IsList(arriving), NEW n \in 1..Len(arriving), Reads(n), NEW b, b = Chunk(n)
    PROVE  ChunkIs(n, b)
<1>1. b = [cmd |-> buf.cmd, got |-> buf.got \o SubSeq(arriving, 1, n), from |-> buf.from, flag |-> buf.flag]
    BY DEF BufferFits, Chunk
<1>2. Taken(buf.got, arriving, n, b.got, arriving')
    BY <1>1 DEF Taken, Reads
<1>3. IsList(buf.got) /\ IsList(arriving) /\ buf.from \in 1..Len(buf.got) + 1
    BY DEF BufferFits
<1>4. TakenIs(buf.got, arriving, n, b.got, arriving')
    BY <1>2, <1>3, ChunkFacts
<1>5. IsList(b.got) /\ Len(b.got) = Len(buf.got) + n
    BY <1>4 DEF TakenIs
<1>6. buf.from \in 1..Len(b.got) + 1
    <2>1. PICK g \in Nat, a \in Nat : g = Len(buf.got) /\ a = Len(arriving)
        BY <1>3, ListFacts
    <2>2. n \in 1..a /\ buf.from \in 1..g + 1 /\ Len(b.got) = g + n
        BY <1>3, <1>5, <2>1
    <2>3. buf.from \in 1..(g + n) + 1
        BY <2>2
    <2> QED
        BY <2>2, <2>3
<1>7. UNCHANGED <<kind, secret, dev, stdin>>
    BY DEF Reads
<1> QED
    BY <1>1, <1>2, <1>5, <1>6, <1>7 DEF ChunkIs, BufferFits

LEMMA ChunkFits ==
    ASSUME ShellInv, NEW n \in 1..Len(arriving), Reads(n), NEW b, b = Chunk(n)
    PROVE  ChunkIs(n, b)
BY ChunkOfBuffer DEF ShellInv, Conversation

\* A chunk that holds no answer.
LEMMA ChunkOn ==
    ASSUME ShellInv, ses.wait # None, NEW n \in 1..Len(arriving), NEW b, ChunkIs(n, b),
           ses' = ses, sent' = sent, BufferKept(b, buf')
    PROVE  ShellInv'
<1>1. Taken(buf.got, arriving, n, b.got, arriving') /\ UNCHANGED <<kind, secret, dev, stdin>>
    BY DEF ChunkIs
<1>2. BufferFits(buf') /\ buf'.got = b.got /\ buf'.from \in buf.from..Len(b.got) + 1
    BY DEF ChunkIs, BufferKept
<1> QED
    BY <1>1, <1>2, ReadOn

LEMMA ChunkEnds ==
    ASSUME ShellInv, ses.wait # None, NEW n \in 1..Len(arriving), NEW b, ChunkIs(n, b),
           NEW shapes, NEW c, NEW flag, c.got = b.got, c.from = b.from, Hits(c, shapes, flag) # {},
           sent' = sent, SessionFits(kind, ses'), ses'.wait = None, Strict(ses') => ~Enables(ses), buf' = b
    PROVE  ShellInv'
<1>1. Taken(buf.got, arriving, n, b.got, arriving') /\ UNCHANGED <<kind, secret, dev, stdin>>
    BY DEF ChunkIs
<1>2. PICK i \in buf.from..Len(b.got) : b.got[i].t = "prompt"
    BY DEF Hits, ChunkIs
<1>3. BufferFits(buf')
    BY DEF ChunkIs
<1> QED
    BY <1>1, <1>2, <1>3, ReadPrompt

\* What a prompt tells the session.
Informed(r, s, m, v) == r = [s EXCEPT !.mode = m, !.vsys = v]
LEMMA InformedFits ==
    ASSUME NEW k, NEW s, SessionFits(k, s), s.wait = None, NEW m, NEW v, NEW r, Informed(r, s, m, v)
    PROVE  SessionFits(k, r) /\ r.wait = None
<1>1. r = [mode |-> m, vsys |-> v, todo |-> s.todo, wait |-> None, task |-> s.task,
           begun |-> s.begun, up |-> s.up, wide |-> s.wide]
    BY DEF SessionFits, Informed
<1> QED
    BY <1>1 DEF SessionFits

LEMMA DecidedFits ==
    ASSUME NEW k, NEW s, SessionFits(k, s), s.todo # <<>>, NEW p
    PROVE  SessionFits(k, Decided(s, p)) /\ Decided(s, p).wait = None
<1>1. PICK q : q = Rest(s) /\ SessionFits(k, q) /\ q.wait = None
    BY RestFits
<1>2. PICK m, v : m = ModeOf(p) /\ v = IF plugin.vsys \in {"site", "vdom"} THEN p.v ELSE Own
    OBVIOUS
<1>3. Informed(Decided(s, p), q, m, v)
    BY <1>1, <1>2 DEF Decided, Informed
<1> QED
    BY <1>1, <1>3, InformedFits

LEMMA ReadsUntilPromptKeeps == ASSUME ShellInv, ReadsUntilPrompt PROVE ShellInv'
<1>1. ses.wait # None /\ ~Enables(ses)
    BY DEF ReadsUntilPrompt, Enables, None
<1>2. SessionFits(kind, ses) /\ ses.todo # <<>>
    BY <1>1 DEF ShellInv, SessionFits
<1>3. PICK n \in 1..Len(arriving) :
        LET b == Chunk(n)
            c == Candidates(b)
            p == b.got[FirstOf(c)]
        IN /\ Reads(n)
           /\ IF Hits(b, Union, b.flag) = {}
              THEN /\ buf' = IF plugin.moves THEN Advanced(Searched(b)) ELSE Searched(b)
                   /\ UNCHANGED <<ses, sent>>
              ELSE IF ses.wait \in {"drain", "line", "own"}
              THEN ses' = Rest(ses) /\ buf' = b /\ UNCHANGED sent
              ELSE IF c = {}
              THEN ses' = Failed(ses) /\ buf' = b /\ UNCHANGED sent
              ELSE IF ses.wait = "decide" /\ plugin.leaves = "level" /\ p.v \notin {Own, ses.vsys}
              THEN Write(<<"end">>) /\ Await("reread", "")
              ELSE ses' = Decided(ses, p) /\ buf' = b /\ UNCHANGED sent
    BY DEF ReadsUntilPrompt
<1>4. PICK b : b = Chunk(n)
    OBVIOUS
<1>5. PICK p : p = b.got[FirstOf(Candidates(b))]
    OBVIOUS
<1>6. ChunkIs(n, b)
    BY <1>3, <1>4, ChunkFits
<1>7. CASE Hits(b, Union, b.flag) = {}
    <2>1. UNCHANGED <<ses, sent>> /\ buf' \in {Advanced(Searched(b)), Searched(b)}
        BY <1>3, <1>4, <1>7
    <2>2. BufferFits(b) /\ BufferKept(b, Searched(b))
        BY <1>6, SearchedFits DEF ChunkIs
    <2>3. BufferKept(Searched(b), Advanced(Searched(b)))
        BY <2>2, AdvancedFits DEF BufferKept
    <2>4. BufferKept(b, buf')
        BY <2>1, <2>2, <2>3, KeptKept
    <2> QED
        BY <1>1, <1>6, <2>1, <2>4, ChunkOn
<1>8. CASE Hits(b, Union, b.flag) # {} /\ buf' = b /\ UNCHANGED sent
           /\ ses' \in {Rest(ses), Failed(ses), Decided(ses, p)}
    <2>1. SessionFits(kind, ses') /\ ses'.wait = None
        BY <1>2, <1>8, RestFits, FailedFits, DecidedFits
    <2> QED
        BY <1>1, <1>6, <1>8, <2>1, ChunkEnds
<1>9. CASE Hits(b, Union, b.flag) # {} /\ plugin.leaves = "level" /\ Write(<<"end">>) /\ Await("reread", "")
    <2>1. ~Pairs[kind].device.asks
        BY <1>9, PluginProper
    <2>2. PICK q : q = [i \in DOMAIN <<"end">> |-> [is |-> <<"end">>[i], for |-> NotAsked]]
        OBVIOUS
    <2>3. sent' = sent \o q
        BY <1>9, <2>2 DEF Write
    <2>4. IsList(q) /\ Harmless(q)
        BY <2>2, LinesOfFew DEF Loud, Forbidden
    <2>5. PICK i \in buf.from..Len(b.got) : b.got[i].t = "prompt"
        BY <1>6, <1>9 DEF Hits, ChunkIs
    <2>6. Taken(buf.got, arriving, n, b.got, arriving') /\ UNCHANGED <<kind, secret, dev, stdin>>
        BY <1>6 DEF ChunkIs
    <2>7. PICK u : u = Unheard(ses, buf, arriving)
        OBVIOUS
    <2>8. IsList(u) /\ IsList(arriving') /\ \E d : Behind(arriving', u, d)
        BY <1>1, <2>5, <2>6, <2>7, ReadAll
    <2>9. dev.mode # Gone => Asks(arriving') = {}
        BY <2>1, <2>7, <2>8, PlainQuiet, BehindFacts
    <2> QED
        BY <1>2, <1>9, <2>1, <2>3, <2>4, <2>6, <2>8, <2>9, PlainAwaits DEF None
<1> QED
    BY <1>3, <1>4, <1>5, <1>7, <1>8, <1>9

LEMMA PagingOfRow ==
    ASSUME kind \in Kinds
    PROVE  StepsFit(kind, Paging(plugin)) /\ StepsFit(kind, <<Step("line", "terminal width 0")>>)
<1>1. /\ \A x : StepFits(kind, Step("mode", x)) /\ StepFits(kind, Step("vsys", x))
                /\ StepFits(kind, Step("decide", x))
      /\ StepFits(kind, Step("line", "terminal width 0"))
    BY DEF StepFits, Step, Loud, Forbidden
<1>2. StepsFit(kind, Lines(plugin.paging))
    BY PluginOfRow, StepsOfLines
<1>3. PICK h : h = <<Step("decide", ""), Step("vsys", Own), Step("mode", plugin.pagingIn)>>
    OBVIOUS
<1>4. StepsFit(kind, h) /\ StepsFit(kind, <<Step("line", "terminal width 0")>>)
    BY <1>1, <1>3, StepsOfFew
<1>5. Paging(plugin) \in {<<>>, h \o Lines(plugin.paging)}
    BY <1>3 DEF Paging
<1>6. StepsFit(kind, h \o Lines(plugin.paging))
    BY <1>2, <1>4, StepsOfConcat
<1> QED
    BY <1>4, <1>5, <1>6, StepsOfNone

LEMMA PagingFits ==
    ASSUME ShellInv
    PROVE  StepsFit(kind, Paging(plugin)) /\ StepsFit(kind, <<Step("line", "terminal width 0")>>)
BY PagingOfRow DEF ShellInv

\* A move that worked.
Moved(r, s, m, q, w) == r = [s EXCEPT !.mode = m, !.wait = None, !.todo = q \o @, !.wide = @ \/ w]
LEMMA MovedFits ==
    ASSUME NEW k, NEW s, SessionFits(k, s), s.todo # <<>>, NEW m, NEW q, StepsFit(k, q), NEW w,
           NEW r, Moved(r, s, m, q, w)
    PROVE  SessionFits(k, r) /\ r.wait = None /\ r.mode = m
<1>1. PICK t : t = q \o s.todo
    OBVIOUS
<1>2. StepsFit(k, t) /\ t # <<>>
    BY <1>1, StepsReplaced
<1>3. r = [mode |-> m, vsys |-> s.vsys, todo |-> t, wait |-> None, task |-> s.task,
           begun |-> s.begun, up |-> s.up, wide |-> r.wide]
    BY <1>1 DEF SessionFits, Moved
<1>4. ~(s.begun /\ s.task = NotAsked)
    BY DEF SessionFits
<1> QED
    BY <1>2, <1>3, <1>4 DEF SessionFits

LEMMA ReadsMoveKeeps == ASSUME ShellInv, ReadsMove PROVE ShellInv'
<1>1. ses.wait = "moving" /\ ses.wait # None
    BY DEF ReadsMove, None
<1>2. SessionFits(kind, ses) /\ ses.todo # <<>>
    BY <1>1 DEF ShellInv, SessionFits
<1>3. PICK m : m = Move(ses.mode, Now.is)
    OBVIOUS
<1>4. PICK more : more = IF m.cmd = "enable" /\ plugin.policy = "login-only" THEN Paging(plugin)
                         ELSE IF m.becomes = CONFIG /\ plugin.width /\ ~ses.wide
                         THEN <<Step("line", "terminal width 0")>> ELSE <<>>
    OBVIOUS
<1>5. PICK n \in 1..Len(arriving) :
        LET b == Chunk(n)
            b1 == Searched(b)
            asked == {i \in b.from..Len(b.got) : b.got[i].t = "ask"}
        IN /\ Reads(n)
           /\ IF Hits(b, plugin.sees[m.becomes], b.flag) # {}
              THEN /\ ses' = [ses EXCEPT !.mode = m.becomes, !.wait = None, !.todo = more \o @,
                                         !.wide = @ \/ m.becomes = CONFIG]
                   /\ buf' = b /\ UNCHANGED sent
              ELSE IF Hits(b1, plugin.sees[m.fails], b1.flag) # {}
              THEN ses' = Failed(ses) /\ buf' = b /\ UNCHANGED sent
              ELSE IF m.cmd = "enable" /\ plugin.asks /\ asked # {}
              THEN /\ Write(<<secret>>)
                   /\ buf' = PastQuestion(b1) /\ UNCHANGED ses
              ELSE /\ buf' = IF m.cmd = "enable" /\ ~plugin.asks THEN b1 ELSE Advanced(b1)
                   /\ UNCHANGED <<ses, sent>>
    BY <1>3, <1>4 DEF ReadsMove
<1>6. PICK b, b1 : b = Chunk(n) /\ b1 = Searched(b)
    OBVIOUS
<1>7. ChunkIs(n, b)
    BY <1>5, <1>6, ChunkFits
<1>8. BufferFits(b) /\ BufferKept(b, b1) /\ BufferFits(b1) /\ b1.got = b.got
    BY <1>6, <1>7, SearchedFits DEF ChunkIs, BufferKept
<1>9. /\ ses.mode = LOGIN => m.cmd = "enable" /\ m.becomes = ENABLE
      /\ ses.mode # LOGIN => m.cmd # "enable"
    BY <1>3, MoveFacts DEF Loud, Forbidden
<1>10. CASE Hits(b, plugin.sees[m.becomes], b.flag) # {}
    <2>1. Moved(ses', ses, m.becomes, more, m.becomes = CONFIG) /\ buf' = b /\ sent' = sent
        BY <1>5, <1>6, <1>10 DEF Moved
    <2>2. StepsFit(kind, more)
        BY <1>4, PagingFits, StepsOfNone
    <2>3. SessionFits(kind, ses') /\ ses'.wait = None /\ ses'.mode = m.becomes
        BY <1>2, <2>1, <2>2, MovedFits
    <2>4. Strict(ses') => ~Enables(ses)
        BY <1>9, <2>3 DEF Strict, Enables, LOGIN, ENABLE
    <2> QED
        BY <1>1, <1>7, <1>10, <2>1, <2>3, <2>4, ChunkEnds
<1>11. CASE Hits(b1, plugin.sees[m.fails], b1.flag) # {} /\ ses' = Failed(ses) /\ buf' = b /\ UNCHANGED sent
    <2>1. SessionFits(kind, ses') /\ ses'.wait = None /\ ~Strict(ses')
        BY <1>2, <1>11, FailedFits DEF Strict
    <2>2. b1.from = b.from
        BY <1>6, <1>8 DEF Searched, BufferFits
    <2> QED
        BY <1>1, <1>7, <1>8, <1>11, <2>1, <2>2, ChunkEnds
<1>12. CASE /\ m.cmd = "enable" /\ {i \in b.from..Len(b.got) : b.got[i].t = "ask"} # {}
            /\ Write(<<secret>>) /\ buf' = PastQuestion(b1) /\ UNCHANGED ses
    <2>1. Enables(ses)
        BY <1>1, <1>9, <1>12 DEF Enables
    <2>2. PICK i \in buf.from..Len(b.got) : b.got[i].t = "ask"
        BY <1>7, <1>12 DEF ChunkIs
    <2>3. PICK x : x = [is |-> secret, for |-> NotAsked]
        OBVIOUS
    <2>4. IsList(sent) /\ secret \in Secrets
        BY PasswordsAssumption DEF ShellInv, Conversation, Secrets
    <2>5. sent' = Append(sent, x) /\ x.is \in Secrets
        BY <1>12, <2>3, <2>4, LineOfOne DEF Write
    <2>6. BufferFits(buf') /\ buf'.got = b.got /\ buf'.from = Len(b.got) + 1
        BY <1>8, <1>12, PastFits DEF BufferKept
    <2>7. Taken(buf.got, arriving, n, b.got, arriving') /\ UNCHANGED <<kind, secret, dev, stdin>>
        BY <1>7 DEF ChunkIs
    <2>8. ses' = ses
        BY <1>12
    <2> QED
        BY <1>1, <2>1, <2>2, <2>5, <2>6, <2>7, <2>8, ReadQuestion
<1>13. CASE UNCHANGED <<ses, sent>> /\ buf' \in {b1, Advanced(b1)}
    <2>1. BufferKept(b1, Advanced(b1))
        BY <1>8, AdvancedFits
    <2>2. BufferKept(b, buf')
        BY <1>8, <1>13, <2>1, KeptKept
    <2> QED
        BY <1>1, <1>7, <1>13, <2>2, ChunkOn
<1> QED
    BY <1>5, <1>6, <1>10, <1>11, <1>12, <1>13

LEMMA NothingAround == Idle(<<>>, <<>>) /\ Clean(<<>>, <<>>) /\ Asks(<<>>) = {} /\ Harmless(<<>>)
<1>1. Answers(<<>>) = {} /\ Asks(<<>>) = {}
    BY ListEmpty DEF Answers, Asks
<1> QED
    BY <1>1, ListEmpty DEF Idle, AtMostOne, Clean, Sober, Harmless

\* A timeout that fires when nothing is on its way.
LEMMA TimesOutKeeps == ASSUME ~Late, ShellInv, TimesOut PROVE ShellInv'
<1>1. /\ UNCHANGED <<kind, secret, dev, stdin, arriving>> /\ sent' = sent
      /\ sent = <<>> /\ stdin = <<>> /\ arriving = <<>> /\ ses' = Failed(ses) /\ buf' = NoBuffer
    BY DEF TimesOut, AgentOnly
<1>2. SessionFits(kind, ses') /\ BufferFits(buf') /\ ses'.wait = None /\ ses'.todo = <<>>
    BY <1>1, FailedFits, NoBufferFits DEF ShellInv
<1>3. stdin \o sent = <<>>
    BY <1>1, ListEmpty, ListConcat
<1>4. Unheard(ses', buf', arriving') = <<>>
    BY <1>1, <1>2 DEF Unheard
<1>5. Channel(Pairs[kind].device.asks, ses, dev, <<>>, Unheard(ses, buf, arriving))
    BY <1>3 DEF ShellInv, Conversation
<1>6. Channel(Pairs[kind].device.asks, ses', dev, <<>>, <<>>)
    BY <1>2, <1>5, NothingAround DEF Channel, Strict
<1>7. Conversation(kind, ses', buf', dev, sent', stdin, arriving')
    BY <1>1, <1>3, <1>4, <1>6, ListEmpty DEF Conversation
<1> QED
    BY <1>1, <1>2, <1>7, InvNext DEF ShellInv

Given(r, s, t, q) == r = [s EXCEPT !.task = t, !.todo = q]
GivenIs(r, s, t, q) ==
    r = [mode |-> s.mode, vsys |-> s.vsys, todo |-> q, wait |-> s.wait, task |-> t,
         begun |-> s.begun, up |-> s.up, wide |-> s.wide]
LEMMA GivenFields ==
    ASSUME NEW k, NEW s, SessionFits(k, s), NEW t, NEW q, NEW r, Given(r, s, t, q)
    PROVE  GivenIs(r, s, t, q)
BY DEF SessionFits, Given, GivenIs

LEMMA TaskFits ==
    ASSUME kind \in Kinds, SessionFits(kind, ses), TakesTask
    PROVE  /\ SessionFits(kind, ses') /\ ses.wait = None /\ ses'.wait = None /\ ses'.mode = ses.mode
           /\ ~Strict(ses')
<1>1. SessionFits(kind, ses) /\ ses.begun /\ ses.task = NotAsked /\ ses.wait = None /\ ses.todo = <<>>
    BY DEF TakesTask, SessionFits
<1>2. PICK m \in Range(plugin.decides) \cup {""}, v \in Vsyses, c \in Commands :
        ses' = [ses EXCEPT !.task = [mode |-> m, vsys |-> v],
                           !.todo = <<Step("decide", ""), Step("vsys", v), Step("mode", m), Step("own", c)>>]
    BY DEF TakesTask
<1>3. PICK q : q = <<Step("decide", ""), Step("vsys", v), Step("mode", m), Step("own", c)>>
    OBVIOUS
<1>4. PICK t : t = [mode |-> m, vsys |-> v]
    OBVIOUS
<1>5. ses' = [mode |-> ses.mode, vsys |-> ses.vsys, todo |-> q, wait |-> None, task |-> t,
              begun |-> ses.begun, up |-> ses.up, wide |-> ses.wide]
    <2>1. ses' = [ses EXCEPT !.task = t, !.todo = q]
        BY <1>2, <1>3, <1>4
    <2>2. Given(ses', ses, t, q)
        BY <2>1 DEF Given
    <2>3. GivenIs(ses', ses, t, q)
        BY <1>1, <2>2, GivenFields
    <2> QED
        BY <1>1, <2>3 DEF GivenIs
<1>6. t # NotAsked
    <2>1. v # None
        BY DEF Vsyses, None, Own
    <2> QED
        BY <1>4, <2>1 DEF NotAsked
<1>7. StepsFit(kind, q)
    <2>1. c \notin Forbidden
        BY PluginOfRow DEF Commands, Loud, Forbidden
    <2>2. StepFits(kind, Step("decide", "")) /\ StepFits(kind, Step("vsys", v))
          /\ StepFits(kind, Step("mode", m)) /\ StepFits(kind, Step("own", c))
        BY <2>1 DEF StepFits, Step
    <2> QED
        BY <1>3, <2>2, StepsOfFew
<1>8. ~Strict(ses')
    <2>1. PICK x, y, z, w : x = Step("decide", "") /\ q = <<x, y, z, w>>
        BY <1>3
    <2>2. x.do = "decide"
        BY <2>1 DEF Step
    <2>3. q[1] = x /\ q # <<>> /\ IsList(q)
        BY <1>7, <2>1 DEF StepsFit
    <2>4. Head(q) = x
        BY <2>3, ListTail
    <2> QED
        BY <1>5, <2>2, <2>4 DEF Strict
<1>9. SessionFits(kind, ses') /\ ses'.wait = None
    BY <1>5, <1>6, <1>7 DEF SessionFits
<1> QED
    BY <1>1, <1>5, <1>8, <1>9

LEMMA TakesTaskKeeps == ASSUME ShellInv, TakesTask PROVE ShellInv'
<1>1. /\ SessionFits(kind, ses') /\ ses.wait = None /\ ses'.wait = None /\ ~Strict(ses')
    BY TaskFits DEF ShellInv
<1>2. UNCHANGED <<kind, secret, dev, stdin, arriving>> /\ sent' = sent /\ BufferFits(buf')
    BY NoBufferFits DEF TakesTask
<1> QED
    BY <1>1, <1>2, QuietKeeps

-----------------------------------------------------------------------------
(* The invariant holds, and the property follows.                          *)

LEMMA BeginningFits == ASSUME kind \in Kinds PROVE StepsFit(kind, Beginning(plugin))
<1>0. /\ plugin = Pairs[kind].plugin /\ Worded(plugin.paging)
      /\ Pairs[kind].device.asks => plugin.drains = FALSE
    <2>1. device = Pairs[kind].device /\ (device.asks => plugin.drains = FALSE)
        BY PluginOfRow
    <2> QED
        BY <2>1, PluginOfRow
<1>1. \A x : StepFits(kind, Step("mode", x)) /\ StepFits(kind, Step("vsys", x))
             /\ StepFits(kind, Step("decide", x))
    BY DEF StepFits, Step
<1>2. StepsFit(kind, Lines(plugin.paging))
    BY <1>0, StepsOfLines
<1>3. PICK h : h = <<Step("decide", ""), Step("vsys", Own), Step("mode", plugin.pagingIn)>>
    OBVIOUS
<1>4. StepsFit(kind, h) /\ StepsFit(kind, <<Step("decide", "")>>)
    BY <1>1, <1>3, StepsOfFew
<1>5. StepsFit(kind, Paging(plugin))
    <2>1. Paging(plugin) \in {<<>>, h \o Lines(plugin.paging)}
        BY <1>3 DEF Paging
    <2>2. StepsFit(kind, h \o Lines(plugin.paging))
        BY <1>2, <1>4, StepsOfConcat
    <2> QED
        BY <2>1, <2>2, StepsOfNone
<1>6. PICK d : d = (IF plugin.drains THEN <<Step("drain", "")>> ELSE <<>>)
    OBVIOUS
<1>7. StepsFit(kind, d)
    <2>1. CASE plugin.drains
        <3>1. StepFits(kind, Step("drain", ""))
            BY <1>0, <2>1 DEF StepFits, Step
        <3> QED
            BY <1>6, <2>1, <3>1, StepsOfFew
    <2>2. CASE ~plugin.drains
        BY <1>6, <2>2, StepsOfNone
    <2> QED
        BY <2>1, <2>2
<1>8. Beginning(plugin) = d \o <<Step("decide", "")>> \o Paging(plugin)
    BY <1>6 DEF Beginning
<1>9. StepsFit(kind, d \o <<Step("decide", "")>>)
    BY <1>4, <1>7, StepsOfConcat
<1> QED
    BY <1>5, <1>8, <1>9, StepsOfConcat

LEMMA ShellBegins == ASSUME ShellInit PROVE ShellInv
<1>1. kind \in Kinds /\ kind \in DOMAIN Pairs /\ secret \in Passwords
    BY KindsAssumption DEF ShellInit
<1>2. /\ plugin = Pairs[kind].plugin /\ device = Pairs[kind].device
      /\ Worded(plugin.paging) /\ device.asks \in BOOLEAN
      /\ device.asks => plugin.leaves = "never" /\ plugin.drains = FALSE /\ plugin.asks = TRUE
    BY <1>1, PairsProper DEF plugin, device, Spoken, Prompted
<1>3. StepsFit(kind, Beginning(plugin))
    BY <1>1, BeginningFits
<1>4. DeviceFits(dev) /\ dev.asked = FALSE
    <2>1. \A d, m, v, o, a : d = [mode |-> m, vsys |-> v, open |-> o, asked |-> a] /\ a \in BOOLEAN
                               => DeviceFits(d) /\ d.asked = a
        BY DEF DeviceFits
    <2>2. FALSE \in BOOLEAN
        BY Zenon
    <2>3. dev = [mode |-> device.start, vsys |-> Own, open |-> <<>>, asked |-> FALSE]
        BY DEF ShellInit
    <2> QED
        BY <2>1, <2>2, <2>3
<1>5. SessionFits(kind, ses) /\ ses.wait = None /\ BufferFits(buf)
    <2>1. PICK q : q = Beginning(plugin)
        OBVIOUS
    <2>2. ses = [mode |-> None, vsys |-> Own, todo |-> q, wait |-> None, task |-> NotAsked,
                 begun |-> FALSE, up |-> TRUE, wide |-> FALSE]
        BY <2>1 DEF ShellInit
    <2>3. StepsFit(kind, q)
        BY <1>3, <2>1
    <2>4. \A a, b, c, d, e : LET s == [mode |-> a, vsys |-> b, todo |-> q, wait |-> None, task |-> c,
                                       begun |-> FALSE, up |-> d, wide |-> e]
                             IN SessionFits(kind, s) /\ s.wait = None
        BY <2>3 DEF SessionFits
    <2> QED
        BY <2>2, <2>4, NoBufferFits DEF ShellInit
<1>6. PICK x, y : arriving = <<x, y>> /\ x.t = "output" /\ y.t = "prompt"
    <2>1. \A c : Output(c).t = "output"
        BY DEF Output
    <2> QED
        BY <2>1, ShownIsPrompt DEF ShellInit
<1>7. IsList(<<x, y>>) /\ Idle(<<>>, <<x, y>>) /\ Clean(<<>>, <<x, y>>) /\ Asks(<<x, y>>) = {}
    <2>1. <<x, y>> \in Seq({x, y}) /\ DOMAIN <<x, y>> = {1, 2} /\ <<x, y>>[1] = x /\ <<x, y>>[2] = y
        OBVIOUS
    <2>2. Answers(<<x, y>>) \subseteq {2} /\ Asks(<<x, y>>) = {}
        BY <1>6, <2>1 DEF Answers, Asks
    <2>3. PICK q : q = <<x, y>>
        OBVIOUS
    <2>4. AtMostOne(<<>>, q)
        BY <2>2, <2>3, ListEmpty DEF AtMostOne
    <2>5. Harmless(<<>>) /\ Sober(<<>>)
        BY ListEmpty DEF Harmless, Sober
    <2> QED
        BY <2>1, <2>2, <2>3, <2>4, <2>5 DEF IsList, Idle, Clean
<1>8. Channel(Pairs[kind].device.asks, ses, dev, <<>>, <<x, y>>)
    BY <1>4, <1>5, <1>7, NothingAround DEF Channel
<1>9. Conversation(kind, ses, buf, dev, sent, stdin, arriving)
    <2>1. sent = <<>> /\ stdin = <<>> /\ stdin \o sent = <<>> /\ IsList(<<>>)
        BY ListEmpty, ListConcat DEF ShellInit
    <2>2. Unheard(ses, buf, arriving) = arriving
        BY <1>5 DEF Unheard
    <2> QED
        BY <1>6, <1>7, <1>8, <2>1, <2>2 DEF Conversation
<1> QED
    BY <1>1, <1>4, <1>5, <1>9 DEF ShellInv

LEMMA ShellSteps == ASSUME ~Late, ShellInv, [ShellNext]_shellVars PROVE ShellInv'
<1>1. CASE ShellNext
    BY <1>1, ReceivesKeeps, HandlesKeeps, DrainsKeeps, DecidesKeeps, SwitchesVsysKeeps, BelievesKeeps,
       SwitchesModeKeeps, MovesKeeps, WritesLineKeeps, FinishesKeeps, WriteFailsKeeps,
       ReadsUntilPromptKeeps, ReadsMoveKeeps, ReadsEofKeeps, TimesOutKeeps, TakesTaskKeeps DEF ShellNext
<1>2. CASE UNCHANGED shellVars
    BY <1>2 DEF shellVars, ShellInv, DeviceFits, SessionFits, BufferFits, StepsFit, StepFits, Conversation,
                Channel, Unheard
<1> QED
    BY <1>1, <1>2

\* Where the password is the line to execute, the device asks for it.
LEMMA AskedFor ==
    ASSUME ShellInv, stdin # <<>>, Head(stdin).is \in Passwords, dev.mode # Gone
    PROVE  dev.asked
<1>1. IsList(stdin) /\ IsList(sent)
    BY DEF ShellInv, Conversation
<1>2. PICK l, u : l = stdin \o sent /\ u = Unheard(ses, buf, arriving)
    OBVIOUS
<1>3. IsList(l) /\ l # <<>> /\ l[1] = Head(stdin)
    BY <1>1, <1>2, LinesExecuted
<1>4. 1 \in DOMAIN l /\ l[1].is \in Secrets
    BY <1>3, ListTail, PasswordsAssumption DEF Secrets
<1>5. Channel(Pairs[kind].device.asks, ses, dev, l, u)
    BY <1>2 DEF ShellInv, Conversation
<1> QED
    BY <1>4, <1>5 DEF Channel, Idle, Waiting, Enabling, Harmless

LEMMA OnlyAsked ==
    ASSUME ShellInv, [ShellNext]_shellVars, stdin # <<>>, stdin' = Tail(stdin), Head(stdin).is \in Passwords
    PROVE  dev.asked
<1>1. IsList(stdin)
    BY DEF ShellInv, Conversation
<1>2. PICK s : s = stdin
    OBVIOUS
<1>3. Tail(s) # s /\ \A x : Tail(s) # Append(s, x)
    <2>1. PICK n \in Nat : n = Len(s)
        BY <1>1, <1>2, ListFacts
    <2>2. Len(Tail(s)) = n - 1
        BY <1>1, <1>2, <2>1, ListTail DEF Shorter
    <2>3. \A x : Len(Append(s, x)) = n + 1
        BY <1>1, <1>2, <2>1, ListAppend DEF Extended
    <2>4. n - 1 # n /\ n - 1 # n + 1
        OBVIOUS
    <2> QED
        BY <2>1, <2>2, <2>3, <2>4
<1>4. DeviceHandles
    <2>1. stdin' # stdin /\ \A x : stdin' # Append(stdin, x)
        BY <1>2, <1>3
    <2> QED
        BY <2>1 DEF ShellNext, shellVars, DeviceReceives, Drains, Decides, SwitchesVsys, Believes, SwitchesMode,
           Moves, WritesLine, Finishes, WriteFails, ReadsUntilPrompt, ReadsMove, ReadsEof, TimesOut, TakesTask,
           AgentOnly, Reads
<1> QED
    BY <1>4, AskedFor DEF DeviceHandles

\* The enable password is executed only by a device that asked for it, for any sessions,
\* tasks and vendors and however output is cut up, when a timeout never fires while an
\* answer is on its way (enable of Base: the password is written on the question).
THEOREM SecretAlways ==
    ASSUME ~Late
    PROVE  ShellSpec => SecretOnlyAsked
<1>1. ShellInit => ShellInv
    BY ShellBegins
<1>2. ShellInv /\ [ShellNext]_shellVars => ShellInv'
    BY ShellSteps
<1>3. ShellInv /\ [ShellNext]_shellVars =>
        [(stdin # <<>> /\ stdin' = Tail(stdin) /\ Head(stdin).is \in Passwords) => dev.asked]_shellVars
    BY OnlyAsked
<1> QED
    BY <1>1, <1>2, <1>3, PTL DEF ShellSpec, SecretOnlyAsked

-----------------------------------------------------------------------------
(* The types, whatever timeouts do: the modes of device and session are    *)
(* modes, a session that begun knows its mode, and a read position stays   *)
(* within what was read.  The tables name modes only.                      *)

\* Where commands lead: to modes, or the connection is closed; the empty line leads nowhere.
LeadsOn(S) == \A r \in S : r[2] # "" /\ r[3] \in Modes \cup {Gone}
Moded(p, d) == p.decides \in Seq(Modes) /\ d.start \in Modes /\ LeadsOn(d.obeys)

LEMMA PluginsModed ==
    /\ BasePlugin.decides \in Seq(Modes) /\ NoLogin.decides \in Seq(Modes)
    /\ EnableOnly.decides \in Seq(Modes)
<1>1. <<CONFIG, ENABLE, LOGIN>> \in Seq(Modes) /\ <<CONFIG, ENABLE>> \in Seq(Modes)
      /\ <<ENABLE>> \in Seq(Modes)
    BY DEF Modes
<1> QED
    BY <1>1 DEF BasePlugin, NoLogin, EnableOnly

LEMMA AllPluginsModed ==
    /\ Arista.decides \in Seq(Modes) /\ ChaiTin.decides \in Seq(Modes) /\ MaiPu.decides \in Seq(Modes)
    /\ Venustech.decides \in Seq(Modes) /\ Cisco.decides \in Seq(Modes)
    /\ CiscoASA.decides \in Seq(Modes) /\ ArrayAG.decides \in Seq(Modes)
    /\ Huawei.decides \in Seq(Modes) /\ HuaweiUSG.decides \in Seq(Modes) /\ H3C.decides \in Seq(Modes)
    /\ Dptech.decides \in Seq(Modes) /\ Hillstone.decides \in Seq(Modes)
    /\ Juniper.decides \in Seq(Modes) /\ Paloalto.decides \in Seq(Modes) /\ QiAnXin.decides \in Seq(Modes)
    /\ CheckPoint.decides \in Seq(Modes) /\ TopSec.decides \in Seq(Modes)
    /\ FortiGate.decides \in Seq(Modes)
<1>1. \A q : BasePlugin.decides = q =>
        /\ Arista.decides = q /\ ChaiTin.decides = q /\ MaiPu.decides = q /\ Venustech.decides = q
        /\ Cisco.decides = q /\ CiscoASA.decides = q /\ ArrayAG.decides = q
    BY DEF Arista, ChaiTin, MaiPu, Venustech, Cisco, CiscoASA, ArrayAG, ArrayBase, BasePlugin
<1>2. \A q : NoLogin.decides = q =>
        /\ Huawei.decides = q /\ HuaweiUSG.decides = q /\ H3C.decides = q /\ Dptech.decides = q
        /\ Hillstone.decides = q /\ Juniper.decides = q /\ Paloalto.decides = q /\ QiAnXin.decides = q
    BY DEF Huawei, HuaweiUSG, H3C, Dptech, Hillstone, Juniper, Paloalto, QiAnXin, NoLogin, BasePlugin
<1>3. \A q : EnableOnly.decides = q =>
        CheckPoint.decides = q /\ TopSec.decides = q /\ FortiGate.decides = q
    BY DEF CheckPoint, TopSec, FortiGate, Fortinet, EnableOnly, BasePlugin
<1> QED
    BY <1>1, <1>2, <1>3, PluginsModed

LEMMA LeadsOnParts ==
    /\ \A S, T : S \subseteq T /\ LeadsOn(T) => LeadsOn(S)
    /\ \A S, T : LeadsOn(S) /\ LeadsOn(T) => LeadsOn(S \cup T)
    /\ \A a, b, c : b # "" /\ c \in Modes \cup {Gone} => LeadsOn({<<a, b, c>>})
<1>1. \A a, b, c : <<a, b, c>>[2] = b /\ <<a, b, c>>[3] = c
    OBVIOUS
<1>2. ASSUME NEW a, NEW b, NEW c, b # "", c \in Modes \cup {Gone} PROVE LeadsOn({<<a, b, c>>})
    <2>1. PICK x : x = <<a, b, c>>
        OBVIOUS
    <2>2. x[2] = b /\ x[3] = c
        BY <1>1, <2>1
    <2> QED
        BY <1>2, <2>1, <2>2 DEF LeadsOn
<1>3. \A S, T : S \subseteq T /\ LeadsOn(T) => LeadsOn(S)
    BY DEF LeadsOn
<1>4. \A S, T : LeadsOn(S) /\ LeadsOn(T) => LeadsOn(S \cup T)
    BY DEF LeadsOn
<1> QED
    BY <1>2, <1>3, <1>4

LEMMA AristaLeadsOn == LeadsOn(AristaEOS.obeys) /\ AristaEOS.start \in Modes
<1>1. PICK a, b, c, d, e, f, g, h :
        /\ a = {<<LOGIN, "exit", Gone>>} /\ b = {<<LOGIN, "enable", ENABLE>>}
        /\ c = {<<ENABLE, "exit", Gone>>} /\ d = {<<ENABLE, "configure terminal", CONFIG>>}
        /\ e = {<<ENABLE, "disable", LOGIN>>} /\ f = {<<CONFIG, "exit", ENABLE>>}
        /\ g = {<<CONFIG, "end", ENABLE>>} /\ h = {<<CONFIG, "disable", LOGIN>>}
    OBVIOUS
<1>2. AristaEOS.obeys = a \cup b \cup c \cup d \cup e \cup f \cup g \cup h
    BY <1>1 DEF AristaEOS
<1>3. Gone \in Modes \cup {Gone} /\ LOGIN \in Modes \cup {Gone} /\ ENABLE \in Modes \cup {Gone}
      /\ CONFIG \in Modes \cup {Gone} /\ ENABLE \in Modes
    BY DEF Modes
<1>4. /\ LeadsOn({<<LOGIN, "exit", Gone>>}) /\ LeadsOn({<<LOGIN, "enable", ENABLE>>})
      /\ LeadsOn({<<ENABLE, "exit", Gone>>}) /\ LeadsOn({<<ENABLE, "configure terminal", CONFIG>>})
      /\ LeadsOn({<<ENABLE, "disable", LOGIN>>}) /\ LeadsOn({<<CONFIG, "exit", ENABLE>>})
      /\ LeadsOn({<<CONFIG, "end", ENABLE>>}) /\ LeadsOn({<<CONFIG, "disable", LOGIN>>})
    BY <1>3, LeadsOnParts
<1>5. /\ LeadsOn(a) /\ LeadsOn(b) /\ LeadsOn(c) /\ LeadsOn(d)
      /\ LeadsOn(e) /\ LeadsOn(f) /\ LeadsOn(g) /\ LeadsOn(h)
    BY <1>1, <1>4
<1>6. LeadsOn(a \cup b) /\ LeadsOn(a \cup b \cup c) /\ LeadsOn(a \cup b \cup c \cup d)
    BY <1>5, LeadsOnParts
<1>7. PICK S : S = a \cup b \cup c \cup d
    OBVIOUS
<1>8. LeadsOn(S \cup e) /\ LeadsOn(S \cup e \cup f) /\ LeadsOn(S \cup e \cup f \cup g)
      /\ LeadsOn(S \cup e \cup f \cup g \cup h)
    BY <1>5, <1>6, <1>7, LeadsOnParts
<1>9. AristaEOS.obeys = S \cup e \cup f \cup g \cup h
    BY <1>2, <1>7
<1>10. AristaEOS.start = ENABLE
    BY DEF AristaEOS
<1> QED
    BY <1>3, <1>8, <1>9, <1>10

LEMMA IosModed ==
    \A d \in {AristaEOS, ChaitinCTDSG, MaipuNSS, VenustechUSG, ASA, Nexus, AG} :
        d.start \in Modes /\ LeadsOn(d.obeys)
<1>0. LOGIN \in Modes /\ ENABLE \in Modes
    BY DEF Modes
<1>1. /\ ChaitinCTDSG.obeys = AristaEOS.obeys /\ MaipuNSS.obeys = AristaEOS.obeys
      /\ VenustechUSG.obeys = AristaEOS.obeys
      /\ ChaitinCTDSG.start = LOGIN /\ MaipuNSS.start = LOGIN /\ VenustechUSG.start = LOGIN
    BY DEF ChaitinCTDSG, MaipuNSS, VenustechUSG, AristaEOS
<1>2. PICK S : S = AristaEOS.obeys
    OBVIOUS
<1>3. AristaEOS = [start |-> ENABLE, shows |-> IosShows, asks |-> FALSE, levels |-> "none", obeys |-> S]
    BY <1>2 DEF AristaEOS
<1>4. PICK T : T = {<<LOGIN, "quit", Gone>>} \cup {<<ENABLE, "quit", Gone>>} \cup {<<CONFIG, "quit", ENABLE>>}
    OBVIOUS
<1>5. T = {<<LOGIN, "quit", Gone>>, <<ENABLE, "quit", Gone>>, <<CONFIG, "quit", ENABLE>>}
    BY <1>4
<1>6. ASA.obeys = S \cup T /\ ASA.start = LOGIN
    BY <1>3, <1>5 DEF ASA
<1>7. Nexus.obeys \subseteq S /\ Nexus.start = ENABLE
    BY <1>3 DEF Nexus
<1>8. AG.obeys \subseteq S /\ AG.start = LOGIN
    BY <1>3 DEF AG
<1>9. LeadsOn(T)
    <2>1. Gone \in Modes \cup {Gone} /\ ENABLE \in Modes \cup {Gone}
        BY <1>0
    <2> QED
        BY <1>4, <2>1, LeadsOnParts
<1>10. LeadsOn(S) /\ LeadsOn(S \cup T) /\ LeadsOn(Nexus.obeys) /\ LeadsOn(AG.obeys)
    BY <1>2, <1>7, <1>8, <1>9, AristaLeadsOn, LeadsOnParts
<1> QED
    BY <1>0, <1>1, <1>2, <1>6, <1>7, <1>8, <1>10, AristaLeadsOn

LEMMA TwoModed ==
    ASSUME NEW s, NEW c, NEW l, NEW q, c # "", "" \notin l, "" \notin q,
           NEW h, h = TwoMode(s, c, l, q)
    PROVE  h.start \in Modes /\ LeadsOn(h.obeys)
<1>1. h.obeys = {<<ENABLE, c, CONFIG>>} \cup {<<CONFIG, x, ENABLE>> : x \in l}
                \cup {<<ENABLE, x, Gone>> : x \in q}
      /\ h.start = ENABLE
    BY DEF TwoMode
<1>2. /\ LeadsOn({<<ENABLE, c, CONFIG>>}) /\ LeadsOn({<<CONFIG, x, ENABLE>> : x \in l})
      /\ LeadsOn({<<ENABLE, x, Gone>> : x \in q})
    <2>1. \A a, b, e : <<a, b, e>>[2] = b /\ <<a, b, e>>[3] = e
        OBVIOUS
    <2>2. CONFIG \in Modes \cup {Gone} /\ ENABLE \in Modes \cup {Gone} /\ Gone \in Modes \cup {Gone}
        BY DEF Modes
    <2>3. ASSUME NEW a, NEW e \in Modes \cup {Gone}, NEW k, "" \notin k
          PROVE  LeadsOn({<<a, x, e>> : x \in k})
        <3>1. ASSUME NEW x \in k, NEW r, r = <<a, x, e>> PROVE r[2] # "" /\ r[3] \in Modes \cup {Gone}
            <4>1. r[2] = x /\ r[3] = e
                BY <2>1, <3>1
            <4> QED
                BY <2>3, <4>1
        <3> QED
            BY <3>1 DEF LeadsOn
    <2>4. LeadsOn({<<ENABLE, c, CONFIG>>})
        BY <2>2, LeadsOnParts, Zenon
    <2> QED
        BY <2>2, <2>3, <2>4
<1>3. ENABLE \in Modes
    BY DEF Modes
<1> QED
    BY <1>1, <1>2, <1>3, LeadsOnParts

OtherObeys(g, h, T) == g = [h EXCEPT !.obeys = T]
LEMMA MoreObeyed ==
    ASSUME NEW s, NEW c, NEW l, NEW q, NEW h, h = TwoMode(s, c, l, q), NEW T, NEW g, OtherObeys(g, h, T)
    PROVE  g.start = ENABLE /\ g.obeys = T
<1>1. PICK S : S = {<<ENABLE, c, CONFIG>>} \cup {<<CONFIG, z, ENABLE>> : z \in l}
                   \cup {<<ENABLE, z, Gone>> : z \in q}
    OBVIOUS
<1>2. h = [start |-> ENABLE, shows |-> s, asks |-> FALSE, levels |-> "none", obeys |-> S]
    BY <1>1 DEF TwoMode
<1> QED
    BY <1>2 DEF OtherObeys

LEMMA OthersModed ==
    \A d \in {HuaweiCE, SecPath, VSR, FW1000, SG6000, JuniperEX, JuniperSRX, PaloaltoPA, NSG, USG,
              Gaia, NGFW, FortiGateNG} : d.start \in Modes /\ LeadsOn(d.obeys)
<1> DEFINE Ok(d) == d.start \in Modes /\ LeadsOn(d.obeys)
<1>1. Gone \in Modes \cup {Gone} /\ ENABLE \in Modes \cup {Gone} /\ ENABLE \in Modes
    BY DEF Modes
<1>2. \A s, c, l, q : c # "" /\ "" \notin l /\ "" \notin q => Ok(TwoMode(s, c, l, q))
    BY TwoModed
<1>3. /\ Ok(HuaweiCE) /\ Ok(SecPath) /\ Ok(VSR) /\ Ok(SG6000) /\ Ok(JuniperEX) /\ Ok(JuniperSRX)
      /\ Ok(PaloaltoPA)
    BY <1>2 DEF HuaweiCE, SecPath, VSR, SG6000, JuniperEX, JuniperSRX, PaloaltoPA
<1>4. Ok(FW1000)
    <2>1. PICK s, c, l, q, y : /\ s = BracketShows /\ c = "conf-mode" /\ l = {"end"} /\ q = {"exit"}
                               /\ y = "end"
        OBVIOUS
    <2>2. c # "" /\ "" \notin l /\ "" \notin q /\ y # ""
        BY <2>1
    <2>3. PICK h : h = TwoMode(s, c, l, q)
        OBVIOUS
    <2>4. PICK T : T = h.obeys \cup {<<ENABLE, y, ENABLE>>}
        OBVIOUS
    <2>5. OtherObeys(FW1000, h, T)
        BY <2>1, <2>3, <2>4 DEF FW1000, OtherObeys
    <2>6. FW1000.start = ENABLE /\ FW1000.obeys = T
        BY <2>3, <2>5, MoreObeyed
    <2>7. LeadsOn(h.obeys)
        BY <2>2, <2>3, TwoModed
    <2>8. LeadsOn({<<ENABLE, y, ENABLE>>})
        BY <1>1, <2>2, LeadsOnParts
    <2>9. LeadsOn(T)
        BY <2>4, <2>7, <2>8, LeadsOnParts
    <2> QED
        BY <1>1, <2>6, <2>9
<1>5. Ok(NSG)
    <2>1. PICK s, c, l, q, y : /\ s = Shows("", "host>", "host-config]") /\ c = "config terminal"
                               /\ l = {"exit", "end"} /\ q = {"exit", "quit"} /\ y = "quit"
        OBVIOUS
    <2>2. c # "" /\ "" \notin l /\ "" \notin q /\ y # ""
        BY <2>1
    <2>3. PICK h : h = TwoMode(s, c, l, q)
        OBVIOUS
    <2>4. PICK T : T = h.obeys \cup {<<CONFIG, y, Gone>>}
        OBVIOUS
    <2>5. OtherObeys(NSG, h, T)
        BY <2>1, <2>3, <2>4 DEF NSG, OtherObeys
    <2>6. NSG.start = ENABLE /\ NSG.obeys = T
        BY <2>3, <2>5, MoreObeyed
    <2>7. LeadsOn(h.obeys)
        BY <2>2, <2>3, TwoModed
    <2>8. LeadsOn({<<CONFIG, y, Gone>>})
        BY <1>1, <2>2, LeadsOnParts
    <2>9. LeadsOn(T)
        BY <2>4, <2>7, <2>8, LeadsOnParts
    <2> QED
        BY <1>1, <2>6, <2>9
<1>6. Ok(USG)
    <2>1. PICK h : h = TwoMode(BracketShows, "system-view", {"quit"}, {"quit"})
        OBVIOUS
    <2>2. PICK S : S = h.obeys
        OBVIOUS
    <2>3. h = [start |-> ENABLE, shows |-> BracketShows, asks |-> FALSE, levels |-> "none", obeys |-> S]
        BY <2>1, <2>2 DEF TwoMode
    <2>4. USG = [h EXCEPT !.levels = "usg"]
        BY <2>1 DEF USG
    <2>5. USG.start = ENABLE /\ USG.obeys = S
        BY <2>3, <2>4
    <2> QED
        BY <1>1, <2>1, <2>2, <2>5, TwoModed
<1>7. Ok(Gaia) /\ Ok(NGFW) /\ Ok(FortiGateNG)
    <2>1. PICK S : S = {<<ENABLE, "exit", Gone>>}
        OBVIOUS
    <2>2. Gaia = [start |-> ENABLE, shows |-> Shows("", "host>", ""), asks |-> FALSE, levels |-> "none", obeys |-> S]
        BY <2>1 DEF Gaia
    <2>3. /\ Gaia.start = ENABLE /\ NGFW.start = ENABLE /\ FortiGateNG.start = ENABLE
          /\ Gaia.obeys = S /\ NGFW.obeys = S /\ FortiGateNG.obeys = S
        BY <2>2 DEF NGFW, FortiGateNG
    <2> QED
        BY <1>1, <2>1, <2>3, LeadsOnParts
<1> QED
    BY <1>3, <1>4, <1>5, <1>6, <1>7

LEMMA PairsModed == \A k \in DOMAIN Pairs : Moded(Pairs[k].plugin, Pairs[k].device)
<1>1. /\ Moded(Arista, AristaEOS) /\ Moded(ChaiTin, ChaitinCTDSG) /\ Moded(MaiPu, MaipuNSS)
      /\ Moded(Venustech, VenustechUSG) /\ Moded(CiscoASA, ASA) /\ Moded(Cisco, Nexus)
      /\ Moded(ArrayAG, AG) /\ Moded(Huawei, HuaweiCE) /\ Moded(HuaweiUSG, USG)
      /\ Moded(H3C, SecPath) /\ Moded(H3C, VSR) /\ Moded(Dptech, FW1000)
      /\ Moded(Hillstone, SG6000) /\ Moded(Juniper, JuniperEX) /\ Moded(Juniper, JuniperSRX)
      /\ Moded(Paloalto, PaloaltoPA) /\ Moded(QiAnXin, NSG) /\ Moded(CheckPoint, Gaia)
      /\ Moded(TopSec, NGFW) /\ Moded(FortiGate, FortiGateNG)
    BY AllPluginsModed, IosModed, OthersModed DEF Moded
<1> HIDE DEF Moded
<1> QED
    BY <1>1 DEF Pairs

LEMMA RowModed ==
    ASSUME kind \in Kinds
    PROVE  plugin.decides \in Seq(Modes) /\ device.start \in Modes /\ LeadsOn(device.obeys)
BY KindsAssumption, PairsModed DEF Moded, plugin, device

-----------------------------------------------------------------------------
(* The device.                                                             *)

LEMMA DeviceModes ==
    ASSUME NEW d, DeviceFits(d), NEW x, NEW y
    PROVE  /\ [d EXCEPT !.mode = x].mode = x /\ [d EXCEPT !.vsys = x].mode = d.mode
           /\ [d EXCEPT !.open = x].mode = d.mode /\ [d EXCEPT !.mode = x, !.vsys = y].mode = x
<1>1. PICK a, b, c, e : d = [mode |-> a, vsys |-> b, open |-> c, asked |-> e] /\ a = d.mode
    BY DEF DeviceFits
<1> QED
    BY <1>1

LEMMA ObeyedMode ==
    ASSUME kind \in Kinds, NEW d, d.mode \in Modes \cup {Gone}, NEW c
    PROVE  Obeyed(d, c) \in Modes \cup {Gone}
<1>1. PICK to : to = {r \in device.obeys : r[1] = d.mode /\ r[2] = c}
    OBVIOUS
<1>2. CASE to = {}
    BY <1>1, <1>2 DEF Obeyed
<1>3. CASE to # {}
    <2>1. PICK r : r = CHOOSE q \in to : TRUE
        OBVIOUS
    <2>2. r \in to
        BY <1>3, <2>1
    <2>3. r[3] \in Modes \cup {Gone}
        BY <1>1, <2>2, RowModed DEF LeadsOn
    <2> QED
        BY <1>1, <1>3, <2>1, <2>3 DEF Obeyed
<1> QED
    BY <1>2, <1>3

LEMMA ExecutedMode ==
    ASSUME kind \in Kinds, NEW d, DeviceFits(d), d.mode \in Modes \cup {Gone}, NEW c
    PROVE  Executed(d, c).mode \in Modes \cup {Gone}
<1>1. Obeyed(d, c) \in Modes \cup {Gone} /\ ENABLE \in Modes /\ Gone \in Modes \cup {Gone}
    BY ObeyedMode DEF Modes
<1>2. SiteObeys(d, c).mode \in Modes \cup {Gone}
    BY <1>1, DeviceModes DEF SiteObeys
<1>3. UsgObeys(d, c).mode \in Modes \cup {Gone}
    <2>1. PICK e : e = [d EXCEPT !.mode = ENABLE]
        OBVIOUS
    <2>2. DeviceFits(e) /\ e.mode = ENABLE
        <3>1. DeviceKept(d, [d EXCEPT !.mode = ENABLE])
            BY DeviceChanged
        <3>2. [d EXCEPT !.mode = ENABLE].mode = ENABLE
            BY DeviceModes
        <3> QED
            BY <2>1, <3>1, <3>2 DEF DeviceKept
    <2>3. CASE \E v : UsgObeys(d, c) = [e EXCEPT !.vsys = v]
        <3>1. PICK v : UsgObeys(d, c) = [e EXCEPT !.vsys = v]
            BY <2>3
        <3>2. [e EXCEPT !.vsys = v].mode = e.mode
            BY <2>2, DeviceModes
        <3> QED
            BY <1>1, <2>2, <3>1, <3>2
    <2>4. CASE \E v : UsgObeys(d, c) = [d EXCEPT !.vsys = v]
        <3>1. PICK v : UsgObeys(d, c) = [d EXCEPT !.vsys = v]
            BY <2>4
        <3>2. [d EXCEPT !.vsys = v].mode = d.mode
            BY DeviceModes
        <3> QED
            BY <3>1, <3>2
    <2>5. CASE UsgObeys(d, c) = [d EXCEPT !.mode = Obeyed(d, c)]
        BY <1>1, <2>5, DeviceModes
    <2> QED
        BY <2>1, <2>3, <2>4, <2>5 DEF UsgObeys
<1>4. VdomObeys(d, c).mode \in Modes \cup {Gone}
    BY <1>1, DeviceModes DEF VdomObeys
<1> QED
    BY <1>1, <1>2, <1>3, <1>4, DeviceModes DEF Executed

-----------------------------------------------------------------------------
(* The session.  Until its first prompt is read it has no mode; it drains  *)
(* and decides and does nothing else.                                      *)

Deciding(q) == q # <<>> /\ Head(q).do = "decide"
Begins(s) ==
    /\ ~s.begun /\ s.task = NotAsked
    /\ \/ s.todo = <<>> /\ s.wait = None /\ ~s.up
       \/ Deciding(s.todo) /\ s.wait \in {None, "decide", "reread"}
       \/ /\ s.todo # <<>> /\ Head(s.todo).do = "drain" /\ Deciding(Tail(s.todo))
          /\ s.wait \in {None, "drain"}
SessionTyped(k, s) ==
    /\ SessionFits(k, s) /\ s.mode \in Modes \cup {None}
    /\ s.mode = None => Begins(s)

ShellTyped ==
    /\ kind \in Kinds /\ secret \in Passwords /\ tasks \in 0..Bound
    /\ DeviceFits(dev) /\ dev.mode \in Modes \cup {Gone}
    /\ SessionTyped(kind, ses) /\ BufferFits(buf) /\ IsList(arriving)

LEMMA ModeNames ==
    /\ None \notin Modes /\ LOGIN \in Modes /\ ENABLE \in Modes /\ CONFIG \in Modes
    /\ None \notin {"drain", "decide", "reread", "moving", "line", "own"}
BY DEF None, Modes, LOGIN, ENABLE, CONFIG

LEMMA ModeTyped == ASSUME NEW k, NEW s, SessionFits(k, s), s.mode \in Modes PROVE SessionTyped(k, s)
BY ModeNames DEF SessionTyped

LEMMA RestTyped ==
    ASSUME NEW k, NEW s, SessionTyped(k, s), s.todo # <<>>,
           s.mode = None => Head(s.todo).do = "drain"
    PROVE  SessionTyped(k, Rest(s)) /\ Rest(s).mode = s.mode
<1>1. SessionFits(k, Rest(s)) /\ Rest(s).mode = s.mode
    BY RestFits DEF SessionTyped
<1>2. PICK r : r = Rest(s)
    OBVIOUS
<1>3. r = [mode |-> s.mode, vsys |-> s.vsys, todo |-> Tail(s.todo), wait |-> None, task |-> s.task,
           begun |-> s.begun, up |-> s.up, wide |-> s.wide]
    BY <1>2 DEF Rest, SessionTyped, SessionFits
<1>4. ASSUME s.mode = None PROVE Begins(r)
    <2>1. Deciding(Tail(s.todo)) /\ ~s.begun /\ s.task = NotAsked
        BY <1>4 DEF SessionTyped, Begins, Deciding
    <2> QED
        BY <1>3, <2>1 DEF Begins
<1> QED
    BY <1>1, <1>2, <1>4 DEF SessionTyped

LEMMA FailedTyped == ASSUME NEW k, NEW s, SessionTyped(k, s) PROVE SessionTyped(k, Failed(s))
<1>1. SessionFits(k, Failed(s))
    BY FailedFits DEF SessionTyped
<1>2. PICK r : r = Failed(s)
    OBVIOUS
<1>3. r = [mode |-> s.mode, vsys |-> s.vsys, todo |-> <<>>, wait |-> None, task |-> NotAsked,
           begun |-> s.begun, up |-> s.begun, wide |-> s.wide]
    BY <1>2 DEF Failed, SessionTyped, SessionFits
<1> QED
    BY <1>1, <1>2, <1>3 DEF SessionTyped, Begins

LEMMA WaitsTyped ==
    ASSUME NEW k, NEW s, SessionTyped(k, s), s.todo # <<>>, NEW w, w # None,
           s.mode = None => \/ Head(s.todo).do = "drain" /\ w = "drain"
                            \/ Head(s.todo).do = "decide" /\ w \in {"decide", "reread"}
    PROVE  SessionTyped(k, Waits(s, w))
<1>1. SessionFits(k, Waits(s, w))
    BY AwaitFits DEF SessionTyped
<1>2. PICK r : r = Waits(s, w)
    OBVIOUS
<1>3. r = [mode |-> s.mode, vsys |-> s.vsys, todo |-> s.todo, wait |-> w, task |-> s.task,
           begun |-> s.begun, up |-> s.up, wide |-> s.wide]
    BY <1>2 DEF Waits, SessionTyped, SessionFits
<1>4. ASSUME s.mode = None PROVE Begins(r)
    <2>1. Begins(s)
        BY <1>4 DEF SessionTyped
    <2>2. CASE Head(s.todo).do = "drain" /\ w = "drain"
        <3>1. Deciding(Tail(s.todo))
            BY <2>1, <2>2 DEF Begins, Deciding
        <3> QED
            BY <1>3, <2>1, <2>2, <3>1 DEF Begins
    <2>3. CASE Head(s.todo).do = "decide" /\ w \in {"decide", "reread"}
        BY <1>3, <2>1, <2>3 DEF Begins, Deciding
    <2> QED
        BY <1>4, <2>2, <2>3
<1> QED
    BY <1>1, <1>2, <1>3, <1>4 DEF SessionTyped

\* What a step of the session leaves alone.
LEMMA AgentStepTyped ==
    ASSUME ShellTyped, UNCHANGED <<kind, secret, ahead, dev, tasks>>,
           SessionTyped(kind, ses'), BufferFits(buf'), IsList(arriving')
    PROVE  ShellTyped'
<1>1. Bound' = Bound
    BY DEF Bound
<1>2. SessionTyped(kind, ses)'
    BY DEF SessionTyped, SessionFits, StepsFit, StepFits
<1> QED
    BY <1>1, <1>2 DEF ShellTyped, DeviceFits, BufferFits

\* A step that is neither a drain nor a decision is taken up in a mode.
LEMMA ReadyMode ==
    ASSUME ShellTyped, NEW do, Ready(do)
    PROVE  /\ SessionTyped(kind, ses) /\ SessionFits(kind, ses) /\ kind \in Kinds
           /\ ses.wait = None /\ ses.todo # <<>> /\ Now = Head(ses.todo) /\ Now.do = do
           /\ do \notin {"drain", "decide"} => ses.mode \in Modes
<1>1. SessionTyped(kind, ses) /\ SessionFits(kind, ses) /\ kind \in Kinds
    BY DEF ShellTyped, SessionTyped
<1>2. ses.wait = None /\ ses.todo # <<>> /\ Now = Head(ses.todo) /\ Now.do = do
    BY <1>1, SessionReady
<1>3. ses.mode = None => Now.do \in {"drain", "decide"}
    BY <1>1, <1>2 DEF SessionTyped, Begins, Deciding
<1> QED
    BY <1>1, <1>2, <1>3 DEF SessionTyped

-----------------------------------------------------------------------------
(* The steps of the session that write.                                    *)

LEMMA DrainsTyped == ASSUME ShellTyped, Drains PROVE ShellTyped'
<1>1. SessionTyped(kind, ses) /\ ses.todo # <<>> /\ Head(ses.todo).do = "drain"
    BY ReadyMode DEF Drains
<1>2. ses' = Waits(ses, "drain") /\ BufferFits(buf')
    BY NoBufferFits DEF Drains, Await, Waits
<1>3. SessionTyped(kind, ses')
    BY <1>1, <1>2, WaitsTyped, ModeNames
<1>4. UNCHANGED <<kind, secret, ahead, dev, tasks>> /\ IsList(arriving')
    BY DEF Drains, AgentOnly, ShellTyped
<1> QED
    BY <1>2, <1>3, <1>4, AgentStepTyped

LEMMA DecidesTyped == ASSUME ShellTyped, Decides PROVE ShellTyped'
<1>1. SessionTyped(kind, ses) /\ ses.todo # <<>> /\ Head(ses.todo).do = "decide"
    BY ReadyMode DEF Decides
<1>2. ses' = Waits(ses, "decide") /\ BufferFits(buf')
    BY NoBufferFits DEF Decides, Await, Waits
<1>3. SessionTyped(kind, ses')
    BY <1>1, <1>2, WaitsTyped, ModeNames
<1>4. UNCHANGED <<kind, secret, ahead, dev, tasks>> /\ IsList(arriving')
    BY DEF Decides, AgentOnly, ShellTyped
<1> QED
    BY <1>2, <1>3, <1>4, AgentStepTyped

LEMMA SwitchesVsysTyped == ASSUME ShellTyped, SwitchesVsys PROVE ShellTyped'
<1>1. /\ SessionTyped(kind, ses) /\ SessionFits(kind, ses) /\ ses.todo # <<>> /\ ses.wait = None
      /\ ses.mode \in Modes
    <2>1. Ready("vsys") /\ "vsys" \notin {"drain", "decide"}
        BY DEF SwitchesVsys
    <2> QED
        BY <2>1, ReadyMode
<1>2. SessionTyped(kind, ses')
    <2>1. CASE ses' = Rest(ses)
        BY <1>1, <2>1, RestTyped, ModeNames
    <2>2. CASE ses' # Rest(ses)
        <3>1. PICK q : q = SwitchVsys(ses, Now.is) \o Tail(ses.todo)
            OBVIOUS
        <3>2. ses' = Listed(ses, q)
            BY <2>2, <3>1 DEF SwitchesVsys, Listed
        <3>3. StepsFit(kind, q)
            BY <1>1, <3>1, SwitchFits, StepsReplaced
        <3>4. SessionFits(kind, ses') /\ ses'.mode = ses.mode
            BY <1>1, <3>2, <3>3, ListedFits
        <3> QED
            BY <1>1, <3>4, ModeTyped
    <2> QED
        BY <2>1, <2>2
<1>3. UNCHANGED <<kind, secret, ahead, dev, tasks>> /\ IsList(arriving') /\ BufferFits(buf')
    BY DEF SwitchesVsys, AgentOnly, ShellTyped
<1> QED
    BY <1>2, <1>3, AgentStepTyped

LEMMA BelievesTyped == ASSUME ShellTyped, Believes PROVE ShellTyped'
<1>1. SessionTyped(kind, ses) /\ SessionFits(kind, ses) /\ ses.todo # <<>> /\ ses.mode \in Modes
    BY ReadyMode DEF Believes
<1>2. PICK s : s = Rest(ses) /\ SessionFits(kind, s) /\ s.wait = None /\ s.mode = ses.mode
    BY <1>1, RestFits
<1>3. PICK r : r = ses'
    OBVIOUS
<1>4. r = [s EXCEPT !.vsys = Now.is, !.mode = IF plugin.vsys = "usg" THEN ENABLE ELSE @]
    BY <1>2, <1>3 DEF Believes
<1>5. Believed(r, s, Now.is)
    BY <1>4 DEF Believed
<1>6. SessionFits(kind, r)
    BY <1>2, <1>5, BelievedFits
<1>7. r.mode \in {ENABLE, s.mode}
    BY <1>2, <1>5 DEF Believed, SessionFits
<1>8. SessionTyped(kind, ses')
    BY <1>1, <1>2, <1>3, <1>6, <1>7, ModeTyped, ModeNames
<1>9. UNCHANGED <<kind, secret, ahead, dev, tasks>> /\ IsList(arriving') /\ BufferFits(buf')
    BY DEF Believes, AgentOnly, ShellTyped
<1> QED
    BY <1>8, <1>9, AgentStepTyped

LEMMA SwitchesModeTyped == ASSUME ShellTyped, SwitchesMode PROVE ShellTyped'
<1>1. /\ SessionTyped(kind, ses) /\ SessionFits(kind, ses) /\ ses.todo # <<>> /\ ses.wait = None
      /\ ses.mode \in Modes
    <2>1. Ready("mode") /\ "mode" \notin {"drain", "decide"}
        BY DEF SwitchesMode
    <2> QED
        BY <2>1, ReadyMode
<1>2. SessionTyped(kind, ses')
    <2>1. CASE ses' = Rest(ses)
        BY <1>1, <2>1, RestTyped, ModeNames
    <2>2. CASE ses' = Failed(ses)
        BY <1>1, <2>2, FailedTyped
    <2>3. CASE ses' # Rest(ses) /\ ses' # Failed(ses)
        <3>1. PICK m : m = Now.is
            OBVIOUS
        <3>2. PICK q : q = <<Step("moving", m)>> \o Tail(ses.todo)
            OBVIOUS
        <3>3. ses' = Listed(ses, q)
            BY <2>3, <3>1, <3>2 DEF SwitchesMode, Listed
        <3>4. StepsFit(kind, <<Step("moving", m)>>)
            <4>1. StepFits(kind, Step("moving", m))
                BY DEF StepFits, Step
            <4> QED
                BY <4>1, StepsOfFew
        <3>5. StepsFit(kind, q)
            BY <1>1, <3>2, <3>4, StepsReplaced
        <3>6. SessionFits(kind, ses') /\ ses'.mode = ses.mode
            BY <1>1, <3>3, <3>5, ListedFits
        <3> QED
            BY <1>1, <3>6, ModeTyped
    <2> QED
        BY <2>1, <2>2, <2>3
<1>3. UNCHANGED <<kind, secret, ahead, dev, tasks>> /\ IsList(arriving') /\ BufferFits(buf')
    BY DEF SwitchesMode, AgentOnly, ShellTyped
<1> QED
    BY <1>2, <1>3, AgentStepTyped

LEMMA MovesTyped == ASSUME ShellTyped, Moves PROVE ShellTyped'
<1>1. SessionTyped(kind, ses) /\ ses.todo # <<>> /\ ses.mode \in Modes /\ ses.mode # None
    BY ReadyMode, ModeNames DEF Moves
<1>2. /\ ses' = Rest(ses) \/ ses' = Waits(ses, "moving")
      /\ buf' = buf \/ \E c : buf' = Reading(c)
    BY DEF Moves, Await, Waits
<1>3. SessionTyped(kind, ses')
    BY <1>1, <1>2, RestTyped, WaitsTyped, ModeNames
<1>4. UNCHANGED <<kind, secret, ahead, dev, tasks>> /\ IsList(arriving') /\ BufferFits(buf')
    BY <1>2, NoBufferFits DEF Moves, AgentOnly, ShellTyped
<1> QED
    BY <1>3, <1>4, AgentStepTyped

LEMMA WritesLineTyped == ASSUME ShellTyped, WritesLine PROVE ShellTyped'
<1>1. PICK do \in {"line", "own"} : Ready(do)
    BY DEF WritesLine
<1>2. SessionTyped(kind, ses) /\ ses.todo # <<>> /\ ses.mode \in Modes /\ ses.mode # None /\ Now.do = do
    BY <1>1, ReadyMode, ModeNames
<1>3. ses' = Waits(ses, do) /\ BufferFits(buf')
    BY <1>2, NoBufferFits DEF WritesLine, Await, Waits
<1>4. SessionTyped(kind, ses')
    BY <1>2, <1>3, WaitsTyped, ModeNames
<1>5. UNCHANGED <<kind, secret, ahead, dev, tasks>> /\ IsList(arriving')
    BY DEF WritesLine, AgentOnly, ShellTyped
<1> QED
    BY <1>3, <1>4, <1>5, AgentStepTyped

LEMMA FinishesTyped == ASSUME ShellTyped, Finishes PROVE ShellTyped'
<1>1. /\ SessionTyped(kind, ses) /\ SessionFits(kind, ses) /\ ses.todo = <<>> /\ ses.wait = None
      /\ (~ses.begun /\ ses.up) \/ ses.task # NotAsked
    BY DEF Finishes, ShellTyped, SessionTyped
<1>2. ses.mode \in Modes
    BY <1>1 DEF SessionTyped, Begins, Deciding
<1>3. ses' = [mode |-> ses.mode, vsys |-> ses.vsys, todo |-> <<>>, wait |-> None, task |-> NotAsked,
              begun |-> TRUE, up |-> ses.up, wide |-> ses.wide]
    BY <1>1 DEF Finishes, SessionFits
<1>4. SessionFits(kind, ses') /\ ses'.mode = ses.mode
    BY <1>3, StepsOfNone DEF SessionFits
<1>5. SessionTyped(kind, ses')
    BY <1>2, <1>4, ModeTyped
<1>6. UNCHANGED <<kind, secret, ahead, dev, tasks>> /\ IsList(arriving') /\ BufferFits(buf')
    BY NoBufferFits DEF Finishes, AgentOnly, ShellTyped
<1> QED
    BY <1>5, <1>6, AgentStepTyped

LEMMA GivesUpTyped == ASSUME ShellTyped, WriteFails \/ TimesOut PROVE ShellTyped'
<1>1. SessionTyped(kind, ses')
    BY FailedTyped DEF ShellTyped, WriteFails, TimesOut
<1>2. UNCHANGED <<kind, secret, ahead, dev, tasks>> /\ IsList(arriving') /\ BufferFits(buf')
    BY NoBufferFits DEF WriteFails, TimesOut, AgentOnly, ShellTyped
<1> QED
    BY <1>1, <1>2, AgentStepTyped

LEMMA ReadsEofTyped == ASSUME ShellTyped, ReadsEof PROVE ShellTyped'
<1>1. /\ SessionTyped(kind, ses) /\ ses.wait # None /\ ses.todo # <<>>
      /\ ses' = IF ses.wait \in {"line", "own", "drain"} THEN Rest(ses) ELSE Failed(ses)
    BY DEF ReadsEof, ShellTyped, SessionTyped, SessionFits
<1>2. ses.wait \in {"line", "own", "drain"} /\ ses.mode = None => Head(ses.todo).do = "drain"
    BY <1>1, ModeNames DEF SessionTyped, Begins
<1>3. SessionTyped(kind, ses')
    BY <1>1, <1>2, RestTyped, FailedTyped
<1>4. UNCHANGED <<kind, secret, ahead, dev, tasks>> /\ IsList(arriving') /\ BufferFits(buf')
    BY DEF ReadsEof, AgentOnly, ShellTyped
<1> QED
    BY <1>3, <1>4, AgentStepTyped
-----------------------------------------------------------------------------
(* The steps of the session that read.                                     *)

LEMMA ChunkTyped ==
    ASSUME ShellTyped, NEW n \in 1..Len(arriving), Reads(n), NEW b, b = Chunk(n)
    PROVE  /\ BufferFits(b) /\ IsList(arriving') /\ IsList(b.got)
           /\ UNCHANGED <<kind, secret, ahead, dev, tasks>>
<1>1. ChunkIs(n, b)
    BY ChunkOfBuffer DEF ShellTyped
<1>2. IsList(buf.got) /\ IsList(arriving) /\ Taken(buf.got, arriving, n, b.got, arriving')
    BY <1>1 DEF ChunkIs, ShellTyped, BufferFits
<1>3. TakenIs(buf.got, arriving, n, b.got, arriving')
    BY <1>2, ChunkFacts
<1> QED
    BY <1>1, <1>3 DEF ChunkIs, TakenIs, Reads

\* What a prompt that was found says of the mode.
LEMMA FirstIn == ASSUME NEW S \in SUBSET Nat, S # {} PROVE FirstOf(S) \in S
<1>1. \E m \in S : \A k \in S : m <= k
    BY Smallest
<1> QED
    BY <1>1 DEF FirstOf

LEMMA CandidateSeen ==
    ASSUME NEW b, IsList(b.got), Candidates(b) # {}
    PROVE  b.got[FirstOf(Candidates(b))].is \in Union
<1>1. PICK c : c = Candidates(b)
    OBVIOUS
<1>2. c \in SUBSET DOMAIN b.got
    BY <1>1 DEF Candidates, LastTwo, Starts
<1>3. DOMAIN b.got \subseteq Nat
    <2>1. PICK n \in Nat : DOMAIN b.got = 1..n
        BY ListFacts
    <2> QED
        BY <2>1
<1>4. FirstOf(c) \in c
    BY <1>1, <1>2, <1>3, FirstIn
<1> QED
    BY <1>1, <1>4 DEF Candidates

LEMMA ModeSeen == ASSUME kind \in Kinds, NEW p, p.is \in Union PROVE ModeOf(p) \in Modes
<1>1. PICK q \in Seq(Modes) : q = plugin.decides
    BY RowModed
<1>2. PICK S : S = {i \in DOMAIN q : p.is \in plugin.sees[q[i]]}
    OBVIOUS
<1>3. S # {}
    BY <1>1, <1>2 DEF Union
<1>4. S \in SUBSET Nat
    BY <1>2
<1>5. FirstOf(S) \in DOMAIN q
    BY <1>2, <1>3, <1>4, FirstIn
<1>6. q[FirstOf(S)] \in Modes
    BY <1>5
<1> QED
    BY <1>1, <1>2, <1>6 DEF ModeOf

LEMMA DecidedTyped ==
    ASSUME kind \in Kinds, NEW s, SessionFits(kind, s), s.todo # <<>>, NEW p, p.is \in Union
    PROVE  SessionTyped(kind, Decided(s, p))
<1>1. SessionFits(kind, Decided(s, p))
    BY DecidedFits
<1>2. PICK q : q = Rest(s) /\ SessionFits(kind, q)
    BY RestFits
<1>3. PICK m, v : m = ModeOf(p) /\ v = IF plugin.vsys \in {"site", "vdom"} THEN p.v ELSE Own
    OBVIOUS
<1>4. Decided(s, p) = [q EXCEPT !.mode = m, !.vsys = v]
    BY <1>2, <1>3 DEF Decided
<1>5. Decided(s, p).mode = m
    BY <1>2, <1>4 DEF SessionFits
<1> QED
    BY <1>1, <1>3, <1>5, ModeSeen, ModeTyped

LEMMA ReadsUntilPromptTyped == ASSUME ShellTyped, ReadsUntilPrompt PROVE ShellTyped'
<1>1. /\ ses.wait \in {"drain", "decide", "reread", "line", "own"} /\ ses.wait # None
      /\ SessionTyped(kind, ses) /\ kind \in Kinds
    BY ModeNames DEF ReadsUntilPrompt, ShellTyped
<1>2. SessionFits(kind, ses) /\ ses.todo # <<>>
    BY <1>1 DEF SessionTyped, SessionFits
<1>3. ses.mode = None => \/ ses.wait = "drain" /\ Head(ses.todo).do = "drain"
                         \/ ses.wait \in {"decide", "reread"} /\ Head(ses.todo).do = "decide"
    BY <1>1 DEF SessionTyped, Begins, Deciding
<1>4. PICK n \in 1..Len(arriving) :
        LET b == Chunk(n)
            c == Candidates(b)
            p == b.got[FirstOf(c)]
        IN /\ Reads(n)
           /\ IF Hits(b, Union, b.flag) = {}
              THEN /\ buf' = IF plugin.moves THEN Advanced(Searched(b)) ELSE Searched(b)
                   /\ UNCHANGED <<ses, sent>>
              ELSE IF ses.wait \in {"drain", "line", "own"}
              THEN ses' = Rest(ses) /\ buf' = b /\ UNCHANGED sent
              ELSE IF c = {}
              THEN ses' = Failed(ses) /\ buf' = b /\ UNCHANGED sent
              ELSE IF ses.wait = "decide" /\ plugin.leaves = "level" /\ p.v \notin {Own, ses.vsys}
              THEN Write(<<"end">>) /\ Await("reread", "")
              ELSE ses' = Decided(ses, p) /\ buf' = b /\ UNCHANGED sent
    BY DEF ReadsUntilPrompt
<1>5. PICK b : b = Chunk(n)
    OBVIOUS
<1>6. PICK p : p = b.got[FirstOf(Candidates(b))]
    OBVIOUS
<1>7. /\ BufferFits(b) /\ IsList(arriving') /\ IsList(b.got)
      /\ UNCHANGED <<kind, secret, ahead, dev, tasks>>
    BY <1>4, <1>5, ChunkTyped
<1>8. CASE buf' \in {Advanced(Searched(b)), Searched(b)} /\ UNCHANGED ses
    <2>1. BufferFits(Searched(b))
        BY <1>7, SearchedFits DEF BufferKept
    <2>2. BufferFits(Advanced(Searched(b)))
        BY <2>1, AdvancedFits DEF BufferKept
    <2>3. BufferFits(buf') /\ SessionTyped(kind, ses')
        BY <1>1, <1>8, <2>1, <2>2
    <2> QED
        BY <1>7, <2>3, AgentStepTyped
<1>9. CASE ses.wait \in {"drain", "line", "own"} /\ ses' = Rest(ses) /\ buf' = b
    <2>1. ses.mode = None => Head(ses.todo).do = "drain"
        BY <1>3, <1>9
    <2>2. SessionTyped(kind, ses') /\ BufferFits(buf')
        BY <1>1, <1>2, <1>7, <1>9, <2>1, RestTyped
    <2> QED
        BY <1>7, <2>2, AgentStepTyped
<1>10. CASE ses' = Failed(ses) /\ buf' = b
    <2>1. SessionTyped(kind, ses') /\ BufferFits(buf')
        BY <1>1, <1>7, <1>10, FailedTyped
    <2> QED
        BY <1>7, <2>1, AgentStepTyped
<1>11. CASE ses.wait = "decide" /\ Await("reread", "")
    <2>1. ses' = Waits(ses, "reread") /\ BufferFits(buf')
        BY <1>11, NoBufferFits DEF Await, Waits
    <2>2. ses.mode = None => Head(ses.todo).do = "decide"
        BY <1>3, <1>11
    <2>3. SessionTyped(kind, ses')
        BY <1>1, <1>2, <2>1, <2>2, WaitsTyped, ModeNames
    <2> QED
        BY <1>7, <2>1, <2>3, AgentStepTyped
<1>12. CASE Candidates(b) # {} /\ ses' = Decided(ses, p) /\ buf' = b
    <2>1. p.is \in Union
        BY <1>6, <1>7, <1>12, CandidateSeen
    <2>2. SessionTyped(kind, ses') /\ BufferFits(buf')
        BY <1>1, <1>2, <1>7, <1>12, <2>1, DecidedTyped
    <2> QED
        BY <1>7, <2>2, AgentStepTyped
<1> QED
    BY <1>4, <1>5, <1>6, <1>8, <1>9, <1>10, <1>11, <1>12

LEMMA ReadsMoveTyped == ASSUME ShellTyped, ReadsMove PROVE ShellTyped'
<1>1. ses.wait = "moving" /\ ses.wait # None /\ SessionTyped(kind, ses) /\ kind \in Kinds
    BY ModeNames DEF ReadsMove, ShellTyped
<1>2. SessionFits(kind, ses) /\ ses.todo # <<>> /\ ses.mode \in Modes
    BY <1>1 DEF SessionTyped, SessionFits, Begins
<1>3. PICK m : m = Move(ses.mode, Now.is)
    OBVIOUS
<1>4. m.becomes \in Modes
    BY <1>3, ModeNames DEF Move
<1>5. PICK more : more = IF m.cmd = "enable" /\ plugin.policy = "login-only" THEN Paging(plugin)
                         ELSE IF m.becomes = CONFIG /\ plugin.width /\ ~ses.wide
                         THEN <<Step("line", "terminal width 0")>> ELSE <<>>
    OBVIOUS
<1>6. PICK n \in 1..Len(arriving) :
        LET b == Chunk(n)
            b1 == Searched(b)
            asked == {i \in b.from..Len(b.got) : b.got[i].t = "ask"}
        IN /\ Reads(n)
           /\ IF Hits(b, plugin.sees[m.becomes], b.flag) # {}
              THEN /\ ses' = [ses EXCEPT !.mode = m.becomes, !.wait = None, !.todo = more \o @,
                                         !.wide = @ \/ m.becomes = CONFIG]
                   /\ buf' = b /\ UNCHANGED sent
              ELSE IF Hits(b1, plugin.sees[m.fails], b1.flag) # {}
              THEN ses' = Failed(ses) /\ buf' = b /\ UNCHANGED sent
              ELSE IF m.cmd = "enable" /\ plugin.asks /\ asked # {}
              THEN /\ Write(<<secret>>)
                   /\ buf' = PastQuestion(b1) /\ UNCHANGED ses
              ELSE /\ buf' = IF m.cmd = "enable" /\ ~plugin.asks THEN b1 ELSE Advanced(b1)
                   /\ UNCHANGED <<ses, sent>>
    BY <1>3, <1>5 DEF ReadsMove
<1>7. PICK b, b1 : b = Chunk(n) /\ b1 = Searched(b)
    OBVIOUS
<1>8. /\ BufferFits(b) /\ IsList(arriving')
      /\ UNCHANGED <<kind, secret, ahead, dev, tasks>>
    BY <1>6, <1>7, ChunkTyped
<1>9. BufferFits(b1) /\ BufferFits(PastQuestion(b1)) /\ BufferFits(Advanced(b1))
    <2>1. BufferFits(b1)
        BY <1>7, <1>8, SearchedFits DEF BufferKept
    <2> QED
        BY <2>1, PastFits, AdvancedFits DEF BufferKept
<1>10. CASE Moved(ses', ses, m.becomes, more, m.becomes = CONFIG) /\ buf' = b
    <2>1. StepsFit(kind, more)
        BY <1>1, <1>5, PagingOfRow, StepsOfNone
    <2>2. SessionFits(kind, ses') /\ ses'.mode = m.becomes
        BY <1>2, <1>10, <2>1, MovedFits
    <2>3. SessionTyped(kind, ses') /\ BufferFits(buf')
        BY <1>4, <1>8, <1>10, <2>2, ModeTyped
    <2> QED
        BY <1>8, <2>3, AgentStepTyped
<1>11. CASE ses' = Failed(ses) /\ buf' = b
    <2>1. SessionTyped(kind, ses') /\ BufferFits(buf')
        BY <1>1, <1>8, <1>11, FailedTyped
    <2> QED
        BY <1>8, <2>1, AgentStepTyped
<1>12. CASE buf' \in {b1, PastQuestion(b1), Advanced(b1)} /\ UNCHANGED ses
    <2>1. SessionTyped(kind, ses') /\ BufferFits(buf')
        BY <1>1, <1>9, <1>12
    <2> QED
        BY <1>8, <2>1, AgentStepTyped
<1> QED
    BY <1>6, <1>7, <1>10, <1>11, <1>12 DEF Moved

-----------------------------------------------------------------------------
(* A task, the device, and all steps.                                      *)

LEMMA TakesTaskTyped == ASSUME ShellTyped, TakesTask PROVE ShellTyped'
<1>1. SessionFits(kind, ses) /\ kind \in Kinds /\ SessionTyped(kind, ses) /\ ses.begun
    BY DEF ShellTyped, SessionTyped, TakesTask
<1>2. ses.mode \in Modes
    BY <1>1 DEF SessionTyped, Begins
<1>3. SessionFits(kind, ses') /\ ses'.mode = ses.mode
    BY <1>1, TaskFits
<1>4. SessionTyped(kind, ses')
    BY <1>2, <1>3, ModeTyped
<1>5. tasks' \in 0..Bound' /\ UNCHANGED <<kind, secret, dev, arriving>>
    <2>1. PICK b \in Nat : b = Bound
        BY TasksAssumption DEF Bound
    <2>2. Bound' = b
        BY <2>1 DEF Bound, TakesTask
    <2>3. PICK t \in 0..b : t = tasks
        BY <2>1 DEF ShellTyped
    <2>4. t < b /\ tasks' = t + 1
        BY <2>1, <2>3 DEF TakesTask
    <2>5. t + 1 \in 0..b
        BY <2>4
    <2>6. UNCHANGED <<kind, secret, dev, arriving>>
        BY DEF TakesTask
    <2> QED
        BY <2>2, <2>4, <2>5, <2>6
<1>6. SessionTyped(kind, ses)'
    BY <1>4, <1>5 DEF SessionTyped, SessionFits, StepsFit, StepFits
<1>7. BufferFits(buf')
    BY NoBufferFits DEF TakesTask
<1> QED
    BY <1>5, <1>6, <1>7 DEF ShellTyped, DeviceFits, BufferFits

LEMMA ReceivesTyped == ASSUME ShellTyped, DeviceReceives PROVE ShellTyped'
<1>1. /\ UNCHANGED <<kind, secret, ahead, dev, tasks>> /\ ses' = ses /\ buf' = buf
      /\ arriving' = Append(arriving, Echo(Head(sent).is))
    BY DEF DeviceReceives
<1>2. SessionTyped(kind, ses') /\ BufferFits(buf') /\ IsList(arriving')
    BY <1>1, ListAppend DEF ShellTyped
<1> QED
    BY <1>1, <1>2, AgentStepTyped

LEMMA HandlesTyped == ASSUME ShellTyped, DeviceHandles PROVE ShellTyped'
<1>1. PICK c : c = Head(stdin).is
    OBVIOUS
<1>2. PICK a : a = [dev EXCEPT !.asked = FALSE, !.mode = IF c = "right" THEN ENABLE ELSE LOGIN]
    OBVIOUS
<1>3. PICK e : e = [dev EXCEPT !.asked = TRUE]
    OBVIOUS
<1>4. /\ dev' = IF dev.asked THEN a
                ELSE IF device.asks /\ dev.mode = LOGIN /\ c = "enable" THEN e
                ELSE Executed(dev, c)
      /\ arriving' = arriving \o
           CASE dev'.mode = Gone -> <<>>
             [] dev'.asked -> <<Question>>
             [] OTHER -> <<Output(IF dev.asked /\ c = "right" THEN "" ELSE c), Shown(dev')>>
    BY <1>1, <1>2, <1>3 DEF DeviceHandles
<1>5. DeviceFits(dev) /\ dev.mode \in Modes \cup {Gone} /\ kind \in Kinds
    BY DEF ShellTyped
<1>6. DeviceFits(a) /\ a.mode \in Modes
    <2>1. PICK m \in Modes : m = IF c = "right" THEN ENABLE ELSE LOGIN
        BY ModeNames
    <2>2. PICK f \in BOOLEAN : f = FALSE
        BY Zenon
    <2>3. a = [mode |-> m, vsys |-> dev.vsys, open |-> dev.open, asked |-> f]
        BY <1>2, <1>5, <2>1, <2>2 DEF DeviceFits
    <2> QED
        BY <2>3 DEF DeviceFits
<1>7. DeviceFits(e) /\ e.mode = dev.mode
    <2>1. PICK f \in BOOLEAN : f = TRUE
        BY Zenon
    <2>2. e = [mode |-> dev.mode, vsys |-> dev.vsys, open |-> dev.open, asked |-> f]
        BY <1>3, <1>5, <2>1 DEF DeviceFits
    <2> QED
        BY <2>2 DEF DeviceFits
<1>8. DeviceFits(Executed(dev, c)) /\ Executed(dev, c).mode \in Modes \cup {Gone}
    BY <1>5, ExecutedFits, ExecutedMode DEF DeviceKept
<1>9. DeviceFits(dev') /\ dev'.mode \in Modes \cup {Gone}
    BY <1>4, <1>5, <1>6, <1>7, <1>8
<1>10. IsList(arriving')
    <2>1. PICK x, y, z : /\ x = <<Question>> /\ z = dev'
                         /\ y = <<Output(IF dev.asked /\ c = "right" THEN "" ELSE c), Shown(dev')>>
        OBVIOUS
    <2>2. PICK r : r = CASE z.mode = Gone -> <<>> [] z.asked -> x [] OTHER -> y
        OBVIOUS
    <2>3. arriving' = arriving \o r
        BY <1>4, <2>1, <2>2
    <2>4. IsList(x) /\ IsList(y)
        <3>1. PICK v, w : y = <<v, w>>
            BY <2>1
        <3>2. <<v, w>> \in Seq({v, w})
            OBVIOUS
        <3> QED
            BY <2>1, <3>1, <3>2, ListOne DEF IsList
    <2>5. r \in {<<>>, x, y}
        <3>1. CASE z.mode = Gone /\ z.asked
            BY <2>2, <3>1
        <3>2. CASE z.mode = Gone /\ ~z.asked
            BY <2>2, <3>2
        <3>3. CASE z.mode # Gone /\ z.asked
            BY <2>2, <3>3
        <3>4. CASE z.mode # Gone /\ ~z.asked
            BY <2>2, <3>4
        <3> QED
            BY <3>1, <3>2, <3>3, <3>4
    <2>6. IsList(r) /\ IsList(arriving)
        BY <2>4, <2>5, ListEmpty DEF ShellTyped
    <2> QED
        BY <2>3, <2>6, ListConcat
<1>11. UNCHANGED <<kind, secret, ahead, ses, buf, tasks>>
    BY DEF DeviceHandles
<1>12. Bound' = Bound
    BY <1>11 DEF Bound
<1>13. SessionTyped(kind, ses)'
    BY <1>11 DEF ShellTyped, SessionTyped, SessionFits, StepsFit, StepFits
<1> QED
    BY <1>9, <1>10, <1>11, <1>12, <1>13 DEF ShellTyped, DeviceFits, BufferFits

LEMMA ListBegun ==
    ASSUME NEW y, NEW t, IsList(t), NEW q, q = <<y>> \o t
    PROVE  q # <<>> /\ Head(q) = y /\ Tail(q) = t
<1>1. /\ IsList(<<y>>) /\ Len(<<y>>) = 1 /\ <<y>>[1] = y
    BY ListOne
<1>2. PICK n \in Nat : n = Len(t)
    BY ListFacts
<1>3. PICK r : r = <<y>> /\ IsList(r) /\ Len(r) = 1 /\ r[1] = y
    BY <1>1
<1>4. IsList(q) /\ Len(q) = 1 + n /\ \A i \in 1..1 + n : q[i] = IF i <= 1 THEN r[i] ELSE t[i - 1]
    BY <1>2, <1>3, ListConcat
<1>5. q # <<>>
    BY <1>4, ListFacts
<1>6. IsList(Tail(q)) /\ Len(Tail(q)) = n /\ Head(q) = y /\ \A i \in 1..n : Tail(q)[i] = q[i + 1]
    <2>1. IsList(Tail(q)) /\ Shorter(Tail(q), q) /\ Head(q) = q[1]
        BY <1>4, <1>5, ListTail
    <2>2. Len(Tail(q)) = n
        BY <1>4, <2>1 DEF Shorter
    <2> QED
        BY <1>3, <1>4, <2>1, <2>2 DEF Shorter
<1>7. \A i \in 1..n : Tail(q)[i] = t[i]
    <2>1. \A i \in 1..n : i + 1 \in 1..1 + n /\ ~(i + 1 <= 1) /\ (i + 1) - 1 = i
        OBVIOUS
    <2> QED
        BY <1>4, <1>6, <2>1
<1> QED
    BY <1>2, <1>5, <1>6, <1>7, ListSame

LEMMA TypedBegins == ASSUME ShellInit PROVE ShellTyped
<1>1. kind \in Kinds /\ secret \in Passwords
    BY DEF ShellInit
<1>2. tasks \in 0..Bound
    BY TasksAssumption DEF ShellInit, Bound
<1>3. DeviceFits(dev) /\ dev.mode \in Modes
    <2>1. PICK m \in Modes : m = device.start
        BY <1>1, RowModed
    <2>2. PICK f \in BOOLEAN : f = FALSE
        BY Zenon
    <2>3. dev = [mode |-> m, vsys |-> Own, open |-> <<>>, asked |-> f]
        BY <2>1, <2>2 DEF ShellInit
    <2> QED
        BY <2>3 DEF DeviceFits
<1>4. PICK q : q = Beginning(plugin)
    OBVIOUS
<1>5. ses = [mode |-> None, vsys |-> Own, todo |-> q, wait |-> None, task |-> NotAsked,
             begun |-> FALSE, up |-> TRUE, wide |-> FALSE]
    BY <1>4 DEF ShellInit
<1>6. SessionFits(kind, ses)
    <2>1. StepsFit(kind, q)
        BY <1>1, <1>4, BeginningFits
    <2> QED
        BY <1>5, <2>1 DEF SessionFits
<1>7. Begins(ses)
    <2>1. PICK x, y : x = Step("decide", "") /\ y = Step("drain", "")
        OBVIOUS
    <2>2. x.do = "decide" /\ y.do = "drain"
        BY <2>1 DEF Step
    <2>3. PICK r : r = Paging(plugin) /\ IsList(r)
        BY <1>1, PagingOfRow DEF StepsFit
    <2>4. IsList(<<x>>) /\ IsList(<<y>>) /\ <<x>> # <<>> /\ <<y>> # <<>>
        BY ListOne
    <2>5. PICK t : t = <<x>> \o r
        OBVIOUS
    <2>6. IsList(t) /\ t # <<>> /\ Head(t) = x
        <3>1. IsList(<<x>> \o r) /\ <<x>> \o r # <<>> /\ (<<x>> \o r)[1] = Head(<<x>>)
            BY <2>3, <2>4, LinesExecuted
        <3>2. Head(<<x>>) = x
            OBVIOUS
        <3> QED
            BY <2>5, <3>1, <3>2, ListTail
    <2>7. CASE ~plugin.drains
        <3>1. q = (<<>> \o <<x>>) \o r
            BY <1>4, <2>1, <2>3, <2>7 DEF Beginning
        <3>2. <<>> \o <<x>> = <<x>>
            OBVIOUS
        <3>3. q = t
            BY <2>5, <3>1, <3>2
        <3> QED
            BY <1>5, <2>2, <2>6, <3>3, Zenon DEF Begins, Deciding
    <2>8. CASE plugin.drains
        <3>1. q = (<<y>> \o <<x>>) \o r
            BY <1>4, <2>1, <2>3, <2>8 DEF Beginning
        <3>2. <<y>> \o (<<x>> \o r) = (<<y>> \o <<x>>) \o r
            BY <2>3, <2>4, ListAssociative
        <3>3. q = <<y>> \o t
            BY <2>5, <3>1, <3>2
        <3>4. q # <<>> /\ Head(q) = y /\ Tail(q) = t
            BY <2>4, <2>6, <3>3, ListBegun
        <3> QED
            BY <1>5, <2>2, <2>6, <3>4 DEF Begins, Deciding
    <2> QED
        BY <2>7, <2>8
<1>8. SessionTyped(kind, ses)
    BY <1>5, <1>6, <1>7 DEF SessionTyped
<1>9. IsList(arriving) /\ BufferFits(buf)
    <2>1. PICK x, y : arriving = <<x, y>>
        BY DEF ShellInit
    <2>2. <<x, y>> \in Seq({x, y})
        OBVIOUS
    <2> QED
        BY <2>1, <2>2, NoBufferFits DEF ShellInit, IsList
<1> QED
    BY <1>1, <1>2, <1>3, <1>8, <1>9 DEF ShellTyped

LEMMA TypedSteps == ASSUME ShellTyped, [ShellNext]_shellVars PROVE ShellTyped'
<1>1. CASE ShellNext
    BY <1>1, ReceivesTyped, HandlesTyped, DrainsTyped, DecidesTyped, SwitchesVsysTyped, BelievesTyped,
       SwitchesModeTyped, MovesTyped, WritesLineTyped, FinishesTyped, GivesUpTyped,
       ReadsUntilPromptTyped, ReadsMoveTyped, ReadsEofTyped, TakesTaskTyped DEF ShellNext
<1>2. CASE UNCHANGED shellVars
    <2>1. /\ UNCHANGED <<kind, secret, ahead, dev, tasks>>
          /\ SessionTyped(kind, ses') /\ BufferFits(buf') /\ IsList(arriving')
        BY <1>2 DEF shellVars, ShellTyped
    <2> QED
        BY <2>1, AgentStepTyped
<1> QED
    BY <1>1, <1>2

LEMMA TypedMeans == ASSUME ShellTyped PROVE ShellTypeOK
<1>1. ses.begun => ses.mode # None
    BY DEF ShellTyped, SessionTyped, Begins
<1> QED
    BY <1>1 DEF ShellTyped, ShellTypeOK, DeviceFits, SessionTyped, SessionFits, BufferFits

\* The modes a device is in and a session believes in are modes, a session that has begun
\* has read a prompt, and a read position stays within the buffer, for any rows of Pairs,
\* any tasks and chunks, and timeouts at any time (Session.connect, decide_current_mode,
\* ReadBuffer).
THEOREM ShellTypes == ShellSpec => []ShellTypeOK
<1>1. ShellInit => ShellTyped
    BY TypedBegins
<1>2. ShellTyped /\ [ShellNext]_shellVars => ShellTyped'
    BY TypedSteps
<1>3. ShellTyped => ShellTypeOK
    BY TypedMeans
<1> QED
    BY <1>1, <1>2, <1>3, PTL DEF ShellSpec
=============================================================================
