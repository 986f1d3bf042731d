------------------------------ MODULE Vendors ------------------------------
(***************************************************************************)
(* The vendor plugins of the agent and the command handlers of the         *)
(* simulated devices (simunet), as tables.  A plugin says which commands   *)
(* move a session between modes and which prompts its patterns match; a    *)
(* handler says which commands the device obeys and which prompt it shows. *)
(*                                                                         *)
(* A prompt is its shape: "host#" is the host name followed by #, "vs$" a  *)
(* virtual site of an Array, "host(v)#" a FortiGate inside a configuration *)
(* level.  Commands keep the text the code sends.                          *)
(***************************************************************************)
EXTENDS Naturals, Sequences, SequencesExt

LOGIN  == "login"
ENABLE == "enable"
CONFIG == "config"
Modes  == {LOGIN, ENABLE, CONFIG}
Gone   == "gone"                \* the device closed the connection
Own    == "default"             \* the vsys a session starts in

(***************************************************************************)
(* Plugins.  decides: the modes in the order a prompt is tried against     *)
(* them; sees[m]: the shapes the pattern of mode m matches; leaves: when   *)
(* the exit command is written before a prompt is asked for; drains: the   *)
(* plugin reads up to a prompt before anything is written; moves: the      *)
(* read position advances over lines already searched (a more pattern).    *)
(***************************************************************************)
BasePlugin ==
  [decides |-> <<CONFIG, ENABLE, LOGIN>>, config |-> "configure terminal", exit |-> "exit",
   paging |-> <<"terminal length 0">>, pagingIn |-> ENABLE, leaves |-> "never",
   drains |-> FALSE, moves |-> TRUE, asks |-> FALSE, vsys |-> "none", policy |-> "any",
   width |-> FALSE, sees |-> [m \in Modes |-> {}]]

Sees(login, enable, config) ==
  [m \in Modes |-> CASE m = LOGIN -> login [] m = ENABLE -> enable [] m = CONFIG -> config]

\* The shapes of the IOS family: the enable pattern matches a config prompt as well.
IosSees == Sees({"host>"}, {"host#", "host(config)#"}, {"host(config)#"})

Arista    == [BasePlugin EXCEPT !.sees = IosSees, !.asks = TRUE]
ChaiTin   == [BasePlugin EXCEPT !.sees = IosSees, !.asks = TRUE, !.moves = FALSE]
MaiPu     == [BasePlugin EXCEPT !.sees = IosSees, !.asks = TRUE, !.moves = FALSE,
                                !.paging = <<"more off">>]
Venustech == [BasePlugin EXCEPT !.sees = IosSees, !.asks = TRUE, !.paging = <<>>]
Cisco     == [BasePlugin EXCEPT !.sees = IosSees, !.asks = TRUE, !.pagingIn = LOGIN,
                                !.policy = "login-only"]
CiscoASA  == [Cisco EXCEPT !.paging = <<"terminal pager 0">>, !.width = TRUE]
ArrayBase ==
  [BasePlugin EXCEPT !.asks = TRUE, !.paging = <<"no page">>,
     !.sees = Sees({"host>"}, {"host#", "host(config)#", "vs$", "vs(config)$"},
                   {"host(config)#", "vs(config)$"})]
ArrayAG   == [ArrayBase EXCEPT !.vsys = "site"]

\* Plugins without a login mode.
NoLogin == [BasePlugin EXCEPT !.decides = <<CONFIG, ENABLE>>]
Brackets == Sees({}, {"<host>"}, {"[host]"})
AtHost   == Sees({}, {"u@host>"}, {"u@host#"})

Huawei    == [NoLogin EXCEPT !.sees = Brackets, !.config = "system-view", !.exit = "return",
                !.paging = <<"screen-length 0 temporary">>, !.leaves = "always", !.drains = TRUE]
HuaweiUSG == [Huawei EXCEPT !.vsys = "usg"]
H3C       == [NoLogin EXCEPT !.sees = Brackets, !.config = "system-view", !.exit = "return",
                !.paging = <<"screen-length disable">>, !.leaves = "config", !.drains = TRUE]
Dptech    == [NoLogin EXCEPT !.sees = Brackets, !.config = "conf-mode", !.exit = "end",
                !.paging = <<"language-mode chinese", "terminal line 0">>]
Hillstone == [NoLogin EXCEPT !.sees = Sees({}, {"host#", "host(config)#"}, {"host(config)#"}),
                !.config = "configure", !.exit = "end", !.leaves = "config"]
Juniper   == [NoLogin EXCEPT !.sees = AtHost, !.config = "configure private", !.paging = <<>>]
Paloalto  == [NoLogin EXCEPT !.sees = AtHost, !.config = "configure",
                !.paging = <<"set cli pager off">>]
QiAnXin   == [NoLogin EXCEPT !.sees = Sees({}, {"host>"}, {"host-config]"}),
                !.config = "config terminal", !.exit = "end", !.leaves = "config",
                !.paging = <<>>]

\* Plugins with the enable mode only.
EnableOnly == [BasePlugin EXCEPT !.decides = <<ENABLE>>]
CheckPoint == [EnableOnly EXCEPT !.sees = Sees({}, {"host>"}, {}),
                 !.paging = <<"set clienv rows 0">>]
TopSec     == [EnableOnly EXCEPT !.sees = Sees({}, {"host#"}, {}), !.paging = <<>>]
Fortinet   == [EnableOnly EXCEPT !.sees = Sees({}, {"host#", "host(v)#"}, {}), !.leaves = "level",
                 !.paging = <<"config system console", "set output standard", "end">>]
FortiGate  == [Fortinet EXCEPT !.vsys = "vdom",
                 !.paging = <<"config global">> \o Fortinet.paging \o <<"end">>]

(***************************************************************************)
(* Handlers.  obeys: <<mode, command, mode after>>; shows[m]: the prompt   *)
(* of mode m.  Gone as the mode after: the handler raises ClientExit.      *)
(***************************************************************************)
Shows(login, enable, config) ==
  [m \in Modes |-> CASE m = LOGIN -> login [] m = ENABLE -> enable [] m = CONFIG -> config]
IosShows == Shows("host>", "host#", "host(config)#")

AristaEOS ==
  [start |-> ENABLE, shows |-> IosShows, asks |-> FALSE, levels |-> "none",
   obeys |-> {<<LOGIN, "exit", Gone>>, <<LOGIN, "enable", ENABLE>>, <<ENABLE, "exit", Gone>>,
              <<ENABLE, "configure terminal", CONFIG>>, <<ENABLE, "disable", LOGIN>>,
              <<CONFIG, "exit", ENABLE>>, <<CONFIG, "end", ENABLE>>, <<CONFIG, "disable", LOGIN>>}]
ChaitinCTDSG == [AristaEOS EXCEPT !.start = LOGIN]
MaipuNSS     == [AristaEOS EXCEPT !.start = LOGIN]
VenustechUSG == [AristaEOS EXCEPT !.start = LOGIN]
ASA ==
  [AristaEOS EXCEPT !.start = LOGIN, !.asks = TRUE,
     !.obeys = @ \cup {<<LOGIN, "quit", Gone>>, <<ENABLE, "quit", Gone>>, <<CONFIG, "quit", ENABLE>>}]
Nexus ==
  [AristaEOS EXCEPT !.obeys = {r \in @ : r[1] # LOGIN /\ r[2] # "disable"}]
AG ==
  [AristaEOS EXCEPT !.start = LOGIN, !.asks = TRUE, !.levels = "site",
     !.obeys = {r \in @ : r[2] # "end"}]

\* A handler with the enable and config modes and the commands between them.
TwoMode(shows, config, leave, quit) ==
  [start |-> ENABLE, shows |-> shows, asks |-> FALSE, levels |-> "none",
   obeys |-> {<<ENABLE, config, CONFIG>>} \cup {<<CONFIG, c, ENABLE>> : c \in leave}
               \cup {<<ENABLE, c, Gone>> : c \in quit}]
BracketShows == Shows("", "<host>", "[host]")
AtHostShows  == Shows("", "u@host>", "u@host#")

HuaweiCE    == TwoMode(BracketShows, "system-view", {"quit", "return"}, {"quit"})
SecPath     == TwoMode(BracketShows, "system-view", {"quit", "return"}, {"quit", "exit"})
VSR         == TwoMode(BracketShows, "system-view", {"quit", "return"}, {"quit", "exit"})
FW1000      == LET h == TwoMode(BracketShows, "conf-mode", {"end"}, {"exit"})
               IN [h EXCEPT !.obeys = @ \cup {<<ENABLE, "end", ENABLE>>}]
SG6000      == TwoMode(IosShows, "configure", {"exit", "end"}, {"exit"})
JuniperEX   == TwoMode(AtHostShows, "configure private", {"exit"}, {"exit"})
JuniperSRX  == TwoMode(AtHostShows, "configure private", {"exit"}, {"exit"})
PaloaltoPA  == TwoMode(AtHostShows, "configure", {"exit"}, {"exit"})
NSG         == LET h == TwoMode(Shows("", "host>", "host-config]"), "config terminal",
                                {"exit", "end"}, {"exit", "quit"})
               IN [h EXCEPT !.obeys = @ \cup {<<CONFIG, "quit", Gone>>}]
USG         == [TwoMode(BracketShows, "system-view", {"quit"}, {"quit"}) EXCEPT !.levels = "usg"]
Gaia        == [start |-> ENABLE, shows |-> Shows("", "host>", ""), asks |-> FALSE,
                levels |-> "none", obeys |-> {<<ENABLE, "exit", Gone>>}]
NGFW        == [Gaia EXCEPT !.shows = Shows("", "host#", "")]
FortiGateNG == [Gaia EXCEPT !.shows = Shows("", "host#", ""), !.levels = "vdom"]

(***************************************************************************)
(* Each handler with the plugin that PluginEngine.get_plugin finds for the *)
(* vendor and the model it answers to.                                     *)
(***************************************************************************)
Pairs ==
  [arista |-> [plugin |-> Arista, device |-> AristaEOS],
   chaitin |-> [plugin |-> ChaiTin, device |-> ChaitinCTDSG],
   maipu |-> [plugin |-> MaiPu, device |-> MaipuNSS],
   venustech |-> [plugin |-> Venustech, device |-> VenustechUSG],
   asa |-> [plugin |-> CiscoASA, device |-> ASA],
   nexus |-> [plugin |-> Cisco, device |-> Nexus],
   array |-> [plugin |-> ArrayAG, device |-> AG],
   ce |-> [plugin |-> Huawei, device |-> HuaweiCE],
   usg |-> [plugin |-> HuaweiUSG, device |-> USG],
   secpath |-> [plugin |-> H3C, device |-> SecPath],
   vsr |-> [plugin |-> H3C, device |-> VSR],
   dptech |-> [plugin |-> Dptech, device |-> FW1000],
   hillstone |-> [plugin |-> Hillstone, device |-> SG6000],
   juniperex |-> [plugin |-> Juniper, device |-> JuniperEX],
   junipersrx |-> [plugin |-> Juniper, device |-> JuniperSRX],
   paloalto |-> [plugin |-> Paloalto, device |-> PaloaltoPA],
   qianxin |-> [plugin |-> QiAnXin, device |-> NSG],
   checkpoint |-> [plugin |-> CheckPoint, device |-> Gaia],
   topsec |-> [plugin |-> TopSec, device |-> NGFW],
   fortigate |-> [plugin |-> FortiGate, device |-> FortiGateNG]]
=============================================================================
