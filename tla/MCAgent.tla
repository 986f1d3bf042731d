------------------------------ MODULE MCAgent ------------------------------
(***************************************************************************)
(* What the agent does with a device for TLC: the session on the device's  *)
(* shell (DeviceShell, all vendors) and the parsing of what a command      *)
(* printed (TextFsm).  They share no state, so one behaviour runs one of   *)
(* them, whose turn it is, while the other stays in an initial state.      *)
(***************************************************************************)
EXTENDS DeviceShell, MCTextFsm

VARIABLE turn   \* the component this behaviour runs

ShellRests == kind = "arista" /\ secret = "right" /\ ahead = FALSE /\ ShellInit
FsmRests == text = <<>> /\ template = (CHOOSE t \in Templates : TRUE) /\ FsmInit

AgentInit == \/ turn = "shell" /\ FsmRests /\ ShellInit
             \/ turn = "fsm" /\ ShellRests /\ FsmInit
AgentNext == \/ turn = "shell" /\ ShellNext /\ UNCHANGED <<turn, fsmVars>>
             \/ turn = "fsm" /\ FsmNext /\ UNCHANGED <<turn, shellVars>>
AgentSpec == AgentInit /\ [][AgentNext]_<<turn, shellVars, fsmVars>>

\* The types of both.
AgentTypeOK == ShellTypeOK /\ FsmTypeOK
=============================================================================
