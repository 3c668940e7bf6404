------------------------------ MODULE MCMachine ------------------------------
(***************************************************************************)
(* Two uses of one machine in one run: a login through the PAM module, and *)
(* the commands of an administrator.  They share no state that either of   *)
(* them changes: a behaviour is of one of them.                            *)
(***************************************************************************)
EXTENDS Commands, MCPamIdentify

VARIABLE program    \* "login" or "commands"

machineVars == <<allVars, gtkVars, area, loginVars, program>>

(* Of the configurations of a login the commands need only one.            *)
MachineInit ==
  /\ Init /\ LoginInit
  /\ \/ program = "login"
     \/ program = "commands" /\ rules = <<>> /\ workaround = "off" /\ ~askToken

MachineNext ==
  \/ program = "login" /\ LoginNext /\ UNCHANGED <<allVars, gtkVars, area, program>>
  \/ program = "commands" /\ Next /\ UNCHANGED <<loginVars, program>>

(* The fairness of each, of a behaviour that is its own.                   *)
MachineFairness ==
  /\ ServiceFairness
  /\ WF_loginVars(program = "login" /\ Identify)
  /\ WF_loginVars(program = "login" /\ ChildTask)
  /\ WF_loginVars(program = "login" /\ PassNotifies)
  /\ WF_loginVars(program = "login" /\ SignalArrives)

MachineSpec == MachineInit /\ [][MachineNext]_machineVars /\ MachineFairness
=============================================================================
