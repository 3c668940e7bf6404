------------------------------ MODULE Commands ------------------------------
(***************************************************************************)
(* What an administrator of a machine runs (cli.py): the commands around   *)
(* the face models, with howdy-gtk, or those around the authenticator,     *)
(* with its service.  The two share no state, and a behaviour is of one of *)
(* them.                                                                   *)
(***************************************************************************)
EXTENDS Service, HowdyGtk

VARIABLE area    \* "none", "models" or "webauthn"

Init ==
  /\ ServiceInit /\ GtkInit
  /\ area = "none"

ChooseCommand ==
  /\ area = "none"
  /\ area' \in {"models", "webauthn"}
  /\ UNCHANGED <<allVars, gtkVars>>

Next ==
  \/ ChooseCommand
  \/ area = "webauthn" /\ ServiceNext /\ UNCHANGED <<gtkVars, area>>
  \/ area = "models" /\ GtkNext /\ UNCHANGED <<allVars, area>>

Spec == Init /\ [][Next]_<<allVars, gtkVars, area>> /\ ServiceFairness

TypeOK ==
  /\ ServiceTypeOK /\ GtkTypeOK
  /\ area \in {"none", "models", "webauthn"}
=============================================================================
