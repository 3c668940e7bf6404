------------------------------ MODULE MCWebauthn -----------------------------
(***************************************************************************)
(* Two layers of the security key in one run: the reports that make up a   *)
(* request, and the ceremonies that answer it.  They meet in a request     *)
(* that arrives in one piece, which is how each of them sees the other,    *)
(* and share no state: a behaviour is of one of them.                      *)
(***************************************************************************)
EXTENDS MCAuthenticator, CtapFraming

VARIABLE layer    \* "none", "reports" or "ceremonies"

WebauthnInit == Init /\ FramingInit /\ layer = "none"

ChooseLayer ==
  /\ layer = "none"
  /\ layer' \in {"reports", "ceremonies"}
  /\ UNCHANGED <<vars, framingVars>>

WebauthnNext ==
  \/ ChooseLayer
  \/ layer = "ceremonies" /\ Next /\ UNCHANGED <<framingVars, layer>>
  \/ layer = "reports" /\ FramingNext /\ UNCHANGED <<vars, layer>>

WebauthnSpec == WebauthnInit /\ [][WebauthnNext]_<<vars, framingVars, layer>>
=============================================================================
