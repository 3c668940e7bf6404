------------------------------- MODULE FaceCheck -------------------------------
(***************************************************************************)
(* What a verifier of howdy/src/verification.py promises the service that  *)
(* calls verify() and cancel(), whichever of the two looks at the face:    *)
(* one check at a time, which fails when a cancel() came while it ran, and *)
(* says CANCELLED only then.  FaceVerifier implements it with a child      *)
(* process, OnnxVerifier with a loop in the calling thread.                *)
(***************************************************************************)

CONSTANTS Call,      \* the calls of verify()
          Answer     \* what it can return

VARIABLES stage,     \* stage[c]: the check of c is idle, running or over
          answer,    \* answer[c]: what it returned, or "none"
          hits       \* the calls during which a cancel() came
fvars == <<stage, answer, hits>>

FInit ==
  /\ stage = [c \in Call |-> "idle"]
  /\ answer = [c \in Call |-> "none"]
  /\ hits = {}

OverWith(c, a) ==
  /\ stage' = [stage EXCEPT ![c] = "over"]
  /\ answer' = [answer EXCEPT ![c] = a]

(* What was cancelled before is forgotten.                                 *)
FBegin(c) ==
  /\ \A d \in Call : stage[d] # "running"
  /\ stage' = [stage EXCEPT ![c] = "running"]
  /\ answer' = [answer EXCEPT ![c] = "none"]
  /\ hits' = hits \ {c}

(* Another check is running, or this one cannot be started.                *)
FRefuse(c) ==
  /\ stage[c] = "idle"
  /\ IF \E d \in Call : stage[d] = "running" THEN OverWith(c, "ABORT")
                                             ELSE OverWith(c, "UNKNOWN_ERROR")
  /\ UNCHANGED hits

FCancel ==
  /\ hits' = hits \cup {c \in Call : stage[c] = "running"}
  /\ UNCHANGED <<stage, answer>>

FEnd(c) ==
  /\ stage[c] = "running"
  /\ \E a \in Answer :
       /\ c \in hits => a \in {"CANCELLED", "UNKNOWN_ERROR"}
       /\ a = "CANCELLED" => c \in hits
       /\ OverWith(c, a)
  /\ UNCHANGED hits

FNext == FCancel \/ \E c \in Call : FBegin(c) \/ FRefuse(c) \/ FEnd(c)

FSpec == FInit /\ [][FNext]_fvars
=============================================================================
