----------------------------- MODULE SerialDevice -----------------------------
(***************************************************************************)
(* What the transport of howdy/src/webauthn/ctaphid.py promises its host   *)
(* and the authenticator: requests that are served one after the other,    *)
(* each with one face check at most, and answered once.  CtapHid implements *)
(* it with a reader, a worker and a keepalive thread per request, flags    *)
(* that all requests share, and two locks.                                 *)
(***************************************************************************)

CONSTANTS Request,   \* all the CBOR requests that are ever accepted
          Verdict    \* the results of a face check

VARIABLES stage,     \* stage[r]: how far r is
          check,     \* check[r]: its face check has not begun, runs or is over
          result,    \* result[r]: what the check returned
          asked,     \* asked[r]: whether CANCEL and INIT came for r
          due        \* due[r]: a keepalive of r is about to be sent
dvars == <<stage, check, result, asked, due>>

DInit ==
  /\ stage = [r \in Request |-> "new"]
  /\ check = [r \in Request |-> "no"]
  /\ result = [r \in Request |-> "ABORT"]
  /\ asked = [r \in Request |-> {}]
  /\ due = [r \in Request |-> FALSE]

StageTo(r, label) == stage' = [stage EXCEPT ![r] = label]
Owns(r) == stage[r] \in {"running", "returned"}

(* The device takes one request at a time. *)
DAccept(r) ==
  /\ stage[r] = "new"
  /\ \A s \in Request : ~Owns(s)
  /\ StageTo(r, "running")
  /\ UNCHANGED <<check, result, asked, due>>

(* Its check begins, or compare.py cannot be started; that another request *)
(* is being checked is never the reason.                                   *)
DStartCheck(r) ==
  /\ stage[r] = "running" /\ check[r] = "no"
  /\ \/ check' = [check EXCEPT ![r] = "running"] /\ UNCHANGED result
     \/ /\ check' = [check EXCEPT ![r] = "over"]
        /\ result' = [result EXCEPT ![r] = "UNKNOWN_ERROR"]
  /\ UNCHANGED <<stage, asked, due>>

(* Only a host that asked for it has a check cancelled.                    *)
DEndCheck(r) ==
  /\ stage[r] = "running" /\ check[r] = "running"
  /\ check' = [check EXCEPT ![r] = "over"]
  /\ \E v \in Verdict :
       /\ v = "CANCELLED" => asked[r] # {}
       /\ result' = [result EXCEPT ![r] = v]
  /\ UNCHANGED <<stage, asked, due>>

DAsk(r, why) ==
  /\ Owns(r)
  /\ asked' = [asked EXCEPT ![r] = @ \cup {why}]
  /\ UNCHANGED <<stage, check, result, due>>

(* The authenticator has handled the request.                              *)
DReturn(r) ==
  /\ stage[r] = "running" /\ check[r] # "running"
  /\ StageTo(r, "returned")
  /\ UNCHANGED <<check, result, asked, due>>

DKeepalive(r) ==
  /\ due[r] \/ stage[r] = "running"
  /\ due' = [due EXCEPT ![r] = ~@]
  /\ UNCHANGED <<stage, check, result, asked>>

(* The device is free again.  The response is owed when no keepalive can   *)
(* follow it; it is dropped when the host has re-synchronised.             *)
DRelease(r) ==
  /\ stage[r] = "returned" /\ ~due[r]
  /\ \/ StageTo(r, "owing")
     \/ "init" \in asked[r] /\ StageTo(r, "dropped")
  /\ UNCHANGED <<check, result, asked, due>>

DAnswer(r) ==
  /\ stage[r] = "owing"
  /\ StageTo(r, "answered")
  /\ UNCHANGED <<check, result, asked, due>>

DNext ==
  \E r \in Request :
    \/ DAccept(r) \/ DStartCheck(r) \/ DEndCheck(r) \/ DReturn(r)
    \/ DKeepalive(r) \/ DRelease(r) \/ DAnswer(r)
    \/ \E why \in {"cancel", "init"} : DAsk(r, why)

DSpec == DInit /\ [][DNext]_dvars
=============================================================================
