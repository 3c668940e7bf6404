----------------------------- MODULE CtapHidHost -----------------------------
(***************************************************************************)
(* What the host remembers about the transport of CtapHid: which requests  *)
(* its INIT has wiped out, and which its CANCEL should have stopped.       *)
(***************************************************************************)
EXTENDS CtapHid

VARIABLES
  resynced,  \* requests older than an INIT response on their channel
  stopped    \* requests that were active when the authenticator.cancel() they
             \* brought about was called
hostVars == <<vars, resynced, stopped>>

HostInit == Init /\ resynced = {} /\ stopped = {}

(* The reader has just sent the INIT response of a re-sync. *)
ResyncAnswered == reader = "initReply" /\ reader' = "idle" /\ readerChan # NoChan

(* The reader has just called authenticator.cancel(). *)
StopCalled == reader \in {"cancel", "cancelThenInit"} /\ reader' # reader

HostNext ==
  /\ Next
  /\ resynced' = resynced \cup
       IF ResyncAnswered THEN {r \in Request : chanOf[r] = readerChan} ELSE {}
  /\ stopped' = stopped \cup
       IF StopCalled THEN ActiveOn(readerChan) ELSE {}

HostSpec == HostInit /\ [][HostNext]_hostVars

-----------------------------------------------------------------------------
(* "The INIT response was already sent, so drop this transaction's stale   *)
(* reply": after the INIT response on a channel no response to an older    *)
(* request is sent on it.                                                  *)
NoStaleResponse ==
  [][ \A r \in resynced : answers'[r] = answers[r] ]_hostVars

(* "CANCEL (aborts an in-flight face verification)": once                  *)
(* authenticator.cancel() was called on behalf of the active request, that *)
(* request is not waiting for a child that nobody told to stop.            *)
CancelStopsTheCheck ==
  \A r \in stopped : verifying[r] = "waiting" => child[r] # "running"
=============================================================================
