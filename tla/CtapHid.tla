------------------------------- MODULE CtapHid -------------------------------
(***************************************************************************)
(* The CTAPHID transport of howdy/src/webauthn/ctaphid.py driving one      *)
(* authenticator whose face checks run in a FaceVerifier.                  *)
(*                                                                         *)
(* Threads: the reader (feed_report, called from the service's read loop), *)
(* one worker per accepted CBOR request (_run_cbor) and one keepalive      *)
(* thread per worker.  They share _active_cid and the two cancel flags     *)
(* under _lock, and the outbound reports under _send_lock.  A step is one  *)
(* block under a lock, one outbound report, or one call into the verifier. *)
(*                                                                         *)
(* Here a request arrives in one piece; CtapFraming models how it is put   *)
(* together from reports.  The host is external and may send anything at   *)
(* any time.  A request is identified by its number, which is also its     *)
(* worker thread; the commands are reduced to those that need a face check *)
(* and those that do not.                                                  *)
(***************************************************************************)
EXTENDS Integers, FaceVerifier

CONSTANTS Chan,       \* channel ids that CTAPHID_INIT can allocate
          NoChan,     \* no channel (an idle device), and the broadcast channel
          ReaderThread

ASSUME ChanAssumption ==
  NoChan \notin Chan /\ ReaderThread \notin Thread \cup {NoThread}

Request == Thread
NoRequest == NoThread

(* An outbound report is a whole message, or the first or the last report  *)
(* of one that does not fit a report, sent by the thread "by".             *)
Sender == Request \cup {ReaderThread}
Whole == [part |-> "whole", by |-> NoThread]
First(t) == [part |-> "first", by |-> t]
Last(t) == [part |-> "last", by |-> t]
Report == {Whole} \cup {First(t) : t \in Sender} \cup {Last(t) : t \in Sender}

VARIABLES
  channels,     \* allocated channel ids
  active,       \* _active_cid
  aborted,      \* _cancelled
  cancelReply,  \* _cancel_reply
  reader,       \* where the reader thread is
  readerChan,   \* the channel the reader is serving
  worker,       \* worker[r]: where the worker of request r is
  chanOf,       \* chanOf[r]: the channel r arrived on
  keepalive,    \* keepalive[r]: where the keepalive thread of r is
  sender,       \* holder of _send_lock between two reports of one message
  wire,         \* the last report the host received
  answers,      \* history: answers[r], number of CBOR responses sent for r
  stopAsked     \* history: stopAsked[r], which of CANCEL and INIT came on the
                \* channel of r while r was active
claimVars == <<channels, active, aborted, cancelReply, stopAsked>>
readerVars == <<reader, readerChan>>
workerVars == <<worker, chanOf, answers>>
wireVars == <<sender, wire>>
hidVars == <<claimVars, readerVars, workerVars, keepalive, wireVars>>
vars == <<verifierVars, hidVars>>

Init ==
  /\ VerifierInit
  /\ channels = {}
  /\ active = NoChan
  /\ aborted = FALSE
  /\ cancelReply = TRUE
  /\ reader = "idle"
  /\ readerChan = NoChan
  /\ worker = [r \in Request |-> "none"]
  /\ chanOf = [r \in Request |-> NoChan]
  /\ keepalive = [r \in Request |-> "off"]
  /\ sender = NoRequest
  /\ wire = Whole
  /\ answers = [r \in Request |-> 0]
  /\ stopAsked = [r \in Request |-> {}]

(* Mutant of Send: a report that does not wait for _send_lock. *)
SendUnlocked(report) ==
  /\ wire' = report
  /\ sender' = IF report.part = "first" THEN report.by ELSE sender

(* _send_message: the first report, once _send_lock is free.               *)
Send(report) ==
  /\ sender = NoRequest
  /\ wire' = report
  /\ sender' = IF report.part = "first" THEN report.by ELSE NoRequest

(* The last report of a long message releases _send_lock. *)
SendLast(t) ==
  /\ wire' = Last(t)
  /\ sender' = NoRequest

ReaderTo(label, c) == reader' = label /\ readerChan' = c
WorkerTo(r, label) == worker' = [worker EXCEPT ![r] = label]

(* The requests that own the active channel c. *)
ActiveOn(c) ==
  {r \in Request : /\ worker[r] \in {"running", "stopping", "finishing"}
                   /\ chanOf[r] = c}

(* _lock is held across the busy report of _start_cbor, and only there is  *)
(* it held across a step.                                                  *)
LockFree == reader # "busyLocked"

-----------------------------------------------------------------------------
(* The reader. *)

(* INIT on the broadcast channel allocates an id. *)
RecvAllocate(c) ==
  /\ reader = "idle"
  /\ c \notin channels
  /\ channels' = channels \cup {c}
  /\ ReaderTo("initReply", NoChan)
  /\ UNCHANGED <<verifierVars, active, aborted, cancelReply, stopAsked, workerVars,
       keepalive, wireVars>>

(* CANCEL, or INIT on a channel of the host's choice (which need not have  *)
(* been allocated): _cancel_active sets the flags under _lock and calls    *)
(* the authenticator after releasing it.                                   *)
StopActive(c, why) ==
  /\ active = c
  /\ aborted' = TRUE
  /\ cancelReply' = (why = "cancel")
  /\ stopAsked' = [r \in Request |->
                     stopAsked[r] \cup IF r \in ActiveOn(c) THEN {why} ELSE {}]
  /\ UNCHANGED <<channels, active>>

RecvCancel(c) ==
  /\ reader = "idle"
  /\ c \in channels
  /\ StopActive(c, "cancel")
  /\ ReaderTo("cancel", c)
  /\ UNCHANGED <<verifierVars, workerVars, keepalive, wireVars>>

RecvResync(c) ==
  /\ reader = "idle"
  /\ \/ StopActive(c, "init") /\ ReaderTo("cancelThenInit", c)
     \/ active # c /\ ReaderTo("initReply", c) /\ UNCHANGED claimVars
  /\ UNCHANGED <<verifierVars, workerVars, keepalive, wireVars>>

(* authenticator.cancel(), on whatever is running by now. *)
CallCancel ==
  /\ reader \in {"cancel", "cancelThenInit"}
  /\ Cancel
  /\ IF reader = "cancel" THEN ReaderTo("idle", NoChan)
                          ELSE ReaderTo("initReply", readerChan)
  /\ UNCHANGED <<claimVars, workerVars, keepalive, wireVars>>

SendInitReply ==
  /\ reader = "initReply"
  /\ Send(Whole)
  /\ ReaderTo("idle", NoChan)
  /\ UNCHANGED <<verifierVars, claimVars, workerVars, keepalive>>

(* A second CBOR request, complete while one is active (on another channel *)
(* it was begun before): _start_cbor answers CHANNEL_BUSY with _lock held. *)
RecvWhileActive ==
  /\ reader = "idle"
  /\ active # NoChan
  /\ ReaderTo("busyLocked", NoChan)
  /\ UNCHANGED <<verifierVars, claimVars, workerVars, keepalive, wireVars>>

(* What is answered with one report and changes nothing: an error for a    *)
(* request while another channel is active, for an unknown channel, command *)
(* or length; WINK, LOCK and a short PING.                                 *)
RecvRejected ==
  /\ reader = "idle"
  /\ ReaderTo("error", NoChan)
  /\ UNCHANGED <<verifierVars, claimVars, workerVars, keepalive, wireVars>>

SendError ==
  /\ reader \in {"error", "busyLocked"}
  /\ Send(Whole)
  /\ ReaderTo("idle", NoChan)
  /\ UNCHANGED <<verifierVars, claimVars, workerVars, keepalive>>

(* A PING too long for one report is echoed, also while an operation runs. *)
RecvPing ==
  /\ reader = "idle"
  /\ channels # {}
  /\ ReaderTo("pong", NoChan)
  /\ UNCHANGED <<verifierVars, claimVars, workerVars, keepalive, wireVars>>

SendPong ==
  /\ reader = "pong"
  /\ Send(First(ReaderThread))
  /\ ReaderTo("pongRest", NoChan)
  /\ UNCHANGED <<verifierVars, claimVars, workerVars, keepalive>>

SendPongRest ==
  /\ reader = "pongRest"
  /\ SendLast(ReaderThread)
  /\ ReaderTo("idle", NoChan)
  /\ UNCHANGED <<verifierVars, claimVars, workerVars, keepalive>>

(* Mutant of RecvRequest: the device is claimed without looking. *)
RecvRequestAnyway(c, r) ==
  /\ reader = "idle"
  /\ c \in channels
  /\ worker[r] = "none"
  /\ active' = c
  /\ aborted' = FALSE
  /\ WorkerTo(r, "running")
  /\ chanOf' = [chanOf EXCEPT ![r] = c]
  /\ keepalive' = [keepalive EXCEPT ![r] = "waiting"]
  /\ UNCHANGED <<verifierVars, channels, cancelReply, stopAsked, readerVars, answers,
       wireVars>>

(* _start_cbor: claim the device, clear the flag, start the worker.        *)
RecvRequest(c, r) ==
  /\ reader = "idle"
  /\ c \in channels
  /\ active = NoChan
  /\ worker[r] = "none"
  /\ active' = c
  /\ aborted' = FALSE
  /\ WorkerTo(r, "running")
  /\ chanOf' = [chanOf EXCEPT ![r] = c]
  /\ keepalive' = [keepalive EXCEPT ![r] = "waiting"]
  /\ UNCHANGED <<verifierVars, channels, cancelReply, stopAsked, readerVars, answers,
       wireVars>>

-----------------------------------------------------------------------------
(* The worker of request r. *)

(* verify(), called from handle_cbor by the commands that need a face.     *)
WorkerVerifies(r) ==
  /\ worker[r] = "running"
  /\ Verify(r)
  /\ UNCHANGED hidVars

(* The status handle_cbor answers with: that of a command without a face   *)
(* check, or _verification_error of its result.                            *)
Status(r) ==
  CASE verifying[r] = "no" \/ result[r] = "SUCCESS" -> "ok"
    [] result[r] = "CANCELLED"                      -> "keepaliveCancel"
    [] result[r] = "TIMEOUT_REACHED"                -> "userActionTimeout"
    [] OTHER                                        -> "operationDenied"

(* handle_cbor returns; stop.set(). *)
HandleReturns(r) ==
  /\ worker[r] = "running"
  /\ verifying[r] \in {"no", "done"}
  /\ WorkerTo(r, "stopping")
  /\ UNCHANGED <<verifierVars, claimVars, readerVars, chanOf, answers, keepalive,
       wireVars>>

(* Mutant of JoinKeepalive: the thread is told to stop and not joined. *)
SkipJoin(r) ==
  /\ worker[r] = "stopping"
  /\ WorkerTo(r, "finishing")
  /\ UNCHANGED <<verifierVars, claimVars, readerVars, chanOf, answers, keepalive,
       wireVars>>

(* keepalive.join() *)
JoinKeepalive(r) ==
  /\ worker[r] = "stopping"
  /\ keepalive[r] = "off"
  /\ WorkerTo(r, "finishing")
  /\ UNCHANGED <<verifierVars, claimVars, readerVars, chanOf, answers, keepalive,
       wireVars>>

(* Read the flags and free the device; drop the reply after a re-sync.     *)
Finish(r) ==
  /\ worker[r] = "finishing"
  /\ LockFree
  /\ active' = NoChan
  /\ WorkerTo(r, IF aborted /\ ~cancelReply THEN "done" ELSE "replying")
  /\ UNCHANGED <<verifierVars, channels, aborted, cancelReply, stopAsked, readerVars,
       chanOf, answers, keepalive, wireVars>>

(* Mutant of SendResponse: an error is sent where it is caught, and again. *)
SendErrorTwice(r) ==
  /\ worker[r] = "replying"
  /\ \/ Status(r) # "ok" /\ Send(Whole) /\ UNCHANGED worker
     \/ Status(r) = "ok" /\ Send(First(r)) /\ WorkerTo(r, "continuing")
  /\ answers' = [answers EXCEPT ![r] = @ + 1]
  /\ UNCHANGED <<verifierVars, claimVars, readerVars, chanOf, keepalive>>

(* The response: one report for an error, several for an answer.           *)
SendResponse(r) ==
  /\ worker[r] = "replying"
  /\ \/ Status(r) # "ok" /\ Send(Whole) /\ WorkerTo(r, "done")
     \/ Status(r) = "ok" /\ Send(First(r)) /\ WorkerTo(r, "continuing")
  /\ answers' = [answers EXCEPT ![r] = @ + 1]
  /\ UNCHANGED <<verifierVars, claimVars, readerVars, chanOf, keepalive>>

(* Mutant of SendContinuation: _lock is taken between two reports, to look *)
(* for a re-sync.                                                          *)
SendContinuationLooks(r) ==
  /\ worker[r] = "continuing"
  /\ LockFree
  /\ SendLast(r)
  /\ WorkerTo(r, "done")
  /\ UNCHANGED <<verifierVars, claimVars, readerVars, chanOf, answers, keepalive>>

SendContinuation(r) ==
  /\ worker[r] = "continuing"
  /\ SendLast(r)
  /\ WorkerTo(r, "done")
  /\ UNCHANGED <<verifierVars, claimVars, readerVars, chanOf, answers, keepalive>>

-----------------------------------------------------------------------------
(* The keepalive thread of request r: wait 100 ms, send, until stop is set. *)
StopSet(r) == worker[r] \notin {"none", "running"}

KeepaliveTick(r) ==
  /\ keepalive[r] = "waiting"
  /\ keepalive' = [keepalive EXCEPT ![r] = IF StopSet(r) THEN "off" ELSE "sending"]
  /\ UNCHANGED <<verifierVars, claimVars, readerVars, workerVars, wireVars>>

KeepaliveSend(r) ==
  /\ keepalive[r] = "sending"
  /\ Send(Whole)
  /\ keepalive' = [keepalive EXCEPT ![r] = "waiting"]
  /\ UNCHANGED <<verifierVars, claimVars, readerVars, workerVars>>

ChildRuns(r) == ChildStep(r) /\ UNCHANGED hidVars

-----------------------------------------------------------------------------
Host ==
  \/ RecvRejected \/ RecvWhileActive \/ RecvPing
  \/ \E c \in Chan :
       \/ RecvAllocate(c) \/ RecvCancel(c) \/ RecvResync(c)
       \/ \E r \in Request : RecvRequest(c, r)

ReaderContinues ==
  CallCancel \/ SendInitReply \/ SendError \/ SendPong \/ SendPongRest

Worker(r) ==
  \/ WorkerVerifies(r) \/ HandleReturns(r) \/ JoinKeepalive(r) \/ Finish(r)
  \/ SendResponse(r) \/ SendContinuation(r)

Keepalive(r) == KeepaliveTick(r) \/ KeepaliveSend(r)

Next ==
  \/ Host \/ ReaderContinues
  \/ \E r \in Request : Worker(r) \/ Keepalive(r) \/ ChildRuns(r)

Spec == Init /\ [][Next]_vars

(* Every thread is scheduled; a thread waiting for one of the two locks,   *)
(* which others take and release over and over, gets it in the end.  The   *)
(* host owes nothing, and neither does compare.py.                         *)
Fairness ==
  /\ SF_vars(ReaderContinues)
  /\ \A r \in Request : SF_vars(Worker(r)) /\ SF_vars(Keepalive(r))

FairSpec == Spec /\ Fairness
-----------------------------------------------------------------------------
ReaderPC == {"idle", "cancel", "cancelThenInit", "initReply", "error", "busyLocked",
             "pong", "pongRest"}
WorkerPC == {"none", "running", "stopping", "finishing", "replying", "continuing", "done"}

TypeOK ==
  /\ VerifierTypeOK
  /\ channels \subseteq Chan
  /\ active \in Chan \cup {NoChan}
  /\ aborted \in BOOLEAN /\ cancelReply \in BOOLEAN
  /\ reader \in ReaderPC
  /\ readerChan \in Chan \cup {NoChan}
  /\ worker \in [Request -> WorkerPC]
  /\ chanOf \in [Request -> Chan \cup {NoChan}]
  /\ keepalive \in [Request -> {"off", "waiting", "sending"}]
  /\ sender \in Sender \cup {NoRequest}
  /\ wire \in Report
  /\ answers \in [Request -> 0..1]
  /\ stopAsked \in [Request -> SUBSET {"cancel", "init"}]

(* "A multi-frame message must never have a foreign frame spliced into     *)
(* it": between the reports of one message no thread gets a word in.       *)
NoSplicedFrame ==
  [][ wire.part = "first" => wire' \in {wire, Last(wire.by)} ]_vars

(* A request fails with KEEPALIVE_CANCEL only if its own channel asked for *)
(* it while it was active, although the flags and the verifier are shared  *)
(* by all requests and cancel() is called after _lock is released.         *)
CancelHitsItsOwner ==
  \A r \in Request :
    StopSet(r) /\ Status(r) = "keepaliveCancel" => stopAsked[r] # {}

(* A request has claimed the device until its flags were read, and owes a  *)
(* response until one is sent.                                             *)
StageOf(r) ==
  CASE worker[r] = "none"                       -> "new"
    [] worker[r] = "running"                    -> "running"
    [] worker[r] \in {"stopping", "finishing"}  -> "returned"
    [] worker[r] = "replying"                   -> "owing"
    [] OTHER -> IF answers[r] = 0 THEN "dropped" ELSE "answered"

CheckOf(r) ==
  CASE verifying[r] = "no"   -> "no"
    [] verifying[r] = "done" -> "over"
    [] OTHER                 -> "running"

(* The threads together behave like a device that serves one request after *)
(* the other: it refuses no check, cancels only what it was asked to, and  *)
(* answers once, or not at all after an INIT, with no keepalive behind.    *)
Serial == INSTANCE SerialDevice
            WITH Verdict <- Result,
                 stage <- [r \in Request |-> StageOf(r)],
                 check <- [r \in Request |-> CheckOf(r)],
                 result <- result, asked <- stopAsked,
                 due <- [r \in Request |-> keepalive[r] = "sending"]
ImplementsSerialDevice == Serial!DSpec

(* A request that was accepted never finds the verifier taken by the check *)
(* of an earlier one, so verify() never refuses it.                        *)
VerifierIsFree ==
  \A r \in Request :
    worker[r] = "running" /\ verifying[r] = "no" => process = NoThread

(* "The host expects exactly one response frame for its request": the only *)
(* requests that end without one are those re-synchronised away, and once  *)
(* it is out the keepalive thread is gone, so that no late keepalive       *)
(* reaches a host that considers the request over.                         *)
ResponseIsLast ==
  \A r \in Request :
    /\ worker[r] = "done" /\ answers[r] = 0 => "init" \in stopAsked[r]
    /\ answers[r] > 0 => keepalive[r] = "off"

(* Every accepted request comes to its end, and the reader always gets     *)
(* back to reading: no cycle among _lock, _send_lock and the join.         *)
EveryRequestEnds ==
  /\ \A r \in Request : worker[r] = "running" ~> worker[r] = "done"
  /\ reader # "idle" ~> reader = "idle"
=============================================================================
