--------------------------- MODULE CtapHidProofs ----------------------------
(***************************************************************************)
(* What the transport promises its host, for any number of channels and    *)
(* requests, whatever the host sends and whenever.                         *)
(***************************************************************************)
EXTENDS CtapHid, FaceVerifierProofs, TLAPS

Claims(r) == worker[r] \in {"running", "stopping", "finishing"}

(* One request at a time owns the device, and the active channel is its    *)
(* channel.                                                                *)
OwnerInv ==
  /\ \A r \in Request : Claims(r) => chanOf[r] = active /\ active # NoChan
  /\ \A r, s \in Request : Claims(r) /\ Claims(s) => r = s

(* The verifier works for that request; and the flags it can be cancelled  *)
(* by were set for it, because the reader, which is still busy with the    *)
(* cancel, has let no other request in.                                    *)
CheckInv ==
  \A r \in Request :
    /\ worker[r] = "none" => verifying[r] = "no"
    /\ verifying[r] = "no" => result[r] = "ABORT"
    /\ Verifying(r) => worker[r] = "running"
    /\ Verifying(r) /\ cancelled => stopAsked[r] # {}
    /\ verifying[r] = "done" /\ result[r] = "CANCELLED" => stopAsked[r] # {}
    /\ reader \in {"cancel", "cancelThenInit"} /\ Claims(r) => stopAsked[r] # {}

(* A request is answered once, without its keepalive thread, or dropped    *)
(* because of an INIT on its channel.                                      *)
AnswerInv ==
  \A r \in Request :
    /\ Claims(r) /\ aborted /\ ~cancelReply => "init" \in stopAsked[r]
    /\ keepalive[r] # "off" => worker[r] \in {"running", "stopping"}
    /\ answers[r] = 1 => worker[r] \in {"continuing", "done"}
    /\ worker[r] = "continuing" => answers[r] = 1
    /\ worker[r] = "done" /\ answers[r] = 0 => "init" \in stopAsked[r]

(* Whoever has sent the first report of a message holds _send_lock, and is *)
(* about to send the last.                                                 *)
WireInv ==
  /\ \A r \in Request : worker[r] = "continuing" <=> sender = r
  /\ reader = "pongRest" <=> sender = ReaderThread
  /\ IF sender = NoRequest THEN wire.part # "first" ELSE wire = First(sender)

Inv == VerifierInv /\ TypeOK /\ OwnerInv /\ CheckInv /\ AnswerInv /\ WireInv

(* The device is idle.                                                     *)
LEMMA InitInv == Init => Inv
<1> SUFFICES ASSUME Init PROVE Inv
  OBVIOUS
<1>1. VerifierInv
  BY VerifierInitInv DEF Init
<1>2. TypeOK
  <2>1. sender \in Sender \cup {NoRequest} /\ wire \in Report
    BY DEF Init, Report
  <2>2. /\ channels \in SUBSET Chan /\ active = NoChan
        /\ aborted \in BOOLEAN /\ cancelReply \in BOOLEAN
    BY DEF Init
  <2>3. reader \in ReaderPC /\ readerChan = NoChan
    BY DEF Init, ReaderPC
  <2>4. /\ worker \in [Request -> WorkerPC] /\ chanOf \in [Request -> Chan \cup {NoChan}]
        /\ keepalive \in [Request -> {"off", "waiting", "sending"}]
        /\ answers \in [Request -> 0..1]
        /\ stopAsked \in [Request -> SUBSET {"cancel", "init"}]
    BY DEF Init, WorkerPC
  <2> QED
    BY <1>1, <2>1, <2>2, <2>3, <2>4 DEF TypeOK, VerifierInv
<1>3. OwnerInv /\ CheckInv /\ AnswerInv
  BY DEF Init, VerifierInit, OwnerInv, CheckInv, AnswerInv, Claims, Verifying, Request
<1>4. WireInv
  BY ChanAssumption, VerifierAssumption DEF Init, WireInv, Whole, NoRequest, Request
<1> QED
  BY <1>1, <1>2, <1>3, <1>4 DEF Inv

(* A step of the verifier, or of the child, made by a running worker.      *)
LEMMA VerifierMoves ==
  ASSUME Inv, NEW r \in Request, WorkerVerifies(r) \/ ChildRuns(r)
  PROVE  Inv'
<1>1. UNCHANGED hidVars /\ (ChildStep(r) \/ (worker[r] = "running" /\ Verify(r)))
  BY DEF WorkerVerifies, ChildRuns
<1>2. VerifierInv'
  BY <1>1, VerifierStepInv DEF Inv, VerifierNext, Request
<1>3. TypeOK' /\ OwnerInv' /\ AnswerInv' /\ WireInv'
  BY <1>1, <1>2
  DEF hidVars, claimVars, readerVars, workerVars, wireVars, Inv, VerifierInv, TypeOK, OwnerInv,
      AnswerInv, WireInv, Claims
<1>4. CheckInv'
  <2>1. CASE ChildStep(r)
    BY <1>1, <2>1
    DEF ChildStep, ChildExits, hidVars, claimVars, readerVars, workerVars, Inv, CheckInv,
        Claims, Verifying
  <2>2. CASE worker[r] = "running" /\ Verify(r)
    <3> USE <1>1, <2>2
        DEF hidVars, claimVars, readerVars, workerVars, Inv, VerifierInv, VerifierTypeOK,
            CheckInv, Claims, Verifying, Request, Returns
    <3>1. CASE Refuse(r) \/ Spawn(r) \/ SpawnFails(r)
      BY <3>1 DEF Refuse, Spawn, SpawnFails
    <3>2. CASE WaitReturns(r) \/ WaitTimesOut(r)
      BY <3>2 DEF WaitReturns, WaitTimesOut
    <3>3. CASE Reap(r)
      BY <3>3 DEF Reap, FromStatus
    <3> QED
      BY <3>1, <3>2, <3>3 DEF Verify
  <2> QED
    BY <1>1, <2>1, <2>2
<1> QED
  BY <1>2, <1>3, <1>4 DEF Inv

(* The verifier stands still while everything else moves.                  *)
LEMMA VerifierStands == VerifierInv /\ UNCHANGED verifierVars => VerifierInv'
BY DEF verifierVars, VerifierInv, VerifierTypeOK, Verifying, HitCheckIsCancelled

(* The host, and what the reader does with its reports.                    *)
LEMMA ReaderInv ==
  ASSUME Inv, Host \/ ReaderContinues
  PROVE  Inv'
<1> USE ChanAssumption, VerifierAssumption
    DEF Inv, TypeOK, OwnerInv, CheckInv, AnswerInv, WireInv, Claims, ReaderTo, WorkerTo,
        claimVars, readerVars, workerVars, wireVars, ReaderPC, WorkerPC, Request, NoRequest,
        Sender, Report, Whole, First, Last, Send, SendLast
<1>1. ASSUME UNCHANGED verifierVars
      PROVE  /\ VerifierInv' /\ VerifierTypeOK'
             /\ UNCHANGED <<verifying, result, cancelled, process>>
             /\ \A r \in Request : Verifying(r)' = Verifying(r)
  BY <1>1, VerifierStands DEF verifierVars, VerifierInv, Verifying
<1>2. CASE RecvRejected \/ RecvWhileActive \/ RecvPing
  BY <1>1, <1>2 DEF RecvRejected, RecvWhileActive, RecvPing
<1>3. ASSUME NEW c \in Chan, RecvAllocate(c) PROVE Inv'
  BY <1>1, <1>3 DEF RecvAllocate
<1>4. ASSUME NEW c \in Chan, RecvCancel(c) PROVE Inv'
  <2>0. VerifierInv'
    BY <1>1, <1>4 DEF RecvCancel
  <2>1. stopAsked' \in [Request -> SUBSET {"cancel", "init"}]
    BY <1>4 DEF RecvCancel, StopActive, ActiveOn
  <2>2. \A r \in Request : stopAsked[r] \subseteq stopAsked'[r]
    BY <1>4 DEF RecvCancel, StopActive, ActiveOn
  <2>3. TypeOK' /\ OwnerInv' /\ WireInv'
    BY <1>1, <1>4, <2>1 DEF RecvCancel, StopActive, ActiveOn
  <2>4. ASSUME NEW r \in Request, Claims(r), reader' \in {"cancel", "cancelThenInit"}
        PROVE  stopAsked'[r] # {} /\ (~cancelReply' => "init" \in stopAsked'[r])
    BY <1>4, <2>4 DEF RecvCancel, StopActive, ActiveOn
  <2>5. CheckInv'
    BY <1>1, <1>4, <2>2, <2>4 DEF RecvCancel, StopActive, ActiveOn
  <2>6. AnswerInv'
    BY <1>1, <1>4, <2>2, <2>4 DEF RecvCancel, StopActive, ActiveOn
  <2> QED
    BY <2>0, <2>3, <2>5, <2>6
<1>5. ASSUME NEW c \in Chan, RecvResync(c) PROVE Inv'
  <2>0. VerifierInv'
    BY <1>1, <1>5 DEF RecvResync
  <2>1. stopAsked' \in [Request -> SUBSET {"cancel", "init"}]
    BY <1>5 DEF RecvResync, StopActive, ActiveOn
  <2>2. \A r \in Request : stopAsked[r] \subseteq stopAsked'[r]
    BY <1>5 DEF RecvResync, StopActive, ActiveOn
  <2>3. TypeOK' /\ OwnerInv' /\ WireInv'
    BY <1>1, <1>5, <2>1 DEF RecvResync, StopActive, ActiveOn
  <2>4. ASSUME NEW r \in Request, Claims(r), reader' \in {"cancel", "cancelThenInit"}
        PROVE  stopAsked'[r] # {} /\ (~cancelReply' => "init" \in stopAsked'[r])
    <3>1. StopActive(c, "init")
      BY <1>5, <2>4 DEF RecvResync
    <3>2. r \in ActiveOn(c)
      BY <2>4, <3>1 DEF StopActive, ActiveOn
    <3> QED
      BY <3>1, <3>2 DEF StopActive
  <2>5. CheckInv'
    BY <1>1, <1>5, <2>2, <2>4 DEF RecvResync, StopActive, ActiveOn
  <2>6. AnswerInv'
    BY <1>1, <1>5, <2>2, <2>4 DEF RecvResync, StopActive, ActiveOn
  <2> QED
    BY <2>0, <2>3, <2>5, <2>6
<1>6. ASSUME NEW c \in Chan, NEW r \in Request, RecvRequest(c, r) PROVE Inv'
  <2>0. VerifierInv'
    BY <1>1, <1>6 DEF RecvRequest
  <2>1. \A s \in Request : ~Claims(s)
    BY <1>6 DEF RecvRequest
  <2>2. \A s \in Request : Claims(s)' => s = r
    BY <1>6, <2>1 DEF RecvRequest
  <2>3. TypeOK'
    BY <1>1, <1>6 DEF RecvRequest
  <2>4. OwnerInv'
    BY <1>6, <2>2 DEF RecvRequest
  <2>5. CheckInv'
    BY <1>1, <1>6, <2>1, <2>2 DEF RecvRequest
  <2>6. AnswerInv'
    BY <1>6, <2>2 DEF RecvRequest
  <2>7. WireInv'
    BY <1>6 DEF RecvRequest
  <2> QED
    BY <2>0, <2>3, <2>4, <2>5, <2>6, <2>7
<1>7. CASE CallCancel
  <2>1. VerifierInv'
    BY <1>7, VerifierStepInv DEF CallCancel, VerifierNext
  <2>2. CheckInv'
    BY <1>7 DEF CallCancel, Cancel, Verifying
  <2> QED
    BY <1>7, <2>1, <2>2 DEF CallCancel, VerifierInv
<1>8. CASE SendInitReply \/ SendError
  BY <1>1, <1>8 DEF SendInitReply, SendError
<1>9. CASE SendPong
  BY <1>1, <1>9 DEF SendPong
<1>10. CASE SendPongRest
  BY <1>1, <1>10 DEF SendPongRest
<1> QED
  BY <1>2, <1>3, <1>4, <1>5, <1>6, <1>7, <1>8, <1>9, <1>10 DEF Host, ReaderContinues

(* The worker and the keepalive thread of a request, between the steps of  *)
(* the verifier.                                                           *)
LEMMA WorkerInv ==
  ASSUME Inv, NEW r \in Request,
         \/ HandleReturns(r) \/ JoinKeepalive(r) \/ Finish(r)
         \/ SendResponse(r) \/ SendContinuation(r) \/ Keepalive(r)
  PROVE  Inv'
<1> USE ChanAssumption, VerifierAssumption
    DEF Inv, TypeOK, OwnerInv, CheckInv, AnswerInv, WireInv, Claims, ReaderTo, WorkerTo,
        claimVars, readerVars, workerVars, wireVars, ReaderPC, WorkerPC, Request, NoRequest,
        Sender, Report, Whole, First, Last, Send, SendLast
<1>1. /\ VerifierInv' /\ VerifierTypeOK'
      /\ UNCHANGED <<verifying, result, cancelled, process>>
      /\ \A s \in Request : Verifying(s)' = Verifying(s)
  <2>1. UNCHANGED verifierVars
    BY DEF HandleReturns, JoinKeepalive, Finish, SendResponse, SendContinuation, Keepalive,
           KeepaliveTick, KeepaliveSend
  <2> QED
    BY <2>1, VerifierStands DEF verifierVars, VerifierInv, Verifying
<1>2. CASE HandleReturns(r)
  BY <1>1, <1>2 DEF HandleReturns, Verifying
<1>3. CASE JoinKeepalive(r)
  BY <1>1, <1>3 DEF JoinKeepalive
<1>4. CASE Finish(r)
  BY <1>1, <1>4 DEF Finish
<1>5. CASE SendResponse(r)
  BY <1>1, <1>5 DEF SendResponse
<1>6. CASE SendContinuation(r)
  <2>1. sender = r /\ reader # "pongRest" /\ r # NoThread
    BY <1>6 DEF SendContinuation
  <2>2. wire' = Last(r) /\ wire' \in Report /\ wire'.part = "last" /\ sender' = NoThread
    BY <1>6 DEF SendContinuation
  <2>3. worker' = [worker EXCEPT ![r] = "done"]
        /\ UNCHANGED <<claimVars, readerVars, chanOf, answers, keepalive>>
    BY <1>6 DEF SendContinuation
  <2>4. WireInv'
    BY <1>6, <2>1, <2>2, <2>3 DEF SendContinuation
  <2>5. TypeOK'
    BY <1>1, <2>2, <2>3
  <2>6. OwnerInv'
    BY <1>6, <2>3 DEF SendContinuation
  <2>7. CheckInv'
    BY <1>1, <1>6, <2>3 DEF SendContinuation
  <2>8. answers[r] = 1
    BY <1>6 DEF SendContinuation
  <2>9. AnswerInv'
    BY <1>6, <2>3, <2>8 DEF SendContinuation
  <2> QED
    BY <1>1, <2>4, <2>5, <2>6, <2>7, <2>9
<1>7. CASE KeepaliveTick(r)
  BY <1>1, <1>7 DEF KeepaliveTick, StopSet
<1>8. CASE KeepaliveSend(r)
  BY <1>1, <1>8 DEF KeepaliveSend
<1> QED
  BY <1>2, <1>3, <1>4, <1>5, <1>6, <1>7, <1>8 DEF Keepalive
-----------------------------------------------------------------------------
(* The inductive invariant holds in every reachable state.                 *)
THEOREM Invariance == Spec => []Inv
<1>1. Inv /\ UNCHANGED vars => Inv'
  BY VerifierStands
  DEF vars, verifierVars, hidVars, claimVars, readerVars, workerVars, wireVars, Inv, TypeOK,
      VerifierInv, OwnerInv, CheckInv, AnswerInv, WireInv, Claims, Verifying
<1>2. Inv /\ [Next]_vars => Inv'
  BY <1>1, VerifierMoves, ReaderInv, WorkerInv DEF Next, Worker
<1> QED
  BY <1>2, InitInv, PTL DEF Spec

(* The variables keep their types; no request is answered twice.           *)
THEOREM TypeCorrect == Spec => []TypeOK
<1>1. Inv => TypeOK
  BY DEF Inv
<1> QED
  BY <1>1, Invariance, PTL

(* verify() never refuses a request: the one before it has left the        *)
(* verifier when it frees the device.                                      *)
THEOREM VerifierIsAlwaysFree == Spec => []VerifierIsFree
<1>1. Inv => VerifierIsFree
  BY DEF Inv, VerifierInv, VerifierTypeOK, TypeOK, OwnerInv, CheckInv, Claims, VerifierIsFree,
         Verifying, Request
<1> QED
  BY <1>1, Invariance, PTL

(* No cancel hits a request that it was not meant for.                     *)
THEOREM CancelsHitTheirOwners == Spec => []CancelHitsItsOwner
<1>1. Inv => CancelHitsItsOwner
  <2> SUFFICES ASSUME Inv, NEW r \in Request, StopSet(r), Status(r) = "keepaliveCancel"
               PROVE  stopAsked[r] # {}
    BY DEF CancelHitsItsOwner
  <2>1. verifying[r] # "no" /\ result[r] = "CANCELLED"
    <3>1. CASE verifying[r] = "no" \/ result[r] = "SUCCESS"
      BY <3>1 DEF Status, Inv, CheckInv
    <3>2. CASE ~(verifying[r] = "no" \/ result[r] = "SUCCESS") /\ result[r] # "CANCELLED"
      BY <3>2 DEF Status
    <3> QED
      BY <3>1, <3>2
  <2>2. verifying[r] = "done"
    BY <2>1 DEF Inv, VerifierInv, VerifierTypeOK, CheckInv, StopSet, Verifying, Request
  <2> QED
    BY <2>1, <2>2 DEF Inv, CheckInv
<1> QED
  BY <1>1, Invariance, PTL

(* Exactly one response, unless the host has re-synchronised, and no       *)
(* keepalive after it.                                                     *)
THEOREM ResponsesAreLast == Spec => []ResponseIsLast
<1>1. Inv => ResponseIsLast
  BY DEF Inv, TypeOK, AnswerInv, ResponseIsLast
<1> QED
  BY <1>1, Invariance, PTL

(* No thread gets a report in between those of another one's message.      *)
THEOREM FramesAreNotSpliced == Spec => NoSplicedFrame
<1> DEFINE Unspliced == wire.part = "first" => wire' \in {wire, Last(wire.by)}
<1>1. Inv /\ [Next]_vars => [Unspliced]_vars
  <2> SUFFICES ASSUME Inv, Next, wire.part = "first" PROVE wire' \in {wire, Last(wire.by)}
    OBVIOUS
  <2>1. sender # NoRequest /\ wire.by = sender
    BY DEF Inv, WireInv, First
  <2>2. \A report : ~Send(report)
    BY <2>1 DEF Send
  <2>3. CASE Host \/ ReaderContinues
    <3>1. CASE SendPongRest
      BY <2>1, <3>1 DEF SendPongRest, SendLast, Inv, WireInv
    <3> QED
      BY <2>2, <2>3, <3>1
      DEF Host, ReaderContinues, RecvRejected, RecvWhileActive, RecvPing, RecvAllocate,
          RecvCancel, RecvResync, RecvRequest, CallCancel, SendInitReply, SendError, SendPong,
          wireVars
  <2>4. ASSUME NEW r \in Request, Worker(r) \/ Keepalive(r) \/ ChildRuns(r)
        PROVE  wire' \in {wire, Last(wire.by)}
    <3>1. CASE SendContinuation(r)
      BY <2>1, <3>1 DEF SendContinuation, SendLast, Inv, WireInv
    <3> QED
      BY <2>2, <2>4, <3>1
      DEF Worker, Keepalive, WorkerVerifies, HandleReturns, JoinKeepalive, Finish,
          SendResponse, KeepaliveTick, KeepaliveSend, ChildRuns, wireVars, hidVars
  <2> QED
    BY <2>3, <2>4 DEF Next
<1> QED
  BY <1>1, Invariance, PTL DEF Spec, NoSplicedFrame

-----------------------------------------------------------------------------
(* The refinement of SerialDevice *)

(* What the abstract device does not see.                                  *)
LEMMA QuietStep ==
  UNCHANGED <<worker, answers, verifying, result, stopAsked, keepalive>>
    => UNCHANGED Serial!dvars
BY DEF Serial!dvars, StageOf, CheckOf

(* A worker that moves changes the stage of its request and of no other.   *)
LEMMA StageMoves ==
  ASSUME TypeOK, NEW r \in Request, NEW label \in WorkerPC, WorkerTo(r, label),
         \A q \in Request : q # r => answers'[q] = answers[q],
         NEW to, StageOf(r)' = to
  PROVE  [q \in Request |-> StageOf(q)]' = [[q \in Request |-> StageOf(q)] EXCEPT ![r] = to]
<1>1. \A q \in Request : q # r => StageOf(q)' = StageOf(q)
  BY DEF TypeOK, WorkerTo, StageOf
<1> QED
  BY <1>1

(* The same for the face check of a request.                               *)
LEMMA CheckMoves ==
  ASSUME TypeOK, NEW r \in Request, NEW label, verifying' = [verifying EXCEPT ![r] = label],
         NEW to, CheckOf(r)' = to
  PROVE  [q \in Request |-> CheckOf(q)]' = [[q \in Request |-> CheckOf(q)] EXCEPT ![r] = to]
<1>1. \A q \in Request : q # r => CheckOf(q)' = CheckOf(q)
  BY DEF TypeOK, VerifierTypeOK, CheckOf, Request
<1> QED
  BY <1>1

(* The device is idle and has accepted nothing.                            *)
LEMMA InitRefines == Init => Serial!DInit
<1> SUFFICES ASSUME Init PROVE Serial!DInit
  OBVIOUS
<1>1. \A r \in Request : /\ StageOf(r) = "new" /\ CheckOf(r) = "no"
                         /\ (keepalive[r] = "sending") = FALSE
  BY DEF Init, VerifierInit, StageOf, CheckOf, Request
<1> QED
  BY <1>1 DEF Init, VerifierInit, Serial!DInit, Request

(* The verifier works for the request of the worker that calls it, and     *)
(* never refuses.                                                          *)
LEMMA VerifierRefines ==
  ASSUME Inv, NEW r \in Request, WorkerVerifies(r) \/ ChildRuns(r)
  PROVE  Serial!DNext \/ UNCHANGED Serial!dvars
<1>1. UNCHANGED <<worker, answers, stopAsked, keepalive>>
  BY DEF WorkerVerifies, ChildRuns, hidVars, claimVars, workerVars
<1>2. UNCHANGED [q \in Request |-> StageOf(q)]
      /\ UNCHANGED [q \in Request |-> keepalive[q] = "sending"]
  BY <1>1 DEF StageOf
<1>3. CASE ChildRuns(r)
  BY <1>1, <1>3, QuietStep DEF ChildRuns, ChildStep, ChildExits
<1>4. CASE WorkerVerifies(r)
  <2>1. worker[r] = "running" /\ Verify(r) /\ StageOf(r) = "running"
    BY <1>4 DEF WorkerVerifies, StageOf
  <2>2. ~Refuse(r)
    BY <2>1 DEF Refuse, Inv, VerifierInv, VerifierTypeOK, OwnerInv, CheckInv, Claims, Verifying,
                Request
  <2>3. CASE Spawn(r) \/ SpawnFails(r)
    <3>1. CheckOf(r) = "no"
      BY <2>3 DEF Spawn, SpawnFails, CheckOf
    <3>2. CASE Spawn(r)
      <4>1. CheckOf(r)' = "running"
        BY <3>2 DEF Spawn, CheckOf, Inv, TypeOK, VerifierTypeOK, Request
      <4>2. [q \in Request |-> CheckOf(q)]'
              = [[q \in Request |-> CheckOf(q)] EXCEPT ![r] = "running"]
        BY <3>2, <4>1, CheckMoves DEF Spawn, Inv
      <4>3. Serial!DStartCheck(r)
        BY <1>1, <1>2, <2>1, <3>1, <3>2, <4>2 DEF Serial!DStartCheck, Spawn
      <4> QED
        BY <4>3 DEF Serial!DNext
    <3>3. CASE SpawnFails(r)
      <4>1. CheckOf(r)' = "over"
        BY <3>3 DEF SpawnFails, Returns, CheckOf, Inv, TypeOK, VerifierTypeOK, Request
      <4>2. [q \in Request |-> CheckOf(q)]'
              = [[q \in Request |-> CheckOf(q)] EXCEPT ![r] = "over"]
        BY <3>3, <4>1, CheckMoves DEF SpawnFails, Returns, Inv
      <4>3. Serial!DStartCheck(r)
        BY <1>1, <1>2, <2>1, <3>1, <3>3, <4>2 DEF Serial!DStartCheck, SpawnFails, Returns
      <4> QED
        BY <4>3 DEF Serial!DNext
    <3> QED
      BY <2>3, <3>2, <3>3
  <2>4. CASE WaitReturns(r) \/ WaitTimesOut(r)
    <3>1. UNCHANGED result /\ verifying' = [verifying EXCEPT ![r] = "reaping"]
          /\ verifying[r] = "waiting"
      BY <2>4 DEF WaitReturns, WaitTimesOut
    <3>2. CheckOf(r) = "running" /\ CheckOf(r)' = "running"
      BY <3>1 DEF CheckOf, Inv, TypeOK, VerifierTypeOK, Request
    <3>3. UNCHANGED [q \in Request |-> CheckOf(q)]
      BY <3>1, <3>2, CheckMoves DEF Inv
    <3> QED
      BY <1>1, <1>2, <3>1, <3>3 DEF Serial!dvars
  <2>5. CASE Reap(r)
    <3> DEFINE v == IF cancelled THEN "CANCELLED" ELSE FromStatus(child[r])
    <3>1. verifying[r] = "reaping" /\ verifying' = [verifying EXCEPT ![r] = "done"]
          /\ result' = [result EXCEPT ![r] = v]
      BY <2>5 DEF Reap, Returns
    <3>2. CheckOf(r) = "running" /\ CheckOf(r)' = "over"
      BY <3>1 DEF CheckOf, Inv, TypeOK, VerifierTypeOK, Request
    <3>3. [q \in Request |-> CheckOf(q)]' = [[q \in Request |-> CheckOf(q)] EXCEPT ![r] = "over"]
      BY <3>1, <3>2, CheckMoves DEF Inv
    <3>4. v \in Result /\ (v = "CANCELLED" => stopAsked[r] # {})
      BY <3>1 DEF FromStatus, Result, Inv, CheckInv, Verifying
    <3>5. Serial!DEndCheck(r)
      BY <1>1, <1>2, <2>1, <3>1, <3>2, <3>3, <3>4 DEF Serial!DEndCheck
    <3> QED
      BY <3>5 DEF Serial!DNext
  <2> QED
    BY <2>1, <2>2, <2>3, <2>4, <2>5 DEF Verify
<1> QED
  BY <1>3, <1>4

(* The host makes the device accept a request, or asks it to stop one.     *)
LEMMA ReaderRefines ==
  ASSUME Inv, Host \/ ReaderContinues
  PROVE  Serial!DNext \/ UNCHANGED Serial!dvars
<1>1. ASSUME NEW c \in Chan, NEW r \in Request, RecvRequest(c, r)
      PROVE  Serial!DAccept(r)
  <2>1. worker[r] = "none" /\ WorkerTo(r, "running")
        /\ UNCHANGED <<answers, verifying, result, stopAsked>>
        /\ keepalive' = [keepalive EXCEPT ![r] = "waiting"]
    BY <1>1 DEF RecvRequest, verifierVars
  <2>2. StageOf(r) = "new" /\ StageOf(r)' = "running"
    BY <2>1 DEF StageOf, WorkerTo, Inv, TypeOK
  <2>3. [q \in Request |-> StageOf(q)]'
          = [[q \in Request |-> StageOf(q)] EXCEPT ![r] = "running"]
    BY <2>1, <2>2, StageMoves DEF Inv, WorkerPC
  <2>4. \A s \in Request : StageOf(s) \notin {"running", "returned"}
    <3>1. \A s \in Request : ~Claims(s)
      BY <1>1, ChanAssumption DEF RecvRequest, Inv, OwnerInv
    <3> QED
      BY <3>1 DEF Claims, StageOf
  <2>5. UNCHANGED [q \in Request |-> keepalive[q] = "sending"]
    <3>1. keepalive[r] = "off"
      BY <2>1 DEF Inv, AnswerInv
    <3> QED
      BY <2>1, <3>1 DEF Inv, TypeOK
  <2>6. UNCHANGED [q \in Request |-> CheckOf(q)]
    BY <2>1 DEF CheckOf
  <2> QED
    BY <2>1, <2>2, <2>3, <2>4, <2>5, <2>6
    DEF Serial!DAccept, Serial!Owns, Serial!StageTo
<1>2. ASSUME NEW c \in Chan, NEW why \in {"cancel", "init"}, StopActive(c, why),
             UNCHANGED <<verifierVars, workerVars, keepalive>>
      PROVE  Serial!DNext \/ UNCHANGED Serial!dvars
  <2>1. UNCHANGED <<worker, answers, verifying, result, keepalive>>
    BY <1>2 DEF verifierVars, workerVars
  <2>2. CASE ActiveOn(c) = {}
    <3>1. stopAsked' = stopAsked
      BY <1>2, <2>2 DEF StopActive, Inv, TypeOK
    <3> QED
      BY <2>1, <3>1, QuietStep
  <2>3. ASSUME NEW r \in ActiveOn(c) PROVE Serial!DNext
    <3>1. r \in Request /\ Claims(r) /\ \A s \in ActiveOn(c) : s = r
      BY DEF ActiveOn, Claims, Inv, OwnerInv
    <3>2. stopAsked' = [stopAsked EXCEPT ![r] = @ \cup {why}]
      BY <1>2, <3>1 DEF StopActive, Inv, TypeOK
    <3>3. StageOf(r) \in {"running", "returned"}
      BY <3>1 DEF Claims, StageOf
    <3>4. Serial!DAsk(r, why)
      BY <2>1, <3>1, <3>2, <3>3 DEF Serial!DAsk, Serial!Owns, StageOf, CheckOf
    <3> QED
      BY <3>1, <3>4 DEF Serial!DNext
  <2> QED
    BY <2>2, <2>3
<1>3. ASSUME NEW c \in Chan, RecvCancel(c) \/ RecvResync(c)
      PROVE  Serial!DNext \/ UNCHANGED Serial!dvars
  <2>1. UNCHANGED <<verifierVars, workerVars, keepalive>>
    BY <1>3 DEF RecvCancel, RecvResync
  <2>2. CASE StopActive(c, "cancel") \/ StopActive(c, "init")
    BY <1>2, <2>1, <2>2
  <2>3. CASE UNCHANGED claimVars
    BY <2>1, <2>3, QuietStep DEF verifierVars, workerVars, claimVars
  <2> QED
    BY <1>3, <2>2, <2>3 DEF RecvCancel, RecvResync
<1>4. ASSUME RecvRejected \/ RecvWhileActive \/ RecvPing \/ ReaderContinues
             \/ \E c \in Chan : RecvAllocate(c)
      PROVE  UNCHANGED Serial!dvars
  <2>1. UNCHANGED <<worker, answers, verifying, result, stopAsked, keepalive>>
    BY <1>4
    DEF RecvRejected, RecvWhileActive, RecvPing, RecvAllocate, ReaderContinues, CallCancel,
        Cancel, SendInitReply, SendError, SendPong, SendPongRest, verifierVars, claimVars,
        workerVars
  <2> QED
    BY <2>1, QuietStep
<1> QED
  BY <1>1, <1>3, <1>4 DEF Host, Serial!DNext

(* A worker returns, frees the device and answers; its keepalive thread    *)
(* sends.                                                                  *)
LEMMA WorkerRefines ==
  ASSUME Inv, NEW r \in Request,
         \/ HandleReturns(r) \/ JoinKeepalive(r) \/ Finish(r)
         \/ SendResponse(r) \/ SendContinuation(r) \/ Keepalive(r)
  PROVE  Serial!DNext \/ UNCHANGED Serial!dvars
<1>1. UNCHANGED <<verifying, result, stopAsked>> /\ UNCHANGED [q \in Request |-> CheckOf(q)]
  BY DEF HandleReturns, JoinKeepalive, Finish, SendResponse, SendContinuation, Keepalive,
         KeepaliveTick, KeepaliveSend, verifierVars, claimVars, CheckOf
<1>2. CASE HandleReturns(r)
  <2>1. worker[r] = "running" /\ WorkerTo(r, "stopping") /\ UNCHANGED <<answers, keepalive>>
        /\ verifying[r] \in {"no", "done"}
    BY <1>2 DEF HandleReturns
  <2>2. StageOf(r) = "running" /\ StageOf(r)' = "returned" /\ CheckOf(r) # "running"
    BY <2>1 DEF StageOf, CheckOf, WorkerTo, Inv, TypeOK
  <2>3. [q \in Request |-> StageOf(q)]'
          = [[q \in Request |-> StageOf(q)] EXCEPT ![r] = "returned"]
    BY <2>1, <2>2, StageMoves DEF Inv, WorkerPC
  <2>4. Serial!DReturn(r)
    BY <1>1, <2>1, <2>2, <2>3 DEF Serial!DReturn, Serial!StageTo
  <2> QED
    BY <2>4 DEF Serial!DNext
<1>3. CASE JoinKeepalive(r)
  <2>1. worker[r] = "stopping" /\ WorkerTo(r, "finishing") /\ UNCHANGED <<answers, keepalive>>
    BY <1>3 DEF JoinKeepalive
  <2>2. StageOf(r) = "returned" /\ StageOf(r)' = "returned"
    BY <2>1 DEF StageOf, WorkerTo, Inv, TypeOK
  <2>3. UNCHANGED [q \in Request |-> StageOf(q)]
    BY <2>1, <2>2, StageMoves DEF Inv, WorkerPC
  <2> QED
    BY <1>1, <2>1, <2>3 DEF Serial!dvars
<1>4. CASE Finish(r)
  <2> DEFINE label == IF aborted /\ ~cancelReply THEN "done" ELSE "replying"
             to == IF aborted /\ ~cancelReply THEN "dropped" ELSE "owing"
  <2>1. worker[r] = "finishing" /\ WorkerTo(r, label) /\ UNCHANGED <<answers, keepalive>>
    BY <1>4 DEF Finish
  <2>2. keepalive[r] # "sending" /\ answers[r] = 0 /\ label \in WorkerPC
        /\ (aborted /\ ~cancelReply => "init" \in stopAsked[r])
    BY <2>1 DEF Inv, AnswerInv, TypeOK, Claims, WorkerPC
  <2>3. StageOf(r) = "returned" /\ StageOf(r)' = to
    BY <2>1, <2>2 DEF StageOf, WorkerTo, Inv, TypeOK
  <2>4. [q \in Request |-> StageOf(q)]' = [[q \in Request |-> StageOf(q)] EXCEPT ![r] = to]
    BY <2>1, <2>2, <2>3, StageMoves DEF Inv
  <2>5. Serial!DRelease(r)
    BY <1>1, <2>1, <2>2, <2>3, <2>4 DEF Serial!DRelease, Serial!StageTo
  <2> QED
    BY <2>5 DEF Serial!DNext
<1>5. CASE SendResponse(r)
  <2>1. PICK label \in {"done", "continuing"} : WorkerTo(r, label)
    BY <1>5 DEF SendResponse
  <2>2. worker[r] = "replying" /\ answers' = [answers EXCEPT ![r] = @ + 1]
        /\ UNCHANGED keepalive /\ answers[r] \in 0..1
    BY <1>5 DEF SendResponse, Inv, TypeOK
  <2>3. StageOf(r) = "owing" /\ StageOf(r)' = "answered"
    BY <2>1, <2>2 DEF StageOf, WorkerTo, Inv, TypeOK
  <2>4. [q \in Request |-> StageOf(q)]'
          = [[q \in Request |-> StageOf(q)] EXCEPT ![r] = "answered"]
    BY <2>1, <2>2, <2>3, StageMoves DEF Inv, TypeOK, WorkerPC
  <2>5. Serial!DAnswer(r)
    BY <1>1, <2>2, <2>3, <2>4 DEF Serial!DAnswer, Serial!StageTo
  <2> QED
    BY <2>5 DEF Serial!DNext
<1>6. CASE SendContinuation(r)
  <2>1. worker[r] = "continuing" /\ WorkerTo(r, "done") /\ UNCHANGED <<answers, keepalive>>
        /\ answers[r] = 1
    BY <1>6 DEF SendContinuation, Inv, AnswerInv
  <2>2. StageOf(r) = "answered" /\ StageOf(r)' = "answered"
    BY <2>1 DEF StageOf, WorkerTo, Inv, TypeOK
  <2>3. UNCHANGED [q \in Request |-> StageOf(q)]
    BY <2>1, <2>2, StageMoves DEF Inv, WorkerPC
  <2> QED
    BY <1>1, <2>1, <2>3 DEF Serial!dvars
<1>7. CASE Keepalive(r)
  <2> DEFINE due == [q \in Request |-> keepalive[q] = "sending"]
  <2>1. UNCHANGED <<worker, answers>> /\ UNCHANGED [q \in Request |-> StageOf(q)]
    BY <1>7 DEF Keepalive, KeepaliveTick, KeepaliveSend, workerVars, StageOf
  <2>2. PICK to \in {"off", "sending", "waiting"} :
          /\ keepalive' = [keepalive EXCEPT ![r] = to]
          /\ keepalive[r] = "sending" => to = "waiting"
          /\ keepalive[r] # "sending" /\ to = "sending" => StageOf(r) = "running"
          /\ keepalive[r] # "sending" => to \in {"off", "sending"}
    <3>1. CASE KeepaliveTick(r)
      <4>1. ~StopSet(r) => StageOf(r) = "running"
        BY <3>1 DEF StopSet, StageOf, KeepaliveTick, Inv, AnswerInv
      <4> QED
        BY <3>1, <4>1 DEF KeepaliveTick
    <3>2. CASE KeepaliveSend(r)
      BY <3>2 DEF KeepaliveSend
    <3> QED
      BY <1>7, <3>1, <3>2 DEF Keepalive
  <2>3. CASE to = "off"
    <3>1. due' = due
      BY <2>2, <2>3 DEF Inv, TypeOK
    <3> QED
      BY <1>1, <2>1, <3>1 DEF Serial!dvars
  <2>4. CASE to # "off"
    <3>1. due' = [due EXCEPT ![r] = ~@]
      BY <2>2, <2>4 DEF Inv, TypeOK
    <3>2. due[r] \/ StageOf(r) = "running"
      BY <2>2, <2>4
    <3>3. Serial!DKeepalive(r)
      BY <1>1, <2>1, <3>1, <3>2 DEF Serial!DKeepalive
    <3> QED
      BY <3>3 DEF Serial!DNext
  <2> QED
    BY <2>3, <2>4
<1> QED
  BY <1>2, <1>3, <1>4, <1>5, <1>6, <1>7

(* Every step is one of the abstract device, or invisible to it.           *)
LEMMA StepRefines == Inv /\ [Next]_vars => [Serial!DNext]_(Serial!dvars)
<1> SUFFICES ASSUME Inv, [Next]_vars PROVE Serial!DNext \/ UNCHANGED Serial!dvars
  OBVIOUS
<1>1. CASE UNCHANGED vars
  BY <1>1, QuietStep
  DEF vars, verifierVars, hidVars, claimVars, workerVars
<1> QED
  BY <1>1, VerifierRefines, ReaderRefines, WorkerRefines DEF Next, Worker

(* The reader, the workers and the keepalive threads, with flags that all  *)
(* requests share, implement the device that serves one at a time.         *)
THEOREM Refinement == Spec => ImplementsSerialDevice
BY InitRefines, StepRefines, Invariance, PTL DEF Spec, ImplementsSerialDevice, Serial!DSpec
=============================================================================
