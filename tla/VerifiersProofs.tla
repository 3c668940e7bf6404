--------------------------- MODULE VerifiersProofs ---------------------------
(***************************************************************************)
(* What holds of the face checks for every number of threads, every length *)
(* of the windows of the liveness analyzer, and every face that the camera *)
(* shows.                                                                  *)
(***************************************************************************)
EXTENDS Verifiers, FaceVerifierProofs, TLAPS

-----------------------------------------------------------------------------
(* The sitting in front of the camera *)

InProgress == sitting \in {"polling", "reading"}

(* What the counters, the window and the ratios hold comes from the faces  *)
(* of this sitting.                                                        *)
EvidenceInv ==
  /\ Len(votes) <= faces
  /\ tracked <=> faces > 0
  /\ tracked => Pairs < faces
  /\ ~tracked => Pairs = 0
  /\ samples = IF enrolling THEN faces ELSE 0
  /\ sitting = "none" => faces = 0 /\ ~sawFrame /\ ~sawLight /\ ~bestMatches /\ ~anyMatched
  /\ InProgress /\ ~enrolling =>
       /\ anyMatched = bestMatches
       /\ ~pad => ~anyMatched
       /\ faces > 0 => sawLight

FaceInv == FaceTypeOK /\ EvidenceInv /\ StatusIsEarned

(* No face has been looked at.                                             *)
LEMMA FaceInitInv == FaceInit => FaceInv
<1> SUFFICES ASSUME FaceInit PROVE FaceInv
  OBVIOUS
<1> USE OnnxFaceAssumption DEF FaceInit
<1>1. votes \in Seq(BOOLEAN) /\ Len(votes) = 0
  OBVIOUS
<1>2. ratios \in [Level -> 0..MaxFaces] /\ Pairs = 0
  BY DEF Level, Pairs
<1>3. FaceTypeOK
  <2>1. MaxFaces \in Nat /\ Window \in Nat
    OBVIOUS
  <2>2. samples \in 0..MaxFaces /\ faces \in 0..MaxFaces /\ Len(votes) <= Window
    BY <1>1, <2>1
  <2>3. engine \in [Engine -> {"none", "gpu", "cpu"}]
    OBVIOUS
  <2> QED
    BY <1>1, <1>2, <2>2, <2>3 DEF FaceTypeOK, Status
<1>4. EvidenceInv
  BY <1>1, <1>2 DEF EvidenceInv, InProgress
<1> QED
  BY <1>3, <1>4 DEF FaceInv, StatusIsEarned

(* A deque of Window entries: a vote more, of which the oldest may go.     *)
LEMMA VotesGrow ==
  ASSUME FaceTypeOK, NEW live \in BOOLEAN
  PROVE  /\ Voted(live) \in Seq(BOOLEAN)
         /\ Len(Voted(live)) <= Window
         /\ Len(Voted(live)) <= Len(votes) + 1
<1> USE OnnxFaceAssumption DEF FaceTypeOK
<1>1. CASE Len(votes) < Window
  BY <1>1 DEF Voted
<1>2. CASE ~(Len(votes) < Window)
  <2>1. Len(votes) = Window /\ votes # <<>>
    BY <1>2
  <2>2. Tail(votes) \in Seq(BOOLEAN) /\ Len(Tail(votes)) = Window - 1
    BY <2>1
  <2> QED
    BY <1>2, <2>1, <2>2 DEF Voted
<1> QED
  BY <1>1, <1>2

(* A face makes at most one pair, with the face before it.                 *)
LEMMA PairsGrow ==
  ASSUME FaceInv, NEW look \in Look, Update(look), faces < MaxFaces
  PROVE  ratios' \in [Level -> 0..MaxFaces] /\ Pairs' \in Nat /\ Pairs' < faces + 1
<1> USE DEF FaceInv, FaceTypeOK, EvidenceInv, Pairs, Level
<1>1. CASE tracked /\ look.ratio # Still
  <2>1. look.ratio \in Level
    BY <1>1 DEF Look
  <2>2. ratios' = [ratios EXCEPT ![look.ratio] = @ + 1]
    BY <1>1 DEF Update
  <2>3. ratios[0] + ratios[1] + ratios[2] < faces
    BY <1>1
  <2>4. MaxFaces \in Nat /\ faces \in 0..MaxFaces
        /\ \A l \in {0, 1, 2} : ratios[l] \in Nat /\ ratios[l] <= MaxFaces
    BY OnnxFaceAssumption
  <2>5. \A l \in {0, 1, 2} : ratios[l] + 1 \in 0..MaxFaces
    BY <2>3, <2>4
  <2>6. ratios' \in [Level -> 0..MaxFaces]
    BY <2>1, <2>2, <2>5
  <2>7. \A l \in {0, 1, 2} : ratios'[l] = IF l = look.ratio THEN ratios[l] + 1 ELSE ratios[l]
    BY <2>1, <2>2
  <2>8. look.ratio = 0 \/ look.ratio = 1 \/ look.ratio = 2
    BY <2>1
  <2> HIDE DEF FaceInv, FaceTypeOK, EvidenceInv
  <2>9. ratios'[0] + ratios'[1] + ratios'[2] = ratios[0] + ratios[1] + ratios[2] + 1
    BY <2>4, <2>7, <2>8
  <2> QED
    BY <2>3, <2>4, <2>6, <2>7, <2>9
<1>2. CASE ~(tracked /\ look.ratio # Still)
  <2>1. ratios' = ratios
    BY <1>2 DEF Update
  <2> QED
    BY <2>1
<1> QED
  BY <1>1, <1>2

(* What the window and the ratios hold changes only with a face.           *)
LEMMA EvidenceKept ==
  ASSUME FaceInv, UNCHANGED livenessVars
  PROVE  Pairs' = Pairs
BY DEF livenessVars, Pairs

(* The face that is let through has been preceded by enough others.        *)
LEMMA VerdictTakesFaces ==
  ASSUME FaceInv, NEW look \in Look, SeeFace(look), Verdict'
  PROVE  faces' > MinPairs /\ faces' >= MinVotes
<1>1. Len(votes') <= faces + 1
  BY VotesGrow DEF SeeFace, Update, Look, FaceInv, FaceTypeOK, EvidenceInv
<1>2. Pairs' \in Nat /\ Pairs' < faces + 1
  BY PairsGrow DEF SeeFace
<1> QED
  BY <1>1, <1>2, OnnxFaceAssumption
  DEF Verdict, TextureOk, ParallaxOk, SeeFace, FaceInv, FaceTypeOK

(* A face keeps the invariant.                                             *)
LEMMA SeeFaceInv ==
  ASSUME FaceInv, NEW look \in Look, SeeFace(look)
  PROVE  FaceInv'
<1> USE OnnxFaceAssumption
<1>1. votes' \in Seq(BOOLEAN) /\ Len(votes') <= Window /\ Len(votes') <= Len(votes) + 1
  BY VotesGrow DEF SeeFace, Update, Look, FaceInv
<1>2. ratios' \in [Level -> 0..MaxFaces] /\ Pairs' \in Nat /\ Pairs' < faces + 1
  BY PairsGrow DEF SeeFace
<1>3. faces' = faces + 1 /\ faces' \in 0..MaxFaces /\ tracked' = TRUE
  BY DEF SeeFace, Update, FaceInv, FaceTypeOK
<1>4. samples' \in 0..MaxFaces /\ samples' = IF enrolling' THEN faces' ELSE 0
  BY <1>3 DEF SeeFace, EndWith, BackToPolling, FaceInv, FaceTypeOK, EvidenceInv
<1>5. FaceTypeOK'
  BY <1>1, <1>2, <1>3, <1>4
  DEF FaceInv, FaceTypeOK, SeeFace, EndWith, BackToPolling, BestMatches, Status, Look
<1>6. EvidenceInv'
  <2>1. Len(votes') <= faces'
    BY <1>1, <1>3 DEF FaceInv, FaceTypeOK, EvidenceInv
  <2>2. sitting' \in {"polling", "over"}
    BY DEF SeeFace, EndWith, BackToPolling
  <2>3. InProgress' /\ ~enrolling' =>
          anyMatched' = bestMatches' /\ (~pad' => ~anyMatched') /\ (faces' > 0 => sawLight')
    BY DEF FaceInv, FaceTypeOK, EvidenceInv, InProgress, SeeFace, EndWith, BackToPolling,
           BestMatches, Look
  <2> QED
    BY <1>2, <1>3, <1>4, <2>1, <2>2, <2>3 DEF EvidenceInv
<1>7. StatusIsEarned'
  <2>1. CASE sitting' = "over"
    <3>1. /\ status' \in {"SUCCESS", "raised"}
          /\ ~pad \/ Verdict'
          /\ pad' = pad /\ enrolling' = enrolling
      BY <2>1 DEF SeeFace, EndWith, BackToPolling
    <3>2. IF enrolling THEN samples' >= Samples ELSE anyMatched'
      BY <2>1 DEF SeeFace, EndWith, BackToPolling
    <3> QED
      BY <1>4, <3>1, <3>2, VerdictTakesFaces DEF StatusIsEarned
  <2>2. CASE sitting' # "over"
    BY <2>2 DEF StatusIsEarned
  <2> QED
    BY <2>1, <2>2
<1> QED
  BY <1>5, <1>6, <1>7 DEF FaceInv

(* So does everything else that happens in a sitting, whatever the         *)
(* caller's cancel_check says.                                             *)
LEMMA LoopStepInv ==
  ASSUME FaceInv, NEW stop \in BOOLEAN, LoopStep(stop)
  PROVE  FaceInv'
<1> USE DEF FaceInv, FaceTypeOK, EvidenceInv, StatusIsEarned, InProgress, Status,
            EndWith, BackToPolling, countVars, livenessVars, evidenceVars
<1>1. CASE PollCancelled(stop)
  BY <1>1, EvidenceKept DEF PollCancelled
<1>2. CASE PollGoesOn(stop)
  BY <1>2, EvidenceKept DEF PollGoesOn
<1>3. CASE DeadlinePasses
  <2>1. Conclusion \in Status /\ Conclusion \notin {"SUCCESS", "raised"}
    BY DEF Conclusion
  <2>2. Conclusion = "TIMEOUT_REACHED" /\ ~enrolling => ~anyMatched
    BY <1>3 DEF DeadlinePasses, Conclusion
  <2>3. Conclusion = "PRESENTATION_ATTACK" => anyMatched
    BY <1>3 DEF DeadlinePasses, Conclusion
  <2>4. Conclusion = "TOO_DARK" => faces = 0
    BY <1>3 DEF DeadlinePasses, Conclusion
  <2>5. status' = Conclusion /\ sitting' = "over"
    BY <1>3 DEF DeadlinePasses
  <2>6. StatusIsEarned'
    BY <1>3, <2>1, <2>2, <2>3, <2>4, <2>5 DEF DeadlinePasses
  <2>7. FaceTypeOK'
    BY <1>3, <2>1, <2>5 DEF DeadlinePasses
  <2>8. EvidenceInv'
    BY <1>3, EvidenceKept DEF DeadlinePasses
  <2> QED
    BY <2>6, <2>7, <2>8
<1>4. CASE NoFrame
  BY <1>4, EvidenceKept DEF NoFrame
<1>5. CASE DarkFrame
  BY <1>5, EvidenceKept DEF DarkFrame
<1>6. CASE EmptyFrame
  BY <1>6, EvidenceKept DEF EmptyFrame
<1>7. CASE FrameRaises
  BY <1>7, EvidenceKept DEF FrameRaises
<1>8. ASSUME NEW e \in Engine, FallBack(e) PROVE FaceInv'
  BY <1>8, EvidenceKept DEF FallBack
<1>9. ASSUME NEW look \in Look, SeeFace(look) PROVE FaceInv'
  BY <1>9, SeeFaceInv
<1> QED
  BY <1>1, <1>2, <1>3, <1>4, <1>5, <1>6, <1>7, <1>8, <1>9 DEF LoopStep

(* The ways into a sitting, out of it, and the clock.                      *)
LEMMA AroundLoopInv ==
  ASSUME FaceInv,
         \/ NoModels \/ Leave \/ TimePasses
         \/ \E enroll \in BOOLEAN :
              RaisesAtOnce(enroll) \/ CameraFailsToOpen(enroll) \/ BeginSitting(enroll)
  PROVE  FaceInv'
<1> USE OnnxFaceAssumption
    DEF FaceInv, FaceTypeOK, EvidenceInv, StatusIsEarned, InProgress, Status,
        countVars, livenessVars, evidenceVars
<1>1. CASE NoModels
  BY <1>1, EvidenceKept DEF NoModels
<1>2. CASE Leave
  <2>1. Pairs' = 0 /\ ratios' \in [Level -> 0..MaxFaces]
    BY <1>2 DEF Leave, Pairs, Level
  <2>2. votes' \in Seq(BOOLEAN) /\ Len(votes') = 0
    BY <1>2 DEF Leave
  <2>3. faces' \in 0..MaxFaces /\ samples' \in 0..MaxFaces /\ Len(votes') <= Window
    BY <1>2, <2>2 DEF Leave, Forgotten
  <2>4. FaceTypeOK'
    BY <1>2, <2>1, <2>2, <2>3 DEF Leave, Forgotten
  <2>5. EvidenceInv' /\ StatusIsEarned'
    BY <1>2, <2>1, <2>2 DEF Leave, Forgotten
  <2> QED
    BY <2>4, <2>5
<1>3. CASE TimePasses
  BY <1>3, EvidenceKept DEF TimePasses
<1>4. ASSUME NEW enroll \in BOOLEAN, CameraFailsToOpen(enroll) PROVE FaceInv'
  BY <1>4, EvidenceKept DEF CameraFailsToOpen
<1>5. ASSUME NEW enroll \in BOOLEAN, BeginSitting(enroll) PROVE FaceInv'
  BY <1>5, EvidenceKept DEF BeginSitting
<1>6. ASSUME NEW enroll \in BOOLEAN, RaisesAtOnce(enroll) PROVE FaceInv'
  BY <1>6, EvidenceKept DEF RaisesAtOnce
<1> QED
  BY <1>1, <1>2, <1>3, <1>4, <1>5, <1>6

(* The engines, and whatever else leaves the sitting alone.                *)
LEMMA EnginesInv ==
  ASSUME FaceInv,
         engine' \in [Engine -> {"none", "gpu", "cpu"}],
         UNCHANGED <<pad, sitting, enrolling, camera, late, countVars, livenessVars, status,
                     evidenceVars>>
  PROVE  FaceInv'
BY EvidenceKept
DEF FaceInv, FaceTypeOK, EvidenceInv, StatusIsEarned, InProgress, Status,
    countVars, livenessVars, evidenceVars

-----------------------------------------------------------------------------
(* The threads of the in-process check *)

(* The lock is held exactly while the pipeline that is not there yet is    *)
(* being built, so that it is built once; and until a check has answered,  *)
(* the event is set when a cancel() has hit it, and only then.             *)
ThreadInv ==
  /\ pipeline \in BOOLEAN /\ cancelEvent \in BOOLEAN
  /\ lock \in Caller \cup {Preloader, NoCaller}
  /\ check \in [Caller \cup {Preloader} -> CheckPC]
  /\ answer \in [Caller -> OnnxResult \cup {"none"}]
  /\ asked \subseteq Caller
  /\ built = IF pipeline THEN 1 ELSE 0
  /\ \A t \in Caller \cup {Preloader} : check[t] = "building" <=> lock = t
  /\ lock # NoCaller => ~pipeline
  /\ \A t \in asked : check[t] # "no"
  /\ \A t \in Caller : check[t] \notin {"no", "done"} => (t \in asked <=> cancelEvent)
  /\ StoppedCheckNeverSucceeds

OnnxInv == FaceInv /\ ThreadInv

(* Nothing runs yet.                                                       *)
LEMMA OnnxInitInv == OnnxInit => OnnxInv
BY FaceInitInv, OnnxVerifierAssumption
DEF OnnxInit, OnnxInv, ThreadInv, CheckPC, StoppedCheckNeverSucceeds

(* What the threads do keeps the part of the invariant that is theirs.     *)
LEMMA ThreadStepInv ==
  ASSUME OnnxInv, OnnxNext
  PROVE  ThreadInv'
<1> USE OnnxVerifierAssumption
    DEF OnnxInv, ThreadInv, StoppedCheckNeverSucceeds, CheckPC, OnnxResult, Goes, Answers
<1>1. CASE SetCancel
  BY <1>1 DEF SetCancel
<1>2. CASE StartPreload
  BY <1>2 DEF StartPreload
<1>3. CASE PreloadEnds
  BY <1>3 DEF PreloadEnds
<1>4. CASE SittingGoesOn \/ Time
  BY <1>4 DEF SittingGoesOn, Time, threadVars
<1>5. ASSUME NEW t \in Caller, ClearCancel(t) PROVE ThreadInv'
  BY <1>5 DEF ClearCancel
<1>6. ASSUME NEW t \in Caller \cup {Preloader}, LockPipeline(t) PROVE ThreadInv'
  BY <1>6 DEF LockPipeline
<1>7. ASSUME NEW t \in Caller \cup {Preloader}, Build(t) PROVE ThreadInv'
  BY <1>7 DEF Build
<1>8. ASSUME NEW t \in Caller \cup {Preloader}, BuildFails(t) PROVE ThreadInv'
  BY <1>8 DEF BuildFails
<1>9. ASSUME NEW t \in Caller \cup {Preloader}, Sit(t) PROVE ThreadInv'
  BY <1>9 DEF Sit
<1>10. ASSUME NEW t \in Caller \cup {Preloader}, CheckReturns(t) PROVE ThreadInv'
  BY <1>10 DEF CheckReturns, FaceInv, FaceTypeOK
<1> QED
  BY <1>1, <1>2, <1>3, <1>4, <1>5, <1>6, <1>7, <1>8, <1>9, <1>10 DEF OnnxNext, Runs

(* And so do the sittings.                                                 *)
LEMMA OnnxStepInv ==
  ASSUME OnnxInv, OnnxNext
  PROVE  OnnxInv'
<1>1. CASE UNCHANGED faceVars
  <2>1. UNCHANGED livenessVars
    BY <1>1 DEF faceVars
  <2> QED
    BY <1>1, <2>1, EnginesInv, ThreadStepInv DEF OnnxInv, FaceInv, FaceTypeOK, faceVars
<1>2. CASE SittingGoesOn
  BY <1>2, LoopStepInv, ThreadStepInv DEF SittingGoesOn, OnnxInv, ThreadInv
<1>3. ASSUME NEW t \in Caller \cup {Preloader}, Build(t) PROVE OnnxInv'
  <2>1. engine' \in [Engine -> {"none", "gpu", "cpu"}]
    BY <1>3 DEF Build, LoadEngines
  <2> QED
    BY <1>3, <2>1, EnginesInv, ThreadStepInv DEF Build, OnnxInv
<1>4. CASE Time \/ \E t \in Caller \cup {Preloader} : Sit(t) \/ CheckReturns(t)
  BY <1>4, AroundLoopInv, ThreadStepInv DEF Time, Sit, CheckReturns, OnnxInv
<1>5. CASE \/ SetCancel \/ StartPreload \/ PreloadEnds
           \/ \E t \in Caller : ClearCancel(t)
           \/ \E t \in Caller \cup {Preloader} : LockPipeline(t) \/ BuildFails(t)
  BY <1>1, <1>5
  DEF SetCancel, StartPreload, PreloadEnds, ClearCancel, LockPipeline, BuildFails
<1> QED
  BY <1>2, <1>3, <1>4, <1>5 DEF OnnxNext, Runs

-----------------------------------------------------------------------------
(* compare_onnx.py *)

ProgramInv == FaceInv /\ ProgramTypeOK

(* Each of its steps is one of the sitting, or leaves the sitting alone.   *)
LEMMA ProgramStepInv ==
  ASSUME ProgramInv, ProgramNext
  PROVE  ProgramInv'
<1> USE DEF ProgramInv, ProgramTypeOK
<1>1. CASE BuildsPipeline
  <2>1. engine' \in [Engine -> {"none", "gpu", "cpu"}]
    BY <1>1 DEF BuildsPipeline, LoadEngines
  <2> QED
    BY <1>1, <2>1, EnginesInv DEF BuildsPipeline
<1>2. CASE HasNoWeights
  BY <1>2, EnginesInv DEF HasNoWeights, faceVars, FaceInv, FaceTypeOK
<1>3. CASE Enrolls
  BY <1>3, AroundLoopInv DEF Enrolls
<1>4. CASE Verifies
  BY <1>4, AroundLoopInv DEF Verifies
<1>5. CASE Sits
  BY <1>5, LoopStepInv DEF Sits, programVars
<1>6. CASE Exits
  BY <1>6, AroundLoopInv DEF Exits, FaceInv, FaceTypeOK
<1>7. CASE TimePasses /\ UNCHANGED programVars
  BY <1>7, AroundLoopInv DEF programVars
<1> QED
  BY <1>1, <1>2, <1>3, <1>4, <1>5, <1>6, <1>7 DEF ProgramNext

-----------------------------------------------------------------------------
(* Whichever of the three is chosen *)

Inv ==
  /\ backend \in {"compare", "onnx", "compare_onnx"}
  /\ VerifierInv /\ OnnxInv /\ ProgramTypeOK

(* The induction: the two that were not chosen stay as they are.           *)
THEOREM Invariance == Spec => []Inv
<1>1. Init => Inv
  BY VerifierInitInv, OnnxInitInv
  DEF Init, Inv, ChooseVerifier, ProgramInit, ProgramTypeOK
<1>2. Inv /\ [Next]_vars => Inv'
  <2> SUFFICES ASSUME Inv, [Next]_vars PROVE Inv'
    OBVIOUS
  <2>1. ASSUME UNCHANGED verifierVars PROVE VerifierInv'
    BY <2>1
    DEF Inv, verifierVars, VerifierInv, VerifierTypeOK, Verifying, HitCheckIsCancelled
  <2>2. ASSUME UNCHANGED threadVars PROVE ThreadInv'
    BY <2>2 DEF Inv, OnnxInv, threadVars, ThreadInv, StoppedCheckNeverSucceeds
  <2>3. ASSUME UNCHANGED faceVars PROVE FaceInv'
    BY <2>3, EnginesInv DEF Inv, OnnxInv, faceVars, FaceInv, FaceTypeOK
  <2>4. CASE backend = "compare" /\ VerifierNext /\ UNCHANGED <<backend, onnxVars, programVars>>
    BY <2>2, <2>3, <2>4, VerifierStepInv
    DEF Inv, OnnxInv, onnxVars, programVars, ProgramTypeOK
  <2>5. CASE backend = "onnx" /\ OnnxNext /\ UNCHANGED <<backend, verifierVars, programVars>>
    BY <2>1, <2>5, OnnxStepInv DEF Inv, programVars, ProgramTypeOK
  <2>6. CASE /\ backend = "compare_onnx" /\ ProgramNext
             /\ UNCHANGED <<backend, verifierVars, threadVars>>
    BY <2>1, <2>2, <2>6, ProgramStepInv DEF Inv, OnnxInv, ProgramInv
  <2>7. CASE UNCHANGED vars
    BY <2>1, <2>2, <2>3, <2>7 DEF vars, Inv, OnnxInv, onnxVars, programVars, ProgramTypeOK
  <2> QED
    BY <2>4, <2>5, <2>6, <2>7 DEF Next
<1> QED
  BY <1>1, <1>2, PTL DEF Spec

(* The variables keep their types, whatever the sizes; with them, the      *)
(* service builds its pipeline once.                                       *)
THEOREM TypeCorrect == Spec => []TypeOK
<1>1. Inv => TypeOK
  BY DEF Inv, TypeOK, VerifierInv, OnnxInv, ThreadInv, OnnxTypeOK, FaceInv
<1> QED
  BY <1>1, Invariance, PTL

(* However many threads call verify(), two compare.py never compete for    *)
(* the camera: verify() holds the slot from its spawn to its reaping.      *)
THEOREM OneChildOnly == Spec => []OneChildAtATime
<1>1. Inv => OneChildAtATime
  BY OneChild DEF Inv
<1> QED
  BY <1>1, Invariance, PTL

(* A check that was running at a cancel() returns CANCELLED, because no    *)
(* other verify() can clear the flag before it has read it.                *)
THEOREM HitsAreCancelled == Spec => []HitCheckIsCancelled
<1>1. Inv => HitCheckIsCancelled
  BY DEF Inv, VerifierInv
<1> QED
  BY <1>1, Invariance, PTL

(* The status of a sitting with the ONNX pipeline is earned in it, however *)
(* long the windows and however many faces it looks at.                    *)
THEOREM EveryStatusIsEarned == Spec => []StatusIsEarned
<1>1. Inv => StatusIsEarned
  BY DEF Inv, OnnxInv, FaceInv
<1> QED
  BY <1>1, Invariance, PTL

(* A match that comes too late is not passed on: the in-process check that *)
(* was running at a cancel() does not succeed.                             *)
THEOREM StoppedNeverSucceeds == Spec => []StoppedCheckNeverSucceeds
<1>1. Inv => StoppedCheckNeverSucceeds
  BY DEF Inv, OnnxInv, ThreadInv
<1> QED
  BY <1>1, Invariance, PTL

-----------------------------------------------------------------------------
(* The refinement of FaceCheck *)

(* A thread that moves changes the stage of its own check only.            *)
LEMMA ChildStageMoves ==
  ASSUME VerifierTypeOK, NEW t \in Thread, NEW label,
         verifying' = [verifying EXCEPT ![t] = label], NEW to, ChildStage(t)' = to
  PROVE  [u \in Thread |-> ChildStage(u)]' = [[u \in Thread |-> ChildStage(u)] EXCEPT ![t] = to]
<1>1. \A u \in Thread : u # t => ChildStage(u)' = ChildStage(u)
  BY DEF VerifierTypeOK, ChildStage
<1> QED
  BY <1>1

(* The child is spawned, waited for and reaped within one check.           *)
LEMMA ChildRefines ==
  ASSUME VerifierInv, VerifierNext
  PROVE  ByChild!FNext \/ UNCHANGED ByChild!fvars
<1> DEFINE answers == [t \in Thread |-> IF verifying[t] = "done" THEN result[t] ELSE "none"]
           stages == [t \in Thread |-> ChildStage(t)]
<1>1. \A t \in Thread : stages[t] = "running" <=> process = t
  BY DEF VerifierInv, VerifierTypeOK, Verifying, ChildStage
<1>2. ASSUME UNCHANGED verifying, UNCHANGED result PROVE stages' = stages /\ answers' = answers
  BY <1>2 DEF ChildStage
<1>3. CASE Cancel
  <2>1. {t \in Thread : stages[t] = "running"} = {process} \ {NoThread}
    BY <1>1, VerifierAssumption DEF VerifierInv, VerifierTypeOK
  <2>2. ByChild!FCancel
    BY <1>2, <1>3, <2>1 DEF ByChild!FCancel, Cancel
  <2> QED
    BY <2>2 DEF ByChild!FNext
<1>4. ASSUME NEW t \in Thread, Refuse(t) \/ SpawnFails(t)
      PROVE  ByChild!FRefuse(t)
  <2> DEFINE a == IF process # NoThread THEN "ABORT" ELSE "UNKNOWN_ERROR"
  <2>1. /\ verifying[t] = "no" /\ verifying' = [verifying EXCEPT ![t] = "done"]
        /\ result' = [result EXCEPT ![t] = a] /\ UNCHANGED hit
    BY <1>4 DEF Refuse, SpawnFails, Returns
  <2>2. stages[t] = "idle" /\ ChildStage(t)' = "over"
    BY <2>1 DEF ChildStage, VerifierInv, VerifierTypeOK
  <2>3. stages' = [stages EXCEPT ![t] = "over"]
    BY <2>1, <2>2, ChildStageMoves DEF VerifierInv
  <2>4. answers' = [answers EXCEPT ![t] = a]
    BY <2>1 DEF VerifierInv, VerifierTypeOK
  <2>5. (\E d \in Thread : stages[d] = "running") <=> process # NoThread
    BY <1>1, VerifierAssumption DEF VerifierInv, VerifierTypeOK
  <2> QED
    BY <2>1, <2>2, <2>3, <2>4, <2>5 DEF ByChild!FRefuse, ByChild!OverWith
<1>5. ASSUME NEW t \in Thread, Spawn(t)
      PROVE  ByChild!FBegin(t)
  <2>1. /\ verifying[t] = "no" /\ verifying' = [verifying EXCEPT ![t] = "waiting"]
        /\ UNCHANGED <<result, hit>> /\ process = NoThread
    BY <1>5 DEF Spawn
  <2>2. ChildStage(t)' = "running"
    BY <2>1 DEF ChildStage, VerifierInv, VerifierTypeOK
  <2>3. stages' = [stages EXCEPT ![t] = "running"]
    BY <2>1, <2>2, ChildStageMoves DEF VerifierInv
  <2>4. answers' = [answers EXCEPT ![t] = "none"]
    BY <2>1 DEF VerifierInv, VerifierTypeOK
  <2>5. \A d \in Thread : stages[d] # "running"
    BY <1>1, <2>1, VerifierAssumption
  <2>6. hit' = hit \ {t}
    BY <2>1 DEF VerifierInv
  <2> QED
    BY <2>3, <2>4, <2>5, <2>6 DEF ByChild!FBegin
<1>6. ASSUME NEW t \in Thread, WaitReturns(t) \/ WaitTimesOut(t)
      PROVE  UNCHANGED ByChild!fvars
  <2>1. /\ verifying[t] = "waiting" /\ verifying' = [verifying EXCEPT ![t] = "reaping"]
        /\ UNCHANGED <<result, hit>>
    BY <1>6 DEF WaitReturns, WaitTimesOut
  <2>2. ChildStage(t) = "running" /\ ChildStage(t)' = "running"
    BY <2>1 DEF ChildStage, VerifierInv, VerifierTypeOK
  <2>3. stages' = stages
    BY <2>1, <2>2, ChildStageMoves DEF VerifierInv
  <2>4. answers' = answers
    BY <2>1 DEF VerifierInv, VerifierTypeOK
  <2> QED
    BY <2>1, <2>3, <2>4 DEF ByChild!fvars
<1>7. ASSUME NEW t \in Thread, Reap(t)
      PROVE  ByChild!FEnd(t)
  <2> DEFINE a == IF cancelled THEN "CANCELLED" ELSE FromStatus(child[t])
  <2>1. /\ verifying[t] = "reaping" /\ verifying' = [verifying EXCEPT ![t] = "done"]
        /\ result' = [result EXCEPT ![t] = a] /\ UNCHANGED hit
    BY <1>7 DEF Reap, Returns
  <2>2. stages[t] = "running" /\ ChildStage(t)' = "over"
    BY <2>1 DEF ChildStage, VerifierInv, VerifierTypeOK
  <2>3. stages' = [stages EXCEPT ![t] = "over"]
    BY <2>1, <2>2, ChildStageMoves DEF VerifierInv
  <2>4. answers' = [answers EXCEPT ![t] = a]
    BY <2>1 DEF VerifierInv, VerifierTypeOK
  <2>5. a \in Result /\ (t \in hit => a = "CANCELLED") /\ (a = "CANCELLED" => t \in hit)
    BY <2>1 DEF FromStatus, Result, VerifierInv, Verifying
  <2> QED
    BY <2>1, <2>2, <2>3, <2>4, <2>5 DEF ByChild!FEnd, ByChild!OverWith
<1>8. ASSUME NEW t \in Thread, ChildStep(t)
      PROVE  UNCHANGED ByChild!fvars
  <2>1. UNCHANGED <<verifying, result, hit>>
    BY <1>8 DEF ChildStep, ChildExits
  <2> QED
    BY <1>2, <2>1 DEF ByChild!fvars
<1> QED
  BY <1>3, <1>4, <1>5, <1>6, <1>7, <1>8 DEF VerifierNext, Verify, ByChild!FNext

(* A thread that moves changes the stage of its own check only.            *)
LEMMA PipelineStageMoves ==
  ASSUME ThreadInv, NEW t \in Caller, NEW label, Goes(t, label), NEW to, PipelineStage(t)' = to
  PROVE  [u \in Caller |-> PipelineStage(u)]'
           = [[u \in Caller |-> PipelineStage(u)] EXCEPT ![t] = to]
<1>1. \A u \in Caller : u # t => PipelineStage(u)' = PipelineStage(u)
  BY DEF ThreadInv, Goes, PipelineStage
<1> QED
  BY <1>1

(* The thread that calls loads the pipeline and sits, within one check.    *)
LEMMA PipelineRefines ==
  ASSUME OnnxInv, OnnxNext
  PROVE  ByPipeline!FNext \/ UNCHANGED ByPipeline!fvars
<1> DEFINE stages == [t \in Caller |-> PipelineStage(t)]
<1>1. \A t \in Caller : stages[t] = "running" <=> check[t] \notin {"no", "done"}
  BY DEF PipelineStage
<1>2. CASE SetCancel
  <2>1. stages' = stages
    BY <1>2 DEF SetCancel, PipelineStage
  <2>2. {t \in Caller : stages[t] = "running"} = {t \in Caller : check[t] \notin {"no", "done"}}
    BY <1>1
  <2>3. ByPipeline!FCancel
    BY <1>2, <2>1, <2>2 DEF ByPipeline!FCancel, SetCancel
  <2> QED
    BY <2>3 DEF ByPipeline!FNext
<1>3. ASSUME NEW t \in Caller, ClearCancel(t)
      PROVE  ByPipeline!FBegin(t)
  <2>1. Goes(t, "loading") /\ PipelineStage(t)' = "running"
    BY <1>3 DEF ClearCancel, Goes, PipelineStage, OnnxInv, ThreadInv
  <2>2. stages' = [stages EXCEPT ![t] = "running"]
    BY <2>1, PipelineStageMoves DEF OnnxInv
  <2> QED
    BY <1>1, <1>3, <2>2 DEF ByPipeline!FBegin, ClearCancel
<1>4. ASSUME NEW t \in Caller, NEW label \in {"building", "loaded", "sitting"}, Goes(t, label),
             check[t] \in {"loading", "building", "loaded"}, UNCHANGED <<answer, asked>>
      PROVE  UNCHANGED ByPipeline!fvars
  <2>1. PipelineStage(t) = "running" /\ PipelineStage(t)' = "running"
    BY <1>4 DEF Goes, PipelineStage, OnnxInv, ThreadInv
  <2>2. stages' = stages
    BY <1>4, <2>1, PipelineStageMoves DEF OnnxInv
  <2> QED
    BY <1>4, <2>2 DEF ByPipeline!fvars
<1>5. ASSUME NEW t \in Caller, NEW a \in OnnxResult, Answers(t, a), UNCHANGED asked,
             check[t] \in {"building", "sitting"},
             a = "UNKNOWN_ERROR" \/ (a = "CANCELLED" <=> cancelEvent)
      PROVE  ByPipeline!FEnd(t)
  <2>1. stages[t] = "running" /\ PipelineStage(t)' = "over"
    BY <1>5 DEF Answers, Goes, PipelineStage, OnnxInv, ThreadInv
  <2>2. stages' = [stages EXCEPT ![t] = "over"]
    BY <1>5, <2>1, PipelineStageMoves DEF OnnxInv, Answers
  <2>3. (t \in asked => a \in {"CANCELLED", "UNKNOWN_ERROR"}) /\ (a = "CANCELLED" => t \in asked)
    BY <1>5 DEF OnnxInv, ThreadInv
  <2> QED
    BY <1>5, <2>1, <2>2, <2>3 DEF ByPipeline!FEnd, ByPipeline!OverWith, Answers
<1>6. ASSUME UNCHANGED <<answer, asked>>, \A t \in Caller : check'[t] = check[t]
      PROVE  UNCHANGED ByPipeline!fvars
  BY <1>6 DEF ByPipeline!fvars, PipelineStage
<1>7. CASE StartPreload \/ PreloadEnds \/ SittingGoesOn \/ Time
  <2>1. UNCHANGED <<answer, asked>> /\ \A t \in Caller : check'[t] = check[t]
    BY <1>7, OnnxVerifierAssumption
    DEF StartPreload, PreloadEnds, SittingGoesOn, Time, threadVars, Goes, OnnxInv, ThreadInv
  <2> QED
    BY <1>6, <2>1
<1>8. ASSUME NEW t \in Caller, Runs(t)
      PROVE  ByPipeline!FEnd(t) \/ UNCHANGED ByPipeline!fvars
  <2>1. CASE LockPipeline(t) \/ Build(t) \/ Sit(t)
    BY <1>4, <2>1 DEF LockPipeline, Build, Sit
  <2>2. CASE BuildFails(t)
    BY <1>5, <2>2, OnnxVerifierAssumption DEF BuildFails, OnnxResult
  <2>3. CASE CheckReturns(t)
    <3> DEFINE a == IF status = "raised" THEN "UNKNOWN_ERROR"
                    ELSE IF cancelEvent THEN "CANCELLED" ELSE status
    <3>1. status \in Status
      BY DEF OnnxInv, FaceInv, FaceTypeOK
    <3>2. a \in OnnxResult /\ (a = "UNKNOWN_ERROR" \/ (a = "CANCELLED" <=> cancelEvent))
      BY <3>1 DEF OnnxResult, Status
    <3> QED
      BY <1>5, <2>3, <3>2 DEF CheckReturns
  <2> QED
    BY <1>8, <2>1, <2>2, <2>3 DEF Runs
<1>9. ASSUME Runs(Preloader)
      PROVE  UNCHANGED ByPipeline!fvars
  <2>1. UNCHANGED <<answer, asked>> /\ \A t \in Caller : check'[t] = check[t]
    BY <1>9, OnnxVerifierAssumption
    DEF Runs, LockPipeline, Build, BuildFails, Sit, CheckReturns, Goes, OnnxInv, ThreadInv
  <2> QED
    BY <1>6, <2>1
<1> QED
  BY <1>2, <1>3, <1>7, <1>8, <1>9 DEF OnnxNext, ByPipeline!FNext

(* The child and the pipeline keep the same promises to the service.       *)
THEOREM Refinement == Spec => ImplementsFaceCheck
<1>1. Init => ByChild!FInit /\ ByPipeline!FInit
  <2> SUFFICES ASSUME Init PROVE ByChild!FInit /\ ByPipeline!FInit
    OBVIOUS
  <2>1. ByChild!FInit
    BY DEF Init, VerifierInit, ByChild!FInit, ChildStage
  <2>2. ByPipeline!FInit
    BY DEF Init, OnnxInit, ByPipeline!FInit, PipelineStage
  <2> QED
    BY <2>1, <2>2
<1>2. Inv /\ [Next]_vars
        => [ByChild!FNext]_(ByChild!fvars) /\ [ByPipeline!FNext]_(ByPipeline!fvars)
  <2> SUFFICES ASSUME Inv, [Next]_vars
               PROVE  /\ ByChild!FNext \/ UNCHANGED ByChild!fvars
                      /\ ByPipeline!FNext \/ UNCHANGED ByPipeline!fvars
    OBVIOUS
  <2>1. ASSUME UNCHANGED verifierVars PROVE UNCHANGED ByChild!fvars
    BY <2>1 DEF verifierVars, ByChild!fvars, ChildStage
  <2>2. ASSUME UNCHANGED threadVars PROVE UNCHANGED ByPipeline!fvars
    BY <2>2 DEF threadVars, ByPipeline!fvars, PipelineStage
  <2>3. CASE VerifierNext /\ UNCHANGED onnxVars
    BY <2>2, <2>3, ChildRefines DEF Inv, onnxVars
  <2>4. CASE OnnxNext /\ UNCHANGED verifierVars
    BY <2>1, <2>4, PipelineRefines DEF Inv
  <2>5. CASE UNCHANGED <<verifierVars, threadVars>>
    BY <2>1, <2>2, <2>5
  <2> QED
    BY <2>3, <2>4, <2>5 DEF Next, vars, onnxVars
<1> QED
  BY <1>1, <1>2, Invariance, PTL
  DEF Spec, ImplementsFaceCheck, ByChild!FSpec, ByPipeline!FSpec
=============================================================================
