----------------------------- MODULE Verifiers ------------------------------
(***************************************************************************)
(* The three ways to look at a face that share verification.py and its     *)
(* statuses: the compare.py child of FaceVerifier, the in-process pipeline *)
(* of OnnxBoundVerifier, one of which create_verifier chooses for the      *)
(* service, and compare_onnx.py.                                           *)
(***************************************************************************)
EXTENDS FaceVerifier, OnnxVerifier, CompareOnnx

VARIABLE backend      \* which of them runs
vars == <<backend, verifierVars, onnxVars, programVars>>

(* create_verifier: [onnx] enabled and an onnx_face that can be imported.  *)
ChooseVerifier(enabled, importable) ==
  IF enabled /\ importable THEN "onnx" ELSE "compare"

Init ==
  /\ VerifierInit /\ OnnxInit /\ ProgramInit
  /\ \/ \E enabled, importable \in BOOLEAN : backend = ChooseVerifier(enabled, importable)
     \/ backend = "compare_onnx"

Next ==
  \/ /\ backend = "compare" /\ VerifierNext
     /\ UNCHANGED <<backend, onnxVars, programVars>>
  \/ /\ backend = "onnx" /\ OnnxNext
     /\ UNCHANGED <<backend, verifierVars, programVars>>
  \/ /\ backend = "compare_onnx" /\ ProgramNext
     /\ UNCHANGED <<backend, verifierVars, threadVars>>

(* VerifierFairness and OnnxFairness, each where its threads run.          *)
Spec ==
  /\ Init /\ [][Next]_vars
  /\ \A t \in Thread : WF_verifierVars(backend = "compare" /\ Verify(t))
  /\ OnnxFairness

TypeOK == VerifierTypeOK /\ OnnxTypeOK /\ ProgramTypeOK

(* Both verifiers of the service keep the same promises: whatever races    *)
(* with the cancel(), a check that it hit does not succeed, and one that   *)
(* it missed does not say that it was cancelled.                           *)
ChildStage(t) ==
  CASE verifying[t] = "no"   -> "idle"
    [] verifying[t] = "done" -> "over"
    [] OTHER                 -> "running"
PipelineStage(t) ==
  CASE check[t] = "no"   -> "idle"
    [] check[t] = "done" -> "over"
    [] OTHER             -> "running"

ByChild ==
  INSTANCE FaceCheck
    WITH Call <- Thread, Answer <- Result, hits <- hit,
         stage <- [t \in Thread |-> ChildStage(t)],
         answer <- [t \in Thread |-> IF verifying[t] = "done" THEN result[t] ELSE "none"]
ByPipeline ==
  INSTANCE FaceCheck
    WITH Call <- Caller, Answer <- OnnxResult, hits <- asked,
         stage <- [t \in Caller |-> PipelineStage(t)],
         answer <- answer
ImplementsFaceCheck == ByChild!FSpec /\ ByPipeline!FSpec

(* Every check ends, also when compare.py hangs, and whatever the camera   *)
(* shows or fails to show.                                                 *)
EveryCheckReturns ==
  /\ \A t \in Thread : verifying[t] = "waiting" ~> verifying[t] = "done"
  /\ \A t \in Caller : check[t] = "loading" ~> check[t] = "done"
=============================================================================
