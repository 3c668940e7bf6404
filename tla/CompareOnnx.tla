---------------------------- MODULE CompareOnnx -----------------------------
(***************************************************************************)
(* compare_onnx.py: a process of its own that verifies (also with --test)  *)
(* or enrolls its user with a pipeline it builds first, and exits with the *)
(* status of the sitting.  Nobody cancels it.                              *)
(***************************************************************************)
EXTENDS OnnxFace

VARIABLES program,    \* where main() is
          exitCode    \* what the process exited with
programVars == <<program, exitCode>>

ProgramInit == program = "start" /\ exitCode = "none"

(* FacePipeline(settings)                                                  *)
BuildsPipeline ==
  /\ program = "start"
  /\ \E provider \in [Engine -> {"gpu", "cpu"}] : LoadEngines(provider)
  /\ program' = "built"
  /\ UNCHANGED <<pad, sitting, enrolling, camera, late, countVars, livenessVars, status,
       evidenceVars, exitCode>>

(* It raises RuntimeError: no weights.                                     *)
HasNoWeights ==
  /\ program = "start"
  /\ program' = "exited" /\ exitCode' = "1"
  /\ UNCHANGED faceVars

Enrolls ==
  /\ program = "built"
  /\ RaisesAtOnce(TRUE) \/ CameraFailsToOpen(TRUE) \/ BeginSitting(TRUE)
  /\ program' = "sitting"
  /\ UNCHANGED exitCode

Verifies ==
  /\ program = "built"
  /\ NoModels \/ RaisesAtOnce(FALSE) \/ CameraFailsToOpen(FALSE) \/ BeginSitting(FALSE)
  /\ program' = "sitting"
  /\ UNCHANGED exitCode

Sits == LoopStep(FALSE) /\ UNCHANGED programVars

(* sys.exit(status); an uncaught exception exits with 1.                   *)
Exits ==
  /\ program = "sitting"
  /\ Leave
  /\ program' = "exited"
  /\ exitCode' = IF status = "raised" THEN "1" ELSE status

ProgramNext ==
  \/ BuildsPipeline \/ HasNoWeights \/ Enrolls \/ Verifies \/ Sits \/ Exits
  \/ TimePasses /\ UNCHANGED programVars

ProgramTypeOK ==
  /\ program \in {"start", "built", "sitting", "exited"}
  /\ exitCode \in Status \cup {"none", "1"}
=============================================================================
