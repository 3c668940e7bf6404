---------------------------- MODULE OnnxVerifier ----------------------------
(***************************************************************************)
(* class OnnxBoundVerifier of howdy/src/verification.py: the face check    *)
(* inside the service, with a pipeline that is built once, by the preload  *)
(* thread or by the first check, and a cancel event that other threads     *)
(* set.                                                                    *)
(*                                                                         *)
(* The transport runs one request at a time (SerialDevice, which CtapHid   *)
(* implements), so the calls of verify() follow each other.                *)
(***************************************************************************)
EXTENDS OnnxFace

CONSTANTS Caller,     \* the calls of verify(), each made by a thread of its own
          Preloader,  \* the thread of _preload
          NoCaller    \* nobody holds _lock

ASSUME OnnxVerifierAssumption ==
  /\ Preloader \notin Caller
  /\ NoCaller \notin Caller \cup {Preloader}

OnnxResult == (Status \ {"raised"}) \cup {"CANCELLED", "UNKNOWN_ERROR"}

VARIABLES pipeline,   \* self._pipeline is there
          lock,       \* who holds self._lock
          cancelEvent,  \* self._cancel
          check,      \* check[t]: where verify() of t is
          answer,     \* answer[t]: what it returned
          asked,      \* history: the checks that were running at a cancel()
          built       \* history: pipelines built
threadVars == <<pipeline, lock, cancelEvent, check, answer, asked, built>>
onnxVars == <<faceVars, threadVars>>

OnnxInit ==
  /\ FaceInit
  /\ pipeline = FALSE
  /\ lock = NoCaller
  /\ cancelEvent = FALSE
  /\ check = [t \in Caller \cup {Preloader} |-> "no"]
  /\ answer = [t \in Caller |-> "none"]
  /\ asked = {}
  /\ built = 0

Goes(t, label) == check' = [check EXCEPT ![t] = label]

Answers(t, r) == Goes(t, "done") /\ answer' = [answer EXCEPT ![t] = r]

(* verify(), called again and again: the event is cleared.                 *)
ClearCancel(t) ==
  /\ \A u \in Caller : check[u] \in {"no", "done"}
  /\ cancelEvent' = FALSE
  /\ Goes(t, "loading")
  /\ answer' = [answer EXCEPT ![t] = "none"]
  /\ asked' = asked \ {t}
  /\ UNCHANGED <<faceVars, pipeline, lock, built>>

StartPreload ==
  /\ check[Preloader] = "no"
  /\ Goes(Preloader, "loading")
  /\ UNCHANGED <<faceVars, pipeline, lock, cancelEvent, answer, asked, built>>

(* _get_pipeline: take the lock, and build what is not there yet.          *)
LockPipeline(t) ==
  /\ check[t] = "loading"
  /\ lock = NoCaller
  /\ IF pipeline THEN Goes(t, "loaded") /\ UNCHANGED lock
                 ELSE Goes(t, "building") /\ lock' = t
  /\ UNCHANGED <<faceVars, pipeline, cancelEvent, answer, asked, built>>

(* FacePipeline() succeeds.                                                *)
Build(t) ==
  /\ check[t] = "building"
  /\ \E provider \in [Engine -> {"gpu", "cpu"}] : LoadEngines(provider)
  /\ pipeline' = TRUE
  /\ built' = built + 1
  /\ lock' = NoCaller
  /\ Goes(t, "loaded")
  /\ UNCHANGED <<pad, sitting, enrolling, camera, late, countVars, livenessVars, status,
       evidenceVars, cancelEvent, answer, asked>>

(* It raises: no weights, no provider.  The next check tries again.        *)
BuildFails(t) ==
  /\ check[t] = "building"
  /\ lock' = NoCaller
  /\ IF t = Preloader THEN Goes(t, "done") /\ UNCHANGED answer
                      ELSE Answers(t, "UNKNOWN_ERROR")
  /\ UNCHANGED <<faceVars, pipeline, cancelEvent, asked, built>>

PreloadEnds ==
  /\ check[Preloader] = "loaded"
  /\ Goes(Preloader, "done")
  /\ UNCHANGED <<faceVars, pipeline, lock, cancelEvent, answer, asked, built>>

(* pipeline.verify_user()                                                  *)
Sit(t) ==
  /\ t \in Caller
  /\ check[t] = "loaded"
  /\ NoModels \/ RaisesAtOnce(FALSE) \/ CameraFailsToOpen(FALSE) \/ BeginSitting(FALSE)
  /\ Goes(t, "sitting")
  /\ UNCHANGED <<pipeline, lock, cancelEvent, answer, asked, built>>

(* Its loop; cancel_check is _cancel.is_set.                               *)
SittingGoesOn ==
  /\ LoopStep(cancelEvent)
  /\ UNCHANGED threadVars

(* Mutant of CheckReturns: a status is passed on without a look at the event. *)
ReturnsStatus(t) ==
  /\ t \in Caller /\ check[t] = "sitting"
  /\ Leave
  /\ Answers(t, IF status = "raised" THEN "UNKNOWN_ERROR" ELSE status)
  /\ UNCHANGED <<pipeline, lock, cancelEvent, asked, built>>

(* verify_user() returned or raised: CANCELLED when the event is set,      *)
(* whatever the status, else from_exit_code of it.                         *)
CheckReturns(t) ==
  /\ t \in Caller /\ check[t] = "sitting"
  /\ Leave
  /\ Answers(t, IF status = "raised" THEN "UNKNOWN_ERROR"
                ELSE IF cancelEvent THEN "CANCELLED" ELSE status)
  /\ UNCHANGED <<pipeline, lock, cancelEvent, asked, built>>

(* cancel()                                                                *)
SetCancel ==
  /\ cancelEvent' = TRUE
  /\ asked' = asked \cup {t \in Caller : check[t] \notin {"no", "done"}}
  /\ UNCHANGED <<faceVars, pipeline, lock, check, answer, built>>

Time == TimePasses /\ UNCHANGED threadVars

Runs(t) ==
  \/ LockPipeline(t) \/ Build(t) \/ BuildFails(t) \/ Sit(t)
  \/ CheckReturns(t)

OnnxNext ==
  \/ SetCancel \/ StartPreload \/ PreloadEnds \/ SittingGoesOn \/ Time
  \/ \E t \in Caller : ClearCancel(t)
  \/ \E t \in Caller \cup {Preloader} : Runs(t)

(* The threads run, and time passes.  Nothing is assumed of what the       *)
(* camera shows; reading a frame returns (OpenCV waits for ten seconds).   *)
OnnxFairness ==
  /\ \A t \in Caller \cup {Preloader} : WF_onnxVars(Runs(t))
  /\ WF_onnxVars(PreloadEnds) /\ WF_onnxVars(SittingGoesOn)
  /\ WF_onnxVars(Time)

OnnxSpec == OnnxInit /\ [][OnnxNext]_onnxVars /\ OnnxFairness

-----------------------------------------------------------------------------
CheckPC == {"no", "loading", "building", "loaded", "sitting", "done"}

OnnxTypeOK ==
  /\ FaceTypeOK
  /\ pipeline \in BOOLEAN /\ cancelEvent \in BOOLEAN
  /\ lock \in Caller \cup {Preloader, NoCaller}
  /\ check \in [Caller \cup {Preloader} -> CheckPC]
  /\ answer \in [Caller -> OnnxResult \cup {"none"}]
  /\ asked \subseteq Caller
  /\ built \in 0..1   \* "The models are loaded once and stay resident"

(* A cancel() that hits a check wins over its match, whenever in the       *)
(* sitting it comes: the check never answers SUCCESS, and what it answers  *)
(* is CANCELLED unless the pipeline itself failed.                         *)
StoppedCheckNeverSucceeds ==
  \A t \in asked : check[t] = "done" => answer[t] \in {"CANCELLED", "UNKNOWN_ERROR"}
=============================================================================
