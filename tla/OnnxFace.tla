------------------------------ MODULE OnnxFace ------------------------------
(***************************************************************************)
(* FacePipeline of howdy/src/onnx_face.py: one sitting in front of the     *)
(* camera, which is a call of verify_user() or of enroll_user(), with the  *)
(* LivenessAnalyzer it makes and the inference engines it shares with all  *)
(* other sittings.                                                         *)
(*                                                                         *)
(* What a camera frame shows is an input: nothing, darkness, no face, or a *)
(* face that does or does not match, does or does not look live, and that  *)
(* has or has not moved since the face before it.  The ratio of a movement *)
(* is one of Level, with PARALLAX_RATIO at 1.                              *)
(***************************************************************************)
EXTENDS Integers, Sequences, FiniteSets

CONSTANTS Engine,     \* the inference engines: detector, embedder, anti-spoofing
          Window,     \* length of texture_votes (16 in the code)
          MinVotes,   \* votes before texture_ok judges (3)
          MinPairs,   \* MIN_MOTION_PAIRS (3)
          Samples,    \* faces an enrollment averages (12)
          MaxFaces    \* bound: faces that one sitting looks at

ASSUME OnnxFaceAssumption ==
  /\ {Window, MinVotes, MinPairs, Samples, MaxFaces} \subseteq Nat \ {0}
  /\ MinVotes <= Window
  /\ Engine # {}

Level == 0..2
Still == 3
Status == {"SUCCESS", "NO_FACE_MODEL", "TIMEOUT_REACHED", "ABORT", "TOO_DARK",
           "PRESENTATION_ATTACK", "raised"}

(* What process_frame() finds in a frame, and the look of a face: ratio is *)
(* the parallax of the pair it makes with the face before, or Still when   *)
(* there was too little movement, or no transform, to tell.                *)
Look == [match : BOOLEAN, live : BOOLEAN, ratio : Level \cup {Still}]

VARIABLES pad,        \* settings.pad
          engine,     \* the provider each InferenceEngine runs on
          sitting,    \* where verify_user() or enroll_user() is
          enrolling,  \* it is enroll_user()
          camera,     \* the camera is open
          late,       \* the deadline has passed
          sawFrame,   \* frames > 0
          sawLight,   \* valid_frames > 0
          bestMatches,  \* best_similarity >= certainty
          samples,    \* Len(embeddings)
          votes,      \* texture_votes
          tracked,    \* kps_history is not empty
          ratios,     \* how often each level is in parallax_ratios
          status,     \* what the sitting returned
          faces,      \* history: faces looked at in this sitting
          anyMatched  \* history: one of them matched
livenessVars == <<votes, tracked, ratios>>
countVars == <<sawFrame, sawLight, bestMatches, samples>>
evidenceVars == <<faces, anyMatched>>
faceVars == <<pad, engine, sitting, enrolling, camera, late, countVars, livenessVars,
              status, evidenceVars>>

Pairs == ratios[0] + ratios[1] + ratios[2]

(* The k-th smallest ratio, and twice the median as numpy computes it: the *)
(* mean of the two in the middle when their number is even.                *)
KthRatio(k) == IF k <= ratios[0] THEN 0 ELSE IF k <= ratios[0] + ratios[1] THEN 1 ELSE 2
TwiceMedian == KthRatio((Pairs + 1) \div 2) + KthRatio(Pairs \div 2 + 1)

LiveVotes == {i \in 1..Len(votes) : votes[i]}

TextureOk == Len(votes) >= MinVotes /\ 2 * Cardinality(LiveVotes) > Len(votes)
ParallaxOk == Pairs >= MinPairs /\ TwiceMedian >= 2
Verdict == TextureOk /\ ParallaxOk

FaceInit ==
  /\ pad \in BOOLEAN
  /\ engine = [e \in Engine |-> "none"]
  /\ sitting = "none" /\ enrolling = FALSE
  /\ camera = FALSE /\ late = FALSE
  /\ sawFrame = FALSE /\ sawLight = FALSE /\ bestMatches = FALSE /\ samples = 0
  /\ votes = <<>> /\ tracked = FALSE /\ ratios = [l \in Level |-> 0]
  /\ status = "ABORT"
  /\ faces = 0 /\ anyMatched = FALSE

(* InferenceEngine.__init__ for both networks: a GPU provider when there   *)
(* is one that initializes, else the CPU.                                  *)
LoadEngines(provider) ==
  /\ provider \in [Engine -> {"gpu", "cpu"}]
  /\ engine' = provider

EndWith(s) ==
  /\ sitting' = "over"
  /\ status' = s
  /\ camera' = FALSE
  /\ UNCHANGED <<pad, enrolling, late>>

(* The user has no model: verify_user returns before it opens the camera.  *)
NoModels ==
  /\ sitting = "none"
  /\ sitting' = "over" /\ status' = "NO_FACE_MODEL" /\ enrolling' = FALSE
  /\ UNCHANGED <<pad, engine, camera, late, countVars, livenessVars, evidenceVars>>

CameraFailsToOpen(enroll) ==
  /\ sitting = "none"
  /\ sitting' = "over" /\ status' = "ABORT" /\ enrolling' = enroll
  /\ UNCHANGED <<pad, engine, camera, late, countVars, livenessVars, evidenceVars>>

(* It ends before the camera is open by an exception: a model file that    *)
(* cannot be read or lacks a key, a liveness model that does not load.     *)
RaisesAtOnce(enroll) ==
  /\ sitting = "none"
  /\ sitting' = "over" /\ status' = "raised" /\ enrolling' = enroll
  /\ UNCHANGED <<pad, engine, camera, late, countVars, livenessVars, evidenceVars>>

(* make_liveness(), open_camera(), the deadline; the counters are at zero. *)
BeginSitting(enroll) ==
  /\ sitting = "none"
  /\ sitting' = "polling" /\ enrolling' = enroll
  /\ camera' = TRUE
  /\ UNCHANGED <<pad, engine, late, status, countVars, livenessVars, evidenceVars>>

TimePasses ==
  /\ sitting \in {"polling", "reading"} /\ ~late
  /\ late' = TRUE
  /\ UNCHANGED <<pad, engine, sitting, enrolling, camera, countVars, livenessVars, status,
       evidenceVars>>

-----------------------------------------------------------------------------
(* The loop: look at the clock, then at cancel_check, then at a frame.     *)

PollCancelled(cancelled) ==
  /\ sitting = "polling" /\ ~late
  /\ cancelled
  /\ EndWith("ABORT")
  /\ UNCHANGED <<engine, countVars, livenessVars, evidenceVars>>

PollGoesOn(cancelled) ==
  /\ sitting = "polling" /\ ~late
  /\ ~cancelled
  /\ sitting' = "reading"
  /\ UNCHANGED <<pad, engine, enrolling, camera, late, countVars, livenessVars, status,
       evidenceVars>>

(* The deadline ends the loop, and the counters tell why it failed.        *)
Conclusion ==
  IF enrolling THEN "TIMEOUT_REACHED"
  ELSE IF sawFrame /\ ~sawLight THEN "TOO_DARK"
  ELSE IF bestMatches /\ pad THEN "PRESENTATION_ATTACK"
  ELSE "TIMEOUT_REACHED"

DeadlinePasses ==
  /\ sitting = "polling" /\ late
  /\ EndWith(Conclusion)
  /\ UNCHANGED <<engine, countVars, livenessVars, evidenceVars>>

BackToPolling ==
  /\ sitting' = "polling"
  /\ UNCHANGED <<pad, enrolling, camera, late, status>>

(* Mutant of NoFrame: the user is given the time that the camera lost. *)
NoFrameRestartsClock ==
  /\ sitting = "reading"
  /\ sitting' = "polling" /\ late' = FALSE
  /\ UNCHANGED <<pad, engine, enrolling, camera, countVars, livenessVars, status,
       evidenceVars>>

(* read_gray() returns None.                                               *)
NoFrame ==
  /\ sitting = "reading"
  /\ BackToPolling
  /\ UNCHANGED <<engine, countVars, livenessVars, evidenceVars>>

(* A frame too dark to be looked at, which enroll_user does not look for.  *)
DarkFrame ==
  /\ sitting = "reading" /\ ~enrolling
  /\ sawFrame' = TRUE
  /\ BackToPolling
  /\ UNCHANGED <<engine, sawLight, bestMatches, samples, livenessVars, evidenceVars>>

(* A frame in which detect() finds no face.                                *)
EmptyFrame ==
  /\ sitting = "reading"
  /\ sawFrame' = (sawFrame \/ ~enrolling) /\ sawLight' = (sawLight \/ ~enrolling)
  /\ BackToPolling
  /\ UNCHANGED <<engine, bestMatches, samples, livenessVars, evidenceVars>>

(* InferenceEngine.run: a GPU provider that fails is replaced by the CPU   *)
(* once, and the frame goes on.                                            *)
FallBack(e) ==
  /\ sitting = "reading"
  /\ engine[e] = "gpu"
  /\ engine' = [engine EXCEPT ![e] = "cpu"]
  /\ UNCHANGED <<pad, sitting, enrolling, camera, late, countVars, livenessVars, status,
       evidenceVars>>

(* A frame raises: inference on the CPU, the new session for it, the warp  *)
(* or the crop of a face at the border.  The exception leaves the sitting, *)
(* and the camera is released.                                             *)
FrameRaises ==
  /\ sitting = "reading"
  /\ EndWith("raised")
  /\ UNCHANGED <<engine, countVars, livenessVars, evidenceVars>>

(* texture_votes.append, on a deque of Window entries.                     *)
Voted(live) ==
  IF Len(votes) < Window THEN Append(votes, live) ELSE Append(Tail(votes), live)

(* LivenessAnalyzer.update                                                 *)
Update(look) ==
  /\ votes' = Voted(look.live)
  /\ tracked' = TRUE
  /\ ratios' = IF tracked /\ look.ratio # Still
               THEN [ratios EXCEPT ![look.ratio] = @ + 1] ELSE ratios

(* best_similarity = max(best_similarity, similarity)                      *)
BestMatches(look) == bestMatches \/ look.match

(* A face: judge it with what was seen before in this sitting.  An         *)
(* enrollment is complete when save_user_model() has written the file; if  *)
(* it raises, so does the sitting.                                         *)
SeeFace(look) ==
  /\ sitting = "reading"
  /\ faces < MaxFaces
  /\ Update(look)
  /\ IF enrolling
     THEN samples' = samples + 1 /\ UNCHANGED <<sawFrame, sawLight, bestMatches>>
     ELSE /\ sawFrame' = TRUE /\ sawLight' = TRUE /\ bestMatches' = BestMatches(look)
          /\ UNCHANGED samples
  /\ faces' = faces + 1
  /\ anyMatched' = (anyMatched \/ look.match)
  /\ IF /\ IF enrolling THEN samples' >= Samples ELSE look.match
        /\ ~pad \/ Verdict'
     THEN EndWith("SUCCESS") \/ (enrolling /\ EndWith("raised"))
     ELSE BackToPolling
  /\ UNCHANGED engine

Forgotten ==
  /\ sitting = "over"
  /\ sitting' = "none"
  /\ enrolling' = FALSE /\ late' = FALSE
  /\ sawFrame' = FALSE /\ sawLight' = FALSE /\ bestMatches' = FALSE /\ samples' = 0
  /\ faces' = 0 /\ anyMatched' = FALSE
  /\ UNCHANGED <<pad, engine, camera, status>>

(* Mutant of Leave: the analyzer belongs to the pipeline. *)
LeaveKeepsLiveness == Forgotten /\ UNCHANGED livenessVars

(* The caller has the status, and the locals of the sitting are gone, the  *)
(* analyzer among them.                                                    *)
Leave ==
  /\ Forgotten
  /\ votes' = <<>> /\ tracked' = FALSE /\ ratios' = [l \in Level |-> 0]

(* One step of the loop; cancelled is what cancel_check() returns.         *)
LoopStep(cancelled) ==
  \/ PollCancelled(cancelled) \/ PollGoesOn(cancelled) \/ DeadlinePasses
  \/ NoFrame \/ DarkFrame \/ EmptyFrame \/ FrameRaises
  \/ \E e \in Engine : FallBack(e)
  \/ \E look \in Look : SeeFace(look)
-----------------------------------------------------------------------------
FaceTypeOK ==
  /\ pad \in BOOLEAN /\ enrolling \in BOOLEAN /\ camera \in BOOLEAN /\ late \in BOOLEAN
  /\ sawFrame \in BOOLEAN /\ sawLight \in BOOLEAN /\ bestMatches \in BOOLEAN
  /\ tracked \in BOOLEAN /\ anyMatched \in BOOLEAN
  /\ engine \in [Engine -> {"none", "gpu", "cpu"}]
  /\ sitting \in {"none", "polling", "reading", "over"}
  /\ samples \in 0..MaxFaces
  /\ votes \in Seq(BOOLEAN) /\ Len(votes) <= Window
  /\ ratios \in [Level -> 0..MaxFaces]
  /\ status \in Status
  /\ faces \in 0..MaxFaces

(* What a sitting returns is earned in this sitting, however long the      *)
(* pipeline has lived and whoever sat there before.  Success is a face     *)
(* that matched, or as many faces as an enrollment averages; with liveness *)
(* required it comes only after enough faces: MIN_MOTION_PAIRS pairs of    *)
(* them take one more than that.  A time-out hides no match, a spoof is    *)
(* only reported of a face that did match, and darkness only when no face  *)
(* was seen.  (Of an exception nothing is said: a frame, a file or a       *)
(* session may raise at any time.)                                         *)
StatusIsEarned ==
  sitting = "over" =>
    /\ status = "SUCCESS" => IF enrolling THEN faces >= Samples ELSE anyMatched
    /\ status = "SUCCESS" /\ pad => faces > MinPairs /\ faces >= MinVotes
    /\ status = "TIMEOUT_REACHED" /\ ~enrolling => ~anyMatched
    /\ status = "PRESENTATION_ATTACK" => anyMatched
    /\ status = "TOO_DARK" => faces = 0
=============================================================================
