------------------------- MODULE FaceVerifierProofs -------------------------
(***************************************************************************)
(* The inductive invariant of FaceVerifier, for any number of threads.     *)
(* VerifiersProofs and CtapHidProofs build on it.                          *)
(***************************************************************************)
EXTENDS FaceVerifier, TLAPS

Verifying(t) == verifying[t] \in {"waiting", "reaping"}

(* The slot belongs to the one verify() between its Spawn and its Reap,    *)
(* and its flag is set when a cancel() has hit it, and only then.          *)
VerifierInv ==
  /\ VerifierTypeOK
  /\ \A t \in Thread :
       /\ Verifying(t) <=> process = t
       /\ child[t] # "none" => Verifying(t)
       /\ verifying[t] = "reaping" => child[t] \in ExitStatus
       /\ t \in hit => verifying[t] # "no"
       /\ Verifying(t) => (t \in hit <=> cancelled)
  /\ HitCheckIsCancelled

(* The initial state of the child's verifier.                              *)
LEMMA VerifierInitInv == VerifierInit => VerifierInv
BY VerifierAssumption
DEF VerifierInit, VerifierInv, VerifierTypeOK, Verifying, HitCheckIsCancelled, Result

(* Every step of a thread, a child or a cancel() keeps its invariant.      *)
LEMMA VerifierStepInv ==
  ASSUME VerifierInv, VerifierNext
  PROVE  VerifierInv'
<1> USE VerifierAssumption
    DEF VerifierInv, VerifierTypeOK, Verifying, HitCheckIsCancelled, Result, Returns, ExitStatus
<1>1. CASE Cancel
  BY <1>1 DEF Cancel
<1>2. ASSUME NEW t \in Thread, Refuse(t) PROVE VerifierInv'
  BY <1>2 DEF Refuse
<1>3. ASSUME NEW t \in Thread, Spawn(t) PROVE VerifierInv'
  BY <1>3 DEF Spawn
<1>4. ASSUME NEW t \in Thread, SpawnFails(t) PROVE VerifierInv'
  BY <1>4 DEF SpawnFails
<1>5. ASSUME NEW t \in Thread, WaitReturns(t) PROVE VerifierInv'
  BY <1>5 DEF WaitReturns
<1>6. ASSUME NEW t \in Thread, WaitTimesOut(t) PROVE VerifierInv'
  BY <1>6 DEF WaitTimesOut
<1>7. ASSUME NEW t \in Thread, Reap(t) PROVE VerifierInv'
  BY <1>7 DEF Reap, FromStatus
<1>8. ASSUME NEW t \in Thread, ChildStep(t) PROVE VerifierInv'
  BY <1>8 DEF ChildStep, ChildExits
<1> QED
  BY <1>1, <1>2, <1>3, <1>4, <1>5, <1>6, <1>7, <1>8 DEF VerifierNext, Verify

(* A child runs only for the verify() that holds the slot.                 *)
LEMMA OneChild == VerifierInv => OneChildAtATime
BY DEF VerifierInv, OneChildAtATime, Verifying
=============================================================================
