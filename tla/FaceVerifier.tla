---------------------------- MODULE FaceVerifier ----------------------------
(***************************************************************************)
(* class FaceVerifier of howdy/src/verification.py: threads that run one   *)
(* face check each by spawning compare.py, and a cancel() that any other   *)
(* thread may call.  The child process is external: it ends by itself with *)
(* some exit status, or dies of a signal.                                  *)
(*                                                                         *)
(* A step is one block under self._lock or one return from process.wait(). *)
(* The user name is one that verify() accepts.                             *)
(***************************************************************************)

CONSTANTS Thread,     \* the calls of verify(), each made by a thread of its own
          NoThread    \* no verification is running

ASSUME VerifierAssumption == NoThread \notin Thread

(* How compare.py can end: exit status 0, 11, one outside the enumeration  *)
(* (a Python traceback exits with 1), or death from a signal.              *)
ExitStatus == {"match", "timeout", "stray", "killed"}

Result == {"SUCCESS", "TIMEOUT_REACHED", "ABORT", "CANCELLED", "UNKNOWN_ERROR"}

VARIABLES process,    \* the thread whose child is in self._process
          cancelled,  \* self._cancelled
          verifying,  \* verifying[t]: where verify() of thread t is
          child,      \* child[t]: the child of thread t while verify() keeps it
          result,     \* result[t]: what verify() of thread t returned
          hit         \* history: the threads whose check was running at a cancel()
verifierVars == <<process, cancelled, verifying, child, result, hit>>

VerifierInit ==
  /\ process = NoThread
  /\ cancelled = FALSE
  /\ verifying = [t \in Thread |-> "no"]
  /\ child = [t \in Thread |-> "none"]
  /\ result = [t \in Thread |-> "ABORT"]
  /\ hit = {}

Returns(t, r) ==
  /\ verifying' = [verifying EXCEPT ![t] = "done"]
  /\ result' = [result EXCEPT ![t] = r]

(* Mutant of Refuse: the flag is cleared before the slot is looked at. *)
RefuseAndClear(t) ==
  /\ verifying[t] = "no"
  /\ process # NoThread
  /\ cancelled' = FALSE
  /\ Returns(t, "ABORT")
  /\ UNCHANGED <<process, child, hit>>

(* verify() when another verification holds the slot. *)
Refuse(t) ==
  /\ verifying[t] = "no"
  /\ process # NoThread
  /\ Returns(t, "ABORT")
  /\ UNCHANGED <<process, cancelled, child, hit>>

(* Mutant of Spawn: the slot is not looked at. *)
SpawnAnyway(t) ==
  /\ verifying[t] = "no"
  /\ cancelled' = FALSE
  /\ process' = t
  /\ child' = [child EXCEPT ![t] = "running"]
  /\ verifying' = [verifying EXCEPT ![t] = "waiting"]
  /\ UNCHANGED <<result, hit>>

(* Mutant of Spawn: the flag of the last check is kept. *)
SpawnUncleared(t) ==
  /\ verifying[t] = "no"
  /\ process = NoThread
  /\ process' = t
  /\ child' = [child EXCEPT ![t] = "running"]
  /\ verifying' = [verifying EXCEPT ![t] = "waiting"]
  /\ UNCHANGED <<cancelled, result, hit>>

(* verify() clears the flag, whoever set it, and spawns compare.py. *)
Spawn(t) ==
  /\ verifying[t] = "no"
  /\ process = NoThread
  /\ cancelled' = FALSE
  /\ process' = t
  /\ child' = [child EXCEPT ![t] = "running"]
  /\ verifying' = [verifying EXCEPT ![t] = "waiting"]
  /\ UNCHANGED <<result, hit>>

(* Popen raises OSError. *)
SpawnFails(t) ==
  /\ verifying[t] = "no"
  /\ process = NoThread
  /\ cancelled' = FALSE
  /\ Returns(t, "UNKNOWN_ERROR")
  /\ UNCHANGED <<process, child, hit>>

(* compare.py ends by itself, or from a signal: the one of cancel(), or    *)
(* one that nobody here has sent (a crash, the kernel short of memory).    *)
ChildExits(t, s) ==
  /\ child[t] \in {"running", "signalled"}
  /\ child' = [child EXCEPT ![t] = s]
  /\ UNCHANGED <<process, cancelled, verifying, result, hit>>

(* process.wait() returns an exit status. *)
WaitReturns(t) ==
  /\ verifying[t] = "waiting"
  /\ child[t] \in ExitStatus
  /\ verifying' = [verifying EXCEPT ![t] = "reaping"]
  /\ UNCHANGED <<process, cancelled, child, result, hit>>

(* The deadline passes first: terminate, wait two seconds, kill.           *)
WaitTimesOut(t) ==
  /\ verifying[t] = "waiting"
  /\ child[t] \notin ExitStatus
  /\ child' = [child EXCEPT ![t] = "timeout"]
  /\ verifying' = [verifying EXCEPT ![t] = "reaping"]
  /\ UNCHANGED <<process, cancelled, result, hit>>

(* Mutant of FromStatus: a status outside the enumeration is passed on. *)
FromStatusRaw(s) ==
  CASE s = "match"   -> "SUCCESS"
    [] s = "timeout" -> "TIMEOUT_REACHED"
    [] s = "killed"  -> "ABORT"
    [] OTHER         -> s

(* from_exit_code, and ABORT for a child that died from a signal.          *)
FromStatus(s) ==
  CASE s = "match"   -> "SUCCESS"
    [] s = "timeout" -> "TIMEOUT_REACHED"
    [] s = "killed"  -> "ABORT"
    [] OTHER         -> "UNKNOWN_ERROR"

(* The finally block frees the slot and takes the flag, which overrides    *)
(* whatever the child said.                                                *)
Reap(t) ==
  /\ verifying[t] = "reaping"
  /\ process' = NoThread
  /\ Returns(t, IF cancelled THEN "CANCELLED" ELSE FromStatus(child[t]))
  /\ child' = [child EXCEPT ![t] = "none"]
  /\ UNCHANGED <<cancelled, hit>>

(* cancel(): set the flag and send SIGTERM to the child in the slot.       *)
Cancel ==
  /\ cancelled' = TRUE
  /\ child' = [t \in Thread |->
                 IF t = process /\ child[t] = "running" THEN "signalled" ELSE child[t]]
  /\ hit' = hit \cup ({process} \ {NoThread})
  /\ UNCHANGED <<process, verifying, result>>

Verify(t) ==
  \/ Refuse(t) \/ Spawn(t) \/ SpawnFails(t)
  \/ WaitReturns(t) \/ WaitTimesOut(t) \/ Reap(t)

ChildStep(t) == \E s \in ExitStatus : ChildExits(t, s)

VerifierNext == Cancel \/ \E t \in Thread : Verify(t) \/ ChildStep(t)

(* The deadline ends a wait whatever the child does, so the thread alone   *)
(* has to be scheduled.                                                    *)
VerifierFairness == \A t \in Thread : WF_verifierVars(Verify(t))

VerifierSpec == VerifierInit /\ [][VerifierNext]_verifierVars /\ VerifierFairness

-----------------------------------------------------------------------------
VerifierTypeOK ==
  /\ process \in Thread \cup {NoThread}
  /\ cancelled \in BOOLEAN
  /\ verifying \in [Thread -> {"no", "waiting", "reaping", "done"}]
  /\ child \in [Thread -> {"none", "running", "signalled"} \cup ExitStatus]
  /\ result \in [Thread -> Result]
  /\ hit \subseteq Thread

(* "A verifier instance runs at most one verification at a time": no two   *)
(* compare.py processes ever compete for the camera.                       *)
OneChildAtATime ==
  \A t, u \in Thread : {child[t], child[u]} \subseteq {"running", "signalled"} => t = u

(* Once cancel() has hit a running check, that check returns CANCELLED:    *)
(* neither a match that compare.py had already reported, nor another       *)
(* thread's call of verify() in between, makes it return anything else.    *)
HitCheckIsCancelled ==
  \A t \in hit : verifying[t] = "done" => result[t] = "CANCELLED"
=============================================================================
