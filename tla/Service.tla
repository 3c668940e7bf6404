------------------------------- MODULE Service ------------------------------
(***************************************************************************)
(* The processes around the key store: "howdy webauthn init", "register"   *)
(* and "authenticate" of cli/webauthn.py, and the service: its start       *)
(* (webauthn_daemon.py), its read loop and signal handler (service.py) and *)
(* the life of the virtual device (uhid.py).                               *)
(*                                                                         *)
(* Python runs a signal handler in the main thread, on top of whatever     *)
(* that thread was doing: frames is the stack of activations of            *)
(* UHidDevice.close, the handlers' above the one of the finally block.     *)
(* CPython looks for signals at calls and backward jumps, so that reading  *)
(* and clearing _fd is one step.  A signal that arrives when the main      *)
(* thread has entered os.read and not the system call stays pending until  *)
(* the read returns.                                                       *)
(***************************************************************************)
EXTENDS KeyStores, Sequences

CONSTANTS Setup,       \* processes that run "howdy webauthn init"
          NoState,     \* there is no state file
          MaxSignals   \* bound: SIGTERM and SIGINT in one life of the service

ASSUME ServiceAssumption ==
  /\ NoState \notin {"torn", "software", "tpm"}
  /\ MaxSignals \in Nat

VARIABLES stateFile,   \* state.json: NoState, "torn" or the kind of key store
          at,          \* at[p]: where the main thread of p is
          init,        \* init[i]: where init is, or the kind it is writing
          selfFd,      \* UHidDevice._fd is not None
          devFd,       \* the descriptor: "none", "open" or "closed"
          frames,      \* the activations of close(), the running one last
          signals,     \* signals sent to the service
          pending,     \* one of them waits for its handler
          stopping     \* stopping["flag"]
serviceVars == <<stateFile, at, init, selfFd, devFd, frames, signals, pending, stopping>>
deviceVars == <<selfFd, devFd, frames, signals, pending, stopping>>
allVars == <<keyVars, serviceVars>>

Kinds == {"software", "tpm"}
MainPC == {"off", "working", "asked", "opening", "looping", "checked", "entering",
           "reading", "feeding", "leaving", "exiting"}

ServiceInit ==
  /\ KeyInit
  /\ stateFile = NoState
  /\ at = [p \in Proc |-> "off"]
  /\ init = [i \in Setup |-> "off"]
  /\ selfFd = FALSE /\ devFd = "none" /\ frames = <<>>
  /\ signals = 0 /\ pending = FALSE /\ stopping = FALSE

GoTo(p, label) == at' = [at EXCEPT ![p] = label]

(* The process ends: sys.exit, an exception, the last line, or a kill.     *)
Leaves(p) ==
  /\ ProcessEnds(p)
  /\ GoTo(p, "off")
  /\ IF p = Service
       THEN /\ selfFd' = FALSE /\ devFd' = "none" /\ frames' = <<>>
            /\ signals' = 0 /\ pending' = FALSE /\ stopping' = FALSE
       ELSE UNCHANGED deviceVars
  /\ UNCHANGED <<stateFile, init>>

Killed(p) == at[p] # "off" /\ Leaves(p)

-----------------------------------------------------------------------------
(* howdy webauthn init *)

(* load_state() finds none; when there is one, init exits: "already        *)
(* initialised", or a torn file that json.load refuses.                    *)
StartInit(i) ==
  /\ init[i] = "off" /\ stateFile = NoState
  /\ init' = [init EXCEPT ![i] = "chosen"]
  /\ UNCHANGED <<keyVars, stateFile, at, deviceVars>>

(* Mutant of InitCreates: the file is opened without O_EXCL. *)
InitTruncates(i) ==
  /\ init[i] = "chosen"
  /\ stateFile' = "torn"
  /\ \E kind \in Kinds : init' = [init EXCEPT ![i] = kind]
  /\ UNCHANGED <<keyVars, at, deviceVars>>

(* os.open with O_EXCL; the kind was requested or found by tpm_is_usable.  *)
InitCreates(i) ==
  /\ init[i] = "chosen" /\ stateFile = NoState
  /\ stateFile' = "torn"
  /\ \E kind \in Kinds : init' = [init EXCEPT ![i] = kind]
  /\ UNCHANGED <<keyVars, at, deviceVars>>

(* FileExistsError, or killed at any point.                                *)
InitDies(i) ==
  /\ init[i] # "off"
  /\ init' = [init EXCEPT ![i] = "off"]
  /\ UNCHANGED <<keyVars, stateFile, at, deviceVars>>

InitWrites(i) ==
  /\ init[i] \in Kinds
  /\ stateFile' = init[i]
  /\ init' = [init EXCEPT ![i] = "off"]
  /\ UNCHANGED <<keyVars, at, deviceVars>>

InitStep(i) == StartInit(i) \/ InitCreates(i) \/ InitDies(i) \/ InitWrites(i)

-----------------------------------------------------------------------------
(* The commands that make an authenticator, and the start of the service *)

(* require_state(), make_authenticator(); main() of the daemon.  Without a *)
(* file, or with no JSON in it, the process exits.                         *)
Start(p) ==
  /\ at[p] = "off" /\ stateFile \in Kinds
  /\ CreateKeystore(p, stateFile)
  /\ GoTo(p, IF p = Service THEN "opening" ELSE "working")
  /\ UNCHANGED <<stateFile, init, deviceVars>>

(* One register or authenticate: the latter needs the credential.          *)
RunCommand(p) ==
  /\ at[p] = "working" /\ p # Service
  /\ \E operation \in {"generate", "sign"} :
       /\ operation = "sign" => records # {}
       /\ Ask(p, operation)
  /\ GoTo(p, "asked")
  /\ UNCHANGED <<stateFile, init, deviceVars>>

CommandEnds(p) ==
  /\ at[p] = "asked" /\ use[p] = "idle"
  /\ Leaves(p)

CommandStep(p) == Start(p) \/ RunCommand(p) \/ CommandEnds(p)

-----------------------------------------------------------------------------
(* run_service *)

(* Disabled, no user, no /dev/uhid, or a device that cannot be created.    *)
OpenFails ==
  /\ at[Service] = "opening"
  /\ Leaves(Service)

OpenDevice ==
  /\ at[Service] = "opening"
  /\ selfFd' = TRUE /\ devFd' = "open"
  /\ GoTo(Service, "looping")
  /\ UNCHANGED <<keyVars, stateFile, init, frames, signals, pending, stopping>>

(* The main thread goes on when no handler is on top of it.                *)
Main(label) == at[Service] = label /\ frames = <<>>

Goes(label) ==
  /\ GoTo(Service, label)
  /\ frames' = IF label = "leaving" THEN <<"capture">> ELSE frames
  /\ UNCHANGED <<keyVars, stateFile, init, selfFd, devFd, signals, pending, stopping>>

CheckFlag == Main("looping") /\ Goes(IF stopping THEN "leaving" ELSE "checked")

(* os.read(self._fd, ...): a TypeError when close() was faster.            *)
EnterRead == Main("checked") /\ Goes(IF selfFd THEN "entering" ELSE "leaving")

Blocks == Main("entering") /\ Goes("reading")

(* An event of the kernel: an output report, or another one that is passed *)
(* over.                                                                   *)
EventArrives ==
  /\ Main("reading") /\ devFd = "open"
  /\ \/ Goes("feeding")
     \/ Goes("looping")

(* The read was interrupted, its handler closed the descriptor, and        *)
(* os.read tries again: EBADF, or the bytes of a file the worker has       *)
(* opened under the same number.                                           *)
ReadFails ==
  /\ Main("reading") /\ devFd # "open"
  /\ \/ Goes("leaving")
     \/ use[Service] # "idle" /\ Goes("looping")

(* feed_report starts a worker, ...                                        *)
FeedStartsWorker ==
  /\ Main("feeding")
  /\ \E operation \in {"generate", "sign", "reset"} :
       /\ operation = "sign" => records # {}
       /\ operation = "reset" => epoch < MaxEpoch
       /\ Ask(Service, operation)
  /\ GoTo(Service, "looping")
  /\ UNCHANGED <<stateFile, init, deviceVars>>

(* ... or answers by itself, which raises when the device is closed.       *)
FeedAnswers == Main("feeding") /\ Goes(IF selfFd THEN "looping" ELSE "leaving")

ExitService == Main("exiting") /\ Leaves(Service)

-----------------------------------------------------------------------------
(* Signals and UHidDevice.close *)

Running == at[Service] \in {"looping", "checked", "entering", "reading", "feeding", "leaving"}

SendSignal ==
  /\ Running /\ signals < MaxSignals
  /\ signals' = signals + 1
  /\ pending' = TRUE
  /\ UNCHANGED <<keyVars, stateFile, at, init, selfFd, devFd, frames, stopping>>

(* Mutant of HandleSignal: the flag is all it sets. *)
FlagOnly ==
  /\ Running /\ pending /\ at[Service] # "entering"
  /\ pending' = FALSE
  /\ stopping' = TRUE
  /\ UNCHANGED <<keyVars, stateFile, at, init, selfFd, devFd, frames, signals>>

(* handle_signal, at any point but between the last look for signals and   *)
(* the system call.                                                        *)
HandleSignal ==
  /\ Running /\ pending /\ at[Service] # "entering"
  /\ pending' = FALSE
  /\ stopping' = TRUE
  /\ frames' = Append(frames, "capture")
  /\ UNCHANGED <<keyVars, stateFile, at, init, selfFd, devFd, signals>>

Top == frames[Len(frames)]
Below == SubSeq(frames, 1, Len(frames) - 1)

(* The activation returns, to the main thread when it was the finally      *)
(* block's.                                                                *)
Return ==
  /\ frames' = Below
  /\ at' = [at EXCEPT ![Service] = IF @ = "leaving" /\ Below = <<>> THEN "exiting" ELSE @]

(* Mutant of Capture: _fd is not cleared. *)
CaptureOnly ==
  /\ frames # <<>> /\ Top = "capture"
  /\ frames' = Append(Below, "destroy") /\ UNCHANGED at
  /\ UNCHANGED <<keyVars, stateFile, init, selfFd, devFd, signals, pending, stopping>>

(* fd = self._fd; return when it is None; self._fd = None.                 *)
Capture ==
  /\ frames # <<>> /\ Top = "capture"
  /\ IF selfFd THEN frames' = Append(Below, "destroy") /\ UNCHANGED at ELSE Return
  /\ selfFd' = FALSE
  /\ UNCHANGED <<keyVars, stateFile, init, devFd, signals, pending, stopping>>

(* UHID_DESTROY is written.                                                *)
Destroy ==
  /\ frames # <<>> /\ Top = "destroy"
  /\ frames' = Append(Below, "close")
  /\ UNCHANGED <<keyVars, stateFile, at, init, selfFd, devFd, signals, pending, stopping>>

Close ==
  /\ frames # <<>> /\ Top = "close"
  /\ devFd' = "closed"
  /\ Return
  /\ UNCHANGED <<keyVars, stateFile, init, selfFd, signals, pending, stopping>>

MainStep ==
  \/ CheckFlag \/ EnterRead \/ Blocks \/ ReadFails \/ FeedStartsWorker \/ FeedAnswers
  \/ ExitService \/ Capture \/ Destroy \/ Close

KeyStoreWork(p) == KeyStoreStep(p) /\ UNCHANGED serviceVars

ServiceNext ==
  \/ \E p \in Proc : Killed(p) \/ CommandStep(p) \/ KeyStoreWork(p)
  \/ \E i \in Setup : InitStep(i)
  \/ OpenFails \/ OpenDevice \/ EventArrives \/ SendSignal \/ HandleSignal \/ MainStep

(* The main thread is scheduled, and runs its pending handlers.            *)
ServiceFairness == WF_allVars(MainStep) /\ WF_allVars(HandleSignal)

ServiceSpec == ServiceInit /\ [][ServiceNext]_allVars /\ ServiceFairness

-----------------------------------------------------------------------------
ServiceTypeOK ==
  /\ KeyTypeOK
  /\ stateFile \in Kinds \cup {"torn", NoState}
  /\ at \in [Proc -> MainPC]
  /\ init \in [Setup -> Kinds \cup {"off", "chosen"}]
  /\ selfFd \in BOOLEAN /\ devFd \in {"none", "open", "closed"}
  /\ frames \in Seq({"capture", "destroy", "close"})
  /\ signals \in 0..MaxSignals /\ pending \in BOOLEAN /\ stopping \in BOOLEAN

(* Every process and every record of an installation is of the one backend *)
(* "init" chose, also when two of them ran at once: a key reference of the *)
(* other backend could not be used.                                        *)
OneBackend ==
  /\ \A p \in Proc : backend[p] # "none" => backend[p] = stateFile
  /\ \A r \in records : IF r.key = NoKey THEN stateFile = "tpm" ELSE stateFile = "software"

(* close() may run on top of itself, in the finally block and in each      *)
(* handler: none of its activations writes to or closes a number that is   *)
(* no longer the device's.                                                 *)
ClosesItsOwn ==
  \A i \in 1..Len(frames) : frames[i] \in {"destroy", "close"} => devFd = "open"

(* A service whose signal was handled stops, wherever the signal found it, *)
(* although Python repeats an interrupted read.                            *)
StopsWhenHandled == stopping ~> at[Service] = "off"
=============================================================================
