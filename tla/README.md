# Howdy in TLA+

Howdy unlocks a Linux session with the face of its user, and, in this fork,
acts as a FIDO2 security key whose user verification is the same face check.
This directory specifies the parts of it that keep state across processes,
threads and failures, checks them with TLC and proves the most important
results with TLAPS.  Paths below are relative to the repository; `webauthn/`
stands for `howdy/src/webauthn/`.

## 1. The system

    browser ── /dev/hidraw ── kernel ── /dev/uhid ── UHidDevice ── CtapHidDevice ── Authenticator ─┬─ CredentialStore (JSON file, flock)
                                                     read loop     reader, workers,               ├─ KeyStore (software or TPM)
                                                                   keepalives                     └─ FaceVerifier ── compare.py ── camera
                                                                                                     or OnnxBoundVerifier ── FacePipeline ── camera
    howdy webauthn … (administrator) ───────────────────────────────────── the same files
    login, sudo ── pam_howdy.so ── compare.py ── camera, face models, rubber stamps
    howdy add / remove / clear / list ──────────── face models
    howdy-gtk (models tab, first-start wizard) ─── runs these commands
    compare_onnx.py (verify, enroll) ── FacePipeline

| component | state it keeps | operations | interacts with |
| --- | --- | --- | --- |
| credential store, `webauthn/store.py` | the JSON file, a private copy in every process, the flock on a sidecar, one temporary file name | load, add, increment_counter, remove, destroy_all, finds | shared by the service and every `howdy webauthn` |
| key store, `webauthn/keystore.py`, `keystore_tpm.py` | master key file and its copy in memory, or the TPM's keys | generate_key, sign, destroy_all | authenticator, command line |
| authenticator, `webauthn/authenticator.py` | the copy in the store, the responses waiting for GetNextAssertion with their time, the start time | one handler per CTAP2 command | store, key store, verifier |
| transport, `webauthn/ctaphid.py` | channels with half-received messages, the active channel, two cancel flags, two locks | feed_report, worker, keepalive | authenticator (calls, cancel), uhid (reports) |
| uhid device and service, `webauthn/uhid.py`, `service.py`, `webauthn_daemon.py` | a file descriptor, the flag of the signal handler, what the main thread was doing when it came | create, read loop, send_input, destroy | transport |
| face check, `verification.py` | the child process or the in-process check, one cancel flag | verify, cancel | authenticator, compare.py or ONNX |
| compare.py, `compare_onnx.py` | camera, counters of dark and tried frames, deadline | one run per check | detector thread, rubber stamps, models |
| rubber stamps, `rubberstamps/` | which stamp runs, its deadline | nod, hotkey | compare.py |
| PAM module, `pam/` | the compare child, two tasks (compare, password prompt), their completion flags | authenticate | compare.py, enter device |
| face models, `cli/add.py`, `remove.py`, `clear.py`, `list.py` | one JSON file per user | add, remove, clear, list | compare.py reads it |
| ONNX pipeline, `onnx_face.py` | the engines with their providers; in one sitting the counters and liveness windows | verify_user, enroll_user | in-process verifier, compare_onnx.py |
| howdy-gtk | the list in the models tab, the slide and the timeouts of the wizard | add, delete, scan, next | runs the face model commands |
| the rest (configuration commands, recorders, packaging) | configuration, device handles | one-shot | – |

What is hard, by component, with the property that makes it correct:

- **Store.**  Several processes read, change and rewrite one file, and die in
  the middle.  Correct when it behaves like a table with atomic operations, when
  the file always parses, and when a sign counter value is never returned twice
  (that is what a website detects a cloned key by).
- **Authenticator.**  A ceremony is a sequence of calls that can each fail, on
  a copy another process may have outdated; responses are signed now and
  released later.  Correct when counts increase in the order the website sees
  them, one face check releases one assertion per credential that claims user presence,
  and what was promised (a registration answered with success) is in the file.
- **Transport.**  Three kinds of threads, two locks, a join, and a host that may
  say anything at any time.  Correct when no report is spliced into another
  message, every accepted request is answered once or re-synchronised away,
  a cancel hits the request it was meant for and only that, and no thread waits
  for ever; and, below that, when what is put together from interleaved reports
  is what was sent.
- **Face check.**  The exit of the child, the deadline and cancel() race for the
  result.  Correct when one check runs at a time, a cancelled check never
  reports a match, and every check ends.
- **Key store.**  A master key file that two processes may both create, and that
  a crash may leave empty; a TPM with few slots for keys.  Correct when no key is
  lost but by a reset, every process and record uses the one backend that was
  chosen, and a signature gives its slot back.  A reset empties the
  records of one user and removes the master key that all users share; in the model
  any of the records may be those of that user, and what stays is of an ended
  epoch, of which `KeysSurvive` promises nothing.
- **uhid device and service.**  A signal handler runs on top of whatever the main
  thread was doing, `close()` included.  Correct when the activations of `close()` close
  one descriptor once, and only their own, and when a service whose signal was
  handled stops.  That nothing uses the descriptor after it was
  closed is not so, and not claimed: an interrupted read is repeated on it
  (`ReadFails`), and what a worker sends through `send_input` is not in the model.
- **ONNX pipeline.**  One pipeline lives as long as the service and serves many
  sittings, one thread sets the event another one polls.  Correct when a sitting
  returns only what was seen in it, a stopped check never succeeds, and every
  check ends.
- **PAM, compare.py, stamps.**  A password prompt and a face check race; the
  loser must be stopped.  Correct when a match is reported only after a frame
  matched and no stamp said no, nor ran out of time where that means no; when only
  such a match lets a login through; and when a failed check leaves the prompt
  alone.  A stamp whose `run()` raises is passed over (section 5).
- **Face models, howdy-gtk.**  Rewritten in place by commands that read them
  earlier; a window passes on an id from a list it read before, a wizard goes on by
  timeouts.  Correct when commands that do not overlap do what they were asked,
  the window deletes what it showed, and the wizard ends with a model saved.

`PROJECT.json` lists these hazards line by line under "hazards".

## 2. The modules

| module | models | how its state corresponds to the code |
| --- | --- | --- |
| `StoreTable` | the contents of a credentials file and what each operation does to them | a table from credential ids to sign counters; the other fields of a record never change, so the account is a function of the id |
| `AtomicStore` | what the store promises | the table, the ids no table has held, the counts handed out |
| `CredentialStore` | `store.py` step by step | `file`, `tmp` and `lock` are shared, `mem[p]` is `self._credentials` of process p, `pc[p]` and `op[p]` where it is in which operation |
| `CredentialStoreProofs` | – | theorems about `CredentialStore` |
| `FaceVerifier` | class `FaceVerifier` | `process` is the slot `self._process`, `cancelled` is `self._cancelled`, `child[t]` the child process |
| `OnnxFace` | `FacePipeline`: one sitting after the other, with `LivenessAnalyzer` and `InferenceEngine` | `sitting` is where `verify_user()` or `enroll_user()` is, `votes` is `texture_votes`, `ratios` how often each level is in `parallax_ratios`, `sawFrame`, `sawLight`, `bestMatches` what the final status looks at, `engine` the provider of each network |
| `OnnxVerifier` | class `OnnxBoundVerifier`, driving `OnnxFace` | `cancelEvent` is `_cancel`, `lock` is `_lock`, `check[t]` where `verify()` or the preload thread is |
| `CompareOnnx` | `compare_onnx.py`, driving `OnnxFace` | `program` where `main()` is, `exitCode` how the process ended |
| `Verifiers` | `create_verifier` and the three ways to check a face behind one set of statuses | `backend` is which of them runs |
| `FaceCheck` | what a verifier promises the service | each call's check idle, running or over, what it returned, the calls during which a cancel() came |
| `FaceVerifierProofs`, `VerifiersProofs` | – | the invariant of `FaceVerifier`, which `CtapHidProofs` uses too; theorems about `Verifiers` |
| `KeyStores` | `SoftwareKeyStore` and `TpmKeyStore` | `keyFile` is `master.key`, `cached[p]` is `self._master_key` of process p, `use[p]` where its operation is, `primary` and `handles` what it has loaded in the TPM, `records` the credential records by the master key that wraps them |
| `Service` | the processes around a key store: `init`, `register`, `authenticate`, and the service with its device | `at[p]` is where the main thread is, `stateFile` is `state.json`, `selfFd` whether `_fd` is set, `devFd` what became of the descriptor, `frames` the activations of `close()` on the stack, `stopping` is `stopping["flag"]` |
| `FaceModels` | the model file of a user and `add`, `remove`, `clear` | `file` and `cut` are the file, `read[p]` the list a command read, `linked[p]` whether the file it writes is still in the directory |
| `HowdyGtk` | the models tab and the first-start wizard, driving `FaceModels` | `shown` is the list store, `slide`, `nextOn`, `timers` the wizard, `dialog` what the window waits for |
| `Commands` | `cli.py`: which of the two families of commands an administrator uses | `area` is the family |
| `CommandsProofs` | – | theorems about `Commands`, hence about `KeyStores`, `Service`, `FaceModels` and `HowdyGtk` |
| `CtapHid` | the threads of `ctaphid.py`, driving `FaceVerifier` | `active`, `aborted`, `cancelReply` are `_active_cid`, `_cancelled`, `_cancel_reply`; `sender` holds `_send_lock` between two reports; one `worker` and one `keepalive` per request |
| `SerialDevice` | what the transport promises its host and the authenticator | each request's stage, its check and result, what the host asked for, whether a keepalive is due |
| `CtapHidHost` | what the host knows of the transport | two history variables |
| `CtapHidProofs` | – | theorems about `CtapHid` |
| `CtapFraming` | how reports become messages | `channel[c]` is a `Channel` object; its specification is `FramingSpec` |
| `CtapFramingProofs` | – | theorems about `CtapFraming` |
| `Authenticator` | `authenticator.py` beside the administrator | `file` and `cache` are the store and the service's copy of it, `pending` is `_next_assertions`, `phase` where `handle_cbor` is; `credit` what the face checks allow, `silent` the assertions with `up` false |
| `AuthenticatorProofs` | – | theorems about `Authenticator` |
| `Compare` | one run of `compare.py` with the detector thread and the rubber stamps | `compare` is where the main thread is, `detector` the thread that holds the lock, `rule`, `turns`, `key`, `polls` the state of the stamp that runs, `verdicts` what became of the rules, `exit` how the process ended |
| `PamIdentify` | `identify()` of `pam/main.cc`, driving `Compare` | `main`, `childTask`, `passTask` are the three threads, `status` what `waitpid` wrote, `waitFailed` whether it wrote anything, `confirmation` is `confirmation_type`, `password` what the prompt returned; its specification is `LoginSpec` |
| `PamIdentifyProofs` | – | theorems about `PamIdentify` and `Compare` |
| `MCWebauthn` | `Authenticator` and `CtapFraming` in one run | `layer` chooses which of them a behaviour is of |
| `MCMachine` | `Commands` and `PamIdentify` in one run | `program` chooses which of them a behaviour is of |
| other `MC…` | – | the instances TLC checks; `QuietSpec` of `MCCtapHid` is the transport with a host that sends no CANCEL |

How they fit together: `CredentialStore` implements `AtomicStore` (checked and
proved), so `Authenticator` uses one step per store operation, on the same
`StoreTable`; what those steps do to keys, call by call, is in `KeyStores`.  `CtapHid` extends `FaceVerifier` and calls its actions from the
worker and the reader, so that their interleavings are those of the real
threads.  `Authenticator` relies on the transport running one command at a time,
which `CtapHid` implements (`SerialDevice`), and so does `OnnxVerifier`, whose
checks follow each other.  What both verifiers promise is `FaceCheck`.  `CtapFraming` is the
layer under the requests that `CtapHid` receives in one piece.  `PamIdentify`
extends `Compare` and starts, waits for and kills it, while it runs by itself.
`Verifiers` puts the three users of `verification.py` in one specification: a
behaviour is of the one that the configuration chooses.  `Service` extends
`KeyStores` and makes its processes start, work, die and be signalled; `HowdyGtk`
extends `FaceModels` and takes part in it as one of two runners, the other being
a shell.

A step is what other actors can tell apart: a system call on something shared, a
block under a lock, one report on the wire, one call from the authenticator into
another component.  Actions carry the names of the functions they model; the map
in `PROJECT.json` gives the lines.  An exception is an exit of its own wherever the
code lets one through: `RaisesAtOnce` and `FrameRaises` of a sitting,
`StampRaises` of a stamp, `WaitFails` for the result of `waitpid` that nobody looks
at.  An operator whose comment begins with
"Mutant of" is a plausible mistake in the definition that follows it.  It is
used nowhere in the model: with the definition replaced by it, the run must fail
the property named in `PROJECT.json`, which shows that the property has
something to say about the code.

## 3. What is checked

| run | instance | shows |
| --- | --- | --- |
| `store` | the service and one command line, two ids of one account, counters to 2 | `AccountsAreDistinct` (in a file that always parses), `CounterIsNew`, refinement of `AtomicStore`, and `EveryCallReturns` |
| `face_verifier` | three threads of `FaceVerifier`; one caller and the preload thread of `OnnxBoundVerifier`, called again and again, one engine, windows of 2, at most 4 faces in a sitting; one `compare_onnx.py` | `OneChildAtATime`, `HitCheckIsCancelled`, `StatusIsEarned`, refinement of `FaceCheck` by both verifiers, `EveryCheckReturns` |
| `ctaphid` | two channels, two requests | `NoSplicedFrame`, `ResponseIsLast`, `CancelHitsItsOwner`, refinement of `SerialDevice` |
| `ctaphid_live` | one channel, two requests, a host that sends no CANCEL | `EveryRequestEnds`, the reader's included |
| `ctaphid_stale`, `ctaphid_cancel` | one channel, one request | findings |
| `webauthn` | framing: two channels, messages of 0 to 7 bytes in reports of 2, numbers modulo 2 | `DeliveredIsSent`, `EveryMessageHasOneOutcome` |
| | ceremonies: one website, two ids of one of its users registered by the service, one id of another registered by the administrator, counters to 2, three successful face checks, one silent assertion | `CountersIncrease`, `OneAssertionPerCheck`, `AnsweredIsStored`, `RecordsHaveKeys`, `MissesOnce` |
| `authenticator_race`, `authenticator_silent` | the same ceremonies | findings |
| `machine` | commands: two `init`, the service and one command with two master keys, one reset and one signal; a shell and howdy-gtk with three scans | `KeysSurvive`, `HandlesAreFlushed`, `OneBackend`, `ClosesItsOwn`, `StopsWhenHandled`; `FileIsWhatWasAsked`, `DeletesWhatWasShown`, `EndsEnrolled` |
| | login: four rule lists of up to two stamps, three workarounds, with and without prompt; two turns for a nod, one poll of a hotkey, one retry | `MatchIsEarned`, `SuccessIsAMatch`, `PromptSurvivesFailure`, `EveryLoginEnds` |
| `login_session`, `login_stamps` | a login with at most one stamp, two polls, two retries | findings |

Each passing run but `ctaphid_live`, whose states `ctaphid` has among its own,
checks the type invariants of its modules too.  `webauthn` and `machine` each
answer for two parts of the system that share no variable: a behaviour is of one
part and leaves the other as it began, so that the reachable states are those of
the two parts one beside the other, not their product.  The fairness of
`EveryLoginEnds` is of the steps of a login in a behaviour that is one.

Why the bounds are enough:

- *Store.*  Two processes are enough for every conflict the flock guards
  against, and two ids of one account for a replacement; a third process would
  wait like the second.  `MaxCount = 2` lets both processes increment the same
  record.  The theorems hold for any number of each.
- *Face checks.*  One thread holds the slot, a second is refused, a third
  starts when the first is done.  For the pipeline: windows of 2, where the code
  has 16 votes and 3 pairs, can be short of, at and beyond their length in 4
  faces; a ratio is below, at or above the threshold; a second sitting, which one
  caller that calls again makes, is enough for what an earlier one could leave
  behind.  The engines differ in nothing but their failures, so that one is
  enough; the theorems hold for any number.
- *Commands.*  Two inits are enough for a race to create the state file, two
  processes for a race to create the key, which draws two keys, or one, a reset
  and another.  One signal is one handler on top of the `close()` of the finally
  block; `CloseIsReentrant` proves it for any number.  Three scans add two models
  and one after a removal, which uses an id again.
- *Transport.*  A hazard here involves a request, its successor and the reader:
  two requests, on the same channel or on two.  Liveness needs two as well: the reader
  holds `_lock` and waits for `_send_lock` only to turn away a request while a
  second one is active and the worker of the first, which has freed the device
  before it sends, is between two reports.  One channel is enough for that.  To
  keep the graph small enough for the temporal check its host sends no CANCEL; an
  INIT makes the reader take the same way through `_cancel_active` and `cancel()`.
- *Framing.*  Real reports carry 57 and 59 bytes and a number modulo 128.  Only
  the comparisons of lengths with these matter, and 2, 2 and 2 have all of them:
  an empty message, one report part full and full, two and three reports, and a
  message one byte longer than the numbers can count (7 = 2 + 2 · 2 + 1).
- *Authenticator.*  Two credentials of one website for a list of waiting
  responses, two of one user for a replacement; three successful checks are a
  registration and two assertions, or a registration, a reset and a
  registration.  A silent assertion changes nothing but its own
  count, so that one is as good as any number; the theorems allow any.
- *Login.*  One login has one compare.py and one prompt.  Two rules are enough
  for an order.  The four lists have none, one that fails safe or not, a rule
  without a stamp before one with, and two whose time-outs mean different things;
  both stamps are in them with both meanings.  Two turns have a first and a last;
  one poll and one retry are followed by the end of the polls and by one retry too
  many (`MAX_RETRIES` is 5 in the code).

Symmetry is used where the instances are interchangeable and no liveness is
checked (channels and requests in `ctaphid`, the two ids of one user in
`webauthn`).

Fairness:

- *Store.*  `WF` of the work of a process that holds the flock: a process that
  is not killed keeps running.  `SF` of acquiring: Linux queues the waiters of a
  flock.  Starting an operation, failing and dying are never assumed.
- *Face checks.*  `WF` of a thread in `verify()`, of the preload thread, and of
  the clock.  Nothing is assumed of compare.py: `process.wait` has a deadline,
  after which it is terminated and then killed.  Nothing is assumed of what the
  camera shows; that reading a frame returns is, as OpenCV gives up after ten
  seconds.
- *Service.*  `WF` of the main thread, and of the handler of a signal that is
  pending while the main thread runs Python code.  Nothing is assumed of the
  kernel: a `read` may block for ever.
- *Transport.*  `SF` of each thread.  A `threading.Lock` is released and taken
  over and over, so being scheduled is not enough to get it; that the scheduler
  does not starve a waiter for ever is the assumption.  Nothing is assumed of
  the host or of compare.py.
- *Login.*  `WF` of the main thread and the two tasks, once they have something to
  do, and of the delivery of a signal.  The user need not type and compare.py may
  hang; with the `input` workaround a login may therefore wait for the user, as
  the code says it will.

## 4. What is proved

The theorems hold for every set of processes, credentials, threads, engines and
channels, and for every bound:

| module | theorem | statement |
| --- | --- | --- |
| `CredentialStoreProofs` | `TypeCorrect` | `Spec => []TypeOK` |
| | `FileStaysWhole` | `Spec => []FileIsWhole` |
| | `CounterNeverRepeats` | `Spec => []CounterIsNew` |
| | `AccountsStayDistinct` | `Spec => []AccountsAreDistinct` |
| | `Refinement` | `Spec => ImplementsAtomicStore` |
| `CommandsProofs` | `TypeCorrect` | `Spec => []TypeOK` |
| | `KeysAlwaysSurvive` | `Spec => []KeysSurvive` |
| | `HandlesAreAlwaysFlushed` | `Spec => []HandlesAreFlushed` |
| | `OnlyOneBackend` | `Spec => []OneBackend` |
| | `CloseIsReentrant` | `Spec => []ClosesItsOwn` |
| | `FileIsAlwaysWhatWasAsked` | `Spec => []FileIsWhatWasAsked` |
| | `DeletesTheShown` | `Spec => []DeletesWhatWasShown` |
| | `WizardEndsEnrolled` | `Spec => []EndsEnrolled` |
| `AuthenticatorProofs` | `TypeCorrect` | `Spec => []TypeOK` |
| | `CountersAlwaysIncrease` | `Spec => []CountersIncrease` |
| | `AssertionsArePaidFor` | `Spec => []OneAssertionPerCheck` |
| | `AnsweredStaysStored` | `Spec => []AnsweredIsStored` |
| | `RecordsKeepKeys` | `Spec => []RecordsHaveKeys` |
| | `MissedOnlyOnce` | `Spec => []MissesOnce` |
| `CtapFramingProofs` | `TypeCorrect` | `Spec => []TypeOK` |
| | `DeliveredWasSent` | `Spec => []DeliveredIsSent` |
| | `OneOutcomeEach` | `Spec => []EveryMessageHasOneOutcome` |
| `VerifiersProofs` | `TypeCorrect` | `Spec => []TypeOK` |
| | `OneChildOnly` | `Spec => []OneChildAtATime` |
| | `HitsAreCancelled` | `Spec => []HitCheckIsCancelled` |
| | `EveryStatusIsEarned` | `Spec => []StatusIsEarned` |
| | `StoppedNeverSucceeds` | `Spec => []StoppedCheckNeverSucceeds` |
| | `Refinement` | `Spec => ImplementsFaceCheck` |
| `CtapHidProofs` | `TypeCorrect` | `Spec => []TypeOK` |
| | `VerifierIsAlwaysFree` | `Spec => []VerifierIsFree` |
| | `CancelsHitTheirOwners` | `Spec => []CancelHitsItsOwner` |
| | `ResponsesAreLast` | `Spec => []ResponseIsLast` |
| | `FramesAreNotSpliced` | `Spec => NoSplicedFrame` |
| | `Refinement` | `Spec => ImplementsSerialDevice` |
| `PamIdentifyProofs` | `TypeCorrect` | `Spec => []TypeOK` |
| | `MatchesAreEarned` | `Spec => []MatchIsEarned` |
| | `SuccessesAreMatches` | `Spec => []SuccessIsAMatch` |
| | `PromptsSurvive` | `Spec => []PromptSurvivesFailure` |

They rest on the assumptions that the modules name: about the store that there
is a credential, that the service is a process, and that `NoProc`, `Torn` and
`NoFile` are not what they must differ from; about the key stores and the
service that the service is a process and that `NoFile` and `NoState` are no
files; about the face checks that `NoThread` and `NoCaller` are nobody, that the
preload thread is no caller, that the sizes are positive and that the window of
the votes holds as many as its verdict asks for; about the transport that the
broadcast channel and the reader thread are none of those they must differ from;
about a login that the rule lists are sequences of rules; about the face models
that howdy-gtk is one of the runners, and that `Missing` and `Torn` differ and are
no lists of models; about the authenticator that `NoCred` is no credential, that
an account belongs to one website, and that the ids of the administrator are
credentials; about the framing that `NoChan` is no channel and that the sizes of
reports and the range of their numbers are positive.

*Credential store.*  None of its properties is inductive.  That the file is whole after a rename needs that
the temporary file was complete, hence that nobody truncated it since, hence
mutual exclusion; that a count is new needs that the copy in memory is the file
plus one and that the file is above everything returned.  The inductive
invariant `IInv` says this: a process is in its critical section exactly when it
holds the flock; what the file, the temporary file and the copy of the holder
are at each of its steps; that ids that have not been stored are in nobody's
copy and that each is drawn by one process only; and that the file covers the
returned counts.  `Invariance` proves it, one step per action; the theorems above
follow from it, and `Refinement` maps every step either to one of `AtomicStore`
or to a stutter (`Rename` to the operation, `Unlink` to the reset, `Return` to
the issue of a count, giving up an add to the waste of its id).

*Commands.*  The key stores with their processes and the face models with
howdy-gtk share no variable; `CommandsInv` joins the invariants of both, and the
steps of one family leave the other's alone.

*Service.*  `KeysSurvive` speaks of whole key files; it is inductive only with
what holds in between: that the process which is writing the file created it and
is the only one (`O_EXCL`), that what it has generated is what it writes, that a
process past the loading of a key has the key of the file, and that nothing is
cached or recorded from an epoch that has not begun.  `ClosesItsOwn` needs that
at most one activation of `close()` holds the descriptor: the one that has read
and cleared `_fd`, after which the others find it empty.

*Face checks.*  `OneChildAtATime` needs that the slot belongs to a `verify()` from
its spawn to its reaping, and `HitCheckIsCancelled` that nobody clears the flag in
that time, which is why a refused `verify()` must not; while a check runs the flag
is set exactly when a `cancel()` has hit it.  A child may be killed by anybody at
any time.  `StatusIsEarned` needs that the
windows and counters hold no more than the faces of this sitting gave: one vote
each, and a pair for each but the first (`EvidenceInv`).  It says nothing of a
sitting that ended by an exception, which a model file, a new session, a frame, a
crop or the saving of a model may raise whatever the providers are.  `ThreadInv` says that
the lock is held exactly while a pipeline that is not there is being built, and
that until a check has answered the event is set exactly when a cancel() has hit
it.  `Refinement` maps both to `FaceCheck`: spawning the child, or clearing the
event, begins a check, reaping it, or returning from the sitting, ends it, and the
rest stutters; so the service may rely on the same promises whichever of them
`create_verifier` chose.  It says what the two properties about cancels do not,
that a check which no cancel() hit never says `CANCELLED`, and it contains
`StoppedCheckNeverSucceeds`.  `Verifiers` lets one of the three run; the steps of
one leave the invariants of the others alone.

*Transport.*  One request at a time owns the device (`OwnerInv`), and verify()
runs only for it.  `CancelHitsItsOwner` needs that whatever could cancel it was
set for it (`CheckInv`): while the reader, having released `_lock`, is about to
call `cancel()`, it lets no other request in, so that the request which runs by
then is the one the cancel was for, or none.  `ResponseIsLast` needs that the two
flags, when they say that the reply is to be dropped, come from an INIT on the
channel of the request that finds them set, and that the keepalive thread is gone
before the device is freed (`AnswerInv`); `NoSplicedFrame` that the holder of
`_send_lock` between two reports is the thread about to send the second
(`WireInv`).  `Refinement` maps the threads to `SerialDevice`: a request is
accepted when it claims the device, returned when the worker leaves
`handle_cbor`, released when the flags are read, and answered with the first report
of its response; the reader's own replies, the join and the other reports stutter.
It contains `VerifierIsFree`, which is why the run need not check that again.

*Login.*  `MatchIsEarned` needs what holds on the way: that the rules before the
current one have not refused, and that a process that has ended does nothing more
(`RunInv`).  `SuccessIsAMatch` then needs that the status is looked at only after
`waitpid` has returned, and holds where that call does not fail: `identify()` does
not look at its result, and a status that nobody wrote may well be 0.  The
exception is part of the statement (`waitFailed`); `PromptSurvivesFailure` that the prompt is pressed or
cancelled only when the status, which no longer changes, is no failure, and that
a failure is returned only when the prompt has ended without a password
(`MainInv`).

*Authenticator.*  `CountersIncrease` relates what a website saw to a response that
is signed at one time and released at another.  What holds all the time is that a
response, whether it waits for GetNextAssertion or is being signed, is
`Releasable`: its count is above the last one its website saw and, unless the
record is gone, not above the file, and no two that wait are of one credential
(`ResponseInv`), while the file is not below what was seen (`FileInv`).  That a
credential which is stored later starts at 0 without harm needs that an id which
no file has held has never been signed for (`NewInv`).  `OneAssertionPerCheck` is
an account: checks have paid for what waits, and once more for what the ceremony
under way may still sign (`CreditInv`).  It is about the assertions that claim user
presence; those with the option `up` set to false are signed without a check
(section 5), and disturb nothing else (`OthersUnchanged`).  `AnsweredIsStored` and `RecordsHaveKeys`
need what holds in the gap between two calls: that a record to be attested is in
the file or was removed since, and that the service destroys the keys only when
its own records are gone.

*Framing.*  After the first a reports of a message its channel is untouched (a is
0), holds exactly the bytes that these reports have room for and expects number
a - 1, or is finished with one outcome; and what the client still has to send are
the rest of the reports (`ArrivedUpTo`).  Nothing is known of other channels but
that this one is theirs to leave alone, which is why interleaving does no harm.
`EveryMessageHasOneOutcome` then needs that the reports which the client makes are
enough, which is the lemma `PartsNeeded` about the rounded division in the code.

*Face models.*  `FileIsWhatWasAsked` needs that ids and scans increase along every
list, the ones read earlier included, and that a command nobody has disturbed has
read what is in the file (`JobInv`).  What `remove` leaves (`Without`, the loop of
the code) is defined by recursion over a sequence; its facts are proved by looking
at the first length for which they would fail, with the well-foundedness of the
numbers, as the induction theorems cannot be used.

*howdy-gtk.*  Slide 4 has no way forward but the timeout of a scan that was saved,
since its button stays disabled and no earlier slide's work can end on it
(`WizardInv`).  The list in the window is the file as long as only the window
changes it, until its own command begins to write (`WindowInv`).

Every safety invariant and action property that a passing run checks is proved.
Model-checked only: liveness (`EveryCallReturns`, `EveryCheckReturns`,
`EveryRequestEnds`, `EveryLoginEnds`, `StopsWhenHandled`), which is outside the
prover's reach, and the findings of the next section, which are counterexamples.

## 5. Where the code and its documentation disagree

- *A stale response after a re-sync* (`ctaphid_stale`).  The worker decides
  under `_lock` to respond and sends after releasing it.  An INIT in between
  finds no active channel, is answered, and the old response follows.
- *A cancel that is too early is lost* (`ctaphid_cancel`).  `verify()` clears the
  cancel flag when it starts; a CANCEL that arrives between the acceptance of a
  request and the start of compare.py is cleared with it, and the check runs to
  its end.  `CancelHitsItsOwner` and `ResponseIsLast` do hold.
  The same is true of the event of `OnnxBoundVerifier`.
- *A registration beside a reset loses its key* (`authenticator_race`).  `reset()`
  holds the flock for the records only; `howdy webauthn register` makes its key
  before and stores its record after.  For the records of the service itself,
  `RecordsHaveKeys` holds.
- *A silent assertion needs no face* (`authenticator_silent`).  `get_assertion`
  with the option `up` set to false signs at once, over flags 0 and the count as it
  is; `docs/webauthn.md:254-256` says that every `get_assertion` calls the face
  check, "no face match, no signature", and `docs/webauthn-design.md:500` that
  there is no path without one.  The code explains it as a pre-flight whose
  signature no website takes for a login.  `OneAssertionPerCheck` holds for all
  others.
- *A stamp that raises counts as passed* (`login_stamps`).  `execute()` sets the
  result to false, "Make the stamp fail by default", but goes on with the next rule
  when `run()` raises, without looking at it, also for a stamp that fails safe.
- *Opening a session can end the process* (`login_session`).  `stop()` of a task
  that was never activated joins a thread that does not exist, and the exception
  leaves the PAM module.  `pam_sm_open_session` never activates the prompt, and
  stops it if a workaround is configured.

Not runs of their own: `main.cc:286-287` ignores what `waitpid` returns and reads a
status that is uninitialised when it fails (`ECHILD` in a program that ignores
SIGCHLD, `EINTR`); no document says otherwise, so it stands as the exception in
`SuccessIsAMatch`.  The comment at `ctaphid.py:126` speaks of a channel that is
"mid-message", where `_busy_with_other` looks at the active operation only; two
channels may well be in the middle of a message, and `DeliveredIsSent` shows that
this does no harm.

## 6. What is left out, and why

- The encodings (CBOR, JSON, authenticator data), the cryptography, and the
  validation of malformed requests, which answers an error and changes nothing.
- A client that gives up a message without INIT and then goes on sending on the
  same channel.  The protocol asks for INIT.
- Power cuts.  A process may die anywhere, a machine may not.
- The other recorders (`v4l2.py` is a vendored table of constants), the commands
  config, set, disable, snapshot and test, the sticky note and the video tab of
  howdy-gtk, the training script of the liveness network, and packaging: device
  input and output, drawing, or a single sequential step.
- Failures of the TPM to flush a key, and `close()` of the TPM key store, which
  the program never calls.
- A signal in the few instructions between the test of the flag and `os.read`:
  the handler runs when the next report comes, and `StopsWhenHandled` begins
  there.
- Overlapping commands on one face model file lose each other's work by their
  design; `FileIsWhatWasAsked` speaks of commands that do not overlap, and of ids
  only when they do.
- A second click on the scan button in the last 10 ms of its slide, after which
  the wizard may pass over slide 5: it is in the model, and `EndsEnrolled` shows
  that it does no harm.
- The networks and the image arithmetic of the ONNX pipeline: whether a face
  matches, looks live and has moved is an input.
- The numbers of the face models: whether a frame matches is an input.
- The windows that compare.py shows, its snapshots, and the messages and logs of
  the PAM module.

- The slot limit of the TPM, a short `master.key` that later starts refuse, a torn
  `state.json`, the work that overlapping commands lose, and an id from a list that
  another runner has outdated: the models have such states, but the code promises
  nothing about them; the hazards in `PROJECT.json` say so one by one.

## 7. Plan

All components that keep state across steps have their module, their safety
properties are proved, and the three interfaces (store, face check, transport)
have an abstract specification that is proved to be implemented.  What is left is
the same for the operations on keys that `Authenticator` takes as one step and
`KeyStores` call by call.
