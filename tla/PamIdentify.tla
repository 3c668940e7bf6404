----------------------------- MODULE PamIdentify -----------------------------
(***************************************************************************)
(* identify() of howdy/src/pam/main.cc: one login, in which compare.py     *)
(* races the password prompt.                                              *)
(*                                                                         *)
(* Threads: the main thread, the child task that waits for compare.py, and *)
(* the password task that prompts, if it was activated                     *)
(* (howdy/src/pam/optional_task.hh).  A step is one system call or one     *)
(* block under the mutex.  The destructors of the tasks, which find them   *)
(* joined, are left out.  Process ids are not reused.                      *)
(***************************************************************************)
EXTENDS Compare

CONSTANT MaxRetries     \* MAX_RETRIES of the enter presses

ASSUME PamAssumption == MaxRetries \in Nat

VARIABLES workaround,    \* core.workaround
          askToken,      \* pam_sm_authenticate asks for it, open_session does not
          main,          \* where identify() is
          childTask,     \* the thread of child_task
          passTask,      \* the thread of pass_task
          confirmation,  \* confirmation_type
          password,      \* what pam_get_authtok returned
          status,        \* what the child task returned: "none" yet, "match",
                         \* "error" or "signal"
          waitFailed,    \* history: waitpid failed
          signalled,     \* SIGTERM is on its way to compare.py
          presses,       \* enter presses sent
          returned       \* the value of identify()
configVars == <<workaround, askToken>>
taskVars == <<childTask, status, waitFailed, passTask, confirmation, password>>
pamVars == <<configVars, main, taskVars, signalled, presses, returned>>
loginVars == <<compareVars, pamVars>>

NotYet == "notYet"

LoginInit ==
  /\ CompareInit
  /\ workaround \in {"off", "input", "native"} /\ askToken \in BOOLEAN
  /\ main = "start"
  /\ childTask = "off" /\ passTask = "off" /\ status = "none" /\ waitFailed = FALSE
  /\ confirmation = "unset" /\ password = "none"
  /\ signalled = FALSE
  /\ presses = 0
  /\ returned = NotYet

AskPass == askToken /\ workaround # "off"

ReturnWith(code) == main' = "done" /\ returned' = code
MainTo(label) == main' = label /\ UNCHANGED returned

-----------------------------------------------------------------------------
(* No configuration, no user name, disabled, remote, lid closed, no model, *)
(* or compare.py cannot be spawned.                                        *)
ReturnEarly ==
  /\ main = "start"
  /\ ReturnWith("unavailable")
  /\ UNCHANGED <<compareVars, configVars, taskVars, signalled, presses>>

SpawnCompare ==
  /\ main = "start"
  /\ compare' = "loading"
  /\ childTask' = "waiting"
  /\ passTask' = IF AskPass THEN "prompting" ELSE "off"
  /\ MainTo("waiting")
  /\ UNCHANGED <<detector, frameVars, rules, ruleVars, exit, configVars, status,
       waitFailed, confirmation, password, signalled, presses>>

-----------------------------------------------------------------------------
(* The two tasks.  Each sets confirmation_type if it is the first. *)
Confirm(who) == confirmation' = IF confirmation = "unset" THEN who ELSE confirmation

(* waitpid returns the status of compare.py. *)
ChildReaped ==
  /\ childTask = "waiting"
  /\ exit # NoExit
  /\ childTask' = "notifying"
  /\ status' = IF exit \in {"match", "signal"} THEN exit ELSE "error"
  /\ UNCHANGED <<compareVars, configVars, main, passTask, waitFailed, confirmation,
       password, signalled, presses, returned>>

(* waitpid fails, as it does in a program that ignores SIGCHLD (ECHILD) or *)
(* when a signal interrupts it (EINTR).  Nobody looks, and the status is   *)
(* what the stack held.                                                    *)
WaitFails ==
  /\ childTask = "waiting"
  /\ childTask' = "notifying"
  /\ status' \in {"match", "error", "signal"}
  /\ waitFailed' = TRUE
  /\ UNCHANGED <<compareVars, configVars, main, passTask, confirmation, password,
       signalled, presses, returned>>

ChildNotifies ==
  /\ childTask = "notifying"
  /\ childTask' = "done"
  /\ Confirm("howdy")
  /\ UNCHANGED <<compareVars, configVars, main, status, waitFailed, passTask, password,
       signalled, presses, returned>>

(* pam_get_authtok returns: a password, an empty one after an enter press  *)
(* that reached the prompt, or an error of the conversation.               *)
PromptEnds ==
  /\ passTask = "prompting"
  /\ passTask' = "notifying"
  /\ password' \in {"typed", "error"}
  /\ UNCHANGED <<compareVars, configVars, main, childTask, status, waitFailed,
       confirmation, signalled, presses, returned>>

PassNotifies ==
  /\ passTask = "notifying"
  /\ passTask' = "done"
  /\ Confirm("pam")
  /\ UNCHANGED <<compareVars, configVars, main, childTask, status, waitFailed, password,
       signalled, presses, returned>>

-----------------------------------------------------------------------------
(* The main thread. *)

(* Mutant of PromptWon: the child is waited for and not killed. *)
PromptWonUnkilled ==
  /\ main = "waiting"
  /\ confirmation = "pam"
  /\ MainTo("joinKilled")
  /\ UNCHANGED <<compareVars, configVars, taskVars, signalled, presses>>

(* The prompt came first: kill(child_pid, SIGTERM). *)
PromptWon ==
  /\ main = "waiting"
  /\ confirmation = "pam"
  /\ signalled' = (exit = NoExit)
  /\ MainTo("joinKilled")
  /\ UNCHANGED <<compareVars, configVars, taskVars, presses>>

(* child_task.stop(false), then pass_task.stop(false). *)
JoinKilled ==
  /\ main = "joinKilled"
  /\ childTask = "done"
  /\ MainTo("joinPass")
  /\ UNCHANGED <<compareVars, configVars, taskVars, signalled, presses>>

PassJoined ==
  /\ main = "joinPass"
  /\ passTask = "done"
  /\ ReturnWith(IF password = "typed" THEN "ignore" ELSE "conversationError")
  /\ UNCHANGED <<compareVars, configVars, taskVars, signalled, presses>>

(* WIFEXITED(status) && WEXITSTATUS(status) != EXIT_SUCCESS                *)
ExitedWithError == status = "error"

(* Mutant of ChildWon: every failure of compare.py ends the prompt.        *)
ChildWonEndsPrompt ==
  /\ main = "waiting"
  /\ confirmation = "howdy"
  /\ childTask = "done"
  /\ MainTo(CASE workaround = "native" -> "cancel"
              [] workaround = "input"  -> "press"
              [] OTHER                 -> "status")
  /\ UNCHANGED <<compareVars, configVars, taskVars, signalled, presses>>

(* compare.py came first: child_task.stop(false), and what its status asks *)
(* for.                                                                    *)
ChildWon ==
  /\ main = "waiting"
  /\ confirmation = "howdy"
  /\ childTask = "done"
  /\ MainTo(CASE ExitedWithError /\ AskPass -> "awaitPassword"
              [] ~(ExitedWithError /\ AskPass) /\ workaround = "native" -> "cancel"
              [] ~(ExitedWithError /\ AskPass) /\ workaround = "input"  -> "press"
              [] workaround = "off" -> "status")
  /\ UNCHANGED <<compareVars, configVars, taskVars, signalled, presses>>

(* "The user might still be typing their password". *)
PasswordAwaited ==
  /\ main = "awaitPassword"
  /\ passTask = "done"
  /\ IF password = "typed" THEN ReturnWith("ignore") ELSE MainTo("status")
  /\ UNCHANGED <<compareVars, configVars, taskVars, signalled, presses>>

(* pass_task.stop(true): pthread_cancel takes effect while the prompt      *)
(* waits, and is too late afterwards.                                      *)
CancelPrompt ==
  /\ main = "cancel"
  /\ passTask # "off"
  /\ passTask' = IF passTask = "prompting" THEN "cancelled" ELSE passTask
  /\ MainTo("joinPrompt")
  /\ UNCHANGED <<compareVars, configVars, childTask, status, waitFailed, confirmation,
       password, signalled, presses>>

(* Mutant of PressEnter: MAX_RETRIES is not counted from 0. *)
PressEnterOnceMore ==
  /\ main = "press"
  /\ passTask # "done" \/ presses = 0
  /\ presses <= MaxRetries + 1
  /\ presses' = presses + 1
  /\ \/ UNCHANGED <<passTask, password>>
     \/ passTask = "prompting" /\ passTask' = "notifying" /\ password' = "typed"
  /\ UNCHANGED <<compareVars, configVars, main, returned, childTask, status, waitFailed,
       confirmation, signalled>>

(* The fake device: one press and up to MAX_RETRIES more, each followed by *)
(* a wait of 100 ms for the prompt to end.  A press may reach the prompt,  *)
(* and is an empty password there.                                         *)
PressEnter ==
  /\ main = "press"
  /\ passTask # "done" \/ presses = 0
  /\ presses <= MaxRetries
  /\ presses' = presses + 1
  /\ \/ UNCHANGED <<passTask, password>>
     \/ passTask = "prompting" /\ passTask' = "notifying" /\ password' = "typed"
  /\ UNCHANGED <<compareVars, configVars, main, returned, childTask, status, waitFailed,
       confirmation, signalled>>

(* The prompt has ended, the presses are used up, or there is no device.   *)
PressingEnds ==
  /\ main = "press"
  /\ MainTo("joinPrompt")
  /\ UNCHANGED <<compareVars, configVars, taskVars, signalled, presses>>

(* pass_task.stop(): join.                                                 *)
PromptJoined ==
  /\ main = "joinPrompt"
  /\ passTask \in {"done", "cancelled"}
  /\ MainTo("status")
  /\ UNCHANGED <<compareVars, configVars, taskVars, signalled, presses>>

(* pass_task.stop() when the task was never activated: there is no thread  *)
(* to cancel or to join, join() throws, and the process that logs in dies. *)
NothingToStop ==
  /\ main \in {"cancel", "joinPrompt"}
  /\ passTask = "off"
  /\ ReturnWith("aborted")
  /\ UNCHANGED <<compareVars, configVars, taskVars, signalled, presses>>

(* Mutant of HowdyStatus: only an exit status is looked at, as in          *)
(* WEXITSTATUS(status), which is 0 for a child that died of a signal.      *)
HowdyStatusOfExit ==
  /\ main = "status"
  /\ ReturnWith(IF status \in {"match", "signal"} THEN "success" ELSE "authError")
  /\ UNCHANGED <<compareVars, configVars, taskVars, signalled, presses>>

HowdyStatus ==
  /\ main = "status"
  /\ ReturnWith(IF status = "match" THEN "success" ELSE "authError")
  /\ UNCHANGED <<compareVars, configVars, taskVars, signalled, presses>>

-----------------------------------------------------------------------------
(* SIGTERM arrives. *)
SignalArrives ==
  /\ signalled
  /\ Dies
  /\ UNCHANGED pamVars

(* compare.py goes on. *)
CompareStep == CompareNext /\ UNCHANGED pamVars

Identify ==
  \/ ReturnEarly \/ SpawnCompare
  \/ PromptWon \/ JoinKilled \/ PassJoined
  \/ ChildWon \/ PasswordAwaited \/ CancelPrompt \/ PressEnter \/ PressingEnds
  \/ PromptJoined \/ NothingToStop \/ HowdyStatus

ChildTask == ChildReaped \/ ChildNotifies

LoginNext ==
  \/ Identify \/ ChildTask \/ WaitFails \/ PromptEnds \/ PassNotifies \/ SignalArrives
  \/ CompareStep

LoginSpec == LoginInit /\ [][LoginNext]_loginVars

(* The threads of the module run, and a signal kills; the user owes        *)
(* nothing, and compare.py may hang.                                       *)
LoginFairness ==
  /\ WF_loginVars(Identify) /\ WF_loginVars(ChildTask) /\ WF_loginVars(PassNotifies)
  /\ WF_loginVars(SignalArrives)

LoginFairSpec == LoginSpec /\ LoginFairness
-----------------------------------------------------------------------------
LoginTypeOK ==
  /\ CompareTypeOK
  /\ workaround \in {"off", "input", "native"} /\ askToken \in BOOLEAN
  /\ main \in {"start", "waiting", "joinKilled", "joinPass", "awaitPassword", "cancel",
               "press", "joinPrompt", "status", "done"}
  /\ childTask \in {"off", "waiting", "notifying", "done"}
  /\ status \in {"none", "match", "error", "signal"} /\ waitFailed \in BOOLEAN
  /\ passTask \in {"off", "prompting", "notifying", "done", "cancelled"}
  /\ confirmation \in {"unset", "howdy", "pam"}
  /\ password \in {"none", "typed", "error"}
  /\ signalled \in BOOLEAN
  /\ presses \in 0..(MaxRetries + 1)
  /\ returned \in {NotYet, "unavailable", "ignore", "conversationError", "success",
                   "authError", "aborted"}

(* A login goes through only when compare.py itself ended with a match:    *)
(* not when it was killed for the password, nor when it died.  The code    *)
(* keeps this promise only where waitpid does not fail, which it does not  *)
(* check: "waitFailed" excepts a status nobody wrote.                      *)
SuccessIsAMatch == returned = "success" => (exit = "match" /\ matched) \/ waitFailed

(* "Do not send enter presses ..., as the user might still be typing their *)
(* password": a check that fails leaves the prompt alone, and a password   *)
(* that was typed into it goes on to the next module.                      *)
PromptSurvivesFailure ==
  ExitedWithError /\ AskPass =>
    /\ presses = 0 /\ passTask # "cancelled"
    /\ password = "typed" => returned \in {NotYet, "ignore"}

(* "A task executed only if activated" (optional_task.hh): a session that  *)
(* is opened without a prompt does not bring down the process.             *)
NeverAborts == returned # "aborted"

(* A password that was typed gets the login on, also when compare.py       *)
(* hangs.  A check that has ended ends identify() without the user when    *)
(* there is no prompt (see NeverAborts for how), and one that reported a   *)
(* match when the prompt may be cancelled.                                 *)
EveryLoginEnds ==
  \/ password # "none"
  \/ exit # NoExit /\ ~AskPass
  \/ status = "match" /\ workaround = "native"
  ~> returned # NotYet
=============================================================================
