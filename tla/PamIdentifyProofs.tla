------------------------- MODULE PamIdentifyProofs --------------------------
(***************************************************************************)
(* What a login promises, for every list of rules of the rubber stamps,    *)
(* every number of turns and polls they ask for, and every number of enter *)
(* presses.                                                                *)
(***************************************************************************)
EXTENDS PamIdentify, TLAPS

-----------------------------------------------------------------------------
(* compare.py *)

Passed(i) ==
  \/ verdicts[i] \in {"skipped", "raised", "yes"}
  \/ verdicts[i] = "expired" /\ ~rules[i].failsafe

(* While the rules are executed, each before the current one was passed    *)
(* over, confirmed, or ran out of time with "faildeadly".                  *)
RunInv ==
  /\ CompareTypeOK
  /\ compare = "exited" <=> exit # NoExit
  /\ compare \in {"rule", "nod", "hotkey"} => matched
  /\ compare \in {"nod", "hotkey"} => rule <= Len(rules)
  /\ compare = "nod" => turns["x"] < MinDirections /\ turns["y"] < MinDirections
  /\ compare # "exited" =>
       /\ Len(verdicts) = rule - 1
       /\ \A i \in 1..Len(verdicts) : Passed(i)
  /\ MatchIsEarned

(* A list of rules has a length, and its entries are rules.                *)
LEMMA RulesAreASequence ==
  ASSUME rules \in Rulesets
  PROVE  /\ Len(rules) \in Nat
         /\ \A i \in 1..Len(rules) : rules[i].failsafe \in BOOLEAN
<1>1. rules \in Seq(Rule)
  BY CompareAssumption
<1>2. Len(rules) \in Nat /\ \A i \in 1..Len(rules) : rules[i] \in Rule
  BY <1>1
<1> QED
  BY <1>2 DEF Rule

(* The process that is not there yet.                                      *)
LEMMA RunInitInv == CompareInit => RunInv
<1> SUFFICES ASSUME CompareInit PROVE RunInv
  OBVIOUS
<1>1. Len(rules) \in Nat /\ verdicts = <<>> /\ rule = 1
  BY RulesAreASequence DEF CompareInit
<1>2. turns \in [{"x", "y"} -> 0..MinDirections] /\ polls \in 0..Polls
  BY CompareAssumption DEF CompareInit, NoTurns
<1>3. CompareTypeOK
  <2>1. rule \in 1..(Len(rules) + 1) /\ verdicts \in Seq({"skipped", "raised", "yes", "no", "expired"})
    BY <1>1
  <2> QED
    BY <1>2, <2>1 DEF CompareInit, CompareTypeOK
<1> QED
  BY <1>1, <1>3 DEF CompareInit, RunInv, MatchIsEarned, NoExit

(* A process that has ended does nothing any more, and the one that is not *)
(* there yet does nothing either.                                          *)
LEMMA OnlyTheLivingStep == CompareNext \/ Dies => compare \notin {"off", "exited"}
BY DEF CompareNext, MainThread, LoadModels, OpenCamera, AcquireLock, SearchEnds, CameraFails,
       FrameWithoutMatch, FrameMatches, NoMoreRules, StartNod, StartHotkey, SkipRule, StampRaises,
       PassOver, NodFrame, NodTimesOut, HotkeyPoll, HotkeyTimesOut, Raises, DetectorThread, TimePasses, OnKey, Dies,
       Alive, Searching

(* What leaves the rules alone, and does not enter or leave them.          *)
LEMMA BeforeTheRules ==
  ASSUME RunInv,
         UNCHANGED <<rules, ruleVars>>,
         compare \in {"loading", "camera", "acquire", "frame"},
         detector' \in {"off", "loading", "ready", "missing", "raised"},
         late' \in BOOLEAN /\ bright' \in BOOLEAN /\ matched' \in BOOLEAN,
         \/ compare' \in {"loading", "camera", "acquire", "frame"} /\ exit' = exit
         \/ compare' = "rule" /\ matched' /\ exit' = exit
         \/ compare' = "exited" /\ exit' \in Exits \ {"match"}
  PROVE  RunInv'
BY DEF RunInv, CompareTypeOK, MatchIsEarned, ruleVars, nodVars, hotkeyVars, Passed, Exits, NoExit

(* One more verdict.                                                       *)
LEMMA OneMoreVerdict ==
  ASSUME RunInv, compare \in {"rule", "nod", "hotkey"}, rule <= Len(rules),
         NEW why \in {"skipped", "raised", "yes", "no", "expired"},
         verdicts' = Append(verdicts, why), rules' = rules
  PROVE  /\ verdicts' \in Seq({"skipped", "raised", "yes", "no", "expired"})
         /\ rule + 1 \in 1..(Len(rules) + 1)
         /\ Len(verdicts') = rule
         /\ why \in {"skipped", "raised", "yes"} \/ (why = "expired" /\ ~Current.failsafe)
              => \A i \in 1..Len(verdicts') : Passed(i)'
<1>1. /\ Len(rules) \in Nat /\ rule \in 1..(Len(rules) + 1) /\ Len(verdicts) = rule - 1
      /\ verdicts \in Seq({"skipped", "raised", "yes", "no", "expired"})
  BY RulesAreASequence DEF RunInv, CompareTypeOK
<1>2. Len(verdicts') = rule /\ verdicts'[rule] = why
  BY <1>1
<1>3. \A i \in 1..Len(verdicts) : verdicts'[i] = verdicts[i]
  BY <1>1
<1> QED
  BY <1>1, <1>2, <1>3 DEF RunInv, Passed, Current

(* A stamp returns.                                                        *)
LEMMA VerdictInv ==
  ASSUME RunInv, compare \in {"nod", "hotkey"},
         NEW result \in BOOLEAN, NEW why \in {"yes", "no", "expired"}, Verdict(result, why),
         result => why = "yes" \/ (why = "expired" /\ ~Current.failsafe),
         UNCHANGED <<detector, frameVars, rules>>,
         turns' \in [{"x", "y"} -> 0..MinDirections],
         key' \in {"none", "abort", "confirm"}, polls' \in 0..Polls
  PROVE  RunInv'
<1>1. rule <= Len(rules) /\ Len(rules) \in Nat /\ exit = NoExit
  BY RulesAreASequence DEF RunInv, CompareTypeOK
<1>2. /\ verdicts' \in Seq({"skipped", "raised", "yes", "no", "expired"})
      /\ rule + 1 \in 1..(Len(rules) + 1)
      /\ Len(verdicts') = rule
      /\ result => \A i \in 1..Len(verdicts') : Passed(i)'
  BY <1>1, OneMoreVerdict DEF Verdict
<1>3. CASE result
  BY <1>1, <1>2, <1>3
  DEF Verdict, RunInv, CompareTypeOK, MatchIsEarned, frameVars, NoExit
<1>4. CASE ~result
  BY <1>1, <1>2, <1>4
  DEF Verdict, Exit, RunInv, CompareTypeOK, MatchIsEarned, frameVars, NoExit, Exits
<1> QED
  BY <1>3, <1>4

(* Every step of compare.py keeps its invariant.                           *)
LEMMA RunStepInv ==
  ASSUME RunInv, CompareNext
  PROVE  RunInv'
<1>1. /\ Len(rules) \in Nat /\ rule \in 1..(Len(rules) + 1) /\ MinDirections \in Nat \ {0}
      /\ \A i \in 1..Len(rules) : rules[i].failsafe \in BOOLEAN
  BY RulesAreASequence, CompareAssumption DEF RunInv, CompareTypeOK
<1>2. CASE \/ LoadModels \/ OpenCamera \/ AcquireLock \/ SearchEnds \/ FrameWithoutMatch
           \/ FrameMatches \/ (CameraFails /\ compare = "frame")
  BY <1>2, BeforeTheRules
  DEF LoadModels, OpenCamera, AcquireLock, SearchEnds, FrameWithoutMatch, FrameMatches,
      CameraFails, Searching, Exit, Exits, RunInv, CompareTypeOK, frameVars
<1>3. CASE Raises \/ Dies \/ CameraFails
  BY <1>3
  DEF Raises, Dies, CameraFails, Exit, Exits, Alive, RunInv, CompareTypeOK, MatchIsEarned,
      frameVars, ruleVars, nodVars, hotkeyVars, NoExit
<1>4. CASE DetectorThread \/ TimePasses \/ \E k \in {"abort", "confirm"} : OnKey(k)
  <2>1. UNCHANGED <<compare, matched, rules, rule, turns, polls, verdicts, exit>>
    BY <1>4 DEF DetectorThread, TimePasses, OnKey, frameVars, ruleVars, nodVars, hotkeyVars
  <2>2. /\ detector' \in {"off", "loading", "ready", "missing", "raised"}
        /\ late' \in BOOLEAN /\ bright' \in BOOLEAN
        /\ key' \in {"none", "abort", "confirm"}
    BY <1>4
    DEF DetectorThread, TimePasses, OnKey, RunInv, CompareTypeOK, frameVars, ruleVars,
        hotkeyVars
  <2> QED
    BY <2>1, <2>2
    DEF RunInv, CompareTypeOK, MatchIsEarned, Passed
<1>5. CASE NoMoreRules
  <2>1. rule = Len(rules) + 1 /\ Len(verdicts) = Len(rules)
    BY <1>1, <1>5 DEF NoMoreRules, RunInv
  <2> QED
    BY <1>1, <1>5, <2>1
    DEF NoMoreRules, Exit, Exits, RunInv, CompareTypeOK, MatchIsEarned, Passed, frameVars,
        ruleVars, nodVars, hotkeyVars, NoExit
<1>6. CASE StartNod
  <2>1. turns' \in [{"x", "y"} -> 0..MinDirections] /\ turns'["x"] = 0 /\ turns'["y"] = 0
    BY <1>1, <1>6 DEF StartNod, NoTurns
  <2>2. 0 < MinDirections
    BY <1>1
  <2>3. compare = "rule" /\ compare' = "nod" /\ rule <= Len(rules) /\ late' = FALSE
    BY <1>6 DEF StartNod
  <2>4. UNCHANGED <<detector, bright, matched, rules, rule, verdicts, key, polls, exit>>
    BY <1>6 DEF StartNod, hotkeyVars
  <2> QED
    BY <2>1, <2>2, <2>3, <2>4 DEF RunInv, CompareTypeOK, MatchIsEarned, Passed
<1>7. CASE StartHotkey
  BY <1>1, <1>7, CompareAssumption
  DEF StartHotkey, RunInv, CompareTypeOK, MatchIsEarned, Passed, frameVars, nodVars
<1>8. CASE SkipRule \/ StampRaises
  <2> PICK why \in {"skipped", "raised"} : PassOver(why)
    BY <1>8 DEF SkipRule, StampRaises
  <2>1. rule <= Len(rules) /\ compare \in {"rule", "nod", "hotkey"}
    BY <1>8 DEF SkipRule, StampRaises, RunInv
  <2>2. /\ verdicts' \in Seq({"skipped", "raised", "yes", "no", "expired"})
        /\ rule + 1 \in 1..(Len(rules) + 1) /\ Len(verdicts') = rule
        /\ \A i \in 1..Len(verdicts') : Passed(i)'
    BY <2>1, OneMoreVerdict DEF PassOver
  <2> QED
    BY <1>1, <2>1, <2>2
    DEF PassOver, RunInv, CompareTypeOK, MatchIsEarned, frameVars, nodVars, hotkeyVars, NoExit
<1>9. ASSUME NEW axes \in SUBSET {"x", "y"}, NodFrame(axes) PROVE RunInv'
  <2>1. /\ turns["x"] \in Nat /\ turns["x"] < MinDirections
        /\ turns["y"] \in Nat /\ turns["y"] < MinDirections
    BY <1>9 DEF NodFrame, RunInv, CompareTypeOK
  <2>2. turns' \in [{"x", "y"} -> 0..MinDirections]
    BY <1>1, <1>9, <2>1 DEF NodFrame
  <2>3. CASE Verdict(FALSE, "no") \/ Verdict(TRUE, "yes")
    BY <1>9, <2>2, <2>3, VerdictInv DEF NodFrame, RunInv, CompareTypeOK, hotkeyVars
  <2>4. CASE turns'["x"] < MinDirections /\ turns'["y"] < MinDirections
             /\ UNCHANGED <<compare, rule, verdicts, exit>>
    BY <1>1, <1>9, <2>2, <2>4
    DEF NodFrame, RunInv, CompareTypeOK, MatchIsEarned, Passed, frameVars, hotkeyVars
  <2> QED
    BY <1>9, <2>3, <2>4 DEF NodFrame
<1>10. CASE NodTimesOut
  <2>1. rule \in 1..Len(rules)
    BY <1>1, <1>10 DEF NodTimesOut, RunInv
  <2> QED
    BY <1>1, <1>10, <2>1, VerdictInv
    DEF NodTimesOut, OnTimeout, Current, RunInv, CompareTypeOK, nodVars, hotkeyVars
<1>11. CASE HotkeyPoll
  <2>1. polls' \in 0..Polls
    BY <1>11, CompareAssumption DEF HotkeyPoll, RunInv, CompareTypeOK
  <2>2. CASE key \in {"abort", "confirm"}
    BY <1>11, <2>1, <2>2, VerdictInv DEF HotkeyPoll, RunInv, CompareTypeOK, nodVars
  <2>3. CASE key = "none"
    BY <1>1, <1>11, <2>1, <2>3
    DEF HotkeyPoll, RunInv, CompareTypeOK, MatchIsEarned, Passed, frameVars, nodVars
  <2> QED
    BY <2>2, <2>3 DEF RunInv, CompareTypeOK
<1>12. CASE HotkeyTimesOut
  <2>1. rule \in 1..Len(rules)
    BY <1>1, <1>12 DEF HotkeyTimesOut, RunInv
  <2> QED
    BY <1>1, <1>12, <2>1, VerdictInv
    DEF HotkeyTimesOut, OnTimeout, Current, RunInv, CompareTypeOK, nodVars, hotkeyVars
<1> QED
  BY <1>2, <1>3, <1>4, <1>5, <1>6, <1>7, <1>8, <1>9, <1>10, <1>11, <1>12
  DEF CompareNext, MainThread

-----------------------------------------------------------------------------
(* identify() *)

Failed == ExitedWithError /\ AskPass

(* The prompt is over, and no password came out of it.                     *)
NoPassword == passTask = "done" /\ password # "typed"

(* Once the child task is past waitpid the status is what it is, and that  *)
(* of compare.py unless waitpid failed; only when it is no failure beside  *)
(* a prompt does the main thread press enter or cancel the prompt, and     *)
(* otherwise it looks at the status only when the prompt has ended without *)
(* a password.                                                             *)
MainInv ==
  /\ main = "start" => compare = "off" /\ childTask = "off"
  /\ main # "done" => returned = NotYet
  /\ childTask \in {"notifying", "done"} <=> status # "none"
  /\ status # "none" /\ ~waitFailed =>
       exit # NoExit /\ (status = "match" => exit = "match")
  /\ passTask = "off" => password = "none"
  /\ main = "start" => passTask = "off"
  /\ main \in {"cancel", "press", "joinPrompt", "status"} => childTask = "done"
  /\ main \in {"cancel", "press", "joinPrompt"} => ~Failed
  /\ presses > 0 \/ passTask = "cancelled" => status # "none" /\ ~Failed
  /\ main = "awaitPassword" => childTask = "done"
  /\ main = "status" /\ Failed => NoPassword
  /\ returned \in {"success", "authError"} /\ Failed => NoPassword
  /\ returned \in {"success", "authError", "aborted"} => status # "none"
  /\ returned = "aborted" => ~Failed
  /\ returned = "conversationError" => NoPassword
  /\ returned = "unavailable" => passTask = "off"

Inv == LoginTypeOK /\ RunInv /\ MainInv /\ SuccessIsAMatch

(* The login has not begun.                                                *)
LEMMA InitInv == LoginInit => Inv
<1> SUFFICES ASSUME LoginInit PROVE Inv
  OBVIOUS
<1>1. RunInv
  BY RunInitInv DEF LoginInit
<1>2. presses \in 0..(MaxRetries + 1)
  BY PamAssumption DEF LoginInit
<1>3. LoginTypeOK
  BY <1>1, <1>2 DEF LoginInit, LoginTypeOK, RunInv, NotYet
<1> QED
  BY <1>1, <1>3 DEF LoginInit, Inv, MainInv, SuccessIsAMatch, CompareInit, NotYet, NoExit

(* compare.py goes on, or a signal ends it; one that has ended stays as it *)
(* is.                                                                     *)
LEMMA CompareStepInv ==
  ASSUME Inv, CompareStep \/ SignalArrives
  PROVE  Inv'
<1>1. (CompareNext \/ Dies) /\ UNCHANGED pamVars
  BY DEF CompareStep, SignalArrives
<1>2. RunInv'
  BY <1>1, RunStepInv DEF CompareNext, Inv
<1>3. exit = NoExit /\ compare # "off"
  BY <1>1, OnlyTheLivingStep DEF Inv, RunInv
<1>4. LoginTypeOK'
  BY <1>1, <1>2 DEF Inv, LoginTypeOK, RunInv, pamVars, configVars, taskVars
<1>5. MainInv'
  BY <1>1, <1>3
  DEF Inv, MainInv, NoPassword, Failed, ExitedWithError, AskPass, pamVars, configVars, taskVars
<1>6. SuccessIsAMatch'
  BY <1>1, <1>3 DEF Inv, MainInv, SuccessIsAMatch, pamVars, taskVars
<1> QED
  BY <1>2, <1>4, <1>5, <1>6 DEF Inv

(* A step of the threads of the module leaves compare.py alone, but for    *)
(* its start.                                                              *)
LEMMA ThreadsStepInv ==
  ASSUME Inv, Identify \/ ChildTask \/ WaitFails \/ PromptEnds \/ PassNotifies
  PROVE  Inv'
<1> USE DEF Inv, LoginTypeOK, MainInv, SuccessIsAMatch, ReturnWith, MainTo, NotYet, NoPassword, Confirm,
            configVars, taskVars
<1>1. ASSUME UNCHANGED compareVars
      PROVE  RunInv'
  BY <1>1
  DEF compareVars, frameVars, ruleVars, nodVars, hotkeyVars, RunInv, CompareTypeOK,
      MatchIsEarned, Passed
<1>2. ASSUME UNCHANGED <<compareVars, configVars>>
      PROVE  /\ RunInv' /\ CompareTypeOK'
             /\ AskPass' = AskPass /\ (status' = status => Failed' = Failed)
             /\ UNCHANGED <<exit, matched, compare>>
  BY <1>1, <1>2 DEF compareVars, frameVars, Failed, ExitedWithError, AskPass, RunInv
<1>3. CASE ReturnEarly
  BY <1>2, <1>3 DEF ReturnEarly, RunInv
<1>4. CASE SpawnCompare
  <2>1. compare = "off" /\ exit = NoExit
    BY <1>4 DEF SpawnCompare, RunInv
  <2>2. RunInv'
    BY <1>4, <2>1
    DEF SpawnCompare, frameVars, ruleVars, nodVars, hotkeyVars, RunInv, CompareTypeOK,
        MatchIsEarned, Passed, NoExit
  <2> QED
    BY <1>4, <2>1, <2>2 DEF SpawnCompare, RunInv, frameVars
<1>5. CASE PromptWon
  BY <1>2, <1>5 DEF PromptWon
<1>6. CASE JoinKilled
  BY <1>2, <1>6 DEF JoinKilled
<1>7. CASE PassJoined
  BY <1>2, <1>7 DEF PassJoined
<1>8. CASE ChildWon
  <2>1. main' \in {"awaitPassword", "cancel", "press", "status"} /\ returned' = returned
    BY <1>8 DEF ChildWon
  <2>2. main' \in {"cancel", "press"} => ~Failed
    BY <1>8 DEF ChildWon, Failed, AskPass
  <2>3. main' = "status" => ~Failed
    BY <1>8 DEF ChildWon, Failed, AskPass
  <2> QED
    BY <1>2, <1>8, <2>1, <2>2, <2>3 DEF ChildWon
<1>9. CASE PasswordAwaited
  BY <1>2, <1>9 DEF PasswordAwaited
<1>10. CASE CancelPrompt
  BY <1>2, <1>10 DEF CancelPrompt
<1>11. CASE PressEnter
  <2>1. presses' \in 0..(MaxRetries + 1)
    BY <1>11, PamAssumption DEF PressEnter
  <2> QED
    BY <1>2, <1>11, <2>1 DEF PressEnter
<1>12. CASE PressingEnds
  BY <1>2, <1>12 DEF PressingEnds
<1>13. CASE PromptJoined
  BY <1>2, <1>13 DEF PromptJoined
<1>14. CASE NothingToStop
  BY <1>2, <1>14 DEF NothingToStop
<1>15. CASE HowdyStatus
  BY <1>2, <1>15 DEF HowdyStatus, RunInv, MatchIsEarned
<1>16. CASE ChildTask \/ WaitFails
  <2>1. CASE ChildReaped \/ WaitFails
    <3>1. status = "none" /\ presses \in Nat /\ presses <= 0 /\ passTask # "cancelled"
      BY <2>1, PamAssumption DEF ChildReaped, WaitFails
    <3>2. main \notin {"cancel", "press", "joinPrompt", "status", "awaitPassword"}
      BY <2>1 DEF ChildReaped, WaitFails
    <3>3. returned \notin {"success", "authError", "aborted"}
      BY <3>1
    <3>4. /\ RunInv' /\ CompareTypeOK' /\ AskPass' = AskPass
          /\ UNCHANGED <<exit, matched, compare, workaround, askToken, main, passTask,
                         confirmation, password, signalled, presses, returned>>
      BY <1>2, <2>1 DEF ChildReaped, WaitFails
    <3>5. /\ childTask = "waiting" /\ childTask' = "notifying"
          /\ status' \in {"match", "error", "signal"} /\ waitFailed' \in BOOLEAN
      BY <2>1 DEF ChildReaped, WaitFails
    <3>6. ~waitFailed' => exit # NoExit /\ (status' = "match" => exit = "match")
      BY <2>1 DEF ChildReaped, WaitFails
    <3>7. waitFailed => waitFailed'
      BY <2>1 DEF ChildReaped, WaitFails
    <3>8. LoginTypeOK'
      BY <3>4, <3>5
    <3>9. MainInv'
      BY <3>1, <3>2, <3>3, <3>4, <3>5, <3>6
    <3> QED
      BY <3>3, <3>4, <3>7, <3>8, <3>9
  <2>2. CASE ChildNotifies
    BY <1>2, <2>2 DEF ChildNotifies
  <2> QED
    BY <1>16, <2>1, <2>2 DEF ChildTask
<1>17. CASE PromptEnds
  BY <1>2, <1>17 DEF PromptEnds
<1>18. CASE PassNotifies
  BY <1>2, <1>18 DEF PassNotifies
<1> QED
  BY <1>3, <1>4, <1>5, <1>6, <1>7, <1>8, <1>9, <1>10, <1>11, <1>12, <1>13, <1>14, <1>15, <1>16,
     <1>17, <1>18
  DEF Identify

-----------------------------------------------------------------------------
(* The inductive invariant holds in every reachable state of a login.      *)
THEOREM Invariance == LoginSpec => []Inv
<1>1. Inv /\ UNCHANGED loginVars => Inv'
  BY DEF loginVars, compareVars, frameVars, ruleVars, nodVars, hotkeyVars, pamVars, configVars,
         taskVars, Inv, LoginTypeOK, CompareTypeOK, RunInv, MatchIsEarned, Passed, MainInv,
         SuccessIsAMatch, NoPassword, Failed, ExitedWithError, AskPass
<1>2. Inv /\ [LoginNext]_loginVars => Inv'
  BY <1>1, CompareStepInv, ThreadsStepInv DEF LoginNext
<1> QED
  BY <1>2, InitInv, PTL DEF LoginSpec

(* The variables keep their types; no more presses than the code allows.   *)
THEOREM TypeCorrect == LoginSpec => []LoginTypeOK
<1>1. Inv => LoginTypeOK
  BY DEF Inv
<1> QED
  BY <1>1, Invariance, PTL

(* Whatever rules are configured, compare.py reports a match only after a  *)
(* frame matched and no rule refused.                                      *)
THEOREM MatchesAreEarned == LoginSpec => []MatchIsEarned
<1>1. Inv => MatchIsEarned
  BY DEF Inv, RunInv
<1> QED
  BY <1>1, Invariance, PTL

(* A login goes through only by such a match.                              *)
THEOREM SuccessesAreMatches == LoginSpec => []SuccessIsAMatch
<1>1. Inv => SuccessIsAMatch
  BY DEF Inv
<1> QED
  BY <1>1, Invariance, PTL

(* A check that fails takes no prompt from the user and no password from   *)
(* the next module.                                                        *)
THEOREM PromptsSurvive == LoginSpec => []PromptSurvivesFailure
<1>1. Inv => PromptSurvivesFailure
  <2> SUFFICES ASSUME Inv, ExitedWithError, AskPass
               PROVE  /\ presses = 0 /\ passTask # "cancelled"
                      /\ password = "typed" => returned \in {NotYet, "ignore"}
    BY DEF PromptSurvivesFailure
  <2>1. Failed
    BY DEF Failed
  <2>2. presses \in Nat /\ ~(presses > 0)
    BY <2>1, PamAssumption DEF Inv, LoginTypeOK, MainInv
  <2> QED
    BY <2>1, <2>2 DEF Inv, LoginTypeOK, MainInv, NoPassword
<1> QED
  BY <1>1, Invariance, PTL
=============================================================================
