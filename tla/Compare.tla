------------------------------- MODULE Compare -------------------------------
(***************************************************************************)
(* One run of compare.py: the main thread opens the camera while a second  *)
(* thread loads the face detector, then looks at frames until one matches  *)
(* or the deadline passes; after a match come the rubber stamps, in the    *)
(* order of the configured rules (howdy/src/rubberstamps/).                *)
(*                                                                         *)
(* What the camera shows, what the user does and when time is up are       *)
(* inputs.  The windows of the user interface and snapshots are left out.  *)
(***************************************************************************)
EXTENDS Integers, Sequences

CONSTANTS Rulesets,       \* the values of [rubberstamps] stamp_rules, parsed
          MinDirections,  \* min_directions of nod
          Polls           \* timeout of hotkey, in intervals of 0.1 s

(* A rule with the stamp "none" cannot be parsed or names no stamp.        *)
Rule == [stamp : {"nod", "hotkey", "none"}, failsafe : BOOLEAN]

ASSUME CompareAssumption ==
  /\ \A s \in Rulesets : s \in Seq(Rule)
  /\ MinDirections \in Nat \ {0} /\ Polls \in Nat

NoExit == "running"
Exits == {"match", "noModel", "timeout", "tooDark", "noDevice", "refused", "raised",
          "signal"}

VARIABLES compare,   \* where the main thread is
          detector,  \* the detector thread; it holds the lock until it is done
          late,      \* the deadline of the search, or of nod, has passed
          bright,    \* a frame was neither black nor dark
          rules,     \* the configured rules; empty when stamps are disabled
          rule,      \* index of the rule that is executed
          turns,     \* recorded_nods: turns of the head on each axis
          key,       \* pressed_key of the hotkey stamp
          polls,     \* time_left of the hotkey stamp
          verdicts,  \* history: what became of each rule
          matched,   \* history: a frame matched
          exit       \* how the process ended
compareVars == <<compare, detector, late, bright, rules, rule, turns, key, polls,
                 verdicts, matched, exit>>
frameVars == <<late, bright, matched>>
nodVars == <<turns>>
hotkeyVars == <<key, polls>>
ruleVars == <<rule, verdicts, nodVars, hotkeyVars>>

NoTurns == [x |-> 0, y |-> 0]

CompareInit ==
  /\ compare = "off"
  /\ detector = "off"
  /\ late = FALSE /\ bright = FALSE /\ matched = FALSE
  /\ rules \in Rulesets /\ rule = 1 /\ verdicts = <<>>
  /\ turns = NoTurns
  /\ key = "none" /\ polls = 0
  /\ exit = NoExit

Exit(how) == compare' = "exited" /\ exit' = how
Searching == compare = "frame"
Alive == compare \notin {"off", "exited"}

-----------------------------------------------------------------------------
(* The model file is missing or holds no model; or the lock is taken and   *)
(* the detector thread started.                                            *)
LoadModels ==
  /\ compare = "loading"
  /\ \/ Exit("noModel") /\ UNCHANGED detector
     \/ compare' = "camera" /\ detector' = "loading" /\ UNCHANGED exit
  /\ UNCHANGED <<frameVars, rules, ruleVars>>

(* init_detector: loaded; no data files, where sys.exit() ends this thread *)
(* only; or an exception, after which nobody releases the lock.            *)
DetectorThread ==
  /\ Alive
  /\ detector = "loading"
  /\ detector' \in {"ready", "missing", "raised"}
  /\ UNCHANGED <<compare, frameVars, rules, ruleVars, exit>>

OpenCamera ==
  /\ compare = "camera"
  /\ \/ Exit("noDevice")
     \/ compare' = "acquire" /\ UNCHANGED exit
  /\ UNCHANGED <<detector, frameVars, rules, ruleVars>>

AcquireLock ==
  /\ compare = "acquire"
  /\ detector \in {"ready", "missing"}
  /\ compare' = "frame"
  /\ UNCHANGED <<detector, frameVars, rules, ruleVars, exit>>

(* The frame loop.  A black or a dark frame changes nothing.               *)
SearchEnds ==
  /\ Searching
  /\ late
  /\ Exit(IF bright THEN "timeout" ELSE "tooDark")
  /\ UNCHANGED <<detector, frameVars, rules, ruleVars>>

CameraFails ==
  /\ compare \in {"frame", "nod"}
  /\ Exit("noDevice")
  /\ UNCHANGED <<detector, frameVars, rules, ruleVars>>

FrameWithoutMatch ==
  /\ Searching
  /\ ~late
  /\ detector = "ready"
  /\ bright' = TRUE
  /\ UNCHANGED <<compare, detector, late, matched, rules, ruleVars, exit>>

(* "Match this found face against a known face"; a disabled stamp system   *)
(* and one without rules both end in exit(0), see NoMoreRules.             *)
FrameMatches ==
  /\ Searching
  /\ ~late
  /\ detector = "ready"
  /\ bright' = TRUE /\ matched' = TRUE
  /\ compare' = "rule"
  /\ UNCHANGED <<detector, late, rules, ruleVars, exit>>

-----------------------------------------------------------------------------
(* rubberstamps.execute *)
Current == rules[rule]

NoMoreRules ==
  /\ compare = "rule"
  /\ rule > Len(rules)
  /\ Exit("match")
  /\ UNCHANGED <<detector, frameVars, rules, ruleVars>>

StartNod ==
  /\ compare = "rule"
  /\ rule <= Len(rules) /\ Current.stamp = "nod"
  /\ compare' = "nod"
  /\ turns' = NoTurns
  /\ late' = FALSE
  /\ UNCHANGED <<detector, bright, matched, rules, rule, verdicts, hotkeyVars, exit>>

StartHotkey ==
  /\ compare = "rule"
  /\ rule <= Len(rules) /\ Current.stamp = "hotkey"
  /\ compare' = "hotkey"
  /\ key' = "none" /\ polls' = Polls
  /\ UNCHANGED <<detector, frameVars, rules, rule, verdicts, nodVars, exit>>

PassOver(why) ==
  /\ compare' = "rule"
  /\ rule' = rule + 1
  /\ verdicts' = Append(verdicts, why)
  /\ UNCHANGED <<detector, frameVars, rules, nodVars, hotkeyVars, exit>>

(* A rule that cannot be parsed, names no stamp, or whose declare_config() *)
(* raises never gets to run.                                               *)
SkipRule ==
  /\ compare = "rule" /\ rule <= Len(rules)
  /\ PassOver("skipped")

(* run() raises: "continue".  The result that was set to fail by default   *)
(* is not looked at.                                                       *)
StampRaises ==
  /\ compare \in {"nod", "hotkey"}
  /\ PassOver("raised")

(* What a stamp that timed out returns. *)
OnTimeout == ~Current.failsafe

(* Mutant of Verdict: the result is looked at for failsafe rules only. *)
VerdictOfFailsafe(result, why) ==
  /\ verdicts' = Append(verdicts, why)
  /\ IF result \/ ~Current.failsafe THEN compare' = "rule" /\ rule' = rule + 1 /\ UNCHANGED exit
                                   ELSE Exit("refused") /\ UNCHANGED rule

(* run() returns: a False ends the authentication. *)
Verdict(result, why) ==
  /\ verdicts' = Append(verdicts, why)
  /\ IF result THEN compare' = "rule" /\ rule' = rule + 1 /\ UNCHANGED exit
               ELSE Exit("refused") /\ UNCHANGED rule

(* nod.run: the head turns on some axes; shaking is looked at first.       *)
NodFrame(axes) ==
  /\ compare = "nod"
  /\ ~late
  /\ turns' = [a \in {"x", "y"} |-> turns[a] + IF a \in axes THEN 1 ELSE 0]
  /\ \/ turns'["x"] >= MinDirections /\ Verdict(FALSE, "no")
     \/ turns'["x"] < MinDirections /\ turns'["y"] >= MinDirections /\ Verdict(TRUE, "yes")
     \/ /\ turns'["x"] < MinDirections /\ turns'["y"] < MinDirections
        /\ UNCHANGED <<compare, rule, verdicts, exit>>
  /\ UNCHANGED <<detector, frameVars, rules, hotkeyVars>>

NodTimesOut ==
  /\ compare = "nod"
  /\ late
  /\ Verdict(OnTimeout, "expired")
  /\ UNCHANGED <<detector, frameVars, rules, nodVars, hotkeyVars>>

(* hotkey.run polls every 0.1 s ... *)
HotkeyPoll ==
  /\ compare = "hotkey"
  /\ polls > 0
  /\ polls' = polls - 1
  /\ \/ key = "abort" /\ Verdict(FALSE, "no")
     \/ key = "confirm" /\ Verdict(TRUE, "yes")
     \/ key = "none" /\ UNCHANGED <<compare, rule, verdicts, exit>>
  /\ UNCHANGED <<detector, frameVars, rules, nodVars, key>>

HotkeyTimesOut ==
  /\ compare = "hotkey"
  /\ polls = 0
  /\ Verdict(OnTimeout, "expired")
  /\ UNCHANGED <<detector, frameVars, rules, nodVars, hotkeyVars>>

(* ... while on_key is called on a thread of the keyboard module.          *)
OnKey(k) ==
  /\ compare = "hotkey"
  /\ key' = k
  /\ UNCHANGED <<compare, detector, frameVars, rules, rule, verdicts, nodVars, polls, exit>>

-----------------------------------------------------------------------------
(* An exception that nobody catches, such as a model file that does not    *)
(* parse, a detector that was never made, or a missing keyboard module.    *)
Raises ==
  /\ Alive /\ compare # "acquire"
  /\ Exit("raised")
  /\ UNCHANGED <<detector, frameVars, rules, ruleVars>>

(* The process is killed, or a native library brings it down. *)
Dies ==
  /\ Alive
  /\ Exit("signal")
  /\ UNCHANGED <<detector, frameVars, rules, ruleVars>>

(* The deadline of the search or of the nod passes. *)
TimePasses ==
  /\ compare \in {"frame", "nod"}
  /\ ~late
  /\ late' = TRUE
  /\ UNCHANGED <<compare, detector, bright, matched, rules, ruleVars, exit>>

MainThread ==
  \/ LoadModels \/ OpenCamera \/ AcquireLock
  \/ SearchEnds \/ CameraFails \/ FrameWithoutMatch \/ FrameMatches
  \/ NoMoreRules \/ StartNod \/ StartHotkey \/ SkipRule \/ StampRaises
  \/ \E axes \in SUBSET {"x", "y"} : NodFrame(axes)
  \/ NodTimesOut \/ HotkeyPoll \/ HotkeyTimesOut
  \/ Raises

CompareNext ==
  \/ MainThread \/ DetectorThread \/ TimePasses
  \/ \E k \in {"abort", "confirm"} : OnKey(k)
  \/ Dies
-----------------------------------------------------------------------------
CompareTypeOK ==
  /\ compare \in {"off", "loading", "camera", "acquire", "frame", "rule", "nod",
                  "hotkey", "exited"}
  /\ detector \in {"off", "loading", "ready", "missing", "raised"}
  /\ late \in BOOLEAN /\ bright \in BOOLEAN /\ matched \in BOOLEAN
  /\ rules \in Rulesets
  /\ rule \in 1..(Len(rules) + 1)
  /\ turns \in [{"x", "y"} -> 0..MinDirections]
  /\ key \in {"none", "abort", "confirm"}
  /\ polls \in 0..Polls
  /\ verdicts \in Seq({"skipped", "raised", "yes", "no", "expired"})
  /\ exit \in Exits \cup {NoExit}

(* compare.py reports a match only after a frame matched and no rule       *)
(* refused: each was confirmed, ran out of time with "faildeadly", or was  *)
(* passed over, as a rule that cannot run is and a stamp that raises too   *)
(* (see RaisedStampFails).                                                 *)
MatchIsEarned ==
  exit = "match" =>
    /\ matched
    /\ Len(verdicts) = Len(rules)
    /\ \A i \in 1..Len(rules) :
         \/ verdicts[i] \in {"skipped", "raised", "yes"}
         \/ verdicts[i] = "expired" /\ ~rules[i].failsafe

(* "Make the stamp fail by default" (rubberstamps/__init__.py): a stamp    *)
(* whose run() raises has not returned, so it fails, and no match is       *)
(* reported past it.                                                       *)
RaisedStampFails ==
  exit = "match" => \A i \in 1..Len(verdicts) : verdicts[i] # "raised"
=============================================================================
