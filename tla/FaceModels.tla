----------------------------- MODULE FaceModels -----------------------------
(***************************************************************************)
(* The face model file of one user, and the commands that rewrite it in    *)
(* place without a lock: "howdy add" (cli/add.py), "howdy remove"          *)
(* (cli/remove.py) and "howdy clear" (cli/clear.py).  Each may be run from *)
(* a shell or by howdy-gtk.  A step is the reading of the file, what       *)
(* happens in front of the camera or the prompt, and each system call on   *)
(* the file.  A model carries, beside its id, the number of the scan that  *)
(* made it, which is history.                                              *)
(***************************************************************************)
EXTENDS Naturals, Sequences, SequencesExt

CONSTANTS Runner,     \* the shell, and howdy-gtk: each runs one command at a time
          Gui,        \* howdy-gtk
          Missing,    \* there is no file
          Torn,       \* it was cut to nothing, or holds something json.load refuses
          MaxScans    \* bound: scans that found a face

Model == [id : Nat, scan : Nat]

ASSUME FaceModelsAssumption ==
  /\ Gui \in Runner
  /\ MaxScans \in Nat
  /\ Missing # Torn /\ Missing \notin Seq(Model) /\ Torn \notin Seq(Model)

VARIABLES file,       \* Missing, Torn or the sequence of models
          cut,        \* the file is empty since it was opened for writing
          job,        \* job[p]: the command p runs
          step,       \* step[p]: where it is
          read,       \* read[p]: encodings, as it was read
          target,     \* target[p]: the id to remove
          linked,     \* linked[p]: the file p writes is still in the directory
          ended,      \* ended[p]: how the last command of p ended
          scans,      \* scans that found a face
          alone,      \* history: alone[p]: nobody changed the file since p read it
          asked       \* history: the scans that should be in the file
modelVars == <<file, cut, job, step, read, target, linked, ended, scans, alone, asked>>

Stored == file \notin {Missing, Torn}
Models == IF Stored THEN file ELSE <<>>
ScansIn(models) == {models[i].scan : i \in DOMAIN models}

ModelsInit ==
  /\ file = Missing /\ cut = FALSE
  /\ job = [p \in Runner |-> "none"] /\ step = [p \in Runner |-> "idle"]
  /\ read = [p \in Runner |-> <<>>] /\ target = [p \in Runner |-> 0]
  /\ linked = [p \in Runner |-> FALSE] /\ ended = [p \in Runner |-> "none"]
  /\ scans = 0
  /\ alone = [p \in Runner |-> FALSE] /\ asked = {}

Moves(p, label) == step' = [step EXCEPT ![p] = label]

(* The command exits: nothing of it is left.                               *)
Ends(p, how) ==
  /\ Moves(p, "idle")
  /\ job' = [job EXCEPT ![p] = "none"]
  /\ read' = [read EXCEPT ![p] = <<>>]
  /\ target' = [target EXCEPT ![p] = 0]
  /\ linked' = [linked EXCEPT ![p] = FALSE]
  /\ ended' = [ended EXCEPT ![p] = how]

(* The file changes under everybody else.                                  *)
Disturbs(p) == alone' = [q \in Runner |-> q = p /\ alone[p]]

-----------------------------------------------------------------------------
(* Starting: what is read is what the command works on until it writes *)

Begins(p, command, id) ==
  /\ job' = [job EXCEPT ![p] = command]
  /\ target' = [target EXCEPT ![p] = id]
  /\ read' = [read EXCEPT ![p] = Models]
  /\ alone' = [alone EXCEPT ![p] = TRUE]
  /\ ended' = [ended EXCEPT ![p] = "none"]
  /\ Moves(p, "waiting")
  /\ UNCHANGED <<file, cut, linked, scans, asked>>

(* A command that exits where it starts.                                   *)
Refused(p) ==
  /\ ended' = [ended EXCEPT ![p] = "failed"]
  /\ UNCHANGED <<file, cut, job, step, read, target, linked, scans, alone, asked>>

(* A missing file is an empty list, a torn one a ValueError.               *)
StartAdd(p) ==
  /\ step[p] = "idle"
  /\ IF file = Torn THEN Refused(p) ELSE Begins(p, "add", 0)

(* No file, a torn one, or no model with the id: the command exits.        *)
StartRemove(p, id) ==
  /\ step[p] = "idle"
  /\ IF Stored /\ \E i \in DOMAIN file : file[i].id = id
       THEN Begins(p, "remove", id)
       ELSE Refused(p)

StartClear(p) ==
  /\ step[p] = "idle"
  /\ IF file = Missing THEN Refused(p) ELSE Begins(p, "clear", 0)

(* "howdy add" meets a black or dark picture, no face or several of them   *)
(* for 60 frames, or is stopped with Ctrl+C.                               *)
ScanFails(p) ==
  /\ step[p] = "waiting" /\ job[p] = "add"
  /\ Ends(p, "failed")
  /\ UNCHANGED <<file, cut, scans, alone, asked>>

(* "Interpreting as a NO".                                                 *)
AnswersNo(p) ==
  /\ step[p] = "waiting" /\ job[p] \in {"remove", "clear"}
  /\ Ends(p, "failed")
  /\ UNCHANGED <<file, cut, scans, alone, asked>>

-----------------------------------------------------------------------------
(* Saving *)

(* "the last id is always the maximum"                                     *)
NextId(models) == IF models = <<>> THEN 0 ELSE Last(models).id + 1

(* "only add those that don't need to be removed"                          *)
Without(models, id) ==
  LET remaining[n \in 0..Len(models)] ==
        IF n = 0 THEN <<>>
        ELSE IF models[n].id = id THEN remaining[n - 1]
        ELSE Append(remaining[n - 1], models[n])
  IN remaining[Len(models)]

(* What json.dump writes for p; an add has taken the newest scan.          *)
Result(p) ==
  IF job[p] = "add"
    THEN Append(read[p], [id |-> NextId(read[p]), scan |-> target[p]])
    ELSE Without(read[p], target[p])

(* open(enc_file, "w") truncates, or makes the file.                       *)
Truncates(p) ==
  /\ file' = Torn /\ cut' = TRUE
  /\ linked' = [linked EXCEPT ![p] = TRUE]
  /\ Disturbs(p)
  /\ Moves(p, "writing")
  /\ UNCHANGED <<job, read, ended, asked>>

(* One face was found, and encoded.                                        *)
SaveAdd(p) ==
  /\ step[p] = "waiting" /\ job[p] = "add" /\ scans < MaxScans
  /\ scans' = scans + 1
  /\ target' = [target EXCEPT ![p] = scans']
  /\ Truncates(p)

SaveRemove(p) ==
  /\ step[p] = "waiting" /\ job[p] = "remove" /\ Len(read[p]) > 1
  /\ Truncates(p)
  /\ UNCHANGED <<target, scans>>

(* What should be in the file once p has written: what p was asked, or,    *)
(* when somebody changed the file since p read it, whatever comes out.     *)
Asked(p) ==
  IF ~alone[p] THEN ScansIn(Result(p))
  ELSE IF job[p] = "add" THEN asked \cup {target[p]}
  ELSE asked \ {read[p][i].scan : i \in {j \in DOMAIN read[p] : read[p][j].id = target[p]}}

(* json.dump into a file that nobody else wrote, or over the bytes that    *)
(* another command has written meanwhile, the end of which may stay.       *)
Write(p) ==
  /\ step[p] = "writing"
  /\ IF linked[p]
       THEN /\ file' \in IF cut THEN {Result(p)} ELSE {Result(p), Torn}
            /\ cut' = FALSE
            /\ Disturbs(p)
            /\ asked' = Asked(p)
       ELSE UNCHANGED <<file, cut, alone, asked>>
  /\ Ends(p, "done")
  /\ UNCHANGED scans

(* The disk is full, or the command is killed: all that was in the file is *)
(* gone, or all but the start.                                             *)
WriteFails(p) ==
  /\ step[p] = "writing"
  /\ IF linked[p]
       THEN file' = Torn /\ cut' \in {cut, FALSE} /\ Disturbs(p)
       ELSE UNCHANGED <<file, cut, alone>>
  /\ Ends(p, "failed")
  /\ UNCHANGED <<scans, asked>>

(* Mutant of DeleteFile: the list that was read is not looked at. *)
DeleteAnyFile(p) ==
  /\ step[p] = "waiting" /\ job[p] \in {"remove", "clear"}
  /\ file # Missing
  /\ file' = Missing /\ cut' = FALSE
  /\ alone' = [q \in Runner |-> q = p /\ alone[p]]
  /\ asked' = IF job[p] = "remove" /\ alone[p] THEN Asked(p) ELSE {}
  /\ linked' = [q \in Runner |-> FALSE]
  /\ Moves(p, "idle")
  /\ job' = [job EXCEPT ![p] = "none"]
  /\ read' = [read EXCEPT ![p] = <<>>]
  /\ target' = [target EXCEPT ![p] = 0]
  /\ ended' = [ended EXCEPT ![p] = "done"]
  /\ UNCHANGED scans

(* os.remove, by clear and by the removal of the only model.  Commands     *)
(* that are writing go on with a file nobody will see.                     *)
DeleteFile(p) ==
  /\ step[p] = "waiting"
  /\ job[p] = "clear" \/ (job[p] = "remove" /\ Len(read[p]) = 1)
  /\ file # Missing
  /\ file' = Missing /\ cut' = FALSE
  /\ alone' = [q \in Runner |-> q = p /\ alone[p]]
  /\ asked' = IF job[p] = "remove" /\ alone[p] THEN Asked(p) ELSE {}
  /\ linked' = [q \in Runner |-> FALSE]
  /\ Moves(p, "idle")
  /\ job' = [job EXCEPT ![p] = "none"]
  /\ read' = [read EXCEPT ![p] = <<>>]
  /\ target' = [target EXCEPT ![p] = 0]
  /\ ended' = [ended EXCEPT ![p] = "done"]
  /\ UNCHANGED scans

(* FileNotFoundError: the file was there when the command looked.          *)
DeleteMisses(p) ==
  /\ step[p] = "waiting"
  /\ job[p] = "clear" \/ (job[p] = "remove" /\ Len(read[p]) = 1)
  /\ file = Missing
  /\ Ends(p, "failed")
  /\ UNCHANGED <<file, cut, scans, alone, asked>>

JobStep(p) ==
  \/ ScanFails(p) \/ AnswersNo(p) \/ SaveAdd(p) \/ SaveRemove(p) \/ Write(p) \/ WriteFails(p)
  \/ DeleteFile(p) \/ DeleteMisses(p)

ShellStep(p) ==
  /\ p # Gui
  /\ StartAdd(p) \/ StartClear(p) \/ \E id \in 0..MaxScans : StartRemove(p, id)

-----------------------------------------------------------------------------
ModelsTypeOK ==
  /\ file \in Seq(Model) \cup {Missing, Torn} /\ cut \in BOOLEAN
  /\ job \in [Runner -> {"none", "add", "remove", "clear"}]
  /\ step \in [Runner -> {"idle", "waiting", "writing"}]
  /\ read \in [Runner -> Seq(Model)] /\ target \in [Runner -> Nat]
  /\ linked \in [Runner -> BOOLEAN] /\ alone \in [Runner -> BOOLEAN]
  /\ ended \in [Runner -> {"none", "done", "failed"}]
  /\ scans \in 0..MaxScans /\ asked \subseteq 1..MaxScans

(* Commands that do not overlap do what they were asked and no more: every *)
(* model that was added and not removed since is in the file, whatever     *)
(* happened to the commands that failed before they wrote.  And "the last  *)
(* id is always the maximum" (cli/add.py:79), also when commands overlap:  *)
(* ids increase along the file, and so name one model each.                *)
FileIsWhatWasAsked ==
  /\ file # Torn => ScansIn(Models) = asked
  /\ Stored => \A i, j \in DOMAIN file : i < j => file[i].id < file[j].id
=============================================================================
