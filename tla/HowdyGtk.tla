------------------------------ MODULE HowdyGtk ------------------------------
(***************************************************************************)
(* howdy-gtk around the face model file: the models tab of the main window *)
(* (tab_models.py, MainWindow.load_model_list), and the wizard of the      *)
(* first start (onboarding.py).  Both run "howdy" as a child and block     *)
(* their main loop until it has ended, so that a step is one callback, and *)
(* a callback that waits for a child is two.                               *)
(***************************************************************************)
EXTENDS FaceModels

CONSTANT NoModel    \* no row is chosen

VARIABLES ui,         \* which window there is
          dialog,     \* the main window: what it shows, or waits for
          shown,      \* listmodel: the rows of the list
          chosen,     \* the row on_model_delete asks about
          fresh,      \* history: only this window changed the file since the list was read
          slide,      \* the wizard: current_slide
          nextOn,     \* the Next button can be clicked
          waits,      \* what the slide waits for
          scan,       \* the dialog of the scan is up, or "howdy add" runs
          timers,     \* timeouts that will call go_next_slide
          saved       \* history: runs of "howdy add" of the wizard that succeeded
windowVars == <<dialog, shown, chosen, fresh>>
wizardVars == <<slide, nextOn, waits, scan, timers, saved>>
gtkVars == <<modelVars, ui, windowVars, wizardVars>>

Slides == 0..6
Dialogs == {"none", "naming", "creating", "adding", "confirming", "deleting"}
Waits == {"nothing", "download", "cameras", "answer", "help", "scan"}

GtkInit ==
  /\ ModelsInit
  /\ ui = "none"
  /\ dialog = "none" /\ shown = <<>> /\ chosen = NoModel /\ fresh = TRUE
  /\ slide = 0 /\ nextOn = TRUE /\ waits = "nothing"
  /\ scan = "none" /\ timers = 0 /\ saved = 0

(* load_model_list: "howdy list --plain", or nothing when that fails.      *)
LoadModelList == shown' = Models /\ fresh' = TRUE

(* Only howdy-gtk knows what its list shows.                               *)
OthersChange == fresh' = (fresh /\ file' = file)

ShellRuns ==
  /\ \E p \in Runner \ {Gui} : ShellStep(p) \/ JobStep(p)
  /\ OthersChange
  /\ UNCHANGED <<ui, dialog, shown, chosen, wizardVars>>

GuiChildRuns ==
  /\ JobStep(Gui)
  /\ UNCHANGED <<ui, windowVars, wizardVars>>

-----------------------------------------------------------------------------
(* The models tab *)

OpenWindow ==
  /\ ui = "none"
  /\ ui' = "window"
  /\ LoadModelList
  /\ UNCHANGED <<modelVars, dialog, chosen, wizardVars>>

Shows(from, to) == ui = "window" /\ dialog = from /\ dialog' = to

OnModelAdd ==
  /\ Shows("none", "naming")
  /\ UNCHANGED <<modelVars, ui, shown, chosen, fresh, wizardVars>>

(* A dialog is answered with Cancel.                                       *)
CancelDialog ==
  /\ \E from \in {"naming", "confirming"} : Shows(from, "none")
  /\ chosen' = NoModel
  /\ UNCHANGED <<modelVars, ui, shown, fresh, wizardVars>>

ConfirmName ==
  /\ Shows("naming", "creating")
  /\ UNCHANGED <<modelVars, ui, shown, chosen, fresh, wizardVars>>

(* 600 ms later.                                                           *)
ExecuteAdd ==
  /\ Shows("creating", "adding")
  /\ StartAdd(Gui)
  /\ UNCHANGED <<ui, shown, chosen, fresh, wizardVars>>

OnModelDelete ==
  /\ Shows("none", "confirming")
  /\ \E i \in DOMAIN shown : chosen' = shown[i]
  /\ UNCHANGED <<modelVars, ui, shown, fresh, wizardVars>>

(* "howdy remove <id> -y": the id is all the command is told.              *)
ConfirmDelete ==
  /\ Shows("confirming", "deleting")
  /\ StartRemove(Gui, chosen.id)
  /\ UNCHANGED <<ui, shown, chosen, fresh, wizardVars>>

(* Mutant of ChildEnds: the list is not read again. *)
ChildEndsUnlisted ==
  /\ \E from \in {"adding", "deleting"} : Shows(from, "none")
  /\ step[Gui] = "idle"
  /\ chosen' = NoModel
  /\ UNCHANGED <<modelVars, ui, shown, fresh, wizardVars>>

(* The child is done, its error was shown, and the list is read again.     *)
ChildEnds ==
  /\ \E from \in {"adding", "deleting"} : Shows(from, "none")
  /\ step[Gui] = "idle"
  /\ chosen' = NoModel
  /\ LoadModelList
  /\ UNCHANGED <<modelVars, ui, wizardVars>>

WindowStep ==
  \/ OpenWindow \/ OnModelAdd \/ CancelDialog \/ ConfirmName \/ ExecuteAdd
  \/ OnModelDelete \/ ConfirmDelete \/ ChildEnds

-----------------------------------------------------------------------------
(* The wizard *)

(* There is no models directory, or --force-onboarding.                    *)
OpenWizard ==
  /\ ui = "none"
  /\ ui' = "wizard"
  /\ UNCHANGED <<modelVars, windowVars, wizardVars>>

Wizard == ui = "wizard" /\ scan # "adding"

(* The dialog of the scan is modal.                                        *)
Clickable == Wizard /\ scan = "none"

(* exit(), from show_error or because the window was closed.               *)
WizardExits ==
  /\ ui' = "closed"
  /\ nextOn' = FALSE /\ waits' = "nothing" /\ scan' = "none" /\ timers' = 0
  /\ UNCHANGED slide

(* execute_slide1..6: the data files are there or are downloaded, the      *)
(* cameras are listed by a timeout of 10 ms, a camera that is not infrared *)
(* skips slide 3.  Beyond the last slide it raises an IndexError.          *)
SlideStarts(to, button) ==
  /\ ui' = ui
  /\ \/ /\ slide' = to /\ to \in {1, 5}
        /\ nextOn' = TRUE /\ waits' = "nothing"
     \/ /\ slide' = to /\ to \in {1, 2, 3, 4, 6}
        /\ nextOn' = button
        /\ waits' = CASE to = 1 -> "download" [] to = 2 -> "cameras" [] to = 3 -> "answer"
                      [] to = 4 -> "scan" [] OTHER -> "nothing"
     \/ /\ to = 3 /\ slide' = 4
        /\ nextOn' = button /\ waits' = "scan"

(* go_next_slide, which disables the button first.                         *)
GoNext(from) == SlideStarts(IF from < 6 THEN from + 1 ELSE from, FALSE)

ClickNext ==
  /\ Clickable /\ nextOn
  /\ GoNext(slide)
  /\ UNCHANGED <<modelVars, windowVars, scan, timers, saved>>

(* read_download_line at the end of install.sh, and execute_slide2.        *)
WorkEnds ==
  /\ Wizard /\ waits \in {"download", "cameras"}
  /\ nextOn' = TRUE /\ waits' = "nothing"
  /\ UNCHANGED <<modelVars, ui, windowVars, slide, scan, timers, saved>>

(* Whether the ir emitter works; with "no" there is only the way out.      *)
SayYes ==
  /\ Clickable /\ waits = "answer"
  /\ GoNext(slide)
  /\ UNCHANGED <<modelVars, windowVars, scan, timers, saved>>

SayNo ==
  /\ Clickable /\ waits = "answer"
  /\ waits' = "help"
  /\ UNCHANGED <<modelVars, ui, windowVars, slide, nextOn, scan, timers, saved>>

(* on_scanbutton_click; the button can be clicked again as soon as the     *)
(* dialog is gone.                                                         *)
ClickScan ==
  /\ Clickable /\ waits = "scan"
  /\ scan' = "dialog"
  /\ UNCHANGED <<modelVars, ui, windowVars, slide, nextOn, waits, timers, saved>>

(* run_add, 600 ms later.                                                  *)
RunAdd ==
  /\ Wizard /\ scan = "dialog"
  /\ StartAdd(Gui)
  /\ scan' = "adding"
  /\ UNCHANGED <<ui, windowVars, slide, nextOn, waits, timers, saved>>

Added == ui = "wizard" /\ scan = "adding" /\ step[Gui] = "idle"

(* Mutant of AddEnds: the status of the command is not looked at. *)
AddEndsAnyhow ==
  /\ Added
  /\ timers' = timers + 1 /\ scan' = "none"
  /\ saved' = IF ended[Gui] = "done" THEN saved + 1 ELSE saved
  /\ UNCHANGED <<modelVars, ui, windowVars, slide, nextOn, waits>>

AddEnds ==
  /\ Added /\ ended[Gui] = "done"
  /\ timers' = timers + 1 /\ scan' = "none"
  /\ saved' = saved + 1
  /\ UNCHANGED <<modelVars, ui, windowVars, slide, nextOn, waits>>

(* "Can't save face model"                                                 *)
AddFailed ==
  /\ Added /\ ended[Gui] = "failed"
  /\ WizardExits
  /\ UNCHANGED <<modelVars, windowVars, saved>>

(* The timeout of run_add, 10 ms later, wherever the wizard is by then.    *)
NextTimeout ==
  /\ Wizard /\ timers > 0
  /\ timers' = timers - 1
  /\ GoNext(slide)
  /\ UNCHANGED <<modelVars, windowVars, scan, saved>>

(* Any of the errors shown, or the window is closed.                       *)
CloseWizard ==
  /\ Wizard
  /\ WizardExits
  /\ UNCHANGED <<modelVars, windowVars, saved>>

WizardStep ==
  \/ OpenWizard \/ ClickNext \/ WorkEnds \/ SayYes \/ SayNo \/ ClickScan \/ RunAdd
  \/ AddEnds \/ AddFailed \/ NextTimeout \/ CloseWizard

GtkNext == ShellRuns \/ GuiChildRuns \/ WindowStep \/ WizardStep

GtkSpec == GtkInit /\ [][GtkNext]_gtkVars

-----------------------------------------------------------------------------
GtkTypeOK ==
  /\ ModelsTypeOK
  /\ ui \in {"none", "window", "wizard", "closed"} /\ dialog \in Dialogs
  /\ shown \in Seq(Model) /\ chosen \in Model \cup {NoModel} /\ fresh \in BOOLEAN
  /\ slide \in Slides /\ nextOn \in BOOLEAN /\ waits \in Waits
  /\ scan \in {"none", "dialog", "adding"}
  /\ timers \in Nat /\ saved \in Nat

(* The model the window asks about is the one "howdy remove" is about to   *)
(* remove, unless somebody else changed the file since the list was read:  *)
(* ids are used again, and an id is all that is passed on.                 *)
DeletesWhatWasShown ==
  /\ dialog = "confirming" \/ (dialog = "deleting" /\ step[Gui] = "waiting")
  /\ fresh /\ file # Torn
  => \E i \in DOMAIN Models : Models[i] = chosen

(* The wizard gets to its last two slides only with a face model saved,    *)
(* however often the scan button was clicked.                              *)
EndsEnrolled == slide >= 5 => saved > 0
=============================================================================
