CONSTANTS
  Proc = {svc, c1}
  Service = svc
  Setup = {i1, i2}
  NoFile = NoFile
  NoState = NoState
  MaxKey = 2
  MaxEpoch = 1
  MaxSignals = 1
  Runner = {sh, gtk}
  Gui = gtk
  Missing = Missing
  Torn = Torn
  NoModel = NoModel
  MaxScans = 3
  Rulesets <- UpToTwo
  MinDirections = 2
  Polls = 1
  MaxRetries = 1
SPECIFICATION MachineSpec
INVARIANTS TypeOK KeysSurvive HandlesAreFlushed OneBackend ClosesItsOwn
  FileIsWhatWasAsked DeletesWhatWasShown EndsEnrolled
  LoginTypeOK MatchIsEarned SuccessIsAMatch PromptSurvivesFailure
PROPERTY StopsWhenHandled
PROPERTY EveryLoginEnds
\* A login may return, "howdy webauthn init" may be all that is ever run, and a
\* window may be closed.
CHECK_DEADLOCK FALSE
