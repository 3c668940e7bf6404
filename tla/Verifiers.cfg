CONSTANTS
  Thread = {t1, t2, t3}
  NoThread = NoThread
  Caller = {c1}
  Preloader = Preloader
  NoCaller = NoCaller
  Engine = {detector}
  Window = 2
  MinVotes = 2
  MinPairs = 2
  Samples = 2
  MaxFaces = 4
SPECIFICATION Spec
INVARIANT TypeOK
INVARIANT OneChildAtATime
INVARIANT HitCheckIsCancelled
INVARIANT StatusIsEarned
PROPERTY ImplementsFaceCheck
PROPERTY EveryCheckReturns
CHECK_DEADLOCK FALSE
