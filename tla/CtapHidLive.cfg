CONSTANTS
  Thread = {r1, r2}
  NoThread = NoThread
  Chan = {a}
  NoChan = NoChan
  ReaderThread = ReaderThread
SPECIFICATION QuietSpec
PROPERTY EveryRequestEnds
