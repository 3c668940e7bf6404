CONSTANTS
  Thread = {r1}
  NoThread = NoThread
  Chan = {a}
  NoChan = NoChan
  ReaderThread = ReaderThread
SPECIFICATION HostSpec
INVARIANT CancelStopsTheCheck
