CONSTANTS
  Thread = {r1, r2}
  NoThread = NoThread
  Chan = {a, b}
  NoChan = NoChan
  ReaderThread = ReaderThread
SPECIFICATION Spec
INVARIANT TypeOK
INVARIANT ResponseIsLast
INVARIANT CancelHitsItsOwner
PROPERTY NoSplicedFrame
PROPERTY ImplementsSerialDevice
SYMMETRY Symmetry
