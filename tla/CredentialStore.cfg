CONSTANTS
  c1 = c1
  c2 = c2
  alice = alice
  Cred = {c1, c2}
  AccountOf <- OneAccount
  Proc = {daemon, cli}
  Daemon = daemon
  NoProc = NoProc
  Torn = Torn
  NoFile = NoFile
  MaxCount = 2
SPECIFICATION FairSpec
INVARIANT TypeOK
INVARIANT AccountsAreDistinct
INVARIANT CounterIsNew
PROPERTY ImplementsAtomicStore
PROPERTY EveryCallReturns
