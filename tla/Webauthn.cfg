CONSTANTS
  c1 = c1
  c2 = c2
  c3 = c3
  alice = alice
  bob = bob
  site = site
  Cred = {c1, c2, c3}
  AccountOf <- Accounts
  RpOf <- OneSite
  NoCred = NoCred
  OfAdmin = {c3}
  MaxCount = 2
  MaxChecks = 3
  MaxSilent = 1
  Chan = {a, b}
  NoChan = NoChan
  InitPayload = 2
  ContPayload = 2
  SeqMod = 2
  MaxLength = 7
SPECIFICATION WebauthnSpec
INVARIANTS TypeOK CountersIncrease OneAssertionPerCheck AnsweredIsStored
  RecordsHaveKeys MissesOnce
  FramingTypeOK DeliveredIsSent EveryMessageHasOneOutcome
SYMMETRY Symmetry
