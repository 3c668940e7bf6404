CONSTANTS
  c1 = c1
  c2 = c2
  c3 = c3
  alice = alice
  bob = bob
  site = site
  Cred = {c1, c2, c3}
  AccountOf <- Accounts
  RpOf <- OneSite
  NoCred = NoCred
  OfAdmin = {c3}
  MaxCount = 2
  MaxChecks = 3
  MaxSilent = 1
SPECIFICATION Spec
INVARIANT NoFaceNoSignature
