\* Two transactions of an honest wallet, real or fake, accepted, rejected or cut
\* off, on a button device.
SPECIFICATION HostSpec
CONSTANTS
  alice = alice
  bob = bob
  sub = sub
  Plans <- MCPlans
  MaxTransactions = 2
  Touch = FALSE
  Versions = {4}
  HostModes = {"REAL", "FAKE"}
  Dest = {alice, bob, sub}
  Own = {alice}
  Subaddr = {sub}
  Amount = {0, 1}
  Masked = {bob, sub}
  Locks = {TRUE, FALSE}
  MaxChunks = 2
  MaxStep = 3
  MaxOutputs = 2
  MaxSign = 4
  MaxRingMsgs = 3
  MaxAmountRows = 6
  MaxAddressRows = 3
  MaxRows = 9
INVARIANTS
  ToldThePlan
  SignedIsPlan
PROPERTIES
  EveryTransactionEnds
  ApprovedIsSigned
