\* A ring signature, MLSAG or CLSAG, real or fake, on a touch device whose review
\* has no room for an address: an output fits as change only.
SPECIFICATION Spec
CONSTANTS
  Touch = TRUE
  Versions = {3, 4}
  HostModes = {"REAL", "FAKE"}
  Dest = {alice}
  Own = {alice}
  Subaddr = {}
  Amount = {1}
  Masked = {}
  Locks = {FALSE}
  MaxChunks = 1
  MaxStep = 2
  MaxOutputs = 1
  MaxSign = 1
  MaxRingMsgs = 3
  MaxAmountRows = 6
  MaxAddressRows = 0
  MaxRows = 9
INVARIANTS
  TypeOK
  SealIsWhole
  NonceUsedOnce
PROPERTIES
  RealSignatureEarned
