\* A transaction of up to two outputs, change included, on a button device.
SPECIFICATION Spec
CONSTANTS
  Touch = FALSE
  Versions = {4}
  HostModes = {"REAL"}
  Dest = {own, alice}
  Own = {own}
  Subaddr = {own}
  Amount = {1}
  Masked = {}
  Locks = {FALSE}
  MaxChunks = 1
  MaxStep = 3
  MaxOutputs = 2
  MaxSign = 0
  MaxRingMsgs = 0
  MaxAmountRows = 6
  MaxAddressRows = 3
  MaxRows = 9
INVARIANTS
  SignedPrefixIsReviewed
  SignedBodyIsReviewed
PROPERTIES
  FrozenUnderReview
  KeepsPromise
