\* A touch device: a timelock, a prefix in two pieces, one output, and a payment
\* ID masked for either of two destinations, one a subaddress of this wallet.
SPECIFICATION Spec
CONSTANTS
  Touch = TRUE
  Versions = {4}
  HostModes = {"REAL"}
  Dest = {own, alice}
  Own = {own}
  Subaddr = {own}
  Amount = {1}
  Masked = {own, alice}
  Locks = {TRUE}
  MaxChunks = 2
  MaxStep = 2
  MaxOutputs = 1
  MaxSign = 0
  MaxRingMsgs = 0
  MaxAmountRows = 6
  MaxAddressRows = 3
  MaxRows = 9
INVARIANTS
  ReviewOwesReply
  StagesEarned
  ApprovedOutputs
  SignedPrefixIsReviewed
