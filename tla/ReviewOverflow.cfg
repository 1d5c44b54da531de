\* A transaction to four addresses on a touch device, whose review has three.
SPECIFICATION Spec
CONSTANTS
  Touch = TRUE
  Versions = {4}
  HostModes = {"REAL"}
  Dest = {alice}
  Own = {}
  Subaddr = {}
  Amount = {1}
  Masked = {}
  Locks = {FALSE}
  MaxChunks = 1
  MaxStep = 4
  MaxOutputs = 4
  MaxSign = 0
  MaxRingMsgs = 0
  MaxAmountRows = 6
  MaxAddressRows = 3
  MaxRows = 9
INVARIANTS
  ReviewOwesReply
