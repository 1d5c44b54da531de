\* Prefixes good and bad: every sequence of up to three fields of `extra`, every
\* kind of output, lengths at their edges, in chunks cut anywhere.
SPECIFICATION Spec
CHECK_DEADLOCK FALSE
CONSTANTS
  Base = 4
  TopBit = 16
  KeySize = 2
  PidSize = 2
  PaddingMax = 3
  MinerTag = 5
  Byte = {0, 1, 2, 3, 4, 5, 6, 7}
  Cases <- MCCases
  MaxChunk = 3
  MaxFields = 3
  Extras = TRUE
  Outputs = TRUE
INVARIANTS
  NoWrap
  AcceptedIsWellFormed
  WellFormedIsAccepted
  FoundAppeared
  DoneIsVerified
PROPERTIES
  ChunkAnswered
