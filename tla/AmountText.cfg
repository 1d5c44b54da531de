\* Timelocks, fees and amounts on one buffer, in any order transactions allow.
SPECIFICATION Spec
CONSTANTS
  Numbers <- MCNumbers
  Lengths = {1, 9, 12, 13, 14, 15, 16, 18, 20}
INVARIANTS
  FeeText
  OutputText
  TimelockText
