\* A touch device off the main network, with smaller limits than 9, 6 and 3 in
\* the same order: amounts and addresses each run out before pairs do, or after.
\* One account: KeepsPromise leaves out which one a title names.
SPECIFICATION Spec
CONSTANTS
  Network = "TESTNET"
  Amounts = {"a1", "a2"}
  Dests = {"d1", "d2"}
  Accounts = {1}
  MaxOuts = 3
  MAX_TAGVALUE_NUMBER = 6
  MAX_AMOUNT_NUMBER = 4
  MAX_ADDR_NUMBER = 2
INVARIANTS
  RowsFit
  ApprovedAfterWarning
PROPERTIES
  KeepsPromise
