\* The same rows, with the titles of the change as they are on the screen.
SPECIFICATION Spec
CONSTANTS
  Network = "MAINNET"
  Amounts = {"a1"}
  Dests = {"d1"}
  Accounts = {0, 1}
  MaxOuts = 3
  MAX_TAGVALUE_NUMBER = 6
  MAX_AMOUNT_NUMBER = 4
  MAX_ADDR_NUMBER = 2
INVARIANTS
  ChangeAccountsTold
