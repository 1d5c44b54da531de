\* A button device off the main network, with a user who may walk through the
\* menus between any two commands.
SPECIFICATION Spec
CONSTANTS
  Network = "STAGENET"
  Amounts = {"a1", "a2"}
  Dests = {"d1", "d2"}
  Accounts = {0, 1}
  MaxOuts = 3
INVARIANTS
  OwedReplyHasItsFlow
  ApprovedAfterWarning
PROPERTIES
  KeepsPromise
  Answered
