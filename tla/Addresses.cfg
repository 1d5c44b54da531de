\* Either kind of device.
SPECIFICATION Spec
CONSTANTS
  Subs = {"s1", "s2"}
  Dests = {"d1", "d2"}
INVARIANTS
  AddressIsAsLabelled
  OwedReplyHasItsScreen
  NoAddressAskedInTransaction
