SPECIFICATION Spec
CONSTANTS
  Users = {u1, u2, u3}
  MaxMembers = 2
  MaxWaitlist = 2
  MaxUses = 1
  MaxOrder = 2
  MaxListing = 1
  MaxAdmits = 1
  Serial = TRUE
SYMMETRY AnyUser
INVARIANTS PlacesAndOrdersHold NobodyIsForgotten
CHECK_DEADLOCK FALSE
