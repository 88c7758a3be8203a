SPECIFICATION Spec
CONSTANTS
  u1 = u1
  u2 = u2
  u3 = u3
  r1 = r1
  r2 = r2
  None = None
  Users = {u1, u2, u3}
  MaxTenants = 2
  MaxRows = 4
  Requests = {r1, r2}
INVARIANTS TypeOK FounderIsOnlyOwner WaitsEnd
PROPERTIES BornWhole ActsOnWhatItRead InvitesOnlyAdd AdminsComeFromTheOwner
SYMMETRY Symmetry
CHECK_DEADLOCK FALSE
