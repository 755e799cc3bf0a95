CONSTANTS
  General = 1
  Reserved = 1
  Cap = 2
  MaxWindow = 1
  Callers <- MCCallers
  Requests <- MCRequests
  Loads <- MCLoads
  Issuances = {1, 2}
  Presentations = {1, 2, 3}
  Desks <- MCDesks
  Window = 2
  LastInstant = 6
  Creates = {1, 2, 3}
  Owners <- MCOwners
  Policies <- MCPolicies
  LastMinute = 1
  MaxDrift = 1
SPECIFICATION MCSpec
INVARIANTS PlanesType  RateFair CallsAttested DriftAccounted CapsHold
PROPERTIES GuardHolds RequestsServed
CHECK_DEADLOCK FALSE
