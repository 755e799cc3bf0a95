\* Crashes and boot sweeps over the Postgres store, with every fault of a call.
SPECIFICATION Spec
CONSTANTS
  k1 = k1  k2 = k2  o1 = o1  t1 = t1  r1 = r1  r2 = r2
  Keys <- TwoKeys
  Owners <- OneOwner
  Cells <- OneCell
  OwnerOf <- SameOwner
  CellOf <- OwnCell
  Limit = 2
  Durable = TRUE
  All = All
  Requests = {r1, r2}
  Reaper = Reaper
  NoKey = NoKey
  Handlers = {"create", "destroy", "revokeOne", "resume", "crash"}
  Faults = {"stage", "audit", "refund", "kill", "release", "exit"}
  Overlaps = {"destroyMidCreate"}
SYMMETRY Symmetry
INVARIANTS TypeOK BootAgreement
PROPERTIES   LedgerRefined
