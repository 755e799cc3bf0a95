\* Two destroys of one session at the same time.
SPECIFICATION Spec
CONSTANTS
  k1 = k1  k2 = k2  o1 = o1  t1 = t1  r1 = r1  r2 = r2
  Keys <- TwoKeys
  Owners <- OneOwner
  Cells <- OneCell
  OwnerOf <- SameOwner
  CellOf <- OwnCell
  Limit = 2
  Durable = TRUE
  All = All
  Requests = {r1, r2}
  Reaper = Reaper
  NoKey = NoKey
  Handlers = {"create", "destroy"}
  Faults = {}
  Overlaps = {"teardowns"}
SYMMETRY Symmetry
INVARIANTS RunningCounted
