\* Every call returns, idle sessions are reaped and DENY-ALL reaches every row it meets.
SPECIFICATION FairSpec
CONSTANTS
  k1 = k1  k2 = k2  o1 = o1  t1 = t1  r1 = r1  r2 = r2
  Keys <- OneKey
  Owners <- OneOwner
  Cells <- OneCell
  OwnerOf <- ItsOwner
  CellOf <- OwnCell
  Limit = 2
  Durable = TRUE
  All = All
  Requests = {r1, r2}
  Reaper = Reaper
  NoKey = NoKey
  Handlers = {"create", "destroy", "exec", "reap", "revokeAll"}
  Faults = {}
  Overlaps = {"teardowns", "destroyMidCreate", "killMidCreate"}
 
PROPERTIES CallsReturn IdleSessionsReaped DeniedRowsGo
