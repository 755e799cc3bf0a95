CONSTANTS
  MaxEvents = 0
  Faults = {}
  KeyIds = {1, 2}
  Verbs = {1, 2, 3}
  Shelves <- RaceShelves
  LastTick = 1
  Unset = Unset
  Holders = {h1, h2}
  Benches <- MCBenches
  TokenTTL = 2
  Overlap = 3
  KeyAge = 4
  Horizon = 4
SPECIFICATION RecordsSpec
INVARIANT RevokeSticks
CHECK_DEADLOCK FALSE
