CONSTANTS
  MaxEvents = 4
  Faults = {"write", "publish", "copy"}
  KeyIds = {1, 2}
  Verbs = {1, 2, 3}
  Shelves <- MCShelves
  LastTick = 1
  Unset = Unset
  Holders = {h1, h2}
  Benches <- MCBenches
  TokenTTL = 2
  Overlap = 3
  KeyAge = 4
  Horizon = 4
SPECIFICATION RecordsSpec
INVARIANTS RecordsType AckedKept CentralMirrored TrailResumes SerialAnswersHold 
PROPERTIES ArchiveKept
SYMMETRY HolderSymmetry
CHECK_DEADLOCK FALSE
