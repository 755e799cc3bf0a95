\* Restarts and rotations without any fault.
SPECIFICATION Spec
CONSTANTS
  MaxEvents = 4
  Faults = {}
INVARIANTS SeamResumable
CHECK_DEADLOCK FALSE
