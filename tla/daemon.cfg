\* Boots, failures, stops and restarts of the daemon, and its channels into guests.
SPECIFICATION Spec
CONSTANTS
  Daemons = {d1, d2}
  Configs <- AllConfigs
  Nothing = Nothing
  RegularFile = RegularFile
  Execs = {e1, e2}
  Guests = {g1, g2}
  NoExec = NoExec
  DialWaitBudget = 10
  DialAttemptBudget = 3
  RedialInterval = 1
  TotalExecCap = 20
  StdioCap = 1
  MaxSent = 2
INVARIANTS TypeOK EndpointsOwned ExecsSound LateGuestReached
PROPERTIES  ProcessesDecide ChannelReturns
CHECK_DEADLOCK FALSE
