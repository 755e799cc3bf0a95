CONSTANTS
  s1 = s1
  s2 = s2
  Nobody = Nobody
  Sessions = {s1, s2}
  MaxUnits = 2
  Capacity = 1
  MaxLost = 2
  Deployments <- MCDeployments
  Clusters <- MCClusters
SPECIFICATION ProvidersSpec
INVARIANTS ProvidersType UnitsSound GuestAsAsked   ObjectsGone
PROPERTIES BootsAgree
CHECK_DEADLOCK FALSE
SYMMETRY MCSymmetry
