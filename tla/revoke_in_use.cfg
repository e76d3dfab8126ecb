\* a check of the CRD that fails
SPECIFICATION Spec
CONSTANTS
  p1 = p1  p2 = p2  n1 = n1  n2 = n2
  NoProject = NoProject
  Projects = {p1, p2}
  Namespaces = {n1, n2}
  Requests <- TwoProjects
  Cleanups <- OneOrBoth
  Attempts = 2
  InitGSAs <- NoOwner
  Budget <- CheckFails
PROPERTY NeverRevokesInUse
CHECK_DEADLOCK FALSE
