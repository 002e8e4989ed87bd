SPECIFICATION Spec
CONSTANTS
  Kind = "users"
  Deploys = {d1, d2}
  Projects = {"p1", "p2"}
  Domains = {1, 2}
  Reachable = {1, 2}
  Names = {a}
  EditsDuringDeploy = {}
  MaxAccounts = 1
  MaxRows = 2
  MaxDiscards = 0
CONSTANTS
  TargetOf <- MCTargets
  ProjectOf <- MCTwoProjects
  RootDc <- MCRootOk
INVARIANTS DeletionIsEffective
\* At rest with every id in use, there is nothing left to do.
CHECK_DEADLOCK FALSE
