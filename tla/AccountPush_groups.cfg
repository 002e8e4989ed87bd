SPECIFICATION Spec
CONSTANTS
  Kind = "groups"
  Deploys = {d1}
  Projects = {"p1"}
  Domains = {1, 2}
  Reachable = {1}
  Names = {a, b}
  EditsDuringDeploy = {"delete", "rows"}
  MaxAccounts = 2
  MaxRows = 2
  MaxDiscards = 1
CONSTANTS
  TargetOf <- MCTarget
  ProjectOf <- MCOneProject
  RootDc <- MCRootsDiffer
SYMMETRY Symm
INVARIANTS DirectoryIsNamed DirectoryIsTracked
PROPERTIES AppliedIsReal
\* At rest with every id in use, there is nothing left to do.
CHECK_DEADLOCK FALSE
