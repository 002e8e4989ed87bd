SPECIFICATION Spec
CONSTANTS
  Kind = "users"
  Deploys = {d1, d2}
  Projects = {"p1"}
  Domains = {1}
  Reachable = {1}
  Names = {a}
  EditsDuringDeploy = {}
  MaxAccounts = 2
  MaxRows = 3
  MaxDiscards = 1
CONSTANTS
  TargetOf <- MCTarget
  ProjectOf <- MCOneProject
  RootDc <- MCRootOk
SYMMETRY Symm
INVARIANTS TypeOK DirectoryIsNamed DirectoryIsTracked
PROPERTIES MarkIsCarriedOut LeavesDirectoryFirst PassedIsPushed PassedIsReversed
\* At rest with every id in use, there is nothing left to do.
CHECK_DEADLOCK FALSE
