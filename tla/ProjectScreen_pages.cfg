SPECIFICATION FairSpec
CONSTANTS
  NoNode = none
  Unfilled = none
  Typed = typed
  Project = "p"
  Targets = {"d", "e"}
  Requests = {r1, r2}
  Beside = 0
  MaxLabs = 2
CONSTANTS
  Nodes <- MCNodes
  Kind <- MCKind
  Parent <- MCParent
  Names <- MCNames
INVARIANTS TypeOK RowsAreOwn
PROPERTIES KeepsItsScale AppliedIsConsistent GraphIsShown CreatedIsShown
