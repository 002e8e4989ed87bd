SPECIFICATION Spec
CONSTANTS
  Groups = {g}
  Users = {u, w}
  Nobody = nobody
  Saves = {s1}
  MaxOthers = 1
SYMMETRY Symm
INVARIANTS TypeOK LinksHaveEnds SavedIsStored OwnSaveIsShown
