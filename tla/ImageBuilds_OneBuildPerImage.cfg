SPECIFICATION Spec
CONSTANTS
  Images = {a, b}
  Posts = {p1, p2}
  NoImage = none
  MaxBuilds = 2
SYMMETRY Symm
INVARIANT OneBuildPerImage
