SPECIFICATION FairSpec
CONSTANTS
  Images = {a, b}
  Posts = {p1, p2}
  NoImage = none
  MaxBuilds = 2
INVARIANTS TypeOK BuildsAreGuarded MarksHaveBuilds
PROPERTIES MarkIsLifted ButtonComesBack
