SPECIFICATION FairSpec
CONSTANTS
  Deploys = {d1}
  Operators = {o1}
  Domains = {1, 2}
  Vulns = {v}
  NoVuln = none
  MaxRows = 2
CONSTANTS
  Labs <- MCLabs
INVARIANTS TypeOK AppliedIsReal
PROPERTIES PassedIsInjected 
