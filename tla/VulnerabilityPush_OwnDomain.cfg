SPECIFICATION Spec
CONSTANTS
  Deploys = {d1}
  Operators = {o1}
  Domains = {1, 2}
  Vulns = {v}
  NoVuln = none
  MaxRows = 1
CONSTANTS
  Labs <- MCLabs
INVARIANTS AppliedInItsDomain
