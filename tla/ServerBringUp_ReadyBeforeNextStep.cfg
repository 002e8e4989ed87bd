SPECIFICATION Spec
CONSTANTS
  Deploys = {d1}
  Servers = {1, 2}
  DCs = {1, 2}
  Addressed = {1, 2}
  Templated = {1, 2}
  MaxStarts = 2
  MaxMachines = 3
  MaxRows = 4
CONSTANT DomainOf <- MCDomainOf
INVARIANT ReadyBeforeNextStep
CHECK_DEADLOCK FALSE
