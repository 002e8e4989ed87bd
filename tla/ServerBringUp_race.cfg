SPECIFICATION Spec
CONSTANTS
  Deploys = {d1, d2}
  Servers = {1, 2, 3}
  DCs = {1, 2, 3}
  Addressed = {1, 2}
  Templated = {1, 2}
  MaxStarts = 2
  MaxMachines = 3
  MaxRows = 2
CONSTANT DomainOf <- MCDomainOf
SYMMETRY Symm
INVARIANTS TypeOK RecordedVmIsOwn RecordedIsPromoted OneMachinePerRecord PassedIsPromoted AwaitedRoots
PROPERTIES OutcomeIsFinal ImplementsRegistry AppliedIsLeftAlone PassesOnlyWhenReady
\* A lab at rest: no request is running and the bound on requests is reached.
CHECK_DEADLOCK FALSE
