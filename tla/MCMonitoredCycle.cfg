SPECIFICATION MonitoredSpec
CONSTANTS
  r1 = r1
  r2 = r2
  r3 = r3
  r4 = r4
  i1 = i1
  i2 = i2
  f1 = f1
  f2 = f2
  v1 = v1
  pack = pack
  ontology = ontology
  Nobody = Nobody
  NoAction = NoAction
  Gone = Gone
  Runner = {r1, r2, r3, r4}
  Process = {r1, r2, r3, r4}
  Input = {i1, i2}
  InputOf <- TwoInputs
  Path = {f1, f2}
  Content = {Gone, v1}
  FirstFiles <- OneFile
  MaxEdits = 1
  MaxFaults = 2
  Action = {pack, ontology}
  ActionOf <- Recommended
  Workflows = {ontology}
  Looping = {r4}
SYMMETRY Interchangeable
CONSTRAINT Explored
INVARIANTS
  MonitoredInv
  FirstAttemptIsExclusive
  FirstAttemptKeepsAll
  OneInputPerKey
  NoChangeIsHidden
  CyclesAreBacked
  ReceiptsAreBacked
PROPERTIES
  ResultsAreReplayed
  ImplementsAuditTrail
CHECK_DEADLOCK FALSE
