SPECIFICATION Spec
CONSTANTS
  boot = boot
  topology = topology
  teardown = teardown
  gatewayClose = gatewayClose
  check1 = check1
  audit1 = audit1
  None = None
  Checks <- MCChecks
  Audits <- MCAudits
  Answers <- MCAnswers
INVARIANTS
  RefusalRegistersNothing
CHECK_DEADLOCK FALSE
