CONSTANTS
  Threads = {t1, t2}
  Clients = {"c1"}
  Operators = {"ann", "bob"}
  Script = "bot"
  Permitted = {"bob", "bot"}
  TTL = 3
  Second = 2
  Burst = 2
  LoginWindow = 1
  Deployments <- MCDeployments
  Earlier <- MCEarlier
  MaxClock = 3
  MaxSessions = 2
  Mixes <- MCMixes
SPECIFICATION Spec
SYMMETRY Symmetry
INVARIANTS TypeOK SignedOutStaysOut AuditTells ActsInOneName GuessesBounded RefusalsJustified
CHECK_DEADLOCK FALSE
