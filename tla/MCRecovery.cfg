SPECIFICATION Spec
CONSTANTS
  Runners = {"upstream", "fork"}
  MaxQueue = 2
  Agents <- TwoAgents
  MaxRestores = 2
INVARIANTS MaintenanceIsIdle CredentialsAreReplaced
