SPECIFICATION Spec
CONSTANTS
  Replicas <- SomeReplicas
  Files <- SomeFiles
  Deployments <- SomeDeployments
  NoReplica = NoReplica
  Mortal = {}
  MaxCrashes = 0
  Main = "main"
  Callers = {}
INVARIANT WorkersStopBeforeStoreCloses
CHECK_DEADLOCK FALSE
