SPECIFICATION Spec
CONSTANTS
  Replicas <- SomeReplicas
  Files <- SomeFiles
  Deployments <- SomeDeployments
  NoReplica = NoReplica
  Mortal = {"old", "new", "edited"}
  MaxCrashes = 1
  Main = "main"
  Callers = {"other"}
INVARIANTS
  OneSchema
  StartsNeverCollide
  ReturnedMeansReleased
PROPERTIES
  StartsComplete
  ServiceStops
CHECK_DEADLOCK FALSE
