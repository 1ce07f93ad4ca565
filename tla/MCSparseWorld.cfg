SPECIFICATION MCSpec
CONSTANTS
  Keys = {k1, k2, k3, k4}
  Slots = {s1, s2, s3}
  Npos = npos
  npos = npos
  Observers = {o1}
  Flags = {f1, f2}
  Actives = {a1}
  Positions = {0, 2}
  EditedKeys = {k1}
  MaxGeneration = 4
  MaxEdits = 3
  DirectoryKeys = {1, 2, 3, 4}
  DirectorySlots = {s1, s2}
  Capacities = {1, 2, 3, 4}
  ChunkKeys = {0, 1}
  Templates <- MCTemplates
  Policy <- MCPolicy
  Reads <- MCReads
  Writes <- MCWrites
  Dirties <- MCDirties
  Domain <- MCDomain
  TaskPolicy = "UniquePerChunk"
  Pool = TRUE
  Threshold = 2
  MaxIssued = 4
  MaxThrows = 1
SYMMETRY Symmetry
CONSTRAINT EditsEndEarly
INVARIANTS StorageConsistent AcceptedObservationIsFresh DirectoryAgrees GraphsAreTrue SerialEquivalence WritesLeaveDirtyMarks NoOperationLost AnswersAreTrue
PROPERTIES ImplementsResidentSet HandlesNeverRevive
