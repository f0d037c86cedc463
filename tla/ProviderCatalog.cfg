CONSTANTS
  p1 = p1
  p2 = p2
  x1 = x1
  m1 = m1
  k1 = k1
  k2 = k2
  None = None
  Providers = {p1, p2}
  ModelPrefixes = {x1}
  Models = {m1}
  Keys = {k1, k2}
  Owner <- MCOwner
  ChangingKeys = {k1}
  Batch = 1
SPECIFICATION CatSpec
INVARIANTS CatalogSound
PROPERTIES ManualModelsKept DeletionIsAtomic DeletionsDrain
CHECK_DEADLOCK FALSE
