CONSTANTS
  w1 = w1
  w2 = w2
  a = a
  b = b
  m = m
  Writers = {w1, w2}
  Service = service
  Allowed <- Access
  Uses <- NamesUsed
  Cids = {1}
  MaxCalls = 2
  MaxUpdates = 2
SPECIFICATION Spec
INVARIANTS
  FairWritesPass
PROPERTIES
  ChangesAreProven
