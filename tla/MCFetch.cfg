SPECIFICATION Spec
CONSTANTS
  Branch = {1, 2}
  Tag = {1}
  MaxCommit = 3
  Shallow = FALSE
INVARIANTS
  TypeOK
  FetchInv
PROPERTIES
  NamedWhileRunning
  IdFound
  UpdateGoesForward
