SPECIFICATION Spec
CONSTANTS
  MaxLines = 3
  MaxIds = 8
INVARIANTS
  TypeOK
  RequestTracked
  ShownIsActual
  LineIdsDistinct
  LogInOrder
