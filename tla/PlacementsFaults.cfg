CONSTANTS
  Subs = {s1, s2}
  NoSub = NoSub
  Singles = {category, start}
  Bundle = bundle
  RowIds = {i1}
  NoId = NoId
  Workers = {w1}
  Cycles = {1}
  Faults = {"reorder", "duplicate", "lose", "crash"}
  Requests = {"subscribe", "shorter", "cancel", "reactivate", "look", "package", "packageAgain", "confirm", "replay", "tabs", "meanwhile", "packageEnds", "sold"}
  Horizon = 2
  MaxRequests = 2
  Backlog = 1
SPECIFICATION Spec
CHECK_DEADLOCK FALSE
SYMMETRY Interchangeable
PROPERTY SoldAsOrdered
