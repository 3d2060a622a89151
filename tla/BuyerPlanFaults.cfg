CONSTANTS
  Subs = {s1, s2}
  NoSub = NoSub
  Workers = {w1}
  Cycles = {1}
  Faults = {"crash", "outage", "duplicate", "reorder", "lose"}
  Requests = {"schedule", "look", "cancel", "cancelNow", "resume", "cycle", "confirm"}
  Horizon = 2
  MaxRequests = 2
  Backlog = 2
SPECIFICATION Spec
SYMMETRY Interchangeable
CHECK_DEADLOCK FALSE
PROPERTY SoldAsOrdered
