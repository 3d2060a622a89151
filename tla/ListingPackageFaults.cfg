CONSTANTS
  Subs = {s1, s2}
  NoSub = NoSub
  Cycles = {1}
  Faults = {"duplicate", "reorder", "lose", "decline", "cut"}
  Requests = {"select", "free", "downgrade", "downgradeCancelled", "keep", "cancel", "reactivate", "look", "confirm", "sold", "tabs", "meanwhile"}
  Horizon = 2
  MaxRequests = 3
  Backlog = 2
SPECIFICATION Spec
CHECK_DEADLOCK FALSE
SYMMETRY Interchangeable
PROPERTY SoldAsOrdered
