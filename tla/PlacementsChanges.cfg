CONSTANTS
  Subs = {s1, s2, s3}
  NoSub = NoSub
  Singles = {category, start}
  Bundle = bundle
  RowIds = {i1}
  NoId = NoId
  Workers = {w1, w2}
  Cycles = {1, 2}
  Faults = {"twice", "decline"}
  Requests = {"subscribe", "cancel", "reactivate", "look", "package", "confirm"}
  Horizon = 3
  MaxRequests = 3
  Backlog = 2
SPECIFICATION Spec
CHECK_DEADLOCK FALSE
SYMMETRY Interchangeable
INVARIANTS TypeOK FlagsSayRows BilledOnce BilledIsHeld RenewalAgrees
PROPERTY LetsGoOfWhatIsOver
