CONSTANTS
  Subs = {s1, s2, s3}
  NoSub = NoSub
  Singles = {category, start}
  Bundle = bundle
  RowIds = {i1}
  NoId = NoId
  Workers = {w1, w2}
  Cycles = {1}
  Faults = {}
  Requests = {"package", "sold"}
  Horizon = 3
  MaxRequests = 3
  Backlog = 2
SPECIFICATION Spec
CHECK_DEADLOCK FALSE
PROPERTY SaleStopsBilling
