CONSTANTS
  Subs = {s1, s2, s3}
  NoSub = NoSub
  Cycles = {1, 2}
  Faults = {"decline", "duplicate"}
  Requests = {"select", "downgrade", "keep", "cancel", "reactivate", "look", "free"}
  Horizon = 4
  MaxRequests = 3
  Backlog = 3
SPECIFICATION Spec
CHECK_DEADLOCK FALSE
SYMMETRY Interchangeable
INVARIANTS TypeOK BillingAgrees NextPeriodAgrees
PROPERTY PayingLessWaits
