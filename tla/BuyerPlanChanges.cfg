CONSTANTS
  Subs = {s1, s2}
  NoSub = NoSub
  Workers = {w1}
  Cycles = {1}
  Faults = {"decline"}
  Requests = {"schedule", "unschedule", "look"}
  Horizon = 3
  MaxRequests = 2
  Backlog = 3
SPECIFICATION FairSpec
CHECK_DEADLOCK FALSE
INVARIANTS TypeOK OneBuyerPlan NextPeriodAgrees EndedMeansOut
PROPERTIES OnlyQueuedDowngrades PaymentIsRecorded
