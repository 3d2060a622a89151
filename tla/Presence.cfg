CONSTANTS
  Sockets = {s1, s2, s3}
  MaxRestarts = 1
  MaxSignOuts = 1
  MaxFailures = 1
SPECIFICATION FairPresence
CHECK_DEADLOCK FALSE
INVARIANTS PresenceTypeOK ShownAsCounted
PROPERTY GoneIsShownOffline
