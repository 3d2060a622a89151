CONSTANTS
  Subs = {s1, s2}
  NoSub = NoSub
  Cycles = {1}
  Faults = {"decline"}
  Requests = {"select", "edit", "downgrade", "downgradeCancelled", "cancel", "reactivate", "look", "sold", "tabs", "meanwhile"}
  Horizon = 3
  MaxRequests = 3
  Backlog = 2
SPECIFICATION FairSpec
CHECK_DEADLOCK FALSE
INVARIANT SoldIsNotBilled
PROPERTIES PaymentSwitchesOn EndSwitchesOff
