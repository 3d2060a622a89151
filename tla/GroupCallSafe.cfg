CONSTANTS
  buyer = buyer
  seller = seller
  moderator = moderator
  onBuyer = onBuyer
  onSeller = onSeller
  onTeam = onTeam
  onTeam2 = onTeam2
  Users <- TheUsers
  Team = {moderator}
  Chats = {c1, c2}
  PartiesOf <- Parties
  Sockets = {onBuyer, onSeller, onTeam}
  Owner <- SignedIn
  MaxCalls = 2
  Faults = {"restart", "lose"}
SPECIFICATION Spec
CHECK_DEADLOCK FALSE
INVARIANTS TypeOK TimersBelongToRunningCalls EndsForAReason
PROPERTY TellsTheStory
