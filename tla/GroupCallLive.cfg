CONSTANTS
  buyer = buyer
  seller = seller
  moderator = moderator
  onBuyer = onBuyer
  onSeller = onSeller
  onTeam = onTeam
  onTeam2 = onTeam2
  Users <- TheUsers
  Team = {moderator}
  Chats = {c1}
  PartiesOf <- Parties
  Sockets = {onBuyer, onSeller, onTeam}
  Owner <- SignedIn
  MaxCalls = 2
  Faults = {}
SPECIFICATION FairSpec
CHECK_DEADLOCK FALSE
PROPERTIES NobodyRingsForever EveryoneIsToldOf
