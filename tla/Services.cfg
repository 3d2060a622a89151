CONSTANTS
  Parties = {m1, m2}
  Team = {moderator}
  Outsiders = {}
  Texts = {hello}
  Nobody = Nobody
  Every = 2
  Callers = {w1, w2}
  Filers = {moderator}
  MaxRequests = 3
  MaxFailures = 1
  Addresses = {a1, a2}
  NoAddress = NoAddress
  Clerks = {w1, w2}
  MaxCodes = 3
  MaxGuesses = 2
  Buyers = {m1, m2}
  Desks = {w1, w2}
  Documents = {x1, x2}
  Amounts = {1}
  Reviewers = {w1, w2}
SPECIFICATION ServicesSpec
SYMMETRY Alike
CHECK_DEADLOCK FALSE
INVARIANTS ServicesTypeOK PromptsAreDue NoMilestoneSkipped ArchivedHidesNothingNew OffersAreKept
INVARIANTS AddressWasProved LetInBySomeone NoticesTellTheRow VerifiedFundsAddUp
