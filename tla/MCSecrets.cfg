\* A user, a station and the owners of two businesses, two requests at once.
SPECIFICATION SecretsSpec
CONSTANTS
  ada = ada  till = till  shop = shop  stall = stall
  p1 = p1  p2 = p2  t1 = t1  t2 = t2  r1 = r1  r2 = r2
  NoWord = NoWord  NoTerms = NoTerms  NoChange = NoChange
  UserRows = {ada}
  StationRows = {till}
  Businesses = {shop, stall}
  OwnerOf <- MCOwnerOf
  Words = {p1, p2}
  Terms = {t1, t2}
  FirstWord = p1
  Handlers = {r1, r2}
  MaxJobs = 5
SYMMETRY Symmetry
INVARIANTS
  PresentedWasCurrent
CHECK_DEADLOCK FALSE
