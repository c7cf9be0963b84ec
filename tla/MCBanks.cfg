\* Two admins' and two clients' requests at once, two banks.
SPECIFICATION BanksSpec
CONSTANTS
  gtb = gtb  access = access  ada = ada  shop = shop  one = one  two = two
  a1 = a1  a2 = a2  r1 = r1  r2 = r2
  NoAccount = NoAccount  NoOne = NoOne  NoName = NoName
  Banks = {gtb, access}
  Seeded = {gtb, access}
  Users = {ada}
  Firms = {shop}
  Numbers = {one, two}
  Sent <- MCSent
  Exempt <- MCExempt
  Real <- MCReal
  Bears <- MCBears
  Admins = {a1, a2}
  Requests = {r1, r2}
  MaxWrites = 2
  MaxAsks = 2
SYMMETRY Symmetry
INVARIANTS
  StaleListHasCause
  PickedIsStored
  NamesMatch
CHECK_DEADLOCK FALSE
