\* Two withdrawals, of a business or of a user, one delivery about the first, a payment, a mishap, and fairness.
SPECIFICATION FairSpec
CONSTANTS
  shop = shop  purse = purse
  owner = owner  guest = guest
  c1 = c1  c2 = c2
  n1 = n1
  NoJob = NoJob  NoTaking = NoTaking  NoRef = NoRef
  Calls = {c1, c2}
  Persons = {owner, guest}
  Wallets = {shop, purse}
  BusinessWallets = {shop}
  WalletOf <- MCWalletOf
  Callers <- MCCallers
  Notices = {n1}
  About <- MCAbout
  Amounts = {2}
  Minimum = 2
  FeePercent = 5
  Fee = 1
  Opening <- MCOpening
  Payments = {1}
  Takings <- MCTakings
  MaxDay = 1
  MaxMishaps = 1
INVARIANTS
  OverdraftHasCause
  RowsMatchTransfers
  PaidOutIsDebited
  BalanceIsBooked
  RecentIsHeldBack
PROPERTY
  EndedIsSettled
CHECK_DEADLOCK FALSE
