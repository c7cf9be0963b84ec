\* Two withdrawals one after the other and what the second is told.
SPECIFICATION Spec
CONSTANTS
  shop = shop  purse = purse
  owner = owner  guest = guest
  c1 = c1  c2 = c2
  n1 = n1
  NoJob = NoJob  NoTaking = NoTaking  NoRef = NoRef
  Calls = {c1, c2}
  Persons = {owner}
  Wallets = {shop}
  BusinessWallets = {shop}
  WalletOf <- MCWalletOfOwner
  Callers <- MCOwnerCalls
  Notices = {n1}
  About <- MCAbout
  Amounts = {1, 2}
  Minimum = 1
  FeePercent = 5
  Fee = 1
  Opening <- MCOpeningOne
  Payments = {}
  Takings = {1}
  MaxDay = 3
  MaxMishaps = 0
INVARIANTS
  SettledMoneyIsWithdrawable
CHECK_DEADLOCK FALSE
