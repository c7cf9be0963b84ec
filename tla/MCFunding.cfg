\* A virtual account and a checkout, two deliveries of each webhook, a fault, and fairness.
SPECIFICATION FairSpec
CONSTANTS
  alice = alice  bob = bob  home = home  work = work  other = other
  bank1 = bank1  checkout = checkout
  n1 = n1  n2 = n2  n3 = n3  n4 = n4
  NoAsk = NoAsk  NoRecord = NoRecord  NoUser = NoUser
  Users = {alice, bob}
  Funders = {alice}
  Emails = {home, work, other}
  FirstEmail <- MCFirstEmail
  BankRefs = {bank1}
  CheckoutRefs = {checkout}
  Notices = {n1, n2, n3, n4}
  RefOf <- MCRefOf
  Amounts = {1}
  Payable = {1, 2}
  FundCap = 1
  WalletCap = 2
  MaxEdits = 2
  MaxRepeats = 1
  MaxFaults = 1
INVARIANTS
  CreditedTwiceNeedsRace
  CreditsMatchRows
  BalanceIsRows
PROPERTY
  PaidIsCredited
CHECK_DEADLOCK FALSE
