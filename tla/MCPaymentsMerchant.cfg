\* The collections of a merchant.
SPECIFICATION Spec
CONSTANTS
  p1 = p1  p2 = p2
  alice = alice  bob = bob  shop = shop
  tapCard = tapCard  fundedCard = fundedCard
  till = till  kiosk = kiosk  bobsTill = bobsTill  walkIn = walkIn
  NoStation = NoStation  NoCard = NoCard  NoWallet = NoWallet  NoJob = NoJob  NoPrice = NoPrice  NoRef = NoRef
  Calls = {p1, p2}
  Wallets = {alice, bob, shop}
  Cards = {tapCard, fundedCard}
  FundedCards = {fundedCard}
  Personal = {alice, bob}
  Usable = {tapCard, fundedCard}
  Stations = {till, kiosk}
  Merchants = {bobsTill, walkIn}
  Amounts = {2, 3, 4}
  Cap = 4
  DailyLimit = 5
  Naira = 2
  MaxTick = 1
  MaxDay = 2
  MaxMishaps = 0
  CardWallet <- MCCardWallet
  Owner <- MCCardWallet
  Home <- MCHome
  FixedAmount <- MCFixed
  Opening <- MCOpening
INVARIANTS
  MerchantsCollect
CHECK_DEADLOCK FALSE
