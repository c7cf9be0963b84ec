\* Two people of one name, an owner of businesses among them; two requests at once.
SPECIFICATION Spec
CONSTANTS
  ann = ann  bob = bob  Ann = Ann  Annabel = Annabel
  r1 = r1  r2 = r2
  NoRow = NoRow  NoName = NoName  NoWallet = NoWallet  NoJob = NoJob
  People = {ann, bob}
  FirstNames = {Ann, Annabel}
  FirstName <- MCFirstName
  StartsWith <- MCStartsWith
  Given <- MCGiven
  Referrals <- MCReferrals
  Sent <- MCSent
  Firms = {1, 2}
  Requests = {r1, r2}
  Kinds = {"signUp", "register", "roles", "delete", "staff", "rename"}
  MaxRows = 2
  MaxFounded = 2
  MaxEdits = 1
  MaxFaults = 1
SYMMETRY Symmetry
INVARIANTS
  TakenNameHasCause
  HalfMadeHasCause
  BonusesAreBooked
  BonusIsEarned
  OwnersAreWhole
  OrphanHasCause
CHECK_DEADLOCK FALSE
