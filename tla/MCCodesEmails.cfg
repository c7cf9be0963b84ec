\* Two requests that change or verify emails, two codes, a minute and a fault.
SPECIFICATION Spec
CONSTANTS
  ada = ada  ben = ben  till = till
  k1 = k1  k2 = k2
  adaMail = adaMail  benMail = benMail  shopMail = shopMail
  adaPhone = adaPhone  benPhone = benPhone
  r1 = r1  r2 = r2
  NoRow = NoRow  Blank = Blank  NoJob = NoJob  NoUser = NoUser  NoTarget = NoTarget
  NoIssue = NoIssue  Cut = Cut
  Users = {ada, ben}
  Owners = {ada}
  Stations = {till}
  Codes = {k1, k2}
  Emails = {adaMail, benMail}
  Phones = {adaPhone, benPhone}
  Hyphenated = {benMail}
  FirstEmail <- MCFirstEmail
  FirstPhone <- MCFirstPhone
  FirstBusinessEmail <- MCFirstBusinessEmail
  Requests = {r1, r2}
  Lifetime = 0
  Kinds = {"updateUser", "updateBusiness", "verifyEmail", "editEmail"}
  MaxIssued = 2
  MaxTime = 1
  MaxFaults = 1
SYMMETRY Symmetry
INVARIANTS
  CodesStand
CHECK_DEADLOCK FALSE
