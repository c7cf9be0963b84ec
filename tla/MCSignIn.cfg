\* Two requests at once of a user and a station, a fault and a window that passes.
SPECIFICATION Spec
CONSTANTS
  ada = ada  till = till  r1 = r1  r2 = r2
  Absent = Absent
  Users = {ada}
  Stations = {till}
  Calls = {r1, r2}
  MaxBegun = 4
  Limit = 1
  Window = 1
  MaxSecrets = 2
  MaxTime = 1
  MaxFaults = 1
SYMMETRY Symmetry
INVARIANTS
  GuessesAreBounded
  HeldIsStored
  AppIsUsable
CHECK_DEADLOCK FALSE
