\* Two users, a card and three requests of any kind, two faults.
SPECIFICATION Spec
CONSTANTS
  ada = ada  ben = ben  tap = tap  key = key
  p1 = p1  p2 = p2  p3 = p3
  NoUser = NoUser  NoRow = NoRow  NoJob = NoJob
  Users = {ada, ben}
  Cards = {tap}
  Calls = {p1, p2, p3}
  MaxFaults = 2
SYMMETRY Symmetry
INVARIANTS
  HistoryTells
  AnswersStand
  StrayNeedsOverlap
  UntoldNeedsCause
CHECK_DEADLOCK FALSE
