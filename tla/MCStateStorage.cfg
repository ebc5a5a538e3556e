SPECIFICATION Spec
CONSTANTS
  Processes = {p1, p2}
  Resources = {bucket}
  Accounts = {a1, a2}
  Absent = Absent
  Torn = Torn
  Unseen = Unseen
  Free = Free
SYMMETRY Symmetry
INVARIANTS
  NeverTorn
  SavedSurvives
  MarkedStaysMarked
PROPERTIES
  RegisterSpec
