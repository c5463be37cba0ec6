SPECIFICATION Spec
CONSTANTS
  d1 = d1
  d2 = d2
  a1 = a1
  l1 = l1
  l2 = l2
  Content = {1, 2, 3, 4}
  Decision = {d1, d2}
  Page = {a1}
  Load = {l1, l2}
  Limit = 1
  Families <- MCFamilies
  Filter <- MCFilter
INVARIANTS
  TypeOK
  LogExplainsStatus
  PassesMissOnlyWhatMoved
  PublicIsModerated
SYMMETRY Symmetry
CHECK_DEADLOCK FALSE
