SPECIFICATION Spec
CONSTANTS
  a1 = a1
  a2 = a2
  q1 = q1
  q2 = q2
  q3 = q3
  t1 = t1
  p1 = p1
  p2 = p2
  go = go
  ml = ml
  n1 = n1
  n2 = n2
  l1 = l1
  hi = hi
  custom = custom
  any = any
  NoPersona = NoPersona
  NoRow = NoRow
  NoView = NoView
  Agent = {a1, a2}
  Existing = {a1}
  Request = {q1, q2, q3}
  Template = {t1}
  Persona = {p1, p2}
  Catalog = {l1}
  Tag = {go, ml}
  Value <- MCValue
  Stored <- MCStored
  Rendered <- MCRendered
  Builtin <- MCBuiltin
  Ask <- MCAsk
  Requests <- MCRequests
INVARIANTS
  TypeOK
  PublicIsReviewed
  ReplacementsReplace
PROPERTY OnlyNamedFieldsChange
SYMMETRY Symmetry
CHECK_DEADLOCK FALSE
