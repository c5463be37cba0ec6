SPECIFICATION MCSpec
CONSTANTS
  a1 = a1
  a2 = a2
  checkin = checkin
  own = own
  i1 = i1
  i2 = i2
  i3 = i3
  s1 = s1
  s2 = s2
  NoAgent = NoAgent
  NoSubmission = NoSubmission
  Agent = {a1, a2}
  Run = {checkin, own}
  Item = {i1, i2, i3}
  Checkin = {i1, i2}
  Submission = {s1, s2}
  Content <- MCContent
  Requests <- MCRequests
  RunOf <- MCRunOf
  Invited <- MCInvited
  OwnAgents <- MCOwnAgents
  Limit = 1
  LastDay = 2
INVARIANTS
  TypeOK
  VersionsAreDense
  ReviewedByAnother
  LimitHeldWhenGuarded
PROPERTIES
  OverridesAreRaces
  ImplementsBoard
SYMMETRY Symmetry
CHECK_DEADLOCK FALSE
