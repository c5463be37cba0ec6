SPECIFICATION FairSpec
CONSTANTS
  a1 = a1
  k1 = k1
  k2 = k2
  k3 = k3
  NoRow = 0
  Agent = {a1}
  Key = {k1, k2, k3}
  Row = {1, 2, 3, 4}
  Proposer <- MCProposer
  KeyOf <- MCKeyOf
  Form <- MCForm
  Limit = 1
  Window = 2
  LastDay = 2
  MaxLost = 1
INVARIANTS
  TypeOK
  QuotaHeld
  SurplusIsLost
PROPERTIES
  ProposalsAreDecided
  ImplementsDocket
CHECK_DEADLOCK FALSE
