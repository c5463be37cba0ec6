SPECIFICATION Spec
CONSTANTS
  a1 = a1
  a2 = a2
  u0 = u0
  u1 = u1
  u2 = u2
  h1 = h1
  h2 = h2
  api = api
  worker = worker
  NoAgent = NoAgent
  NoItem = NoItem
  NoTx = NoTx
  Agent = {a1, a2}
  Item = {1, 2}
  Handler = {h1}
  Reclaimer = {worker}
  Judge = {a2}
  MatchLimit = 1
  Kind <- MCDraftKind
  BuiltIn <- MCBuiltIn
  OwnerOf <- MCOwner
  Publisher <- MCPublisher
  HasAllTags <- MCTags
  Newcomer <- MCNewcomer
CHECK_DEADLOCK FALSE
INVARIANT ClaimedIsLeased
