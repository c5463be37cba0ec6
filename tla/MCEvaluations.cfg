SPECIFICATION FairSpec
CONSTANTS
  a1 = a1
  a2 = a2
  a3 = a3
  u1 = u1
  u2 = u2
  c1 = c1
  c2 = c2
  c3 = c3
  c4 = c4
  r0 = r0
  r1 = r1
  r2 = r2
  s1 = s1
  s2 = s2
  p1 = p1
  x1 = x1
  Agent = {a1, a2, a3}
  Creation = {c1, c2, c3, c4}
  Replacement = {r0, r1, r2}
  First = r0
  Wanted <- MCWanted
  OwnerOf <- MCOwnerOf
  Candidate <- MCCandidate
  Kind <- MCKind
  SourceRun <- MCSourceRun
  OtherRun = {x1}
  Seeder = {s1, s2, p1}
  Purge = {p1}
  Topics = 2
  MaxPerDay = 1
  Lifetime = 1
  Batch = 1
  LastDay = 2
  Families <- MCFamilies
INVARIANTS
  TypeOK
  DailyLimitHolds
  OffersFollowTheJudges
  DrawnTopicsAreUsable
PROPERTY ExpiredRunsGo
CHECK_DEADLOCK FALSE
