SPECIFICATION MCSpec
CONSTANTS
  i1 = i1
  i2 = i2
  j1 = j1
  j2 = j2
  u1 = u1
  u2 = u2
  c1 = c1
  c2 = c2
  d1 = d1
  d2 = d2
  a1 = a1
  a2 = a2
  s1 = s1
  s2 = s2
  NoOne = NoOne
  Nobody = Nobody
  IcpRuns = {i1, i2}
  IcpJobs = {j1, j2}
  Canisters = {c1, c2}
  UserOf <- MCUserOf
  Deploys = {d1, d2}
  Apps = {a1, a2}
  Scans = {s1, s2}
  Engines = {"STATIC", "LINT"}
  Codes <- MCCodes
  MaxSteps = 2
  MaxTokens = 2
INVARIANTS OwnersAreUsers  ConflictNeedsRace MixedReleaseHasACause OneProjectWithoutOverlap 
PROPERTIES StepsStartFresh 
CHECK_DEADLOCK FALSE
