SPECIFICATION FairSearchSpec
CONSTANTS
  k1 = k1 k2 = k2 s1 = s1 s2 = s2 r1 = r1 r2 = r2
  Keys <- MCKeys
  Callers <- MCCallers
  Wants <- MCWants
  Searches = {s1, s2}
  Repos = {r1, r2}
  SearchOf <- MCSearchOf
  RepoOf <- MCRepoOf
  Sizes = {1, 4}
  MaxRepos = 2
  MaxEntries = 3
  Slots = 1
INVARIANTS SharedFetches StreamIsHonest
PROPERTY SearchEnds
CHECK_DEADLOCK FALSE
