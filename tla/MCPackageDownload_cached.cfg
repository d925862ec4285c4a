CONSTANTS
  Repos <- MCRepos
  Base <- MCBase
  Format <- MCFormat
  Listing <- MCListing
  Local <- MCLocal
  Requests <- MCRequests
  Filters <- MCFilters
  Workers = {w1, w2}
  MaxAttempts = 2
  MaxUnavailableAttempts = 2
  MaxRefreshAttempts = 2
  MaxBuilds = 2
  MaxKills = 1
SPECIFICATION Spec
INVARIANT CacheHitIsSound
CHECK_DEADLOCK FALSE
