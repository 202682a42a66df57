\* no upset: nothing but the tier itself moves the counters
SPECIFICATION Spec
CONSTANTS
  Tiers = 2
  Ticks = 2
  Warmup = 1
  near = near
  far = far
  Followers <- TwoFollowers
  Rtt <- RoundTrips
  EmptyCommit = 3
  MaxUpsets = 0
INVARIANT EmptyTierFails
CHECK_DEADLOCK FALSE
