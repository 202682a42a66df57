\* Two tiers of three intervals, the first a warm-up; one upset of the counters.
SPECIFICATION Spec
CONSTANTS
  Tiers = 2
  Ticks = 3
  Warmup = 1
  near = near
  far = far
  Followers <- TwoFollowers
  Rtt <- RoundTrips
  EmptyCommit = 3
  MaxUpsets = 1
INVARIANTS
  TypeOK
  RowsAreTheTicks
  CutTickIsSeen
  PassMeansTouched
  MismatchIsReal
\* the sweep stops at its end
CHECK_DEADLOCK FALSE
