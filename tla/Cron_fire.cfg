\* A one-shot and a recurring schedule, a crash, users' edits; either may be one
\* that cannot be deferred or scheduled.
CONSTANTS
  daily = daily
  once = once
  Jobs = {daily, once}
  OneShots = {once}
  Limit <- Limits
  MaxFires = 3
  MaxDefers = 1
  MaxEdits = 2
  MaxCrashes = 1
SPECIFICATION FairSpec
INVARIANTS TypeOK RunsAreCounted OneShotOnce ArmedAsEnabled
PROPERTY OneShotSettles
CHECK_DEADLOCK FALSE
