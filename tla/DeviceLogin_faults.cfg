SPECIFICATION Spec
CONSTANTS
  p1 = p1 p2 = p2 q1 = q1 q2 = q2 alice = alice bob = bob
  Procs = {p1, p2}
  Pages = {q1, q2}
  Users = {alice, bob}
  PageUser <- OfPage
  DiskUser = alice
  MaxAttempts = 3
  MaxVerifyAttempts = 3
  Strikes = 2
  ReplayTicks = 4
  Starts <- DeviceAndOther
INVARIANTS LoginInvariant NeverStrandedByRetry
PROPERTIES EveryCommandComesBack
CHECK_DEADLOCK FALSE
