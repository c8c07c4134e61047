SPECIFICATION Spec
CONSTANTS
  p1 = p1 p2 = p2 alice = alice bob = bob w1 = w1 w2 = w2 w3 = w3 w4 = w4
  z1 = z1 z2 = z2 z3 = z3 n1 = n1 n2 = n2 None = None Torn = Torn
  Procs = {p1, p2}
  Accounts = {alice, bob}
  Workspaces = {w1, w2, w3, w4}
  Zombies = {z1, z2, z3}
  Names = {n1, n2}
  NameOf <- TwoNames
  FirstServer <- Served
  FirstFile <- Left
  Starts <- Pairs
  MaxAttempts = 2
INVARIANTS CliInvariant ExitCodesAreTrue
PROPERTIES ImplementsLifecycle CommandEnds
CHECK_DEADLOCK FALSE
