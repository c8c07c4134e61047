SPECIFICATION TailSpec
CONSTANTS
  v1 = v1 v2 = v2 c1 = c1 c2 = c2
  Views = {v1, v2}
  MaxSends = 1
  Steers = {c1, c2}
  Repl = {c1}
  Casts <- Together
  Ends = {"processed", "gate_blocked"}
  Turns = 2
  MaxEvents = 2
  MaxOutcomes = 2
  QueueCap = 1
  MaxPolls = 1
  MaxAttempts = 2
  Lossy = TRUE
INVARIANTS TailInvariant SteerTellsTheTruth
PROPERTIES TailSettles
CHECK_DEADLOCK FALSE
