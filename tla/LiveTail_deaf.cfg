SPECIFICATION TailSpec
CONSTANTS
  v1 = v1 v2 = v2 c1 = c1 c2 = c2
  Views = {v1}
  MaxSends = 1
  Steers = {}
  Repl = {}
  Casts <- OneView
  Ends = {"processed", "gate_blocked"}
  Turns = 1
  MaxEvents = 1
  MaxOutcomes = 1
  QueueCap = 64
  MaxPolls = 1
  MaxAttempts = 2
  Lossy = FALSE
PROPERTY LiveEventsAppear
CHECK_DEADLOCK FALSE
