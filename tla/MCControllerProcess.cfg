SPECIFICATION ProcessSpec
CONSTANTS
  MaxConns = 2
  MaxPackets = 2
  MaxRestarts = 1
  MaxRounds = 2
CONSTRAINT ShortQueue
INVARIANTS
  PassedCheckSawWork
  NoDeadDatapath
CHECK_DEADLOCK FALSE
