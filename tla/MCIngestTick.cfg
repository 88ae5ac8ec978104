SPECIFICATION TickSpec
CONSTANTS
  SOURCES <- MCSources
  Minutes <- MCMinutes
  QuietTicks <- MCQuiet
  DEADLINE = 2
  Jobs = 2
  MaxTick = 6
  MaxFaults = 1
INVARIANTS TickSafe NoSourceStarves HeartbeatTellsKills SilenceIsTold
CHECK_DEADLOCK FALSE
