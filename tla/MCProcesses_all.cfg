CONSTANTS
  k1 = k1  k2 = k2
  Command <- TwoCommands
  NoCommand = NoCommand
  Desktop = Desktop  Service = Service  NoMode = NoMode
  MaxActs = 3  MaxRecoveries = 1  MaxGenerations = 4
SPECIFICATION FairSpec
INVARIANTS DaemonIsConsistent UserIsObeyed DaemonAgrees
PROPERTIES StartsEnd CommandIsRun
CHECK_DEADLOCK FALSE
