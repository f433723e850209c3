CONSTANTS
  t1 = t1
  e1 = e1
  e2 = e2
  quit = quit
  tick = tick
  oneShot = oneShot
  Thread = {t1}
  Event = {e1, e2, quit}
  Quit = quit
  NoEvent = NoEvent
  EventTimer = {tick, oneShot}
  Duration <- Durations
  OneShot = {oneShot}
  MaxClock = 2
  MaxWritten = 2
  MaxReceived = 1
  kChunkSize = 3
  MaxBytes = 9
  PacketSize = {1, 2, 3}
  HeaderSize = 2
  MaxLength = 2
  MaxMessages = 1
  MaxPackets = 3
SPECIFICATION Spec
INVARIANT NoDeadlock
CHECK_DEADLOCK FALSE
