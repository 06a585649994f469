SPECIFICATION PollSpec
CONSTANTS
  PeerCount = 2
  ChannelCount = 1
  MaxWaiting = 1
  MaxInbox = 1
  PollDay = 86400
  Timeouts <- SomeTimeouts
  MaxElapsed = 3
INVARIANT WaitsForItsTimeout
CHECK_DEADLOCK FALSE
