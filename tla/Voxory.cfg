SPECIFICATION FairSpec
CONSTANTS
  Target = 1
  DeviceRates = {2}
  Formats = {TRUE}
  Silence = {TRUE, FALSE}
  MaxPacket = 2
  EndpointPackets = 2
  MaxCalls = 5
  Wanted = 2
  LengthSamples = 6
  KeepSamples = 1
INVARIANTS
  TypeOK
  WindowSeamless
  WindowBounded
  NothingUntranscribed
  ReleasedAtExit
PROPERTIES
  FailureEndsRun
  CollectEnds
\* main returns.
CHECK_DEADLOCK FALSE
