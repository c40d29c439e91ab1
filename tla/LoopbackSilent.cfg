SPECIFICATION LoopSpec
CONSTANTS
  Target = 2
  DeviceRates = {6}
  Formats = {TRUE}
  Silence = {TRUE, FALSE}
  Wanted = 3
  MaxPacket = 4
  EndpointPackets = 2
  MaxCalls = 2
INVARIANT
  OutputTracksTime
\* The bounds end it: the calls are used up and the endpoint is full.
CHECK_DEADLOCK FALSE
