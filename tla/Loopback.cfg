SPECIFICATION LoopSpec
CONSTANTS
  Target = 2
  DeviceRates = {1, 2, 3, 6}
  Formats = {TRUE, FALSE}
  Silence = {TRUE, FALSE}
  Wanted = 3
  MaxPacket = 4
  EndpointPackets = 2
  MaxCalls = 2
INVARIANTS
  LoopTypeOK
  WindowExact
  ResamplerExact
\* The bounds end it: the calls are used up and the endpoint is full.
CHECK_DEADLOCK FALSE
