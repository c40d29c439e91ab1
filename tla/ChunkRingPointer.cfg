SPECIFICATION Spec
CONSTANTS
  Slots = 2
  ChunkSize = 1
  MaxChunks = 4
PROPERTY
  PointerValidOnReturn
