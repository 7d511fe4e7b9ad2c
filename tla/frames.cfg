SPECIFICATION Spec
CONSTANTS
  Streams <- AllStreams
  Modes <- Both
  SOF = 170
  EOF = 85
  NL = 10
  CR = 13
  MaxFrameSize = 1
  ReadSize = 3
INVARIANTS
  ChunkingIrrelevant
  FramesNotOverwritten
CHECK_DEADLOCK FALSE
