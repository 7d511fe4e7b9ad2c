SPECIFICATION Spec
CONSTANTS
  Events <- FiveEvents
  Variants <- AllVariants
  H = 2
  MaxSize = 3
  NsPerUs = 10
  Now = 9
  WritesFail = TRUE
  Workers <- TwoWorkers
  Lines <- TwoLines
  BufferSize = 3
  Commands <- AllCommands
  Loops <- TwoWorkers
  Main = "w1"
  MaxEvents = 3
  IntMax = 7
  LinkedFiles <- SomeLinked
  ElfCuts <- ManyCuts
  Containers <- SomeContainers
  FlxCuts <- FewCuts
  HeaderSize = 36
INVARIANTS
  ReplayReturnsRecorded
  LinesWhole
  CloseReportsLoss
  RecordingKeepsUp
  
  ParsesWhatWasWritten
  FileIsSafe
CHECK_DEADLOCK FALSE
