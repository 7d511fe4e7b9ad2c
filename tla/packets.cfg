SPECIFICATION Spec
CONSTANTS
  Frames <- AllFrames
  PortFlags <- Ports
  Protos <- AllProtos
  HostFlags <- Hosts
  PortMod = 65536
INVARIANTS  FilterIsConjunction
CHECK_DEADLOCK FALSE
