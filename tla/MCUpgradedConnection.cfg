SPECIFICATION Spec
CONSTANTS
  Byte <- MCByte
  Streams <- MCStreams
  MaxSent = 6
  MaxRead = 3
INVARIANTS
  TypeOK
  ServerSeesProtocol
  PeekDecides
PROPERTIES
  ImplementsByteStream
  EverythingIsServed
CHECK_DEADLOCK FALSE
