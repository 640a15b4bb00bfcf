SPECIFICATION Spec
CONSTANTS
  d1 = d1  d2 = d2  d3 = d3  d4 = d4
  p = p  q = q
  None = None
  Docs = {d1, d2, d3, d4}
  Urls = {p, q}
  UrlOf <- MCUrlOf
  NumChunks <- MCNumChunks
  Capacity = 2
INVARIANTS
  TypeOK
  DuplicatesOnlyByRace
  LastLoadComplete
  NoOldVersionReturns
  PageIsWhole
PROPERTY
  EveryDocumentEnds
