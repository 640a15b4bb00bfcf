SPECIFICATION PipelineSpec
CONSTANTS
  d1 = d1  d2 = d2  d3 = d3
  p = p  q = q
  None = None
  Docs = {d1, d2, d3}
  Urls = {p, q}
  UrlOf <- MCUrlOf
  NumChunks <- MCNumChunks
  Capacity = 1
  Traffic <- MCTraffic
  BrowserOnly = TRUE
  MinBody = 1
  MaxBody = 2
INVARIANTS
  CapturedIffAnswered
  CapturedAreDecodable
PROPERTIES
  HeldPagesEnd
