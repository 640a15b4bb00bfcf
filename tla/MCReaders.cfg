SPECIFICATION ReadersSpec
CONSTANTS
  p = p  q = q
  Urls = {p, q}
  MaxRows = 5
  PageRows = 4
  SignBit = 8
  Limits = {1, 2, 15}
  TopK = 2
INVARIANTS
  WalkReadsOnce
  NoGhosts
  CardsShowOwnText
PROPERTY
  SearchSettles
