SPECIFICATION Spec
CONSTANTS
  p1 = p1
  p2 = p2
  k1 = k1
  k2 = k2
  k3 = k3
  d1 = d1
  d2 = d2
  c1 = c1
  c2 = c2
  Proc <- MCProc
  Key <- MCKey
  Data <- MCData
  Hash <- MCHash
  Chain <- MCChain
  FREE_OFF = FREE_OFF
  KeyLen <- MCKeyLen
  DatLen <- MCDatLen
  Blank = Blank
  None = None
  Pending = Pending
  MaxRec = 3
SYMMETRY Symmetry
INVARIANTS TypeOK RecordsPlaced KeysOnTheirChain
PROPERTIES NeighboursIntact 
