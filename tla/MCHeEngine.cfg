CONSTANTS
  a = a
  b = b
  short = short
  long = long
  obj = obj
  null = null
  Keys <- MCKeys
  Values <- MCValues
  Size <- MCSize
  Obj = obj
  Null = null
  DocPaths <- MCDocPaths
  Texts <- MCTexts
  Updates <- MCUpdates
  Limits = {0, 1}
  DefaultLimit = 0
  MaxWrites = 3
SPECIFICATION Spec
INVARIANTS
  TypeOK
  AncestorClosed
PROPERTIES
  WritesReadBack
  LeafUpdateMerges
  OnlyAddressedPathsChange
  RevisionTracksContent
  DedupFailsOnlyFromBelow
  CallsEditOneTree
