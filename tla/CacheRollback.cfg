CONSTANTS
  a = a
  b = b
  long = long
  obj = obj
  null = null
  other = other
  Keys <- MCKeys
  Values <- MCValues
  Size <- MCSize
  Obj = obj
  Null = null
  DocPaths <- MCDocPaths
  Texts <- MCTexts
  Updates <- MCUpdates
  Limits = {0}
  DefaultLimit = 0
  MaxWrites = 2
  CacheSize = 2
  Others = {}
SPECIFICATION CacheSpec
INVARIANT
  CacheCoherent
