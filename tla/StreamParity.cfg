CONSTANTS
  a = a
  aDash = aDash
  b = b
  one = one
  two = two
  word = word
  obj = obj
  null = null
  star = star
  deep = deep
  v = v
  w = w
  Keys <- MCKeys
  Values <- MCValues
  Size <- MCSize
  Obj = obj
  Null = null
  DocPaths <- MCDocPaths
  Texts <- MCTexts
  Updates <- MCUpdates
  Limits = {0, 1}
  DefaultLimit = 0
  MaxWrites = 2
  Num <- MCNum
  Numbers = {one, two}
  StrOrder <- MCStrOrder
  Like = {}
  Within = {}
  KeyOrder <- MCKeyOrder
  Splits <- MCSplits
  Star = star
  Vars = {v, w}
  Queries <- MCQueries
  Filters <- MCFilters
  Deep = deep
  Projections <- MCProjections
  MaxProjKeys = 3
  Characters <- MCCharacters
  Spellings <- MCSpellings
  CsvHeader <- MCCsvHeader
SPECIFICATION Spec
INVARIANT
  StreamParity
CHECK_DEADLOCK FALSE
