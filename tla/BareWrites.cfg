CONSTANTS
  x = x
  y = y
  one = one
  two = two
  Conns = {c1, c2}
  NoOne = noone
  Entries = {x, y}
  Values = {one, two}
  Null = null
  Texts <- MCTexts
  Updates <- MCUpdates
  MaxCalls = 3
SPECIFICATION Spec
INVARIANT
  CallsAreAtomic
CHECK_DEADLOCK FALSE
