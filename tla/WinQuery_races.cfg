SPECIFICATION Spec
CONSTANTS
  Values <- MCValues
  Length <- MCLength
  Empty = ""
  Missing = "missing"
  Garbage = "garbage"
  Argument = "argument"
  Initial = 3
INVARIANTS
PROPERTIES
  EveryQueryReturns
  ImplementsValueQuery
