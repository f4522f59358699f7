SPECIFICATION Spec
CONSTANTS
  a = a  b = b  c = c
  Ids = {a, b, c}
  Facts <- MCFacts
  MaxTriples = 2
INVARIANTS TypeOK CleanLoadMaps
