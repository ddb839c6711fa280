SPECIFICATION Spec
CONSTANTS
  Points = {p1}
  Searchers = {s1}
  MaxOps = 3
  NULL = NULL
PROPERTIES LoggerStartsEmpty
