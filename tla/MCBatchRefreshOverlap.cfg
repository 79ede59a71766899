SPECIFICATION ViewSpec
CONSTANTS
  Runs = {a, b}
  MaxVersion = 2
  MaxMishaps = 1
INVARIANT OneInsertServed
