SPECIFICATION Spec
CONSTANTS
  live = live
  i1 = i1
  i2 = i2
  x1 = x1
  x2 = x2
  x3 = x3
  Live = live
  Importer = {i1, i2}
  Text = {x1, x2, x3}
  MaxVersions = 4
  MaxLoad = 5
  Nothing = Nothing
SYMMETRY Symmetries
INVARIANTS Announced
PROPERTIES LiveOwned NotOlder
