SPECIFICATION Spec
CONSTANTS
  g1 = g1
  x = x
  Jobs = {1}
  MaxVersion = 1
  Readings = {x}
  Axes = {a1, a2}
  Configs = {g1}
  Included <- Everything
  Workers = {w1, w2}
  ShardSize = 2
  None = None
  MaxCrashes = 0
  MaxOvertakes = 1
SYMMETRY Symmetry
INVARIANT
  CompletedIsPromotable
