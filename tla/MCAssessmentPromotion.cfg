SPECIFICATION PromotionSpec
CONSTANTS
  g1 = g1  g2 = g2
  x = x
  a1 = a1
  Jobs = {1}
  MaxVersion = 2
  Readings = {x}
  Axes = {a1, a2}
  Configs = {g1, g2}
  Included <- OnlyFirst
  Workers = {w1, w2}
  Promoters = {p}
  ShardSize = 2
  None = None
  MaxCrashes = 0
  MaxOvertakes = 1
CONSTRAINT ProcessOrPromote
SYMMETRY Symmetry
INVARIANTS
  PromotionTypeOK
  ResultIsOfItsContent
  CompletedIsScored
  PromotionIsOfItsContent
  HandoffIsOfPromoted
PROPERTIES
  CompletedIsFinal
