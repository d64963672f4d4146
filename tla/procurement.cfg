\* Two overlapping requests on one lot of three, two bids, two missions.
SPECIFICATION MCSpec
CONSTANTS
  None = None
  Workers = {w1, w2}
  Bids = {b1, b2}
  Missions = {m1, m2}
  Codes = {foundation}
  Lots = {l1, l2, l3}
  Lot = l1
  Amounts = {15}
  Prices = {75, 90}
  Gaps <- MCGaps
  MaxGain = 0
  Rates = {1050}
  Fees = {25}
  GlobalRates = {2050}
  Costs <- MCCosts
  Unmeasured = l3
  Surface0 <- MCSurface0
  Surfaces <- MCSurfaces
SYMMETRY Symmetry
INVARIANTS
  OneLockedInTurn
  MarginKeptInTurn
  GlobalChargedOnceInTurn
  DriftIsBounded
PROPERTIES
  ChargeIsWeighedInTurn
CHECK_DEADLOCK FALSE
