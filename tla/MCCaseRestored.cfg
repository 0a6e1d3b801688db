SPECIFICATION Spec
CONSTANTS
  service = service
  custody = custody
  advice = advice
  b1 = b1
  b2 = b2
  Dimensions = {service}
  Terms = {custody, advice}
  DimensionOf <- MCDimensionOf
  Tenants = {b1, b2}
  Dims <- MCDims
  StartFootprint <- MCStart
  Scopes <- MCScopes
  Footprints <- MCScopes
  MaxEvents = 3
  MaxRollbacks = 1
INVARIANTS
  OpenVerdictsAreCurrent
