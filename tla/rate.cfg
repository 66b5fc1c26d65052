SPECIFICATION LimiterSpec
CONSTANTS
  Cost = 4
  Rate = 1
  Capacity = 9
  Second = 4
  MaxLag = 0
  LostLimit = 0
PROPERTIES
  RateHonoured
