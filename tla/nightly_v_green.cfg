CONSTANTS
  MaxNights = 1
  MaxSlots = 1
  MaxDeaths = 1
  Manual = FALSE
SPECIFICATION NightSpec
INVARIANTS
  GreenMeansSuitePassed
