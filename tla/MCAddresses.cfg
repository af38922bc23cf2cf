CONSTANTS
  MaxLen = 32
  MaxHdrLen = 14
  Digit <- MCDigit
  Upper <- MCUpper
  Other = "G"
  NumOctets = 2
  MaxText = 5
  Nothing = Nothing
SPECIFICATION MCSpec
INVARIANTS
  WholeFields
  RolesOfMost
  FilterMeansOctets
  FollowMeansFilter
CHECK_DEADLOCK FALSE
