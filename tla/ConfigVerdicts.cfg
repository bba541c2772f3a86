CONSTANTS
  Lines <- MCLines
  Lower <- MCLower
  MaxLines = 5
  Number <- MCNumber
  Loopback <- MCLoopback
  Addresses <- MCAddresses
CHECK_DEADLOCK FALSE
SPECIFICATION Spec
INVARIANTS
  TypeOK
  FactsAsWritten
  OnePeerListener
  ExposureIsReviewed
