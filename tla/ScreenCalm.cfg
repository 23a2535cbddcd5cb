SPECIFICATION Spec
CONSTANTS
  MaxAttempts = 2
  MaxConfirms = 2
INVARIANTS
  AtMostOnePayment
  DroppedIsNotSent
  FormFollowsPayment
CHECK_DEADLOCK FALSE
