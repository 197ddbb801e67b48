SPECIFICATION Spec
CONSTANTS
  Calls <- MCCalls
  Charges <- MCCharges
  MaxCredits = 3
  Mischief <- MCMischief
CHECK_DEADLOCK FALSE
INVARIANTS CallbacksAreTrue NeverOverdrawn SentIsTold
PROPERTIES CallsEnd
