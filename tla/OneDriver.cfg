SPECIFICATION ConsumerSpec
CONSTANTS
  Sessions = {s1, s2}
  Groups = {motor}
  Motor = motor
  Validity = 1
  Ahead = 1
  MaxSent = 2
  MaxClock = 1
  MaxTarget = 2
  MaxOthers = 1
INVARIANT OneDriver
CHECK_DEADLOCK FALSE
