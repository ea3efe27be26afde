SPECIFICATION Spec
CONSTANTS
  BlockSize = 64
  LengthSize = 8
  InputSize = 512
  SaltSize = 8
  UserLengths <- MCUserLengths
  WordLengths <- MCWordLengths
  Garbage = garbage
INVARIANTS TypeOK HashesPaddedMessage
CHECK_DEADLOCK FALSE
