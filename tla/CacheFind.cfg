CONSTANTS
  MaxLength = 8
  Key <- MCKey
  Arrays <- MCArrays
SPECIFICATION FairSpec
INVARIANT FindsIt
PROPERTY Ends
CHECK_DEADLOCK FALSE
