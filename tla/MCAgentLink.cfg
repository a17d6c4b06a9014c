\* A message that is answered; one whose answer the client cannot decode; one
\* whose answer cannot be encoded; one the server cannot decode; one that
\* cannot be encoded.
SPECIFICATION Spec
CONSTANTS
  Size = {100, 65527, 65533, 65534, 65536}
  MaxMessages = 3
INVARIANT InOrder
PROPERTIES ImplementsEcho FittingIsAnswered
CHECK_DEADLOCK FALSE
