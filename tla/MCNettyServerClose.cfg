SPECIFICATION Spec
CONSTANT Channel = {c1}
PROPERTY CloseCloses
CHECK_DEADLOCK FALSE
