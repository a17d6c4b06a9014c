SPECIFICATION Spec
CONSTANT Channel = {c1}
INVARIANT SessionIsReleased
CHECK_DEADLOCK FALSE
