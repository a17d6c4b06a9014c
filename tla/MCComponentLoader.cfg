SPECIFICATION Spec
CONSTANT Styles = 1
INVARIANT NoTemplateNoScoping
CHECK_DEADLOCK FALSE
