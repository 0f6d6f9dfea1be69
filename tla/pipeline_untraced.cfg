SPECIFICATION Spec
CONSTANT NULL = NULL
INVARIANT UnhandledErrorsAreTraceable
CHECK_DEADLOCK FALSE
