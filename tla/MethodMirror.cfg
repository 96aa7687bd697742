SPECIFICATION Spec
CONSTANT Codes <- OneCode
CHECK_DEADLOCK FALSE
INVARIANT MirrorsExactly
