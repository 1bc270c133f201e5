SPECIFICATION SharedSpec
INVARIANT AnyProcessCanUse
CHECK_DEADLOCK FALSE
