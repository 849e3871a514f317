SPECIFICATION Spec
INVARIANT EveryMtdCaseChecked
CHECK_DEADLOCK FALSE
