SPECIFICATION Spec
CONSTANT MaxAlpn = 1
INVARIANT NameAlwaysChecked
CHECK_DEADLOCK FALSE
