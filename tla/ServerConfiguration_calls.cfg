SPECIFICATION Spec
CONSTANT MaxEntities = 6
INVARIANT TypeOK
INVARIANT AttachedToLatest
CHECK_DEADLOCK FALSE
