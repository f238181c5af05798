SPECIFICATION Spec
CONSTANT MaxBlocks = 4
CHECK_DEADLOCK FALSE
INVARIANTS OfferedIsFound AttestationStands
PROPERTY WaitReturns
