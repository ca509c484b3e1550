SPECIFICATION Spec
CONSTANT MaxEvents = 2
PROPERTIES InstructionKept
CHECK_DEADLOCK FALSE
