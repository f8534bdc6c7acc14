SPECIFICATION Spec
CONSTANTS
    LastDate = 47166
    Seconds <- Operands
INVARIANTS CalendarKept MinutesKept OrderKept
CHECK_DEADLOCK FALSE
