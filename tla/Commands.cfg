\* The number of lines is bounded
CHECK_DEADLOCK FALSE
CONSTANTS
    Lines <- MCLines
    ReservedKeys <- MCReservedKeys
    TableCount = 2
    IntBits = 7
    MaxLines = 2
SPECIFICATION Spec
INVARIANTS NothingTypedIsLost TableAsTyped
PROPERTY UsageExact
