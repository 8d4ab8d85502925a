\* A ring of 4 bytes, every write and read of 0..5 bytes, never filled exactly.
SPECIFICATION Spec
CONSTANTS
    MAX_BUFFER_LEN = 4
    Byte = {b0, b1}
    MaxLen = 5
    ExactFill = FALSE
INVARIANTS TypeOK EmptyAtHeader
PROPERTY ImplementsFifo
