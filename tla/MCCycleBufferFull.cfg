\* The same ring with callers that only check GetWriteSize() >= n, as they do.
SPECIFICATION Spec
CONSTANTS
    MAX_BUFFER_LEN = 4
    Byte = {b0, b1}
    MaxLen = 5
    ExactFill = TRUE
PROPERTY WriteKeepsData
