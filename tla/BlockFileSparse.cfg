SPECIFICATION Spec
CONSTANTS
    Byte = {1, 2}
    Buffers <- MCBuffers
    MaxOffset = 4
    MaxRead = 3
    BlockSize = 1
    MaxExtentSize = 6
    MaxExtents = 2
    Sizes = {5}
    Cuts = {0, 1, 2, 3, 4, 5}
PROPERTIES ImplementsSparseFile
CHECK_DEADLOCK FALSE
