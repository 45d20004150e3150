CONSTANTS
    BYTE = 2
    SEQ = 4
    Streams <- MCStreams
    FrameSizes = {3, 5}
    Writes <- MCWrites
SPECIFICATION Spec
INVARIANTS FramingExact WrittenInOrder 
PROPERTIES Drains
CHECK_DEADLOCK FALSE
