SPECIFICATION MCSpec
CONSTANTS
    Bits <- MCBits
    GDigits = 2
    Args <- MCArgs
    Names <- MCNames
    Numbers <- MCNumbers
    Contents = {0, 1}
    Capacity = 2
    DsBuckets = 8
    MaxEntries = 2
    Objects = {1, 2, 3}
    ListSizes = {1, 2}
    ListTypes = {"INT8", "POINTER"}
    MaxList = 8
    QueueNodes = {1, 2, 3, 4}
    StaticLen = 2
    SizeMax = 7
    MaxPut = 6
    TextChars = {97, 65, 32, 44, 61, 13}
    Bytes = {0, 1, 37, 97, 200, 255}
    TextLen = 4
    PortWidth = 65536
INVARIANTS  MapAsFunction HeapExact  QueueAsSequence 
     ConfigAsWritten 
CHECK_DEADLOCK FALSE
