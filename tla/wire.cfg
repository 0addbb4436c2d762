\* The server's messages to one reader: four, of one byte or too long for the buffer.
\* The connection holds six bytes, so a long message is sent in parts and two short ones at once.
SPECIFICATION Spec
CONSTANTS
    BufSize = 8
    Lengths = {1, 7}
    Capacity = 6
    MaxMessages = 4
INVARIANTS
    NothingInvented
    LostOnlyByMerging
PROPERTIES
    ServerGoesOn
CHECK_DEADLOCK FALSE
