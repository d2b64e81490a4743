\* Lines that fit a buffer of four bytes and lines that do not, two a call.
CONSTANTS
    Byte = {1, 2, 3, 10}
    Size = 4
    MaxEvents = 2
    MaxLines = 3
    MaxLength = 4
    Streams <- AllStreams
SPECIFICATION FairSpec
INVARIANTS TypeOK DiscardKeepsLines
PROPERTIES ImplementsQueue AllHandedOut
CHECK_DEADLOCK FALSE
