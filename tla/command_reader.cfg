\* Commands, lines that are none and lines that are too long, until the shell exits.
CONSTANTS
    Byte = {1, 2, 3, 4, 10}
    Size = 6
    MaxLines = 3
    Bad = {2, 4}
    Streams <- AllStreams
    Commands <- GoodLines
SPECIFICATION FairSpec
INVARIANTS TypeOK
PROPERTIES ImplementsQueue HangupStops CommandsHandled
CHECK_DEADLOCK FALSE
