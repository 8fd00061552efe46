CONSTANTS
    Frequencies <- MCFrequencies
SPECIFICATION PitSpec
INVARIANT CountIsCounterValue
CHECK_DEADLOCK FALSE
