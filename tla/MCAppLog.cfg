\* Seven lines through a ring of three: it wraps twice.
SPECIFICATION FairLogSpec
CONSTANTS
    tail = tail
    other = other
    Cap = 3
    ChanCap = 2
    Subscriber <- TwoSubscribers
    MaxWritten = 7
INVARIANT ChannelsInOrder
PROPERTY RingIsBoundedLog
PROPERTY WritesEnd
CHECK_DEADLOCK FALSE
