CONSTANTS
    QUEUE_SIZE = 5
    Items <- MCItems
    RINGBUF_SIZE = 4
    HEADER_SIZE = 2
    Chars <- MCChars
    Blocks <- MCBlocks
    Sizes <- MCSizes
SPECIFICATION BuffersSpec
INVARIANTS  ClosedForm RingTypeOK
PROPERTIES ImplementsBoundedFifo ImplementsByteStream
