CONSTANTS
    Bytes = {b1, b2}
    Codings <- McCodingsNine
    MaxPacket = 1
    MaxXfer = 2
    UartRxDepth = 1
SPECIFICATION Spec
INVARIANT
    UartTracksAckedCoding
