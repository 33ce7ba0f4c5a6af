CONSTANTS
    Bytes = {b1, b2}
    Codings <- McCodings
    MaxPacket = 2
    MaxXfer = 2
    UartRxDepth = 1
SPECIFICATION Spec
INVARIANT
    HostToUartLossless
