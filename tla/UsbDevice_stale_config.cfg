CONSTANTS
    NoSetup = NoSetup
    NoReply = NoReply
    StringIdManufacturer = 1
    StringIdProduct = 2
    SerialStrIndex = 0
    NumConfigurations = 1
    VbusBounces = FALSE
    HalIntMask <- WakeupIntMask
SPECIFICATION Spec
INVARIANT
    ConfiguredImpliesAddressed
