CONSTANTS
    APS = {1}
    ROM = {0, 1, 15}
    FIRMWARE <- MCFirmware
    GDT_SIZE = 9
    LAST_SEG = 12
SPECIFICATION Spec
INVARIANTS
    ReadyBeforeUse
    TssOwn
    StartedAsListed
    NoEarlyInterrupts
PROPERTY EveryCpuCounted
