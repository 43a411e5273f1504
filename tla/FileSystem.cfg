CONSTANTS
    IMAGES <- MCImages
    MAXNODES = 5
    MAXNAMLEN = 255
    SECTOR = 2
    MAXSEC = 256
    W = 1024
    DEPTH = 3
    NDIR = 2
    PTR = 2
    DESC = 1
    NAMES <- MCNames
    OFFSETS = {0, 1, 2, 3, 4, 6, 8, 10, 12, 16, 20, 24, 28, 32, 33, 144, 160}
    SIZES <- MCSizes
SPECIFICATION Spec
INVARIANTS
    DeviceTable
    ReadsWindow
    FilesRead
    DirectoryAnswers
    MountsOwned
PROPERTIES
    SearchEnds
    BootMounts
CHECK_DEADLOCK FALSE
