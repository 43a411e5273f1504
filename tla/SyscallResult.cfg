CONSTANTS
    WIDTH = 3
    HEIGHT = 2
    CHARS = {"x", "y"}
    NL = "nl"
    BLANK = "blank"
    DIGIT = "0"
    KEYS = 1
    FILES <- MCFiles
    PAGE = 2
    PAGES = 5
    HALF = 32
    BUF = 100
    UNDEF <- MCUndef
    MAX_OPEN_FILES = 4
    TABLE = 1000
    BUFFERS <- MCBuffers
    CALLS = 1
SPECIFICATION Spec
INVARIANT ResultReturned
