SPECIFICATION UserSpec
CONSTANTS
  HEAP_SIZE = 32
  Header = 4
  Align = 2
  Requests = {0, 1, 4, 9}
  Bytes = {0, 1}
  Junk = Junk
  FILE_BUFFER_SIZE = 2
  SIZE_MAX = 255
  Modes = {"r", "r+", "w", "a", "stdout"}
  Whences = {"SEEK_SET", "SEEK_CUR", "SEEK_END"}
  OldFile <- MCOldFile
  Amounts = {1, 3}
  MaxLen = 3
  MaxFails = 1
  SIZE = 5
  Chars = {1, 200}
  Counts = {0, 1, 2, 3}
  Numbers <- MCNumbers
  Commands = {ls, ps}
  Empty = Empty
  MAX_HISTORY = 3
  MaxEntered = 6
  MAX_ARGS = 3
  MaxText = 5
  Dirs = {"d1", "d2"}
  PATH <- MCPATH
  MaxLines = 2
  Listings <- MCListings
  MAX_FILES = 4
  FILE_HEIGHT = 3
  TopEdge = 4
  ListHeight = 8
  MaxWheel = 2
  Digits = {"0", "1", "."}
  Operators = {"+", "/"}
  DISPLAY_SIZE = 3
  ErrorWidth = 2
  MaxTerm = 3
INVARIANTS
  HeapSound
  FileRight
  StringsRight
  ShellRight
  AppsRight
PROPERTY CallsReturn
CHECK_DEADLOCK FALSE
