SPECIFICATION Spec
CONSTANTS
  TTY_BUF_SIZE = 4
  ROOM = 1
  LOW = 2
  STARTUP = 1
  Chars = {"a", "NL", "^U"}
  Termios <- Raw_Login_Other
  MaxRead = 2
  MaxWrite = 1
  MaxTyped = 3
INVARIANTS LinesCounted Transmitting
PROPERTIES ReaderServed WriterServed
