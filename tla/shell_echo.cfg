SPECIFICATION Spec
CONSTANTS
  Printable = {"a", "e", " "}
  Blank = " "
  NUL = "NUL"
  BUF_SZ = 5
  Command <- MCCommand
  EchoOffset = 2
PROPERTY
  EchoesItsLine
CHECK_DEADLOCK FALSE
