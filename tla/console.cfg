SPECIFICATION ConsoleSpec
CONSTANTS
  Printable = {"a", "e", " "}
  Blank = " "
  NUL = "NUL"
  BUF_SZ = 4
  Command <- MCCommand
  EchoOffset = 2
  VGA_WIDTH = 3
  VGA_HEIGHT = 3
  Newline = "nl"
  BackspaceChar = "bs"
  Color = {"grey", "green"}
  LightGrey = "grey"
  Green = "green"
  PROMPT <- MCPROMPT
  Words <- MCWords
  AppScreen <- MCAppScreen
  TssBase = 19088743
  GdtBase = 1048576
INVARIANTS
  TypeOK
  RunsWhatWasTyped
  EchoEnds
  ShowsLine
  NoFault
  SegmentsInPlace
CHECK_DEADLOCK FALSE
