SPECIFICATION MCSpec
CONSTANTS
  Printable <- MCPrintable
  Blank = " "
  NUL = "NUL"
  BUF_SZ = 6
  DigitOf <- MCDigitOf
  Plus = "+"
  Minus = "-"
  Times = "*"
  Slash = "/"
  ExitLine <- MCExitLine
  Top = 128
  Weight = {1, 2, 4, 8, 16, 32, 64, 128}
  Reading <- MCReading
INVARIANTS
  TypeOK
  LeftToRight
  Verdict
PROPERTY
  Answers
