SPECIFICATION MCSpec
CONSTANTS
  Printable = {"[", "]", "a", "b", "c", "m", "s", "p", "q", "n", "i", "x", "e"}
  Newline = "/"
  NUL = "NUL"
  MAX_CODE_LEN = 12
  MAX_LINE_LEN = 3
  SHOWN = 4
  Name = {"A", "B", "C", "7", "A AND B"}
  Text = {"", "7", "no"}
  INT_MAX = 3
  MAX_VARS = 2
  Meaning <- MCMeaning
INVARIANT
  RefusesOpenPrograms
