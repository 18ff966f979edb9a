SPECIFICATION DriversSpec
CONSTANTS
  Key = {"LShift", "RCtrl", "x"}
  ScanCode <- MCScanCode
  Extended = {"RCtrl"}
  Ascii = {"NUL", "r", "R", "x", "X", "DC2", "CAN"}
  NUL = "NUL"
  DC2 = "DC2"
  CAN = "CAN"
  normal <- MCnormal
  shifted <- MCshifted
  Capacity = 3
  VGA_WIDTH = 2
  VGA_HEIGHT = 3
  Char = {"a", " ", "nl"}
  Color = {"grey", "green"}
  Newline = "nl"
  Space = " "
  LightGrey = "grey"
  String <- MCString
INVARIANTS
  NoStuckModifier
  VgaTypeOK
  BlankAhead
PROPERTIES
  Answered
  ImplementsTypeahead
  ImplementsTeletype
