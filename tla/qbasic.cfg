SPECIFICATION SameSpec
CONSTANTS
  Name = {"I", "J", "K"}
  Text = {"1", "abcd", "    ", "?", "-"}
  Label = {"none", "L"}
  NoLabel = "none"
  Program <- MCEvery
  Reply <- MCReply
  FirstBytes <- MCFirstBytes
  MAX_LINES = 2
  MAX_VARS = 2
  MAX_FOR_STACK = 3
  INT_MAX = 3
  MaxOut = 4
  Length = 3
  Lines <- AllLines
INVARIANTS
  TypeOK
  VarsSound
  LoopsSound
  LoopOwnsItsStart
  RerunsAgree
  CountsInOrder
PROPERTIES
  VarsKeepType
  Terminates
  CountsThrough
