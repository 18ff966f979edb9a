SPECIFICATION Spec
CONSTANTS
  Name = {"I", "J"}
  Text = {"1", "abcd", "    ", "?", "-"}
  Label = {"none", "L"}
  NoLabel = "none"
  Program <- MCProgram
  Reply <- MCReply
  FirstBytes <- MCFirstBytes
  MAX_LINES = 3
  MAX_VARS = 2
  MAX_FOR_STACK = 3
  INT_MAX = 3
  MaxOut = 4
  Length = 3
  Lines <- NumberedLines
PROPERTY
  GotoIsTaken
