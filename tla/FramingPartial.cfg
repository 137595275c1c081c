\* A write that is cut short.
CONSTANTS
  Buf <- MCBuf
  Cmd <- MCCmd
  Greet = 2
  Prompt = 3
  Line = {1, 2, 6, 7}
  Cipher = {0, 3, 6}
  Short = {3, 4, 5}
  Notice = {0, 4, 7}
  Text = {0, 2, 3, 7}
  Room = 2
  MaxPartial = 1
SPECIFICATION Spec
PROPERTIES SplitAnswerFinished
CHECK_DEADLOCK FALSE
