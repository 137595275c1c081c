\* Lines and texts of any length, reads and writes cut anywhere.
CONSTANTS
  Buf <- MCBuf
  Cmd <- MCCmd
  Greet = 2
  Prompt = 3
  Line = {1, 2, 6, 7}
  Cipher = {0, 3, 6}
  Short = {3, 4, 5}
  Notice = {0, 4, 7}
  Text = {0, 2, 3, 7}
  Room = 2
  MaxPartial = 1
SPECIFICATION Spec
INVARIANTS TypeOK InStep PromptUnderstood
PROPERTIES Answered ImplementsDialogue
CHECK_DEADLOCK FALSE
