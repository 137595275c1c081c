\* Passwords whose ciphertexts arrive, and some that do not.
CONSTANTS
  Text = {"plain", "two", "in", "start", "edge", "long"}
  Byte = {0, 1, 2}
  NUL = 0
  Block = 2
  Cmd = 4
  Cipher <- MCCipher
  NoText = "none"
SPECIFICATION Spec
INVARIANTS TypeOK NoOtherPassword LostOnlyInTransit
PROPERTIES SendableAnswered
CHECK_DEADLOCK FALSE
