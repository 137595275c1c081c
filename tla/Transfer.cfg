\* Two receivers at one sender and a third at another, one fault.
CONSTANTS
  r1 = r1
  r2 = r2
  r3 = r3
  f1 = f1
  f2 = f2
  big = big
  Sender = {f1, f2}
  Receiver = {r1, r2, r3}
  Reaches <- SomeShare
  File = {big, gone}
  Present = {big}
  Blocks <- SmallBlocks
  Stack = {"intact", "garbled", "refused"}
  Garbage = garbage
  WrongName = wrongName
  NoFile = noFile
  NoReply = noReply
  Failure = failure
  MaxOpen = 2
  Lists <- UpToThreeNames
  MaxFaults = 1
SPECIFICATION Spec
INVARIANTS TypeOK UndisturbedIsFaithful LeaksOnlyByFaults
PROPERTIES LostOnlyInUse ImplementsFileCopy CallEnds
CHECK_DEADLOCK FALSE
