CONSTANTS
  b1 = b1
  b2 = b2
  b3 = b3
  b4 = b4
  Parts = {"stream", "keyboard", "shell", "format", "interrupts"}
  BufSize = 2
  Bufs = {b1, b2, b3, b4}
  First = b1
  Null = Null
  Sizes = {1, 2, 3}
  MaxBytes = 6
  PlainKeys = {"a", "control", "escape"}
  ExtKeys = {"slash"}
  KeyLut <- SomeKeyLut
  ShiftKeyLut <- SomeShiftKeyLut
  MaxEvents = 5
SPECIFICATION AllSpec
INVARIANTS
  TypeOK ReadsInTurn KeysAsMeant LineAsSeen TextRight
PROPERTIES
  ChannelSpec KeyWakesReader InterruptsAnswered
\* Nobody has to press another key.
CHECK_DEADLOCK FALSE
