SPECIFICATION StreamSpec
CONSTANTS
  Symbols <- SomeSymbols
  Wires <- SomeWires
  Printed <- Binary
  Links = {"s1", "s2"}
  BufSize = 8
  DmaSize = 11
  DataSize = 4
  MaxUnseen = 10
INVARIANT StreamTypeOK
INVARIANT LinesWhole
INVARIANT DataWhole
INVARIANT FramingKept
CHECK_DEADLOCK FALSE
