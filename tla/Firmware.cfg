SPECIFICATION Spec
CONSTANTS
  Cells = 4
  Byte <- FewBytes
  Ints <- FewInts
  Sent <- BasisBytes
  MaxLen = 2
  IntMod = 64
  LongMod = 4096
  BUF = 4
  Calls <- SomeCalls
  Bitmap <- Bitmaps
  WaitTicks = 3
  CharTicks = 2
  TimeMod = 8
CHECK_DEADLOCK FALSE
INVARIANTS StringsAsInC ChecksumAsZlib PrintsAsWritten ScreenShowsPicture DevicesReady PanicIsHeard
PROPERTIES CallsReturn
