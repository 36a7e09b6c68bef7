SPECIFICATION SdSpec
CONSTANTS
  Kind = {"silent", "busy", "read", "write"}
  Timeout = {0, 9}
  INIT_DELAY = 4
  BITS_TO_SEND = 2
  BITS_TO_READ = 2
  DEPTH = 2
  WORD = 8
  BLOCK = 2
  CRC_CYCLES = 17
  BlockCounts = {2}
  DataTimeouts = {0, 60}
  Periods = {2, 4, 8}
  AckMin = 2
  AckMax = 40
INVARIANTS AnswerMatchesCommand PulsesFindIdle TransferPerCommand WordsInOrder CompleteLeavesNothingOut
PROPERTIES RequestsEnd
