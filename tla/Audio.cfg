SPECIFICATION AudioSpec
CONSTANTS
  Width = 8
  ResetDiv = 5
  Divs = {0, 1, 7}
  Bits = 3
INVARIANTS SampleOnTime NeverTooSoon
PROPERTIES DutyFollowsSample PulsesSpread SamplesFlow
