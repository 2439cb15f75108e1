SPECIFICATION LoopSpec
CONSTANTS
  Sigs = {s1, s2}
  MaxRounds = 3
  MaxNudges = 3
  MaxRepairs = 2
INVARIANT StubNeverReported
