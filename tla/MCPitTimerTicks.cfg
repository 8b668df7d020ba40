SPECIFICATION HFairSpec
CONSTANTS
  PIT_NUM_COUNTERS = 2
  WordMod = 6
  CounterIds <- CheckedIds
  SleepTimes = {0, 2}
PROPERTY TicksTaken
