SPECIFICATION LooperSpec
CONSTANTS
  Width = 10
  Interval = {2, 5}
  NormPeriod = 5
  MaxPause = 2
  MaxAge = 20
PROPERTIES
  NotMissed
  FiresAgain
