CONSTANTS
  Sections = {s1, s2}
  None = None
  MaxEdits = 2
  MaxMishaps = 1
SPECIFICATION FairSpec
PROPERTY ManualKept
PROPERTY ComesBackUnlessLost
PROPERTY GoesOff
