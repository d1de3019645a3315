\* The main thread, two workers and a notifier; a condition can be destroyed
\* and set up again.
SPECIFICATION FairSpec
CONSTANTS
  Screen = Screen
  Worker = {w1, w2}
  Notifier = {n1}
  Frame = Frame
  Work = Work
  NoCond = NoCond
  Nobody = Nobody
  MaxObjects = 3
INVARIANTS
  NoWakeIsMissed
PROPERTIES
  PublishedIsTaken
