SPECIFICATION FairPthrSpec
CONSTANTS
  Thread = {t1, t2}
  Main = Main
  NoThread = NoThread
  OnceThread = {1, 2, 3}
  Controls = 2
  SelfDetach = FALSE
INVARIANTS
  ShutdownIsClean
PROPERTIES
  ShutdownCompletes
  OnceForAll
CHECK_DEADLOCK FALSE
