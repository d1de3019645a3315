SPECIFICATION PthrSpec
CONSTANTS
  Thread = {t1}
  Main = Main
  NoThread = NoThread
  OnceThread = {1, 2, 3}
  Controls = 2
  SelfDetach = TRUE
INVARIANT
  RecordsAreUnjoined
CHECK_DEADLOCK FALSE
