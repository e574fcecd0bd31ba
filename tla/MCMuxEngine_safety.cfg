SPECIFICATION LiveSpec
CONSTANTS
  Publisher = {p1, p2}
  Mux = {m1, m2}
  Main = main
  Mortal = {m1, m2}
  MaxEvents = 3
  MaxDeque = 2
  OldEvents = {0}
  LateSubscribe = TRUE
  CacheFails = TRUE
  NoMux = NoMux
INVARIANT TypeOK
INVARIANT OneBatch
INVARIANT Complete
INVARIANT Kept
PROPERTY UnloadEnds
PROPERTY OrderedBroadcast
\* All events published, the engine running or unloaded: nothing is left to do.
CHECK_DEADLOCK FALSE
