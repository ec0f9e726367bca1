CONSTANTS
  MaxRepeat = 2
  Budget = 3
  Avoid <- Miscounted
SPECIFICATION Listening
INVARIANTS TypeOK NeverCrashes ScopeTracks
PROPERTIES OwnNodes OneEach Walked

