SPECIFICATION Spec
CONSTANTS
  Reading <- MCReading
  Threshold = 2
  TimeWait = 3
  NoteLen = 5
  Period = 12
  MaxStep = 2
INVARIANT TypeOK
INVARIANT SilentUnlessHit
PROPERTY NotesAreApart
PROPERTY NotesAreWhole
