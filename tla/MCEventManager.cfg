SPECIFICATION Spec
CONSTANTS
  MaxVertices = 3
  MaxBoots = 3
  BatchSize = 2
INVARIANTS
  TypeOK
  
  
  HandlersNeverRaise
  GapsOnlyFromStop
  AnnouncedOnce
PROPERTY StreamAppendOnly
CHECK_DEADLOCK FALSE
