SPECIFICATION XacmlSpec
CONSTANTS
  Objects = {o1, o2, o3, o4, o5}
  NULL = NULL
  Fields = {"category", "content", "id", "datatype", "issuer", "resourceid", "message", "value"}
  MaxElements = 2
  MaxTexts = 1
  MaxLive = 4
SYMMETRY ObjectSymmetry
INVARIANTS
  OwnedOnce ObjectsDeletedOnce NothingLeaks
  UTypeOK ErrorLeavesNothing ResponseOwnsAll
PROPERTY IsDisciplined
\* freeing twice stops the program
CHECK_DEADLOCK FALSE
