SPECIFICATION XacmlSpec
CONSTANTS
  Objects = {o1, o2, o3, o4, o5}
  NULL = NULL
  Fields = {"category", "content", "id", "datatype", "issuer", "resourceid", "message", "value"}
  MaxElements = 2
  MaxTexts = 1
  MaxLive = 4
SYMMETRY ObjectSymmetry
INVARIANT StringsFreedOnce
\* freeing twice stops the program
CHECK_DEADLOCK FALSE
