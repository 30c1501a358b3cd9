\* Texts of one and two characters, and a character whose first byte is missed
CONSTANTS
  NULL = NULL
  NIL = NIL
  ChunkSize = 2
  SmallRoom = 3
  Garbage <- MCGarbage
  Requests <- MCRequests
  Answers <- MCAnswers
SPECIFICATION Spec
INVARIANT TextsComeBack
CHECK_DEADLOCK FALSE
