\* Requests, texts of three characters, chunks of two, lists of three references
CONSTANTS
  NULL = NULL
  NIL = NIL
  ChunkSize = 2
  SmallRoom = 3
  Garbage <- MCGarbage
  Requests <- MCRequests
  Answers <- MCAnswers
SPECIFICATION Spec
INVARIANTS
  LocalsReleased
  OnlyStarvationFails
  RequestIsComplete
  MisuseNeedsCause
  DecodedIsSent
  TruncationNeverPermits
  OnlyAbandonedLost
PROPERTY DecodeEnds
\* a fault, or a binary without end, stops the program
CHECK_DEADLOCK FALSE
