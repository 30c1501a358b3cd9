SPECIFICATION UtilSpec
CONSTANTS
  \* base64
  Bytes <- SomeBytes
  MaxBytes = 7
  LineSizes <- SomeLineSizes
  DefaultLineSize = 8
  Foreign <- NotInTable
  MaxForeign = 1
  \* buffer
  Octets = {b0, b1}
  Unset = Unset
  InitialSize = 2
  MaxSize = 3
  MaxWrite = 3
  MaxLength = 5
  \* list
  Nodes = {n1, n2, n3, n4}
  Elements = {e1, e2}
  NULL = NULL
  Indices <- SomeIndices
INVARIANTS RoundTrip LinesAreFull InBounds IsOneChain NeverTouchesDeadNode
PROPERTIES IsByteQueue IsElementList
\* everything has been decoded; a crash stops the program
CHECK_DEADLOCK FALSE
