\* Three calls; two subjects; at most three groups, and room for two
CONSTANTS
  NULL = NULL
  Requests <- MCRequests
  Responses <- MCResponses
  Passwd <- MCPasswd
  Group <- MCGroup
  NGroupsMax = 2
  MaxCalls = 3
SPECIFICATION Spec
INVARIANTS
  AdaptedRequest
  MappedAccounts
  FaultNeedsCause
\* the calls are bounded, and a fault stops the program
CHECK_DEADLOCK FALSE
