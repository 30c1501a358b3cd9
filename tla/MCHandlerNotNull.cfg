SPECIFICATION ThreadsSpec
CONSTANTS
  Threads = {t1, t2}
  Handlers = {h1}
  DEFAULT = DEFAULT
  UNSET = UNSET
  MaxClients = 3
SYMMETRY ThreadSymmetry
INVARIANT NeverCallsNull
