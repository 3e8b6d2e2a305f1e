SPECIFICATION FairHooksSpec
CONSTANTS
  Invocations = {i1, i2}
  Retries = 1
  MaxIds = 3
  MaxRestarts = 1
PROPERTIES InvocationEnds
CHECK_DEADLOCK FALSE
