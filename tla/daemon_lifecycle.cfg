SPECIFICATION FairDaemonSpec
CONSTANTS
  Tasks = {t1, t2, t3}
  MaxConnections = 2
  MaxOverload = 1
INVARIANTS DaemonTypeOK PermitsBalance ReadyMeansAccepting NoHookAfterDrain SocketsBeforeRegistration
PROPERTY ShutdownCompletes
CHECK_DEADLOCK FALSE
