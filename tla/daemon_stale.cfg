SPECIFICATION DaemonSpec
CONSTANTS
  Tasks = {t1, t2, t3}
  MaxConnections = 2
  MaxOverload = 1
INVARIANTS OnlyRefusingSocketRemoved
CHECK_DEADLOCK FALSE
