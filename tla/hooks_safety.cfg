SPECIFICATION HooksSpec
CONSTANTS
  Invocations = {i1, i2, i3}
  Retries = 1
  MaxIds = 3
  MaxRestarts = 1
SYMMETRY Symmetry
INVARIANTS HooksTypeOK LockConsistent BoundedAttempts NoRegistrationHerd RequestMatchesRegistration GaugesBalance
PROPERTIES RecoveryUsesAnother OnlyRefusedIsDropped
CHECK_DEADLOCK FALSE
