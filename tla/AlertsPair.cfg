SPECIFICATION FairSpec
CONSTANTS
  Subs = {1, 2}
  Fickle = {2}
  Events = {e1}
  Window = 1
  Lags = {0}
  MaxAttempts = 2
  Buffer = 1
  SendOutcomes = {"ok", "error"}
  MaxStoreErrors = 0
  MaxRestarts = 0
INVARIANTS SettledRowHeldOnce AttemptsBounded
PROPERTIES ImplementsLedger AlertArrives
