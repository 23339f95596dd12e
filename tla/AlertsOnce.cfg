SPECIFICATION Spec
CONSTANTS
  Subs = {1}
  Fickle = {}
  Events = {e1}
  Window = 1
  Lags = {0}
  MaxAttempts = 2
  Buffer = 1
  SendOutcomes = {"ok"}
  MaxStoreErrors = 0
  MaxRestarts = 0

INVARIANT DeliveredOnce
