SPECIFICATION FairSpec
CONSTANTS
  Subs = {1}
  Fickle = {1}
  Events = {e1}
  Window = 1
  Lags = {0, 2}
  MaxAttempts = 2
  Buffer = 1
  SendOutcomes = {"ok", "unreachable", "error", "cut"}
  MaxStoreErrors = 1
  MaxRestarts = 1
INVARIANTS TypeOK SentWasReceived OnlyTheEligible OptOutIsPrompt CopiesAccounted
PROPERTIES AlertArrives ShutdownCompletes
