SPECIFICATION Spec
CONSTANTS
  c1 = c1
  c2 = c2
  g1 = g1
  Chats = {c1, c2}
  Flaky = {c2}
  Zone <- ZoneValue
  DigestHour <- HourValue
  Games = {g1}
  StartsAt <- StartValue
  DayLength = 5
  CatchUp = 2
  Parts = 2
  Fickle = {c1}
  Horizon = 9
  MaxIds = 2
  MaxFaults = 1
  MaxRestarts = 1
INVARIANTS CopiesAccounted SentMeansWhole OneDayPerGame NoDigestMissed
