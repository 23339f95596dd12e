SPECIFICATION FairSpec
CONSTANTS
  Paragraphs <- ParagraphsMC
  MaxBytes = 5
  Gap = 1
  NoChat = NoChat
  Callers = {a, b}
  Chats = {c1, c2}
  Digests <- SentDigests
  Second = 2
  MaxLimiters = 1
  Attempts = 2
  Demands = {2}
  MaxRetryAfter = 1
  MaxAhead = 4
INVARIANTS ArrivesInOrderOnce
PROPERTIES TurnsAreSpaced CallsEnd
