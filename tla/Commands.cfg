SPECIFICATION FairSpec
CONSTANTS
  t1 = t1
  t9 = t9
  NoTeam = NoTeam
  Roster = {t1}
  Strangers = {t9}
  Sources = {"polling", "webhook"}
  Handlers = {1, 2}
  Poller = 1
  Uses <- UsesValue
  MaxUpdates = 2
  MaxTroubles = 2
CHECK_DEADLOCK FALSE
INVARIANTS HandledOncePerDelivery OnlyAskedSince ScreenAgrees
PROPERTIES AppliesWhatWasAsked UpdatesAreConfirmed
