SPECIFICATION Spec
CONSTANTS
  c1 = c1
  c2 = c2
  m1 = m1
  Msg = {m1}
  Critical = {}
  Channel = {c1}
  ChannelSets <- OneChannel
  Poller = {p1}
  Recovery = rec
  Token = {t1, t2}
  None = None
  PerDay <- OneADay
  ClaimTTL = 2
  MaxAttempts = 2
  Retention = 1
  DayLength = 2
  MaxDay = 1
  MaxStops = 0
  MaxFaults = 0
  MaxToggles = 1
  Timely = TRUE
INVARIANTS
  ConfirmedWasReceived
