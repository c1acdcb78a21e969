SPECIFICATION Spec
CONSTANTS
  c1 = c1
  c2 = c2
  m1 = m1
  Msg = {m1}
  Critical = {m1}
  Channel = {c1, c2}
  ChannelSets <- BothChannels
  Poller = {p1}
  Recovery = rec
  Token = {t1, t2, t3}
  None = None
  PerDay <- NoQuota
  ClaimTTL = 1
  MaxAttempts = 2
  Retention = 1
  DayLength = 1
  MaxDay = 2
  MaxStops = 0
  MaxFaults = 1
  MaxToggles = 1
  Timely = FALSE
INVARIANTS
  ClaimIsExclusive
PROPERTIES
  KeepsPromise
SYMMETRY Tokens
