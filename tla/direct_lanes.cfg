SPECIFICATION Spec
CONSTANTS
  c1 = c1
  c2 = c2
  m1 = m1
  m2 = m2
  Msg = {m1, m2}
  Critical = {}
  Channel = {c1}
  ChannelSets <- OneChannel
  Poller = {p1, p2}
  Recovery = rec
  Token = {t1, t2, t3}
  None = None
  PerDay <- OneADay
  ClaimTTL = 1
  MaxAttempts = 1
  Retention = 1
  DayLength = 1
  MaxDay = 3
  MaxStops = 0
  MaxFaults = 0
  MaxToggles = 0
  Timely = TRUE
INVARIANTS
  LaneFence
  QuotaExact
SYMMETRY Actors
