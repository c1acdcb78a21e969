SPECIFICATION LiveSpec
CONSTANTS
  c1 = c1
  c2 = c2
  m1 = m1
  Msg = {m1}
  Critical = {}
  Channel = {c1, c2}
  ChannelSets <- BothChannels
  Poller = {p1}
  Recovery = rec
  Token = {t1, t2}
  None = None
  PerDay <- OneADay
  ClaimTTL = 2
  MaxAttempts = 3
  Retention = 1
  DayLength = 1
  MaxDay = 1
  MaxStops = 1
  MaxFaults = 1
  MaxToggles = 1
  Timely = TRUE
PROPERTIES
  NoResend
  EveryAdmissionCompletes
