SPECIFICATION LiveSpec
CONSTANTS
  i1 = i1
  i2 = i2
  i3 = i3
  t1 = t1
  t2 = t2
  s1 = s1
  s2 = s2
  Item = {i1}
  LeaseId = {l1, l2}
  Sink = {s1, s2}
  SinkSets <- BothSinks
  NoLease = NoLease
  Topic = {t1, t2}
  TopicOf <- OwnTopic
  Priority <- SecondFirst
  AgeStep = 1
  ItemTTL = 3
  LeaseTTL = 1
  DeliveryTTL = 2
  ClaimTTL = 1
  Backoffs = {1}
  MaxAttempts = 2
  Retention = 2
  LeaseLimit = 1
  ClaimLimit = 2
  IndexModes = {FALSE}
  Legacy = FALSE
  EnqueueUntil = 1
  MaxTime = 5
PROPERTY
  EverythingSettles
