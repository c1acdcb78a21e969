SPECIFICATION Spec
CONSTANTS
  i1 = i1
  i2 = i2
  i3 = i3
  t1 = t1
  t2 = t2
  s1 = s1
  s2 = s2
  Item = {i1, i2, i3}
  LeaseId = {l1, l2}
  Sink = {s1}
  SinkSets <- OneSink
  NoLease = NoLease
  Topic = {t1, t2}
  TopicOf <- PairAndOne
  Priority <- SecondFirst
  AgeStep = 1
  ItemTTL = 2
  LeaseTTL = 1
  DeliveryTTL = 2
  ClaimTTL = 1
  Backoffs = {1}
  MaxAttempts = 1
  Retention = 3
  LeaseLimit = 1
  ClaimLimit = 1
  IndexModes = {TRUE, FALSE}
  Legacy = FALSE
  EnqueueUntil = 1
  MaxTime = 5
INVARIANTS
  DeliveryFence
  TopicNotSplit
PROPERTIES
  ImplementsQueue
SYMMETRY Leases
