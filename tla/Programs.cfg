SPECIFICATION Spec
INVARIANTS
  ConsumedInOrder
  ConsumedOnce
  NeighboursApart
  BoardExclusion
  CustomersExact
  NobodyForgotten
  OneBaton
  OnceVerdict
  TrylockVerdict
  CondVerdict
  DestroyedUnused
  EveryChildReleased
  MonitorReports
  RightSet
PROPERTY Terminates
CHECK_DEADLOCK FALSE
