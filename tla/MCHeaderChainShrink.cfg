SPECIFICATION Spec
CONSTANTS
  p1 = p1
  p2 = p2
  p3 = p3
  p4 = p4
  Schedules <- ShrinkingSchedules
  Initial <- OneProducer
  MaxTracked = 14
  MaxBlockNum = 13
  MaxConfirm = 12
  Honest = TRUE
  Restarts = FALSE
  Online <- WithoutP4
CHECK_DEADLOCK FALSE
PROPERTIES NextIsPreferred
