SPECIFICATION Spec
INVARIANT
  Agreement
CONSTANTS
  MaxTracked = 32
  Schedules <- MCSchedules
  Initial <- MCInitial
  Trunk <- MCSplitTrunk
  Turns <- MCSplitTurns
CHECK_DEADLOCK FALSE
