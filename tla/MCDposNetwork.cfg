SPECIFICATION Spec
INVARIANTS
  OneBlockPerNumber
  NoDoubleConfirm
CONSTANTS
  MaxTracked = 16
  Schedules <- MCSchedules
  Initial <- MCInitial
  Trunk <- MCTrunk
  Turns <- MCTurns
CHECK_DEADLOCK FALSE
