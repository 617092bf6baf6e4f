SPECIFICATION Spec
CONSTANTS
  p1 = p1
  p2 = p2
  p3 = p3
  p4 = p4
  Schedules <- SmallSchedules
  Initial <- OneProducer
  MaxTracked = 3
  MaxBlockNum = 10
  MaxConfirm = 9
  Honest = TRUE
  Restarts = TRUE
  Online <- Everyone
INVARIANTS
  TypeOK
  ConfirmedByQuorum
  IrreversibleBehindProposed
  CarriedScheduleAccepted
  HonestIsNotRefused
PROPERTIES
  ProposalStands
  NextIsPreferred
CHECK_DEADLOCK FALSE
