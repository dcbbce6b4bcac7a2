\* Rules, days and lists, a question at a time.
SPECIFICATION Spec
CONSTANTS
  Horizon = 20
  Months <- TwoYears
  Null = Null
  Midnight = 10
  Tile = 2
  RuleQuestions <- SomeRuleQuestions
  DayQuestions <- SomeDayQuestions
  ListQuestions <- SomeListQuestions
INVARIANTS
  ExpansionIsExact
  RunawayOnlyWhenBarren
  SlotsAreExact
  OfferedSlotIsBookable
  OverlapMissedOnlyAtMidnight
  RoomVerdictIsContainment
  TimeOffAgreesWithVerdict
  PagesPartition
  BothSidesRing
CHECK_DEADLOCK FALSE
