CONSTANTS
  Calendar <- MCCalendar
  Limits <- MCLimits
  Horizon = 36
  Expressions <- MCExpressions
  TicksPerMinute = 2
  StartTicks = {3}
  LastTick = 70
SPECIFICATION SchedulerSpec
INVARIANTS
  FieldsInRange
  RunsOnSchedule
  NoMinuteMissed
PROPERTIES
  OncePerMinute
CHECK_DEADLOCK FALSE
