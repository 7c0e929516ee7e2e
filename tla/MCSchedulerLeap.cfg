CONSTANTS
  Calendar <- MCCalendar
  Limits <- MCLimits
  Horizon = 36
  Expressions <- LeapDay
  TicksPerMinute = 2
  StartTicks = {3, 140}
  LastTick = 180
SPECIFICATION SchedulerSpec
INVARIANTS
  RunsOnSchedule
CHECK_DEADLOCK FALSE
