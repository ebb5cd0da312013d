SPECIFICATION Spec

CONSTANTS
  Radix = 4
  W = 16
  WordSize = 2
  B = 8
  Margin = 2
  Thousand = 10
  Kibi = 16
  LongBits = 64
  MinutesPerHour = 60
  HoursPerDay = 24

INVARIANT CodesAgree
INVARIANT NumbersAreClose
INVARIANT TextAgrees
INVARIANT SchedulesAgree
INVARIANT BuffersAgree

\* A call ends with its result.
CHECK_DEADLOCK FALSE
