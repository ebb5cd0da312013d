------------------------------- MODULE CronMap -------------------------------
(***************************************************************************)
(* The schedules of src/src/cron_events.c: a field of a specification is a   *)
(* range with a step, a map has for each field the set of its values (the    *)
(* bits of its bitmap).  Bits are made by shifts of an unsigned long, which   *)
(* has 32 bits on the targets and 64 on a hosted build: what is shifted past  *)
(* it is lost.                                                               *)
(***************************************************************************)
EXTENDS Integers, FiniteSets

CONSTANTS
    LongBits,        \* bits of an unsigned long
    MinutesPerHour,  \* 60 in the code
    HoursPerDay      \* 24 in the code

ASSUME CronMapAssumption ==
    LongBits \in Nat /\ MinutesPerHour \in 1..60 /\ HoursPerDay \in 1..24

Wildcard == 63

Field(start, end, step) == [rng_start |-> start, rng_end |-> end, step |-> step]

AnyTime == Field(Wildcard, 0, 0)

AllOf(bits) == 0 .. bits - 1

\* The loop sets its first bit whatever the end is.
field_spec_to_bitmap(f) ==
    LET step  == IF f.step = 0 THEN 1 ELSE f.step
        wild  == f.rng_start = Wildcard
        start == IF wild THEN 0 ELSE f.rng_start
        end   == IF wild THEN MinutesPerHour - 1 ELSE f.rng_end
    IN  IF wild /\ step = 1 THEN AllOf(64)
        ELSE {b \in {start} \cup (start .. end) : (b - start) % step = 0} \cap AllOf(LongBits)

\* A day of the week that is no wildcard wins over the day of the month.
map_init(spec) ==
    LET dow  == field_spec_to_bitmap(spec.day_of_week) \cap AllOf(16)
        days == field_spec_to_bitmap(spec.day_of_month) \cap AllOf(32)
        by_week == dow # AllOf(16) /\ dow # {}
    IN  [minutes |-> field_spec_to_bitmap(spec.minute),
         hours   |-> field_spec_to_bitmap(spec.hour) \cap AllOf(32),
         months  |-> field_spec_to_bitmap(spec.month) \cap AllOf(16),
         days    |-> IF by_week THEN {} ELSE days,
         days_of_week |-> IF ~by_week /\ days # {} THEN {} ELSE dow]

prioritize_day_of_week(spec) ==
    spec.day_of_week.rng_start # Wildcard \/ spec.day_of_month.rng_start = Wildcard

\* The mask of the test is shifted the same way.
time_match(tm, map) ==
    /\ tm.min \in map.minutes \cap AllOf(LongBits)
    /\ tm.hour \in map.hours /\ tm.mon \in map.months
    /\ tm.mday - 1 \in map.days \/ tm.wday \in map.days_of_week

\* The map of the end event: one minute of one hour of any day; hours are a uint8_t.
EndMap(tm, event_minutes) ==
    LET minute == tm.min + (event_minutes % MinutesPerHour)
        carry  == IF minute > MinutesPerHour - 1 THEN 1 ELSE 0
        hour   == ((tm.hour + (event_minutes \div MinutesPerHour) + carry) % 256) % HoursPerDay
    IN  [minutes |-> {minute - carry * MinutesPerHour} \cap AllOf(LongBits), hours |-> {hour},
         months |-> AllOf(16), days |-> AllOf(32), days_of_week |-> AllOf(16)]

=============================================================================
