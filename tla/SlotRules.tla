----------------------------- MODULE SlotRules -----------------------------
(***************************************************************************)
(* The working hours of the masters, and when a start can be booked: what  *)
(* AvailableSlots shows get_available_slots to return, and what the        *)
(* booking dialog therefore shows to a client.                             *)
(*                                                                         *)
(* Time is counted in units from midnight of day 0, a Monday, in the       *)
(* timezone of the salon; day d is the DayLength units from d * DayLength. *)
(***************************************************************************)
EXTENDS BookingRows

CONSTANTS
    DayLength,       \* units of time in a day
    SlotStep         \* slot_step_minutes

\* slot_step_minutes is taken from the environment as it is: the loop of
\* get_available_slots ends only because it is positive.
ASSUME SlotStepAssumption == SlotStep \in Nat \ {0}

ASSUME DayLengthAssumption == DayLength \in Nat \ {0}

\* Rows of `master_schedules' and `master_time_off'.
ScheduleRow == [master : Masters, weekday : 0 .. 6,
                start_time : 0 .. DayLength - 1,
                end_time   : 0 .. DayLength - 1]

TimeOffRow == [master : Masters, date_from : Nat, date_to : Nat]

\* uq_schedule_master_weekday
OneRowPerWeekday(schedules) ==
    \A r1, r2 \in schedules :
        r1.master = r2.master /\ r1.weekday = r2.weekday => r1 = r2

\* A start on the grid of the hours of the day, that ends with them at the
\* latest.
InHours(schedules, master, day, duration, t) ==
    \E r \in schedules :
        LET open  == day * DayLength + r.start_time
            close == day * DayLength + r.end_time
        IN  /\ r.master = master
            /\ r.weekday = day % 7
            /\ \E k \in 0 .. t : t = open + k * SlotStep
            /\ t + duration <= close

\* Mutant: a booking hides the slot of its own start only.
IsBookableUnlessStarted(bookings, schedules, time_off, query, t) ==
    /\ \A r \in time_off :
           r.master = query.master => query.day \notin r.date_from .. r.date_to
    /\ InHours(schedules, query.master, query.day, query.duration, t)
    /\ t > query.now
    /\ \A b \in bookings :
           /\ b.master = query.master
           /\ b.status \in {"pending", "confirmed"}
           => b.starts_at # t

\* A start within the hours of a day that is in no time off, in the future,
\* and whose whole length is touched by no active booking of the master.
IsBookable(bookings, schedules, time_off, query, t) ==
    /\ \A r \in time_off :
           r.master = query.master => query.day \notin r.date_from .. r.date_to
    /\ InHours(schedules, query.master, query.day, query.duration, t)
    /\ t > query.now
    /\ \A b \in bookings :
           /\ b.master = query.master
           /\ b.status \in {"pending", "confirmed"}
           => t + query.duration <= b.starts_at \/ b.ends_at <= t

=============================================================================
