--------------------------- MODULE AvailableSlots ---------------------------
(***************************************************************************)
(* BookingRepository.get_available_slots: the start times offered to a     *)
(* client for a master, a day and the length of a service.  One action per *)
(* query and one per turn of the loop.                                     *)
(*                                                                         *)
(* The tables stay as they are while one call runs: what becomes of an     *)
(* offer when they change afterwards is the business of the overlap test   *)
(* of create_booking.                                                      *)
(***************************************************************************)
EXTENDS SlotRules

CONSTANTS
    BookingTables,   \* contents of `bookings' a call may find
    ScheduleTables,  \* ... of `master_schedules'
    TimeOffTables,   \* ... of `master_time_off'
    Queries          \* [master, day, duration, now]: a call and its time

ASSUME TablesAssumption ==
    /\ BookingTables \subseteq SUBSET Row
    /\ ScheduleTables \subseteq SUBSET ScheduleRow
    /\ \A tbl \in ScheduleTables : OneRowPerWeekday(tbl)
    /\ TimeOffTables \subseteq SUBSET TimeOffRow
    /\ Queries \subseteq [master : Masters, day : Nat,
                          duration : Nat \ {0}, now : Int]

VARIABLES
    bookings, schedules, time_off,  \* the tables
    query,                          \* the arguments, and datetime.now(tz)
    pc,
    cursor, end_of_day,             \* the loop of the function
    busy,                           \* busy intervals read before the loop
    slots                           \* what is offered

tables == <<bookings, schedules, time_off, query>>
vars == <<tables, pc, cursor, end_of_day, busy, slots>>

TypeOK ==
    /\ bookings \subseteq Row
    /\ schedules \subseteq ScheduleRow
    /\ time_off \subseteq TimeOffRow
    /\ query \in Queries
    /\ pc \in {"time_off", "schedule", "busy", "loop", "done"}
    /\ cursor \in Nat
    /\ end_of_day \in Nat
    /\ busy \subseteq Nat \X Nat
    /\ slots \subseteq Nat

Init ==
    /\ bookings \in BookingTables
    /\ schedules \in ScheduleTables
    /\ time_off \in TimeOffTables
    /\ query \in Queries
    /\ pc = "time_off"
    /\ cursor = 0
    /\ end_of_day = 0
    /\ busy = {}
    /\ slots = {}

-----------------------------------------------------------------------------
(* ScheduleRepository.get_working_hours                                    *)

InTimeOff(m, day) ==
    \E r \in time_off : r.master = m /\ r.date_from <= day /\ r.date_to >= day

\* The row of the weekday, if there is one.
DayRows(m, day) == {r \in schedules : r.master = m /\ r.weekday = day % 7}

\* The day falls into a time off: no slots.
OnTimeOff ==
    /\ pc = "time_off"
    /\ InTimeOff(query.master, query.day)
    /\ pc' = "done"
    /\ UNCHANGED <<tables, cursor, end_of_day, busy, slots>>

NotOnTimeOff ==
    /\ pc = "time_off"
    /\ ~InTimeOff(query.master, query.day)
    /\ pc' = "schedule"
    /\ UNCHANGED <<tables, cursor, end_of_day, busy, slots>>

\* No row for the weekday: a day off, no slots.
DayOff ==
    /\ pc = "schedule"
    /\ DayRows(query.master, query.day) = {}
    /\ pc' = "done"
    /\ UNCHANGED <<tables, cursor, end_of_day, busy, slots>>

\* datetime.combine of the day with the hours of its row.
WorkingDay ==
    /\ pc = "schedule"
    /\ \E r \in DayRows(query.master, query.day) :
           /\ cursor' = query.day * DayLength + r.start_time
           /\ end_of_day' = query.day * DayLength + r.end_time
    /\ pc' = "busy"
    /\ UNCHANGED <<tables, busy, slots>>

-----------------------------------------------------------------------------
\* Mutant: only bookings that start within the working hours are read.
ReadBusyStartingIn ==
    /\ pc = "busy"
    /\ busy' = {<<r.starts_at, r.ends_at>> :
                    r \in {b \in BusyRows(bookings, query.master, cursor, end_of_day) :
                               b.starts_at >= cursor}}
    /\ pc' = "loop"
    /\ UNCHANGED <<tables, cursor, end_of_day, slots>>

\* _get_busy_intervals over the working hours.
ReadBusy ==
    /\ pc = "busy"
    /\ busy' = {<<r.starts_at, r.ends_at>> :
                    r \in BusyRows(bookings, query.master, cursor, end_of_day)}
    /\ pc' = "loop"
    /\ UNCHANGED <<tables, cursor, end_of_day, slots>>

\* Mutant: a slot that ends with the working day is not offered.
FitsBefore(t) == t + query.duration < end_of_day

\* while cursor + duration <= end_of_day
Fits(t) == t + query.duration <= end_of_day

\* cursor > now and not self._overlaps(cursor, cursor + duration, busy)
Offer(t) ==
    /\ t > query.now
    /\ \A b \in busy : ~Overlaps(t, t + query.duration, b[1], b[2])

\* Mutant: the cursor moves on from the slots offered only.
TryNextStuck ==
    /\ pc = "loop"
    /\ Fits(cursor)
    /\ slots' = IF Offer(cursor) THEN slots \cup {cursor} ELSE slots
    /\ cursor' = IF Offer(cursor) THEN cursor + SlotStep ELSE cursor
    /\ UNCHANGED <<tables, pc, end_of_day, busy>>

\* Mutant: the cursor runs the wrong way.
TryNextBack ==
    /\ pc = "loop"
    /\ Fits(cursor)
    /\ slots' = IF Offer(cursor) THEN slots \cup {cursor} ELSE slots
    /\ cursor' = cursor - SlotStep
    /\ UNCHANGED <<tables, pc, end_of_day, busy>>

\* One turn of the loop.
TryNext ==
    /\ pc = "loop"
    /\ Fits(cursor)
    /\ slots' = IF Offer(cursor) THEN slots \cup {cursor} ELSE slots
    /\ cursor' = cursor + SlotStep
    /\ UNCHANGED <<tables, pc, end_of_day, busy>>

Return ==
    /\ pc = "loop"
    /\ ~Fits(cursor)
    /\ pc' = "done"
    /\ UNCHANGED <<tables, cursor, end_of_day, busy, slots>>

Next ==
    \/ OnTimeOff \/ NotOnTimeOff
    \/ DayOff \/ WorkingDay
    \/ ReadBusy \/ TryNext \/ Return

Spec == Init /\ [][Next]_vars

\* The call is ordinary code: it goes on until it returns.
FairSpec == Spec /\ WF_vars(Next)

-----------------------------------------------------------------------------
(* Properties                                                              *)

\* A start that can be booked, by the rows of the tables.
Bookable(t) == IsBookable(bookings, schedules, time_off, query, t)

\* What is offered in the end is every bookable start and no other, up to
\* the last one that ends with the working day.
OfferedExactly ==
    pc = "done" =>
        slots = {t \in 0 .. (query.day + 1) * DayLength : Bookable(t)}

\* At any moment of the loop, create_booking would accept each slot offered:
\* the busy intervals of the whole day, read once, judge a slot as the narrow
\* query of create_booking does.
OfferedPassesCheck ==
    \A t \in slots :
        ~SlotTaken(bookings, query.master, t, t + query.duration)

\* The call returns.
Returns == <>(pc = "done")

=============================================================================
