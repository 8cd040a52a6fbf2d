------------------------- MODULE MCAvailableSlots -------------------------
EXTENDS AvailableSlots, FiniteSets

CONSTANTS u1, m1, m2, cut

\* A day of eight units; a unit is half the step of the slots.
MCDuration == [sv \in Services |-> 2]

Booking(i, m, from, to, st) ==
    [id |-> i, user |-> u1, master |-> m, starts_at |-> from, ends_at |-> to,
     status |-> st]

\* Up to two bookings around and within the hours of day 1 (units 8 to 15),
\* the night before included; or one that takes no time of master m1.
Spans == {<<a, b>> \in (6 .. 15) \X (7 .. 17) : b - a \in {1, 3}}

MCBookingTables ==
    LET confirmed == {Booking(1, m1, s[1], s[2], "confirmed") : s \in Spans}
        pending   == {Booking(2, m1, s[1], s[2], "pending") : s \in Spans}
        harmless  == {Booking(3, m1, 10, 13, "cancelled"),
                      Booking(3, m1, 10, 13, "completed"),
                      Booking(3, m2, 10, 13, "confirmed")}
    IN  {t \in {{a, b} : a \in confirmed, b \in pending \cup harmless} :
             NoOverlapIn(t)} \cup {{}} \cup {{h} : h \in harmless}

\* Day 1 is a day off, or has hours whose length is or is not a whole number
\* of steps.
MCScheduleTables ==
    {{}} \cup
    {{[master |-> m1, weekday |-> 1, start_time |-> a, end_time |-> b]} :
         a \in {1}, b \in {6, 7}}

MCTimeOffTables ==
    {{}} \cup {{[master |-> m1, date_from |-> 0, date_to |-> d]} : d \in {0, 1}}
         \cup {{[master |-> m2, date_from |-> 1, date_to |-> 1]}}

\* Services of one, two and three units; the call comes before the day or
\* in the middle of it.
MCQueries ==
    {[master |-> m1, day |-> 1, duration |-> d, now |-> n] :
         d \in {1, 2, 3}, n \in {5, 11}}

=============================================================================
