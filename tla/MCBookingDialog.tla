-------------------------- MODULE MCBookingDialog --------------------------
EXTENDS BookingDialog

CONSTANTS ann, bob, m1, m2, short, long

MCDuration == [sv \in Services |-> IF sv = short THEN 1 ELSE 2]

\* A day has three units; masters work in the first two, on days 0 and 1.
MCSchedules ==
    {[master |-> m, weekday |-> d, start_time |-> 0, end_time |-> 2] :
         m \in Masters, d \in 0 .. 1}

=============================================================================
