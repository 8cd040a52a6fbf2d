---------------------------- MODULE MCReminders ----------------------------
EXTENDS Reminders

CONSTANTS b1, w1, w2

\* With an offset of one the reminder is due at 0: the booking is made before
\* that, or too late, and the scheduler may look when it is past.
MCStartsAt == [b \in Bookings |-> 1]

MCMoments == {-1, 0, 1}

=============================================================================
