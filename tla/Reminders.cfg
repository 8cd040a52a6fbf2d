CONSTANTS
    b1 = b1
    w1 = w1
    w2 = w2
    NoTask = NoTask
    Bookings = {b1}
    StartsAt <- MCStartsAt
    Offset = 1
    Workers = {w1, w2}
    MaxRetries = 3
    Moments <- MCMoments
    MaxRestarts = 1
SPECIFICATION FairSpec
INVARIANT TypeOK
INVARIANT OneTaskPerKick
INVARIANT NoSecondReminder
INVARIANT NeverForgotten
PROPERTY CancelledStaysQuiet
PROPERTY ReminderComes
PROPERTY PromiseSpec
CHECK_DEADLOCK FALSE
