CONSTANTS
    ann = ann
    bob = bob
    m1 = m1
    m2 = m2
    short = short
    long = long
    Unset = Unset
    Users = {ann, bob}
    Others = {bob}
    Masters = {m1}
    Services = {short, long}
    Duration <- MCDuration
    StartTimes = {4}
    DayLength = 3
    SlotStep = 1
    Schedules <- MCSchedules
    Days = {0, 1}
    TimeOffDays = {1}
    Moments = {0, 3}
    MaxBookings = 2
SPECIFICATION Spec
INVARIANT TypeOK
INVARIANT KeysPresent
INVARIANT SlotFitsSelections
INVARIANT NoSecondBooking
PROPERTY RefusedSlotIsGone
PROPERTY LedgerSpec
