CONSTANTS
    u1 = u1
    m1 = m1
    m2 = m2
    cut = cut
    Users = {u1}
    Masters = {m1, m2}
    Services = {cut}
    Duration <- MCDuration
    StartTimes = {}
    DayLength = 8
    SlotStep = 2
    BookingTables <- MCBookingTables
    ScheduleTables <- MCScheduleTables
    TimeOffTables <- MCTimeOffTables
    Queries <- MCQueries
SPECIFICATION FairSpec
INVARIANT TypeOK
INVARIANT OfferedExactly
INVARIANT OfferedPassesCheck
PROPERTY Returns
CHECK_DEADLOCK FALSE
