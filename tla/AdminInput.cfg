CONSTANTS
    s1 = s1
    s2 = s2
    ann = ann
    bob = bob
    m1 = m1
    m2 = m2
    Admins = {ann, bob}
    Masters = {m1, m2}
    Weekdays = {0}
    Sessions = {s1, s2}
    Updates <- MCUpdates
    Today <- MCToday
    InitHours <- MCInitHours
    MaxTimeOff = 1
    DayOff = DayOff
    Unset = Unset
    Keep = Keep
    Delete = Delete
SYMMETRY Symmetry
SPECIFICATION Spec
INVARIANT TypeOK
INVARIANT HoursInOrder
INVARIANT AppliedAsAsked
PROPERTY FreshHoursApply
PROPERTY RangeIsMeant
