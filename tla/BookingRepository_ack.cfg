CONSTANTS
    s1 = s1
    s2 = s2
    s3 = s3
    w1 = w1
    u1 = u1
    u2 = u2
    m1 = m1
    m2 = m2
    short = short
    long = long
    Nobody = Nobody
    NoRow = NoRow
    Sessions = {s1, s2}
    Writers = {}
    Users = {u1}
    Masters = {m1}
    Services = {short, long}
    Duration <- MCDuration
    StartTimes = {0, 1}
    OutsideStatuses = {"pending", "cancelled"}
    MaxBookings = 2
SPECIFICATION Spec
INVARIANT NotSavedIsTrue
