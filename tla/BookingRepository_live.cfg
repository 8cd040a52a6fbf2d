CONSTANTS
    s1 = s1
    s2 = s2
    s3 = s3
    w1 = w1
    u1 = u1
    u2 = u2
    m1 = m1
    m2 = m2
    short = short
    long = long
    Nobody = Nobody
    NoRow = NoRow
    Sessions = {s1, s2, s3}
    Writers = {}
    Users = {u1}
    Masters = {m1}
    Services = {long}
    Duration <- MCDuration
    StartTimes = {0}
    OutsideStatuses = {"pending", "cancelled"}
    MaxBookings = 1
SPECIFICATION FairSpec
INVARIANT CheckStaysTrue
INVARIANT WaitEnds
PROPERTY EveryUpdateAnswered
