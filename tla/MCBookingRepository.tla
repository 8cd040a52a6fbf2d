------------------------ MODULE MCBookingRepository ------------------------
EXTENDS BookingRepository, TLC

CONSTANTS s1, s2, s3, w1, u1, u2, m1, m2, short, long

MCDuration == [sv \in Services |-> IF sv = short THEN 1 ELSE 2]

\* Sessions and clients are interchangeable; masters too where there are two.
Symmetry ==
    Permutations(Sessions) \cup Permutations(Users) \cup Permutations(Masters)

=============================================================================
