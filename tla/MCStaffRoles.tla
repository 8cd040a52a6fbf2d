--------------------------- MODULE MCStaffRoles ---------------------------
EXTENDS StaffRoles, TLC

CONSTANTS s1, s2, ann, bob, eve

\* People and sessions are interchangeable.
Symmetry == Permutations(People) \cup Permutations(Sessions)

=============================================================================
