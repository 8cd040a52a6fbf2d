CONSTANTS
    s1 = s1
    s2 = s2
    ann = ann
    bob = bob
    eve = eve
    Nobody = Nobody
    People = {ann, bob, eve}
    Sessions = {s1, s2}
SYMMETRY Symmetry
SPECIFICATION Spec
INVARIANT TypeOK
INVARIANT MasterHasProfile
INVARIANT NoSecondProfile
INVARIANT RegisteredOnce
INVARIANT NoCircularWait
PROPERTY LastAdminKept
PROPERTY DemotionBlocksAlone
PROPERTY CommitAsIfAlone
