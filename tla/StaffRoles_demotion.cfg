CONSTANTS
    s1 = s1
    s2 = s2
    ann = ann
    bob = bob
    eve = eve
    Nobody = Nobody
    People = {ann, bob}
    Sessions = {s1, s2}
SPECIFICATION Spec
PROPERTY DemotionBlocks
