SPECIFICATION MCSpec
CONSTANTS
    Craft <- MCCraft
    Ais <- MCAis
    ServerMax = 2
    ServerAisMax = 3
    Quiet = 0
    Period = 1
    Jitter = 0
    OgnMaxAge = 1
    MaxWire = 1
    MaxAge = 1
    AisMaxAge = 3
INVARIANT ListedOnce
INVARIANT NoGhostOnMap
PROPERTY MapForgets
PROPERTY MapAgeHonest
