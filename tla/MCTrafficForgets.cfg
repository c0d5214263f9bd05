SPECIFICATION MCSpec
CONSTANTS
    Craft <- MCAircraft
    Ais = {}
    ServerMax = 4
    ServerAisMax = 4
    Quiet = 0
    Period = 2
    Jitter = 1
    OgnMaxAge = 1
    MaxWire = 1
    MaxAge = 2
    AisMaxAge = 4
PROPERTY ListForgets
