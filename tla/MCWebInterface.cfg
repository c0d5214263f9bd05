SPECIFICATION MCSpec
CONSTANTS
    Pages <- MCPages
    MaxVisits = 3
    MaxDrops = 1
    RadarCraft = {c1, c2}
    Silent = c2
    radarCutoff = 1
    MaxAlarms = 1
    MaxSpeechAlarms = 1
    MaxLag = 1
    MessageAges = {0, 2}
    Levels = 2
    MaxClicks = 2
    Toggles = {t1, t2}
    Fields = {f1}
    MaxRequests = 3
    ErrorTexts = {"e1", "e2"}
    MaxErrors = 3
    Reports <- MCReports
    CONF_WATCHLIST <- MCWatchList
    MAX_DATALIST = 2
    MaxReports = 3
INVARIANT OneOwner
INVARIANT ConnectStateHonest
INVARIANT NoGhosts
INVARIANT Armed
INVARIANT RadarSettles
INVARIANT FormIsTrue
INVARIANT MessagesWhole
INVARIANT NewestFirst
INVARIANT LabelHonest
PROPERTY ShownPageReconnects
PROPERTY LeftPageLetsGo
PROPERTY SentOnlyByUser
PROPERTY RadarForgets
CHECK_DEADLOCK FALSE
