SPECIFICATION PushingSpec
CONSTANTS
    Rtsp = Rtsp
    App = App
    Ekeys = {k}
    ConnIds = {i1, i2}
    None = None
    SdpKey = SdpKey
    Serialised = TRUE
CHECK_DEADLOCK FALSE
INVARIANTS
    StoppedHasNoThreads
    PlayingListens
    VideoKeyCurrent
    StateAgrees
PROPERTY
    CallsReturn
