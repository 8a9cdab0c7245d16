SPECIFICATION Spec
CONSTANTS
    Rtsp = Rtsp
    App = App
    Ekeys = {}
    ConnIds = {}
    None = None
    SdpKey = SdpKey
    Serialised = TRUE
CHECK_DEADLOCK FALSE
INVARIANT
    PlayingListensAgain
