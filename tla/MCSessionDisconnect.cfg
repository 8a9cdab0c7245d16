SPECIFICATION AudioSpec
CONSTANTS
    Rtsp = Rtsp
    App = App
    Ekeys = {}
    ConnIds = {}
    None = None
    SdpKey = SdpKey
    Serialised = FALSE
CHECK_DEADLOCK FALSE
PROPERTY
    DisconnectReturns
