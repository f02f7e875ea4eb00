SPECIFICATION BrowserSpec
CONSTANTS
    Device = {d1, d2}
    Machine = {m1}
    None = None
    MaxSockets = 2
PROPERTIES
    DisconnectReleases
