SPECIFICATION ScreensLive
CONSTANTS
    Details = {ama, kofi}
    NoDetails = NoDetails
    NoImage = NoImage
    Images = {clear}
    Shows <- MCShows
    ama = ama
    kofi = kofi
    clear = clear
    Clients <- MCClients
    MaxEdits = 1
    MaxUploads = 3
    MaxSessions = 1
    MaxInvites = 1
    MaxFaults = 0
    MaxVisits = 2
    MaxJobs = 1
PROPERTIES
    ProceedsVerified
    VerifiedIsSeen
    WebIsDecided
CHECK_DEADLOCK FALSE
