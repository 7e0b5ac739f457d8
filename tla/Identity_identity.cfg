SPECIFICATION Spec
CONSTANTS
    Details = {ama, kofi}
    NoDetails = NoDetails
    NoImage = NoImage
    Images = {clear, other, blurred}
    Shows <- MCShows
    ama = ama
    kofi = kofi
    clear = clear
    other = other
    blurred = blurred
    MaxEdits = 1
    MaxUploads = 2
    MaxSessions = 2
    MaxJobs = 1
    MaxInvites = 1
    MaxFaults = 1
PROPERTIES
    VerifiedMatchesParty
    FailedIsCurrent
    
CHECK_DEADLOCK FALSE
