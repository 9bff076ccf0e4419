CONSTANTS
    d1 = d1
    d2 = d2
    Device <- TwoDevices
    MaxDevices = 1
    HasDisplay = TRUE
    Failures = TRUE
    MaxEpoch = 3
SPECIFICATION FairSpec
INVARIANTS
    PopupsInv
    OneWorkerPerEpisode
PROPERTIES
    EpisodeEndCloses
    PendingGetsPopup
    ImplementsReminder
