\* Arrangement record only, up to three callbacks behind, with crashes.
SPECIFICATION FairSpec
CONSTANTS
    Arrangements = {0, 1}
    Sessions = {0}
    CountIns = {FALSE, TRUE}
    ClipScans = {FALSE}
    MaxBacklog = 3
    Faults = {"crash"}
    BootRace = FALSE
    Pace = "nothing"
INVARIANT SettledMatchesLive
PROPERTIES FreshStartTime ArrangementEventuallyFilmed CopiesSwitch ImplementsSwitch
