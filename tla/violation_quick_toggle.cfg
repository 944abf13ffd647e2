\* Session record on and off before the worker has started OBS.
SPECIFICATION Spec
CONSTANTS
    Arrangements = {0}
    Sessions = {0, 1}
    CountIns = {FALSE}
    ClipScans = {FALSE}
    MaxBacklog = 2
    Faults = {}
    BootRace = FALSE
    Pace = "listener"
INVARIANT IdleLiveStopsObs
