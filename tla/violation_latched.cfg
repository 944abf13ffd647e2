\* Arrangement record off and on again under session record.
SPECIFICATION Spec
CONSTANTS
    Arrangements = {0, 1}
    Sessions = {0, 1}
    CountIns = {FALSE}
    ClipScans = {FALSE}
    MaxBacklog = 1
    Faults = {}
    BootRace = FALSE
    Pace = "bridge"
INVARIANT ArrangementFilmed
