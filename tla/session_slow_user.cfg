\* Session record, a user slower than the bridge, with crashes.
SPECIFICATION Spec
CONSTANTS
    Arrangements = {0}
    Sessions = {0, 1, 2}
    CountIns = {FALSE, TRUE}
    ClipScans = {FALSE, TRUE}
    MaxBacklog = 1
    Faults = {"crash"}
    BootRace = FALSE
    Pace = "bridge"
INVARIANTS RecordingClipFilmed IdleLiveStopsObs SessionInv
