\* Both record buttons and count-in, from the boot sync on: threads
\* unsynchronised, all faults.
SPECIFICATION FairSpec
CONSTANTS
    Arrangements = {0, 1}
    Sessions = {0, 1}
    CountIns = {FALSE, TRUE}
    ClipScans = {FALSE}
    MaxBacklog = 1
    Faults = {"crash", "startRefused", "startLate", "stopFails", "stopUnseen"}
    BootRace = TRUE
    Pace = "nothing"
INVARIANTS IInv CountInHandover RecorderMatchesObs
PROPERTIES StartTimeOfThisTake DeferredStartResolves
