\* Three tracks; replies lost, late and mistaken.
SPECIFICATION FairSpec
CONSTANTS
    NumTracks = 3
    MaxLate = 1
    QueryFaults = {"lost", "late", "noise"}
INVARIANTS TypeOK RuleFollowed NoStrangeTrack
PROPERTY ResolutionEnds
