\* Two tracks of one slot; replies lost, late and mistaken.
SPECIFICATION FairSpec
CONSTANTS
    NumTracks = 2
    Slots = {0}
    MaxLate = 1
    QueryFaults = {"lost", "late", "noise"}
INVARIANTS TypeOK ScanSeesRecording NoPhantomRecording
PROPERTY ScanEnds
