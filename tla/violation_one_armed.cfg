\* Every reply comes, in time; one other notification comes in between.
SPECIFICATION Spec
CONSTANTS
    NumTracks = 2
    MaxLate = 1
    QueryFaults = {"noise"}
INVARIANT OneArmedTrackNamed
