\* The bridge moves on to another folder, and the first take there yields no file.
SPECIFICATION PlacedSpec
CONSTANTS
    MaxTakes = 2
    Dirs = {d1, d2}
    FileFaults = {"noFile", "crash"}
    PlacementFaults = {}
CHECK_DEADLOCK FALSE
PROPERTY NeverThePreviousTake
