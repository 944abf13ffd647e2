\* Three takes into two folders, every step failing, commands at any moment.
SPECIFICATION PlacedSpec
CONSTANTS
    MaxTakes = 3
    Dirs = {d1, d2}
    FileFaults = {"giveUp", "noFile", "leftover", "empty", "stat", "move", "vanish", "unlink", "history", "lastTake", "pointer", "sameSecond", "crash"}
    PlacementFaults = {"abort", "duration", "remux"}
SYMMETRY DirSymmetry
CHECK_DEADLOCK FALSE
INVARIANTS PlacementTypeOK LastTakeIsLastInHistory HistoryNamesVideos PublishedOnce PointerHasHistory StaleOnlyAfterException PlacesTheTake
PROPERTY LatestTakeRead
