\* A full take and the next one named, or three begun; resolvers of earlier ones alive.
SPECIFICATION FairSpec
CONSTANT MaxGeneration = 3
INVARIANTS IInv LabelIsCurrent OwnLabelUnlessOvertaken
PROPERTIES FoundNameUsed FinalizeEnds
CHECK_DEADLOCK FALSE
