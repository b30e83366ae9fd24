CONSTANTS
    Proc = {"parent", "child"}
    Region = {"map_sem", "map_file"}
    NumPages = 4
    PageLen = 3
    HeaderLen = 1
    SizeLen = 1
    SemLen = 2
    Lengths = {0, 1, 2, 3, 4}
    MaxWrites = 1
    MaxKills = 1
SPECIFICATION Spec
INVARIANTS
    PrintsWhatWasRead
PROPERTIES
    BothEnd
    UnmapsItsOwn
CHECK_DEADLOCK FALSE
