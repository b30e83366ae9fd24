CONSTANTS
    Names = {"file", "link", "other"}
    Inodes = {1, 2, 3, 4}
    Modes = {"r", "w", "s"}
    TicksPerSecond = 4
    Procs = {"p", "q"}
    Somebody = "somebody"
    Scenes <- MCScenes
    MaxCalls <- MCMaxCalls
    MaxErrors = 1
SPECIFICATION Spec
INVARIANTS
    QuietReadsAreTrue
    AppendedIsKept
PROPERTIES
    ModesAddUp
    LinkTargetIsKept
CHECK_DEADLOCK FALSE
