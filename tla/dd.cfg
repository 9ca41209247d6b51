CONSTANTS
    first = first
    second = second
    File = File
    Fds = {"in", "ttyin", "ttyout", "fifoin", "fifoout"}
    Cap = 1
    Runs <- MCRuns
    Ofd <- MCOfd
    Scenes <- MCScenes
SPECIFICATION Spec
CHECK_DEADLOCK FALSE
INVARIANTS TypeOK FlagsRestored BorrowedNonblocking NoStrayWakeup ZeroMeansCopied
PROPERTIES Cancellable
