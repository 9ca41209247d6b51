CONSTANTS
    first = first
    second = second
    File = File
    Fds = {"in", "ttyin", "ttyout", "fifoin", "fifoout"}
    Cap = 1
    Runs <- MCRuns
    Ofd <- MCOfd
    Scenes <- FifoScenes
SPECIFICATION Spec
CHECK_DEADLOCK FALSE
INVARIANT EofMeansDrained
