CONSTANTS
    reader = reader
    other = other
    sender = sender
    Free = Free
    Boxes = {"spool", "mbox", "folder"}
    Ids = {1, 2, 3}
    Spool = "spool"
    Mbox = "mbox"
    SaveTo = {"folder"}
    FileTo = {"mbox"}
    Clients <- MCClients
    Readers <- MCReaders
    Senders <- MCSenders
    Mail <- MCMail
    Scenes <- MCScenes
SPECIFICATION Spec
CHECK_DEADLOCK FALSE
INVARIANTS TypeOK NothingLost DeletedStaysDeleted NoDuplicates CurrentIsVisible
PROPERTIES ReadStaysRead
