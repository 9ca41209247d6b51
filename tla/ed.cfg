CONSTANTS
    Marks = {"a"}
    Commands <- MCCommands
    Answers <- MCAnswers
    Scenes <- MCScenes
SPECIFICATION Spec
CHECK_DEADLOCK FALSE
INVARIANTS MarksFollow GlobalTracks UndoReturns NoSilentLoss
