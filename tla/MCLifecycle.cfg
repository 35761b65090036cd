SPECIFICATION Spec
CONSTANTS
    t1 = t1
    c1 = c1
    c2 = c2
    NumGates = 3
    Planning = 1
    Execution = 2
    Release = 3
    Tasks <- MCTasks
    Callers <- MCCallers
    Bridgers <- MCBridgers
INVARIANTS
    SequenceUnlessOvertaken
    DoneIsCheckpointed
    ArchivedIsFinished
PROPERTY
    CompletionsAreChecked
