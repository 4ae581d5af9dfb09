SPECIFICATION FairSpec
CONSTANTS
    Dates = {1, 2}
    Groups = {g1}
    Fold <- FoldDistinct
    THREAD_WAIT_COUNT = 1
    MaxLines = 2
    MaxStarts = 2
INVARIANTS
    TypeOK
    OneWorkerPerFile
    HandledOnceInOrder
    NothingSkipped
    OncePerStart
    AnswersInOrder
PROPERTIES
    ImplementsLedger
    LinesGetHandled
