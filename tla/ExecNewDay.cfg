SPECIFICATION FairSpec
CONSTANTS
    Dates = {1, 2}
    Groups = {g1}
    Fold <- FoldDistinct
    THREAD_WAIT_COUNT = 1
    MaxLines = 1
    MaxStarts = 1
PROPERTIES
    NewFileGetsWorker
