SPECIFICATION FairSpec
CONSTANTS
    thread_count = 2
    MAX_THREAD_QUE_SIZE = 1
    MaxUsers = 1
    Groups = {g1, g2}
    Fds = {c1}
    MaxRequests = 3
PROPERTIES
    QueuedIsDone
