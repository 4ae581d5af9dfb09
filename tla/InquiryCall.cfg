SPECIFICATION Spec
CONSTANTS
    thread_count = 2
    MAX_THREAD_QUE_SIZE = 2
    MaxUsers = 2
    Groups = {g1, g2}
    Fds = {c1, c2}
    MaxRequests = 3
INVARIANTS
    TypeOK
    RingIntact
    NothingLost
    
    AnswerToClient
SYMMETRY Symmetry
