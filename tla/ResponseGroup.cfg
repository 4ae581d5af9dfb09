SPECIFICATION Spec
CONSTANTS
    g1 = g1
    g2 = g2
    n1 = n1
    n2 = n2
    Dates = {1}
    Groups = {g1, g2}
    Files <- FilesOneDay
    All = All
    NoGroup = NoGroup
    Names = {n1, n2}
    NoName = NoName
    KeyBase = 10
    MaxLines = 2
    MaxResponses = 2
    DataKey <- Keys
    Service <- Names1
    Logins <- LoginsAll
    MaxUsers = 2
    MaxFd = 2
    MaxSessions = 2
INVARIANTS
    GroupOfSession
