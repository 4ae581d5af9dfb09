SPECIFICATION FairSpec
CONSTANTS
    Dates = {1, 2, 3}
    NodeAPI = NodeAPI
    KeyBase = 10
    MaxLines = 2
    MaxEvents = 3
    LoginKeys <- LoginKeysTwo
    MaxUsers = 1
    MaxFd = 1
    MaxSessions = 1
INVARIANTS
    TypeOK
    EventsWithoutGap
PROPERTIES
    EventsArrive
    HangUpIsServed
