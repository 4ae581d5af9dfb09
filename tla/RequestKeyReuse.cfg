SPECIFICATION Spec
CONSTANTS
    Dates = {1}
    Groups = {g1}
    Fds = {5}
    MaxUsers = 1
    KeyBase = 8
    MaxLines = 2
INVARIANTS
    DatakeyIsUnique
