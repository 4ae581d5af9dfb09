SPECIFICATION Spec
CONSTANTS
    Dates = {1, 2}
    Groups = {g1, g2}
    Fds = {5, 6}
    MaxUsers = 2
    KeyBase = 4
    MaxLines = 2
INVARIANTS
    TypeOK
    UserTableExact
    KeysUnique
    FileKeysIncrease
    KeyDateNeverAhead
    AnsweredIsQueued
PROPERTIES
    CounterNeverBack
SYMMETRY GroupSymmetry
