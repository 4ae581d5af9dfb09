SPECIFICATION FairSpec
CONSTANTS
    ExecTransact = ExecTransact
    ResponseTransact = ResponseTransact
    Programs = {ExecTransact, ResponseTransact}
    WithPort = {ResponseTransact}
    ProcessList <- ListBoth
    Managed = {ExecTransact, ResponseTransact}
    Foreign = Foreign
    NoProgram = NoProgram
    Pids = {1, 2}
    Scripts = {1}
    MaxFaults = 2
    MaxForeign = 1
INVARIANTS
    TypeOK
    RunningIsRegistered
PROPERTIES
    OnlyDeadRemoved
    ComesBack
    NodeComesBack
