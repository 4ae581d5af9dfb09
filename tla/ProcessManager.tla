--------------------------- MODULE ProcessManager ---------------------------
(***************************************************************************)
(* Supervision: src/src/manage/ProcessManager.c, the process table in the  *)
(* shared memory with RegistProcess and RemoveProcess                      *)
(* (src/src/lib/ft_common.c), and the start and end of the servers         *)
(* (InitServer and interrupt), which use it without a lock.                *)
(*                                                                         *)
(* The manager goes through its list every ten seconds and starts, in the  *)
(* background, what has no entry or an entry whose process is gone; it     *)
(* does not wait for the start.  The Node event process is not in the      *)
(* table; whether to start it is decided from its file.                    *)
(*                                                                         *)
(* Process numbers are reused.  Time is only the order of the steps.       *)
(***************************************************************************)
EXTENDS Integers, Sequences, FiniteSets

CONSTANTS
    Programs,       \* the servers: entries of the process table
    WithPort,       \* those that open their server socket before they register
    ProcessList,    \* the list of process.dat, as a sequence of programs
    Managed,        \* the programs with is_manage 'Y'
    Foreign,        \* any other program of the machine
    NoProgram,      \* of a free process number
    Pids,           \* process numbers
    Scripts,        \* bound: runs of start_NodeAPI.sh at a time
    MaxFaults,      \* bound: processes that end, entries that are cleared
    MaxForeign      \* bound: foreign processes at a time

ASSUME ProgramAssumption ==
    /\ WithPort \subseteq Programs /\ Managed \subseteq Programs
    /\ ProcessList \in Seq(Programs)
    /\ Foreign \notin Programs /\ NoProgram \notin Programs \cup {Foreign}
ASSUME NumberAssumption ==
    Pids \subseteq Nat \ {0} /\ {MaxFaults, MaxForeign} \subseteq Nat

VARIABLES
    process_info,   \* mdb->process.process_info: the pid in each entry
    proc,           \* the processes of the machine
    manager,        \* ProcessManager: where it is in its round
    nodes,          \* Node event processes, by the script that started them
    script,         \* where each run of start_NodeAPI.sh is
    event_file,     \* the event file of today: whether it exists, its age in seconds
    late,           \* intTime() > 1000
    faults,         \* so far
    lapse           \* history: programs whose entry was cleared by hand or taken by a second start

table == <<process_info, proc, lapse>>
event == <<nodes, script, event_file, late>>

vars == <<table, manager, event, faults>>

NoProcess == [program |-> NoProgram, pc |-> "none"]

Init ==
    /\ process_info = [p \in Programs |-> 0]
    /\ proc = [q \in Pids |-> NoProcess]
    /\ manager = [pc |-> "down", i |-> 1]
    /\ nodes = {}
    /\ script = [s \in Scripts |-> "none"]
    /\ event_file = [exists |-> FALSE, age |-> 0]
    /\ late = FALSE
    /\ faults = 0
    /\ lapse = {}

Free     == {q \in Pids : proc[q].program = NoProgram}
Of(p)    == {q \in Pids : proc[q].program = p}
Running(p) == {q \in Of(p) : proc[q].pc = "run"}

----------------------------------------------------------------------------
(* The manager's start and end, and ProcessCheck *)

\* The list is read, and the first round begins.
SettingProcess ==
    /\ manager.pc = "down"
    /\ manager' = [pc |-> "check", i |-> 1]
    /\ UNCHANGED <<table, event, faults>>

\* The manager ends, in the middle of a round or between two; nobody restarts it.
ManagerEnds ==
    /\ manager.pc # "down"
    /\ manager' = [pc |-> "down", i |-> 1]
    /\ UNCHANGED <<table, event, faults>>

Listed == ProcessList[manager.i]

NextEntry == [pc |-> "check", i |-> manager.i + 1]

\* The next program of the list, its pid read for the first time
ReadEntry ==
    /\ manager.pc = "check" /\ manager.i <= Len(ProcessList)
    /\ manager' = CASE Listed \notin Managed      -> NextEntry
                    [] process_info[Listed] = 0   -> [manager EXCEPT !.pc = "run"]
                    [] OTHER                      -> [manager EXCEPT !.pc = "getsid"]
    /\ UNCHANGED <<table, event, faults>>

\* Mistake: only the manager's own session is known.
NeverAlive(q) == q = 0

\* Mistake: an entry is enough.
AlwaysAlive(q) == TRUE

\* getsid(q) is not negative; getsid(0) is the manager's own session.
Alive(q) == q = 0 \/ q \notin Free

\* The entry is read again and its process looked for.
CheckAlive ==
    /\ manager.pc = "getsid"
    /\ manager' = IF Alive(process_info[Listed]) THEN NextEntry ELSE [manager EXCEPT !.pc = "remove"]
    /\ UNCHANGED <<table, event, faults>>

\* Mistake: the entry is marked, not cleared.
MarkDead ==
    /\ manager.pc = "remove"
    /\ process_info' = [process_info EXCEPT ![Listed] = -1]
    /\ manager' = [manager EXCEPT !.pc = "run"]
    /\ UNCHANGED <<proc, lapse, event, faults>>

\* RemoveProcess of a process that is gone
RemoveDead ==
    /\ manager.pc = "remove"
    /\ process_info' = [process_info EXCEPT ![Listed] = 0]
    /\ manager' = [manager EXCEPT !.pc = "run"]
    /\ UNCHANGED <<proc, lapse, event, faults>>

\* Started in the background, if the machine has room.
RunProcess ==
    /\ manager.pc = "run"
    /\ \/ \E q \in Free : proc' = [proc EXCEPT ![q] = [program |-> Listed, pc |-> "start"]]
       \/ Free = {} /\ UNCHANGED proc
    /\ manager' = NextEntry
    /\ UNCHANGED <<process_info, lapse, event, faults>>

----------------------------------------------------------------------------
(* ProcessCheckNode and the Node process *)

\* st_mtime - curtime > 10
NodeIsStale == 0 - event_file.age > 10

\* Mistake: the process is not started without a file.
NodeHasStopped == event_file.exists /\ NodeIsStale

\* The file of today is too old, or there is none ten minutes into the day.
NodeIsMissing == IF event_file.exists THEN NodeIsStale ELSE late

\* The end of the manager's round; start_NodeAPI.sh runs in the background.
ProcessCheckNode ==
    /\ manager.pc = "check" /\ manager.i > Len(ProcessList)
    /\ manager' = [manager EXCEPT !.i = 1]
    /\ IF NodeIsMissing /\ \E s \in Scripts : script[s] = "none"
       THEN \E s \in Scripts : script[s] = "none" /\ script' = [script EXCEPT ![s] = "kill"]
       ELSE UNCHANGED script
    /\ UNCHANGED <<table, nodes, event_file, late, faults>>

\* start_NodeAPI.sh: kills what runs, and starts a new one some seconds later.
KillNode(s) ==
    /\ script[s] = "kill"
    /\ nodes' = {}
    /\ script' = [script EXCEPT ![s] = "start"]
    /\ UNCHANGED <<table, manager, event_file, late, faults>>

StartNode(s) ==
    /\ script[s] = "start"
    /\ nodes' = nodes \cup {s}
    /\ script' = [script EXCEPT ![s] = "none"]
    /\ UNCHANGED <<table, manager, event_file, late, faults>>

\* A Node process appends an event to the file of today.
WriteBlockEventFile ==
    /\ nodes # {}
    /\ event_file' = [exists |-> TRUE, age |-> 0]
    /\ UNCHANGED <<table, manager, nodes, script, late, faults>>

\* A Node process ends.
NodeEnds ==
    /\ \E s \in nodes : nodes' = nodes \ {s}
    /\ UNCHANGED <<table, manager, script, event_file, late, faults>>

\* Time goes on: the file gets older than ten seconds, the day ten minutes old.
TimePasses ==
    /\ late' = TRUE
    /\ event_file' = [event_file EXCEPT !.age = IF event_file.exists THEN 11 ELSE 0]
    /\ UNCHANGED <<table, manager, nodes, script, faults>>

\* The date changes.  Rounds are short against a day, so that what is missing has
\* been noticed.
NewDate ==
    /\ late /\ ~NodeIsMissing
    /\ late' = FALSE
    /\ event_file' = [exists |-> FALSE, age |-> 0]
    /\ UNCHANGED <<table, manager, nodes, script, faults>>

----------------------------------------------------------------------------
(* A server's process q: InitServer, interrupt, exit *)

To(q, at) == proc' = [proc EXCEPT ![q].pc = at]
Exit(q)   == proc' = [proc EXCEPT ![q] = NoProcess]

Bound(p) == {q \in Of(p) : proc[q].pc \in {"check", "set", "run"}}

\* GetServerSocket fails while another process has the port.
OpenPort(q) ==
    LET p == proc[q].program
    IN  /\ proc[q].pc = "start"
        /\ IF p \in WithPort /\ Bound(p) # {} THEN Exit(q) ELSE To(q, "check")
        /\ UNCHANGED <<process_info, lapse, manager, event, faults>>

\* Mistake: who finds the entry in use clears it on the way out.
CheckEntryRemoves(q) ==
    LET p == proc[q].program
    IN  /\ proc[q].pc = "check"
        /\ IF process_info[p] # 0
           THEN Exit(q) /\ process_info' = [process_info EXCEPT ![p] = 0]
           ELSE To(q, "set") /\ UNCHANGED process_info
        /\ UNCHANGED <<lapse, manager, event, faults>>

\* RegistProcess: who finds the entry in use exits,
CheckEntry(q) ==
    /\ proc[q].pc = "check"
    /\ IF process_info[proc[q].program] # 0 THEN Exit(q) ELSE To(q, "set")
    /\ UNCHANGED <<process_info, lapse, manager, event, faults>>

\* who does not sets it, and serves.
SetEntry(q) ==
    LET p == proc[q].program
    IN  /\ proc[q].pc = "set"
        /\ process_info' = [process_info EXCEPT ![p] = q]
        /\ lapse' = IF process_info[p] = 0 THEN lapse ELSE lapse \cup {p}
        /\ To(q, "run")
        /\ UNCHANGED <<manager, event, faults>>

\* SIGTERM: the handler closes the port, when its threads have ended,
Interrupt(q) ==
    /\ faults < MaxFaults
    /\ proc[q].pc = "run"
    /\ To(q, "remove")
    /\ faults' = faults + 1
    /\ UNCHANGED <<process_info, lapse, manager, event>>

\* RemoveProcess clears the entry, whoever has it,
RemoveProcess(q) ==
    LET p == proc[q].program
    IN  /\ proc[q].pc = "remove"
        /\ process_info' = [process_info EXCEPT ![p] = 0]
        /\ lapse' = IF process_info[p] \in {0, q} THEN lapse ELSE lapse \cup {p}
        /\ To(q, "exit")
        /\ UNCHANGED <<manager, event, faults>>

\* and the process is gone.
Ends(q) ==
    /\ proc[q].pc = "exit"
    /\ Exit(q)
    /\ UNCHANGED <<process_info, lapse, manager, event, faults>>

Server(q) == OpenPort(q) \/ CheckEntry(q) \/ SetEntry(q) \/ RemoveProcess(q) \/ Ends(q)

\* Killed, or ended by a fault; also by SIGTERM before the handler is set.
Crash(q) ==
    /\ faults < MaxFaults
    /\ proc[q].program \in Programs
    /\ Exit(q)
    /\ faults' = faults + 1
    /\ UNCHANGED <<process_info, lapse, manager, event>>

----------------------------------------------------------------------------
(* The surroundings *)

\* InitMemory process, for an entry or all of them
InitProcess(P) ==
    /\ faults < MaxFaults
    /\ process_info' = [p \in Programs |-> IF p \in P THEN 0 ELSE process_info[p]]
    /\ lapse' = lapse \cup {p \in P : process_info[p] # 0}
    /\ faults' = faults + 1
    /\ UNCHANGED <<proc, manager, event>>

\* Another process of the machine gets a free number, and ends.
ForeignStarts(q) ==
    /\ q \in Free /\ Cardinality(Of(Foreign)) < MaxForeign
    /\ proc' = [proc EXCEPT ![q] = [program |-> Foreign, pc |-> "none"]]
    /\ UNCHANGED <<process_info, lapse, manager, event, faults>>

ForeignEnds(q) ==
    /\ q \in Of(Foreign)
    /\ Exit(q)
    /\ UNCHANGED <<process_info, lapse, manager, event, faults>>

----------------------------------------------------------------------------
Manager == ReadEntry \/ CheckAlive \/ RemoveDead \/ RunProcess \/ ProcessCheckNode

StartNodeAPI(s) == KillNode(s) \/ StartNode(s)

Next ==
    \/ Manager \/ SettingProcess \/ ManagerEnds
    \/ \E s \in Scripts : StartNodeAPI(s)
    \/ WriteBlockEventFile \/ NodeEnds \/ TimePasses \/ NewDate
    \/ \E q \in Pids : \/ Server(q) \/ Interrupt(q) \/ Crash(q)
                       \/ ForeignStarts(q) \/ ForeignEnds(q)
    \/ \E P \in {{p} : p \in Programs} \cup {Programs} : InitProcess(P)

Spec == Init /\ [][Next]_vars

\* The manager goes on with its rounds, servers on their way in or out and
\* scripts run, time passes.
Fairness ==
    /\ WF_vars(Manager) /\ WF_vars(TimePasses)
    /\ \A q \in Pids : WF_vars(Server(q))
    /\ \A s \in Scripts : WF_vars(StartNodeAPI(s))

FairSpec == Spec /\ Fairness

----------------------------------------------------------------------------
(* What supervision promises *)

TypeOK ==
    /\ process_info \in [Programs -> {0} \cup Pids]
    /\ proc \in [Pids -> [program : Programs \cup {Foreign, NoProgram},
                          pc : {"none", "start", "check", "set", "run", "remove", "exit"}]]
    /\ manager \in [pc : {"down", "check", "getsid", "remove", "run"}, i : 1 .. Len(ProcessList) + 1]
    /\ nodes \subseteq Scripts
    /\ script \in [Scripts -> {"none", "kill", "start"}]
    /\ event_file \in [exists : BOOLEAN, age : {0, 11}]
    /\ late \in BOOLEAN /\ faults \in 0 .. MaxFaults
    /\ lapse \subseteq Programs

\* A server that runs is the one its entry names, so that there is never a second
\* one, however late starts register, unless the entry was cleared by hand or two
\* starts were between the test and the setting of the entry at once.
RunningIsRegistered ==
    \A p \in Programs \ lapse, q \in Pids : q \in Running(p) => process_info[p] = q

\* Under the same condition, the manager, which looks first and acts later, only
\* removes entries of processes that are gone, and an exit only its own.
OnlyDeadRemoved ==
    [][\A p \in Programs \ lapse' :
          process_info[p] # 0 /\ process_info'[p] = 0 => Running(p) = {}]_vars

\* The number in p's entry has gone to a process of another program.
Masked(p) == process_info[p] \in Pids \ (Free \cup Of(p))

Supervised == {p \in Managed : \E i \in DOMAIN ProcessList : ProcessList[i] = p}

\* While the manager runs, a managed server that is gone comes back, unless its
\* number was reused, which getsid cannot see, or there is none left.
ComesBack ==
    \A p \in Supervised :
        Of(p) = {} ~> Running(p) # {} \/ Masked(p) \/ Free = {} \/ manager.pc = "down"

\* While the manager runs, the Node event process is started on a day that has no
\* event file; on a day that has one it is not, however old the file is.
NodeComesBack == nodes = {} ~> nodes # {} \/ event_file.exists \/ manager.pc = "down"
=============================================================================
