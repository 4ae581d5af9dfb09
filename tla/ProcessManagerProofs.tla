------------------------ MODULE ProcessManagerProofs ------------------------
(***************************************************************************)
(* Proofs about ProcessManager, for every set of servers, every list of    *)
(* programs, every supply of process numbers and any number of faults.     *)
(***************************************************************************)
EXTENDS ProcessManager, TLAPS

\* A process that serves, or was told to end and has not cleared its entry
Serves(q) == proc[q].pc \in {"run", "remove"}

\* The manager acts on a program of its list.
InList == manager.pc \in {"getsid", "remove", "run"} => manager.i <= Len(ProcessList)

\* What registers, serves and ends is a server.
OnlyServersAct == \A q \in Pids : proc[q].pc # "none" => proc[q].program \in Programs

\* The entry of a program names its serving process, also on the way out.
ServingIsRegistered ==
    \A p \in Programs \ lapse, q \in Pids :
        proc[q].program = p /\ Serves(q) => process_info[p] = q

\* Between the manager's look at an entry and its removal, the entry is in use, so
\* that no start registers, and nothing serves.
RemovedIsDead ==
    manager.pc = "remove" /\ Listed \notin lapse =>
        /\ process_info[Listed] # 0
        /\ \A q \in Pids : proc[q].program = Listed => ~Serves(q)

IInv == TypeOK /\ InList /\ OnlyServersAct /\ ServingIsRegistered /\ RemovedIsDead

----------------------------------------------------------------------------
(* Types *)

PCs == {"none", "start", "check", "set", "run", "remove", "exit"}

Process == [program : Programs \cup {Foreign, NoProgram}, pc : PCs]

ManagerStates == [pc : {"down", "check", "getsid", "remove", "run"}, i : 1 .. Len(ProcessList) + 1]

TableTypes ==
    /\ process_info \in [Programs -> {0} \cup Pids]
    /\ proc \in [Pids -> Process]
    /\ lapse \subseteq Programs
    /\ OnlyServersAct

ManagerTypes == manager \in ManagerStates /\ faults \in 0 .. MaxFaults /\ InList

EventTypes ==
    /\ nodes \subseteq Scripts
    /\ script \in [Scripts -> {"none", "kill", "start"}]
    /\ event_file \in [exists : BOOLEAN, age : {0, 11}]
    /\ late \in BOOLEAN

LEMMA ConstantFacts ==
    /\ Pids \subseteq Nat /\ 0 \notin Pids
    /\ MaxFaults \in Nat
    /\ ProcessList \in Seq(Programs) /\ Len(ProcessList) \in Nat
    /\ Foreign \notin Programs /\ NoProgram \notin Programs /\ NoProgram # Foreign
BY ProgramAssumption, NumberAssumption

LEMMA TypesSplit == TypeOK /\ InList /\ OnlyServersAct <=> TableTypes /\ ManagerTypes /\ EventTypes
BY DEF TypeOK, TableTypes, ManagerTypes, EventTypes, Process, PCs, ManagerStates

LEMMA TypesSplitNext == (TypeOK /\ InList /\ OnlyServersAct)' <=> (TableTypes /\ ManagerTypes /\ EventTypes)'
BY TypesSplit, PTL

\* The program the manager is at
LEMMA ListedIsProgram ==
    ASSUME ManagerTypes, manager.pc \in {"getsid", "remove", "run"}
    PROVE  Listed \in Programs /\ manager.i \in Nat
<1>1. manager.i \in 1 .. Len(ProcessList)
  BY ConstantFacts DEF ManagerTypes, ManagerStates, InList
<1> QED
  BY <1>1, ConstantFacts DEF Listed

\* A process number changes hands or a process goes on: only that number changes.
LEMMA ProcessSet ==
    ASSUME proc \in [Pids -> Process], NEW q \in Pids, NEW r \in Process,
           proc' = [proc EXCEPT ![q] = r]
    PROVE  /\ proc' \in [Pids -> Process]
           /\ proc'[q] = r
           /\ \A s \in Pids \ {q} : proc'[s] = proc[s]
OBVIOUS

LEMMA ExitFacts ==
    ASSUME proc \in [Pids -> Process], NEW q \in Pids, Exit(q)
    PROVE  /\ proc' \in [Pids -> Process]
           /\ proc'[q].program = NoProgram /\ proc'[q].pc = "none"
           /\ \A s \in Pids \ {q} : proc'[s] = proc[s]
<1>1. NoProcess \in Process
  BY DEF NoProcess, Process, PCs
<1>2. proc' = [proc EXCEPT ![q] = NoProcess]
  BY DEF Exit
<1> QED
  BY <1>1, <1>2, ProcessSet DEF NoProcess

LEMMA ToFacts ==
    ASSUME proc \in [Pids -> Process], NEW q \in Pids, NEW at \in PCs, To(q, at)
    PROVE  /\ proc' \in [Pids -> Process]
           /\ proc'[q].program = proc[q].program /\ proc'[q].pc = at
           /\ \A s \in Pids \ {q} : proc'[s] = proc[s]
<1> DEFINE r == [proc[q] EXCEPT !.pc = at]
<1>1. r \in Process /\ r.program = proc[q].program /\ r.pc = at
  BY DEF Process
<1>2. proc' = [proc EXCEPT ![q] = r]
  BY DEF To
<1> HIDE DEF r
<1> QED
  BY <1>1, <1>2, ProcessSet

----------------------------------------------------------------------------
(* Type correctness *)

LEMMA TypesInit == Init => TypeOK /\ InList /\ OnlyServersAct
<1> SUFFICES ASSUME Init PROVE TableTypes /\ ManagerTypes /\ EventTypes
  BY TypesSplit
<1>1. TableTypes
  BY DEF Init, TableTypes, Process, PCs, NoProcess, OnlyServersAct
<1>2. ManagerTypes
  BY ConstantFacts DEF Init, ManagerTypes, ManagerStates, InList
<1>3. EventTypes
  BY DEF Init, EventTypes
<1> QED
  BY <1>1, <1>2, <1>3

\* Only these steps touch the manager's place; all others leave it alone.
LEMMA ManagerTypesStep ==
    ASSUME TypeOK, InList, [Next]_vars
    PROVE  ManagerTypes'
<1> USE ConstantFacts DEF ManagerTypes, ManagerStates, InList
<1>0. ManagerTypes
  BY TypesSplit DEF TypeOK
<1>1. CASE ReadEntry
  BY <1>0, <1>1 DEF ReadEntry, NextEntry
<1>2. CASE CheckAlive
  BY <1>0, <1>2 DEF CheckAlive, NextEntry
<1>3. CASE RemoveDead
  BY <1>0, <1>3 DEF RemoveDead
<1>4. CASE RunProcess
  BY <1>0, <1>4 DEF RunProcess, NextEntry
<1>5. CASE ProcessCheckNode
  BY <1>0, <1>5 DEF ProcessCheckNode
<1>6. CASE SettingProcess
  BY <1>0, <1>6 DEF SettingProcess
<1>7. CASE ManagerEnds
  BY <1>0, <1>7 DEF ManagerEnds
<1>8. ASSUME NEW q \in Pids, Interrupt(q) \/ Crash(q) PROVE ManagerTypes'
  BY <1>0, <1>8 DEF Interrupt, Crash
<1>9. ASSUME NEW P, InitProcess(P) PROVE ManagerTypes'
  BY <1>0, <1>9 DEF InitProcess
<1>10. ASSUME NEW q \in Pids, Server(q) PROVE ManagerTypes'
  BY <1>0, <1>10 DEF Server, OpenPort, CheckEntry, SetEntry, RemoveProcess, Ends
<1>11. ASSUME NEW q \in Pids, ForeignStarts(q) \/ ForeignEnds(q) PROVE ManagerTypes'
  BY <1>0, <1>11 DEF ForeignStarts, ForeignEnds
<1>12. ASSUME NEW s \in Scripts, StartNodeAPI(s) PROVE ManagerTypes'
  BY <1>0, <1>12 DEF StartNodeAPI, KillNode, StartNode
<1>13. CASE WriteBlockEventFile \/ NodeEnds \/ TimePasses \/ NewDate
  BY <1>0, <1>13 DEF WriteBlockEventFile, NodeEnds, TimePasses, NewDate
<1>14. CASE UNCHANGED vars
  BY <1>0, <1>14 DEF vars
<1> QED
  BY <1>1, <1>2, <1>3, <1>4, <1>5, <1>6, <1>7, <1>8, <1>9, <1>10, <1>11, <1>12, <1>13, <1>14
     DEF Next, Manager

LEMMA EventTypesStep ==
    ASSUME EventTypes, [Next]_vars
    PROVE  EventTypes'
<1> USE DEF EventTypes, event
<1>1. CASE ReadEntry \/ CheckAlive \/ RemoveDead \/ RunProcess \/ SettingProcess \/ ManagerEnds
  BY <1>1 DEF ReadEntry, CheckAlive, RemoveDead, RunProcess, SettingProcess, ManagerEnds
<1>2. CASE ProcessCheckNode
  BY <1>2 DEF ProcessCheckNode
<1>3. ASSUME NEW q \in Pids, Server(q) \/ Interrupt(q) \/ Crash(q) PROVE EventTypes'
  BY <1>3 DEF Server, OpenPort, CheckEntry, SetEntry, RemoveProcess, Ends, Interrupt, Crash
<1>4. ASSUME NEW P, InitProcess(P) PROVE EventTypes'
  BY <1>4 DEF InitProcess
<1>5. ASSUME NEW q \in Pids, ForeignStarts(q) \/ ForeignEnds(q) PROVE EventTypes'
  BY <1>5 DEF ForeignStarts, ForeignEnds
<1>6. ASSUME NEW s \in Scripts, StartNodeAPI(s) PROVE EventTypes'
  BY <1>6 DEF StartNodeAPI, KillNode, StartNode
<1>7. CASE WriteBlockEventFile
  BY <1>7 DEF WriteBlockEventFile
<1>11. CASE NodeEnds
  BY <1>11 DEF NodeEnds
<1>8. CASE TimePasses
  BY <1>8 DEF TimePasses
<1>9. CASE NewDate
  BY <1>9 DEF NewDate
<1>10. CASE UNCHANGED vars
  BY <1>10 DEF vars
<1> QED
  BY <1>1, <1>2, <1>3, <1>4, <1>5, <1>6, <1>7, <1>8, <1>9, <1>10, <1>11 DEF Next, Manager

\* A step that leaves entries and history alone, and moves one process
LEMMA MoveTypes ==
    ASSUME TableTypes, NEW q \in Pids, UNCHANGED <<process_info, lapse>>,
           Exit(q) \/ \E at \in PCs \ {"none"} : proc[q].pc # "none" /\ To(q, at)
    PROVE  TableTypes'
<1>1. proc' \in [Pids -> Process]
  BY ExitFacts, ToFacts DEF TableTypes
<1>2. OnlyServersAct'
  <2> SUFFICES ASSUME NEW s \in Pids, proc'[s].pc # "none" PROVE proc'[s].program \in Programs
    BY DEF OnlyServersAct
  <2>1. CASE Exit(q)
    BY <2>1, ExitFacts DEF TableTypes, OnlyServersAct
  <2>2. CASE \E at \in PCs \ {"none"} : proc[q].pc # "none" /\ To(q, at)
    BY <2>2, ToFacts DEF TableTypes, OnlyServersAct
  <2> QED
    BY <2>1, <2>2
<1> QED
  BY <1>1, <1>2 DEF TableTypes

LEMMA TableTypesStep ==
    ASSUME TableTypes, ManagerTypes, [Next]_vars
    PROVE  TableTypes'
<1>1. CASE UNCHANGED table
  BY <1>1 DEF table, TableTypes, OnlyServersAct
<1>2. CASE RemoveDead
  BY <1>2 DEF RemoveDead, TableTypes, OnlyServersAct
<1>3. CASE RunProcess
  <2>1. Listed \in Programs
    BY <1>3, ListedIsProgram DEF RunProcess
  <2>2. CASE UNCHANGED proc
    BY <1>3, <2>2 DEF RunProcess, TableTypes, OnlyServersAct
  <2>3. ASSUME NEW q \in Pids, proc' = [proc EXCEPT ![q] = [program |-> Listed, pc |-> "start"]]
        PROVE  TableTypes'
    <3> DEFINE r == [program |-> Listed, pc |-> "start"]
    <3>1. r \in Process /\ r.program \in Programs
      BY <2>1 DEF Process, PCs
    <3>2. proc' = [proc EXCEPT ![q] = r]
      BY <2>3
    <3> HIDE DEF r
    <3> QED
      BY <1>3, <3>1, <3>2, ProcessSet DEF RunProcess, TableTypes, OnlyServersAct
  <2> QED
    BY <1>3, <2>2, <2>3 DEF RunProcess, Free
<1>4. ASSUME NEW q \in Pids, OpenPort(q) \/ CheckEntry(q) \/ Ends(q) PROVE TableTypes'
  BY <1>4, MoveTypes DEF OpenPort, CheckEntry, Ends, PCs
<1>5. ASSUME NEW q \in Pids, Interrupt(q) \/ Crash(q) PROVE TableTypes'
  BY <1>5, MoveTypes DEF Interrupt, Crash, PCs
<1>6. ASSUME NEW q \in Pids, ForeignEnds(q) PROVE TableTypes'
  BY <1>6, MoveTypes DEF ForeignEnds
<1>7. ASSUME NEW q \in Pids, SetEntry(q) \/ RemoveProcess(q) PROVE TableTypes'
  <2>1. proc[q].program \in Programs
    BY <1>7 DEF SetEntry, RemoveProcess, TableTypes, OnlyServersAct
  <2>2. PICK at \in {"run", "exit"} : To(q, at)
    BY <1>7 DEF SetEntry, RemoveProcess
  <2>3. proc' \in [Pids -> Process] /\ OnlyServersAct'
    BY <2>1, <2>2, ToFacts DEF TableTypes, OnlyServersAct, PCs
  <2>4. process_info' \in [Programs -> {0} \cup Pids] /\ lapse' \subseteq Programs
    BY <1>7, <2>1 DEF SetEntry, RemoveProcess, TableTypes
  <2> QED
    BY <2>3, <2>4 DEF TableTypes
<1>8. ASSUME NEW q \in Pids, ForeignStarts(q) PROVE TableTypes'
  <2> DEFINE r == [program |-> Foreign, pc |-> "none"]
  <2>1. r \in Process /\ r.pc = "none"
    BY DEF Process, PCs
  <2>2. proc' = [proc EXCEPT ![q] = r]
    BY <1>8 DEF ForeignStarts
  <2> HIDE DEF r
  <2> QED
    BY <1>8, <2>1, <2>2, ProcessSet DEF ForeignStarts, TableTypes, OnlyServersAct
<1>9. ASSUME NEW P \in {{p} : p \in Programs} \cup {Programs}, InitProcess(P) PROVE TableTypes'
  BY <1>9 DEF InitProcess, TableTypes, OnlyServersAct
<1>10. ASSUME NEW s \in Scripts, StartNodeAPI(s) PROVE UNCHANGED table
  BY <1>10 DEF StartNodeAPI, KillNode, StartNode
<1>11. CASE WriteBlockEventFile \/ NodeEnds \/ TimePasses \/ NewDate
  BY <1>1, <1>11 DEF WriteBlockEventFile, NodeEnds, TimePasses, NewDate
<1>12. CASE ReadEntry \/ CheckAlive \/ ProcessCheckNode \/ SettingProcess \/ ManagerEnds
  BY <1>1, <1>12 DEF ReadEntry, CheckAlive, ProcessCheckNode, SettingProcess, ManagerEnds
<1>13. CASE UNCHANGED vars
  BY <1>1, <1>13 DEF vars
<1> QED
  BY <1>1, <1>2, <1>3, <1>4, <1>5, <1>6, <1>7, <1>8, <1>9, <1>10, <1>11, <1>12, <1>13
     DEF Next, Manager, Server

LEMMA TypesStep ==
    TypeOK /\ InList /\ OnlyServersAct /\ [Next]_vars => (TypeOK /\ InList /\ OnlyServersAct)'
<1> SUFFICES ASSUME TypeOK, InList, OnlyServersAct, [Next]_vars
             PROVE  (TypeOK /\ InList /\ OnlyServersAct)'
  OBVIOUS
<1>1. TableTypes /\ ManagerTypes /\ EventTypes
  BY TypesSplit
<1>2. TableTypes' /\ ManagerTypes' /\ EventTypes'
  BY <1>1, TableTypesStep, ManagerTypesStep, EventTypesStep
<1> QED
  BY <1>2, TypesSplitNext

\* The entries, the processes, the manager and the scripts keep their types.
THEOREM SupervisionTypeCorrect == Spec => []TypeOK
<1>1. TypeOK /\ InList /\ OnlyServersAct /\ [Next]_vars => (TypeOK /\ InList /\ OnlyServersAct)'
  BY TypesStep
<1> QED
  BY <1>1, TypesInit, PTL DEF Spec

----------------------------------------------------------------------------
(* One serving process per entry *)

Registered == ServingIsRegistered /\ RemovedIsDead

LEMMA RegisteredInit == Init => Registered
BY DEF Init, Registered, ServingIsRegistered, RemovedIsDead, Serves, NoProcess

\* A step after which nothing serves that did not serve before
NoNewServer ==
    \A q \in Pids :
        proc'[q].pc \in {"run", "remove"} =>
            Serves(q) /\ proc'[q].program = proc[q].program

LEMMA QuietStep ==
    ASSUME Registered, NoNewServer, UNCHANGED <<process_info, lapse>>,
           UNCHANGED manager \/ manager'.pc # "remove"
    PROVE  Registered'
<1>1. ServingIsRegistered'
  BY DEF Registered, ServingIsRegistered, NoNewServer, Serves
<1>2. RemovedIsDead'
  BY DEF Registered, RemovedIsDead, NoNewServer, Serves, Listed
<1> QED
  BY <1>1, <1>2 DEF Registered

LEMMA SameProcesses == UNCHANGED proc => NoNewServer
BY DEF NoNewServer, Serves

LEMMA ExitIsQuiet ==
    ASSUME TableTypes, NEW q \in Pids, Exit(q)
    PROVE  NoNewServer
BY ExitFacts DEF TableTypes, NoNewServer, Serves

LEMMA MoveIsQuiet ==
    ASSUME TableTypes, NEW q \in Pids, NEW at \in PCs, To(q, at), at \in {"run", "remove"} => Serves(q)
    PROVE  NoNewServer
BY ToFacts DEF TableTypes, NoNewServer, Serves

\* The number in an entry whose process is gone is free, and no other process
\* serves under that entry.
LEMMA CheckAliveRegistered ==
    ASSUME TableTypes, ManagerTypes, Registered, CheckAlive
    PROVE  Registered'
<1>1. Listed \in Programs
  BY ListedIsProgram DEF CheckAlive
<1>2. NoNewServer /\ UNCHANGED <<process_info, lapse>>
  BY SameProcesses DEF CheckAlive, table
<1>3. CASE Alive(process_info[Listed])
  BY <1>2, <1>3, QuietStep DEF CheckAlive, NextEntry
<1>4. CASE ~Alive(process_info[Listed])
  <2>1. manager' = [manager EXCEPT !.pc = "remove"]
    BY <1>4 DEF CheckAlive
  <2>2. Listed' = Listed
    BY <2>1 DEF Listed, ManagerTypes, ManagerStates
  <2>3. process_info[Listed] # 0 /\ proc[process_info[Listed]].program = NoProgram
    BY <1>4 DEF Alive, Free
  <2>4. ASSUME NEW q \in Pids, proc[q].program = Listed, Serves(q), Listed \notin lapse PROVE FALSE
    <3>1. process_info[Listed] = q
      BY <1>1, <2>4 DEF Registered, ServingIsRegistered
    <3> QED
      BY <1>1, <2>3, <2>4, <3>1, ConstantFacts
  <2>5. RemovedIsDead'
    BY <1>2, <2>2, <2>3, <2>4 DEF RemovedIsDead, Serves, CheckAlive, table
  <2>6. ServingIsRegistered'
    BY <1>2 DEF Registered, ServingIsRegistered, Serves, CheckAlive, table
  <2> QED
    BY <2>5, <2>6 DEF Registered
<1> QED
  BY <1>3, <1>4

LEMMA RemoveDeadRegistered ==
    ASSUME TableTypes, ManagerTypes, Registered, RemoveDead
    PROVE  Registered'
<1>1. Listed \in Programs
  BY ListedIsProgram DEF RemoveDead
<1>2. process_info' = [process_info EXCEPT ![Listed] = 0] /\ UNCHANGED <<proc, lapse>>
  BY DEF RemoveDead
<1>3. RemovedIsDead'
  BY DEF RemoveDead, RemovedIsDead
<1>4. ServingIsRegistered'
  <2> SUFFICES ASSUME NEW p \in Programs, p \notin lapse, NEW q \in Pids,
                      proc[q].program = p, Serves(q)
               PROVE  process_info'[p] = q
    BY <1>2 DEF ServingIsRegistered, Serves
  <2>1. p # Listed
    BY DEF Registered, RemovedIsDead, RemoveDead
  <2> QED
    BY <1>2, <2>1 DEF Registered, ServingIsRegistered, TableTypes
<1> QED
  BY <1>3, <1>4 DEF Registered

LEMMA SetEntryRegistered ==
    ASSUME TableTypes, ManagerTypes, Registered, NEW q \in Pids, SetEntry(q)
    PROVE  Registered'
<1> DEFINE p == proc[q].program
<1>1. p \in Programs
  BY DEF SetEntry, TableTypes, OnlyServersAct
<1>2. /\ process_info' = [process_info EXCEPT ![p] = q]
      /\ To(q, "run") /\ UNCHANGED manager
      /\ lapse \subseteq lapse' /\ (process_info[p] # 0 => p \in lapse')
  BY DEF SetEntry
<1>3. /\ proc'[q].program = p
      /\ \A s \in Pids \ {q} : proc'[s] = proc[s]
  BY <1>2, ToFacts DEF TableTypes, PCs
<1>4. ServingIsRegistered'
  <2> SUFFICES ASSUME NEW r \in Programs, r \notin lapse', NEW s \in Pids,
                      proc'[s].program = r, proc'[s].pc \in {"run", "remove"}
               PROVE  process_info'[r] = s
    BY DEF ServingIsRegistered, Serves
  <2>1. CASE s = q
    BY <1>1, <1>2, <1>3, <2>1 DEF TableTypes
  <2>2. CASE s # q
    <3>1. process_info[r] = s
      BY <1>2, <1>3, <2>2 DEF Registered, ServingIsRegistered, Serves
    <3>2. r # p
      BY <1>2, <3>1, ConstantFacts
    <3> QED
      BY <1>1, <1>2, <3>1, <3>2 DEF TableTypes
  <2> QED
    BY <2>1, <2>2
<1>5. RemovedIsDead'
  <2> SUFFICES ASSUME manager.pc = "remove", Listed \notin lapse'
               PROVE  /\ process_info'[Listed] # 0
                      /\ \A s \in Pids : proc'[s].program = Listed => proc'[s].pc \notin {"run", "remove"}
    BY <1>2 DEF RemovedIsDead, Serves, Listed
  <2>1. Listed \in Programs
    BY ListedIsProgram
  <2>2. process_info[Listed] # 0 /\ \A s \in Pids : proc[s].program = Listed => ~Serves(s)
    BY <1>2 DEF Registered, RemovedIsDead
  <2>3. Listed # p
    BY <1>2, <2>2
  <2> QED
    BY <1>1, <1>2, <1>3, <2>1, <2>2, <2>3 DEF TableTypes, Serves
<1> QED
  BY <1>4, <1>5 DEF Registered

\* An exit finds its own number in the entry, or the entry is out of order.
LEMMA RemoveProcessRegistered ==
    ASSUME TableTypes, ManagerTypes, Registered, NEW q \in Pids, RemoveProcess(q)
    PROVE  Registered'
<1> DEFINE p == proc[q].program
<1>1. p \in Programs /\ Serves(q)
  BY DEF RemoveProcess, TableTypes, OnlyServersAct, Serves
<1>2. /\ process_info' = [process_info EXCEPT ![p] = 0]
      /\ To(q, "exit") /\ UNCHANGED manager
      /\ lapse \subseteq lapse'
  BY DEF RemoveProcess
<1>3. /\ proc'[q].pc = "exit"
      /\ \A s \in Pids \ {q} : proc'[s] = proc[s]
  BY <1>2, ToFacts DEF TableTypes, PCs
<1>4. ServingIsRegistered'
  <2> SUFFICES ASSUME NEW r \in Programs, r \notin lapse', NEW s \in Pids,
                      proc'[s].program = r, proc'[s].pc \in {"run", "remove"}
               PROVE  process_info'[r] = s
    BY DEF ServingIsRegistered, Serves
  <2>1. s # q
    BY <1>3
  <2>2. process_info[r] = s
    BY <1>2, <1>3, <2>1 DEF Registered, ServingIsRegistered, Serves
  <2>3. r # p
    BY <1>1, <1>2, <2>1, <2>2 DEF Registered, ServingIsRegistered
  <2> QED
    BY <1>1, <1>2, <2>2, <2>3 DEF TableTypes
<1>5. RemovedIsDead'
  <2> SUFFICES ASSUME manager.pc = "remove", Listed \notin lapse'
               PROVE  /\ process_info'[Listed] # 0
                      /\ \A s \in Pids : proc'[s].program = Listed => proc'[s].pc \notin {"run", "remove"}
    BY <1>2 DEF RemovedIsDead, Serves, Listed
  <2>1. Listed \in Programs
    BY ListedIsProgram
  <2>2. process_info[Listed] # 0 /\ \A s \in Pids : proc[s].program = Listed => ~Serves(s)
    BY <1>2 DEF Registered, RemovedIsDead
  <2>3. Listed # p
    BY <1>1, <2>2
  <2> QED
    BY <1>1, <1>2, <1>3, <2>1, <2>2, <2>3 DEF TableTypes, Serves
<1> QED
  BY <1>4, <1>5 DEF Registered

LEMMA InitProcessRegistered ==
    ASSUME TableTypes, ManagerTypes, Registered, NEW P, InitProcess(P)
    PROVE  Registered'
<1>1. /\ \A p \in Programs \ lapse' : process_info'[p] = process_info[p]
      /\ lapse \subseteq lapse' /\ UNCHANGED <<proc, manager>>
  <2>1. ASSUME NEW p \in Programs, p \notin lapse' PROVE process_info'[p] = process_info[p]
    BY <2>1 DEF InitProcess
  <2> QED
    BY <2>1 DEF InitProcess
<1>2. ServingIsRegistered'
  BY <1>1 DEF Registered, ServingIsRegistered, Serves
<1>3. RemovedIsDead'
  <2> SUFFICES ASSUME manager.pc = "remove", Listed \notin lapse'
               PROVE  process_info'[Listed] # 0 /\ \A q \in Pids : proc[q].program = Listed => ~Serves(q)
    BY <1>1 DEF RemovedIsDead, Serves, Listed
  <2>1. Listed \in Programs
    BY ListedIsProgram
  <2> QED
    BY <1>1, <2>1 DEF Registered, RemovedIsDead
<1> QED
  BY <1>2, <1>3 DEF Registered

LEMMA RegisteredStep ==
    ASSUME TableTypes, ManagerTypes, Registered, [Next]_vars
    PROVE  Registered'
<1>1. CASE UNCHANGED <<table, manager>>
  BY <1>1, SameProcesses, QuietStep DEF table
<1>2. CASE CheckAlive
  BY <1>2, CheckAliveRegistered
<1>3. CASE RemoveDead
  BY <1>3, RemoveDeadRegistered
<1>4. CASE ReadEntry \/ ProcessCheckNode \/ SettingProcess \/ ManagerEnds
  <2>1. UNCHANGED table
    BY <1>4 DEF ReadEntry, ProcessCheckNode, SettingProcess, ManagerEnds
  <2>2. manager'.pc # "remove"
    BY <1>4 DEF ReadEntry, ProcessCheckNode, SettingProcess, ManagerEnds, NextEntry,
                ManagerTypes, ManagerStates
  <2> QED
    BY <2>1, <2>2, SameProcesses, QuietStep DEF table
<1>5. CASE RunProcess
  <2>1. manager'.pc # "remove" /\ UNCHANGED <<process_info, lapse>>
    BY <1>5 DEF RunProcess, NextEntry
  <2>2. NoNewServer
    BY <1>5, SameProcesses DEF RunProcess, Free, NoNewServer, Serves, TableTypes
  <2> QED
    BY <2>1, <2>2, QuietStep
<1>6. ASSUME NEW q \in Pids, OpenPort(q) \/ CheckEntry(q) \/ Ends(q) PROVE Registered'
  <2>1. NoNewServer
    BY <1>6, ExitIsQuiet, MoveIsQuiet DEF OpenPort, CheckEntry, Ends, PCs
  <2> QED
    BY <1>6, <2>1, QuietStep DEF OpenPort, CheckEntry, Ends
<1>7. ASSUME NEW q \in Pids, Interrupt(q) \/ Crash(q) PROVE Registered'
  <2>1. NoNewServer
    BY <1>7, ExitIsQuiet, MoveIsQuiet DEF Interrupt, Crash, PCs, Serves
  <2> QED
    BY <1>7, <2>1, QuietStep DEF Interrupt, Crash
<1>8. ASSUME NEW q \in Pids, SetEntry(q) PROVE Registered'
  BY <1>8, SetEntryRegistered
<1>9. ASSUME NEW q \in Pids, RemoveProcess(q) PROVE Registered'
  BY <1>9, RemoveProcessRegistered
<1>10. ASSUME NEW q \in Pids, ForeignEnds(q) PROVE Registered'
  BY <1>10, ExitIsQuiet, QuietStep DEF ForeignEnds
<1>11. ASSUME NEW q \in Pids, ForeignStarts(q) PROVE Registered'
  <2>1. NoNewServer
    BY <1>11 DEF ForeignStarts, NoNewServer, Serves, TableTypes
  <2> QED
    BY <1>11, <2>1, QuietStep DEF ForeignStarts
<1>12. ASSUME NEW P, InitProcess(P) PROVE Registered'
  BY <1>12, InitProcessRegistered
<1>13. ASSUME NEW s \in Scripts, StartNodeAPI(s) PROVE Registered'
  BY <1>1, <1>13 DEF StartNodeAPI, KillNode, StartNode
<1>14. CASE WriteBlockEventFile \/ NodeEnds \/ TimePasses \/ NewDate
  BY <1>1, <1>14 DEF WriteBlockEventFile, NodeEnds, TimePasses, NewDate
<1>15. CASE UNCHANGED vars
  BY <1>1, <1>15 DEF vars
<1> QED
  BY <1>2, <1>3, <1>4, <1>5, <1>6, <1>7, <1>8, <1>9, <1>10, <1>11, <1>12, <1>13, <1>14, <1>15
     DEF Next, Manager, Server

LEMMA InvInit == Init => IInv
BY TypesInit, RegisteredInit DEF IInv, Registered

LEMMA InvStep == IInv /\ [Next]_vars => IInv'
<1> SUFFICES ASSUME IInv, [Next]_vars PROVE IInv'
  OBVIOUS
<1>1. TableTypes /\ ManagerTypes
  BY TypesSplit DEF IInv
<1>2. Registered'
  BY <1>1, RegisteredStep DEF IInv, Registered
<1>3. (TypeOK /\ InList /\ OnlyServersAct)'
  BY TypesStep DEF IInv
<1> QED
  BY <1>2, <1>3 DEF IInv, Registered

LEMMA InvAlways == Spec => []IInv
BY InvInit, InvStep, PTL DEF Spec

\* A server that runs is the one its entry names, so that there is never a second
\* one, unless its entry was cleared by hand or taken by a second start.
THEOREM SupervisionRunningIsRegistered == Spec => []RunningIsRegistered
<1>1. IInv => RunningIsRegistered
  BY DEF IInv, ServingIsRegistered, Serves, RunningIsRegistered, Running, Of
<1> QED
  BY <1>1, InvAlways, PTL

\* No step clears the entry of a server that runs.
LEMMA OnlyDeadRemovedStep ==
    ASSUME IInv, [Next]_vars, NEW p \in Programs \ lapse', process_info[p] # 0, process_info'[p] = 0
    PROVE  Running(p) = {}
<1>1. TableTypes /\ ManagerTypes /\ Registered
  BY TypesSplit DEF IInv, Registered
<1>2. CASE UNCHANGED process_info
  BY <1>2
<1>3. CASE RemoveDead
  <2>1. Listed \in Programs
    BY <1>1, <1>3, ListedIsProgram DEF RemoveDead
  <2>2. p = Listed /\ p \notin lapse
    BY <1>1, <1>3, <2>1 DEF RemoveDead, TableTypes
  <2> QED
    BY <1>1, <1>3, <2>2 DEF RemoveDead, Registered, RemovedIsDead, Serves, Running, Of
<1>4. ASSUME NEW q \in Pids, RemoveProcess(q) PROVE Running(p) = {}
  <2>1. proc[q].program \in Programs /\ Serves(q) /\ lapse \subseteq lapse'
    BY <1>1, <1>4 DEF RemoveProcess, TableTypes, OnlyServersAct, Serves
  <2>2. proc[q].program = p
    BY <1>1, <1>4, <2>1 DEF RemoveProcess, TableTypes
  <2>3. process_info[p] = q
    BY <1>1, <2>1, <2>2 DEF Registered, ServingIsRegistered
  <2>4. ASSUME NEW s \in Running(p) PROVE FALSE
    <3>1. process_info[p] = s /\ proc[s].pc = "run"
      BY <1>1, <2>1, <2>4 DEF Registered, ServingIsRegistered, Serves, Running, Of
    <3> QED
      BY <1>4, <2>3, <3>1 DEF RemoveProcess
  <2> QED
    BY <2>4
<1>5. ASSUME NEW q \in Pids, SetEntry(q) PROVE FALSE
  <2>1. process_info' = [process_info EXCEPT ![proc[q].program] = q] /\ q # 0
    BY <1>5, ConstantFacts DEF SetEntry
  <2> QED
    BY <1>1, <2>1 DEF TableTypes
<1>6. ASSUME NEW P, InitProcess(P) PROVE FALSE
  BY <1>6 DEF InitProcess
<1>7. ASSUME NEW q \in Pids, OpenPort(q) \/ CheckEntry(q) \/ Ends(q) PROVE UNCHANGED process_info
  BY <1>7 DEF OpenPort, CheckEntry, Ends
<1>8. ASSUME NEW q \in Pids, Interrupt(q) \/ Crash(q) \/ ForeignStarts(q) \/ ForeignEnds(q)
      PROVE  UNCHANGED process_info
  BY <1>8 DEF Interrupt, Crash, ForeignStarts, ForeignEnds
<1>9. CASE ReadEntry \/ CheckAlive \/ RunProcess \/ ProcessCheckNode \/ SettingProcess \/ ManagerEnds
  BY <1>2, <1>9 DEF ReadEntry, CheckAlive, RunProcess, ProcessCheckNode, SettingProcess,
                    ManagerEnds, table
<1>10. ASSUME NEW s \in Scripts, StartNodeAPI(s) PROVE UNCHANGED process_info
  BY <1>10 DEF StartNodeAPI, KillNode, StartNode, table
<1>11. CASE WriteBlockEventFile \/ NodeEnds \/ TimePasses \/ NewDate
  BY <1>2, <1>11 DEF WriteBlockEventFile, NodeEnds, TimePasses, NewDate, table
<1>12. CASE UNCHANGED vars
  BY <1>2, <1>12 DEF vars, table
<1> QED
  BY <1>2, <1>3, <1>4, <1>5, <1>6, <1>7, <1>8, <1>9, <1>10, <1>11, <1>12 DEF Next, Manager, Server

\* The manager, which looks first and acts later, only removes entries of
\* processes that are gone, and an exit only its own.
THEOREM SupervisionOnlyDeadRemoved == Spec => OnlyDeadRemoved
<1>1. IInv /\ [Next]_vars =>
        [\A p \in Programs \ lapse' :
            process_info[p] # 0 /\ process_info'[p] = 0 => Running(p) = {}]_vars
  BY OnlyDeadRemovedStep
<1> QED
  BY <1>1, InvAlways, PTL DEF Spec, OnlyDeadRemoved
=============================================================================
