--------------------------- MODULE SendNodeEvent ---------------------------
(***************************************************************************)
(* The event server, src/src/process/SendNodeEvent.c, and the Node process *)
(* that writes its files, src/node/KAS_NodeAPI.js.  The server has the     *)
(* code of ResponseTransact, line by line, but for what it reads: one file *)
(* of events per day, whose lines are numbered as they are read, and goes  *)
(* to every service.  It is therefore the model of the response server     *)
(* with one name of files and one account group that all services are in;  *)
(* even a cleared slot is, since nothing is compared with it but the       *)
(* datakey.                                                                *)
(*                                                                         *)
(* The Node process files events by the date of its own clock, the server  *)
(* opens files by the date in the shared memory.                           *)
(***************************************************************************)
EXTENDS Integers, Sequences, FiniteSets

CONSTANTS
    Dates,          \* dates as integers, in the order of the calendar
    NodeAPI,        \* NODE_EVENT_FILE; also the group and name of every service
    KeyBase,        \* 100000000
    MaxLines,       \* bound: lines per file
    MaxEvents,      \* bound: lines of all files
    LoginKeys,      \* the datakeys services log in with
    MaxUsers,       \* MAX_SEND_SERVER_USER
    MaxFd,          \* bound: the highest descriptor a connection can get
    MaxSessions     \* bound: sessions per start of the program

Files    == Dates \X {NodeAPI}
LineNums == 1 .. MaxLines
Sessions == 1 .. MaxSessions
Fds      == 0 .. MaxFd
Logins   == [account_group : {NodeAPI}, name : {NodeAPI}, datakey : LoginKeys]

ASSUME DateAssumption == Dates \subseteq Nat /\ Dates # {}
ASSUME BoundAssumption ==
    /\ {MaxLines, MaxEvents, MaxUsers, MaxFd, MaxSessions} \subseteq Nat
    /\ MaxSessions > 0 /\ KeyBase \in Nat
ASSUME LoginKeyAssumption == LoginKeys \subseteq Nat
ASSUME LineNumAssumption == MaxLines < KeyBase

\* The datakey that is made for a line
DataKey == [e \in Files \X LineNums |-> e[1][1] * KeyBase + e[2]]

\* Every line is for every service.
Service == [e \in Files \X LineNums |-> NodeAPI]

VARIABLES
    today,          \* the date of the Node process's clock
    system_date, written, main, thread_count, thread, local, remove, send_user, conn, lapse

Server == INSTANCE ResponseTransact WITH
              Groups <- {NodeAPI}, All <- NodeAPI, NoGroup <- NodeAPI,
              Names <- {NodeAPI}, NoName <- NodeAPI,
              MaxResponses <- MaxEvents, response_user <- send_user

vars == <<today, system_date, written, main, thread_count, thread, local, remove, send_user,
          conn, lapse>>

Init == Server!Init /\ today = system_date

----------------------------------------------------------------------------
(* The Node process and the surroundings *)

\* Mistake: the day after is the next number.
NextNumber ==
    /\ today' = today + 1
    /\ UNCHANGED <<system_date, written, main, thread_count, thread, local, remove, send_user,
                   conn, lapse>>

\* Today(): the date changes.
NextDay ==
    /\ \E d \in Dates : d > today /\ today' = d
    /\ UNCHANGED <<system_date, written, main, thread_count, thread, local, remove, send_user,
                   conn, lapse>>

\* An event is appended to the file of the day.
WriteBlockEventFile ==
    /\ written[<<today, NodeAPI>>] < MaxLines
    /\ Cardinality({e \in Files \X LineNums : e[2] <= written[e[1]]}) < MaxEvents
    /\ written' = [written EXCEPT ![<<today, NodeAPI>>] = @ + 1]
    /\ UNCHANGED <<today, system_date, main, thread_count, thread, local, remove, send_user,
                   conn, lapse>>

\* InitMemory system_date, the start and the end of the process, a service that hangs up
InitSystemDate == Server!InitSystemDate /\ UNCHANGED today
InitServer     == Server!InitServer /\ UNCHANGED today
Stop           == Server!Stop /\ UNCHANGED today
HangUp(d)      == Server!HangUp(d) /\ UNCHANGED today

----------------------------------------------------------------------------
(* The main thread *)

RemoveUser(a) == Server!RemoveUser(a)

Poll == Server!Poll

\* Mistake: the end of a connection is taken for a request.
ReceiveOnly(d) ==
    /\ Server!InLoop /\ d \in main.events \ {Server!Listen}
    /\ main' = [main EXCEPT !.events = @ \ {d}]
    /\ UNCHANGED <<system_date, written, thread_count, thread, local, remove, send_user,
                   conn, lapse>>

\* The main thread's part when a service has hung up
RemoveClient(d) == Server!RemoveClient(d)

\* A login is accepted or not; its thread is counted a step later.
AcceptUser ==
    \/ \E l \in Logins : Server!AcceptUser(l)
    \/ Server!RefuseUser
    \/ Server!CountThread

MainThread ==
    /\ Poll \/ (\E d \in Fds : RemoveClient(d)) \/ AcceptUser \/ RemoveUser(0)
    /\ UNCHANGED today

----------------------------------------------------------------------------
(* A session thread *)

\* Mistake: new files are no longer taken into the list after the first time.
OpenFirstTime(i) ==
    /\ Server!BeginRound(i)
    /\ thread[i].initialized => thread'[i].listed = thread[i].listed

\* A round of the thread's loop begins, with the files there are by now (the
\* directory can be listed).
OpenEventFile(i) == Server!BeginRound(i)

\* An event up to the datakey of the login is passed over, a later one sent.
SkipEvent(i) == \E f \in Files : Server!SkipLine(i, f)
SendEvent(i) == \E f \in Files : Server!SendLine(i, f)

\* Mistake: the thread goes on although it could not send.
SendFailsUnnoticed(i) ==
    \E f \in Files :
        /\ Server!ReadLine(i, f)
        /\ Server!Wants(Server!User(i).login, f, Server!NextLine(i, f))
        /\ UNCHANGED <<remove, conn, lapse>>

\* It cannot be sent, and the thread removes its user.
SendFails(i) == \E f \in Files : Server!SendFails(i, f)

\* The thread has been told to end.
EndThread(i) == Server!EndThread(i)

ThreadProcess(i) ==
    /\ \/ OpenEventFile(i) \/ SkipEvent(i) \/ SendEvent(i) \/ SendFails(i)
       \/ EndThread(i) \/ RemoveUser(i)
    /\ UNCHANGED today

----------------------------------------------------------------------------
Next ==
    \/ NextDay \/ WriteBlockEventFile \/ InitSystemDate
    \/ InitServer \/ Stop
    \/ \E d \in Fds : HangUp(d)
    \/ MainThread
    \/ \E i \in Sessions : ThreadProcess(i)

Spec == Init /\ [][Next]_vars

\* The threads of the server keep running.
Fairness == WF_vars(MainThread) /\ \A i \in Sessions : WF_vars(ThreadProcess(i))

FairSpec == Spec /\ Fairness

----------------------------------------------------------------------------
(* What the event server promises *)

TypeOK == today \in Dates /\ Server!TypeOK

\* The service of session i has logged in and is still there.
Served(i, d) == conn[d].session = i /\ ~conn[d].gone

\* Event n of file f comes behind the datakey that the service at d logged in with.
After(d, f, n) == n <= written[f] /\ conn[d].client.datakey < f[1] * KeyBase + n

Received(d, f, n) == \E k \in DOMAIN conn[d].got : conn[d].got[k] = <<f, n>>

\* As long as no thread has removed its own user, a service that has received
\* an event has received all events of that day before it, from the datakey of
\* its login on: the number in the datakey is that of the line in the file.
EventsWithoutGap ==
    lapse = {} => \A d \in Fds, f \in Files, n \in LineNums :
        Received(d, f, n) =>
            After(d, f, n) /\ \A m \in 1 .. n - 1 : After(d, f, m) => Received(d, f, m)

\* The thread of session i will not read from file f: it could not be opened, was
\* closed after an hour without a line, or is not of today and was not there when
\* the session began.
NotRead(i, f) ==
    /\ thread[i].initialized /\ f \notin thread[i].fp
    /\ f \in thread[i].listed \/ f[1] # system_date

\* The service of session i is there and has not received all that it is to have.
Behind(i) ==
    \E d \in Fds : Served(i, d) /\ \E f \in Files, n \in LineNums :
        After(d, f, n) /\ ~Received(d, f, n) /\ ~NotRead(i, f)

\* As long as no thread has removed its own user, every event that a service is
\* to have reaches it, from files of past days and of today, those created while
\* it is served included, but for files its thread does not read.  (That the
\* directory of the files can be listed, in the end, is assumed: see BeginRound.)
EventsArrive == \A i \in Sessions : Behind(i) ~> ~Behind(i) \/ lapse # {}

\* Under the same condition, the main thread comes to remove a service that has
\* hung up: the join ends, descriptor and slot are free again.
HangUpIsServed ==
    \A i \in Sessions :
        (\E d \in Fds : conn[d].session = i /\ conn[d].gone) ~>
            (\A d \in Fds : conn[d].session # i) \/ lapse # {}
=============================================================================
