-------------------------- MODULE ResponseTransact --------------------------
(***************************************************************************)
(* The response server, src/src/process/ResponseTransact.c.  Its main      *)
(* thread accepts services and notices when they hang up; each service has *)
(* a slot of mdb->user.response_user and a session thread that tails the   *)
(* response files from the datakey the service logged in with.             *)
(* RemoveUser, which ends a session, joins its thread; it is called by the *)
(* main thread when the service hangs up and by the session thread itself  *)
(* when it cannot send, so that it is a procedure that several threads can *)
(* be in at once (actor 0 is the main thread).                             *)
(*                                                                         *)
(* A connection and its session have the number of the thread entry made   *)
(* for them, and thread entries are never used again.  The lines of the    *)
(* files are constants, written[f] is how many of them there are so far.   *)
(* A service receives what bears its name and user key; the two filters    *)
(* are one here, and no name is the beginning of another.                  *)
(***************************************************************************)
EXTENDS Integers, Sequences, FiniteSets

CONSTANTS
    Dates,          \* dates as integers, in the order of the calendar
    Groups,         \* account groups
    Files,          \* the response files there can be, named by date and group
    All,            \* "*", the account group of a service that takes all
    NoGroup,        \* the account group of an empty slot
    Names,          \* service names with user keys
    NoName,         \* the name of an empty slot: the beginning of every name
    KeyBase,        \* 100000000, what a date is multiplied by in a datakey
    MaxLines,       \* bound: lines per file
    MaxResponses,   \* bound: lines of all files
    DataKey,        \* the datakey of each line of each file
    Service,        \* the name each line bears
    Logins,         \* what services log in with
    MaxUsers,       \* MAX_RESPONSE_SERVER_USER
    MaxFd,          \* bound: the highest descriptor a connection can get
    MaxSessions     \* bound: sessions per start of the program

LineNums == 1 .. MaxLines
Users    == 1 .. MaxUsers
Sessions == 1 .. MaxSessions
Actors   == 0 .. MaxSessions
Fds      == 0 .. MaxFd
Login    == [account_group : Groups \cup {All, NoGroup}, name : Names \cup {NoName}, datakey : Nat]

KeyDate(key) == key \div KeyBase

ASSUME DateAssumption == Dates \subseteq Nat /\ Dates # {}
ASSUME FileAssumption == Files \subseteq Dates \X Groups
ASSUME BoundAssumption ==
    /\ {MaxLines, MaxResponses, MaxUsers, MaxFd, MaxSessions} \subseteq Nat
    /\ MaxSessions > 0
ASSUME LoginAssumption == Logins \subseteq Login
\* What RequestTransact and ExecTransact see to: a line is not filed under a day
\* before that of its datakey, and the datakeys of a file increase.
ASSUME LineAssumption ==
    /\ KeyBase \in Nat \ {0}
    /\ DataKey \in [Files \X LineNums -> Nat]
    /\ Service \in [Files \X LineNums -> Names]
    /\ \A f \in Files, n \in LineNums :
          /\ KeyDate(DataKey[f, n]) <= f[1]
          /\ \A m \in LineNums : m < n => DataKey[f, m] < DataKey[f, n]

VARIABLES
    system_date,    \* mdb->system_date
    written,        \* lines of each response file
    main,           \* the main thread: where it is, the epoll events it has in hand
    thread_count,
    thread,         \* the thread table
    local,          \* per session thread: where it is, user_offset, the files it is to read
    remove,         \* per actor: where it is in RemoveUser
    response_user,  \* mdb->user.response_user
    conn,           \* the descriptors, and what the service at the other end knows
    lapse           \* history: sessions that called RemoveUser themselves

env   == <<system_date, written>>
table == <<thread_count, thread>>

vars == <<env, main, table, local, remove, response_user, conn, lapse>>

----------------------------------------------------------------------------
Listen == -1    \* the listening socket among the events

Nobody == [account_group |-> NoGroup, name |-> NoName, datakey |-> 0]
NoUser == [sockfd |-> 0, login |-> Nobody]

\* An open descriptor: whose session it is of, what that service logged in with,
\* whether it has hung up, and the lines it has received.
Socket(s, l) == [session |-> s, client |-> l, gone |-> FALSE, got |-> <<>>]
Closed       == Socket(0, Nobody)
NoSocket     == Socket(-1, Nobody)    \* descriptor 0 at the start

\* Mistake: the slot found is one too far.
EntryBehind(o) == [thread_terminate |-> FALSE, initialized |-> FALSE, user_offset |-> o + 1,
                   listed |-> {}, fp |-> {}, read |-> [f \in Files |-> 0]]

\* A thread entry after memset, or as AcceptUser makes it; resq_file is the
\* files in the list, those of them that are open, and the lines read of each.
Entry(o) == [thread_terminate |-> FALSE, initialized |-> FALSE, user_offset |-> o,
             listed |-> {}, fp |-> {}, read |-> [f \in Files |-> 0]]

NoThread  == [pc |-> "none", user_offset |-> 0, readfds |-> {}]
NotCalled == [pc |-> "idle", offset |-> 0, i |-> 0]

Init ==
    /\ system_date \in Dates /\ \A d \in Dates : system_date <= d
    /\ written = [f \in Files |-> 0]
    /\ main = [pc |-> "down", events |-> {}]
    /\ thread_count = 0
    /\ thread = [i \in Sessions |-> Entry(0)]
    /\ local = [i \in Sessions |-> NoThread]
    /\ remove = [a \in Actors |-> NotCalled]
    /\ response_user = [o \in Users |-> NoUser]
    /\ conn = [d \in Fds |-> IF d = 0 THEN NoSocket ELSE Closed]
    /\ lapse = {}

InitServer ==
    /\ main.pc = "down"
    /\ main' = [main EXCEPT !.pc = "loop"]
    /\ UNCHANGED <<env, table, local, remove, response_user, conn, lapse>>

\* The process ends, by a signal or a fault, wherever its threads are.  All its
\* state but the files is in it or is reset by InitServer.
Stop ==
    /\ main.pc # "down"
    /\ main' = [pc |-> "down", events |-> {}]
    /\ thread_count' = 0
    /\ thread' = [i \in Sessions |-> Entry(0)]
    /\ local' = [i \in Sessions |-> NoThread]
    /\ remove' = [a \in Actors |-> NotCalled]
    /\ response_user' = [o \in Users |-> NoUser]
    /\ conn' = [d \in Fds |-> IF d = 0 THEN NoSocket ELSE Closed]
    /\ lapse' = {}
    /\ UNCHANGED env

----------------------------------------------------------------------------
(* The surroundings *)

\* InitMemory system_date
InitSystemDate ==
    /\ \E d \in Dates : d > system_date /\ system_date' = d
    /\ UNCHANGED <<written, main, table, local, remove, response_user, conn, lapse>>

\* ExecTransact appends a response, to the file of today or of a day before.
AppendResponse(f) ==
    /\ f[1] <= system_date
    /\ written[f] < MaxLines
    /\ Cardinality({e \in Files \X LineNums : e[2] <= written[e[1]]}) < MaxResponses
    /\ written' = [written EXCEPT ![f] = @ + 1]
    /\ UNCHANGED <<system_date, main, table, local, remove, response_user, conn, lapse>>

\* The service hangs up, or sends what cannot be read as a request.
HangUp(d) ==
    /\ conn[d].session \in Sessions /\ ~conn[d].gone
    /\ conn' = [conn EXCEPT ![d].gone = TRUE]
    /\ UNCHANGED <<env, main, table, local, remove, response_user, lapse>>

----------------------------------------------------------------------------
(* RemoveUser, called by actor a *)

UsersOf(d) == {o \in Users : response_user[o].sockfd = d}

Least(S) == CHOOSE x \in S : \A y \in S : x <= y

\* Mistake: the descriptor is closed before its thread has ended.
CloseFirst(a, d) ==
    /\ conn' = [conn EXCEPT ![d] = Closed]
    /\ remove' = [remove EXCEPT ![a] = [pc |-> "find", offset |-> Least(UsersOf(d)), i |-> 0]]

\* The descriptor's slot is looked up (GetUserOffset); without one it is closed.
CallRemoveUser(a, d) ==
    IF UsersOf(d) = {}
    THEN conn' = [conn EXCEPT ![d] = Closed] /\ UNCHANGED remove
    ELSE /\ remove' = [remove EXCEPT ![a] = [pc |-> "find", offset |-> Least(UsersOf(d)), i |-> 0]]
         /\ UNCHANGED conn

ThreadsOf(o) == {i \in 1 .. thread_count : thread[i].user_offset = o}

\* pthread_join returns at once if the thread is the caller itself or is waiting
\* for the caller (EDEADLK), or if somebody waits for it already (EINVAL).
JoinRefused(a, i) ==
    \/ i = a
    \/ remove[i].pc = "wait" /\ remove[i].i = a
    \/ \E b \in Actors : remove[b].pc = "wait" /\ remove[b].i = i

\* Mistake: the thread is joined but not told to end.
JoinOnly(a) ==
    LET T == ThreadsOf(remove[a].offset)
        i == Least(T)
    IN  /\ remove[a].pc = "find" /\ T # {}
        /\ IF JoinRefused(a, i)
           THEN thread' = [thread EXCEPT ![i] = Entry(0)] /\ UNCHANGED remove
           ELSE /\ remove' = [remove EXCEPT ![a].pc = "wait", ![a].i = i]
                /\ UNCHANGED thread
        /\ UNCHANGED <<env, main, thread_count, local, response_user, conn, lapse>>

\* The next thread of the slot is told to end and joined.  If pthread_join
\* returns at once, the entry is cleared, and thread_terminate with it.
Terminate(a) ==
    LET T == ThreadsOf(remove[a].offset)
        i == Least(T)
    IN  /\ remove[a].pc = "find" /\ T # {}
        /\ IF JoinRefused(a, i)
           THEN thread' = [thread EXCEPT ![i] = Entry(0)] /\ UNCHANGED remove
           ELSE /\ thread' = [thread EXCEPT ![i].thread_terminate = TRUE]
                /\ remove' = [remove EXCEPT ![a].pc = "wait", ![a].i = i]
        /\ UNCHANGED <<env, main, thread_count, local, response_user, conn, lapse>>

\* The thread has ended; its entry is cleared.
Join(a) ==
    /\ remove[a].pc = "wait"
    /\ local[remove[a].i].pc = "done"
    /\ thread' = [thread EXCEPT ![remove[a].i] = Entry(0)]
    /\ remove' = [remove EXCEPT ![a].pc = "find", ![a].i = 0]
    /\ UNCHANGED <<env, main, thread_count, local, response_user, conn, lapse>>

\* No thread of the slot is left in the table, as a session thread sees it: the
\* main thread may count another one before the descriptor is closed.
LeaveLoop(a) ==
    /\ a # 0 /\ remove[a].pc = "find" /\ ThreadsOf(remove[a].offset) = {}
    /\ remove' = [remove EXCEPT ![a].pc = "close"]
    /\ UNCHANGED <<env, main, table, local, response_user, conn, lapse>>

\* After a pause, the descriptor that the slot has by now is closed,
CloseUser(a) ==
    /\ \/ remove[a].pc = "close"
       \/ a = 0 /\ remove[a].pc = "find" /\ ThreadsOf(remove[a].offset) = {}
    /\ conn' = [conn EXCEPT ![response_user[remove[a].offset].sockfd] = Closed]
    /\ remove' = [remove EXCEPT ![a].pc = "clear"]
    /\ UNCHANGED <<env, main, table, local, response_user, lapse>>

\* and the slot cleared.
ClearUser(a) ==
    /\ remove[a].pc = "clear"
    /\ response_user' = [response_user EXCEPT ![remove[a].offset] = NoUser]
    /\ remove' = [remove EXCEPT ![a] = NotCalled]
    /\ UNCHANGED <<env, main, table, local, conn, lapse>>

RemoveUser(a) == Terminate(a) \/ Join(a) \/ LeaveLoop(a) \/ CloseUser(a) \/ ClearUser(a)

----------------------------------------------------------------------------
(* The main thread *)

InLoop == main.pc = "loop" /\ remove[0].pc = "idle"

\* epoll_wait: the connections that have hung up, and a service that connects.
Poll ==
    LET hungUp == {d \in Fds : conn[d].gone}
    IN  /\ InLoop /\ main.events = {}
        /\ \E new \in SUBSET {Listen} :
              /\ new = {} \/ thread_count < MaxSessions
              /\ hungUp \cup new # {}
              /\ main' = [main EXCEPT !.events = hungUp \cup new]
        /\ UNCHANGED <<env, table, local, remove, response_user, conn, lapse>>

\* An event of a connection: nothing can be read, or not a whole request.  The
\* descriptor may have been closed, and given to another, since epoll_wait.
RemoveClient(d) ==
    /\ InLoop /\ d \in main.events \ {Listen}
    /\ main' = [main EXCEPT !.events = @ \ {d}]
    /\ CallRemoveUser(0, d)
    /\ UNCHANGED <<env, table, local, response_user, lapse>>

FreeFds   == {d \in Fds : conn[d].session = 0}
NewThread == thread_count + 1

\* Mistake: the datakey of the login is not taken over.
UserFromStart(d, l) == [sockfd |-> d, login |-> [l EXCEPT !.datakey = 0]]

NewUser(d, l) == [sockfd |-> d, login |-> l]

\* A slot is filled, the thread entry made and the thread created; if it cannot
\* be, the user is removed again.
AcceptUser(l) ==
    LET d == Least(FreeFds)
        o == Least(UsersOf(0))
    IN  /\ InLoop /\ Listen \in main.events
        /\ FreeFds # {} /\ UsersOf(0) # {}
        /\ response_user' = [response_user EXCEPT ![o] = NewUser(d, l)]
        /\ conn' = [conn EXCEPT ![d] = Socket(NewThread, l)]
        /\ thread' = [thread EXCEPT ![NewThread] = Entry(o)]
        /\ \/ /\ local' = [local EXCEPT ![NewThread] = [pc |-> "round", user_offset |-> o,
                                                        readfds |-> {}]]
              /\ main' = [pc |-> "count", events |-> main.events \ {Listen}]
              /\ UNCHANGED remove
           \/ /\ main' = [main EXCEPT !.events = @ \ {Listen}]
              /\ remove' = [remove EXCEPT ![0] = [pc |-> "find", offset |-> o, i |-> 0]]
              /\ UNCHANGED local
        /\ UNCHANGED <<env, thread_count, lapse>>

\* Nobody is accepted: all slots are taken, there is no descriptor, or what the
\* service sends is not a login.
RefuseUser ==
    /\ InLoop /\ Listen \in main.events
    /\ main' = [main EXCEPT !.events = @ \ {Listen}]
    /\ UNCHANGED <<env, table, local, remove, response_user, conn, lapse>>

\* thread_count++ behind pthread_create
CountThread ==
    /\ main.pc = "count"
    /\ main' = [main EXCEPT !.pc = "loop"]
    /\ thread_count' = NewThread
    /\ UNCHANGED <<env, thread, local, remove, response_user, conn, lapse>>

MainThread ==
    \/ Poll
    \/ \E d \in Fds : RemoveClient(d)
    \/ \E l \in Logins : AcceptUser(l)
    \/ RefuseUser
    \/ CountThread
    \/ RemoveUser(0)

----------------------------------------------------------------------------
(* A session thread: ThreadProcess *)

User(i) == response_user[local[i].user_offset]

\* Session thread i is between two lines.
InThread(i) == local[i].pc = "round" /\ remove[i].pc = "idle"

GroupMatches(l, f) == l.account_group \in {All, f[2]}

\* The files the directory has that the thread is to open: not before the day of
\* the datakey and, after the first time, of today only.
NewFiles(i) ==
    {f \in Files : /\ written[f] > 0
                   /\ f[1] >= KeyDate(User(i).login.datakey)
                   /\ thread[i].initialized => f[1] = system_date
                   /\ f \notin thread[i].listed
                   /\ GroupMatches(User(i).login, f)}

\* Open files of other days that had no line for an hour may be closed.
OldFiles(i) == {f \in thread[i].fp : f[1] # system_date /\ thread[i].read[f] = written[f]}

\* The files of the lines still to be read in this round
Readable(i) == local[i].readfds \cap thread[i].fp

\* A round begins: new files are opened, or listed if they cannot be opened
\* (OpenResponseQue), old ones closed, and those with lines to read selected.
\* The directory itself can be listed: where opendir fails, the round opens nothing
\* and leaves initialized as it is, which only puts off what the next round does.
BeginRound(i) ==
    /\ InThread(i) /\ Readable(i) = {} /\ ~thread[i].thread_terminate
    /\ \E opened \in SUBSET NewFiles(i), closed \in SUBSET OldFiles(i) :
          LET fp == (thread[i].fp \ closed) \cup opened
          IN  /\ thread' = [thread EXCEPT ![i].listed = @ \cup NewFiles(i),
                                          ![i].fp = fp,
                                          ![i].initialized = TRUE]
              /\ local' = [local EXCEPT
                    ![i].readfds = {f \in fp : thread[i].read[f] < written[f]}]
    /\ UNCHANGED <<env, main, thread_count, remove, response_user, conn, lapse>>

\* The thread has been told to end; it closes its files.
EndThread(i) ==
    /\ InThread(i) /\ Readable(i) = {} /\ thread[i].thread_terminate
    /\ local' = [local EXCEPT ![i] = [NoThread EXCEPT !.pc = "done"]]
    /\ UNCHANGED <<env, main, table, remove, response_user, conn, lapse>>

\* What a service that logged in with l is sent of the files opened for it.  Names
\* are compared for equality (the code: by prefix); the comparison of user_key,
\* which "*" turns off, is left out: it is a second filter of the same form.
Wants(l, f, n) ==
    /\ l.datakey < DataKey[f, n]
    /\ l.name \in {NoName, Service[f, n]}

\* Mistake: a line is passed over.
LineAfter(i, f) == thread[i].read[f] + 2

NextLine(i, f) == thread[i].read[f] + 1

\* fgets reads the next line.
ReadLine(i, f) ==
    /\ InThread(i) /\ f \in Readable(i)
    /\ thread' = [thread EXCEPT ![i].read[f] = NextLine(i, f)]
    /\ local' = [local EXCEPT ![i].readfds = @ \ {f}]
    /\ UNCHANGED <<env, main, thread_count, response_user>>

\* The service does not want it.
SkipLine(i, f) ==
    /\ ReadLine(i, f)
    /\ ~Wants(User(i).login, f, NextLine(i, f))
    /\ UNCHANGED <<remove, conn, lapse>>

\* It is sent, and arrives if the service is still there.
SendLine(i, f) ==
    LET d == User(i).sockfd
    IN  /\ ReadLine(i, f)
        /\ Wants(User(i).login, f, NextLine(i, f))
        /\ conn[d].session \in Sessions
        /\ conn' = IF conn[d].gone THEN conn
                   ELSE [conn EXCEPT ![d].got = Append(@, <<f, NextLine(i, f)>>)]
        /\ UNCHANGED <<remove, lapse>>

\* It cannot be sent (the service is gone, or slow): the thread removes its user.
SendFails(i, f) ==
    /\ ReadLine(i, f)
    /\ Wants(User(i).login, f, NextLine(i, f))
    /\ CallRemoveUser(i, User(i).sockfd)
    /\ lapse' = lapse \cup {i}

ThreadProcess(i) ==
    \/ BeginRound(i) \/ EndThread(i)
    \/ \E f \in Files : SkipLine(i, f) \/ SendLine(i, f) \/ SendFails(i, f)
    \/ RemoveUser(i)

----------------------------------------------------------------------------
Next ==
    \/ InitServer
    \/ Stop
    \/ InitSystemDate
    \/ \E f \in Files : AppendResponse(f)
    \/ \E d \in Fds : HangUp(d)
    \/ MainThread
    \/ \E i \in Sessions : ThreadProcess(i)

Spec == Init /\ [][Next]_vars

\* All threads of the process keep running.
Fairness == WF_vars(MainThread) /\ \A i \in Sessions : WF_vars(ThreadProcess(i))

FairSpec == Spec /\ Fairness
----------------------------------------------------------------------------
(* What the response server promises *)

EntryType == [thread_terminate : BOOLEAN, initialized : BOOLEAN, user_offset : {0} \cup Users,
              listed : SUBSET Files, fp : SUBSET Files, read : [Files -> 0 .. MaxLines]]

TypeOK ==
    /\ system_date \in Dates
    /\ written \in [Files -> 0 .. MaxLines]
    /\ main \in [pc : {"down", "loop", "count"}, events : SUBSET ({Listen} \cup Fds)]
    /\ thread_count \in Actors
    /\ thread \in [Sessions -> EntryType]
    /\ local \in [Sessions -> [pc : {"none", "round", "done"},
                               user_offset : {0} \cup Users, readfds : SUBSET Files]]
    /\ remove \in [Actors -> [pc : {"idle", "find", "wait", "close", "clear"},
                              offset : {0} \cup Users, i : Actors]]
    /\ response_user \in [Users -> [sockfd : Fds, login : Logins \cup {Nobody}]]
    /\ conn \in [Fds -> [session : {-1} \cup Actors, client : Logins \cup {Nobody},
                         gone : BOOLEAN, got : Seq(Files \X LineNums)]]
    /\ lapse \subseteq Sessions

Running(i) == local[i].pc = "round"

\* The main thread is ending the session of slot o.
Leaving(o) == remove[0].pc # "idle" /\ remove[0].offset = o

\* As long as no thread has removed its own user, session threads, slots in use
\* and open connections belong to each other one to one, but for the slot that
\* the main thread is removing.
SessionsExact ==
    lapse = {} =>
        /\ \A i \in Sessions : Running(i) =>
              thread[i].user_offset = local[i].user_offset /\ conn[User(i).sockfd].session = i
        /\ \A o \in Users : response_user[o].sockfd # 0 /\ ~Leaving(o) =>
              \E i \in Sessions : Running(i) /\ local[i].user_offset = o
        /\ \A d \in Fds : conn[d].session \in Sessions => UsersOf(d) # {}

\* Under the same condition, the thread that the main thread waits for has been
\* told to end: the server goes on serving.
JoinReturns ==
    lapse = {} /\ remove[0].pc = "wait" => thread[remove[0].i].thread_terminate

\* Under the same condition, a service receives only lines of its account group
\* that bear its name and come after the datakey it logged in with; those of one
\* file come in their order and none twice.
AnswersInOrder ==
    lapse = {} => \A d \in Fds : \A k \in DOMAIN conn[d].got :
        LET f == conn[d].got[k][1]
            n == conn[d].got[k][2]
        IN  /\ GroupMatches(conn[d].client, f)
            /\ Wants(conn[d].client, f, n)
            /\ \A j \in 1 .. k - 1 : conn[d].got[j][1] = f => conn[d].got[j][2] < n

Received(d, f, n) == \E k \in DOMAIN conn[d].got : conn[d].got[k] = <<f, n>>

\* Under the same condition, a service that is still there has every line it
\* wants up to where its thread reads.  The largest datakey received from a file
\* is therefore where to log in next: no line of it is lost between sessions.
NothingPassedOver ==
    lapse = {} => \A d \in Fds : conn[d].session \in Sessions /\ ~conn[d].gone =>
        \A f \in Files : \A n \in 1 .. thread[conn[d].session].read[f] :
            Wants(conn[d].client, f, n) => Received(d, f, n)

----------------------------------------------------------------------------
(* What the source says and does not keep *)

\* "The account group is not checked, because it was checked when the file was
\* opened already" (ResponseTransact.c:204).  A thread that removed its own user
\* may read on for the next service in the slot: from the files it had opened
\* for a service of another account group.
GroupOfSession ==
    \A d \in Fds : \A k \in DOMAIN conn[d].got : GroupMatches(conn[d].client, conn[d].got[k][1])
=============================================================================
