-------------------------- MODULE RequestTransact --------------------------
(***************************************************************************)
(* The request server, src/src/process/RequestTransact.c: a single process *)
(* with one epoll loop.  It takes token-transfer requests from connected   *)
(* services, gives each a datakey, appends it to the queue file            *)
(* data/req/<date>.<account_group>.que, records the datakey in             *)
(* data/line/RequestTransact.<date>.datakey, and answers the service.      *)
(*                                                                         *)
(* A handler runs to completion, but every file operation is a step of its *)
(* own: between two of them the process may end (Crash, or Interrupt: the  *)
(* SIGTERM handler, which exits from wherever it interrupts), and          *)
(* InitMemory may change system_date or system_status in shared memory.    *)
(*                                                                         *)
(* A datakey is the number date * 100000000 + seq.  It is kept here as the *)
(* pair [date, seq]; NextKey carries into the date as the addition does.   *)
(***************************************************************************)
EXTENDS Naturals, Integers, Sequences, FiniteSets

CONSTANTS
    Dates,        \* the days (yyyymmdd) the system lives through
    Groups,       \* account_group names found in request headers
    Fds,          \* socket descriptors the kernel hands out
    MaxUsers,     \* MAX_REQUEST_SERVER_USER
    KeyBase,      \* 100000000: keys per day before seq carries into the date
    MaxLines      \* bound: lines in all queue files after which no request comes

ASSUME DatesAssumption == Dates \subseteq Nat \ {0}
ASSUME KeyBaseAssumption == KeyBase \in Nat \ {0, 1}
ASSUME FdsAssumption == Fds \subseteq Nat \ {0}
ASSUME MaxUsersAssumption == MaxUsers \in Nat \ {0}
ASSUME MaxLinesAssumption == MaxLines \in Nat

VARIABLES
    system_date,      \* mdb->system_date
    system_status,    \* mdb->system_status: TRUE is SYSTEM_STATUS_OPEN
    reqQue,           \* contents of each data/account_group file: datakeys in file order
    datakeyFile,      \* each data/line/RequestTransact.<date>.datakey
    pc,               \* where the process is
    unique_datakey,   \* the counter in process memory
    account_group,    \* the group in the header of the request being served
    datakey,          \* InsertRequestQue's local datakey / return value
    target,           \* the date in the name of the datakey file being written
    request_user,     \* mdb->user.request_user[i].sockfd, 0 when free
    epoll,            \* descriptors registered with epoll_fd
    answers,          \* history: the 'Y' answers that reached a service
    lapse             \* history: why keys may repeat ("kill", "carry")

vars == <<system_date, system_status, reqQue, datakeyFile, pc, unique_datakey,
          account_group, datakey, target, request_user, epoll, answers, lapse>>

memory == <<system_date, system_status>>
disk   == <<reqQue, datakeyFile>>
users  == <<request_user, epoll>>

----------------------------------------------------------------------------
(* Datakeys and files *)

Files   == Dates \X Groups
Offsets == 0 .. MaxUsers - 1
NoUsers == [i \in Offsets |-> 0]
Keys    == [date : Nat, seq : 0 .. KeyBase - 1]
ZeroKey == [date |-> 0, seq |-> 0]
FirstKey(d) == [date |-> d, seq |-> 0]

\* the -1 that InsertRequestQue returns when the queue file cannot be opened
ErrorKey == [date |-> -1, seq |-> 0]

\* Mistake: the day's counter grows without limit.
NextKeyUnbounded(k) == [k EXCEPT !.seq = @ + 1]

NextKey(k) == IF k.seq + 1 < KeyBase
              THEN [k EXCEPT !.seq = @ + 1]
              ELSE [date |-> k.date + 1, seq |-> 0]

KeyLess(a, b) == a.date < b.date \/ (a.date = b.date /\ a.seq < b.seq)

\* A datakey file that was truncated and not yet written reads as 0.
AbsentFile  == [exists |-> FALSE, key |-> ZeroKey]
Holding(k)  == [exists |-> TRUE, key |-> k]
DatakeyFile == [exists : BOOLEAN, key : Keys]

\* Mistake: a restart begins the day anew.
ReadNothing == FirstKey(system_date)

ReadDataKeyFromFile == IF datakeyFile[system_date].exists
                       THEN datakeyFile[system_date].key
                       ELSE FirstKey(system_date)

\* Mistake: the counter is reset although the day is the same.
CounterAlwaysReset(k, d) == FirstKey(d)

\* unique_datakey as the next allocation sees it: reset when the day changed
CounterFor(k, d) == IF k.date = d THEN k ELSE FirstKey(d)

Answers == [key : Keys \cup {ErrorKey}, group : Groups]

PCs == {"down", "loop", "alloc", "append", "truncate", "write", "reply"}

----------------------------------------------------------------------------
Init ==
    /\ system_date \in Dates
    /\ system_status = FALSE
    /\ reqQue = [f \in Files |-> <<>>]
    /\ datakeyFile = [d \in Dates |-> AbsentFile]
    /\ pc = "down"
    /\ unique_datakey = ZeroKey
    /\ account_group \in Groups
    /\ datakey = ZeroKey
    /\ target = system_date
    /\ request_user = NoUsers
    /\ epoll = {}
    /\ answers = {}
    /\ lapse = {}

\* InitMemory system_date: the next day begins.
RollDate ==
    /\ \E d \in Dates : d > system_date /\ system_date' = d
    /\ UNCHANGED <<system_status, disk, pc, unique_datakey, account_group, datakey, target,
                   users, answers, lapse>>

\* InitMemory system_status [0|1]
SetStatus ==
    /\ system_status' \in BOOLEAN \ {system_status}
    /\ UNCHANGED <<system_date, disk, pc, unique_datakey, account_group, datakey, target,
                   users, answers, lapse>>

\* InitServer: the user table is cleared, the counter read back from disk.
InitServer ==
    /\ pc = "down"
    /\ pc' = "loop"
    /\ request_user' = NoUsers
    /\ epoll' = {}
    /\ unique_datakey' = ReadDataKeyFromFile
    /\ UNCHANGED <<memory, disk, account_group, datakey, target, answers, lapse>>

\* The process ends at whatever statement it had reached; its memory is gone
\* and its sockets are closed.
Stop ==
    /\ pc # "down"
    /\ pc' = "down"
    /\ lapse' = IF pc \in {"truncate", "write"} THEN lapse \cup {"kill"} ELSE lapse
    /\ unique_datakey' = ZeroKey
    /\ datakey' = ZeroKey
    /\ epoll' = {}
    /\ UNCHANGED <<memory, disk, account_group, target, answers>>

\* A crash leaves the user table in shared memory as it is.
Crash == Stop /\ UNCHANGED request_user

\* interrupt(), the handler of SIGTERM, runs wherever the signal hits, removes
\* every user and exits.
Interrupt == Stop /\ request_user' = NoUsers

----------------------------------------------------------------------------
(* The user table *)

Online == {request_user[i] : i \in Offsets} \ {0}

\* Mistake: the first slot in use, whoever uses it.
FirstUserOffset(fd) ==
    CHOOSE i \in Offsets : /\ request_user[i] # 0
                           /\ \A j \in Offsets : request_user[j] # 0 => i <= j

\* GetUserOffset: the first slot that holds the descriptor
GetUserOffset(fd) ==
    CHOOSE i \in Offsets : /\ request_user[i] = fd
                           /\ \A j \in Offsets : request_user[j] = fd => i <= j

\* AcceptUser: a well-formed login takes the first free slot.  A failed login,
\* or a full table, closes the socket again and leaves no trace.
AcceptUser(fd) ==
    /\ pc = "loop"
    /\ fd \notin Online
    /\ \E i \in Offsets :
          /\ request_user[i] = 0
          /\ \A j \in Offsets : j < i => request_user[j] # 0
          /\ request_user' = [request_user EXCEPT ![i] = fd]
    /\ epoll' = epoll \cup {fd}
    /\ UNCHANGED <<memory, disk, pc, unique_datakey, account_group, datakey, target,
                   answers, lapse>>

\* RemoveUser: the peer hung up (main), or a receive failed (ReceiveRequest).
RemoveUser(fd) ==
    /\ pc = "loop"
    /\ fd \in epoll
    /\ request_user' = [request_user EXCEPT ![GetUserOffset(fd)] = 0]
    /\ epoll' = epoll \ {fd}
    /\ UNCHANGED <<memory, disk, pc, unique_datakey, account_group, datakey, target,
                   answers, lapse>>

----------------------------------------------------------------------------
(* ReceiveRequest and InsertRequestQue *)

KI_REQTYPE_TRANSACT == "T"
ReqTypes == {KI_REQTYPE_TRANSACT, "C"}

Lines == UNION {{f} \X DOMAIN reqQue[f] : f \in Files}
HasRoom == Cardinality(Lines) < MaxLines

\* A request that is not a transaction, or comes while the system is not open,
\* is answered with an error message and leaves no trace.
ReceiveRequest(fd, type, group) ==
    /\ pc = "loop"
    /\ fd \in epoll
    /\ type = KI_REQTYPE_TRANSACT
    /\ system_status
    /\ HasRoom
    /\ account_group' = group
    /\ pc' = "alloc"
    /\ UNCHANGED <<memory, disk, unique_datakey, datakey, target, users,
                   answers, lapse>>

\* datakey = ++unique_datakey, after a reset when the day has changed
AllocDatakey ==
    /\ pc = "alloc"
    /\ LET k == CounterFor(unique_datakey, system_date) IN
          /\ datakey' = NextKey(k)
          /\ unique_datakey' = NextKey(k)
          /\ lapse' = IF k.seq + 1 = KeyBase THEN lapse \cup {"carry"} ELSE lapse
    /\ pc' = "append"
    /\ UNCHANGED <<memory, disk, account_group, target, users, answers>>

\* Mistake: the line goes to the file of the day of the last datakey file.
AppendLineStaleDate ==
    /\ pc = "append"
    /\ reqQue' = [reqQue EXCEPT ![<<target, account_group>>] = Append(@, datakey)]
    /\ pc' = "truncate"
    /\ UNCHANGED <<memory, datakeyFile, unique_datakey, account_group, datakey, target,
                   users, answers, lapse>>

\* fopen "a+", fprintf, fclose: the line becomes visible as a whole.  The file
\* is named after system_date as it is now.
AppendLine ==
    /\ pc = "append"
    /\ reqQue' = [reqQue EXCEPT ![<<system_date, account_group>>] = Append(@, datakey)]
    /\ pc' = "truncate"
    /\ UNCHANGED <<memory, datakeyFile, unique_datakey, account_group, datakey, target,
                   users, answers, lapse>>

\* Mistake: the allocated datakey is returned although nothing was queued.
AppendFailsUnnoticed ==
    /\ pc = "append"
    /\ pc' = "reply"
    /\ UNCHANGED <<memory, disk, unique_datakey, account_group, datakey, target, users,
                   answers, lapse>>

\* Mistake: the datakey that was not used is given back.
AppendFailsGivesBack ==
    /\ pc = "append"
    /\ unique_datakey' = [datakey EXCEPT !.seq = @ - 1]
    /\ datakey' = ErrorKey
    /\ pc' = "reply"
    /\ UNCHANGED <<memory, disk, account_group, target, users, answers, lapse>>

\* fopen fails: InsertRequestQue returns -1
AppendFails ==
    /\ pc = "append"
    /\ datakey' = ErrorKey
    /\ pc' = "reply"
    /\ UNCHANGED <<memory, disk, unique_datakey, account_group, target, users,
                   answers, lapse>>

\* WriteDataKeyToFile: fopen "w" empties the file
TruncateDatakey ==
    /\ pc = "truncate"
    /\ target' = system_date
    /\ datakeyFile' = [datakeyFile EXCEPT ![system_date] = Holding(ZeroKey)]
    /\ pc' = "write"
    /\ UNCHANGED <<memory, reqQue, unique_datakey, account_group, datakey, users,
                   answers, lapse>>

\* WriteDataKeyToFile: fprintf and fclose
WriteDatakey ==
    /\ pc = "write"
    /\ datakeyFile' = [datakeyFile EXCEPT ![target] = Holding(datakey)]
    /\ pc' = "reply"
    /\ UNCHANGED <<memory, reqQue, unique_datakey, account_group, datakey, target, users,
                   answers, lapse>>

\* SendResponse: success 'Y' with whatever InsertRequestQue returned.  The
\* service may or may not receive it: SendTCP's result is only logged.
SendResponse ==
    /\ pc = "reply"
    /\ answers' \in {answers,
                     answers \cup {[key |-> datakey, group |-> account_group]}}
    /\ datakey' = ZeroKey
    /\ pc' = "loop"
    /\ UNCHANGED <<memory, disk, unique_datakey, account_group, target, users, lapse>>

----------------------------------------------------------------------------
Insert == \/ AllocDatakey \/ AppendLine \/ AppendFails
          \/ TruncateDatakey \/ WriteDatakey \/ SendResponse

Next ==
    \/ RollDate
    \/ SetStatus
    \/ InitServer
    \/ Crash
    \/ Interrupt
    \/ \E fd \in Fds : AcceptUser(fd) \/ RemoveUser(fd)
    \/ \E fd \in Fds, type \in ReqTypes, g \in Groups :
          ReceiveRequest(fd, type, g)
    \/ Insert

Spec == Init /\ [][Next]_vars
----------------------------------------------------------------------------
(* What the server promises *)

\* The descriptors in the user table, the ones epoll watches and the slots in
\* use correspond one to one, so that GetUserOffset finds the slot of every
\* socket that has an event (AcceptUser, RemoveUser, InitServer).
UserTableExact ==
    pc # "down" =>
        /\ epoll = Online
        /\ \A i, j \in Offsets :
              request_user[i] = request_user[j] /\ request_user[i] # 0 => i = j

TypeOK ==
    /\ system_date \in Dates
    /\ system_status \in BOOLEAN
    /\ reqQue \in [Files -> Seq(Keys)]
    /\ datakeyFile \in [Dates -> DatakeyFile]
    /\ pc \in PCs
    /\ unique_datakey \in Keys
    /\ account_group \in Groups
    /\ datakey \in Keys \cup {ErrorKey}
    /\ target \in Dates
    /\ request_user \in [Offsets -> Fds \cup {0}]
    /\ epoll \subseteq Fds
    /\ answers \subseteq Answers
    /\ lapse \subseteq {"kill", "carry"}

\* A datakey identifies one request among all the queue files of all days,
\* through restarts and changes of date, as long as the process was never
\* killed between appending a line and recording its datakey, and no day's
\* counter was exhausted.
KeysUnique ==
    lapse = {} =>
        \A f, h \in Files : \A i \in DOMAIN reqQue[f], j \in DOMAIN reqQue[h] :
            reqQue[f][i] = reqQue[h][j] => f = h /\ i = j

\* Under the same condition the datakeys of one queue file increase with the
\* line number: ResponseTransact passes over what is not larger than the datakey
\* a service logs in with, and a service resumes with the last one it got.
FileKeysIncrease ==
    lapse = {} =>
        \A f \in Files : \A i, j \in DOMAIN reqQue[f] :
            i < j => KeyLess(reqQue[f][i], reqQue[f][j])

\* A line is never filed under a day before the one in its datakey, even when
\* the date changes between the two (a line may be filed later).
\* ResponseTransact opens the files from the day of the datakey that a service
\* logs in with on, and relies on it.
KeyDateNeverAhead ==
    "carry" \notin lapse =>
        \A f \in Files : \A i \in DOMAIN reqQue[f] : reqQue[f][i].date <= f[1]

\* A service that was told a datakey finds its request in a queue file of its
\* account group, whatever was killed or restarted since.
AnsweredIsQueued ==
    \A a \in answers : a.key # ErrorKey =>
        \E d \in Dates : \E i \in DOMAIN reqQue[<<d, a.group>>] :
            reqQue[<<d, a.group>>][i] = a.key

\* While the process lives its counter never moves backwards (the reset of
\* InsertRequestQue happens only towards a later day).
CounterNeverBack ==
    [][pc # "down" /\ pc' # "down" /\ "carry" \notin lapse' =>
          ~KeyLess(unique_datakey', unique_datakey)]_vars

----------------------------------------------------------------------------
(* What the interface header promises and the code does not keep *)

\* KASConn_interface.h: a transfer is answered with a datakey that is "the
\* request's unique value".
DatakeyIsUnique ==
    \A f, h \in Files : \A i \in DOMAIN reqQue[f], j \in DOMAIN reqQue[h] :
        reqQue[f][i] = reqQue[h][j] => f = h /\ i = j
=============================================================================
