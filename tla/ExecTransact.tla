---------------------------- MODULE ExecTransact ----------------------------
(***************************************************************************)
(* The transaction executor, src/src/process/ExecTransact.c.  Its main     *)
(* thread looks every ten seconds for queue files of the current day whose *)
(* account group it does not know yet and starts a worker thread for each. *)
(* A worker reads its file line by line, lets a Node process send the      *)
(* transaction, appends the answer to the response file and records the    *)
(* number of the line in data/line/ExecTransact.<date>.req.<group>.line,   *)
(* where the next run of the program picks up (GetReadLineNum and          *)
(* WriteReadLineNum of src/src/lib/ft_common.c).                           *)
(*                                                                         *)
(* A line is known by its number in its file.  All threads interleave, the *)
(* process can be killed or asked to stop at any point, and the queue      *)
(* files grow and the date changes meanwhile.                              *)
(***************************************************************************)
EXTENDS Integers, Sequences, FiniteSets

CONSTANTS
    Dates,              \* the days the system lives through
    Groups,             \* account groups
    Fold,               \* Fold[g]: what strcasecmp compares of group g
    THREAD_WAIT_COUNT,  \* polls of an old day's file before its worker ends
    MaxLines,           \* bound: lines per queue file
    MaxStarts           \* bound: times the program is started

ASSUME DatesAssumption == Dates \subseteq Nat
ASSUME FoldAssumption == DOMAIN Fold = Groups
ASSUME WaitAssumption == THREAD_WAIT_COUNT \in Nat
ASSUME BoundsAssumption == MaxLines \in Nat /\ MaxStarts \in Nat

VARIABLES
    system_date,        \* mdb->system_date
    lines,              \* lines[f]: complete lines in queue file f
    main,               \* where the main thread is
    account_group,      \* the main thread's account_group
    thread,             \* the thread table with each worker's own state
    thread_count,
    thread_terminate,
    lineFile,           \* what GetReadLineNum reads; an empty file reads as 0
    resQue,             \* line numbers answered in each response file
    handled,            \* history: per file, the lines handed to Node or refused
    starts,             \* history: number of starts
    lapse               \* history: files whose worker was killed at work

vars == <<system_date, lines, main, account_group, thread, thread_count,
          thread_terminate, lineFile, resQue, handled, starts, lapse>>

env     == <<system_date, lines>>
table   == <<thread, thread_count>>
disk    == <<lineFile, resQue>>
history == <<handled, starts, lapse>>

----------------------------------------------------------------------------
Files   == Dates \X Groups
Workers == DOMAIN thread

\* A worker is past the first effect of a line that is not recorded yet.
Unrecorded == {"respond", "truncate", "write"}
WorkerPCs  == {"start", "read", "call", "done"} \cup Unrecorded

Worker == [date : Dates, account_group : Groups, pc : WorkerPCs,
           linenum : Nat, finish_line : Nat, wait_count : Nat]

\* Mistake: lines are counted from the wrong end of the first one.
NewWorkerOffByOne(d, g) == [date |-> d, account_group |-> g, pc |-> "start",
                            linenum |-> 0 - 1, finish_line |-> 0, wait_count |-> 0]

NewWorker(d, g) == [date |-> d, account_group |-> g, pc |-> "start",
                    linenum |-> 0, finish_line |-> 0, wait_count |-> 0]

FileOf(i) == <<thread[i].date, thread[i].account_group>>

\* Files whose worker would be killed with a line in its hands
AtWork == {FileOf(i) : i \in {j \in Workers : thread[j].pc \in Unrecorded}}

----------------------------------------------------------------------------
Init ==
    /\ system_date \in Dates
    /\ lines = [f \in Files |-> 0]
    /\ main = "down"
    /\ account_group \in Groups
    /\ thread = <<>>
    /\ thread_count = 0
    /\ thread_terminate = FALSE
    /\ lineFile = [f \in Files |-> 0]
    /\ resQue = [f \in Files |-> <<>>]
    /\ handled = [f \in Files |-> <<>>]
    /\ starts = 0
    /\ lapse = {}

(* The rest of the system *)

\* RequestTransact appends a line to a file of the current day.
Arrive(g) ==
    /\ lines[<<system_date, g>>] < MaxLines
    /\ lines' = [lines EXCEPT ![<<system_date, g>>] = @ + 1]
    /\ UNCHANGED <<system_date, main, account_group, table, thread_terminate,
                   disk, history>>

\* InitMemory system_date
RollDate ==
    /\ \E d \in Dates : d > system_date /\ system_date' = d
    /\ UNCHANGED <<lines, main, account_group, table, thread_terminate, disk, history>>

----------------------------------------------------------------------------
(* The main thread *)

InitServer ==
    /\ main = "down"
    /\ starts < MaxStarts
    /\ main' = "scan"
    /\ starts' = starts + 1
    /\ thread' = <<>>
    /\ thread_count' = 0
    /\ thread_terminate' = FALSE
    /\ UNCHANGED <<env, account_group, disk, handled, lapse>>

\* Mistake: the search begins with the second entry.
KnownFromSecond(g) == \E i \in 2 .. thread_count : Fold[thread[i].account_group] = Fold[g]

\* Only the group is compared, not the day, and entries are never removed.
Known(g) == \E i \in 1 .. thread_count : Fold[thread[i].account_group] = Fold[g]

\* Groups with a queue file of today and no entry in the thread table
NewGroups == {g \in Groups : lines[<<system_date, g>>] > 0 /\ ~Known(g)}

Scan ==
    /\ main = "scan"
    /\ IF NewGroups = {}
       THEN UNCHANGED <<main, account_group>>     \* sleep, then scan again
       ELSE account_group' \in NewGroups /\ main' = "create"
    /\ UNCHANGED <<env, table, thread_terminate, disk, history>>

\* The entry takes the date as it is now, and pthread_create starts the worker.
CreateThread ==
    /\ main = "create"
    /\ thread' = Append(thread, NewWorker(system_date, account_group))
    /\ main' = "count"
    /\ UNCHANGED <<env, account_group, thread_count, thread_terminate, disk, history>>

\* thread_count++
CountThread ==
    /\ main = "count"
    /\ thread_count' = thread_count + 1
    /\ main' = "scan"
    /\ UNCHANGED <<env, account_group, thread, thread_terminate, disk, history>>

\* interrupt(), from the signal handler anywhere in main, or because opendir or
\* pthread_create failed: the workers are told to finish.
Interrupt ==
    /\ main \in {"scan", "create", "count"}
    /\ starts < MaxStarts
    /\ thread_terminate' = TRUE
    /\ main' = "join"
    /\ UNCHANGED <<env, account_group, table, disk, history>>

\* interrupt() has joined every counted worker and exits.
Exit ==
    /\ main = "join"
    /\ \A i \in 1 .. thread_count : thread[i].pc = "done"
    /\ main' = "down"
    /\ thread' = <<>>
    /\ thread_count' = 0
    /\ lapse' = lapse \cup AtWork
    /\ UNCHANGED <<env, account_group, thread_terminate, disk, handled, starts>>

Crash ==
    /\ main # "down"
    /\ starts < MaxStarts
    /\ main' = "down"
    /\ thread' = <<>>
    /\ thread_count' = 0
    /\ lapse' = lapse \cup AtWork
    /\ UNCHANGED <<env, account_group, thread_terminate, disk, handled, starts>>

----------------------------------------------------------------------------
(* A worker: ThreadProcess *)

\* finish_line is read, then the queue file is opened; without it the worker ends.
Start(i) ==
    /\ thread[i].pc = "start"
    /\ thread' = [thread EXCEPT
                     ![i].finish_line = lineFile[FileOf(i)],
                     ![i].pc = IF lines[FileOf(i)] > 0 THEN "read" ELSE "done"]
    /\ UNCHANGED <<env, main, account_group, thread_count, thread_terminate, disk, history>>

\* Mistakes: the last recorded line is read again; one line too many is skipped;
\* nothing is skipped.
SkipsBelow(i)  == thread[i].linenum + 1 < thread[i].finish_line
SkipsBeyond(i) == thread[i].linenum <= thread[i].finish_line
SkipsNothing(i) == FALSE

\* if ( linenum <= finish_line ) continue
Skips(i) == thread[i].linenum + 1 <= thread[i].finish_line

\* fgets returns a line.
ReadLine(i) ==
    /\ thread[i].pc = "read"
    /\ ~thread_terminate
    /\ thread[i].linenum < lines[FileOf(i)]
    /\ thread' = [thread EXCEPT
                     ![i].linenum = @ + 1,
                     ![i].pc = IF Skips(i) THEN "read" ELSE "call"]
    /\ UNCHANGED <<env, main, account_group, thread_count, thread_terminate, disk, history>>

\* Mistake: an old day's worker counts down even while lines are left.
PollAnywhere(i) ==
    /\ thread[i].pc = "read"
    /\ ~thread_terminate
    /\ thread[i].date # system_date
    /\ thread' = [thread EXCEPT
            ![i].wait_count = @ + 1,
            ![i].pc = IF thread[i].wait_count + 1 > THREAD_WAIT_COUNT
                      THEN "done" ELSE "read"]
    /\ UNCHANGED <<env, main, account_group, thread_count, thread_terminate, disk, history>>

\* fgets is at the end of the file.  On a later day the worker counts its polls
\* and finally ends.
PollEnd(i) ==
    /\ thread[i].pc = "read"
    /\ ~thread_terminate
    /\ thread[i].linenum = lines[FileOf(i)]
    /\ IF thread[i].date = system_date
       THEN UNCHANGED thread
       ELSE thread' = [thread EXCEPT
                ![i].wait_count = @ + 1,
                ![i].pc = IF thread[i].wait_count + 1 > THREAD_WAIT_COUNT
                          THEN "done" ELSE "read"]
    /\ UNCHANGED <<env, main, account_group, thread_count, thread_terminate, disk, history>>

\* while ( !thread_terminate )
Leave(i) ==
    /\ thread[i].pc = "read"
    /\ thread_terminate
    /\ thread' = [thread EXCEPT ![i].pc = "done"]
    /\ UNCHANGED <<env, main, account_group, thread_count, thread_terminate, disk, history>>

Handle(i, node) ==
    handled' = [handled EXCEPT ![FileOf(i)] =
                   Append(@, [line |-> thread[i].linenum, node |-> node])]

\* SendTransactToKlaytn or SendTransactToKAS ran Node.  If Node printed nothing
\* there is no answer to queue.
CallNode(i) ==
    /\ thread[i].pc = "call"
    /\ Handle(i, TRUE)
    /\ \E next \in {"respond", "truncate"} : thread' = [thread EXCEPT ![i].pc = next]
    /\ UNCHANGED <<env, main, account_group, thread_count, thread_terminate, disk,
                   starts, lapse>>

\* Unknown account_type, or popen failed: SendErrorMessage without running Node.
RefuseLine(i) ==
    /\ thread[i].pc = "call"
    /\ Handle(i, FALSE)
    /\ thread' = [thread EXCEPT ![i].pc = "respond"]
    /\ UNCHANGED <<env, main, account_group, thread_count, thread_terminate, disk,
                   starts, lapse>>

\* InsertResponseQue; when the response file cannot be opened the answer is lost.
InsertResponseQue(i) ==
    /\ thread[i].pc = "respond"
    /\ resQue' \in {resQue, [resQue EXCEPT ![FileOf(i)] = Append(@, thread[i].linenum)]}
    /\ thread' = [thread EXCEPT ![i].pc = "truncate"]
    /\ UNCHANGED <<env, main, account_group, thread_count, thread_terminate,
                   lineFile, history>>

\* WriteReadLineNum: fopen "w" empties the line file ...
TruncateLineFile(i) ==
    /\ thread[i].pc = "truncate"
    /\ lineFile' = [lineFile EXCEPT ![FileOf(i)] = 0]
    /\ thread' = [thread EXCEPT ![i].pc = "write"]
    /\ UNCHANGED <<env, main, account_group, thread_count, thread_terminate,
                   resQue, history>>

\* Mistake: the line the worker began after is recorded again.
WriteFinishLine(i) ==
    /\ thread[i].pc = "write"
    /\ lineFile' = [lineFile EXCEPT ![FileOf(i)] = thread[i].finish_line]
    /\ thread' = [thread EXCEPT ![i].pc = "read"]
    /\ UNCHANGED <<env, main, account_group, thread_count, thread_terminate,
                   resQue, history>>

\* ... and fclose puts the number there.
WriteReadLineNum(i) ==
    /\ thread[i].pc = "write"
    /\ lineFile' = [lineFile EXCEPT ![FileOf(i)] = thread[i].linenum]
    /\ thread' = [thread EXCEPT ![i].pc = "read"]
    /\ UNCHANGED <<env, main, account_group, thread_count, thread_terminate,
                   resQue, history>>

ThreadProcess(i) ==
    \/ Start(i) \/ ReadLine(i) \/ PollEnd(i) \/ Leave(i)
    \/ CallNode(i) \/ RefuseLine(i) \/ InsertResponseQue(i)
    \/ TruncateLineFile(i) \/ WriteReadLineNum(i)

----------------------------------------------------------------------------
MainThread == Scan \/ CreateThread \/ CountThread \/ Exit

Next ==
    \/ \E g \in Groups : Arrive(g)
    \/ RollDate
    \/ InitServer
    \/ MainThread
    \/ Interrupt
    \/ Crash
    \/ \E i \in Workers : ThreadProcess(i)

Spec == Init /\ [][Next]_vars

\* ProcessManager restarts the program, and every thread keeps running.
Fairness ==
    /\ WF_vars(InitServer)
    /\ WF_vars(MainThread)
    /\ \A i \in 1 .. Cardinality(Groups) : WF_vars(i \in Workers /\ ThreadProcess(i))

FairSpec == Spec /\ Fairness
----------------------------------------------------------------------------
(* What the executor promises *)

Handled(f, n) == \E k \in DOMAIN handled[f] : handled[f][k].line = n
Times(f, n)   == Cardinality({k \in DOMAIN handled[f] : handled[f][k].line = n})

TypeOK ==
    /\ system_date \in Dates
    /\ lines \in [Files -> Nat]
    /\ main \in {"down", "scan", "create", "count", "join"}
    /\ account_group \in Groups
    /\ thread \in Seq(Worker)
    /\ thread_count \in Nat
    /\ thread_terminate \in BOOLEAN
    /\ lineFile \in [Files -> Nat]
    /\ resQue \in [Files -> Seq(Nat)]
    /\ handled \in [Files -> Seq([line : Nat, node : BOOLEAN])]
    /\ starts \in Nat
    /\ lapse \subseteq Files

\* No two workers ever read the same queue file, so that a line is not sent to
\* Node by both (the scan, the thread table and the join in interrupt()).
OneWorkerPerFile ==
    \A i, j \in Workers : FileOf(i) = FileOf(j) => i = j

\* Unless a worker was killed with a line in its hands, the lines of a file are
\* handled from the first on, in order, each exactly once, through any number
\* of stops, crashes between lines, restarts and changes of date.
HandledOnceInOrder ==
    \A f \in Files \ lapse : \A k \in DOMAIN handled[f] : handled[f][k].line = k

\* Even then no line is passed over: whatever line number a restart would read,
\* all lines up to it have been handled.
NothingSkipped ==
    \A f \in Files : \A n \in 1 .. lineFile[f] : Handled(f, n)

\* A line is handled at most once per start of the program, whatever was killed.
OncePerStart ==
    \A f \in Files : \A n \in 1 .. MaxLines : Times(f, n) <= starts

\* Answers follow the order of the lines, each for a line already handled: a
\* service logs in again with the largest datakey that it received, and
\* ResponseTransact passes over what is not larger.
AnswersInOrder ==
    \A f \in Files :
        /\ \A k \in DOMAIN resQue[f] : Handled(f, resQue[f][k])
        /\ f \notin lapse =>
              \A j, k \in DOMAIN resQue[f] : j < k => resQue[f][j] < resQue[f][k]

\* A worker opened the file; one that did not find it ended with linenum 0.
Opened(f) == \E i \in Workers :
                /\ FileOf(i) = f
                /\ \/ thread[i].pc \notin {"start", "done"}
                   \/ thread[i].pc = "done" /\ thread[i].linenum > 0

\* Every queued line is handled as long as the program is not stopped: a worker
\* that has opened a file finishes it, whatever the date becomes, and a file of
\* today whose group is new gets a worker.  What is left out happens: the day
\* ended before a worker was started for the file, or the file's group was
\* already in the thread table (Known).
LinesGetHandled ==
    \A f \in Files : \A n \in 1 .. MaxLines :
        lines[f] >= n ~> \/ Handled(f, n)
                         \/ main \in {"down", "join"}
                         \/ ~Opened(f) /\ (system_date # f[1] \/ Known(f[2]))

\* The executor implements TransactLedger: a file's position is the line a
\* worker has in its hands, and otherwise what a restart would read.
Position(f) ==
    LET busy == {i \in Workers : FileOf(i) = f /\ thread[i].pc \in Unrecorded}
    IN  IF busy = {} THEN lineFile[f] ELSE thread[CHOOSE i \in busy : TRUE].linenum

Ledger == INSTANCE TransactLedger WITH
    position <- [f \in Files |-> Position(f)],
    handled  <- [f \in Files |-> [k \in DOMAIN handled[f] |-> handled[f][k].line]],
    rewound  <- lapse

ImplementsLedger == Ledger!Spec

----------------------------------------------------------------------------
(* What the source says of itself and does not keep *)

Reads(f) == \E i \in Workers : FileOf(i) = f /\ thread[i].pc # "done"

\* ExecTransact.c, main: "checks whether a new file was created" and "creates a
\* thread that watches and processes the queue file".
NewFileGetsWorker ==
    \A f \in Files :
        lines[f] > 0 ~> Reads(f) \/ main \in {"down", "join"} \/ system_date # f[1]
=============================================================================
