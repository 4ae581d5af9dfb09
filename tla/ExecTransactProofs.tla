------------------------- MODULE ExecTransactProofs -------------------------
(***************************************************************************)
(* Proofs about ExecTransact, for every set of days and groups, every      *)
(* number of lines, starts and polls.                                      *)
(***************************************************************************)
EXTENDS ExecTransact, FiniteSetTheorems, TLAPS

\* The thread table against the main thread's position: thread_count leaves out
\* at most the worker just created.
TableInv ==
    /\ main = "down" => thread = <<>> /\ thread_count = 0
    /\ main \in {"scan", "create"} => Len(thread) = thread_count
    /\ main = "count" => Len(thread) = thread_count + 1
    /\ main = "join" => Len(thread) \in {thread_count, thread_count + 1}
    /\ main = "create" => ~Known(account_group)

\* No two entries of the table have the same group to strcasecmp.
GroupsDiffer ==
    \A i, j \in Workers :
        Fold[thread[i].account_group] = Fold[thread[j].account_group] => i = j

----------------------------------------------------------------------------
LEMMA ConstantFacts == Dates \subseteq Nat /\ DOMAIN Fold = Groups
BY DatesAssumption, FoldAssumption

\* Replacing the state of one worker
LEMMA UpdateWorker ==
    ASSUME NEW t \in Seq(Worker), NEW i \in DOMAIN t, NEW w \in Worker
    PROVE  /\ [t EXCEPT ![i] = w] \in Seq(Worker)
           /\ Len([t EXCEPT ![i] = w]) = Len(t)
           /\ DOMAIN [t EXCEPT ![i] = w] = DOMAIN t
           /\ [t EXCEPT ![i] = w][i] = w
           /\ \A j \in DOMAIN t : j # i => [t EXCEPT ![i] = w][j] = t[j]
OBVIOUS

\* What a worker's own steps do to its entry keeps it a worker of the same file.
LEMMA WorkerFields ==
    ASSUME NEW w \in Worker, NEW n \in Nat, NEW x \in WorkerPCs
    PROVE  /\ [w EXCEPT !.linenum = n, !.pc = x] \in Worker
           /\ [w EXCEPT !.linenum = n, !.pc = x].date = w.date
           /\ [w EXCEPT !.linenum = n, !.pc = x].account_group = w.account_group
           /\ [w EXCEPT !.wait_count = n, !.pc = x] \in Worker
           /\ [w EXCEPT !.wait_count = n, !.pc = x].date = w.date
           /\ [w EXCEPT !.wait_count = n, !.pc = x].account_group = w.account_group
BY DEF Worker

\* What the EXCEPTs of the worker's actions leave in the fields
LEMMA WorkerExcept ==
    ASSUME NEW t \in Seq(Worker), NEW i \in DOMAIN t, NEW x, NEW n
    PROVE  /\ [t EXCEPT ![i].pc = x][i] = [t[i] EXCEPT !.pc = x]
           /\ [t EXCEPT ![i].finish_line = n, ![i].pc = x][i]
                 = [t[i] EXCEPT !.finish_line = n, !.pc = x]
           /\ [t EXCEPT ![i].linenum = n, ![i].pc = x][i]
                 = [t[i] EXCEPT !.linenum = n, !.pc = x]
           /\ [t EXCEPT ![i].wait_count = n, ![i].pc = x][i]
                 = [t[i] EXCEPT !.wait_count = n, !.pc = x]
OBVIOUS

LEMMA FieldExcept ==
    ASSUME NEW w \in Worker, NEW x, NEW n
    PROVE  /\ [w EXCEPT !.pc = x].pc = x
           /\ [w EXCEPT !.pc = x].linenum = w.linenum
           /\ [w EXCEPT !.pc = x].finish_line = w.finish_line
           /\ [w EXCEPT !.finish_line = n, !.pc = x].pc = x
           /\ [w EXCEPT !.finish_line = n, !.pc = x].linenum = w.linenum
           /\ [w EXCEPT !.finish_line = n, !.pc = x].finish_line = n
           /\ [w EXCEPT !.linenum = n, !.pc = x].pc = x
           /\ [w EXCEPT !.linenum = n, !.pc = x].linenum = n
           /\ [w EXCEPT !.linenum = n, !.pc = x].finish_line = w.finish_line
           /\ [w EXCEPT !.wait_count = n, !.pc = x].pc = x
           /\ [w EXCEPT !.wait_count = n, !.pc = x].linenum = w.linenum
           /\ [w EXCEPT !.wait_count = n, !.pc = x].finish_line = w.finish_line
BY DEF Worker

LEMMA EmptyTable ==
    /\ <<>> \in Seq(Worker)
    /\ Len(<<>>) = 0
    /\ DOMAIN <<>> = {}
OBVIOUS

LEMMA AddWorker ==
    ASSUME NEW t \in Seq(Worker), NEW w \in Worker
    PROVE  /\ Append(t, w) \in Seq(Worker)
           /\ Len(Append(t, w)) = Len(t) + 1
           /\ DOMAIN t = 1 .. Len(t) /\ Len(t) \in Nat
           /\ DOMAIN Append(t, w) = DOMAIN t \cup {Len(t) + 1}
           /\ Append(t, w)[Len(t) + 1] = w
           /\ \A j \in DOMAIN t : Append(t, w)[j] = t[j]
OBVIOUS

\* Every step of a worker replaces its own entry, keeping day and group, and
\* touches the files of no other.
WorkerStep(i) ==
    /\ i \in Workers
    /\ \E w \in Worker : /\ thread' = [thread EXCEPT ![i] = w]
                         /\ w.date = thread[i].date
                         /\ w.account_group = thread[i].account_group
    /\ UNCHANGED <<env, main, account_group, thread_count, thread_terminate,
                   starts, lapse>>
    /\ \A f \in Files : f # FileOf(i) =>
          /\ lineFile'[f] = lineFile[f]
          /\ resQue'[f] = resQue[f]
          /\ handled'[f] = handled[f]

LEMMA FileOfType ==
    ASSUME TypeOK, NEW i \in Workers
    PROVE  /\ thread[i] \in Worker /\ FileOf(i) \in Files
           /\ lineFile[FileOf(i)] \in Nat
           /\ lines[FileOf(i)] \in Nat
<1>1. thread[i] \in Worker
  BY DEF TypeOK, Workers
<1>2. FileOf(i) \in Files
  BY <1>1 DEF FileOf, Files, Worker
<1> QED
  BY <1>1, <1>2 DEF TypeOK

FileTypes == \A i \in Workers : FileOf(i) \in Files

LEMMA FileTypesHold == TypeOK => FileTypes
BY FileOfType DEF FileTypes

LEMMA FileTypesHoldNext == TypeOK' => FileTypes'
BY FileTypesHold, PTL

LEMMA HandledAppend ==
    ASSUME NEW s \in Seq([line : Nat, node : BOOLEAN]), NEW n \in Nat, NEW b \in BOOLEAN
    PROVE  Append(s, [line |-> n, node |-> b]) \in Seq([line : Nat, node : BOOLEAN])
OBVIOUS

LEMMA WorkerStepType ==
    ASSUME TypeOK, NEW i \in Workers, ThreadProcess(i)
    PROVE  TypeOK' /\ WorkerStep(i)
<1> DEFINE f == FileOf(i)
<1>1. /\ thread[i] \in Worker /\ f \in Files /\ thread \in Seq(Worker)
      /\ lineFile \in [Files -> Nat] /\ resQue \in [Files -> Seq(Nat)]
      /\ handled \in [Files -> Seq([line : Nat, node : BOOLEAN])]
  BY FileOfType DEF TypeOK
<1>2. thread[i].linenum \in Nat
  BY <1>1 DEF Worker
<1>3. ASSUME NEW w \in Worker, thread' = [thread EXCEPT ![i] = w],
             w.date = thread[i].date, w.account_group = thread[i].account_group,
             UNCHANGED <<env, main, account_group, thread_count, thread_terminate,
                         starts, lapse>>,
             \E n \in Nat : lineFile' = [lineFile EXCEPT ![f] = n],
             \E s \in Seq(Nat) : resQue' = [resQue EXCEPT ![f] = s],
             \E s \in Seq([line : Nat, node : BOOLEAN]) :
                 handled' = [handled EXCEPT ![f] = s]
      PROVE  TypeOK' /\ WorkerStep(i)
  <2>1. thread' \in Seq(Worker)
    BY <1>1, <1>3, UpdateWorker DEF Workers
  <2>2. lineFile' \in [Files -> Nat] /\ resQue' \in [Files -> Seq(Nat)]
        /\ handled' \in [Files -> Seq([line : Nat, node : BOOLEAN])]
    BY <1>1, <1>3
  <2> QED
    BY <1>1, <1>3, <2>1, <2>2 DEF TypeOK, WorkerStep, env
<1>4. /\ \E n \in Nat : lineFile = [lineFile EXCEPT ![f] = n]
      /\ \E s \in Seq(Nat) : resQue = [resQue EXCEPT ![f] = s]
      /\ \E s \in Seq([line : Nat, node : BOOLEAN]) : handled = [handled EXCEPT ![f] = s]
  <2>1. /\ lineFile[f] \in Nat /\ lineFile = [lineFile EXCEPT ![f] = lineFile[f]]
        /\ resQue[f] \in Seq(Nat) /\ resQue = [resQue EXCEPT ![f] = resQue[f]]
        /\ handled[f] \in Seq([line : Nat, node : BOOLEAN])
        /\ handled = [handled EXCEPT ![f] = handled[f]]
    BY <1>1
  <2> QED
    BY <2>1
\* the two functions as the quantified facts <1>3 asks for
<1>5. ASSUME NEW x \in WorkerPCs
      PROVE  /\ [thread[i] EXCEPT !.pc = x] \in Worker
             /\ [thread EXCEPT ![i].pc = x] = [thread EXCEPT ![i] = [thread[i] EXCEPT !.pc = x]]
             /\ [thread[i] EXCEPT !.pc = x].date = thread[i].date
             /\ [thread[i] EXCEPT !.pc = x].account_group = thread[i].account_group
  BY <1>1, <1>5 DEF Worker
<1> HIDE DEF f
<1>6. CASE Start(i)
  <2> DEFINE x == IF lines[f] > 0 THEN "read" ELSE "done"
             w == [thread[i] EXCEPT !.finish_line = lineFile[f], !.pc = x]
  <2>1. w \in Worker /\ w.date = thread[i].date
        /\ w.account_group = thread[i].account_group
    BY <1>1 DEF Worker, WorkerPCs
  <2>2. thread' = [thread EXCEPT ![i] = w]
    BY <1>6 DEF Start, f
  <2> HIDE DEF w
  <2> QED
    BY <1>3, <1>4, <1>6, <2>1, <2>2 DEF Start, disk, history
<1>7. CASE ReadLine(i)
  <2> DEFINE x == IF Skips(i) THEN "read" ELSE "call"
             w == [thread[i] EXCEPT !.linenum = @ + 1, !.pc = x]
  <2>1. w \in Worker /\ w.date = thread[i].date
        /\ w.account_group = thread[i].account_group
    <3>1. x \in WorkerPCs
      BY DEF WorkerPCs
    <3>2. thread[i].linenum + 1 \in Nat
      BY <1>2
    <3> DEFINE n == thread[i].linenum + 1
    <3>3. thread[i] \in Worker /\ n \in Nat
      BY <1>1, <3>2
    <3> HIDE DEF x, n
    <3>4. /\ [thread[i] EXCEPT !.linenum = n, !.pc = x] \in Worker
          /\ [thread[i] EXCEPT !.linenum = n, !.pc = x].date = thread[i].date
          /\ [thread[i] EXCEPT !.linenum = n, !.pc = x].account_group
                = thread[i].account_group
      BY <3>1, <3>3, WorkerFields
    <3> QED
      BY <3>4 DEF n
  <2>2. thread' = [thread EXCEPT ![i] = w]
    BY <1>7 DEF ReadLine
  <2> HIDE DEF w
  <2> QED
    BY <1>3, <1>4, <1>7, <2>1, <2>2 DEF ReadLine, disk, history
<1>8. CASE PollEnd(i)
  <2>1. CASE UNCHANGED thread
    <3>1. thread' = [thread EXCEPT ![i] = thread[i]]
      BY <1>1, <2>1
    <3> QED
      BY <1>1, <1>3, <1>4, <1>8, <3>1 DEF PollEnd, disk, history
  <2>2. CASE thread[i].date # system_date
    <3> DEFINE x == IF thread[i].wait_count + 1 > THREAD_WAIT_COUNT THEN "done" ELSE "read"
               w == [thread[i] EXCEPT !.wait_count = @ + 1, !.pc = x]
    <3>1. w \in Worker /\ w.date = thread[i].date
          /\ w.account_group = thread[i].account_group
      <4>1. x \in WorkerPCs
        BY DEF WorkerPCs
      <4>2. thread[i].wait_count + 1 \in Nat
        BY <1>1 DEF Worker
      <4> DEFINE n == thread[i].wait_count + 1
      <4>3. thread[i] \in Worker /\ n \in Nat
        BY <1>1, <4>2
      <4> HIDE DEF x, n
      <4>4. /\ [thread[i] EXCEPT !.wait_count = n, !.pc = x] \in Worker
            /\ [thread[i] EXCEPT !.wait_count = n, !.pc = x].date = thread[i].date
            /\ [thread[i] EXCEPT !.wait_count = n, !.pc = x].account_group
                  = thread[i].account_group
        BY <4>1, <4>3, WorkerFields
      <4> QED
        BY <4>4 DEF n
    <3>2. thread' = [thread EXCEPT ![i] = w]
      BY <1>8, <2>2 DEF PollEnd
    <3> HIDE DEF w
    <3> QED
      BY <1>3, <1>4, <1>8, <3>1, <3>2 DEF PollEnd, disk, history
  <2> QED
    BY <1>8, <2>1, <2>2 DEF PollEnd
<1>9. CASE Leave(i)
  <2>1. "done" \in WorkerPCs
    BY DEF WorkerPCs
  <2> QED
    BY <1>3, <1>4, <1>5, <1>9, <2>1 DEF Leave, disk, history
<1>10. CASE CallNode(i) \/ RefuseLine(i)
  <2>1. PICK x \in {"respond", "truncate"} : thread' = [thread EXCEPT ![i].pc = x]
    BY <1>10 DEF CallNode, RefuseLine
  <2>2. x \in WorkerPCs
    BY <2>1 DEF WorkerPCs, Unrecorded
  <2>3. PICK b \in BOOLEAN : handled' = [handled EXCEPT ![f] =
                                Append(@, [line |-> thread[i].linenum, node |-> b])]
    BY <1>10 DEF CallNode, RefuseLine, Handle, f
  <2>4. \E s \in Seq([line : Nat, node : BOOLEAN]) : handled' = [handled EXCEPT ![f] = s]
    BY <1>1, <1>2, <2>3, HandledAppend
  <2> QED
    BY <1>3, <1>4, <1>5, <1>10, <2>1, <2>2, <2>4 DEF CallNode, RefuseLine, disk
<1>11. CASE InsertResponseQue(i)
  <2>1. "truncate" \in WorkerPCs
    BY DEF WorkerPCs, Unrecorded
  <2>2. \E s \in Seq(Nat) : resQue' = [resQue EXCEPT ![f] = s]
    <3>1. Append(resQue[f], thread[i].linenum) \in Seq(Nat)
      BY <1>1, <1>2
    <3> QED
      BY <1>4, <1>11, <3>1 DEF InsertResponseQue, f
  <2> QED
    BY <1>3, <1>4, <1>5, <1>11, <2>1, <2>2 DEF InsertResponseQue, history
<1>12. CASE TruncateLineFile(i)
  <2>1. "write" \in WorkerPCs
    BY DEF WorkerPCs, Unrecorded
  <2>2. \E n \in Nat : lineFile' = [lineFile EXCEPT ![f] = n]
    BY <1>12 DEF TruncateLineFile, f
  <2> QED
    BY <1>3, <1>4, <1>5, <1>12, <2>1, <2>2 DEF TruncateLineFile, history
<1>13. CASE WriteReadLineNum(i)
  <2>1. "read" \in WorkerPCs
    BY DEF WorkerPCs
  <2>2. \E n \in Nat : lineFile' = [lineFile EXCEPT ![f] = n]
    BY <1>2, <1>13 DEF WriteReadLineNum, f
  <2> QED
    BY <1>3, <1>4, <1>5, <1>13, <2>1, <2>2 DEF WriteReadLineNum, history
<1> QED
  BY <1>6, <1>7, <1>8, <1>9, <1>10, <1>11, <1>12, <1>13 DEF ThreadProcess

----------------------------------------------------------------------------
(* Types and the thread table *)

SInv == TypeOK /\ TableInv /\ GroupsDiffer

LEMMA SInit == Init => SInv
<1> SUFFICES ASSUME Init PROVE SInv
  OBVIOUS
<1>1. thread \in Seq(Worker) /\ Len(thread) = 0 /\ Workers = {}
  BY DEF Init, Workers
<1>2. lines \in [Files -> Nat] /\ lineFile \in [Files -> Nat]
  BY DEF Init
<1>3. resQue \in [Files -> Seq(Nat)]
  BY DEF Init
<1>4. handled \in [Files -> Seq([line : Nat, node : BOOLEAN])]
  BY DEF Init
<1>5. TypeOK
  BY <1>1, <1>2, <1>3, <1>4 DEF Init, TypeOK
<1> QED
  BY <1>1, <1>5 DEF Init, SInv, TableInv, GroupsDiffer

\* A worker step leaves the table's groups and the main thread alone.
LEMMA WorkerStepTable ==
    ASSUME SInv, NEW i \in Workers, WorkerStep(i)
    PROVE  /\ TableInv' /\ GroupsDiffer'
           /\ Workers' = Workers
           /\ \A j \in Workers : FileOf(j)' = FileOf(j)
           /\ \A j \in Workers : j # i => thread'[j] = thread[j]
<1>1. PICK w \in Worker : /\ thread' = [thread EXCEPT ![i] = w]
                          /\ w.date = thread[i].date
                          /\ w.account_group = thread[i].account_group
  BY DEF WorkerStep
<1>2. thread \in Seq(Worker) /\ i \in DOMAIN thread
  BY DEF SInv, TypeOK, Workers
<1>3. /\ Len(thread') = Len(thread) /\ DOMAIN thread' = DOMAIN thread
      /\ thread'[i] = w
      /\ \A j \in DOMAIN thread : j # i => thread'[j] = thread[j]
  BY <1>1, <1>2, UpdateWorker
<1>4. \A j \in Workers : /\ thread'[j].account_group = thread[j].account_group
                         /\ thread'[j].date = thread[j].date
  BY <1>1, <1>3 DEF Workers
<1>5. thread # <<>> /\ Len(thread) \in Nat /\ DOMAIN thread = 1 .. Len(thread)
  BY <1>2
<1>6. TableInv'
  <2>1. main = "create" => ~Known(account_group)'
    <3>1. main = "create" => 1 .. thread_count = Workers
      BY <1>5 DEF SInv, TableInv, Workers
    <3> QED
      BY <1>4, <3>1 DEF SInv, TableInv, Known, WorkerStep
  <2> QED
    BY <1>3, <1>5, <2>1 DEF SInv, TableInv, WorkerStep
<1>7. GroupsDiffer'
  BY <1>3, <1>4 DEF SInv, GroupsDiffer, Workers
<1> QED
  BY <1>3, <1>4, <1>6, <1>7 DEF Workers, FileOf

LEMMA SStep == SInv /\ [Next]_vars => SInv'
<1> SUFFICES ASSUME SInv, [Next]_vars PROVE SInv'
  OBVIOUS
<1> USE DEF SInv, env, table, disk, history
<1>1. CASE \E g \in Groups : Arrive(g)
  <2>1. PICK g \in Groups : Arrive(g)
    BY <1>1
  <2>2. lines' \in [Files -> Nat]
    BY <2>1 DEF Arrive, TypeOK, Files
  <2> QED
    BY <2>1, <2>2 DEF Arrive, TypeOK, TableInv, GroupsDiffer, Workers, Known
<1>2. CASE RollDate
  BY <1>2 DEF RollDate, TypeOK, TableInv, GroupsDiffer, Workers, Known
<1>3. CASE InitServer
  <2>1. thread' \in Seq(Worker) /\ Len(thread') = 0 /\ DOMAIN thread' = {}
    BY <1>3, EmptyTable DEF InitServer
  <2>2. starts' \in Nat
    BY <1>3 DEF InitServer, TypeOK
  <2>3. TypeOK'
    BY <1>3, <2>1, <2>2 DEF InitServer, TypeOK
  <2> QED
    BY <1>3, <2>1, <2>3 DEF InitServer, TableInv, GroupsDiffer, Workers
<1>4. CASE Scan
  <2>1. main' = "create" => ~Known(account_group)'
    BY <1>4 DEF Scan, TableInv, NewGroups, Known
  <2>2. account_group' \in Groups
    BY <1>4 DEF Scan, NewGroups, TypeOK
  <2> QED
    BY <1>4, <2>1, <2>2 DEF Scan, TypeOK, TableInv, GroupsDiffer, Workers
<1>5. CASE CreateThread
  <2> DEFINE w == NewWorker(system_date, account_group)
  <2>1. w \in Worker /\ w.account_group = account_group /\ thread \in Seq(Worker)
    BY DEF TypeOK, NewWorker, Worker, WorkerPCs
  <2>2. thread' = Append(thread, w)
    BY <1>5 DEF CreateThread
  <2> HIDE DEF w
  <2>3. /\ thread' \in Seq(Worker) /\ Len(thread') = Len(thread) + 1
        /\ DOMAIN thread = 1 .. Len(thread) /\ Len(thread) \in Nat
        /\ DOMAIN thread' = DOMAIN thread \cup {Len(thread) + 1}
        /\ thread'[Len(thread) + 1] = w
        /\ \A j \in DOMAIN thread : thread'[j] = thread[j]
    BY <2>1, <2>2, AddWorker
  <2>4. TypeOK'
    BY <1>5, <2>3 DEF CreateThread, TypeOK
  <2>5. TableInv'
    BY <1>5, <2>3 DEF CreateThread, TableInv
  <2>6. \A j \in Workers : Fold[thread[j].account_group] # Fold[account_group]
    BY <1>5, <2>3 DEF CreateThread, TableInv, Known, Workers
  <2>7. GroupsDiffer'
    BY <2>1, <2>3, <2>6 DEF GroupsDiffer, Workers
  <2> QED
    BY <2>4, <2>5, <2>7
<1>6. CASE CountThread
  BY <1>6 DEF CountThread, TypeOK, TableInv, GroupsDiffer, Workers
<1>7. CASE Interrupt
  BY <1>7 DEF Interrupt, TypeOK, TableInv, GroupsDiffer, Workers
<1>8. CASE Exit \/ Crash
  <2>1. AtWork \subseteq Files
    BY FileOfType DEF AtWork
  <2>2. thread' \in Seq(Worker) /\ Len(thread') = 0 /\ DOMAIN thread' = {}
    BY <1>8, EmptyTable DEF Exit, Crash
  <2>3. TypeOK'
    BY <1>8, <2>1, <2>2 DEF Exit, Crash, TypeOK
  <2> QED
    BY <1>8, <2>2, <2>3 DEF Exit, Crash, TableInv, GroupsDiffer, Workers
<1>9. ASSUME NEW i \in Workers, ThreadProcess(i) PROVE SInv'
  BY <1>9, WorkerStepType, WorkerStepTable
<1>10. CASE UNCHANGED vars
  BY <1>10 DEF vars, TypeOK, TableInv, GroupsDiffer, Workers, Known
<1> QED
  BY <1>1, <1>2, <1>3, <1>4, <1>5, <1>6, <1>7, <1>8, <1>9, <1>10 DEF Next, MainThread

LEMMA SHolds == Spec => []SInv
BY SInit, SStep, PTL DEF Spec

\* The executor's state keeps its types.
THEOREM ExecTypeCorrect == Spec => []TypeOK
BY SHolds, PTL DEF SInv

LEMMA GroupsDifferImplies == SInv => OneWorkerPerFile
BY DEF SInv, GroupsDiffer, OneWorkerPerFile, FileOf

LEMMA GroupsDifferImpliesNext == SInv' => OneWorkerPerFile'
BY GroupsDifferImplies, PTL

\* Two workers never read the same queue file: the scan looks the group up in a
\* table from which nothing is removed, and the program exits only after the
\* join of all counted workers, taking an uncounted one with it.
THEOREM ExecOneWorkerPerFile == Spec => []OneWorkerPerFile
BY SHolds, GroupsDifferImplies, PTL

----------------------------------------------------------------------------
(* Lines, line files and answers *)

\* What a worker's own counters say about the line file: it holds the last line
\* recorded, which is finish_line while lines are skipped, and 0 between
\* fopen "w" and fclose.
WorkerInv(i) ==
    LET w == thread[i]
        recorded == lineFile[FileOf(i)]
    IN  /\ w.linenum <= lines[FileOf(i)]
        /\ w.pc = "start" => w.linenum = 0
        /\ w.pc = "read" =>
              recorded = IF w.linenum <= w.finish_line THEN w.finish_line ELSE w.linenum
        /\ w.pc \in {"call", "respond", "truncate"} => w.linenum = recorded + 1
        /\ w.pc = "write" => recorded = 0 /\ w.linenum > 0
        /\ w.pc \in {"call"} \cup Unrecorded => w.linenum > w.finish_line

Answering(f) == \E i \in Workers : FileOf(i) = f /\ thread[i].pc = "respond"

\* Lines up to the position are queued and handled,
Progress(f) ==
    /\ Position(f) <= lines[f]
    /\ \A n \in 1 .. Position(f) : Handled(f, n)

\* and nothing else is, unless a worker was killed at work.
InStep(f) ==
    f \notin lapse =>
        /\ Len(handled[f]) = Position(f)
        /\ \A k \in 1 .. Position(f) : handled[f][k].line = k

\* Answers are for handled lines up to the position.
Answered(f) ==
    /\ \A k \in DOMAIN resQue[f] : Handled(f, resQue[f][k])
    /\ f \notin lapse =>
          /\ \A j, k \in DOMAIN resQue[f] : j < k => resQue[f][j] < resQue[f][k]
          /\ \A k \in DOMAIN resQue[f] : \/ resQue[f][k] < Position(f)
                                         \/ resQue[f][k] = Position(f) /\ ~Answering(f)

FileInv(f) == Progress(f) /\ InStep(f) /\ Answered(f)

LInv == /\ SInv
        /\ \A i \in Workers : WorkerInv(i)
        /\ \A f \in Files : FileInv(f)

----------------------------------------------------------------------------
(* Where a file's position is *)

PositionFacts ==
    OneWorkerPerFile =>
        \A f \in Files :
            /\ \A i \in Workers : FileOf(i) = f /\ thread[i].pc \in Unrecorded
                                     => Position(f) = thread[i].linenum
            /\ (\A i \in Workers : FileOf(i) = f => thread[i].pc \notin Unrecorded)
                  => Position(f) = lineFile[f]

LEMMA PositionHolds == PositionFacts
<1> SUFFICES ASSUME OneWorkerPerFile, NEW f \in Files
             PROVE  /\ \A i \in Workers : FileOf(i) = f /\ thread[i].pc \in Unrecorded
                                             => Position(f) = thread[i].linenum
                    /\ (\A i \in Workers : FileOf(i) = f => thread[i].pc \notin Unrecorded)
                          => Position(f) = lineFile[f]
  BY DEF PositionFacts
<1> DEFINE busy == {i \in Workers : FileOf(i) = f /\ thread[i].pc \in Unrecorded}
<1>1. ASSUME NEW i \in Workers, FileOf(i) = f, thread[i].pc \in Unrecorded
      PROVE  Position(f) = thread[i].linenum
  <2>1. busy = {i}
    BY <1>1 DEF OneWorkerPerFile
  <2>2. (CHOOSE j \in busy : TRUE) = i
    BY <2>1
  <2> QED
    BY <2>1, <2>2 DEF Position
<1>2. ASSUME \A i \in Workers : FileOf(i) = f => thread[i].pc \notin Unrecorded
      PROVE  Position(f) = lineFile[f]
  BY <1>2 DEF Position
<1> QED
  BY <1>1, <1>2

LEMMA PositionHoldsNext == PositionFacts'
BY PositionHolds, PTL

LEMMA PositionType ==
    ASSUME SInv, NEW f \in Files
    PROVE  Position(f) \in Nat
<1>1. PositionFacts /\ OneWorkerPerFile
  BY PositionHolds, GroupsDifferImplies
<1>2. CASE \E i \in Workers : FileOf(i) = f /\ thread[i].pc \in Unrecorded
  <2>1. PICK i \in Workers : FileOf(i) = f /\ thread[i].pc \in Unrecorded
    BY <1>2
  <2>2. thread[i] \in Worker
    BY FileOfType, <2>1 DEF SInv
  <2> QED
    BY <1>1, <2>1, <2>2 DEF PositionFacts, Worker
<1>3. CASE \A i \in Workers : FileOf(i) = f => thread[i].pc \notin Unrecorded
  BY <1>1, <1>3 DEF PositionFacts, SInv, TypeOK
<1> QED
  BY <1>2, <1>3

\* A worker's step moves at most its own file's position.
LEMMA OtherPositions ==
    ASSUME SInv, SInv', NEW i \in Workers, WorkerStep(i), NEW f \in Files, f # FileOf(i)
    PROVE  Position(f)' = Position(f) /\ (Answering(f)' <=> Answering(f))
<1>1. /\ PositionFacts /\ PositionFacts' /\ OneWorkerPerFile /\ OneWorkerPerFile'
      /\ Workers' = Workers /\ \A j \in Workers : FileOf(j)' = FileOf(j)
      /\ \A j \in Workers : j # i => thread'[j] = thread[j]
      /\ lineFile'[f] = lineFile[f]
  BY PositionHolds, PositionHoldsNext, GroupsDifferImplies, GroupsDifferImpliesNext,
     WorkerStepTable DEF WorkerStep
<1>2. Answering(f)' <=> Answering(f)
  BY <1>1 DEF Answering
<1>3. CASE \E j \in Workers : FileOf(j) = f /\ thread[j].pc \in Unrecorded
  <2>1. PICK j \in Workers : FileOf(j) = f /\ thread[j].pc \in Unrecorded
    BY <1>3
  <2>2. thread'[j] = thread[j] /\ j \in Workers' /\ FileOf(j)' = f
    BY <1>1, <2>1
  <2> QED
    BY <1>1, <1>2, <2>1, <2>2 DEF PositionFacts
<1>4. CASE \A j \in Workers : FileOf(j) = f => thread[j].pc \notin Unrecorded
  <2>1. \A j \in Workers' : FileOf(j)' = f => thread'[j].pc \notin Unrecorded
    BY <1>1, <1>4
  <2> QED
    BY <1>1, <1>2, <1>4, <2>1 DEF PositionFacts
<1> QED
  BY <1>3, <1>4

\* The stepping worker's own file
LEMMA OwnPosition ==
    ASSUME SInv, SInv', NEW i \in Workers, WorkerStep(i)
    PROVE  /\ thread[i].pc \in Unrecorded => Position(FileOf(i)) = thread[i].linenum
           /\ thread[i].pc \notin Unrecorded => Position(FileOf(i)) = lineFile[FileOf(i)]
           /\ thread'[i].pc \in Unrecorded
                 => Position(FileOf(i))' = thread'[i].linenum
           /\ thread'[i].pc \notin Unrecorded
                 => Position(FileOf(i))' = lineFile'[FileOf(i)]
           /\ Answering(FileOf(i)) <=> thread[i].pc = "respond"
           /\ Answering(FileOf(i))' <=> thread'[i].pc = "respond"
<1> DEFINE f == FileOf(i)
<1>1. /\ PositionFacts /\ PositionFacts' /\ OneWorkerPerFile /\ OneWorkerPerFile'
      /\ Workers' = Workers /\ \A j \in Workers : FileOf(j)' = FileOf(j)
      /\ f \in Files /\ f' = f
  BY PositionHolds, PositionHoldsNext, GroupsDifferImplies, GroupsDifferImpliesNext,
     WorkerStepTable, FileOfType DEF SInv
<1>2. \A j \in Workers : FileOf(j) = f <=> j = i
  BY <1>1 DEF OneWorkerPerFile
<1>3. \A j \in Workers' : FileOf(j)' = f <=> j = i
  BY <1>1, <1>2
<1> HIDE DEF f
<1>4. /\ thread[i].pc \in Unrecorded => Position(f) = thread[i].linenum
      /\ thread[i].pc \notin Unrecorded => Position(f) = lineFile[f]
  BY <1>1, <1>2 DEF PositionFacts
<1>5. /\ thread'[i].pc \in Unrecorded => (Position(f) = thread[i].linenum)'
      /\ thread'[i].pc \notin Unrecorded => (Position(f) = lineFile[f])'
  BY <1>1, <1>3 DEF PositionFacts
<1>6. Answering(f) <=> thread[i].pc = "respond"
  BY <1>2 DEF Answering
<1>7. Answering(f)' <=> thread'[i].pc = "respond"
  BY <1>1, <1>3 DEF Answering
<1> QED
  BY <1>1, <1>4, <1>5, <1>6, <1>7 DEF f

\* A file whose position and contents stay, while lines may be added
LEMMA SameFile ==
    ASSUME NEW f \in Files, FileInv(f), lines[f] \in Nat, lines'[f] \in Nat,
           Position(f) \in Nat, Position(f)' = Position(f), lines[f] <= lines'[f],
           handled'[f] = handled[f], resQue'[f] = resQue[f],
           f \in lapse => f \in lapse', Answering(f)' => Answering(f)
    PROVE  FileInv(f)'
<1>1. \A n : Handled(f, n)' <=> Handled(f, n)
  BY DEF Handled
<1>2. Progress(f)'
  BY <1>1 DEF FileInv, Progress
<1>3. InStep(f)'
  BY DEF FileInv, InStep
<1>4. Answered(f)'
  BY <1>1 DEF FileInv, Answered
<1> QED
  BY <1>2, <1>3, <1>4 DEF FileInv

\* Everything a worker's step does not reach
LEMMA WorkerStepOthers ==
    ASSUME LInv, SInv', NEW i \in Workers, WorkerStep(i)
    PROVE  /\ \A j \in Workers : j # i => WorkerInv(j)'
           /\ \A f \in Files : f # FileOf(i) => FileInv(f)'
<1>1. ASSUME NEW j \in Workers, j # i PROVE WorkerInv(j)'
  <2>1. FileOf(j) # FileOf(i) /\ FileOf(j) \in Files
    BY <1>1, GroupsDifferImplies, FileOfType DEF LInv, OneWorkerPerFile, SInv
  <2>2. thread'[j] = thread[j] /\ FileOf(j)' = FileOf(j)
    BY <1>1, WorkerStepTable DEF LInv
  <2>3. lineFile'[FileOf(j)] = lineFile[FileOf(j)] /\ lines' = lines
    BY <2>1 DEF WorkerStep, env
  <2>4. WorkerInv(j)
    BY DEF LInv
  <2> QED
    BY <2>2, <2>3, <2>4 DEF WorkerInv
<1>2. ASSUME NEW f \in Files, f # FileOf(i) PROVE FileInv(f)'
  <2>1. Position(f)' = Position(f) /\ (Answering(f)' <=> Answering(f))
    BY <1>2, OtherPositions DEF LInv
  <2>2. Position(f) \in Nat /\ lines[f] \in Nat /\ FileInv(f)
    BY PositionType DEF LInv, SInv, TypeOK
  <2>3. /\ lines' = lines /\ lapse' = lapse
        /\ handled'[f] = handled[f] /\ resQue'[f] = resQue[f]
    BY <1>2 DEF WorkerStep, env
  <2> QED
    BY <2>1, <2>2, <2>3, SameFile
<1> QED
  BY <1>1, <1>2

\* A worker's step, given what it does to its own entry and file
LEMMA WorkerStepLines ==
    ASSUME LInv, SInv', NEW i \in Workers, WorkerStep(i),
           WorkerInv(i)', FileInv(FileOf(i))'
    PROVE  LInv'
<1>1. Workers' = Workers
  BY WorkerStepTable DEF LInv
<1>2. FileOf(i)' = FileOf(i)
  BY WorkerStepTable DEF LInv
<1> QED
  BY <1>1, <1>2, WorkerStepOthers DEF LInv

----------------------------------------------------------------------------
(* One line more is handled or answered *)

\* A line as the history of its file keeps it
HandledLine == [line : Nat, node : BOOLEAN]

LEMMA AppendHandled ==
    ASSUME NEW s \in Seq(HandledLine), NEW n \in Nat,
           NEW r \in HandledLine, r.line = n, NEW t, t = Append(s, r)
    PROVE  /\ \E k \in DOMAIN t : t[k].line = n
           /\ \A x : (\E k \in DOMAIN s : s[k].line = x) => \E k \in DOMAIN t : t[k].line = x
           /\ (Len(s) + 1 = n /\ \A k \in 1 .. Len(s) : s[k].line = k)
                 => Len(t) = n /\ \A k \in 1 .. n : t[k].line = k
<1>1. /\ Len(s) \in Nat /\ DOMAIN s = 1 .. Len(s) /\ DOMAIN t = 1 .. Len(s) + 1
      /\ Len(t) = Len(s) + 1 /\ t[Len(s) + 1] = r
      /\ \A k \in 1 .. Len(s) : t[k] = s[k]
  OBVIOUS
<1>2. t[Len(s) + 1].line = n
  BY <1>1
<1>3. \E k \in DOMAIN t : t[k].line = n
  BY <1>1, <1>2
<1>4. ASSUME NEW x, NEW k \in DOMAIN s, s[k].line = x
      PROVE  \E j \in DOMAIN t : t[j].line = x
  BY <1>1, <1>4
<1>5. ASSUME Len(s) + 1 = n, \A k \in 1 .. Len(s) : s[k].line = k
      PROVE  Len(t) = n /\ \A k \in 1 .. n : t[k].line = k
  BY <1>1, <1>2, <1>5
<1> QED
  BY <1>3, <1>4, <1>5

LEMMA AppendAnswer ==
    ASSUME NEW s \in Seq(Nat), NEW n \in Nat, NEW t, t = Append(s, n)
    PROVE  /\ \A k \in DOMAIN t : t[k] = n \/ (k \in DOMAIN s /\ t[k] = s[k])
           /\ ((\A j, k \in DOMAIN s : j < k => s[j] < s[k]) /\ \A k \in DOMAIN s : s[k] < n)
                 => \A j, k \in DOMAIN t : j < k => t[j] < t[k]
<1>1. /\ Len(s) \in Nat /\ DOMAIN s = 1 .. Len(s) /\ DOMAIN t = 1 .. Len(s) + 1
      /\ t[Len(s) + 1] = n
      /\ \A k \in 1 .. Len(s) : t[k] = s[k]
  OBVIOUS
<1>2. ASSUME \A j, k \in DOMAIN s : j < k => s[j] < s[k], \A k \in DOMAIN s : s[k] < n,
             NEW j \in DOMAIN t, NEW k \in DOMAIN t, j < k
      PROVE  t[j] < t[k]
  <2>1. j \in DOMAIN s /\ t[j] = s[j]
    BY <1>1, <1>2
  <2>2. CASE k \in DOMAIN s
    BY <1>1, <1>2, <2>1, <2>2
  <2>3. CASE k = Len(s) + 1
    BY <1>1, <1>2, <2>1, <2>3
  <2> QED
    BY <1>1, <2>2, <2>3
<1> QED
  BY <1>1, <1>2

\* The next line is handled.
LEMMA HandleNext ==
    ASSUME NEW f \in Files, FileInv(f), Position(f) \in Nat,
           Position(f)' = Position(f) + 1, Position(f) + 1 <= lines'[f],
           handled[f] \in Seq(HandledLine),
           NEW r \in HandledLine, r.line = Position(f) + 1,
           handled'[f] = Append(handled[f], r),
           resQue[f] \in Seq(Nat), resQue'[f] = resQue[f], lapse' = lapse
    PROVE  FileInv(f)'
<1>1. PICK p \in Nat : p = Position(f) /\ p + 1 = Position(f)'
  OBVIOUS
<1>2. /\ \E k \in DOMAIN handled'[f] : handled'[f][k].line = p + 1
      /\ \A x : (\E k \in DOMAIN handled[f] : handled[f][k].line = x)
                   => \E k \in DOMAIN handled'[f] : handled'[f][k].line = x
      /\ (Len(handled[f]) + 1 = p + 1 /\ \A k \in 1 .. Len(handled[f]) : handled[f][k].line = k)
            => Len(handled'[f]) = p + 1 /\ \A k \in 1 .. p + 1 : handled'[f][k].line = k
  <2>1. p + 1 \in Nat /\ r.line = p + 1
    BY <1>1
  <2>2. \E k \in DOMAIN handled'[f] : handled'[f][k].line = p + 1
    <3>1. Len(handled[f]) + 1 \in DOMAIN handled'[f] /\ handled'[f][Len(handled[f]) + 1] = r
      OBVIOUS
    <3> QED
      BY <2>1, <3>1
  <2>3. \A x : (\E k \in DOMAIN handled[f] : handled[f][k].line = x)
                  => \E k \in DOMAIN handled'[f] : handled'[f][k].line = x
    <3>1. /\ Len(handled[f]) \in Nat /\ DOMAIN handled[f] = 1 .. Len(handled[f])
          /\ DOMAIN handled'[f] = 1 .. Len(handled[f]) + 1
          /\ \A k \in 1 .. Len(handled[f]) : handled'[f][k] = handled[f][k]
      OBVIOUS
    <3> QED
      BY <3>1
  <2>4. (Len(handled[f]) + 1 = p + 1 /\ \A k \in 1 .. Len(handled[f]) : handled[f][k].line = k)
           => Len(handled'[f]) = p + 1 /\ \A k \in 1 .. p + 1 : handled'[f][k].line = k
    BY <2>1, AppendHandled
  <2> QED
    BY <2>2, <2>3, <2>4
<1>3. Handled(f, p + 1)' /\ \A x : Handled(f, x) => Handled(f, x)'
  BY <1>2 DEF Handled
<1>4. Progress(f)'
  <2>1. ASSUME NEW x \in 1 .. p + 1 PROVE Handled(f, x)'
    <3>1. x \in 1 .. p \/ x = p + 1
      OBVIOUS
    <3> QED
      BY <1>1, <1>3, <3>1 DEF FileInv, Progress
  <2> QED
    BY <1>1, <2>1 DEF Progress
<1>5. InStep(f)'
  BY <1>1, <1>2 DEF FileInv, InStep
<1>6. Answered(f)'
  <2>1. \A k \in DOMAIN resQue[f] : resQue[f][k] \in Nat
    OBVIOUS
  <2>2. \A k \in DOMAIN resQue[f] : Handled(f, resQue[f][k])'
    BY <1>3 DEF FileInv, Answered
  <2>3. f \notin lapse => \A k \in DOMAIN resQue[f] : resQue[f][k] < p + 1
    <3>1. ASSUME f \notin lapse, NEW k \in DOMAIN resQue[f] PROVE resQue[f][k] < p + 1
      <4>1. resQue[f][k] < p \/ resQue[f][k] = p
        BY <1>1, <3>1 DEF FileInv, Answered
      <4> QED
        BY <2>1, <4>1
    <3> QED
      BY <3>1
  <2> QED
    BY <1>1, <2>2, <2>3 DEF FileInv, Answered
<1> QED
  BY <1>4, <1>5, <1>6 DEF FileInv

\* The line in hand is answered.
LEMMA AnswerLine ==
    ASSUME NEW f \in Files, FileInv(f), Position(f) \in Nat, Position(f) > 0,
           Position(f)' = Position(f), lines' = lines, handled' = handled, lapse' = lapse,
           Answering(f), ~Answering(f)',
           resQue[f] \in Seq(Nat), resQue'[f] = Append(resQue[f], Position(f))
    PROVE  FileInv(f)'
<1>1. PICK p \in Nat : p = Position(f) /\ p = Position(f)' /\ p > 0
  OBVIOUS
<1>2. /\ \A k \in DOMAIN resQue'[f] : \/ resQue'[f][k] = p
                                      \/ k \in DOMAIN resQue[f] /\ resQue'[f][k] = resQue[f][k]
      /\ (/\ \A j, k \in DOMAIN resQue[f] : j < k => resQue[f][j] < resQue[f][k]
          /\ \A k \in DOMAIN resQue[f] : resQue[f][k] < p)
            => \A j, k \in DOMAIN resQue'[f] : j < k => resQue'[f][j] < resQue'[f][k]
  BY <1>1, AppendAnswer
<1>3. \A x : Handled(f, x)' <=> Handled(f, x)
  BY DEF Handled
<1>4. Handled(f, p)
  BY <1>1 DEF FileInv, Progress
<1>5. (\A k \in DOMAIN resQue[f] : Handled(f, resQue[f][k]))'
  <2>1. \A k \in DOMAIN resQue[f] : \E j \in DOMAIN handled[f] : handled[f][j].line = resQue[f][k]
    BY DEF FileInv, Answered, Handled
  <2>2. \E j \in DOMAIN handled[f] : handled[f][j].line = p
    BY <1>4 DEF Handled
  <2>3. (\A k \in DOMAIN resQue[f] :
            \E j \in DOMAIN handled[f] : handled[f][j].line = resQue[f][k])'
    BY <1>2, <2>1, <2>2
  <2> QED
    BY <2>3 DEF Handled
<1>6. f \notin lapse => \A k \in DOMAIN resQue[f] : resQue[f][k] < p
  BY <1>1 DEF FileInv, Answered
<1>7. f \notin lapse =>
         /\ \A j, k \in DOMAIN resQue'[f] : j < k => resQue'[f][j] < resQue'[f][k]
         /\ \A k \in DOMAIN resQue'[f] : resQue'[f][k] < p \/ resQue'[f][k] = p
  BY <1>2, <1>6 DEF FileInv, Answered
<1>8. Answered(f)'
  BY <1>1, <1>5, <1>7 DEF Answered
<1>9. Progress(f)' /\ InStep(f)'
  BY <1>1, <1>3 DEF FileInv, Progress, InStep
<1> QED
  BY <1>8, <1>9 DEF FileInv

----------------------------------------------------------------------------
(* Every step keeps the line-level invariant *)

\* The counters of a worker that only moves on
LEMMA SetPc ==
    ASSUME thread \in Seq(Worker), NEW i \in DOMAIN thread, NEW x,
           thread' = [thread EXCEPT ![i].pc = x]
    PROVE  /\ thread'[i].pc = x
           /\ thread'[i].linenum = thread[i].linenum
           /\ thread'[i].finish_line = thread[i].finish_line
<1>1. thread'[i] = [thread[i] EXCEPT !.pc = x] /\ thread[i] \in Worker
  BY WorkerExcept
<1> QED
  BY <1>1, FieldExcept

\* A worker hands the next line of f to Node, or refuses it.
HandlesNext(f) ==
    /\ Position(f) < lines[f]
    /\ Position(f)' = Position(f) + 1
    /\ \E r \in HandledLine : /\ r.line = Position(f) + 1
                              /\ handled' = [handled EXCEPT ![f] = Append(@, r)]

\* A step of worker i keeps all this, one case per action, and moves its file's
\* position only with a line that it handles.
LEMMA WorkerLines ==
    ASSUME LInv, NEW i \in Workers, ThreadProcess(i)
    PROVE  /\ LInv' /\ UNCHANGED <<lines, lapse>>
           /\ \E f \in Files :
                 /\ \/ Position(f)' = Position(f) /\ handled' = handled
                    \/ HandlesNext(f)
                 /\ \A g \in Files : g # f => Position(g)' = Position(g)
<1>1. SInv /\ SInv' /\ WorkerStep(i) /\ Workers' = Workers
  BY WorkerStepType, WorkerStepTable DEF LInv, SInv
<1>2. PICK f \in Files : f = FileOf(i) /\ f = FileOf(i)'
  BY <1>1, FileOfType, WorkerStepTable DEF SInv
<1> SUFFICES /\ WorkerInv(i)' /\ FileInv(f)'
             /\ \/ Position(f)' = Position(f) /\ handled' = handled
                \/ HandlesNext(f)
  <2>1. \A g \in Files : g # f => Position(g)' = Position(g)
    BY <1>1, <1>2, OtherPositions
  <2> QED
    BY <1>1, <1>2, <2>1, WorkerStepLines DEF WorkerStep, env
<1> DEFINE w == thread[i]
           n == thread[i].linenum
<1>3. /\ thread \in Seq(Worker) /\ i \in DOMAIN thread /\ w \in Worker
      /\ n \in Nat /\ w.finish_line \in Nat /\ w.wait_count \in Nat
      /\ lines[f] \in Nat /\ lines' = lines /\ lapse' = lapse /\ Position(f) \in Nat
      /\ lineFile \in [Files -> Nat] /\ lineFile[f] \in Nat
      /\ resQue \in [Files -> Seq(Nat)]
      /\ handled \in [Files -> Seq([line : Nat, node : BOOLEAN])]
  <2>1. w \in Worker
    BY <1>1, FileOfType DEF SInv
  <2> QED
    BY <1>1, <2>1, PositionType DEF SInv, TypeOK, Workers, WorkerStep, env, Worker
<1>4. WorkerInv(i) /\ FileInv(f)
  BY DEF LInv
<1>5. /\ w.pc \in Unrecorded => Position(f) = n
      /\ w.pc \notin Unrecorded => Position(f) = lineFile[f]
      /\ thread'[i].pc \in Unrecorded => Position(f)' = thread'[i].linenum
      /\ thread'[i].pc \notin Unrecorded => Position(f)' = lineFile'[f]
      /\ Answering(f) <=> w.pc = "respond"
      /\ Answering(f)' <=> thread'[i].pc = "respond"
  BY <1>1, <1>2, OwnPosition
<1>6. CASE Start(i)
  <2>1. /\ w.pc = "start" /\ thread'[i].linenum = n /\ thread'[i].finish_line = lineFile[f]
        /\ thread'[i].pc \in {"read", "done"} /\ lineFile' = lineFile
        /\ resQue' = resQue /\ handled' = handled
    <3> DEFINE x == IF lines[f] > 0 THEN "read" ELSE "done"
    <3>1. thread' = [thread EXCEPT ![i].finish_line = lineFile[f], ![i].pc = x]
      BY <1>2, <1>6 DEF Start
    <3>2. thread'[i] = [w EXCEPT !.finish_line = lineFile[f], !.pc = x]
      BY <1>3, <3>1, WorkerExcept
    <3>3. x \in {"read", "done"}
      OBVIOUS
    <3> HIDE DEF x
    <3>4. /\ thread'[i].linenum = n /\ thread'[i].finish_line = lineFile[f]
          /\ thread'[i].pc = x
      BY <1>3, <3>2, FieldExcept
    <3> QED
      BY <1>6, <3>3, <3>4 DEF Start, disk, history
  <2>2. WorkerInv(i)'
    BY <1>2, <1>3, <1>4, <2>1 DEF WorkerInv, Unrecorded
  <2>3. Position(f)' = Position(f)
    BY <1>2, <1>3, <1>4, <1>5, <2>1 DEF WorkerInv, Unrecorded
  <2>4. FileInv(f)'
    BY <1>3, <1>4, <1>5, <2>1, <2>3, SameFile
  <2> QED
    BY <2>1, <2>2, <2>3, <2>4
<1>7. CASE ReadLine(i)
  <2>1. /\ w.pc = "read" /\ n < lines[f] /\ thread'[i].linenum = n + 1
        /\ thread'[i].finish_line = w.finish_line
        /\ thread'[i].pc = IF n + 1 <= w.finish_line THEN "read" ELSE "call"
        /\ lineFile' = lineFile /\ resQue' = resQue /\ handled' = handled
    <3> DEFINE x == IF n + 1 <= w.finish_line THEN "read" ELSE "call"
    <3>1. thread' = [thread EXCEPT ![i].linenum = n + 1, ![i].pc = x]
      BY <1>7 DEF ReadLine, Skips
    <3>2. thread'[i] = [w EXCEPT !.linenum = n + 1, !.pc = x]
      BY <1>3, <3>1, WorkerExcept
    <3>3. thread'[i].linenum = n + 1 /\ thread'[i].finish_line = w.finish_line
          /\ thread'[i].pc = x
      BY <1>3, <3>2, FieldExcept
    <3> QED
      BY <1>2, <1>7, <3>3 DEF ReadLine, disk, history
  <2>2. WorkerInv(i)'
    BY <1>2, <1>3, <1>4, <2>1 DEF WorkerInv, Unrecorded
  <2>3. Position(f)' = Position(f)
    BY <1>2, <1>3, <1>4, <1>5, <2>1 DEF WorkerInv, Unrecorded
  <2>4. FileInv(f)'
    BY <1>3, <1>4, <1>5, <2>1, <2>3, SameFile
  <2> QED
    BY <2>1, <2>2, <2>3, <2>4
<1>8. CASE PollEnd(i) \/ Leave(i)
  <2>1. /\ w.pc = "read" /\ thread'[i].linenum = n
        /\ thread'[i].finish_line = w.finish_line
        /\ thread'[i].pc \in {"read", "done"}
        /\ lineFile' = lineFile /\ resQue' = resQue /\ handled' = handled
    <3>1. CASE UNCHANGED thread
      BY <1>8, <3>1 DEF PollEnd, Leave, disk, history
    <3>2. CASE Leave(i)
      BY <1>3, <3>2, SetPc DEF Leave, disk, history
    <3>3. CASE PollEnd(i) /\ w.date # system_date
      <4> DEFINE x == IF w.wait_count + 1 > THREAD_WAIT_COUNT THEN "done" ELSE "read"
      <4>1. thread' = [thread EXCEPT ![i].wait_count = w.wait_count + 1, ![i].pc = x]
        BY <3>3 DEF PollEnd
      <4>2. thread'[i] = [w EXCEPT !.wait_count = w.wait_count + 1, !.pc = x]
        BY <1>3, <4>1, WorkerExcept
      <4>3. x \in {"read", "done"}
        OBVIOUS
      <4> HIDE DEF x
      <4> QED
        BY <1>3, <3>3, <4>2, <4>3, FieldExcept DEF PollEnd, disk, history
    <3> QED
      BY <1>8, <3>1, <3>2, <3>3 DEF PollEnd
  <2>2. WorkerInv(i)'
    BY <1>2, <1>3, <1>4, <2>1 DEF WorkerInv, Unrecorded
  <2>3. Position(f)' = Position(f)
    BY <1>2, <1>3, <1>4, <1>5, <2>1 DEF WorkerInv, Unrecorded
  <2>4. FileInv(f)'
    BY <1>3, <1>4, <1>5, <2>1, <2>3, SameFile
  <2> QED
    BY <2>1, <2>2, <2>3, <2>4
<1>9. CASE CallNode(i) \/ RefuseLine(i)
  <2>1. /\ w.pc = "call" /\ thread'[i].linenum = n
        /\ thread'[i].finish_line = w.finish_line
        /\ thread'[i].pc \in {"respond", "truncate"}
        /\ lineFile' = lineFile /\ resQue' = resQue
    <3>1. PICK x \in {"respond", "truncate"} : thread' = [thread EXCEPT ![i].pc = x]
      BY <1>9 DEF CallNode, RefuseLine
    <3> QED
      BY <1>3, <1>9, <3>1, SetPc DEF CallNode, RefuseLine, disk
  <2>2. WorkerInv(i)'
    BY <1>2, <1>3, <1>4, <2>1 DEF WorkerInv, Unrecorded
  <2>3. /\ Position(f)' = Position(f) + 1 /\ Position(f)' = n /\ n <= lines[f]
        /\ Position(f) = lineFile[f]
    BY <1>2, <1>3, <1>4, <1>5, <2>1 DEF WorkerInv, Unrecorded
  <2>4. PICK r \in HandledLine :
               r.line = n /\ handled' = [handled EXCEPT ![f] = Append(@, r)]
    <3>1. PICK b \in BOOLEAN :
               handled' = [handled EXCEPT ![f] = Append(@, [line |-> n, node |-> b])]
      BY <1>2, <1>3, <1>9 DEF CallNode, RefuseLine, Handle
    <3>2. [line |-> n, node |-> b] \in HandledLine
      BY <1>3 DEF HandledLine
    <3> QED
      BY <3>1, <3>2
  <2>5. /\ handled[f] \in Seq(HandledLine) /\ resQue[f] \in Seq(Nat)
        /\ handled'[f] = Append(handled[f], r)
    BY <1>3, <2>4 DEF HandledLine
  <2>6. FileInv(f)'
    BY <1>3, <1>4, <2>1, <2>3, <2>4, <2>5, HandleNext
  <2>7. HandlesNext(f)
    <3>1. Position(f) < lines[f] /\ Position(f)' = Position(f) + 1 /\ r.line = Position(f) + 1
      BY <1>3, <2>3, <2>4
    <3> QED
      BY <2>4, <3>1, Zenon DEF HandlesNext
  <2> QED
    BY <2>2, <2>6, <2>7
<1>10. CASE InsertResponseQue(i)
  <2>1. /\ w.pc = "respond" /\ thread'[i].linenum = n
        /\ thread'[i].finish_line = w.finish_line
        /\ thread'[i].pc = "truncate"
        /\ lineFile' = lineFile /\ handled' = handled
    BY <1>3, <1>10, SetPc DEF InsertResponseQue, history
  <2>2. WorkerInv(i)'
    BY <1>2, <1>3, <1>4, <2>1 DEF WorkerInv, Unrecorded
  <2>3. /\ Position(f)' = Position(f) /\ Position(f) = n /\ n \in 1 .. Position(f)
        /\ Answering(f) /\ ~Answering(f)'
    BY <1>3, <1>4, <1>5, <2>1 DEF WorkerInv, Unrecorded
  <2>4. CASE resQue' = resQue
    BY <1>3, <1>4, <2>1, <2>2, <2>3, <2>4, SameFile
  <2>5. CASE resQue' = [resQue EXCEPT ![f] = Append(@, n)]
    <3>1. resQue[f] \in Seq(Nat) /\ resQue'[f] = Append(resQue[f], n) /\ Position(f) > 0
      BY <1>3, <2>3, <2>5
    <3>2. FileInv(f)'
      BY <1>3, <1>4, <2>1, <2>3, <3>1, AnswerLine
    <3> QED
      BY <2>1, <2>2, <2>3, <3>2
  <2> QED
    BY <1>2, <1>10, <2>4, <2>5 DEF InsertResponseQue
<1>11. CASE TruncateLineFile(i)
  <2>1. /\ w.pc = "truncate" /\ thread'[i].linenum = n
        /\ thread'[i].finish_line = w.finish_line
        /\ thread'[i].pc = "write" /\ lineFile'[f] = 0
        /\ resQue' = resQue /\ handled' = handled
    BY <1>2, <1>3, <1>11, SetPc DEF TruncateLineFile, history
  <2>2. WorkerInv(i)'
    BY <1>2, <1>3, <1>4, <2>1 DEF WorkerInv, Unrecorded
  <2>3. Position(f)' = Position(f)
    BY <1>2, <1>3, <1>4, <1>5, <2>1 DEF WorkerInv, Unrecorded
  <2>4. FileInv(f)'
    BY <1>3, <1>4, <1>5, <2>1, <2>3, SameFile
  <2> QED
    BY <2>1, <2>2, <2>3, <2>4
<1>12. CASE WriteReadLineNum(i)
  <2>1. /\ w.pc = "write" /\ thread'[i].linenum = n
        /\ thread'[i].finish_line = w.finish_line
        /\ thread'[i].pc = "read" /\ lineFile'[f] = n
        /\ resQue' = resQue /\ handled' = handled
    BY <1>2, <1>3, <1>12, SetPc DEF WriteReadLineNum, history
  <2>2. WorkerInv(i)'
    BY <1>2, <1>3, <1>4, <2>1 DEF WorkerInv, Unrecorded
  <2>3. Position(f)' = Position(f)
    BY <1>2, <1>3, <1>4, <1>5, <2>1 DEF WorkerInv, Unrecorded
  <2>4. FileInv(f)'
    BY <1>3, <1>4, <1>5, <2>1, <2>3, SameFile
  <2> QED
    BY <2>1, <2>2, <2>3, <2>4
<1> QED
  BY <1>6, <1>7, <1>8, <1>9, <1>10, <1>11, <1>12 DEF ThreadProcess

\* Steps that leave workers, line files and answers alone
LEMMA QuietLines ==
    ASSUME LInv, SInv', UNCHANGED <<thread, lineFile, resQue, handled, lapse>>,
           \A f \in Files : lines[f] <= lines'[f]
    PROVE  LInv' /\ \A f \in Files : Position(f)' = Position(f)
<1>1. /\ Workers' = Workers /\ \A i \in Workers : FileOf(i)' = FileOf(i)
      /\ lines \in [Files -> Nat] /\ lines' \in [Files -> Nat] /\ SInv
  BY DEF Workers, FileOf, LInv, SInv, TypeOK
<1>2. ASSUME NEW i \in Workers PROVE WorkerInv(i)'
  <2>1. FileOf(i) \in Files /\ thread[i].linenum \in Nat /\ WorkerInv(i)
    BY <1>1, FileOfType DEF LInv, SInv, Worker
  <2>2. lines[FileOf(i)] <= lines'[FileOf(i)] /\ lines[FileOf(i)] \in Nat
        /\ lines'[FileOf(i)] \in Nat
    BY <1>1, <2>1
  <2> QED
    BY <1>1, <2>1, <2>2 DEF WorkerInv
<1>3. ASSUME NEW f \in Files PROVE Position(f)' = Position(f) /\ FileInv(f)'
  <2>1. Position(f)' = Position(f)
    <3>1. PositionFacts /\ PositionFacts' /\ OneWorkerPerFile /\ OneWorkerPerFile'
      BY <1>1, PositionHolds, PositionHoldsNext, GroupsDifferImplies,
         GroupsDifferImpliesNext
    <3>2. CASE \E j \in Workers : FileOf(j) = f /\ thread[j].pc \in Unrecorded
      BY <1>1, <3>1, <3>2 DEF PositionFacts
    <3>3. CASE \A j \in Workers : FileOf(j) = f => thread[j].pc \notin Unrecorded
      BY <1>1, <3>1, <3>3 DEF PositionFacts
    <3> QED
      BY <3>2, <3>3
  <2>2. Answering(f)' <=> Answering(f)
    BY <1>1 DEF Answering
  <2>3. Position(f) \in Nat /\ FileInv(f)
    BY <1>1, PositionType DEF LInv
  <2> QED
    BY <1>1, <2>1, <2>2, <2>3, SameFile
<1> QED
  BY <1>1, <1>2, <1>3 DEF LInv

LEMMA CreateThreadLines ==
    ASSUME LInv, SInv', CreateThread
    PROVE  LInv' /\ \A f \in Files : Position(f)' = Position(f)
<1> DEFINE w == NewWorker(system_date, account_group)
           m == Len(thread) + 1
<1>1. SInv /\ thread \in Seq(Worker) /\ lines \in [Files -> Nat]
  BY DEF LInv, SInv, TypeOK
<1>2. w \in Worker /\ w.pc = "start" /\ w.linenum = 0
  BY <1>1 DEF SInv, TypeOK, NewWorker, Worker, WorkerPCs
<1>3. thread' = Append(thread, w)
  BY DEF CreateThread
<1> HIDE DEF w
<1>4. /\ DOMAIN thread = 1 .. Len(thread) /\ Len(thread) \in Nat
      /\ DOMAIN thread' = DOMAIN thread \cup {m}
      /\ thread'[m] = w
      /\ \A j \in DOMAIN thread : thread'[j] = thread[j]
  BY <1>1, <1>2, <1>3, AddWorker
<1>5. m \notin Workers
  BY <1>4 DEF Workers
<1> HIDE DEF m
<1>6. /\ Workers' = Workers \cup {m}
      /\ \A j \in Workers : thread'[j] = thread[j] /\ FileOf(j)' = FileOf(j)
  BY <1>4 DEF Workers, FileOf
<1>7. UNCHANGED <<lines, lineFile, resQue, handled, lapse>>
  BY DEF CreateThread, env, disk, history
<1>8. ASSUME NEW i \in Workers' PROVE WorkerInv(i)'
  <2>1. CASE i \in Workers
    BY <1>6, <1>7, <2>1 DEF LInv, WorkerInv
  <2>2. CASE i = m
    <3>1. FileOf(i)' \in Files
      BY <1>8, FileTypesHoldNext DEF SInv, FileTypes
    <3> QED
      BY <1>1, <1>2, <1>4, <1>7, <2>2, <3>1 DEF WorkerInv, Unrecorded
  <2> QED
    BY <1>6, <1>8, <2>1, <2>2
<1>9. ASSUME NEW f \in Files PROVE Position(f)' = Position(f) /\ FileInv(f)'
  <2>1. PositionFacts /\ PositionFacts' /\ OneWorkerPerFile /\ OneWorkerPerFile'
    BY <1>1, PositionHolds, PositionHoldsNext, GroupsDifferImplies, GroupsDifferImpliesNext
  <2>2. Position(f)' = Position(f)
    <3>1. CASE \E j \in Workers : FileOf(j) = f /\ thread[j].pc \in Unrecorded
      <4>1. PICK j \in Workers : FileOf(j) = f /\ thread[j].pc \in Unrecorded
        BY <3>1
      <4>2. Position(f) = thread[j].linenum
        BY <2>1, <4>1 DEF PositionFacts
      <4>3. Position(f)' = thread'[j].linenum
        BY <1>6, <2>1, <4>1 DEF PositionFacts
      <4> QED
        BY <1>6, <4>2, <4>3
    <3>2. CASE \A j \in Workers : FileOf(j) = f => thread[j].pc \notin Unrecorded
      <4>1. \A j \in Workers' : FileOf(j)' = f => thread'[j].pc \notin Unrecorded
        BY <1>2, <1>4, <1>6, <3>2 DEF Unrecorded
      <4> QED
        BY <1>7, <2>1, <3>2, <4>1 DEF PositionFacts
    <3> QED
      BY <3>1, <3>2
  <2>3. Answering(f)' => Answering(f)
    BY <1>2, <1>4, <1>6 DEF Answering
  <2>4. Position(f) \in Nat /\ lines[f] \in Nat /\ FileInv(f)
    BY <1>1, PositionType DEF LInv
  <2> QED
    BY <1>7, <2>2, <2>3, <2>4, SameFile
<1> QED
  BY <1>8, <1>9 DEF LInv

\* The program ends: a file whose worker had a line in its hands falls back to
\* what its line file holds, and is in lapse.
LEMMA StopLines ==
    ASSUME LInv, SInv', Exit \/ Crash
    PROVE  /\ LInv'
           /\ \A f \in Files :
                 \/ f \in AtWork /\ Position(f)' \in {0, Position(f) - 1}
                 \/ f \notin AtWork /\ Position(f)' = Position(f)
<1>1. SInv /\ thread' = <<>> /\ lapse' = lapse \cup AtWork
      /\ UNCHANGED <<lines, lineFile, resQue, handled>>
  BY DEF LInv, Exit, Crash, env, disk
<1>2. Workers' = {}
  BY <1>1, EmptyTable DEF Workers
<1>3. ASSUME NEW f \in Files
      PROVE  /\ FileInv(f)'
             /\ \/ f \in AtWork /\ Position(f)' \in {0, Position(f) - 1}
                \/ f \notin AtWork /\ Position(f)' = Position(f)
  <2>1. /\ PositionFacts /\ PositionFacts' /\ OneWorkerPerFile /\ OneWorkerPerFile'
        /\ Position(f) \in Nat /\ FileInv(f)
        /\ lineFile[f] \in Nat /\ lines[f] \in Nat
    BY <1>1, PositionHolds, PositionHoldsNext, GroupsDifferImplies,
       GroupsDifferImpliesNext, PositionType DEF LInv, SInv, TypeOK
  <2>2. Position(f)' = lineFile[f] /\ ~Answering(f)'
    BY <1>1, <1>2, <2>1 DEF PositionFacts, Answering
  <2>3. CASE \A i \in Workers : FileOf(i) = f => thread[i].pc \notin Unrecorded
    <3>1. Position(f) = lineFile[f] /\ f \notin AtWork
      BY <2>1, <2>3 DEF PositionFacts, AtWork
    <3>2. FileInv(f)'
      BY <1>1, <2>1, <2>2, <3>1, SameFile
    <3> QED
      BY <2>2, <3>1, <3>2
  <2>4. CASE \E i \in Workers : FileOf(i) = f /\ thread[i].pc \in Unrecorded
    <3>1. PICK i \in Workers : FileOf(i) = f /\ thread[i].pc \in Unrecorded
      BY <2>4
    <3>2. f \in AtWork /\ f \in lapse'
      BY <1>1, <3>1 DEF AtWork
    <3>3. lineFile[f] <= Position(f) /\ lineFile[f] \in {0, Position(f) - 1}
      <4>1. Position(f) = thread[i].linenum /\ WorkerInv(i) /\ thread[i].linenum \in Nat
        BY <1>1, <2>1, <3>1, FileOfType DEF PositionFacts, LInv, SInv, Worker
      <4> QED
        BY <2>1, <3>1, <4>1 DEF WorkerInv, Unrecorded
    <3>4. \A x : Handled(f, x)' <=> Handled(f, x)
      BY <1>1 DEF Handled
    <3>5. Progress(f)'
      BY <1>1, <2>1, <2>2, <3>3, <3>4 DEF FileInv, Progress
    <3>6. Answered(f)'
      BY <1>1, <2>1, <3>2, <3>4 DEF FileInv, Answered
    <3> QED
      BY <2>2, <3>2, <3>3, <3>5, <3>6 DEF FileInv, InStep
  <2> QED
    BY <2>3, <2>4
<1> QED
  BY <1>2, <1>3 DEF LInv

LEMMA LInit == Init => LInv
<1> SUFFICES ASSUME Init PROVE LInv
  OBVIOUS
<1>1. SInv /\ Workers = {}
  BY SInit, EmptyTable DEF Init, Workers
<1>2. ASSUME NEW f \in Files PROVE FileInv(f)
  <2>1. Position(f) = 0
    BY <1>1 DEF Position, Init
  <2>2. handled[f] = <<>> /\ resQue[f] = <<>> /\ lines[f] = 0 /\ Len(<<>>) = 0
        /\ DOMAIN <<>> = {}
    BY EmptyTable DEF Init
  <2>3. 1 .. Position(f) = {}
    BY <2>1
  <2> QED
    BY <2>1, <2>2, <2>3 DEF FileInv, Progress, InStep, Answered
<1> QED
  BY <1>1, <1>2 DEF LInv

LEMMA LStep == LInv /\ [Next]_vars => LInv'
<1> SUFFICES ASSUME LInv, [Next]_vars PROVE LInv'
  OBVIOUS
<1>1. SInv /\ SInv' /\ lines \in [Files -> Nat]
  BY SStep DEF LInv, SInv, TypeOK
<1>2. CASE \E g \in Groups : Arrive(g)
  <2>1. PICK g \in Groups : Arrive(g)
    BY <1>2
  <2>2. \A f \in Files : lines[f] <= lines'[f]
    BY <1>1, <2>1 DEF Arrive
  <2> QED
    BY <1>1, <2>1, <2>2, QuietLines DEF Arrive, table, disk, history
<1>3. CASE \/ RollDate \/ InitServer \/ Scan \/ CountThread \/ Interrupt \/ UNCHANGED vars
  <2>1. /\ UNCHANGED <<lines, lineFile, resQue, handled, lapse>>
        /\ InitServer \/ UNCHANGED thread
    BY <1>3 DEF RollDate, InitServer, Scan, CountThread, Interrupt, vars, env, table,
                disk, history
  <2>2. UNCHANGED thread
    BY <1>1, <2>1 DEF InitServer, SInv, TableInv
  <2>3. \A f \in Files : lines[f] <= lines'[f]
    BY <1>1, <2>1
  <2> QED
    BY <1>1, <2>1, <2>2, <2>3, QuietLines
<1>4. CASE CreateThread
  BY <1>1, <1>4, CreateThreadLines
<1>5. CASE Exit \/ Crash
  BY <1>1, <1>5, StopLines
<1>6. ASSUME NEW i \in Workers, ThreadProcess(i) PROVE LInv'
  BY <1>6, WorkerLines
<1> QED
  BY <1>2, <1>3, <1>4, <1>5, <1>6 DEF Next, MainThread

LEMMA LHolds == Spec => []LInv
BY LInit, LStep, PTL DEF Spec

----------------------------------------------------------------------------
\* Lines of a file are handled from the first on, in order, each exactly once,
\* unless a worker was killed between handing a line to Node and recording it.
THEOREM ExecHandledOnceInOrder == Spec => []HandledOnceInOrder
<1>1. LInv => HandledOnceInOrder
  <2> SUFFICES ASSUME LInv, NEW f \in Files \ lapse, NEW k \in DOMAIN handled[f]
               PROVE  handled[f][k].line = k
    BY DEF HandledOnceInOrder
  <2>1. handled[f] \in Seq(HandledLine)
    BY DEF LInv, SInv, TypeOK, HandledLine
  <2>2. DOMAIN handled[f] = 1 .. Len(handled[f])
    BY <2>1
  <2> QED
    BY <2>2 DEF LInv, FileInv, InStep
<1> QED
  BY <1>1, LHolds, PTL

\* Whatever a restart would read from a line file, the lines up to it are handled.
THEOREM ExecNothingSkipped == Spec => []NothingSkipped
<1>1. LInv => NothingSkipped
  <2> SUFFICES ASSUME LInv, NEW f \in Files, NEW n \in 1 .. lineFile[f]
               PROVE  Handled(f, n)
    BY DEF NothingSkipped
  <2>1. /\ PositionFacts /\ OneWorkerPerFile /\ SInv /\ Position(f) \in Nat
        /\ lineFile[f] \in Nat /\ FileInv(f)
    BY PositionHolds, GroupsDifferImplies, PositionType DEF LInv, SInv, TypeOK
  <2>2. lineFile[f] <= Position(f)
    <3>1. CASE \A i \in Workers : FileOf(i) = f => thread[i].pc \notin Unrecorded
      BY <2>1, <3>1 DEF PositionFacts
    <3>2. CASE \E i \in Workers : FileOf(i) = f /\ thread[i].pc \in Unrecorded
      <4>1. PICK i \in Workers : FileOf(i) = f /\ thread[i].pc \in Unrecorded
        BY <3>2
      <4>2. Position(f) = thread[i].linenum /\ WorkerInv(i) /\ thread[i].linenum \in Nat
        BY <2>1, <4>1, FileOfType DEF PositionFacts, LInv, SInv, Worker
      <4> QED
        BY <2>1, <4>1, <4>2 DEF WorkerInv, Unrecorded
    <3> QED
      BY <3>1, <3>2
  <2> QED
    BY <2>1, <2>2 DEF FileInv, Progress
<1> QED
  BY <1>1, LHolds, PTL

\* Answers are for handled lines, and follow their order unless a worker was
\* killed at work.
THEOREM ExecAnswersInOrder == Spec => []AnswersInOrder
<1>1. LInv => AnswersInOrder
  BY DEF LInv, FileInv, Answered, AnswersInOrder
<1> QED
  BY <1>1, LHolds, PTL

----------------------------------------------------------------------------
(* The executor implements TransactLedger *)

PositionOf == [f \in Files |-> Position(f)]
LinesOf(s) == [k \in DOMAIN s |-> s[k].line]
HandledOf  == [f \in Files |-> LinesOf(handled[f])]

LEMMA LedgerInit == Init => Ledger!Init
<1> SUFFICES ASSUME Init PROVE Ledger!Init
  OBVIOUS
<1>1. \A f \in Files : Position(f) = 0
  <2>1. Workers = {}
    BY EmptyTable DEF Init, Workers
  <2> QED
    BY <2>1 DEF Position, Init
<1>2. \A f \in Files : LinesOf(handled[f]) = <<>>
  BY EmptyTable DEF Init, LinesOf
<1>3. PositionOf = [f \in Files |-> 0] /\ HandledOf = [f \in Files |-> <<>>]
  BY <1>1, <1>2 DEF PositionOf, HandledOf
<1> QED
  BY <1>3 DEF Ledger!Init, Init, PositionOf, HandledOf, LinesOf

LEMMA LinesOfAppend ==
    ASSUME NEW s \in Seq(HandledLine), NEW r \in HandledLine
    PROVE  LinesOf(Append(s, r)) = Append(LinesOf(s), r.line)
<1> DEFINE t == Append(s, r)
           n == Len(s)
<1>1. /\ n \in Nat /\ DOMAIN s = 1 .. n /\ DOMAIN t = 1 .. n + 1
      /\ t[n + 1] = r /\ \A k \in 1 .. n : t[k] = s[k]
  OBVIOUS
<1>2. \A k \in 1 .. n : s[k].line \in Nat
  <2>1. \A k \in 1 .. n : s[k] \in HandledLine
    BY <1>1
  <2> QED
    BY <2>1 DEF HandledLine
<1>3. r.line \in Nat
  BY DEF HandledLine
<1> HIDE DEF t, n
<1>4. LinesOf(s) = [k \in 1 .. n |-> s[k].line]
  BY <1>1 DEF LinesOf
<1>5. LinesOf(t) = [k \in 1 .. n + 1 |-> t[k].line]
  BY <1>1 DEF LinesOf
<1>6. LinesOf(s) \in Seq(Nat) /\ Len(LinesOf(s)) = n
  BY <1>1, <1>2, <1>4
<1>7. /\ DOMAIN Append(LinesOf(s), r.line) = 1 .. n + 1
      /\ Append(LinesOf(s), r.line)[n + 1] = r.line
      /\ \A k \in 1 .. n : Append(LinesOf(s), r.line)[k] = LinesOf(s)[k]
      /\ Append(LinesOf(s), r.line) \in Seq(Nat)
  BY <1>1, <1>3, <1>6
<1>8. /\ LinesOf(t) \in Seq(Nat) /\ DOMAIN LinesOf(t) = 1 .. n + 1
      /\ LinesOf(t)[n + 1] = r.line
      /\ \A k \in 1 .. n : LinesOf(t)[k] = LinesOf(s)[k]
  BY <1>1, <1>2, <1>3, <1>4, <1>5
<1>9. LinesOf(t) = Append(LinesOf(s), r.line)
  <2>1. \A k \in 1 .. n + 1 : LinesOf(t)[k] = Append(LinesOf(s), r.line)[k]
    BY <1>1, <1>7, <1>8
  <2>2. Append(LinesOf(s), r.line) = [k \in 1 .. n + 1 |-> Append(LinesOf(s), r.line)[k]]
    <3> DEFINE a == Append(LinesOf(s), r.line)
    <3>1. a \in Seq(Nat) /\ DOMAIN a = 1 .. n + 1
      BY <1>7
    <3> HIDE DEF a
    <3>2. a \in [1 .. Len(a) -> Nat]
      BY <3>1
    <3>3. a = [k \in DOMAIN a |-> a[k]]
      BY <3>2
    <3> QED
      BY <3>1, <3>3 DEF a
  <2>3. LinesOf(t) = [k \in 1 .. n + 1 |-> LinesOf(t)[k]]
    BY <1>5, <1>8
  <2> QED
    BY <2>1, <2>2, <2>3
<1> QED
  BY <1>9 DEF t

\* Nothing the ledger sees
LEMMA LedgerStutter ==
    ASSUME \A f \in Files : Position(f)' = Position(f), handled' = handled,
           lines' = lines, lapse' = lapse
    PROVE  UNCHANGED Ledger!vars
<1>1. PositionOf' = PositionOf /\ HandledOf' = HandledOf
  BY DEF PositionOf, HandledOf, LinesOf
<1> QED
  BY <1>1 DEF Ledger!vars, PositionOf, HandledOf, LinesOf

LEMMA LedgerArrive ==
    ASSUME SInv, NEW g \in Groups, Arrive(g), \A f \in Files : Position(f)' = Position(f)
    PROVE  \E f \in Files : Ledger!Queue(f)
<1>1. <<system_date, g>> \in Files
  BY DEF SInv, TypeOK, Files
<1>2. PositionOf' = PositionOf /\ HandledOf' = HandledOf
  BY DEF PositionOf, HandledOf, LinesOf, Arrive, history
<1>3. Ledger!Queue(<<system_date, g>>)
  BY <1>2 DEF Ledger!Queue, Arrive, PositionOf, HandledOf, LinesOf, history
<1> QED
  BY <1>1, <1>3

LEMMA LedgerHandle ==
    ASSUME SInv, NEW f \in Files, HandlesNext(f), UNCHANGED <<lines, lapse>>,
           \A g \in Files : g # f => Position(g)' = Position(g)
    PROVE  Ledger!Handle(f)
<1>1. PICK r \in HandledLine : /\ r.line = Position(f) + 1
                               /\ handled' = [handled EXCEPT ![f] = Append(@, r)]
  BY DEF HandlesNext
<1>2. handled \in [Files -> Seq(HandledLine)]
  BY DEF SInv, TypeOK, HandledLine
<1>3. /\ handled'[f] = Append(handled[f], r) /\ handled[f] \in Seq(HandledLine)
      /\ \A g \in Files : g # f => handled'[g] = handled[g]
  BY <1>1, <1>2
<1>4. LinesOf(handled'[f]) = Append(LinesOf(handled[f]), Position(f) + 1)
  BY <1>1, <1>3, LinesOfAppend
<1>5. PositionOf' = [PositionOf EXCEPT ![f] = Position(f) + 1]
  <2>1. Position(f)' = Position(f) + 1
    BY DEF HandlesNext
  <2> QED
    BY <2>1 DEF PositionOf
<1>6. HandledOf' = [HandledOf EXCEPT ![f] = Append(@, Position(f) + 1)]
  <2> DEFINE s == Append(LinesOf(handled[f]), Position(f) + 1)
  <2>1. LinesOf(handled[f])' = s /\ HandledOf[f] = LinesOf(handled[f])
    BY <1>4 DEF LinesOf, HandledOf
  <2>2. \A g \in Files : g # f => LinesOf(handled[g])' = LinesOf(handled[g])
    BY <1>3 DEF LinesOf
  <2>3. HandledOf' = [g \in Files |-> IF g = f THEN s ELSE HandledOf[g]]
    BY <2>1, <2>2 DEF HandledOf
  <2> HIDE DEF s
  <2>4. HandledOf' = [HandledOf EXCEPT ![f] = s]
    BY <2>3 DEF HandledOf
  <2> QED
    BY <2>1, <2>4 DEF s
<1>7. PositionOf[f] = Position(f) /\ Position(f) < lines[f]
  BY DEF PositionOf, HandlesNext
<1> QED
  BY <1>5, <1>6, <1>7 DEF Ledger!Handle, PositionOf, HandledOf, LinesOf

LEMMA PositionsType == SInv => \A f \in Files : Position(f) \in Nat
BY PositionType

LEMMA PositionsTypeNext == SInv' => (\A f \in Files : Position(f) \in Nat)'
BY PositionsType, PTL

LEMMA LedgerSetBack ==
    ASSUME LInv, LInv', Exit \/ Crash,
           \A f \in Files : \/ f \in AtWork /\ Position(f)' \in {0, Position(f) - 1}
                            \/ f \notin AtWork /\ Position(f)' = Position(f)
    PROVE  \E S \in SUBSET Files : Ledger!SetBack(S)
<1>1. /\ AtWork \in SUBSET Files /\ lapse' = lapse \cup AtWork
      /\ lines' = lines /\ handled' = handled
  BY FileOfType DEF AtWork, LInv, SInv, Exit, Crash, env
<1>2. PositionOf' \in [Files -> Nat]
  <2>1. \A f \in Files : Position(f)' \in Nat
    BY PositionsTypeNext DEF LInv
  <2> QED
    BY <2>1 DEF PositionOf
<1>3. HandledOf' = HandledOf
  BY <1>1 DEF HandledOf, LinesOf
<1>4. \A f \in Files : PositionOf[f] = Position(f) /\ PositionOf'[f] = Position(f)'
  BY DEF PositionOf
<1>5. Ledger!SetBack(AtWork)
  BY <1>1, <1>2, <1>3, <1>4 DEF Ledger!SetBack, PositionOf, HandledOf, LinesOf
<1> QED
  BY <1>1, <1>5

LEMMA LedgerStep == LInv /\ [Next]_vars => [Ledger!Next]_(Ledger!vars)
<1> SUFFICES ASSUME LInv, [Next]_vars PROVE Ledger!Next \/ UNCHANGED Ledger!vars
  OBVIOUS
<1>1. SInv /\ SInv' /\ LInv' /\ lines \in [Files -> Nat]
  BY LStep, SStep DEF LInv, SInv, TypeOK
<1>2. CASE \E g \in Groups : Arrive(g)
  <2>1. PICK g \in Groups : Arrive(g)
    BY <1>2
  <2>2. \A f \in Files : lines[f] <= lines'[f]
    BY <1>1, <2>1 DEF Arrive
  <2>3. \A f \in Files : Position(f)' = Position(f)
    BY <1>1, <2>1, <2>2, QuietLines DEF Arrive, table, disk, history
  <2>4. \E f \in Files : Ledger!Queue(f)
    BY <1>1, <2>1, <2>3, LedgerArrive
  <2> QED
    BY <2>4 DEF Ledger!Next
<1>3. CASE \/ RollDate \/ InitServer \/ Scan \/ CountThread \/ Interrupt \/ UNCHANGED vars
  <2>1. UNCHANGED <<thread, lines, lineFile, resQue, handled, lapse>>
    BY <1>1, <1>3 DEF RollDate, InitServer, Scan, CountThread, Interrupt, vars, env,
                      table, disk, history, SInv, TableInv
  <2>2. \A f \in Files : lines[f] <= lines'[f]
    BY <1>1, <2>1
  <2>3. \A f \in Files : Position(f)' = Position(f)
    BY <1>1, <2>1, <2>2, QuietLines
  <2> QED
    BY <2>1, <2>3, LedgerStutter
<1>4. CASE CreateThread
  <2>1. \A f \in Files : Position(f)' = Position(f)
    BY <1>1, <1>4, CreateThreadLines
  <2> QED
    BY <1>4, <2>1, LedgerStutter DEF CreateThread, env, disk, history
<1>5. CASE Exit \/ Crash
  <2>1. \E S \in SUBSET Files : Ledger!SetBack(S)
    BY <1>1, <1>5, StopLines, LedgerSetBack
  <2> QED
    BY <2>1 DEF Ledger!Next
<1>6. ASSUME NEW i \in Workers, ThreadProcess(i)
      PROVE  Ledger!Next \/ UNCHANGED Ledger!vars
  <2>1. PICK f \in Files :
           /\ \/ Position(f)' = Position(f) /\ handled' = handled
              \/ HandlesNext(f)
           /\ \A g \in Files : g # f => Position(g)' = Position(g)
    BY <1>6, WorkerLines
  <2>2. UNCHANGED <<lines, lapse>>
    BY <1>6, WorkerLines
  <2>3. CASE HandlesNext(f)
    <3>1. Ledger!Handle(f)
      BY <1>1, <2>1, <2>2, <2>3, LedgerHandle
    <3> QED
      BY <3>1 DEF Ledger!Next
  <2>4. CASE Position(f)' = Position(f) /\ handled' = handled
    BY <2>1, <2>2, <2>4, LedgerStutter
  <2> QED
    BY <2>1, <2>3, <2>4
<1> QED
  BY <1>2, <1>3, <1>4, <1>5, <1>6 DEF Next, MainThread

\* The executor, with its threads, restarts and line files, does nothing that the
\* ledger of positions and handled lines does not allow.
THEOREM ExecImplementsLedger == Spec => ImplementsLedger
BY LedgerInit, LedgerStep, LHolds, PTL DEF Spec, ImplementsLedger, Ledger!Spec

----------------------------------------------------------------------------
(* Repetition *)

\* Line n of its file is still before worker i.
Ahead(i, n) == \/ n > thread[i].linenum
               \/ n = thread[i].linenum /\ thread[i].pc = "call"

\* The program runs and has not handled line n of f since it was started.
NotYet(f, n) == main # "down" /\ \A i \in Workers : FileOf(i) = f => Ahead(i, n)

\* No line was handled more often than the program was started, and one that the
\* running program has not come to less often.
Repetition ==
    \A f \in Files, n \in Nat :
        Times(f, n) <= starts /\ (NotYet(f, n) => Times(f, n) < starts)

\* Where line n is in a history of handled lines
At(s, n) == {k \in DOMAIN s : s[k].line = n}

LEMMA AtFinite ==
    ASSUME NEW s \in Seq(HandledLine), NEW n
    PROVE  IsFiniteSet(At(s, n)) /\ Cardinality(At(s, n)) \in Nat
<1>1. Len(s) \in Nat /\ DOMAIN s = 1 .. Len(s)
  OBVIOUS
<1>2. IsFiniteSet(1 .. Len(s))
  BY <1>1, FS_Interval
<1>3. At(s, n) \in SUBSET (1 .. Len(s))
  BY <1>1 DEF At
<1> QED
  BY <1>2, <1>3, FS_Subset, FS_CardinalityType

LEMMA AtAppend ==
    ASSUME NEW s \in Seq(HandledLine), NEW r \in HandledLine, NEW n
    PROVE  /\ r.line = n => Cardinality(At(Append(s, r), n)) = Cardinality(At(s, n)) + 1
           /\ r.line # n => At(Append(s, r), n) = At(s, n)
<1> DEFINE t == Append(s, r)
<1>1. /\ Len(s) \in Nat /\ DOMAIN s = 1 .. Len(s) /\ DOMAIN t = 1 .. Len(s) + 1
      /\ t[Len(s) + 1] = r /\ \A k \in 1 .. Len(s) : t[k] = s[k]
  OBVIOUS
<1> HIDE DEF t
<1>2. ASSUME r.line = n
      PROVE  Cardinality(At(t, n)) = Cardinality(At(s, n)) + 1
  <2>1. At(t, n) = At(s, n) \cup {Len(s) + 1} /\ Len(s) + 1 \notin At(s, n)
    BY <1>1, <1>2 DEF At
  <2> QED
    BY <2>1, AtFinite, FS_AddElement
<1>3. r.line # n => At(t, n) = At(s, n)
  BY <1>1 DEF At
<1> QED
  BY <1>2, <1>3 DEF t

LEMMA TimesAt ==
    ASSUME TypeOK, NEW f \in Files, NEW n
    PROVE  /\ handled[f] \in Seq(HandledLine)
           /\ Times(f, n) = Cardinality(At(handled[f], n)) /\ Times(f, n) \in Nat
<1>1. handled[f] \in Seq(HandledLine)
  BY DEF TypeOK, HandledLine
<1>2. Times(f, n) = Cardinality(At(handled[f], n))
  BY Zenon DEF Times, At
<1> QED
  BY <1>1, <1>2, AtFinite

LEMMA RepetitionInit == Init => Repetition
<1> SUFFICES ASSUME Init, NEW f \in Files, NEW n \in Nat
             PROVE  Times(f, n) <= starts /\ (NotYet(f, n) => Times(f, n) < starts)
  BY DEF Repetition
<1>1. {k \in DOMAIN handled[f] : handled[f][k].line = n} = {}
  BY EmptyTable DEF Init
<1>2. Times(f, n) = 0
  BY <1>1, FS_EmptySet DEF Times
<1> QED
  BY <1>2 DEF Init, NotYet

\* A step that handles nothing, after which no more lines are still to come
LEMMA QuietRepetition ==
    ASSUME Repetition, UNCHANGED <<handled, starts>>,
           \A f \in Files, n \in Nat : NotYet(f, n)' => NotYet(f, n)
    PROVE  Repetition'
<1>1. \A f \in Files, n \in Nat : Times(f, n)' = Times(f, n)
  BY DEF Times
<1> QED
  BY <1>1 DEF Repetition

\* A step of a worker handles no line, or the one that it is at.
LEMMA WorkerRepetition ==
    ASSUME SInv, NEW i \in Workers, ThreadProcess(i)
    PROVE  \/ handled' = handled /\ \A n \in Nat : Ahead(i, n)' => Ahead(i, n)
           \/ /\ Ahead(i, thread[i].linenum)
              /\ \E r \in HandledLine :
                    /\ r.line = thread[i].linenum
                    /\ handled' = [handled EXCEPT ![FileOf(i)] = Append(@, r)]
              /\ \A n \in Nat : Ahead(i, n)' => Ahead(i, n) /\ n # thread[i].linenum
<1> DEFINE w == thread[i]
<1>1. /\ thread \in Seq(Worker) /\ i \in DOMAIN thread /\ w \in Worker /\ w.linenum \in Nat
      /\ w.finish_line \in Nat /\ w.wait_count \in Nat
  <2>1. w \in Worker /\ thread \in Seq(Worker)
    BY FileOfType DEF SInv, TypeOK
  <2> QED
    BY <2>1 DEF Workers, Worker
<1>2. CASE Start(i)
  <2>1. PICK x \in {"read", "done"} :
           thread' = [thread EXCEPT ![i].finish_line = lineFile[FileOf(i)], ![i].pc = x]
    BY <1>2 DEF Start
  <2>2. thread'[i] = [w EXCEPT !.finish_line = lineFile[FileOf(i)], !.pc = x]
    BY <1>1, <2>1, WorkerExcept
  <2>3. thread'[i].linenum = w.linenum /\ thread'[i].pc = x
    BY <1>1, <2>2, FieldExcept
  <2> QED
    BY <1>2, <2>1, <2>3 DEF Start, Ahead, history
<1>3. CASE ReadLine(i)
  <2>1. PICK x : thread' = [thread EXCEPT ![i].linenum = w.linenum + 1, ![i].pc = x]
    BY <1>1, <1>3 DEF ReadLine
  <2>2. thread'[i] = [w EXCEPT !.linenum = w.linenum + 1, !.pc = x]
    BY <1>1, <2>1, WorkerExcept
  <2>3. thread'[i].linenum = w.linenum + 1
    BY <1>1, <2>2, FieldExcept
  <2> QED
    BY <1>1, <1>3, <2>3 DEF ReadLine, Ahead, history
<1>4. CASE PollEnd(i)
  <2>1. CASE thread' = thread
    BY <1>4, <2>1 DEF PollEnd, Ahead, history
  <2>2. CASE thread' # thread
    <3>1. PICK x \in {"done", "read"} :
             thread' = [thread EXCEPT ![i].wait_count = w.wait_count + 1, ![i].pc = x]
      BY <1>1, <1>4, <2>2 DEF PollEnd
    <3>2. thread'[i] = [w EXCEPT !.wait_count = w.wait_count + 1, !.pc = x]
      BY <1>1, <3>1, WorkerExcept
    <3>3. thread'[i].linenum = w.linenum /\ thread'[i].pc = x
      BY <1>1, <3>2, FieldExcept
    <3> QED
      BY <1>4, <3>1, <3>3 DEF PollEnd, Ahead, history
  <2> QED
    BY <2>1, <2>2
<1>5. CASE \/ Leave(i) \/ InsertResponseQue(i) \/ TruncateLineFile(i) \/ WriteReadLineNum(i)
  <2>1. PICK x \in {"done", "truncate", "write", "read"} :
           thread' = [thread EXCEPT ![i].pc = x]
    BY <1>5 DEF Leave, InsertResponseQue, TruncateLineFile, WriteReadLineNum
  <2>2. thread'[i].linenum = w.linenum /\ thread'[i].pc = x
    BY <1>1, <2>1, SetPc
  <2>3. handled' = handled
    BY <1>5 DEF Leave, InsertResponseQue, TruncateLineFile, WriteReadLineNum, history
  <2> QED
    BY <2>1, <2>2, <2>3 DEF Ahead
<1>6. CASE CallNode(i) \/ RefuseLine(i)
  <2>1. w.pc = "call"
    BY <1>6 DEF CallNode, RefuseLine
  <2>2. PICK x \in {"respond", "truncate"} : thread' = [thread EXCEPT ![i].pc = x]
    BY <1>6 DEF CallNode, RefuseLine
  <2>3. thread'[i].linenum = w.linenum /\ thread'[i].pc = x
    BY <1>1, <2>2, SetPc
  <2>4. \E b \in BOOLEAN :
           handled' = [handled EXCEPT ![FileOf(i)] =
                          Append(@, [line |-> w.linenum, node |-> b])]
    BY <1>6 DEF CallNode, RefuseLine, Handle
  <2>5. \E r \in HandledLine :
           /\ r.line = w.linenum
           /\ handled' = [handled EXCEPT ![FileOf(i)] = Append(@, r)]
    BY <1>1, <2>4 DEF HandledLine
  <2>6. \A n \in Nat : Ahead(i, n)' => Ahead(i, n) /\ n # w.linenum
    BY <1>1, <2>2, <2>3 DEF Ahead
  <2> QED
    BY <2>1, <2>5, <2>6 DEF Ahead
<1> QED
  BY <1>2, <1>3, <1>4, <1>5, <1>6 DEF ThreadProcess

LEMMA RepetitionStep ==
    ASSUME SInv, Repetition, [Next]_vars
    PROVE  Repetition'
<1>1. SInv' /\ TypeOK /\ OneWorkerPerFile /\ starts \in Nat
  BY SStep, GroupsDifferImplies DEF SInv, TypeOK
<1>2. CASE \/ \E g \in Groups : Arrive(g)
           \/ RollDate \/ Scan \/ CountThread \/ Interrupt
           \/ UNCHANGED vars
  <2>1. UNCHANGED <<thread, handled, starts>> /\ (main' # "down" => main # "down")
    BY <1>2 DEF Arrive, RollDate, Scan, CountThread, Interrupt, vars, table, history
  <2> QED
    BY <2>1, QuietRepetition DEF NotYet, Ahead, Workers, FileOf
<1>3. CASE InitServer
  <2>1. \A f \in Files, n \in Nat : Times(f, n)' = Times(f, n) /\ Times(f, n) \in Nat
    BY <1>1, <1>3, TimesAt DEF InitServer, Times
  <2>2. starts' = starts + 1
    BY <1>3 DEF InitServer
  <2>3. ASSUME NEW f \in Files, NEW n \in Nat
        PROVE  Times(f, n)' <= starts' /\ Times(f, n)' < starts'
    <3>1. Times(f, n) \in Nat /\ Times(f, n) <= starts /\ Times(f, n)' = Times(f, n)
      BY <2>1 DEF Repetition
    <3> QED
      BY <1>1, <2>2, <3>1
  <2> QED
    BY <2>3 DEF Repetition
<1>4. CASE CreateThread
  <2>1. thread' = Append(thread, NewWorker(system_date, account_group))
    BY <1>4 DEF CreateThread
  <2>2. NewWorker(system_date, account_group) \in Worker
    BY <1>1 DEF TypeOK, NewWorker, Worker, WorkerPCs
  <2>3. Workers \subseteq Workers' /\ \A j \in Workers : thread'[j] = thread[j]
    BY <1>1, <2>1, <2>2, AddWorker DEF TypeOK, Workers
  <2>4. \A f \in Files, n \in Nat : NotYet(f, n)' => NotYet(f, n)
    BY <1>4, <2>3 DEF CreateThread, NotYet, Ahead, FileOf
  <2> QED
    BY <1>4, <2>4, QuietRepetition DEF CreateThread, history
<1>5. CASE Exit \/ Crash
  BY <1>5, QuietRepetition DEF Exit, Crash, NotYet
<1>6. ASSUME NEW i \in Workers, ThreadProcess(i) PROVE Repetition'
  <2>1. /\ Workers' = Workers /\ \A j \in Workers : FileOf(j)' = FileOf(j)
        /\ \A j \in Workers : j # i => thread'[j] = thread[j]
        /\ main' = main /\ starts' = starts
    BY <1>6, WorkerStepType, WorkerStepTable DEF SInv, WorkerStep
  <2>2. PICK p : p = FileOf(i) /\ p \in Files
    BY <1>1, FileOfType
  <2>3. ASSUME NEW f \in Files, NEW n \in Nat, NotYet(f, n)',
               f = p => (Ahead(i, n)' => Ahead(i, n))
        PROVE  NotYet(f, n)
    <3>1. main # "down"
      BY <2>1, <2>3 DEF NotYet
    <3>2. ASSUME NEW j \in Workers, FileOf(j) = f PROVE Ahead(j, n)
      <4>1. Ahead(j, n)'
        BY <2>1, <2>3, <3>2 DEF NotYet
      <4> QED
        BY <2>1, <2>2, <2>3, <3>2, <4>1 DEF Ahead
    <3> QED
      BY <3>1, <3>2 DEF NotYet
  <2>4. CASE handled' = handled /\ \A n \in Nat : Ahead(i, n)' => Ahead(i, n)
    BY <2>1, <2>3, <2>4, QuietRepetition
  <2>5. CASE /\ Ahead(i, thread[i].linenum)
             /\ \E r \in HandledLine :
                   /\ r.line = thread[i].linenum
                   /\ handled' = [handled EXCEPT ![p] = Append(@, r)]
             /\ \A n \in Nat : Ahead(i, n)' => Ahead(i, n) /\ n # thread[i].linenum
    <3>1. PICK r \in HandledLine : /\ r.line = thread[i].linenum
                                   /\ handled' = [handled EXCEPT ![p] = Append(@, r)]
      BY <2>5
    <3>2. handled \in [Files -> Seq(HandledLine)]
      BY <1>1 DEF TypeOK, HandledLine
    <3>3. ASSUME NEW f \in Files, NEW n \in Nat
          PROVE  Times(f, n)' <= starts' /\ (NotYet(f, n)' => Times(f, n)' < starts')
      <4>1. /\ Times(f, n) \in Nat /\ Times(f, n) <= starts
            /\ NotYet(f, n) => Times(f, n) < starts
        BY <1>1, TimesAt DEF Repetition
      <4>2. NotYet(f, n)' => NotYet(f, n)
        BY <2>3, <2>5
      <4>3. CASE f # p
        <5>1. Times(f, n)' = Times(f, n)
          BY <3>1, <3>2, <4>3 DEF Times
        <5> QED
          BY <2>1, <4>1, <4>2, <5>1
      <4>4. CASE f = p
        <5>1. handled[f] \in Seq(HandledLine) /\ handled'[f] = Append(handled[f], r)
          BY <3>1, <3>2, <4>4
        <5>2. /\ r.line = n => Times(f, n)' = Times(f, n) + 1
              /\ r.line # n => Times(f, n)' = Times(f, n)
          <6>1. Times(f, n) = Cardinality(At(handled[f], n))
            BY Zenon DEF Times, At
          <6>2. Times(f, n)' = Cardinality(At(handled'[f], n))
            BY Zenon DEF Times, At
          <6> QED
            BY <5>1, <6>1, <6>2, AtAppend
        <5>3. CASE r.line # n
          BY <2>1, <4>1, <4>2, <5>2, <5>3
        <5>4. CASE r.line = n
          <6>1. NotYet(f, n)
            <7>1. \A j \in Workers : FileOf(j) = f => j = i
              BY <1>1, <2>2, <4>4 DEF OneWorkerPerFile
            <7>2. main # "down"
              BY EmptyTable DEF SInv, TableInv, Workers
            <7>3. Ahead(i, n)
              BY <2>5, <3>1, <5>4
            <7> QED
              BY <7>1, <7>2, <7>3 DEF NotYet
          <6>2. ~NotYet(f, n)'
            <7>1. ~Ahead(i, n)'
              BY <2>5, <3>1, <5>4
            <7> QED
              BY <2>1, <2>2, <4>4, <7>1 DEF NotYet
          <6> QED
            BY <1>1, <2>1, <4>1, <5>2, <5>4, <6>1, <6>2
        <5> QED
          BY <5>3, <5>4
      <4> QED
        BY <4>3, <4>4
    <3> QED
      BY <3>3 DEF Repetition
  <2> QED
    BY <1>6, <2>2, <2>4, <2>5, WorkerRepetition
<1> QED
  BY <1>2, <1>3, <1>4, <1>5, <1>6 DEF Next, MainThread

\* Whatever is killed and whenever, the program handles a line at most once per
\* start: a restart can repeat a line, a worker never does.
THEOREM ExecOncePerStart == Spec => []OncePerStart
<1>1. SInv /\ Repetition => OncePerStart
  BY BoundsAssumption DEF Repetition, OncePerStart
<1>2. Spec => []Repetition
  <2>1. Repetition /\ SInv /\ [Next]_vars => Repetition'
    BY RepetitionStep
  <2> QED
    BY <2>1, RepetitionInit, SHolds, PTL DEF Spec
<1> QED
  BY <1>1, <1>2, SHolds, PTL
=============================================================================
