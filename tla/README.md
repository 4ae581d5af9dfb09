# Klaytn-Connector in TLA+

This directory holds TLA+ models of the Klaytn-Connector servers (`src/`), the
TLC configurations that check them on small instances, and TLAPS proofs of what
matters most for every value of the constants. Every definition follows the C
source; `PROJECT.json` maps each one to its lines.

## 1. The system

The connector lets services send token transfers and queries to the Klaytn block
chain, directly or through KAS, by way of one-shot Node processes. It is a set of
C processes that share a block of memory (`mdb`) and a data directory:

```
 service --transfer--> RequestTransact --data/req/<date>.<group>.que--> ExecTransact --> Node
 service <--answers--- ResponseTransact <--data/res/<date>.<group>.que------'
 service --query-----> InquiryCall --> Node
 service <--events---- SendNodeEvent <--data/event/<date>.evt-- KAS_NodeAPI.js
 InitMemory: creates mdb, sets the date and the status      ProcessManager: restarts what died
```

Inventory. "Hard" is what tests hardly reach; "correct" is what must hold.

| Component | State | Operations | Hard | Correct |
|---|---|---|---|---|
| **RequestTransact** (`src/src/process/RequestTransact.c`) | `unique_datakey`; user table in `mdb`, epoll set; files `req/*.que`, `line/RequestTransact.<date>.datakey` | login, hang-up, transfer request (number it, append it, record the number, answer), start, SIGTERM | kill between two file operations; the date changes while a request is served; the day's counter overflows; `fopen` fails | datakeys are unique and sorted per file; an acknowledged request is queued; table and epoll agree |
| **ExecTransact** (`ExecTransact.c`) | thread table; per worker `linenum`, `finish_line`; files `line/*.line`, `res/*.que` | scan for new queue files, create worker, read line, call Node, append the answer, record the line, stop and join | threads against the main thread and SIGTERM; kill between Node and the record; change of date between scan and creation | one worker per file; lines handled once, in order, none skipped; answers in order |
| **InquiryCall** (`InquiryCall.c`) | ring queue per worker (`read_ptr`, `write_ptr`, slots), user table | accept, hang-up, allocate a worker, enqueue, call Node, answer, clear the slot | lock-free rings searched by the main thread while workers free the entries; full ring; client gone before the answer | a group's requests one at a time in order; nothing lost; answers to the client that asked |
| **ResponseTransact** (`ResponseTransact.c`) | user table, thread table (`thread_terminate`, `initialized`, open files), descriptors | login makes a slot and a session thread, the thread opens, reads and closes `res/*.que` files, a hang-up or a failing send ends the session (`RemoveUser`) | a session that removes itself joins its own thread; slot and descriptor reused meanwhile; stale events of a batch; the date changes between two rounds | slots, threads and descriptors belong together; every answer a service wants, from the datakey of its login on, once and in order |
| **SendNodeEvent** (`SendNodeEvent.c`) | as ResponseTransact, over `.evt` files | as ResponseTransact | as ResponseTransact; the date of the Node process and the shared date differ | as ResponseTransact, the datakey being date and line number; events arrive |
| **ProcessManager** (`manage/ProcessManager.c`), registry in `ft_common.c` | process table in `mdb` | check every ten seconds, restart, register, remove, check the Node process | check then set without a lock; a slow start is started twice; reused process ids | at most one live process per entry; a dead one is restarted |
| **Line files** (`ft_common.c`) | `line/*.line` | `GetReadLineNum`, `WriteReadLineNum` | file empty between `fopen "w"` and `fclose` | reads back what was written |
| **InitMemory** | `mdb` | `all`, `conf`, `system_date`, `system_status`, `process` | changes under the running servers | servers stay consistent |
| **monitor** | none | prints `mdb` | - | - |
| **Node scripts** (`src/node/`) | none; event file | one call per process; append events | may print nothing, may hang | external |

Interaction is by files that one process appends to and another tails
(RequestTransact to ExecTransact to ResponseTransact, the Node event process to
SendNodeEvent), by shared memory (date, status, user tables, process table), by
TCP with the services and by `popen` of Node. The only lock is `user_mutex` of ResponseTransact
and SendNodeEvent: it makes single accesses of the user table atomic (finding and filling a
slot, `ResponseTransact.c:432`-`454`; clearing one, `:516`; looking one up, `:531`; SendNodeEvent the
same). It covers neither the steps of `RemoveUser` between the look-up and the clearing, nor the
thread table, nor what a session thread reads of its user. The other servers, the manager
and the shared memory have none.

## 2. Modules

| Module | Models | Status |
|---|---|---|
| `RequestTransact` | the request server | checked, proved |
| `ExecTransact` | the executor: main thread, workers, line and response files | checked, proved |
| `TransactLedger` | what the executor promises: a position per file, lines handled from there on | refined by `ExecTransact`, checked and proved |
| `InquiryCall` | the inquiry server: connections, `AllocateThread`, rings, workers | checked, proved |
| `ResponseTransact` | the response server: main thread, `RemoveUser` as a procedure, session threads | checked, proved |
| `SendNodeEvent` | the event server, an instance of `ResponseTransact`, composed with the Node process that writes its files | checked, proved |
| `ProcessManager` | the manager's rounds, the process table, starts and ends of servers, the Node process | checked, proved |
| `MC` and the name of a module | small instances for TLC: symmetry sets, `Fold`, files, datakeys, logins, the process list | |
| the name of a module and `Proofs` | theorems and proofs about it, one such module for each server and the manager | |
| `NaturalLemmas` | least elements and remainders, which the proofs of slots and rings need | |

Operators commented "Mistake:" are not part of any specification. Each is a
plausible error in the definition that follows it, kept to show that a property
notices it.

### RequestTransact

One process, one epoll loop. `pc` is where the process is: `down`, in the `loop`,
or between two steps of a request: `alloc` (number it), `append` (queue file),
`truncate` and `write` (the two halves of `WriteDataKeyToFile`: `fopen "w"` empties
the file, `fclose` fills it), `reply`. A handler is sequential, but `Crash`,
`Interrupt` (SIGTERM, which exits from wherever it hits), `RollDate` and
`SetStatus` (InitMemory) come between any two of its steps, which is where the code
reads `mdb->system_date` again (lines 239, 247, 285).

A datakey `date * 100000000 + seq` is the pair `[date, seq]`; `NextKey` carries
into the date as the addition does, and `KeyBase` stands for 100000000. A queue file
is the sequence of the datakeys of its lines. `answers` remembers what services
were told; `lapse` remembers the two ways in which keys can repeat: a kill between
append and record, and an exhausted day.

Requests that are refused (not a transaction, system not open, unknown socket)
change nothing and have no action. `SendTCP` may fail, so that an answer arrives or
does not.

### ExecTransact

`main` is where the main thread is, `thread` the thread table with each worker's own
variables, `thread_count` the counter the main thread raises one step after
`pthread_create`, which matters because `interrupt()` joins only counted workers.
`lines[f]` is how many complete lines queue file `f` has (`Arrive` is
RequestTransact's append). A worker goes `start` (read `finish_line`, open the file),
`read` (one line, skipped up to `finish_line`), `call` (Node, or refuse), `respond`
(append the answer), `truncate`, `write` (the two halves of `WriteReadLineNum`).
A line is handled, as `handled` records, when Node is run for it or it is refused.
`lapse` is the set of files whose worker was killed between handling a line and
recording it. `Fold` is what `strcasecmp` compares.

### TransactLedger

Per file a position, the lines handled in order, and whether the position was ever set
back. `Handle(f)` moves the position one line on; `SetBack(S)` is the end of a
process with workers at work: their files fall back by one line, or to 0 when the kill
hit the emptied line file. The refinement mapping takes the position from the worker that
has a line in its hands, and from the line file otherwise.

### InquiryCall

The main thread's `AllocateThread` is modelled entry by entry: `Search` looks at one slot,
`NextRing` loads the next ring's `read_ptr`, `Pick` compares one head's
`request_time`, then `Enqueue` or `Refuse`. `Enqueue` is a store at a time: `WriteUserOffset`
(line 253), `WriteRcvbuf` (254), `WriteTime` (255), `Publish` (256). So is a worker: it loads `rcvbuf`
(`Take`, 321) and then `user_offset` (`Dispatch`, 327-336), sends the answer (`Answer`), and
after it `Free` (340), `ClearRcvbuf` (340), `ClearOffset` and `ClearTime` (341), `Advance` (342). As long as
the rings hold, the two sides are never at the same slot; after a full ring was written they are,
and all orders of these steps are behaviours of the model. User slots are numbered from 0 as
in the code, because 0 is also what a cleared `user_offset` says.
A slot's `memory` says whether the buffer it points to is allocated, freed, or freed and
overwritten by a later `malloc`: `SearchFreed` and `SearchFaults` are the
outcomes that reading it can have (it reads as before, as no group, or the process
faults). `overrun` remembers that a full ring was written. `time()` only matters
where request times are compared, so `clock` moves, or not, at each enqueue.
All state is in the process or reset by `InitServer`, so a start begins anew.

### ResponseTransact

`main` is the main thread: in its loop, or between `pthread_create` and
`thread_count++`; `main.events` are the epoll events of a batch still to be handled
(`Poll`), so that an event may be of a descriptor that was closed and given away
since. `AcceptUser` fills the slot, makes the thread entry and the thread. `RemoveUser`
is called by the main thread and by session threads, several at a time: `remove[a]` is
where actor `a` is in it (0 is the main thread). `CallRemoveUser` looks the slot up,
`Terminate` tells the next thread to end and joins it, `Join` returns, `LeaveLoop` finds
no more threads, `CloseUser` closes the descriptor that the slot has *by then*,
`ClearUser` clears the slot. A join of oneself, of somebody who is waiting
for oneself, or of a thread that is joined already returns at once (`JoinRefused`), and
the code, which does not look at the result, clears the thread entry and with it
`thread_terminate`.

A session thread goes by rounds: `BeginRound` lists and opens files and may
close old ones, and fixes which files a line is read from in this round (`readfds`, the
code's loop over its list); `SkipLine`, `SendLine`, `SendFails` are what a line can lead to;
`EndThread` is the test of `thread_terminate` at the end of a round. `thread[i]` is
the entry in the shared table, `local[i]` what only the thread has, `user_offset` among it,
which it copies when it starts: the two differ after the entry was cleared.

`conn[d]` is descriptor `d` and what the service at its other end knows: its login, whether
it has hung up, the lines it got. `lapse` holds the sessions that called `RemoveUser`
themselves. The datakey of a login is never advanced, so the server does not remember
where a service is; what a service passes at its next login is its own affair, and
`NothingPassedOver` is what makes the largest datakey of a file the right choice.

### SendNodeEvent

The code is ResponseTransact's, line by line, but for what is read. The module is
an `INSTANCE` of `ResponseTransact` with one group and one name, every action being named
for the event server's function, composed with the Node process (`WriteBlockEventFile`,
`NextDay`), which files events by its own clock while the server opens files by
`mdb->system_date`. A datakey is the date and the number of the line as the thread
counts it.

### ProcessManager

`process_info[p]` is the pid in a program's entry, `proc[q]` what process number `q` is:
free, a server on its way (`start`, `check`, `set`, `run`, `remove`, `exit`) or any other
program of the machine (`Foreign`). The manager's round reads an entry (`ReadEntry`), reads it
again for `getsid` (`CheckAlive`), clears it (`RemoveDead`) and starts the program in the
background (`RunProcess`), each a step, because starts, ends and InitMemory come between.
A server opens its port if it has one, tests its entry (`CheckEntry`), sets it
(`SetEntry`); at its end it clears whatever the entry holds (`RemoveProcess`). `lapse` holds
the programs whose entry was cleared by hand (`InitMemory process`) while in use, or was
taken by a second start between the test and the setting of the first.

The Node event process is not in the table: `ProcessCheckNode` decides from the age of
today's event file. The age test subtracts the wrong way round (`ProcessManager.c:162`), so
that it is never true of a file of the past (`NodeIsStale`).

## 3. Runs

| Run | Question | Result |
|---|---|---|
| `request` | types, user table, unique and sorted datakeys, dates, acknowledged is queued, counter never back | holds (959,200 states) |
| `request_key_reuse` | is a datakey unique, as `KASConn_interface.h:88` says? | no: a kill between append and record |
| `executor` | one worker per file, once and in order, nothing skipped, once per start, answers in order, refines `TransactLedger`, lines get handled | holds (47,060 states) |
| `executor_new_day` | does a new file get a worker (`ExecTransact.c:56`, `:80`)? | no: a known group's file of the next day is never read |
| `inquiry` | rings intact, nothing lost, group order, answers to the client | holds (3,146,195 states) |
| `inquiry_liveness` | is a queued request processed? | holds |
| `inquiry_overrun` | is the queue size kept (`InquiryCall.c:244`)? | no: `>` lets one request too many in |
| `inquiry_search` | does the search compare requests (`InquiryCall.c:206`)? | no: it reaches freed and NULL entries |
| `response` | types; do slots, threads and descriptors belong together, does the join return, do answers come in order and without a gap? | holds until a thread removes its own user (1,472,215 states) |
| `response_group` | does a service get lines of its account group only (`ResponseTransact.c:204`)? | no: a thread that removed its user reads on for the next one |
| `events` | types; do events come without a gap, do they arrive, is a hang-up served? | holds until a thread removes its own user (107,316 states) |
| `supervision` | types; one process per entry, only dead ones removed, what is gone comes back | holds (307,118 states) |

What the properties mean:

- `KeysUnique`, `FileKeysIncrease` hold across kills, restarts and changes of date
  except in the two windows `lapse` names. A service logs in again with the last datakey it
  got, so the order in a file is what delivery rests on.
  `KeyDateNeverAhead`: a line may be filed later than its datakey's day but not earlier;
  ResponseTransact opens files from the datakey's day on.
- `HandledOnceInOrder` holds unless a worker was killed between Node and the record.
  Nothing weaker does: in that window a transaction can be sent twice.
  `OncePerStart` bounds the repetition, `NothingSkipped` says that repetition is the only
  harm, `ImplementsLedger` says exactly how far a file falls back.
- `LinesGetHandled` names the two cases in which the lines of a file are left lying: the
  day ended before a worker existed, or the group was already in the table.
- `GroupInOrder` is why `AllocateThread` looks for the group at all: two requests
  of a group never run at the same time. It survives the unlocked search: an entry
  that is misread belongs to a request that is already answered.
- `AnswerToClient`: an answer reaches a stranger only after the asking client left and
  another took its slot. That can happen, because `SendResponse` looks the socket up when
  Node is done (`InquiryCall.c:467`). After a full ring was written it is not all that can happen,
  and the property says nothing of it: the worker has loaded `rcvbuf` (321), the main thread
  writes the new request's `user_offset` (253) into the same slot, and the worker answers the old
  request with it (327); or the worker resets `user_offset` (341) after the main thread wrote
  it, and the new request is answered to whoever is user 0.
- `SessionsExact`, `JoinReturns`, `AnswersInOrder`, `NothingPassedOver` and the properties of
  `events` hold as long as no session thread has removed its own user (`lapse = {}`).
  Behind that they are all false, and not by accident of the model: the join of the thread
  itself returns at once, its slot is cleared under it, and it goes on. What then happens
  depends on the order of the steps: the main thread may wait forever for a thread whose
  `thread_terminate` was cleared, a service may get lines twice, or get another
  group's (`response_group`). The condition is therefore the single cause, and the
  properties show that nothing else (hang-ups, stale events, slots and descriptors taken
  again, changes of date, threads that cannot be created) leads there.
- `EventsArrive` names the three ways in which a file is not read: it could not be opened, it
  was closed after an hour without a line, or its day had passed before the thread looked. A
  fourth is assumed away: that the directory can never be listed (`SendNodeEvent.c:261`). A
  round in which `opendir` fails lists nothing and is followed by another.
- `HangUpIsServed` is the liveness of the join: the main thread, which serves nobody while it
  joins, gets through.
- `RunningIsRegistered` is what the process table is for. ExecTransact opens no port, so a
  second one is only kept out by the entry. `OnlyDeadRemoved` is the same of every step
  that clears an entry, the manager's look-then-act among them.
- `ComesBack` says when a server that is gone does not come back: its number is used by
  somebody else (`getsid` only says that the number is used), there is none left, or the
  manager is down, which nobody restarts.
- `NodeComesBack` says the same of the Node process, and with `event_file.exists` that it is not
  restarted on a day that has events already: the effect of the swapped operands.

### Bounds and why they are enough

- `request`: two dates (every date comparison is between neighbours), two groups, two
  sockets and slots (first free slot, reuse), `KeyBase = 4` so that a day's counter is
  exhausted within two requests of a restart's key, `MaxLines = 2` lines in all (every
  property relates at most two lines).
- `executor`: two dates, one group, two lines, two starts, `THREAD_WAIT_COUNT = 1`. Order,
  repetition and skipping show with two lines; a third start repeats the second.
  `MaxStarts` also guards `Interrupt` and `Crash`, so that the last start
  lives on and liveness means something. Several groups are covered by the proofs, and
  a run with two groups and one line each was made while the model was written.
- `inquiry`: two threads, two slots, three requests: enough to fill a ring, overrun it,
  wrap around, and have a group's requests waiting behind a search in the other
  ring. `inquiry_liveness` has one slot, where the third request is refused.
- `response`: two days, two files (one per group and day), two lines in all, two slots, two
  sessions, descriptors 0 to 2: enough for a slot or a descriptor to be taken again
  while a thread still uses it, for events of a batch to be stale, for two callers of
  `RemoveUser`, and for a file that appears after the date changed. The two services differ in
  group and in datakey. `response_group` has both files on one day.
- `events`: three days (the clocks can be a day apart on either side of a change), three
  events, one session per start; sessions side by side are the subject of `response`.
- `supervision`: two servers, one with a port, two process numbers, one foreign process, two
  faults (kills, SIGTERMs, entries cleared by hand), one start script at a time. Two
  numbers make reuse immediate; a third start needs no third number because a start that
  finds the entry in use gives its own back. The theorems cover any number.

### Fairness

`executor`: `InitServer` (ProcessManager restarts what died), the main thread, and each
worker are weakly fair: they are threads of a scheduler that runs every thread. Arrivals,
dates, kills and signals are not fair. `events`: the server's threads; not the Node process, the
dates, hang-ups or kills. `supervision`: the manager's rounds, servers on their way in or
out, the start scripts, and time; a server that runs may run forever, the Node process
may never write, and the manager's own start is not fair. A thread's fairness in `events`
includes that `opendir` succeeds in the end. `inquiry_liveness`: the main thread inside
`AllocateThread` and each worker; a worker's fairness includes that Node ends, which no
code enforces (it is listed as a hazard). `request` states no liveness: a request
is served by the same thread that would have to starve it. `response` states none either,
because `events` states it of the same code.

## 4. Proofs

All constants are arbitrary within the ASSUMEs of the modules: any sets of dates and
groups, any number of lines, starts, users.

`RequestTransactProofs`
- `RequestTypeCorrect`: types.
- `RequestKeysUnique`, `RequestFileKeysIncrease`, `RequestKeyDates`,
  `RequestCounterNeverBack`. Uniqueness is not inductive: nothing in it says that
  the next number is new. `IInv` adds that the counter in memory is at least every
  datakey on disk (`MemoryCovers`), that the datakey file a restart would read is too,
  except between append and record (`DiskCovers`), that no file belongs to a
  day that has not come (`FutureIsEmpty`) and that no key does (`KeyDates`), which is what
  lets the counter restart at a new day.
- `RequestAnsweredIsQueued`: from `PendingIsQueued`, the same of the answer that is about to be
  sent, and the fact that lines stay where they are.
- `RequestUserTable`: table, slots and epoll set.

`ExecTransactProofs`
- `ExecTypeCorrect`, `ExecOneWorkerPerFile`: from `SInv`, which says that
  `thread_count` lags the table by at most the worker just created, that the group
  chosen by the scan is still unknown when its entry is made, and that the groups in the table
  differ. The table is only emptied by the end of the process.
- `ExecHandledOnceInOrder`, `ExecNothingSkipped`, `ExecAnswersInOrder`: from `LInv`, which ties
  each worker's `linenum` and `finish_line` to its line file (`WorkerInv`) and each
  file's history to its position (`FileInv`: lines up to the position are queued and
  handled; without a lapse, exactly those, in order; answers are below the position, or at
  it when the worker has answered). One lemma per kind of step; a worker's step is shown to
  touch its own file only, which needs `ExecOneWorkerPerFile`.
- `ExecOncePerStart`: from `Repetition`, by which a line that the running program has not come
  to yet (`NotYet`: it is before the worker of its file, or there is none) was handled less
  often than the program was started. It holds across kills, which the other invariant
  does not see through: a start allows each line once more, and a worker passes it once.
- `ExecImplementsLedger`: the refinement of `TransactLedger`. `Arrive` maps to `Queue`,
  `CallNode` and `RefuseLine` to `Handle`, the end of the process to `SetBack` of the
  files at work, everything else to a stutter.

`ProcessManagerProofs`
- `SupervisionTypeCorrect`: types, with two additions they rest on: the manager is at an entry
  of its list when it acts on one, and whatever registers or ends is a server.
- `SupervisionRunningIsRegistered`, `SupervisionOnlyDeadRemoved`. That a running server is
  registered is not inductive: the manager could be about to clear the entry.
  `ServingIsRegistered` extends it to processes on their way out, and
  `RemovedIsDead` says that between the manager's look at an entry and its clearing the
  entry stays in use, so that no start takes it, and nothing serves under it. The look
  establishes it because a number in use by no process is not that of a serving one.

`InquiryCallProofs`
- `InquiryTypeCorrect`: types, with `OwnerInv`, which holds even when a ring was overrun:
  what slots and workers hold is a request that was made, and a client that has not gone has the
  user slot it had when it asked (`ClientThere`).
- `InquiryRingIntact`, `InquiryNothingLost`, `InquiryGroupInOrder`: from `RingInv`, which holds
  until a full ring is written (`overrun`). `EntryInv` says what each entry between `read_ptr` and
  `write_ptr` is: live, but for the head, which is in the state that its worker is in
  (`EntryState`); entries are in the order of the requests (`EntryOrder`), no request
  is in two rings, every queued one is in one, and all of a group that the search can still read
  are in one ring (`GroupInOneRing`). That last part is what `GroupInOrder` rests on and is not
  kept by itself: `AllocateThread` looks at one entry at a time while workers clear others.
  `Searched` therefore says that the group of the new request is not in the part of the
  rings that was searched, and `PassedIsNull` that what lies before the ring's `read_ptr`
  by the time the search gets there is NULL and not written again. `Counted` says that there
  are not more entries than requests, and `NewEntry` that the slot being filled is no entry of
  its ring yet and what was written of it so far: the main thread's stores disturb nothing that
  a worker reads, and a worker's resets touch no entry but the head of its ring.
- `InquiryAnswerToClient`: from `AnswerInv` under the same condition: a worker that has loaded
  `user_offset` has that of the request in its hands (`WorkerOwner`). That rests on `RingInv`,
  because the slot must not change between the two loads, and on `ClientThere`.

`ResponseTransactProofs`
- `ResponseTypeCorrect`: types, together with `BaseInv` (whoever is in `RemoveUser` has a slot in
  hand, the table has room, a file that was selected for reading has a line), which holds
  whatever the threads do.
- `ResponseSessionsExact`, `ResponseJoinReturns`: from `TableInv`, which holds while no session
  thread has removed its own user. It ties the slots, the descriptors, the thread entries and the
  threads to each other in both directions and follows `RemoveUser` through its steps: the
  slot being removed has an open descriptor until `CloseUser` (`SlotConn`), a thread told
  to end is the one being joined (`EntryInUse`), which is of the slot being removed (`Waiting`);
  the events still in hand are of descriptors that were not given away (`Events`).
  Without `Events` the rest is not inductive: a stale event would remove somebody else's user.
- `ResponseAnswersInOrder`, `ResponseNothingPassedOver`: from `LinesInv`, which compares the lines
  received with the lines read (`ReceivedInOrder`, `ReceivedAll`, and `SentOfRead`: nothing beyond
  what was read). `WrittenInv` says the same of the lines written, for services that have hung up
  too; it is what the event server's theorem needs.

`SendNodeEventProofs`
- `EventTypeCorrect`, `EventGapless`: by way of the proofs of the response server, which are
  instantiated as the model is. Its assumptions about files, datakeys and logins are proved of
  `date * 100000000 + number` (`Assumed`; it needs that a file has fewer than 100000000 lines,
  `LineNumAssumption`), its steps are steps of the response server (`SameStep`), and the
  one that is not, `WriteBlockEventFile`, which may write a file of a day that the server has not
  come to, is covered by `AppendInv`: the response server's invariant is kept by a line at the
  end of any file.

Assumptions: the ASSUMEs of the modules, all of them about constants: dates and bounds are
natural numbers, there is a worker, a ring entry, a thread entry, datakeys of a file increase
(which the request server's theorems state of what it writes). No theorem assumes anything
about behaviours; the conditions `lapse = {}` and `~overrun` are part of the properties, and the runs
show what happens beyond them.

Only model-checked: all liveness (`LinesGetHandled`, `QueuedIsDone`, `EventsArrive`,
`HangUpIsServed`, `ComesBack`, `NodeComesBack`), which is out of the prover's reach, and the runs that
expect a violation. Every invariant of the passing runs, and every property of them that restricts
single steps, is a theorem.

## 5. Not modelled, and why

- Lines longer than a stdio buffer are written in pieces and can be read torn
  (`ExecTransact.c:142`); a line is visible as a whole here.
- `realloc` of a thread table under running threads (`ExecTransact.c:84`,
  `ResponseTransact.c:459`) is undefined behaviour with any outcome; the tables never move here.
- The readers poll growing files with `fgets` and never call `clearerr`. In a C library in
  which the end of a file is sticky (glibc from 2.28 on) nothing after the first end of file
  would be read; the models read on.
- The insides of the signal handlers: they join threads, take a mutex and free the tables from
  whatever statement they interrupt. The handler is the end of the process here
  (in ExecTransact with its joins).
- `RequestTransact` answers -1 as a success when the queue file cannot be opened
  (`RequestTransact.c:184`, against `KASConn_interface.h:88`); the model has the answer, and
  `AnsweredIsQueued` leaves it out. A worker may be created for a file that does not exist
  after a change of date (`ExecTransact.c:85`, `:129`); the model has it, it then ends.
- `response_user_count` is decremented twice when `RemoveUser` runs twice; it is only shown
  by the monitor. `service_name` is compared by prefix; no name is the beginning of another in
  the model, except the empty name of a cleared slot. `user_key` is compared the same way,
  unless the login says `*` (`ResponseTransact.c:207`): a second filter of the same form, which
  the model leaves out. No property depends on what the filter lets through.
- A directory of files that cannot be listed (`ResponseTransact.c:272`, `SendNodeEvent.c:261`):
  the round reads on from the files that are open. For the safety properties it is a round
  with nothing new; for `EventsArrive` see there.
- `epoll_ctl` failing (`add_epoll`): the main thread would never see the service hang up.
- Overlapping runs of `start_NodeAPI.sh`, and the Node process's subscription.
- A change of date in the ten seconds in which the manager has not yet noticed that today's
  event file is missing (`NewDate` waits for the round).
- InitMemory `all` and `conf` under running servers.
- An append to the old day's file after a change of date. RequestTransact makes one when the date
  changes between `RequestTransact.c:247`, which names the file, and 249. Both models
  (`AppendLine`, `Arrive`) append to the file of the date at that step. What is modelled is
  the worker that goes on reading the old day's file for `THREAD_WAIT_COUNT` polls, an hour with
  the real values, which an append under way when the date changes would have to outlast to be
  missed.
- A Node process that prints without end: the workers read its output in a loop without a bound
  (`ExecTransact.c:221`, `InquiryCall.c:374`). Liveness assumes that it ends.
- monitor and the sources of `scLIB` (not in the repository); Node, Klaytn and KAS are the
  nondeterministic outcome of one step.

## 6. Plan

1. Done: all servers and the manager; the theorems above.
2. `TransactPipeline`: RequestTransact, ExecTransact and ResponseTransact composed over the
   queue files: a datakey reaches Node at most once without a lapse, an acknowledged request is
   handled. The assumptions each module makes of its files (`LineAssumption`, `Arrive`)
   are the properties of the one before (`FileKeysIncrease`, `KeyDateNeverAhead`,
   `AnswersInOrder`), so that little can go wrong between them that is not in them.
3. Torn lines: one writer, one reader, pieces of lines.
4. Proofs: the composition of 2, from the theorems of its parts; that the datakeys in the
   shared files meet `LineAssumption` (`FileKeysIncrease` and `KeyDateNeverAhead` are proved of
   the request server, the executor copies them in the order of `AnswersInOrder`).
