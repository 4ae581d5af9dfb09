---------------------------- MODULE InquiryCall ----------------------------
(***************************************************************************)
(* The inquiry server, src/src/process/InquiryCall.c.  Its main thread     *)
(* accepts clients, reads their requests and puts each into the ring queue *)
(* of one of thread_count worker threads: the one that already has the     *)
(* request's account group, or else the one whose request at the head is   *)
(* oldest.  A worker lets a Node process answer the request at the head of *)
(* its ring, sends the answer and clears the slot.  No lock is taken: the  *)
(* main thread alone moves write_ptr, the worker alone read_ptr, and the   *)
(* search reads the slots a worker is clearing.  Once a full ring was      *)
(* written, the two also write one slot at a time: every load and store of *)
(* a slot's field is a step.                                               *)
(*                                                                         *)
(* A request is known by its number, which also stands for its rcvbuf; a   *)
(* connection by its descriptor, which no later connection has.  Requests  *)
(* that are answered with an error before they reach AllocateThread leave  *)
(* no trace and have no action of their own.                               *)
(***************************************************************************)
EXTENDS Integers, Sequences, FiniteSets

CONSTANTS
    thread_count,           \* worker threads, from the configuration file
    MAX_THREAD_QUE_SIZE,    \* slots of a ring
    MaxUsers,               \* MAX_INQUIRY_SERVER_USER
    Groups,                 \* account groups
    Fds,                    \* connections; 0 is none
    MaxRequests             \* bound: requests per start of the program

ASSUME ThreadAssumption == thread_count \in Nat \ {0}
ASSUME SizeAssumption == MAX_THREAD_QUE_SIZE \in Nat \ {0}
ASSUME UserAssumption == MaxUsers \in Nat \ {0} /\ 0 \notin Fds
ASSUME BoundAssumption == MaxRequests \in Nat

VARIABLES
    main,           \* where the main thread is
    at,             \* AllocateThread's i and j
    alloc_thnum,
    thread,         \* per worker: its ring q, read_ptr and write_ptr
    worker,         \* per worker: where it is and the request in its hands
    inquiry_user,   \* mdb->user.inquiry_user: the connection of each slot
    gone,           \* history: connections that were closed
    reqs,           \* history: the requests received, by number
    clock,          \* time() when it was last read
    overrun         \* history: a full ring was written

vars == <<main, at, alloc_thnum, thread, worker, inquiry_user, gone, reqs, clock, overrun>>

search == <<main, at, alloc_thnum>>

----------------------------------------------------------------------------
Threads == 0 .. thread_count - 1
Slots   == 0 .. MAX_THREAD_QUE_SIZE - 1
Users   == 0 .. MaxUsers - 1

\* rcvbuf is the number of a request or 0 for NULL; memory says whether the
\* buffer is allocated, freed, or freed and found overwritten.  A cleared slot's
\* user_offset is that of a user.
EmptySlot == [rcvbuf |-> 0, memory |-> "null", user_offset |-> 0, request_time |-> 0]

Idle == [pc |-> "idle", rcvbuf |-> 0, user_offset |-> 0]

\* The slot that entry j of thread i's ring is in
Index(j)   == j % MAX_THREAD_QUE_SIZE
Slot(i, j) == thread[i].q[Index(j)]
Front(i)   == Slot(i, thread[i].read_ptr)

\* InitThread: calloc
NewThreads == [i \in Threads |-> [q |-> [s \in Slots |-> EmptySlot],
                                  read_ptr |-> 0, write_ptr |-> 0]]

Init ==
    /\ main = "down"
    /\ at = <<0, 0>>
    /\ alloc_thnum = 0
    /\ thread = NewThreads
    /\ worker = [i \in Threads |-> Idle]
    /\ inquiry_user = [u \in Users |-> 0]
    /\ gone = {}
    /\ reqs = <<>>
    /\ clock = 1
    /\ overrun = FALSE

\* The process ends, by a signal or a fault.  All state is in it or is reset by
\* InitServer, so that the next start begins anew.
Stop ==
    /\ main # "down"
    /\ main' = "down"
    /\ at' = <<0, 0>>
    /\ alloc_thnum' = 0
    /\ thread' = NewThreads
    /\ worker' = [i \in Threads |-> Idle]
    /\ inquiry_user' = [u \in Users |-> 0]
    /\ gone' = {}
    /\ reqs' = <<>>
    /\ clock' = 1
    /\ overrun' = FALSE

InitServer ==
    /\ main = "down"
    /\ main' = "wait"
    /\ UNCHANGED <<at, alloc_thnum, thread, worker, inquiry_user, gone, reqs, clock, overrun>>

----------------------------------------------------------------------------
(* The main thread: connections *)

FreeUsers == {u \in Users : inquiry_user[u] = 0}

\* Mistake: the first slot is taken without a look at it.
FirstOffset == CHOOSE u \in Users : \A v \in Users : u <= v

NewOffset == CHOOSE u \in FreeUsers : \A v \in FreeUsers : u <= v

AcceptUser(c) ==
    /\ main = "wait"
    /\ c \notin gone /\ \A u \in Users : inquiry_user[u] # c
    /\ FreeUsers # {}
    /\ inquiry_user' = [inquiry_user EXCEPT ![NewOffset] = c]
    /\ UNCHANGED <<search, thread, worker, gone, reqs, clock, overrun>>

\* The client hung up, or the receiving of its request failed.
RemoveUser(u) ==
    /\ main = "wait"
    /\ inquiry_user[u] # 0
    /\ inquiry_user' = [inquiry_user EXCEPT ![u] = 0]
    /\ gone' = gone \cup {inquiry_user[u]}
    /\ UNCHANGED <<search, thread, worker, reqs, clock, overrun>>

----------------------------------------------------------------------------
(* The main thread: AllocateThread *)

Request == Len(reqs)

\* A call request of user u is read completely; the search begins.
ReceiveRequest(u, g) ==
    /\ main = "wait"
    /\ inquiry_user[u] # 0
    /\ Request < MaxRequests
    /\ reqs' = Append(reqs, [client |-> inquiry_user[u], user_offset |-> u,
                             account_group |-> g, state |-> "new", answered |-> 0])
    /\ main' = "search"
    /\ at' = <<0, thread[0].read_ptr>>
    /\ UNCHANGED <<alloc_thnum, thread, worker, inquiry_user, gone, clock, overrun>>

\* Mistake: the entry being processed is passed over.
MatchesWaiting(i, j) ==
    /\ j > thread[i].read_ptr
    /\ reqs[Slot(i, j).rcvbuf].account_group = reqs[Request].account_group

Matches(i, j) == reqs[Slot(i, j).rcvbuf].account_group = reqs[Request].account_group

Found(i)       == alloc_thnum' = i /\ main' = "enqueue" /\ UNCHANGED at
LookNext(i, j) == at' = <<i, j + 1>> /\ UNCHANGED <<main, alloc_thnum>>

\* One look at the ring: a request's group is compared.
Search ==
    LET i == at[1]
        j == at[2]
    IN  /\ main = "search"
        /\ j < thread[i].write_ptr
        /\ Slot(i, j).memory \in {"live", "freed"}
        /\ IF Matches(i, j) THEN Found(i) ELSE LookNext(i, j)
        /\ UNCHANGED <<thread, worker, inquiry_user, gone, reqs, clock, overrun>>

\* read_ptr was loaded when the ring's turn came, or the worker is just freeing
\* the entry: what is compared is freed memory, which malloc may have overwritten
\* with what is no account group,
SearchFreed ==
    LET i == at[1]
        j == at[2]
    IN  /\ main = "search"
        /\ j < thread[i].write_ptr
        /\ Slot(i, j).memory \in {"freed", "garbled"}
        /\ LookNext(i, j)
        /\ thread' = [thread EXCEPT ![i].q[Index(j)].memory = "garbled"]
        /\ UNCHANGED <<worker, inquiry_user, gone, reqs, clock, overrun>>

\* or returned to the system, or the pointer is NULL already: the process faults.
SearchFaults ==
    /\ main = "search"
    /\ at[2] < thread[at[1]].write_ptr
    /\ Slot(at[1], at[2]).memory # "live"
    /\ Stop

\* The ring of thread i is done; behind the last one the search found nothing.
NextRing ==
    LET i == at[1]
    IN  /\ main = "search"
        /\ at[2] >= thread[i].write_ptr
        /\ IF i + 1 \in Threads
           THEN at' = <<i + 1, thread[i + 1].read_ptr>> /\ UNCHANGED <<main, alloc_thnum>>
           ELSE at' = <<1, 0>> /\ alloc_thnum' = 0 /\ main' = "pick"
        /\ UNCHANGED <<thread, worker, inquiry_user, gone, reqs, clock, overrun>>

\* Nobody has the group: the head with the smallest request_time, which is 0
\* where the worker has nothing to do.
Pick ==
    LET i == at[1]
    IN  /\ main = "pick"
        /\ IF i \in Threads
           THEN /\ alloc_thnum' = IF Front(i).request_time < Front(alloc_thnum).request_time
                                  THEN i ELSE alloc_thnum
                /\ at' = <<i + 1, 0>>
                /\ UNCHANGED main
           ELSE main' = "enqueue" /\ UNCHANGED <<at, alloc_thnum>>
        /\ UNCHANGED <<thread, worker, inquiry_user, gone, reqs, clock, overrun>>

Entries(i) == thread[i].write_ptr - thread[i].read_ptr

\* The thread's queue is over its size: the client is told "system error".
Refuse ==
    /\ main = "enqueue"
    /\ Entries(alloc_thnum) > MAX_THREAD_QUE_SIZE
    /\ reqs' = [reqs EXCEPT ![Request].state = "refused"]
    /\ main' = "wait"
    /\ UNCHANGED <<at, alloc_thnum, thread, worker, inquiry_user, gone, clock, overrun>>

\* Mistake: the slot is found from the number of entries.
SlotFromEntries(i) == Index(Entries(i))

NewSlot(i) == Index(thread[i].write_ptr)

\* The slot is written field by field; the worker looks at it when write_ptr has
\* moved, unless the ring was full: then it is the slot at its head.
WriteUserOffset ==
    LET i == alloc_thnum
    IN  /\ main = "enqueue"
        /\ Entries(i) <= MAX_THREAD_QUE_SIZE
        /\ thread' = [thread EXCEPT ![i].q[NewSlot(i)].user_offset = reqs[Request].user_offset]
        /\ overrun' = (overrun \/ Entries(i) = MAX_THREAD_QUE_SIZE)
        /\ main' = "rcvbuf"
        /\ UNCHANGED <<at, alloc_thnum, worker, inquiry_user, gone, reqs, clock>>

WriteRcvbuf ==
    LET i == alloc_thnum
    IN  /\ main = "rcvbuf"
        /\ thread' = [thread EXCEPT ![i].q[NewSlot(i)] =
                         [@ EXCEPT !.rcvbuf = Request, !.memory = "live"]]
        /\ main' = "time"
        /\ UNCHANGED <<at, alloc_thnum, worker, inquiry_user, gone, reqs, clock, overrun>>

WriteTime ==
    LET i == alloc_thnum
    IN  /\ main = "time"
        /\ clock' \in {clock, clock + 1}     \* in the same second, or later
        /\ thread' = [thread EXCEPT ![i].q[NewSlot(i)].request_time = clock']
        /\ main' = "publish"
        /\ UNCHANGED <<at, alloc_thnum, worker, inquiry_user, gone, reqs, overrun>>

\* write_ptr++
Publish ==
    /\ main = "publish"
    /\ thread' = [thread EXCEPT ![alloc_thnum].write_ptr = @ + 1]
    /\ reqs' = [reqs EXCEPT ![Request].state = "queued"]
    /\ main' = "wait"
    /\ UNCHANGED <<at, alloc_thnum, worker, inquiry_user, gone, clock, overrun>>

Enqueue == WriteUserOffset \/ WriteRcvbuf \/ WriteTime \/ Publish

----------------------------------------------------------------------------
(* A worker: InquiryCall *)

\* Mistake: the last entry is never seen.
BusyBeyond(i) == thread[i].read_ptr + 1 < thread[i].write_ptr

Busy(i) == thread[i].read_ptr < thread[i].write_ptr

\* qdata and reqHeader are set.  A NULL reqHeader (after an overrun) faults.
Take(i) ==
    /\ worker[i].pc = "idle"
    /\ Busy(i)
    /\ Front(i).rcvbuf # 0
    /\ worker' = [worker EXCEPT ![i].pc = "dispatch", ![i].rcvbuf = Front(i).rcvbuf]
    /\ UNCHANGED <<search, thread, inquiry_user, gone, reqs, clock, overrun>>

TakeFaults(i) ==
    /\ worker[i].pc = "idle"
    /\ Busy(i)
    /\ Front(i).rcvbuf = 0
    /\ Stop

\* By account_type a call or an error message, with the slot's user_offset.  (The
\* body for Node is read again too: after an overrun it may be another request's.)
Dispatch(i) ==
    /\ worker[i].pc = "dispatch"
    /\ worker' = [worker EXCEPT ![i].pc = "call", ![i].user_offset = Front(i).user_offset]
    /\ UNCHANGED <<search, thread, inquiry_user, gone, reqs, clock, overrun>>

\* Mistake: the number of the slot is taken for the connection in it.
SlotAsReader(i) == worker[i].user_offset

\* The connection that has the user's slot when Node is done
Reader(i) == inquiry_user[worker[i].user_offset]

\* Node ran, or could not, or printed nothing; the answer is sent to whoever
\* has the slot now, and may not get through.
Answer(i) ==
    /\ worker[i].pc = "call"
    /\ \E c \in {0, Reader(i)} :
          reqs' = [reqs EXCEPT ![worker[i].rcvbuf].state = "done",
                               ![worker[i].rcvbuf].answered = c]
    /\ worker' = [worker EXCEPT ![i].pc = "free"]
    /\ UNCHANGED <<search, thread, inquiry_user, gone, clock, overrun>>

\* free(qdata->rcvbuf)
Free(i) ==
    /\ worker[i].pc = "free"
    /\ thread' = [thread EXCEPT ![i].q[Index(thread[i].read_ptr)].memory = "freed"]
    /\ worker' = [worker EXCEPT ![i].pc = "clear"]
    /\ UNCHANGED <<search, inquiry_user, gone, reqs, clock, overrun>>

\* Mistake: it is the next slot that is cleared.
ClearRcvbufBehind(i) ==
    /\ worker[i].pc = "clear"
    /\ thread' = [thread EXCEPT ![i].q[Index(thread[i].read_ptr + 1)] =
                     [@ EXCEPT !.rcvbuf = 0, !.memory = "null"]]
    /\ worker' = [worker EXCEPT ![i].pc = "offset"]
    /\ UNCHANGED <<search, inquiry_user, gone, reqs, clock, overrun>>

\* rcvbuf, user_offset and request_time are reset, one after the other.
ClearRcvbuf(i) ==
    /\ worker[i].pc = "clear"
    /\ thread' = [thread EXCEPT ![i].q[Index(thread[i].read_ptr)] =
                     [@ EXCEPT !.rcvbuf = 0, !.memory = "null"]]
    /\ worker' = [worker EXCEPT ![i].pc = "offset"]
    /\ UNCHANGED <<search, inquiry_user, gone, reqs, clock, overrun>>

ClearOffset(i) ==
    /\ worker[i].pc = "offset"
    /\ thread' = [thread EXCEPT ![i].q[Index(thread[i].read_ptr)].user_offset = 0]
    /\ worker' = [worker EXCEPT ![i].pc = "time"]
    /\ UNCHANGED <<search, inquiry_user, gone, reqs, clock, overrun>>

ClearTime(i) ==
    /\ worker[i].pc = "time"
    /\ thread' = [thread EXCEPT ![i].q[Index(thread[i].read_ptr)].request_time = 0]
    /\ worker' = [worker EXCEPT ![i].pc = "advance"]
    /\ UNCHANGED <<search, inquiry_user, gone, reqs, clock, overrun>>

Clear(i) == ClearRcvbuf(i) \/ ClearOffset(i) \/ ClearTime(i)

\* read_ptr++
Advance(i) ==
    /\ worker[i].pc = "advance"
    /\ thread' = [thread EXCEPT ![i].read_ptr = @ + 1]
    /\ worker' = [worker EXCEPT ![i] = Idle]
    /\ UNCHANGED <<search, inquiry_user, gone, reqs, clock, overrun>>

Worker(i) ==
    Take(i) \/ TakeFaults(i) \/ Dispatch(i) \/ Answer(i) \/ Free(i) \/ Clear(i) \/ Advance(i)

----------------------------------------------------------------------------
AllocateThread == Search \/ SearchFreed \/ SearchFaults \/ NextRing \/ Pick \/ Refuse \/ Enqueue

Next ==
    \/ InitServer
    \/ Stop
    \/ \E c \in Fds : AcceptUser(c)
    \/ \E u \in Users : RemoveUser(u)
    \/ \E u \in Users, g \in Groups : ReceiveRequest(u, g)
    \/ AllocateThread
    \/ \E i \in Threads : Worker(i)

Spec == Init /\ [][Next]_vars

\* All threads keep running, and Node answers or gives up.
Fairness == WF_vars(AllocateThread) /\ \A i \in Threads : WF_vars(Worker(i))

FairSpec == Spec /\ Fairness
----------------------------------------------------------------------------
(* What the inquiry server promises *)

SlotType == [rcvbuf : Nat, memory : {"null", "live", "freed", "garbled"},
             user_offset : Users, request_time : Nat]
WorkerPcs == {"idle", "dispatch", "call", "free", "clear", "offset", "time", "advance"}
RequestStates == {"new", "queued", "refused", "done"}

TypeOK ==
    /\ main \in {"down", "wait", "search", "pick", "enqueue", "rcvbuf", "time", "publish"}
    /\ at \in Nat \X Nat
    /\ alloc_thnum \in Threads
    /\ thread \in [Threads -> [q : [Slots -> SlotType], read_ptr : Nat, write_ptr : Nat]]
    /\ worker \in [Threads -> [pc : WorkerPcs, rcvbuf : Nat, user_offset : Users]]
    /\ inquiry_user \in [Users -> {0} \cup Fds]
    /\ gone \subseteq Fds
    /\ reqs \in Seq([client : Fds, user_offset : Users, account_group : Groups,
                     state : RequestStates, answered : {0} \cup Fds])
    /\ clock \in Nat
    /\ overrun \in BOOLEAN

Queued == {r \in DOMAIN reqs : reqs[r].state = "queued"}

\* The entries of thread i's ring
Ring(i) == thread[i].read_ptr .. thread[i].write_ptr - 1

\* A worker between the free of its request and read_ptr++
Clearing == {"clear", "offset", "time", "advance"}

\* Unless a full ring was written, every entry holds a request that is still
\* allocated, but for the one the worker is just clearing: a worker never runs
\* into the NULL that its predecessor's request left.
RingIntact ==
    overrun \/ \A i \in Threads :
        /\ Entries(i) \in 0 .. MAX_THREAD_QUE_SIZE
        /\ \A j \in Ring(i) :
              \/ Slot(i, j).memory = "live"
              \/ j = thread[i].read_ptr /\ worker[i].pc \in Clearing

\* Unless a full ring was written, a queued request is in one entry of one ring.
NothingLost ==
    overrun \/ \A r \in Queued :
        Cardinality({e \in Threads \X (0 .. MaxRequests) :
                        e[2] \in Ring(e[1]) /\ Slot(e[1], e[2]).rcvbuf = r}) = 1

\* Requests of an account group are processed in the order they came in, and
\* never two at a time, although the search for the group's thread reads rings
\* that the workers are changing.
GroupInOrder ==
    overrun \/ \A i \in Threads : worker[i].pc \in {"dispatch", "call"} =>
        \A r \in Queued :
            reqs[r].account_group = reqs[worker[i].rcvbuf].account_group
                => r >= worker[i].rcvbuf

\* Unless a full ring was written, an answer reaches another client only if the
\* one that asked is gone.  (After an overrun the worker may take the user_offset
\* of the request that was written over the one it answers, and its reset of the
\* slot may send the new request's answer to user 0.)
AnswerToClient ==
    overrun \/ \A r \in DOMAIN reqs :
        reqs[r].answered \in {0, reqs[r].client} \/ reqs[r].client \in gone

\* A queued request is processed, unless the program ends or a full ring was
\* written.
QueuedIsDone ==
    \A r \in 1 .. MaxRequests :
        (main # "down" /\ r \in Queued) ~> (main = "down" \/ overrun \/ r \notin Queued)

----------------------------------------------------------------------------
(* What the source says of itself and does not keep *)

\* AllocateThread "checks that the size of the queue is not exceeded".
QueueFits == \A i \in Threads : Entries(i) <= MAX_THREAD_QUE_SIZE

\* AllocateThread "first checks whether the thread already has the account group
\* in process": what it compares is a request.
SearchReadsRequest ==
    main = "search" /\ at[2] < thread[at[1]].write_ptr => Slot(at[1], at[2]).memory = "live"
=============================================================================
