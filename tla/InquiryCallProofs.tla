------------------------- MODULE InquiryCallProofs -------------------------
(***************************************************************************)
(* Proofs about InquiryCall, for every number of worker threads, every     *)
(* size of their rings, every set of clients and account groups and any    *)
(* number of requests.                                                     *)
(***************************************************************************)
EXTENDS InquiryCall, NaturalLemmas

\* The main thread is in AllocateThread, and the last request is in its hands;
Allocating == main \in {"search", "pick", "enqueue", "rcvbuf", "time", "publish"}

\* it has chosen the thread.
Chosen == main \in {"enqueue", "rcvbuf", "time", "publish"}

Control ==
    /\ Allocating => Request > 0
    /\ main = "search" => at[1] \in Threads
    /\ Len(reqs) <= MaxRequests

\* What a slot and a worker hold is a request.
SlotKnown ==
    \A i \in Threads, s \in Slots :
        thread[i].q[s].rcvbuf # 0 => thread[i].q[s].rcvbuf \in DOMAIN reqs

WorkerKnown ==
    \A i \in Threads : worker[i].pc # "idle" => worker[i].rcvbuf \in DOMAIN reqs

\* A client that has not gone has the slot it had when it asked.
ClientThere ==
    \A r \in DOMAIN reqs :
        reqs[r].client = inquiry_user[reqs[r].user_offset] \/ reqs[r].client \in gone

OwnerInv == Control /\ SlotKnown /\ WorkerKnown /\ ClientThere

----------------------------------------------------------------------------
(* The rings, as long as no full one was written *)

SizeKept == \A i \in Threads : Entries(i) \in 0 .. MAX_THREAD_QUE_SIZE

\* A worker that has reset rcvbuf
Cleared == {"offset", "time", "advance"}

\* The request in a worker's hands is the one at the head of its ring, and the
\* user_offset that it took is that request's.
WorkerAtFront ==
    \A i \in Threads : worker[i].pc # "idle" =>
        Busy(i) /\ (worker[i].pc \notin Cleared => Front(i).rcvbuf = worker[i].rcvbuf)

WorkerOwner ==
    \A i \in Threads : worker[i].pc = "call" =>
        worker[i].user_offset = reqs[worker[i].rcvbuf].user_offset

\* Where the worker is with entry j of its ring
Stage(i, j) == IF j = thread[i].read_ptr THEN worker[i].pc ELSE "idle"

\* What becomes of an entry on its way
EntryOK(i, j) ==
    /\ Stage(i, j) \in {"idle", "dispatch", "call", "free"} => Slot(i, j).memory = "live"
    /\ Stage(i, j) = "clear" => Slot(i, j).memory \in {"freed", "garbled"}
    /\ Stage(i, j) \in Cleared => Slot(i, j).memory = "null" /\ Slot(i, j).rcvbuf = 0
    /\ Stage(i, j) \notin Cleared =>
          /\ Slot(i, j).rcvbuf \in DOMAIN reqs
          /\ Slot(i, j).user_offset = reqs[Slot(i, j).rcvbuf].user_offset
          /\ reqs[Slot(i, j).rcvbuf].state =
                IF Stage(i, j) \in {"idle", "dispatch", "call"} THEN "queued" ELSE "done"

EntryState == \A i \in Threads : \A j \in Ring(i) : EntryOK(i, j)

\* A ring holds its requests in the order they came in,
EntryOrder ==
    \A i \in Threads : \A j, k \in Ring(i) :
        j < k => Slot(i, j).rcvbuf < Slot(i, k).rcvbuf

\* no request is in two rings, and every queued one is in one.
OneEntry ==
    \A i, k \in Threads : \A j \in Ring(i), l \in Ring(k) :
        Slot(i, j).rcvbuf = Slot(k, l).rcvbuf /\ Slot(i, j).rcvbuf # 0 => i = k

QueuedInRing ==
    \A r \in Queued : \E i \in Threads : \E j \in Ring(i) : Slot(i, j).rcvbuf = r

\* An entry whose account group the search can still read
Readable(i, j) == Slot(i, j).memory \in {"live", "freed"}
Group(i, j)    == reqs[Slot(i, j).rcvbuf].account_group

\* All entries of an account group that the search could find are in one ring.
GroupInOneRing ==
    \A i, k \in Threads : \A j \in Ring(i), l \in Ring(k) :
        Readable(i, j) /\ Readable(k, l) /\ Group(i, j) = Group(k, l) => i = k

\* The new request's group is not in the part of the rings that was searched;
\* when a thread is chosen it is in that thread's ring at most.
Searched ==
    \A i \in Threads : \A j \in Ring(i) :
        Readable(i, j) /\ Allocating /\ Group(i, j) = reqs[Request].account_group =>
            /\ main = "search" => i > at[1] \/ (i = at[1] /\ j >= at[2])
            /\ main # "pick"
            /\ Chosen => i = alloc_thnum

\* What the search has before it of entries that were done meanwhile is cleared,
\* and is not yet written again.
PassedIsNull ==
    main = "search" =>
        /\ thread[at[1]].write_ptr - at[2] <= MAX_THREAD_QUE_SIZE
        /\ \A j \in at[2] .. thread[at[1]].read_ptr - 1 : Slot(at[1], j).memory = "null"

\* There are not more entries than requests.
Counted ==
    \A i \in Threads :
        thread[i].write_ptr <= Len(reqs) /\ (Allocating => thread[i].write_ptr < Len(reqs))

\* The slot behind the chosen ring is free for the new request, and holds what was
\* written of it.
NewState == Allocating => reqs[Request].state = "new"

NewSlotFree ==
    main \in {"rcvbuf", "time", "publish"} => Entries(alloc_thnum) < MAX_THREAD_QUE_SIZE

NewSlotWritten ==
    LET e == Slot(alloc_thnum, thread[alloc_thnum].write_ptr)
    IN  /\ main \in {"rcvbuf", "time", "publish"} => e.user_offset = reqs[Request].user_offset
        /\ main \in {"time", "publish"} => e.memory = "live" /\ e.rcvbuf = Request

NewEntry == NewState /\ NewSlotFree /\ NewSlotWritten

EntryInv ==
    /\ SizeKept /\ WorkerAtFront /\ EntryState /\ EntryOrder /\ OneEntry /\ QueuedInRing
    /\ GroupInOneRing

RingInv == EntryInv /\ Searched /\ PassedIsNull /\ Counted /\ NewEntry

AnswerInv == WorkerOwner /\ AnswerToClient

IInv == TypeOK /\ OwnerInv /\ (overrun \/ (RingInv /\ AnswerInv))
----------------------------------------------------------------------------
(* Types *)

ThreadRec == [q : [Slots -> SlotType], read_ptr : Nat, write_ptr : Nat]
WorkerRec == [pc : WorkerPcs, rcvbuf : Nat, user_offset : Users]
ReqRec    == [client : Fds, user_offset : Users, account_group : Groups,
              state : RequestStates, answered : {0} \cup Fds]

LEMMA ConstantFacts ==
    /\ thread_count \in Nat /\ thread_count > 0 /\ 0 \in Threads /\ Threads \subseteq Nat
    /\ MAX_THREAD_QUE_SIZE \in Nat \ {0}
    /\ 0 \notin Fds /\ 0 \in Users /\ Users \subseteq Nat /\ MaxRequests \in Nat
BY ThreadAssumption, SizeAssumption, UserAssumption, BoundAssumption DEF Threads, Users

\* An index of a ring is one of its slots.
LEMMA IndexIsSlot == \A j \in Nat : Index(j) \in Slots
BY ConstantFacts, DivisionFacts DEF Index, Slots

\* The parts of the type invariant, with their record sets kept closed
LEMMA TypeParts ==
    TypeOK <=>
        /\ main \in {"down", "wait", "search", "pick", "enqueue", "rcvbuf", "time", "publish"}
        /\ at \in Nat \X Nat
        /\ alloc_thnum \in Threads
        /\ thread \in [Threads -> ThreadRec]
        /\ worker \in [Threads -> WorkerRec]
        /\ inquiry_user \in [Users -> {0} \cup Fds]
        /\ gone \subseteq Fds
        /\ reqs \in Seq(ReqRec)
        /\ clock \in Nat
        /\ overrun \in BOOLEAN
BY DEF TypeOK, ThreadRec, WorkerRec, ReqRec

LEMMA TypePartsNext ==
    TypeOK' <=>
        /\ main' \in {"down", "wait", "search", "pick", "enqueue", "rcvbuf", "time", "publish"}
        /\ at' \in Nat \X Nat
        /\ alloc_thnum' \in Threads
        /\ thread' \in [Threads -> ThreadRec]
        /\ worker' \in [Threads -> WorkerRec]
        /\ inquiry_user' \in [Users -> {0} \cup Fds]
        /\ gone' \subseteq Fds
        /\ reqs' \in Seq(ReqRec)
        /\ clock' \in Nat
        /\ overrun' \in BOOLEAN
BY DEF TypeOK, ThreadRec, WorkerRec, ReqRec

LEMMA EmptySlotType == EmptySlot \in SlotType /\ EmptySlot.memory = "null" /\ EmptySlot.rcvbuf = 0
BY ConstantFacts DEF EmptySlot, SlotType

LEMMA SlotFacts ==
    ASSUME thread \in [Threads -> ThreadRec], NEW i \in Threads, NEW s \in Slots
    PROVE  /\ thread[i] \in ThreadRec /\ thread[i].q \in [Slots -> SlotType]
           /\ thread[i].q[s] \in SlotType
           /\ thread[i].read_ptr \in Nat /\ thread[i].write_ptr \in Nat
BY DEF ThreadRec

LEMMA SlotTypeFacts ==
    ASSUME NEW e \in SlotType
    PROVE  /\ e.rcvbuf \in Nat /\ e.user_offset \in Users /\ e.request_time \in Nat
           /\ e.memory \in {"null", "live", "freed", "garbled"}
BY DEF SlotType

\* One slot of one ring is written.
Written(i, s, v) == [thread EXCEPT ![i].q[s] = v]

LEMMA SetSlot ==
    ASSUME thread \in [Threads -> ThreadRec], NEW i \in Threads, NEW s \in Slots, NEW v \in SlotType,
           thread' = Written(i, s, v)
    PROVE  /\ thread' \in [Threads -> ThreadRec]
           /\ \A k \in Threads :
                 /\ thread'[k].read_ptr = thread[k].read_ptr
                 /\ thread'[k].write_ptr = thread[k].write_ptr
                 /\ \A t \in Slots : thread'[k].q[t] = IF k = i /\ t = s THEN v ELSE thread[k].q[t]
<1> DEFINE q == [thread[i].q EXCEPT ![s] = v]
           r == [thread[i] EXCEPT !.q = q]
<1>1. q \in [Slots -> SlotType] /\ \A t \in Slots : q[t] = IF t = s THEN v ELSE thread[i].q[t]
  BY SlotFacts
<1>2. r = [thread[i] EXCEPT !.q[s] = v]
  OBVIOUS
<1>3. thread' = [thread EXCEPT ![i] = r]
  BY <1>2 DEF Written
<1> HIDE DEF q
<1>4. r \in ThreadRec /\ r.q = q /\ r.read_ptr = thread[i].read_ptr /\ r.write_ptr = thread[i].write_ptr
  BY <1>1, SlotFacts DEF ThreadRec
<1> HIDE DEF r
<1>5. thread' \in [Threads -> ThreadRec] /\ thread'[i] = r /\ \A k \in Threads \ {i} : thread'[k] = thread[k]
  BY <1>3, <1>4
<1> QED
  BY <1>1, <1>4, <1>5

\* One field of a slot changes.
LEMMA SetMemory ==
    ASSUME thread \in [Threads -> ThreadRec], NEW i \in Threads, NEW s \in Slots,
           NEW m \in {"freed", "garbled"},
           thread' = [thread EXCEPT ![i].q[s].memory = m]
    PROVE  LET v == [thread[i].q[s] EXCEPT !.memory = m]
           IN  /\ v \in SlotType /\ v.memory = m
               /\ v.rcvbuf = thread[i].q[s].rcvbuf /\ v.user_offset = thread[i].q[s].user_offset
               /\ thread' = Written(i, s, v)
<1>1. thread[i].q[s] \in SlotType
  BY SlotFacts
<1> DEFINE v == [thread[i].q[s] EXCEPT !.memory = m]
<1>3. /\ v \in SlotType /\ v.memory = m
      /\ v.rcvbuf = thread[i].q[s].rcvbuf /\ v.user_offset = thread[i].q[s].user_offset
  BY <1>1 DEF SlotType
<1>4. thread' = Written(i, s, v)
  BY DEF Written
<1> QED
  BY <1>3, <1>4

LEMMA SetOffset ==
    ASSUME thread \in [Threads -> ThreadRec], NEW i \in Threads, NEW s \in Slots, NEW u \in Users,
           thread' = [thread EXCEPT ![i].q[s].user_offset = u]
    PROVE  \E v \in SlotType :
              /\ v.user_offset = u
              /\ v.rcvbuf = thread[i].q[s].rcvbuf /\ v.memory = thread[i].q[s].memory
              /\ thread' = Written(i, s, v)
<1>1. thread[i].q[s] \in SlotType
  BY SlotFacts
<1> DEFINE v == [thread[i].q[s] EXCEPT !.user_offset = u]
<1>3. /\ v \in SlotType /\ v.user_offset = u
      /\ v.rcvbuf = thread[i].q[s].rcvbuf /\ v.memory = thread[i].q[s].memory
  BY <1>1 DEF SlotType
<1>4. thread' = Written(i, s, v)
  BY DEF Written
<1> HIDE DEF v
<1> QED
  BY <1>3, <1>4

LEMMA SetTime ==
    ASSUME thread \in [Threads -> ThreadRec], NEW i \in Threads, NEW s \in Slots, NEW t \in Nat,
           thread' = [thread EXCEPT ![i].q[s].request_time = t]
    PROVE  \E v \in SlotType :
              /\ v.user_offset = thread[i].q[s].user_offset
              /\ v.rcvbuf = thread[i].q[s].rcvbuf /\ v.memory = thread[i].q[s].memory
              /\ thread' = Written(i, s, v)
<1>1. thread[i].q[s] \in SlotType
  BY SlotFacts
<1> DEFINE v == [thread[i].q[s] EXCEPT !.request_time = t]
<1>3. /\ v \in SlotType /\ v.user_offset = thread[i].q[s].user_offset
      /\ v.rcvbuf = thread[i].q[s].rcvbuf /\ v.memory = thread[i].q[s].memory
  BY <1>1 DEF SlotType
<1>4. thread' = Written(i, s, v)
  BY DEF Written
<1> HIDE DEF v
<1> QED
  BY <1>3, <1>4

\* write_ptr is advanced.
LEMMA PublishFacts ==
    ASSUME thread \in [Threads -> ThreadRec], NEW i \in Threads,
           thread' = [thread EXCEPT ![i].write_ptr = @ + 1]
    PROVE  /\ thread' \in [Threads -> ThreadRec]
           /\ \A k \in Threads :
                 /\ thread'[k].read_ptr = thread[k].read_ptr
                 /\ thread'[k].write_ptr = thread[k].write_ptr + (IF k = i THEN 1 ELSE 0)
                 /\ thread'[k].q = thread[k].q
<1> DEFINE r == [thread[i] EXCEPT !.write_ptr = thread[i].write_ptr + 1]
<1>1. thread' = [thread EXCEPT ![i] = r]
  OBVIOUS
<1>2. /\ r \in ThreadRec /\ r.q = thread[i].q
      /\ r.write_ptr = thread[i].write_ptr + 1 /\ r.read_ptr = thread[i].read_ptr
  BY DEF ThreadRec
<1> HIDE DEF r
<1>3. /\ thread' \in [Threads -> ThreadRec]
      /\ thread'[i] = r /\ \A k \in Threads \ {i} : thread'[k] = thread[k]
  BY <1>1, <1>2
<1>4. \A k \in Threads : thread[k].write_ptr \in Nat
  BY DEF ThreadRec
<1> QED
  BY <1>2, <1>3, <1>4

LEMMA AdvanceFacts ==
    ASSUME thread \in [Threads -> ThreadRec], NEW i \in Threads,
           thread' = [thread EXCEPT ![i].read_ptr = @ + 1]
    PROVE  /\ thread' \in [Threads -> ThreadRec]
           /\ \A k \in Threads :
                 /\ thread'[k].read_ptr = thread[k].read_ptr + (IF k = i THEN 1 ELSE 0)
                 /\ thread'[k].write_ptr = thread[k].write_ptr
                 /\ thread'[k].q = thread[k].q
<1> DEFINE r == [thread[i] EXCEPT !.read_ptr = thread[i].read_ptr + 1]
<1>1. thread' = [thread EXCEPT ![i] = r]
  OBVIOUS
<1>2. /\ r \in ThreadRec /\ r.q = thread[i].q
      /\ r.read_ptr = thread[i].read_ptr + 1 /\ r.write_ptr = thread[i].write_ptr
  BY DEF ThreadRec
<1> HIDE DEF r
<1>3. /\ thread' \in [Threads -> ThreadRec]
      /\ thread'[i] = r /\ \A k \in Threads \ {i} : thread'[k] = thread[k]
  BY <1>1, <1>2
<1>4. \A k \in Threads : thread[k].read_ptr \in Nat
  BY DEF ThreadRec
<1> QED
  BY <1>2, <1>3, <1>4

\* A worker goes on to another place.
LEMMA MoveWorker ==
    ASSUME worker \in [Threads -> WorkerRec], NEW i \in Threads,
           NEW p \in WorkerPcs,
           worker' = [worker EXCEPT ![i].pc = p]
    PROVE  /\ worker' \in [Threads -> WorkerRec]
           /\ worker'[i].pc = p /\ worker'[i].rcvbuf = worker[i].rcvbuf
           /\ worker'[i].user_offset = worker[i].user_offset
           /\ \A k \in Threads \ {i} : worker'[k] = worker[k]
<1> DEFINE r == [worker[i] EXCEPT !.pc = p]
<1>1. worker' = [worker EXCEPT ![i] = r]
  OBVIOUS
<1>2. r \in WorkerRec /\ r.pc = p /\ r.rcvbuf = worker[i].rcvbuf /\ r.user_offset = worker[i].user_offset
  BY DEF WorkerRec
<1> HIDE DEF r
<1> QED
  BY <1>1, <1>2

\* The state of a request changes.
LEMMA SetState ==
    ASSUME reqs \in Seq(ReqRec), NEW n \in DOMAIN reqs, NEW st \in RequestStates,
           reqs' = [reqs EXCEPT ![n].state = st]
    PROVE  /\ reqs' \in Seq(ReqRec) /\ Len(reqs') = Len(reqs) /\ DOMAIN reqs' = DOMAIN reqs
           /\ \A r \in DOMAIN reqs :
                 /\ reqs'[r].client = reqs[r].client
                 /\ reqs'[r].user_offset = reqs[r].user_offset
                 /\ reqs'[r].account_group = reqs[r].account_group
                 /\ reqs'[r].state = IF r = n THEN st ELSE reqs[r].state
                 /\ reqs'[r].answered = reqs[r].answered
<1> DEFINE v == [reqs[n] EXCEPT !.state = st]
<1>0. reqs[n] \in ReqRec
  OBVIOUS
<1>1. reqs' = [reqs EXCEPT ![n] = v]
  OBVIOUS
<1>2. /\ v \in ReqRec /\ v.client = reqs[n].client /\ v.user_offset = reqs[n].user_offset
      /\ v.account_group = reqs[n].account_group /\ v.state = st /\ v.answered = reqs[n].answered
  BY <1>0 DEF ReqRec
<1> HIDE DEF v
<1>3. /\ reqs' \in Seq(ReqRec) /\ Len(reqs') = Len(reqs) /\ DOMAIN reqs' = DOMAIN reqs
      /\ reqs'[n] = v /\ \A r \in DOMAIN reqs \ {n} : reqs'[r] = reqs[r]
  BY <1>1, <1>2
<1> QED
  BY <1>2, <1>3

\* A request is answered.
LEMMA SetAnswer ==
    ASSUME reqs \in Seq(ReqRec), NEW n \in DOMAIN reqs, NEW c \in {0} \cup Fds,
           reqs' = [reqs EXCEPT ![n].state = "done", ![n].answered = c]
    PROVE  /\ reqs' \in Seq(ReqRec) /\ Len(reqs') = Len(reqs) /\ DOMAIN reqs' = DOMAIN reqs
           /\ \A r \in DOMAIN reqs :
                 /\ reqs'[r].client = reqs[r].client
                 /\ reqs'[r].user_offset = reqs[r].user_offset
                 /\ reqs'[r].account_group = reqs[r].account_group
                 /\ reqs'[r].state = IF r = n THEN "done" ELSE reqs[r].state
                 /\ reqs'[r].answered = IF r = n THEN c ELSE reqs[r].answered
<1> DEFINE v == [reqs[n] EXCEPT !.state = "done", !.answered = c]
<1>0. reqs[n] \in ReqRec
  OBVIOUS
<1>1. reqs' = [reqs EXCEPT ![n] = v]
  OBVIOUS
<1>2. /\ v \in ReqRec /\ v.client = reqs[n].client /\ v.user_offset = reqs[n].user_offset
      /\ v.account_group = reqs[n].account_group /\ v.state = "done" /\ v.answered = c
  BY <1>0 DEF ReqRec, RequestStates
<1> HIDE DEF v
<1>3. /\ [reqs EXCEPT ![n] = v] \in Seq(ReqRec)
      /\ DOMAIN [reqs EXCEPT ![n] = v] = DOMAIN reqs
      /\ Len([reqs EXCEPT ![n] = v]) = Len(reqs)
  BY <1>2
<1>4. /\ reqs' \in Seq(ReqRec) /\ Len(reqs') = Len(reqs) /\ DOMAIN reqs' = DOMAIN reqs
      /\ reqs'[n] = v /\ \A r \in DOMAIN reqs \ {n} : reqs'[r] = reqs[r]
  BY <1>1, <1>3
<1> QED
  BY <1>2, <1>4
----------------------------------------------------------------------------
(* The start and the end of the process *)

LEMMA InitInv == Init => IInv
<1> SUFFICES ASSUME Init PROVE IInv
  OBVIOUS
<1> USE ConstantFacts
<1>1. thread \in [Threads -> ThreadRec] /\ \A i \in Threads : thread[i].read_ptr = 0 /\ thread[i].write_ptr = 0
  BY EmptySlotType DEF Init, NewThreads, ThreadRec
<1>2. \A i \in Threads, s \in Slots : thread[i].q[s] = EmptySlot
  BY DEF Init, NewThreads
<1>3. worker \in [Threads -> WorkerRec] /\ \A i \in Threads : worker[i].pc = "idle"
  BY ConstantFacts DEF Init, Idle, WorkerRec, WorkerPcs
<1>4. reqs = <<>> /\ Len(reqs) = 0 /\ DOMAIN reqs = {} /\ reqs \in Seq(ReqRec)
  BY DEF Init
<1>5. TypeOK
  <2>1. at \in Nat \X Nat /\ alloc_thnum \in Threads /\ clock \in Nat /\ gone \subseteq Fds
    BY DEF Init
  <2>2. overrun \in BOOLEAN /\ main = "down"
    BY DEF Init
  <2>3. inquiry_user \in [Users -> {0} \cup Fds]
    BY DEF Init
  <2> QED
    BY <1>1, <1>3, <1>4, <2>1, <2>2, <2>3, TypeParts
<1>6. OwnerInv
  BY <1>2, <1>3, <1>4, EmptySlotType
     DEF Init, OwnerInv, Control, Allocating, Request, SlotKnown, WorkerKnown, ClientThere
<1>7. \A i \in Threads : Ring(i) = {} /\ Entries(i) = 0
  BY <1>1 DEF Ring, Entries
<1>8. RingInv
  <2>1. SizeKept /\ WorkerAtFront
    <3>1. 0 \in 0 .. MAX_THREAD_QUE_SIZE
      OBVIOUS
    <3> QED
      BY <1>3, <1>7, <3>1 DEF SizeKept, WorkerAtFront
  <2>2. EntryState /\ EntryOrder /\ OneEntry /\ GroupInOneRing /\ Searched
    BY <1>7 DEF EntryState, EntryOrder, OneEntry, GroupInOneRing, Searched
  <2>3. QueuedInRing /\ PassedIsNull /\ Counted
    BY <1>1, <1>4 DEF QueuedInRing, Queued, PassedIsNull, Counted, Allocating, Init
  <2>4. NewEntry
    BY DEF NewEntry, NewState, NewSlotFree, NewSlotWritten, Allocating, Init
  <2> QED
    BY <2>1, <2>2, <2>3, <2>4 DEF RingInv, EntryInv
<1>9. AnswerInv
  BY <1>3, <1>4 DEF AnswerInv, WorkerOwner, AnswerToClient
<1> QED
  BY <1>5, <1>6, <1>8, <1>9 DEF IInv

LEMMA InitInvNext == Init' => IInv'
BY InitInv, PTL

LEMMA StopInv == Stop => IInv'
BY InitInvNext DEF Stop, Init

----------------------------------------------------------------------------
(* Types, and who owns a request, step by step *)

LEMMA ReqFacts ==
    ASSUME reqs \in Seq(ReqRec)
    PROVE  /\ DOMAIN reqs = 1 .. Len(reqs) /\ Len(reqs) \in Nat
           /\ \A r \in DOMAIN reqs :
                 /\ reqs[r] \in ReqRec
                 /\ reqs[r].client \in Fds /\ reqs[r].user_offset \in Users
                 /\ reqs[r].account_group \in Groups
                 /\ reqs[r].state \in RequestStates
                 /\ reqs[r].answered \in {0} \cup Fds
<1>1. \A r \in DOMAIN reqs : reqs[r] \in ReqRec
  OBVIOUS
<1> QED
  BY <1>1 DEF ReqRec

LEMMA NewOffsetIsFree ==
    ASSUME FreeUsers # {}
    PROVE  NewOffset \in FreeUsers
<1>1. FreeUsers \subseteq Nat
  BY ConstantFacts DEF FreeUsers, Users
<1>2. \E u \in FreeUsers : \A v \in FreeUsers : u <= v
  BY <1>1, LeastElement
<1> QED
  BY <1>2 DEF NewOffset

\* The steps that leave the requests and the connections alone keep what
\* only depends on them.
LEMMA SameRequests ==
    ASSUME OwnerInv, UNCHANGED <<reqs, inquiry_user, gone>>
    PROVE  ClientThere' /\ Len(reqs') <= MaxRequests
BY DEF OwnerInv, Control, ClientThere

LEMMA AcceptUserOwner ==
    ASSUME TypeOK, OwnerInv, NEW c \in Fds, AcceptUser(c)
    PROVE  TypeOK' /\ OwnerInv'
<1> USE ConstantFacts
<1>1. NewOffset \in Users /\ inquiry_user[NewOffset] = 0
  BY NewOffsetIsFree DEF AcceptUser, FreeUsers
<1>2. /\ inquiry_user' = [inquiry_user EXCEPT ![NewOffset] = c]
      /\ inquiry_user' \in [Users -> {0} \cup Fds]
  BY TypeParts DEF AcceptUser
<1>3. TypeOK'
  BY <1>2, TypeParts, TypePartsNext DEF AcceptUser, search
<1>4. ClientThere'
  BY <1>1, <1>2, TypeParts, ReqFacts DEF AcceptUser, OwnerInv, ClientThere
<1>5. Control' /\ SlotKnown' /\ WorkerKnown'
  BY DEF AcceptUser, search, OwnerInv, Control, Allocating, Request, SlotKnown, WorkerKnown
<1> QED
  BY <1>3, <1>4, <1>5 DEF OwnerInv

LEMMA RemoveUserOwner ==
    ASSUME TypeOK, OwnerInv, NEW u \in Users, RemoveUser(u)
    PROVE  TypeOK' /\ OwnerInv'
<1> USE ConstantFacts
<1>1. /\ inquiry_user' = [inquiry_user EXCEPT ![u] = 0]
      /\ inquiry_user' \in [Users -> {0} \cup Fds]
      /\ inquiry_user[u] \in Fds /\ gone' = gone \cup {inquiry_user[u]}
  BY TypeParts DEF RemoveUser
<1>2. TypeOK'
  BY <1>1, TypeParts, TypePartsNext DEF RemoveUser, search
<1>3. ClientThere'
  BY <1>1, TypeParts, ReqFacts DEF RemoveUser, OwnerInv, ClientThere
<1>4. Control' /\ SlotKnown' /\ WorkerKnown'
  BY <1>1 DEF RemoveUser, search, OwnerInv, Control, Allocating, Request, SlotKnown, WorkerKnown
<1> QED
  BY <1>2, <1>3, <1>4 DEF OwnerInv

\* The request that is received, and what it leaves alone
LEMMA ReceiveFacts ==
    ASSUME TypeOK, NEW u \in Users, NEW g \in Groups, ReceiveRequest(u, g)
    PROVE  /\ reqs' \in Seq(ReqRec) /\ Len(reqs') = Len(reqs) + 1 /\ Len(reqs) < MaxRequests
           /\ DOMAIN reqs' = 1 .. (Len(reqs) + 1)
           /\ \A r \in DOMAIN reqs : reqs'[r] = reqs[r]
           /\ LET n == Len(reqs) + 1
              IN  /\ reqs'[n].client = inquiry_user[u] /\ reqs'[n].user_offset = u
                  /\ reqs'[n].account_group = g
                  /\ reqs'[n].state = "new" /\ reqs'[n].answered = 0
           /\ main = "wait" /\ main' = "search" /\ at' = <<0, thread[0].read_ptr>>
           /\ UNCHANGED <<alloc_thnum, thread, worker, inquiry_user, gone, clock, overrun>>
<1> DEFINE v == [client |-> inquiry_user[u], user_offset |-> u,
                 account_group |-> g, state |-> "new", answered |-> 0]
<1>1. v \in ReqRec
  BY ConstantFacts, TypeParts DEF ReceiveRequest, ReqRec, RequestStates
<1>2. reqs \in Seq(ReqRec) /\ reqs' = Append(reqs, v)
  BY TypeParts DEF ReceiveRequest
<1>3. /\ v.client = inquiry_user[u] /\ v.user_offset = u /\ v.account_group = g
      /\ v.state = "new" /\ v.answered = 0
  OBVIOUS
<1> HIDE DEF v
<1>4. /\ reqs' \in Seq(ReqRec) /\ Len(reqs') = Len(reqs) + 1
      /\ DOMAIN reqs' = 1 .. (Len(reqs) + 1)
      /\ \A r \in DOMAIN reqs : reqs'[r] = reqs[r]
      /\ reqs'[Len(reqs) + 1] = v
  BY <1>1, <1>2
<1> QED
  BY <1>3, <1>4 DEF ReceiveRequest, Request

LEMMA ReceiveRequestOwner ==
    ASSUME TypeOK, OwnerInv, NEW u \in Users, NEW g \in Groups, ReceiveRequest(u, g)
    PROVE  TypeOK' /\ OwnerInv'
<1> USE ConstantFacts, ReceiveFacts
<1>0. reqs \in Seq(ReqRec) /\ DOMAIN reqs = 1 .. Len(reqs) /\ Len(reqs) \in Nat
  BY TypeParts, ReqFacts
<1>1. TypeOK'
  BY TypeParts, TypePartsNext, SlotFacts DEF ThreadRec
<1>2. Control'
  BY <1>0 DEF OwnerInv, Control, Allocating, Request
<1>3. DOMAIN reqs \subseteq DOMAIN reqs'
  BY <1>0
<1>4. SlotKnown' /\ WorkerKnown'
  BY <1>3 DEF OwnerInv, SlotKnown, WorkerKnown
<1>5. ClientThere'
  BY <1>0 DEF OwnerInv, ClientThere
<1> QED
  BY <1>1, <1>2, <1>4, <1>5 DEF OwnerInv

\* The steps of the search that only move the main thread
LEMMA SearchFacts ==
    ASSUME TypeOK, OwnerInv, Search \/ NextRing \/ Pick
    PROVE  /\ main \in {"search", "pick"} /\ main' \in {"search", "pick", "enqueue"}
           /\ at' \in Nat \X Nat /\ alloc_thnum' \in Threads
           /\ main' = "search" => at'[1] \in Threads
           /\ UNCHANGED <<thread, worker, inquiry_user, gone, reqs, clock, overrun>>
<1> USE ConstantFacts
<1>1. /\ at \in Nat \X Nat /\ alloc_thnum \in Threads
      /\ \A i \in Threads : thread[i].read_ptr \in Nat
      /\ main = "search" => at[1] \in Threads
  BY TypeParts, SlotFacts, IndexIsSlot DEF OwnerInv, Control
<1>2. at[1] \in Nat /\ at[2] \in Nat
  BY <1>1
<1>3. CASE Search
  BY <1>1, <1>2, <1>3 DEF Search, Found, LookNext
<1>4. CASE NextRing
  BY <1>1, <1>2, <1>4 DEF NextRing
<1>5. CASE Pick
  BY <1>1, <1>2, <1>5 DEF Pick
<1> QED
  BY <1>3, <1>4, <1>5

LEMMA SearchOwner ==
    ASSUME TypeOK, OwnerInv, Search \/ NextRing \/ Pick
    PROVE  TypeOK' /\ OwnerInv'
<1>1. TypeOK'
  BY SearchFacts, TypeParts, TypePartsNext
<1>2. ClientThere'
  BY SearchFacts, SameRequests
<1>3. SlotKnown' /\ WorkerKnown'
  BY SearchFacts DEF OwnerInv, SlotKnown, WorkerKnown
<1>4. Control'
  <2>1. /\ main \in {"search", "pick"} /\ reqs' = reqs
        /\ main' = "search" => at'[1] \in Threads
    BY SearchFacts
  <2>2. Control
    BY DEF OwnerInv
  <2> QED
    BY <2>1, <2>2 DEF Control, Allocating, Request
<1> QED
  BY <1>1, <1>2, <1>3, <1>4 DEF OwnerInv

\* A slot that is read while it is freed is found overwritten.
LEMMA SearchFreedFacts ==
    ASSUME TypeOK, OwnerInv, SearchFreed
    PROVE  LET i == at[1]
               s == Index(at[2])
               v == [thread[i].q[s] EXCEPT !.memory = "garbled"]
           IN  /\ i \in Threads /\ at[2] \in Nat /\ s \in Slots
               /\ main = "search" /\ at' = <<i, at[2] + 1>> /\ at[2] < thread[i].write_ptr
               /\ thread[i].q[s].memory \in {"freed", "garbled"}
               /\ v \in SlotType /\ v.memory = "garbled"
               /\ v.rcvbuf = thread[i].q[s].rcvbuf /\ v.user_offset = thread[i].q[s].user_offset
               /\ thread' \in [Threads -> ThreadRec]
               /\ \A k \in Threads :
                     /\ thread'[k].read_ptr = thread[k].read_ptr
                     /\ thread'[k].write_ptr = thread[k].write_ptr
                     /\ \A t \in Slots :
                          thread'[k].q[t] = IF k = i /\ t = s THEN v ELSE thread[k].q[t]
               /\ UNCHANGED <<main, alloc_thnum, worker, inquiry_user, gone, reqs, clock, overrun>>
<1> DEFINE i == at[1]
           s == Index(at[2])
           v == [thread[i].q[s] EXCEPT !.memory = "garbled"]
<1>1. thread \in [Threads -> ThreadRec] /\ i \in Threads /\ at[2] \in Nat /\ s \in Slots
  BY TypeParts, IndexIsSlot DEF SearchFreed, OwnerInv, Control
<1>2. /\ thread' = [thread EXCEPT ![i].q[s].memory = "garbled"]
      /\ main = "search" /\ at' = <<i, at[2] + 1>> /\ at[2] < thread[i].write_ptr
      /\ thread[i].q[s].memory \in {"freed", "garbled"}
      /\ UNCHANGED <<main, alloc_thnum, worker, inquiry_user, gone, reqs, clock, overrun>>
  BY DEF SearchFreed, LookNext, Slot
<1> HIDE DEF i, s
<1>3. /\ v \in SlotType /\ v.memory = "garbled"
      /\ v.rcvbuf = thread[i].q[s].rcvbuf /\ v.user_offset = thread[i].q[s].user_offset
      /\ thread' = Written(i, s, v)
  BY <1>1, <1>2, SetMemory
<1> HIDE DEF v
<1>4. /\ thread' \in [Threads -> ThreadRec]
      /\ \A k \in Threads :
            /\ thread'[k].read_ptr = thread[k].read_ptr
            /\ thread'[k].write_ptr = thread[k].write_ptr
            /\ \A t \in Slots : thread'[k].q[t] = IF k = i /\ t = s THEN v ELSE thread[k].q[t]
  <2>1. thread \in [Threads -> ThreadRec]
    BY <1>1
  <2>2. i \in Threads /\ s \in Slots /\ v \in SlotType
    BY <1>1, <1>3
  <2>3. thread' = Written(i, s, v)
    BY <1>3
  <2> QED
    BY <2>1, <2>2, <2>3, SetSlot
<1> QED
  BY <1>1, <1>2, <1>3, <1>4, Zenon DEF i, s, v

LEMMA SearchFreedOwner ==
    ASSUME TypeOK, OwnerInv, SearchFreed
    PROVE  TypeOK' /\ OwnerInv'
<1>1. TypeOK'
  BY SearchFreedFacts, TypeParts, TypePartsNext, ConstantFacts
<1>2. ClientThere'
  BY SearchFreedFacts, SameRequests
<1>3. SlotKnown'
  <2> SUFFICES ASSUME NEW k \in Threads, NEW t \in Slots, thread'[k].q[t].rcvbuf # 0
               PROVE  thread'[k].q[t].rcvbuf \in DOMAIN reqs'
    BY DEF SlotKnown
  <2>1. thread'[k].q[t].rcvbuf = thread[k].q[t].rcvbuf /\ reqs' = reqs
    BY SearchFreedFacts
  <2> QED
    BY <2>1 DEF OwnerInv, SlotKnown
<1>4. WorkerKnown' /\ Control'
  BY SearchFreedFacts DEF OwnerInv, WorkerKnown, Control, Allocating, Request
<1> QED
  BY <1>1, <1>2, <1>3, <1>4 DEF OwnerInv

LEMMA RefuseFacts ==
    ASSUME TypeOK, OwnerInv, Refuse
    PROVE  /\ main = "enqueue" /\ main' = "wait" /\ Request \in DOMAIN reqs
           /\ reqs' \in Seq(ReqRec) /\ Len(reqs') = Len(reqs) /\ DOMAIN reqs' = DOMAIN reqs
           /\ \A r \in DOMAIN reqs :
                 /\ reqs'[r].client = reqs[r].client
                 /\ reqs'[r].user_offset = reqs[r].user_offset
                 /\ reqs'[r].account_group = reqs[r].account_group
                 /\ reqs'[r].state = IF r = Request THEN "refused" ELSE reqs[r].state
                 /\ reqs'[r].answered = reqs[r].answered
           /\ UNCHANGED <<at, alloc_thnum, thread, worker, inquiry_user, gone, clock, overrun>>
<1>1. reqs \in Seq(ReqRec)
  BY TypeParts
<1>2. main = "enqueue" /\ Request \in DOMAIN reqs
  BY <1>1, ReqFacts DEF Refuse, OwnerInv, Control, Allocating, Request
<1>3. reqs' = [reqs EXCEPT ![Request].state = "refused"]
  BY DEF Refuse
<1>4. "refused" \in RequestStates
  BY DEF RequestStates
<1>5. /\ main' = "wait"
      /\ UNCHANGED <<at, alloc_thnum, thread, worker, inquiry_user, gone, clock, overrun>>
  BY DEF Refuse
<1> QED
  BY <1>1, <1>2, <1>3, <1>4, <1>5, SetState

\* When only the state of requests changes, their owners stay.
LEMMA SameOwners ==
    ASSUME OwnerInv, reqs' \in Seq(ReqRec), Len(reqs') = Len(reqs), DOMAIN reqs' = DOMAIN reqs,
           \A r \in DOMAIN reqs : /\ reqs'[r].client = reqs[r].client
                                  /\ reqs'[r].user_offset = reqs[r].user_offset,
           UNCHANGED <<inquiry_user, gone>>
    PROVE  /\ ClientThere' /\ Len(reqs') <= MaxRequests
           /\ thread' = thread => SlotKnown'
           /\ worker' = worker => WorkerKnown'
<1>1. ClientThere' /\ Len(reqs') <= MaxRequests
  BY DEF OwnerInv, Control, ClientThere
<1>2. thread' = thread => SlotKnown'
  BY DEF OwnerInv, SlotKnown
<1>3. worker' = worker => WorkerKnown'
  BY DEF OwnerInv, WorkerKnown
<1> QED
  BY <1>1, <1>2, <1>3

LEMMA RefuseOwner ==
    ASSUME TypeOK, OwnerInv, Refuse
    PROVE  TypeOK' /\ OwnerInv'
<1>1. TypeOK'
  BY RefuseFacts, TypeParts, TypePartsNext
<1>2. ClientThere' /\ SlotKnown' /\ WorkerKnown' /\ Len(reqs') <= MaxRequests
  BY RefuseFacts, SameOwners
<1>4. Control'
  BY <1>2, RefuseFacts DEF Control, Allocating
<1> QED
  BY <1>1, <1>2, <1>4 DEF OwnerInv

\* The slot behind the chosen ring is written,
Writing == WriteUserOffset \/ WriteRcvbuf \/ WriteTime

LEMMA WritingFacts ==
    ASSUME TypeOK, OwnerInv, Writing
    PROVE  LET i == alloc_thnum
               s == NewSlot(alloc_thnum)
           IN  /\ i \in Threads /\ s \in Slots /\ s = Index(thread[i].write_ptr)
               /\ Request \in DOMAIN reqs
               /\ clock' \in Nat
               /\ thread' \in [Threads -> ThreadRec]
               /\ \A k \in Threads :
                     /\ thread'[k].read_ptr = thread[k].read_ptr
                     /\ thread'[k].write_ptr = thread[k].write_ptr
                     /\ \A t \in Slots : ~(k = i /\ t = s) => thread'[k].q[t] = thread[k].q[t]
               /\ UNCHANGED <<at, alloc_thnum, worker, inquiry_user, gone, reqs>>
               /\ WriteUserOffset =>
                     /\ thread'[i].q[s].user_offset = reqs[Request].user_offset
                     /\ thread'[i].q[s].rcvbuf = thread[i].q[s].rcvbuf
               /\ WriteRcvbuf =>
                     /\ thread'[i].q[s].user_offset = thread[i].q[s].user_offset
                     /\ thread'[i].q[s].rcvbuf = Request /\ thread'[i].q[s].memory = "live"
               /\ WriteTime =>
                     /\ thread'[i].q[s].user_offset = thread[i].q[s].user_offset
                     /\ thread'[i].q[s].rcvbuf = thread[i].q[s].rcvbuf
                     /\ thread'[i].q[s].memory = thread[i].q[s].memory
<1> DEFINE i == alloc_thnum
           s == NewSlot(alloc_thnum)
<1>1. /\ thread \in [Threads -> ThreadRec] /\ i \in Threads /\ reqs \in Seq(ReqRec)
      /\ clock \in Nat
  BY TypeParts
<1>2. s \in Slots /\ s = Index(thread[i].write_ptr)
  BY <1>1, SlotFacts, IndexIsSlot DEF NewSlot, ThreadRec
<1>3. UNCHANGED <<at, alloc_thnum, worker, inquiry_user, gone, reqs>>
  BY DEF Writing, WriteUserOffset, WriteRcvbuf, WriteTime
<1>4. Request \in DOMAIN reqs
  BY <1>1, ReqFacts DEF Writing, WriteUserOffset, WriteRcvbuf, WriteTime,
                        OwnerInv, Control, Allocating, Request
<1>5. reqs[Request].user_offset \in Users /\ Request \in Nat
  BY <1>1, <1>4, ReqFacts DEF Request
<1>6. ASSUME NEW v \in SlotType, thread' = Written(i, s, v)
      PROVE  /\ thread' \in [Threads -> ThreadRec]
             /\ \A k \in Threads :
                   /\ thread'[k].read_ptr = thread[k].read_ptr
                   /\ thread'[k].write_ptr = thread[k].write_ptr
                   /\ \A t \in Slots : ~(k = i /\ t = s) => thread'[k].q[t] = thread[k].q[t]
             /\ thread'[i].q[s] = v
  <2>1. thread \in [Threads -> ThreadRec] /\ i \in Threads /\ s \in Slots
    BY <1>1, <1>2
  <2>2. v \in SlotType /\ thread' = Written(i, s, v)
    BY <1>6
  <2> HIDE DEF i, s
  <2>3. /\ thread' \in [Threads -> ThreadRec]
        /\ \A k \in Threads :
              /\ thread'[k].read_ptr = thread[k].read_ptr
              /\ thread'[k].write_ptr = thread[k].write_ptr
              /\ \A t \in Slots : thread'[k].q[t] = IF k = i /\ t = s THEN v ELSE thread[k].q[t]
    BY <2>1, <2>2, SetSlot
  <2> QED
    BY <2>1, <2>3
<1> DEFINE old == thread[i].q[s]
<1>7. CASE WriteUserOffset
  <2>1. thread' = [thread EXCEPT ![i].q[s].user_offset = reqs[Request].user_offset] /\ clock' = clock
    BY <1>7 DEF WriteUserOffset
  <2>2. PICK v \in SlotType :
           /\ v.user_offset = reqs[Request].user_offset
           /\ v.rcvbuf = old.rcvbuf
           /\ thread' = Written(i, s, v)
    <3>1. thread \in [Threads -> ThreadRec] /\ i \in Threads /\ s \in Slots
      BY <1>1, <1>2
    <3>2. reqs[Request].user_offset \in Users
      BY <1>5
    <3> HIDE DEF i, s
    <3>3. thread' = [thread EXCEPT ![i].q[s].user_offset = reqs[Request].user_offset]
      BY <2>1
    <3> QED
      BY <3>1, <3>2, <3>3, SetOffset
  <2>3. ~WriteRcvbuf /\ ~WriteTime
    BY <1>7 DEF WriteUserOffset, WriteRcvbuf, WriteTime
  <2> QED
    BY <1>1, <1>2, <1>3, <1>4, <1>6, <2>1, <2>2, <2>3
<1>8. CASE WriteRcvbuf
  <2>1. thread' = [thread EXCEPT ![i].q[s] = [@ EXCEPT !.rcvbuf = Request, !.memory = "live"]] /\ clock' = clock
    BY <1>8 DEF WriteRcvbuf
  <2>2. PICK v \in SlotType :
           /\ v.user_offset = old.user_offset
           /\ v.rcvbuf = Request
           /\ v.memory = "live"
           /\ thread' = Written(i, s, v)
    <3> DEFINE v == [old EXCEPT !.rcvbuf = Request, !.memory = "live"]
    <3>1. thread' = Written(i, s, v)
      BY <2>1 DEF Written
    <3>2. /\ v \in SlotType /\ v.rcvbuf = Request /\ v.memory = "live"
          /\ v.user_offset = old.user_offset
      <4>1. old \in SlotType /\ Request \in Nat
        BY <1>1, <1>2, <1>5, SlotFacts
      <4> HIDE DEF old
      <4> QED
        BY <4>1 DEF SlotType
    <3> HIDE DEF v
    <3> QED
      BY <3>1, <3>2
  <2>3. ~WriteUserOffset /\ ~WriteTime
    BY <1>8 DEF WriteUserOffset, WriteRcvbuf, WriteTime
  <2> QED
    BY <1>1, <1>2, <1>3, <1>4, <1>6, <2>1, <2>2, <2>3
<1>9. CASE WriteTime
  <2>1. /\ thread' = [thread EXCEPT ![i].q[s].request_time = clock']
        /\ clock' \in {clock, clock + 1}
    BY <1>9 DEF WriteTime
  <2>2. PICK c \in Nat : c = clock'
    BY <1>1, <2>1
  <2>3. thread' = [thread EXCEPT ![i].q[s].request_time = c]
    BY <2>1, <2>2
  <2>4. PICK v \in SlotType :
           /\ v.user_offset = old.user_offset
           /\ v.rcvbuf = old.rcvbuf
           /\ v.memory = old.memory
           /\ thread' = Written(i, s, v)
    <3>1. thread \in [Threads -> ThreadRec] /\ i \in Threads /\ s \in Slots
      BY <1>1, <1>2
    <3> HIDE DEF i, s
    <3> QED
      BY <2>3, <3>1, SetTime
  <2>5. ~WriteUserOffset /\ ~WriteRcvbuf
    BY <1>9 DEF WriteUserOffset, WriteRcvbuf, WriteTime
  <2> QED
    BY <1>1, <1>2, <1>3, <1>4, <1>6, <2>2, <2>4, <2>5
<1> QED
  BY <1>7, <1>8, <1>9 DEF Writing

LEMMA WritingOwner ==
    ASSUME TypeOK, OwnerInv, Writing
    PROVE  TypeOK' /\ OwnerInv'
<1>1. TypeOK'
  <2>1. overrun' \in BOOLEAN
    BY TypeParts DEF Writing, WriteUserOffset, WriteRcvbuf, WriteTime
  <2>2. main' \in {"rcvbuf", "time", "publish"}
    BY DEF Writing, WriteUserOffset, WriteRcvbuf, WriteTime
  <2> QED
    BY <2>1, <2>2, WritingFacts, TypeParts, TypePartsNext
<1>2. ClientThere' /\ Len(reqs') <= MaxRequests
  BY WritingFacts, SameRequests
<1>3. WorkerKnown' /\ Control'
  <2>1. UNCHANGED <<worker, reqs>>
    BY WritingFacts
  <2>2. Allocating /\ main' # "search"
    BY DEF Writing, WriteUserOffset, WriteRcvbuf, WriteTime, Allocating
  <2> QED
    BY <2>1, <2>2 DEF OwnerInv, WorkerKnown, Control, Request
<1>4. SlotKnown'
  <2> SUFFICES ASSUME NEW k \in Threads, NEW t \in Slots, thread'[k].q[t].rcvbuf # 0
               PROVE  thread'[k].q[t].rcvbuf \in DOMAIN reqs
    BY WritingFacts DEF SlotKnown
  <2>1. CASE k = alloc_thnum /\ t = NewSlot(alloc_thnum)
    BY <2>1, WritingFacts DEF OwnerInv, SlotKnown, Writing
  <2>2. CASE ~(k = alloc_thnum /\ t = NewSlot(alloc_thnum))
    BY <2>2, WritingFacts DEF OwnerInv, SlotKnown
  <2> QED
    BY <2>1, <2>2
<1> QED
  BY <1>1, <1>2, <1>3, <1>4 DEF OwnerInv

\* and then becomes an entry.
LEMMA PublishStepFacts ==
    ASSUME TypeOK, OwnerInv, Publish
    PROVE  /\ alloc_thnum \in Threads /\ main = "publish" /\ main' = "wait"
           /\ Request \in DOMAIN reqs
           /\ thread' \in [Threads -> ThreadRec]
           /\ \A k \in Threads :
                 /\ thread'[k].read_ptr = thread[k].read_ptr
                 /\ thread'[k].write_ptr = thread[k].write_ptr + (IF k = alloc_thnum THEN 1 ELSE 0)
                 /\ thread'[k].q = thread[k].q
           /\ reqs' \in Seq(ReqRec) /\ Len(reqs') = Len(reqs) /\ DOMAIN reqs' = DOMAIN reqs
           /\ \A r \in DOMAIN reqs :
                 /\ reqs'[r].client = reqs[r].client
                 /\ reqs'[r].user_offset = reqs[r].user_offset
                 /\ reqs'[r].account_group = reqs[r].account_group
                 /\ reqs'[r].state = IF r = Request THEN "queued" ELSE reqs[r].state
                 /\ reqs'[r].answered = reqs[r].answered
           /\ UNCHANGED <<at, alloc_thnum, worker, inquiry_user, gone, clock, overrun>>
<1>1. thread \in [Threads -> ThreadRec] /\ alloc_thnum \in Threads /\ reqs \in Seq(ReqRec)
  BY TypeParts
<1>2. /\ main = "publish" /\ main' = "wait"
      /\ thread' = [thread EXCEPT ![alloc_thnum].write_ptr = @ + 1]
      /\ reqs' = [reqs EXCEPT ![Request].state = "queued"]
      /\ UNCHANGED <<at, alloc_thnum, worker, inquiry_user, gone, clock, overrun>>
  BY DEF Publish
<1>3. Request \in DOMAIN reqs
  BY <1>1, <1>2, ReqFacts DEF OwnerInv, Control, Allocating, Request
<1>4. /\ thread' \in [Threads -> ThreadRec]
      /\ \A k \in Threads :
            /\ thread'[k].read_ptr = thread[k].read_ptr
            /\ thread'[k].write_ptr = thread[k].write_ptr + (IF k = alloc_thnum THEN 1 ELSE 0)
            /\ thread'[k].q = thread[k].q
  BY <1>1, <1>2, PublishFacts
<1>5. "queued" \in RequestStates
  BY DEF RequestStates
<1>6. /\ reqs' \in Seq(ReqRec) /\ Len(reqs') = Len(reqs) /\ DOMAIN reqs' = DOMAIN reqs
      /\ \A r \in DOMAIN reqs :
            /\ reqs'[r].client = reqs[r].client
            /\ reqs'[r].user_offset = reqs[r].user_offset
            /\ reqs'[r].account_group = reqs[r].account_group
            /\ reqs'[r].state = IF r = Request THEN "queued" ELSE reqs[r].state
            /\ reqs'[r].answered = reqs[r].answered
  BY <1>1, <1>2, <1>3, <1>5, SetState
<1> QED
  BY <1>1, <1>2, <1>3, <1>4, <1>6

LEMMA PublishOwner ==
    ASSUME TypeOK, OwnerInv, Publish
    PROVE  TypeOK' /\ OwnerInv'
<1>1. TypeOK'
  BY PublishStepFacts, TypeParts, TypePartsNext
<1>2. ClientThere' /\ WorkerKnown' /\ Len(reqs') <= MaxRequests
  BY PublishStepFacts, SameOwners
<1>3. SlotKnown'
  BY PublishStepFacts DEF OwnerInv, SlotKnown
<1>4. Control'
  BY <1>2, PublishStepFacts DEF Control, Allocating
<1> QED
  BY <1>1, <1>2, <1>3, <1>4 DEF OwnerInv

\* The slot at the head of a ring
LEMMA FrontFacts ==
    ASSUME TypeOK, NEW i \in Threads
    PROVE  /\ thread \in [Threads -> ThreadRec] /\ worker \in [Threads -> WorkerRec]
           /\ thread[i].read_ptr \in Nat /\ thread[i].write_ptr \in Nat
           /\ Index(thread[i].read_ptr) \in Slots
           /\ Front(i) = thread[i].q[Index(thread[i].read_ptr)] /\ Front(i) \in SlotType
<1>1. thread \in [Threads -> ThreadRec] /\ worker \in [Threads -> WorkerRec]
  BY TypeParts
<1>2. thread[i].read_ptr \in Nat /\ thread[i].write_ptr \in Nat
  BY <1>1 DEF ThreadRec
<1>3. Index(thread[i].read_ptr) \in Slots
  BY <1>2, IndexIsSlot
<1> QED
  BY <1>1, <1>2, <1>3, SlotFacts DEF Front, Slot

LEMMA TakeFacts ==
    ASSUME TypeOK, NEW i \in Threads, Take(i)
    PROVE  /\ worker[i].pc = "idle" /\ Busy(i) /\ Front(i).rcvbuf # 0
           /\ worker' \in [Threads -> WorkerRec]
           /\ worker'[i].pc = "dispatch" /\ worker'[i].rcvbuf = Front(i).rcvbuf
           /\ \A k \in Threads \ {i} : worker'[k] = worker[k]
           /\ UNCHANGED <<main, at, alloc_thnum, thread, inquiry_user, gone, reqs, clock, overrun>>
<1> DEFINE r == [worker[i] EXCEPT !.pc = "dispatch", !.rcvbuf = Front(i).rcvbuf]
<1>0. worker[i] \in WorkerRec /\ Front(i).rcvbuf \in Nat /\ worker \in [Threads -> WorkerRec]
  BY FrontFacts, SlotTypeFacts
<1>1. r \in WorkerRec /\ r.pc = "dispatch" /\ r.rcvbuf = Front(i).rcvbuf
  BY <1>0 DEF WorkerRec, WorkerPcs
<1>2. worker' = [worker EXCEPT ![i] = r]
  BY DEF Take
<1> HIDE DEF r
<1>3. worker' \in [Threads -> WorkerRec] /\ worker'[i] = r /\ \A k \in Threads \ {i} : worker'[k] = worker[k]
  BY <1>0, <1>1, <1>2
<1>4. /\ worker[i].pc = "idle" /\ Busy(i) /\ Front(i).rcvbuf # 0
      /\ UNCHANGED <<main, at, alloc_thnum, thread, inquiry_user, gone, reqs, clock, overrun>>
  BY DEF Take, search
<1> QED
  BY <1>1, <1>3, <1>4

LEMMA DispatchFacts ==
    ASSUME TypeOK, NEW i \in Threads, Dispatch(i)
    PROVE  /\ worker[i].pc = "dispatch"
           /\ worker' \in [Threads -> WorkerRec]
           /\ worker'[i].pc = "call" /\ worker'[i].rcvbuf = worker[i].rcvbuf
           /\ worker'[i].user_offset = Front(i).user_offset
           /\ \A k \in Threads \ {i} : worker'[k] = worker[k]
           /\ UNCHANGED <<main, at, alloc_thnum, thread, inquiry_user, gone, reqs, clock, overrun>>
<1> DEFINE r == [worker[i] EXCEPT !.pc = "call", !.user_offset = Front(i).user_offset]
<1>0. worker[i] \in WorkerRec /\ Front(i).user_offset \in Users /\ worker \in [Threads -> WorkerRec]
  BY FrontFacts, SlotTypeFacts
<1>1. /\ r \in WorkerRec /\ r.pc = "call" /\ r.rcvbuf = worker[i].rcvbuf
      /\ r.user_offset = Front(i).user_offset
  BY <1>0 DEF WorkerRec, WorkerPcs
<1>2. worker' = [worker EXCEPT ![i] = r]
  BY DEF Dispatch
<1> HIDE DEF r
<1>3. worker' \in [Threads -> WorkerRec] /\ worker'[i] = r /\ \A k \in Threads \ {i} : worker'[k] = worker[k]
  BY <1>0, <1>1, <1>2
<1>4. /\ worker[i].pc = "dispatch"
      /\ UNCHANGED <<main, at, alloc_thnum, thread, inquiry_user, gone, reqs, clock, overrun>>
  BY DEF Dispatch, search
<1> QED
  BY <1>1, <1>3, <1>4

LEMMA TakeOwner ==
    ASSUME TypeOK, OwnerInv, NEW i \in Threads, Take(i) \/ Dispatch(i)
    PROVE  TypeOK' /\ OwnerInv'
<1>1. /\ worker' \in [Threads -> WorkerRec]
      /\ \A k \in Threads \ {i} : worker'[k] = worker[k]
      /\ UNCHANGED <<main, at, alloc_thnum, thread, inquiry_user, gone, reqs, clock, overrun>>
  BY TakeFacts, DispatchFacts
<1>2. TypeOK'
  BY <1>1, TypeParts, TypePartsNext
<1>3. ClientThere'
  BY <1>1, SameRequests
<1>4. SlotKnown' /\ Control'
  BY <1>1 DEF OwnerInv, SlotKnown, Control, Allocating, Request
<1>5. WorkerKnown'
  <2>1. CASE Take(i)
    <3>1. Front(i).rcvbuf \in DOMAIN reqs
      BY <2>1, FrontFacts, TakeFacts DEF OwnerInv, SlotKnown
    <3> QED
      BY <1>1, <2>1, <3>1, TakeFacts DEF OwnerInv, WorkerKnown
  <2>2. CASE Dispatch(i)
    BY <1>1, <2>2, DispatchFacts DEF OwnerInv, WorkerKnown
  <2> QED
    BY <2>1, <2>2
<1> QED
  BY <1>2, <1>3, <1>4, <1>5 DEF OwnerInv

\* The request that is answered is the worker's, to the client in the user slot
\* that it took or to nobody.
LEMMA AnswerFacts ==
    ASSUME TypeOK, OwnerInv, NEW i \in Threads, Answer(i)
    PROVE  LET n == worker[i].rcvbuf
           IN  /\ n \in DOMAIN reqs /\ worker[i].pc = "call"
               /\ worker' \in [Threads -> WorkerRec]
               /\ worker'[i].pc = "free" /\ worker'[i].rcvbuf = n
               /\ worker'[i].user_offset = worker[i].user_offset
               /\ \A k \in Threads \ {i} : worker'[k] = worker[k]
               /\ reqs' \in Seq(ReqRec) /\ Len(reqs') = Len(reqs) /\ DOMAIN reqs' = DOMAIN reqs
               /\ \A r \in DOMAIN reqs :
                     /\ reqs'[r].client = reqs[r].client
                     /\ reqs'[r].user_offset = reqs[r].user_offset
                     /\ reqs'[r].account_group = reqs[r].account_group
                     /\ reqs'[r].state = IF r = n THEN "done" ELSE reqs[r].state
                     /\ r # n => reqs'[r].answered = reqs[r].answered
               /\ reqs'[n].answered \in {0, Reader(i)}
               /\ UNCHANGED <<main, at, alloc_thnum, thread, inquiry_user, gone, clock, overrun>>
<1> DEFINE n == worker[i].rcvbuf
<1>1. /\ worker[i].pc = "call" /\ worker' = [worker EXCEPT ![i].pc = "free"]
      /\ UNCHANGED <<main, at, alloc_thnum, thread, inquiry_user, gone, clock, overrun>>
  BY DEF Answer, search
<1>2. n \in DOMAIN reqs
  BY <1>1 DEF OwnerInv, WorkerKnown
<1>3. /\ reqs \in Seq(ReqRec) /\ inquiry_user \in [Users -> {0} \cup Fds]
      /\ worker[i].user_offset \in Users
  BY TypeParts DEF WorkerRec
<1>5. PICK c \in {0, Reader(i)} :
        reqs' = [reqs EXCEPT ![n].state = "done", ![n].answered = c]
  BY DEF Answer
<1>6. c \in {0} \cup Fds
  BY <1>3, <1>5 DEF Reader
<1> HIDE DEF n
<1>7. /\ reqs' \in Seq(ReqRec) /\ Len(reqs') = Len(reqs) /\ DOMAIN reqs' = DOMAIN reqs
      /\ \A r \in DOMAIN reqs :
            /\ reqs'[r].client = reqs[r].client
            /\ reqs'[r].user_offset = reqs[r].user_offset
            /\ reqs'[r].account_group = reqs[r].account_group
            /\ reqs'[r].state = IF r = n THEN "done" ELSE reqs[r].state
            /\ reqs'[r].answered = IF r = n THEN c ELSE reqs[r].answered
  BY <1>2, <1>3, <1>5, <1>6, SetAnswer
<1>8. /\ worker' \in [Threads -> WorkerRec]
      /\ worker'[i].pc = "free" /\ worker'[i].rcvbuf = worker[i].rcvbuf
      /\ worker'[i].user_offset = worker[i].user_offset
      /\ \A k \in Threads \ {i} : worker'[k] = worker[k]
  <2>1. "free" \in WorkerPcs
    BY DEF WorkerPcs
  <2> QED
    BY <1>1, <2>1, FrontFacts, MoveWorker
<1> QED
  BY <1>1, <1>2, <1>5, <1>7, <1>8 DEF n

LEMMA AnswerOwner ==
    ASSUME TypeOK, OwnerInv, NEW i \in Threads, Answer(i)
    PROVE  TypeOK' /\ OwnerInv'
<1>1. TypeOK'
  BY AnswerFacts, TypeParts, TypePartsNext
<1>2. ClientThere' /\ SlotKnown' /\ Len(reqs') <= MaxRequests
  BY AnswerFacts, SameOwners
<1>4. Control'
  BY <1>2, AnswerFacts DEF OwnerInv, Control, Allocating, Request
<1>5. WorkerKnown'
  BY AnswerFacts DEF OwnerInv, WorkerKnown
<1> QED
  BY <1>1, <1>2, <1>4, <1>5 DEF OwnerInv

\* free marks the slot at the head,
LEMMA FreeFacts ==
    ASSUME TypeOK, NEW i \in Threads, Free(i)
    PROVE  LET s == Index(thread[i].read_ptr)
           IN  /\ s \in Slots /\ worker[i].pc = "free"
               /\ thread' \in [Threads -> ThreadRec]
               /\ \A k \in Threads :
                     /\ thread'[k].read_ptr = thread[k].read_ptr
                     /\ thread'[k].write_ptr = thread[k].write_ptr
                     /\ \A t \in Slots : ~(k = i /\ t = s) => thread'[k].q[t] = thread[k].q[t]
               /\ thread'[i].q[s].memory = "freed"
               /\ thread'[i].q[s].rcvbuf = thread[i].q[s].rcvbuf
               /\ thread'[i].q[s].user_offset = thread[i].q[s].user_offset
               /\ worker' \in [Threads -> WorkerRec]
               /\ worker'[i].pc = "clear" /\ worker'[i].rcvbuf = worker[i].rcvbuf
               /\ worker'[i].user_offset = worker[i].user_offset
               /\ \A k \in Threads \ {i} : worker'[k] = worker[k]
               /\ UNCHANGED <<main, at, alloc_thnum, inquiry_user, gone, reqs, clock, overrun>>
<1> DEFINE s == Index(thread[i].read_ptr)
           v == [thread[i].q[s] EXCEPT !.memory = "freed"]
<1>1. /\ thread' = [thread EXCEPT ![i].q[s].memory = "freed"]
      /\ worker[i].pc = "free" /\ worker' = [worker EXCEPT ![i].pc = "clear"]
      /\ UNCHANGED <<main, at, alloc_thnum, inquiry_user, gone, reqs, clock, overrun>>
  BY DEF Free, search
<1>2. s \in Slots /\ thread \in [Threads -> ThreadRec] /\ worker \in [Threads -> WorkerRec]
  BY FrontFacts
<1> HIDE DEF s
<1>3. /\ v \in SlotType /\ v.memory = "freed"
      /\ v.rcvbuf = thread[i].q[s].rcvbuf /\ v.user_offset = thread[i].q[s].user_offset
      /\ thread' = Written(i, s, v)
  BY <1>1, <1>2, SetMemory
<1> HIDE DEF v
<1>4. /\ thread' \in [Threads -> ThreadRec]
      /\ \A k \in Threads :
            /\ thread'[k].read_ptr = thread[k].read_ptr
            /\ thread'[k].write_ptr = thread[k].write_ptr
            /\ \A t \in Slots : thread'[k].q[t] = IF k = i /\ t = s THEN v ELSE thread[k].q[t]
  BY <1>2, <1>3, SetSlot
<1>5. /\ worker' \in [Threads -> WorkerRec]
      /\ worker'[i].pc = "clear" /\ worker'[i].rcvbuf = worker[i].rcvbuf
      /\ worker'[i].user_offset = worker[i].user_offset
      /\ \A k \in Threads \ {i} : worker'[k] = worker[k]
  <2>1. "clear" \in WorkerPcs
    BY DEF WorkerPcs
  <2> QED
    BY <1>1, <1>2, <2>1, MoveWorker
<1> QED
  BY <1>1, <1>2, <1>3, <1>4, <1>5 DEF s

\* the clearing empties it, field by field,
LEMMA ClearFacts ==
    ASSUME TypeOK, NEW i \in Threads, Clear(i)
    PROVE  LET s == Index(thread[i].read_ptr)
           IN  /\ s \in Slots /\ worker[i].pc \in {"clear", "offset", "time"}
               /\ thread' \in [Threads -> ThreadRec]
               /\ \A k \in Threads :
                     /\ thread'[k].read_ptr = thread[k].read_ptr
                     /\ thread'[k].write_ptr = thread[k].write_ptr
                     /\ \A t \in Slots : ~(k = i /\ t = s) => thread'[k].q[t] = thread[k].q[t]
               /\ IF worker[i].pc = "clear"
                  THEN thread'[i].q[s].memory = "null" /\ thread'[i].q[s].rcvbuf = 0
                  ELSE /\ thread'[i].q[s].memory = thread[i].q[s].memory
                       /\ thread'[i].q[s].rcvbuf = thread[i].q[s].rcvbuf
               /\ worker' \in [Threads -> WorkerRec]
               /\ worker'[i].pc \in Cleared /\ worker'[i].rcvbuf = worker[i].rcvbuf
               /\ worker'[i].user_offset = worker[i].user_offset
               /\ \A k \in Threads \ {i} : worker'[k] = worker[k]
               /\ UNCHANGED <<main, at, alloc_thnum, inquiry_user, gone, reqs, clock, overrun>>
<1> DEFINE s == Index(thread[i].read_ptr)
           old == thread[i].q[s]
           Moved(p) == p \in Cleared /\ worker' = [worker EXCEPT ![i].pc = p]
<1>1. UNCHANGED <<main, at, alloc_thnum, inquiry_user, gone, reqs, clock, overrun>>
  BY DEF Clear, ClearRcvbuf, ClearOffset, ClearTime, search
<1>2. s \in Slots /\ thread \in [Threads -> ThreadRec] /\ worker \in [Threads -> WorkerRec]
  BY FrontFacts
<1>3. ASSUME NEW v \in SlotType, thread' = Written(i, s, v)
      PROVE  /\ thread' \in [Threads -> ThreadRec]
             /\ \A k \in Threads :
                   /\ thread'[k].read_ptr = thread[k].read_ptr
                   /\ thread'[k].write_ptr = thread[k].write_ptr
                   /\ \A t \in Slots : ~(k = i /\ t = s) => thread'[k].q[t] = thread[k].q[t]
             /\ thread'[i].q[s] = v
  <2>1. v \in SlotType /\ thread' = Written(i, s, v)
    BY <1>3
  <2> HIDE DEF s
  <2>2. /\ thread' \in [Threads -> ThreadRec]
        /\ \A k \in Threads :
              /\ thread'[k].read_ptr = thread[k].read_ptr
              /\ thread'[k].write_ptr = thread[k].write_ptr
              /\ \A t \in Slots : thread'[k].q[t] = IF k = i /\ t = s THEN v ELSE thread[k].q[t]
    BY <1>2, <2>1, SetSlot
  <2> QED
    BY <1>2, <2>2
<1>4. ASSUME NEW p, Moved(p)
      PROVE  /\ worker' \in [Threads -> WorkerRec]
             /\ worker'[i].pc \in Cleared /\ worker'[i].rcvbuf = worker[i].rcvbuf
             /\ worker'[i].user_offset = worker[i].user_offset
             /\ \A k \in Threads \ {i} : worker'[k] = worker[k]
  <2>1. p \in WorkerPcs /\ p \in Cleared /\ worker' = [worker EXCEPT ![i].pc = p]
    BY <1>4 DEF Cleared, WorkerPcs
  <2> QED
    BY <1>2, <2>1, MoveWorker
<1>5. CASE ClearRcvbuf(i)
  <2>1. /\ thread' = [thread EXCEPT ![i].q[s] = [@ EXCEPT !.rcvbuf = 0, !.memory = "null"]]
        /\ worker[i].pc = "clear" /\ Moved("offset")
    BY <1>5 DEF ClearRcvbuf, Cleared
  <2>2. PICK v \in SlotType :
           /\ v.rcvbuf = 0
           /\ v.memory = "null"
           /\ thread' = Written(i, s, v)
    <3> DEFINE v == [old EXCEPT !.rcvbuf = 0, !.memory = "null"]
    <3>1. thread' = Written(i, s, v)
      BY <2>1 DEF Written
    <3>2. v \in SlotType /\ v.rcvbuf = 0 /\ v.memory = "null"
      <4>1. old \in SlotType
        BY <1>2, SlotFacts
      <4> HIDE DEF old
      <4> QED
        BY <4>1 DEF SlotType
    <3> HIDE DEF v
    <3> QED
      BY <3>1, <3>2
  <2> HIDE DEF Moved
  <2> QED
    BY <1>1, <1>2, <1>3, <1>4, <2>1, <2>2
<1>6. CASE ClearOffset(i)
  <2>1. /\ thread' = [thread EXCEPT ![i].q[s].user_offset = 0]
        /\ worker[i].pc = "offset" /\ Moved("time")
    BY <1>6 DEF ClearOffset, Cleared
  <2>2. PICK v \in SlotType :
           /\ v.rcvbuf = old.rcvbuf
           /\ v.memory = old.memory
           /\ thread' = Written(i, s, v)
    <3>1. 0 \in Users
      BY ConstantFacts
    <3> HIDE DEF s
    <3>2. thread' = [thread EXCEPT ![i].q[s].user_offset = 0]
      BY <2>1
    <3> QED
      BY <1>2, <3>1, <3>2, SetOffset
  <2> HIDE DEF Moved
  <2> QED
    BY <1>1, <1>2, <1>3, <1>4, <2>1, <2>2
<1>7. CASE ClearTime(i)
  <2>1. /\ thread' = [thread EXCEPT ![i].q[s].request_time = 0]
        /\ worker[i].pc = "time" /\ Moved("advance")
    BY <1>7 DEF ClearTime, Cleared
  <2>2. PICK v \in SlotType :
           /\ v.rcvbuf = old.rcvbuf
           /\ v.memory = old.memory
           /\ thread' = Written(i, s, v)
    <3> HIDE DEF s
    <3> QED
      BY <1>2, <2>1, SetTime
  <2> HIDE DEF Moved
  <2> QED
    BY <1>1, <1>2, <1>3, <1>4, <2>1, <2>2
<1> QED
  BY <1>5, <1>6, <1>7 DEF Clear

\* and the next one becomes the head.
LEMMA AdvanceStepFacts ==
    ASSUME TypeOK, NEW i \in Threads, Advance(i)
    PROVE  /\ worker[i].pc = "advance"
           /\ thread' \in [Threads -> ThreadRec]
           /\ \A k \in Threads :
                 /\ thread'[k].read_ptr = thread[k].read_ptr + (IF k = i THEN 1 ELSE 0)
                 /\ thread'[k].write_ptr = thread[k].write_ptr
                 /\ thread'[k].q = thread[k].q
           /\ worker' \in [Threads -> WorkerRec] /\ worker'[i].pc = "idle"
           /\ \A k \in Threads \ {i} : worker'[k] = worker[k]
           /\ UNCHANGED <<main, at, alloc_thnum, inquiry_user, gone, reqs, clock, overrun>>
<1>1. /\ thread' = [thread EXCEPT ![i].read_ptr = @ + 1]
      /\ worker[i].pc = "advance" /\ worker' = [worker EXCEPT ![i] = Idle]
      /\ UNCHANGED <<main, at, alloc_thnum, inquiry_user, gone, reqs, clock, overrun>>
  BY DEF Advance, search
<1>2. Idle \in WorkerRec /\ Idle.pc = "idle"
  BY ConstantFacts DEF Idle, WorkerRec, WorkerPcs
<1>3. /\ worker' \in [Threads -> WorkerRec] /\ worker'[i] = Idle
      /\ \A k \in Threads \ {i} : worker'[k] = worker[k]
  BY <1>1, <1>2, FrontFacts
<1>4. /\ thread' \in [Threads -> ThreadRec]
      /\ \A k \in Threads :
            /\ thread'[k].read_ptr = thread[k].read_ptr + (IF k = i THEN 1 ELSE 0)
            /\ thread'[k].write_ptr = thread[k].write_ptr
            /\ thread'[k].q = thread[k].q
  BY <1>1, FrontFacts, AdvanceFacts
<1> QED
  BY <1>1, <1>2, <1>3, <1>4

\* None of the three touches what a request or its client is known by.
LEMMA ReleaseOwner ==
    ASSUME TypeOK, OwnerInv, NEW i \in Threads, Free(i) \/ Clear(i) \/ Advance(i)
    PROVE  TypeOK' /\ OwnerInv'
<1>1. /\ thread' \in [Threads -> ThreadRec] /\ worker' \in [Threads -> WorkerRec]
      /\ UNCHANGED <<main, at, alloc_thnum, inquiry_user, gone, reqs, clock, overrun>>
  BY FreeFacts, ClearFacts, AdvanceStepFacts
<1>2. TypeOK'
  BY <1>1, TypeParts, TypePartsNext
<1>3. ClientThere'
  BY <1>1, SameRequests
<1>4. Control'
  BY <1>1 DEF OwnerInv, Control, Allocating, Request
<1>5. WorkerKnown'
  <2>1. \A k \in Threads : worker'[k].pc # "idle" =>
           worker[k].pc # "idle" /\ worker'[k].rcvbuf = worker[k].rcvbuf
    BY FreeFacts, ClearFacts, AdvanceStepFacts
  <2> QED
    BY <1>1, <2>1 DEF OwnerInv, WorkerKnown
<1>6. SlotKnown'
  <2> SUFFICES ASSUME NEW k \in Threads, NEW t \in Slots, thread'[k].q[t].rcvbuf # 0
               PROVE  thread'[k].q[t].rcvbuf = thread[k].q[t].rcvbuf
    BY <1>1 DEF OwnerInv, SlotKnown
  <2>1. CASE Free(i)
    BY <2>1, FreeFacts
  <2>2. CASE Clear(i)
    BY <2>2, ClearFacts
  <2>3. CASE Advance(i)
    BY <2>3, AdvanceStepFacts
  <2> QED
    BY <2>1, <2>2, <2>3
<1> QED
  BY <1>2, <1>3, <1>4, <1>5, <1>6 DEF OwnerInv

\* So types hold, and what is known of slots and workers, also when a full ring
\* was written.
LEMMA OwnerStep ==
    ASSUME TypeOK, OwnerInv, [Next]_vars
    PROVE  TypeOK' /\ OwnerInv'
<1>1. CASE InitServer
  <2>1. TypeOK'
    BY <1>1, TypeParts, TypePartsNext DEF InitServer
  <2> QED
    BY <1>1, <2>1 DEF InitServer, OwnerInv, Control, Allocating, Request, SlotKnown,
                      WorkerKnown, ClientThere
<1>2. CASE Stop \/ SearchFaults \/ \E i \in Threads : TakeFaults(i)
  BY <1>2, StopInv DEF SearchFaults, TakeFaults, IInv
<1>3. CASE \/ \E c \in Fds : AcceptUser(c)
           \/ \E u \in Users : RemoveUser(u)
           \/ \E u \in Users, g \in Groups : ReceiveRequest(u, g)
  BY <1>3, AcceptUserOwner, RemoveUserOwner, ReceiveRequestOwner
<1>4. CASE Search \/ NextRing \/ Pick \/ SearchFreed \/ Refuse \/ Enqueue
  BY <1>4, SearchOwner, SearchFreedOwner, RefuseOwner, WritingOwner, PublishOwner
     DEF Enqueue, Writing
<1>5. ASSUME NEW i \in Threads,
             Take(i) \/ Dispatch(i) \/ Answer(i) \/ Free(i) \/ Clear(i) \/ Advance(i)
      PROVE  TypeOK' /\ OwnerInv'
  BY <1>5, TakeOwner, AnswerOwner, ReleaseOwner
<1>6. CASE UNCHANGED vars
  <2>1. TypeOK'
    BY <1>6, TypeParts, TypePartsNext DEF vars
  <2> QED
    BY <1>6, <2>1 DEF vars, OwnerInv, Control, Allocating, Request, SlotKnown,
                      WorkerKnown, ClientThere
<1> QED
  BY <1>1, <1>2, <1>3, <1>4, <1>5, <1>6 DEF Next, AllocateThread, Worker
----------------------------------------------------------------------------
(* The entries of a ring *)

LEMMA RingEntry ==
    ASSUME TypeOK, NEW i \in Threads, NEW j \in Ring(i)
    PROVE  /\ thread[i].read_ptr \in Nat /\ thread[i].write_ptr \in Nat
           /\ j \in Nat /\ thread[i].read_ptr <= j /\ j < thread[i].write_ptr
           /\ Index(j) \in Slots /\ Slot(i, j) = thread[i].q[Index(j)]
           /\ Slot(i, j) \in SlotType /\ Slot(i, j).rcvbuf \in Nat
<1>1. thread \in [Threads -> ThreadRec] /\ thread[i].read_ptr \in Nat /\ thread[i].write_ptr \in Nat
  BY FrontFacts
<1>2. j \in Nat /\ thread[i].read_ptr <= j /\ j < thread[i].write_ptr
  BY <1>1 DEF Ring
<1>3. Index(j) \in Slots /\ Slot(i, j) = thread[i].q[Index(j)]
  BY <1>2, IndexIsSlot DEF Slot
<1>4. Slot(i, j) \in SlotType
  BY <1>1, <1>3, SlotFacts
<1> QED
  BY <1>1, <1>2, <1>3, <1>4, SlotTypeFacts

\* Entries that are less than a ring apart are in different slots.
LEMMA IndexApart ==
    ASSUME NEW j \in Nat, NEW l \in Nat, j # l,
           j - l < MAX_THREAD_QUE_SIZE, l - j < MAX_THREAD_QUE_SIZE
    PROVE  Index(j) # Index(l)
<1>1. MAX_THREAD_QUE_SIZE \in Nat \ {0}
  BY ConstantFacts
<1>2. j < l + MAX_THREAD_QUE_SIZE /\ l < j + MAX_THREAD_QUE_SIZE
  BY <1>1
<1>3. j % MAX_THREAD_QUE_SIZE # l % MAX_THREAD_QUE_SIZE
  <2>1. CASE j < l
    BY <1>1, <1>2, <2>1, DifferentRemainders
  <2>2. CASE l < j
    BY <1>1, <1>2, <2>2, DifferentRemainders
  <2> QED
    BY <2>1, <2>2
<1> QED
  BY <1>3 DEF Index

LEMMA EntriesApart ==
    ASSUME TypeOK, SizeKept, NEW i \in Threads, NEW j \in Ring(i), NEW l \in Ring(i), j # l
    PROVE  Index(j) # Index(l)
<1>1. /\ thread[i].write_ptr - thread[i].read_ptr <= MAX_THREAD_QUE_SIZE
      /\ MAX_THREAD_QUE_SIZE \in Nat
  BY ConstantFacts DEF SizeKept, Entries
<1>2. j \in Nat /\ thread[i].read_ptr <= j /\ j < thread[i].write_ptr
  BY RingEntry
<1>3. l \in Nat /\ thread[i].read_ptr <= l /\ l < thread[i].write_ptr
  BY RingEntry
<1>4. j - l < MAX_THREAD_QUE_SIZE /\ l - j < MAX_THREAD_QUE_SIZE
  BY <1>1, <1>2, <1>3, RingEntry
<1> QED
  BY <1>2, <1>3, <1>4, IndexApart

\* The head of a busy ring is its first entry.
LEMMA HeadEntry ==
    ASSUME TypeOK, NEW i \in Threads, Busy(i)
    PROVE  thread[i].read_ptr \in Ring(i) /\ Front(i) = Slot(i, thread[i].read_ptr)
BY FrontFacts DEF Ring, Busy, Front

LEMMA ReadableEntry ==
    ASSUME TypeOK, EntryState, NEW i \in Threads, NEW j \in Ring(i), Readable(i, j)
    PROVE  /\ Slot(i, j).rcvbuf \in DOMAIN reqs
           /\ Stage(i, j) \notin Cleared
           /\ reqs[Slot(i, j).rcvbuf].state \in {"queued", "done"}
<1>1. Stage(i, j) \notin Cleared
  BY DEF EntryState, EntryOK, Readable
<1> QED
  BY <1>1 DEF EntryState, EntryOK

\* What an entry names is not the request that AllocateThread has.
LEMMA EntryIsOld ==
    ASSUME TypeOK, OwnerInv, NewState, EntryState, Allocating, NEW i \in Threads, NEW j \in Ring(i)
    PROVE  Slot(i, j).rcvbuf < Request
<1>1. reqs \in Seq(ReqRec) /\ DOMAIN reqs = 1 .. Len(reqs) /\ Len(reqs) \in Nat
  BY TypeParts, ReqFacts
<1>2. Request > 0 /\ reqs[Request].state = "new"
  BY DEF OwnerInv, Control, NewState
<1>3. CASE Stage(i, j) \in Cleared
  BY <1>1, <1>2, <1>3 DEF EntryState, EntryOK, Request
<1>4. CASE Stage(i, j) \notin Cleared
  <2>1. /\ Slot(i, j).rcvbuf \in DOMAIN reqs
        /\ reqs[Slot(i, j).rcvbuf].state \in {"queued", "done"}
    BY <1>4 DEF EntryState, EntryOK
  <2> QED
    BY <1>1, <1>2, <2>1 DEF Request
<1> QED
  BY <1>3, <1>4

----------------------------------------------------------------------------
(* The main thread's steps before it makes an entry *)

\* They leave the pointers, the entries and the workers alone.
SameEntries ==
    /\ worker' = worker
    /\ \A k \in Threads :
          /\ thread'[k].read_ptr = thread[k].read_ptr
          /\ thread'[k].write_ptr = thread[k].write_ptr
          /\ \A j \in Ring(k) : Slot(k, j)' = Slot(k, j)
    /\ \A r \in DOMAIN reqs :
          /\ r \in DOMAIN reqs' /\ reqs'[r].account_group = reqs[r].account_group
          /\ reqs'[r].user_offset = reqs[r].user_offset
          /\ reqs[r].state # "new" => reqs'[r].state = reqs[r].state
    /\ Queued' \subseteq Queued

LEMMA SameEntriesView ==
    ASSUME SameEntries, NEW k \in Threads
    PROVE  /\ Ring(k)' = Ring(k) /\ Entries(k)' = Entries(k) /\ Busy(k)' = Busy(k)
           /\ \A j \in Ring(k) : Slot(k, j)' = Slot(k, j) /\ Stage(k, j)' = Stage(k, j)
<1>1. Ring(k)' = Ring(k) /\ Entries(k)' = Entries(k) /\ Busy(k)' = Busy(k)
  BY DEF SameEntries, Ring, Entries, Busy
<1>2. \A j \in Ring(k) : Slot(k, j)' = Slot(k, j) /\ Stage(k, j)' = Stage(k, j)
  BY DEF SameEntries, Stage
<1> QED
  BY <1>1, <1>2

LEMMA SameEntriesStep ==
    ASSUME TypeOK, EntryInv, SameEntries
    PROVE  EntryInv'
<1>1. SizeKept'
  BY SameEntriesView DEF EntryInv, SizeKept
<1>2. WorkerAtFront'
  <2> SUFFICES ASSUME NEW k \in Threads, worker[k].pc # "idle"
               PROVE  Busy(k)' /\ (worker[k].pc \notin Cleared => Front(k)'.rcvbuf = worker[k].rcvbuf)
    BY DEF WorkerAtFront, SameEntries
  <2>1. Busy(k) /\ (worker[k].pc \notin Cleared => Front(k).rcvbuf = worker[k].rcvbuf)
    BY DEF EntryInv, WorkerAtFront
  <2>2. PICK j \in Ring(k) : j = thread[k].read_ptr /\ Front(k) = Slot(k, j)
    BY <2>1, HeadEntry
  <2>3. Front(k)' = Front(k)
    <3>1. Front(k)' = Slot(k, j)'
      BY <2>2 DEF SameEntries, Front, Slot
    <3> QED
      BY <2>2, <3>1, SameEntriesView
  <2> QED
    BY <2>1, <2>3, SameEntriesView
<1>3. EntryOrder' /\ OneEntry'
  <2>1. EntryOrder'
    BY SameEntriesView DEF EntryInv, EntryOrder
  <2>2. OneEntry'
    BY SameEntriesView DEF EntryInv, OneEntry
  <2> QED
    BY <2>1, <2>2
<1>4. EntryState'
  <2> SUFFICES ASSUME NEW i \in Threads, NEW j \in Ring(i)
               PROVE  EntryOK(i, j)'
    BY SameEntriesView DEF EntryState
  <2>1. Stage(i, j)' = Stage(i, j) /\ Slot(i, j)' = Slot(i, j)
    BY SameEntriesView
  <2>2. EntryOK(i, j)
    BY DEF EntryInv, EntryState
  <2>3. Slot(i, j).rcvbuf \in DOMAIN reqs =>
           /\ Slot(i, j).rcvbuf \in DOMAIN reqs'
           /\ reqs'[Slot(i, j).rcvbuf].user_offset = reqs[Slot(i, j).rcvbuf].user_offset
           /\ reqs[Slot(i, j).rcvbuf].state # "new" =>
                 reqs'[Slot(i, j).rcvbuf].state = reqs[Slot(i, j).rcvbuf].state
    BY DEF SameEntries
  <2> QED
    BY <2>1, <2>2, <2>3 DEF EntryOK
<1>5. QueuedInRing'
  <2> SUFFICES ASSUME NEW r \in Queued
               PROVE  \E k \in Threads : \E j \in Ring(k)' : Slot(k, j)'.rcvbuf = r
    BY DEF QueuedInRing, SameEntries
  <2>1. PICK k \in Threads : \E j \in Ring(k) : Slot(k, j).rcvbuf = r
    BY DEF EntryInv, QueuedInRing
  <2> QED
    BY <2>1, SameEntriesView
<1>6. GroupInOneRing'
  <2> SUFFICES ASSUME NEW i \in Threads, NEW k \in Threads, NEW j \in Ring(i), NEW l \in Ring(k),
                      Readable(i, j)', Readable(k, l)', Group(i, j)' = Group(k, l)'
               PROVE  i = k
    BY SameEntriesView DEF GroupInOneRing
  <2>1. Slot(i, j)' = Slot(i, j) /\ Slot(k, l)' = Slot(k, l)
    BY SameEntriesView
  <2>2. Readable(i, j) /\ Readable(k, l)
    BY <2>1 DEF Readable
  <2>3. Slot(i, j).rcvbuf \in DOMAIN reqs /\ Slot(k, l).rcvbuf \in DOMAIN reqs
    BY <2>2, ReadableEntry DEF EntryInv
  <2>4. Group(i, j)' = Group(i, j) /\ Group(k, l)' = Group(k, l)
    BY <2>1, <2>3 DEF SameEntries, Group
  <2> QED
    BY <2>2, <2>4 DEF EntryInv, GroupInOneRing
<1> QED
  BY <1>1, <1>2, <1>3, <1>4, <1>5, <1>6 DEF EntryInv

\* Before the slot of the new request is written there is nothing to know of it.
LEMMA NothingWritten ==
    ASSUME NewState', main' \in {"down", "wait", "search", "pick", "enqueue"}
    PROVE  NewEntry'
BY DEF NewEntry, NewSlotFree, NewSlotWritten

\* Connections come and go, the process starts, or nothing happens.
LEMMA QuietRing ==
    ASSUME TypeOK, RingInv, UNCHANGED <<thread, worker, reqs>>,
           UNCHANGED <<main, at, alloc_thnum>> \/ main' = "wait"
    PROVE  RingInv'
<1>1. EntryInv'
  BY SameEntriesStep DEF RingInv, SameEntries, Queued, Slot
<1>2. Searched'
  BY DEF RingInv, Searched, Ring, Readable, Group, Slot, Allocating, Chosen, Request
<1>3. PassedIsNull'
  BY DEF RingInv, PassedIsNull, Slot
<1>4. Counted'
  BY DEF RingInv, Counted, Allocating
<1>5. NewEntry'
  <2>1. CASE UNCHANGED <<main, at, alloc_thnum>>
    BY <2>1 DEF RingInv, NewEntry, NewState, NewSlotFree, NewSlotWritten, Allocating, Request,
                Entries, Slot
  <2>2. CASE main' = "wait"
    BY <2>2, NothingWritten DEF NewState, Allocating
  <2> QED
    BY <2>1, <2>2
<1> QED
  BY <1>1, <1>2, <1>3, <1>4, <1>5 DEF RingInv

LEMMA ReceiveRequestRing ==
    ASSUME TypeOK, OwnerInv, RingInv, NEW u \in Users, NEW g \in Groups, ReceiveRequest(u, g)
    PROVE  RingInv'
<1>1. /\ reqs \in Seq(ReqRec) /\ DOMAIN reqs = 1 .. Len(reqs) /\ Len(reqs) \in Nat
      /\ 0 \in Threads /\ thread[0].read_ptr \in Nat /\ thread[0].write_ptr \in Nat
  BY TypeParts, ReqFacts, ConstantFacts, FrontFacts
<1>2. DOMAIN reqs \subseteq DOMAIN reqs' /\ \A r \in DOMAIN reqs : reqs'[r] = reqs[r]
  BY <1>1, ReceiveFacts
<1>3. Queued' \subseteq Queued
  BY <1>1, ReceiveFacts DEF Queued
<1>4. /\ UNCHANGED <<thread, worker>> /\ Len(reqs') = Len(reqs) + 1
      /\ main' = "search" /\ at' = <<0, thread[0].read_ptr>>
  BY ReceiveFacts
<1>5. EntryInv'
  BY <1>2, <1>3, <1>4, SameEntriesStep DEF RingInv, SameEntries, Slot
<1>6. Searched'
  <2> SUFFICES ASSUME NEW i \in Threads, NEW j \in Ring(i)
               PROVE  i > 0 \/ (i = 0 /\ j >= thread[0].read_ptr)
    BY <1>4 DEF Searched, Ring, Chosen
  <2> QED
    BY RingEntry, ConstantFacts DEF Threads
<1>7. PassedIsNull'
  BY <1>1, <1>4 DEF RingInv, EntryInv, SizeKept, Entries, PassedIsNull
<1>8. Counted'
  BY <1>1, <1>4, FrontFacts DEF RingInv, Counted
<1>9. NewEntry'
  <2>1. reqs'[Len(reqs')].state = "new"
    BY <1>4, ReceiveFacts
  <2> QED
    BY <1>4, <2>1, NothingWritten DEF NewState, Request
<1> QED
  BY <1>5, <1>6, <1>7, <1>8, <1>9 DEF RingInv

LEMMA RefuseRing ==
    ASSUME TypeOK, OwnerInv, RingInv, Refuse
    PROVE  RingInv'
<1>1. reqs[Request].state = "new" /\ Request \in DOMAIN reqs
  BY RefuseFacts DEF RingInv, NewEntry, NewState, Allocating
<1>2. Queued' \subseteq Queued
  BY RefuseFacts DEF Queued
<1>3. EntryInv'
  BY <1>1, <1>2, RefuseFacts, SameEntriesStep DEF RingInv, SameEntries, Slot
<1>4. Searched' /\ PassedIsNull'
  BY RefuseFacts DEF Searched, PassedIsNull, Allocating
<1>5. Counted'
  BY RefuseFacts DEF RingInv, Counted, Allocating
<1>6. NewEntry'
  BY RefuseFacts, NothingWritten DEF NewState, Allocating
<1> QED
  BY <1>3, <1>4, <1>5, <1>6 DEF RingInv

\* An entry of the new request's group that can be read is still before the
\* search, or in the ring of the thread that was chosen.
LEMMA SearchedEntry ==
    ASSUME TypeOK, Searched, Allocating, NEW i \in Threads, NEW j \in Ring(i), Readable(i, j),
           Group(i, j) = reqs[Request].account_group
    PROVE  /\ main = "search" => i > at[1] \/ (i = at[1] /\ j >= at[2])
           /\ main # "pick"
           /\ Chosen => i = alloc_thnum
BY DEF Searched

\* The search leaves everything but the main thread's own place alone.
LEMMA SearchSame ==
    ASSUME TypeOK, OwnerInv, RingInv, Search \/ NextRing \/ Pick
    PROVE  /\ EntryInv' /\ Counted' /\ NewEntry' /\ Allocating
           /\ main \in {"search", "pick"}
<1>1. /\ UNCHANGED <<thread, worker, reqs>>
      /\ main \in {"search", "pick"} /\ main' \in {"search", "pick", "enqueue"}
  BY SearchFacts
<1>2. EntryInv'
  BY <1>1, SameEntriesStep DEF RingInv, SameEntries, Queued, Slot
<1>3. Allocating /\ Allocating'
  BY <1>1 DEF Allocating
<1>4. Counted'
  BY <1>1, <1>3 DEF RingInv, Counted
<1>5. NewState'
  BY <1>1, <1>3 DEF RingInv, NewEntry, NewState, Request
<1> QED
  BY <1>1, <1>2, <1>3, <1>4, <1>5, NothingWritten

LEMMA SearchRing ==
    ASSUME TypeOK, OwnerInv, RingInv, Search
    PROVE  RingInv'
<1> DEFINE i == at[1]
           j == at[2]
<1>0. /\ UNCHANGED <<thread, worker, inquiry_user, gone, reqs, clock, overrun>>
      /\ main = "search" /\ i \in Threads /\ j \in Nat /\ j < thread[i].write_ptr
      /\ Readable(i, j) /\ IF Matches(i, j) THEN Found(i) ELSE LookNext(i, j)
      /\ Allocating
  BY TypeParts DEF Search, OwnerInv, Control, Readable, Allocating
<1>1. EntryInv' /\ Counted' /\ NewEntry'
  BY SearchSame
<1>2. thread[i].read_ptr \in Nat /\ thread[i].write_ptr \in Nat
  BY <1>0, FrontFacts
<1>3. j \in Ring(i)
  <2>1. ~(j < thread[i].read_ptr)
    BY <1>0, <1>2 DEF RingInv, PassedIsNull, Readable
  <2> QED
    BY <1>0, <1>2, <2>1 DEF Ring
<1>4. CASE Matches(i, j)
  <2>1. alloc_thnum' = i /\ main' = "enqueue" /\ UNCHANGED at
    BY <1>0, <1>4 DEF Found
  <2>2. Group(i, j) = reqs[Request].account_group
    BY <1>4 DEF Matches, Group
  <2>3. Searched'
    <3> SUFFICES ASSUME NEW k \in Threads, NEW l \in Ring(k), Readable(k, l),
                        Group(k, l) = reqs[Request].account_group
                 PROVE  k = i
      BY <1>0, <2>1 DEF Searched, Ring, Readable, Group, Slot, Chosen, Request
    <3> HIDE DEF i, j
    <3> QED
      BY <1>0, <1>3, <2>2 DEF RingInv, EntryInv, GroupInOneRing
  <2>4. PassedIsNull'
    BY <2>1 DEF PassedIsNull
  <2> QED
    BY <1>1, <2>3, <2>4 DEF RingInv
<1>5. CASE ~Matches(i, j)
  <2>1. at' = <<i, j + 1>> /\ UNCHANGED <<main, alloc_thnum>>
    BY <1>0, <1>5 DEF LookNext
  <2>2. Searched'
    <3> SUFFICES ASSUME NEW k \in Threads, NEW l \in Ring(k), Readable(k, l),
                        Group(k, l) = reqs[Request].account_group
                 PROVE  k > i \/ (k = i /\ l >= j + 1)
      BY <1>0, <2>1 DEF Searched, Ring, Readable, Group, Slot, Chosen, Request
    <3>1. k > i \/ (k = i /\ l >= j)
      BY <1>0, SearchedEntry DEF RingInv
    <3>2. ~(k = i /\ l = j)
      BY <1>5 DEF Matches, Group
    <3> QED
      BY <1>0, <3>1, <3>2, RingEntry
  <2>3. PassedIsNull'
    <3>1. at'[1] = i /\ at'[2] = j + 1 /\ thread' = thread
      BY <1>0, <2>1
    <3>2. /\ thread[i].write_ptr - j <= MAX_THREAD_QUE_SIZE
          /\ \A l \in j .. thread[i].read_ptr - 1 : Slot(i, l).memory = "null"
      BY <1>0 DEF RingInv, PassedIsNull
    <3> HIDE DEF i, j
    <3>3. thread[i].write_ptr - (j + 1) <= MAX_THREAD_QUE_SIZE
      BY <1>0, <1>2, <3>2, ConstantFacts
    <3>4. \A l \in j + 1 .. thread[i].read_ptr - 1 : Slot(i, l).memory = "null"
      BY <1>0, <1>2, <3>2
    <3> QED
      BY <3>1, <3>3, <3>4 DEF PassedIsNull, Slot
  <2> QED
    BY <1>1, <2>2, <2>3 DEF RingInv
<1> QED
  BY <1>4, <1>5

LEMMA NextRingRing ==
    ASSUME TypeOK, OwnerInv, RingInv, NextRing
    PROVE  RingInv'
<1> DEFINE i == at[1]
<1>0. /\ UNCHANGED <<thread, worker, inquiry_user, gone, reqs, clock, overrun>>
      /\ main = "search" /\ i \in Threads /\ at[2] >= thread[i].write_ptr
      /\ at[2] \in Nat /\ thread[i].read_ptr \in Nat /\ thread[i].write_ptr \in Nat /\ i \in Nat
      /\ Allocating
  BY TypeParts, FrontFacts, ConstantFacts DEF NextRing, OwnerInv, Control, Allocating
<1>1. EntryInv' /\ Counted' /\ NewEntry'
  BY SearchSame
<1>2. ASSUME NEW k \in Threads, NEW l \in Ring(k), Readable(k, l),
             Group(k, l) = reqs[Request].account_group
      PROVE  k >= i + 1
  <2>1. k > i \/ (k = i /\ l >= at[2])
    BY <1>0, <1>2, SearchedEntry DEF RingInv
  <2>2. l \in Nat /\ l < thread[k].write_ptr /\ k \in Nat
    BY RingEntry, ConstantFacts
  <2> QED
    BY <1>0, <2>1, <2>2
<1>3. CASE i + 1 \in Threads
  <2>1. at' = <<i + 1, thread[i + 1].read_ptr>> /\ UNCHANGED <<main, alloc_thnum>>
    BY <1>3 DEF NextRing
  <2>2. Searched'
    <3> SUFFICES ASSUME NEW k \in Threads, NEW l \in Ring(k), Readable(k, l),
                        Group(k, l) = reqs[Request].account_group
                 PROVE  k > i + 1 \/ (k = i + 1 /\ l >= thread[i + 1].read_ptr)
      BY <1>0, <2>1 DEF Searched, Ring, Readable, Group, Slot, Chosen, Request
    <3>1. k >= i + 1 /\ k \in Nat
      BY <1>2, ConstantFacts
    <3> QED
      BY <1>0, <3>1, RingEntry
  <2>3. PassedIsNull'
    <3>1. thread[i + 1].read_ptr \in Nat /\ thread[i + 1].write_ptr \in Nat
      BY <1>3, FrontFacts
    <3>2. thread[i + 1].write_ptr - thread[i + 1].read_ptr <= MAX_THREAD_QUE_SIZE
      BY <1>3, ConstantFacts DEF RingInv, EntryInv, SizeKept, Entries
    <3> QED
      BY <1>0, <2>1, <3>1, <3>2 DEF PassedIsNull
  <2> QED
    BY <1>1, <2>2, <2>3 DEF RingInv
<1>4. CASE i + 1 \notin Threads
  <2>1. main' = "pick"
    BY <1>4 DEF NextRing
  <2>2. Searched'
    <3> SUFFICES ASSUME NEW k \in Threads, NEW l \in Ring(k), Readable(k, l),
                        Group(k, l) = reqs[Request].account_group
                 PROVE  FALSE
      BY <1>0, <2>1 DEF Searched, Ring, Readable, Group, Slot, Request
    <3>1. k >= i + 1 /\ k \in Nat
      BY <1>2, ConstantFacts
    <3> QED
      BY <1>0, <1>4, <3>1, ConstantFacts DEF Threads
  <2>3. PassedIsNull'
    BY <2>1 DEF PassedIsNull
  <2> QED
    BY <1>1, <2>2, <2>3 DEF RingInv
<1> QED
  BY <1>3, <1>4

LEMMA PickRing ==
    ASSUME TypeOK, OwnerInv, RingInv, Pick
    PROVE  RingInv'
<1>1. /\ UNCHANGED <<thread, worker, inquiry_user, gone, reqs, clock, overrun>>
      /\ main = "pick" /\ main' \in {"pick", "enqueue"}
  BY DEF Pick
<1>2. EntryInv' /\ Counted' /\ NewEntry'
  BY SearchSame
<1>3. Searched'
  <2> SUFFICES ASSUME NEW k \in Threads, NEW l \in Ring(k), Readable(k, l),
                      Group(k, l) = reqs[Request].account_group
               PROVE  FALSE
    BY <1>1 DEF Searched, Ring, Readable, Group, Slot, Request
  <2> QED
    BY <1>1, SearchedEntry DEF RingInv, Allocating
<1>4. PassedIsNull'
  BY <1>1 DEF PassedIsNull
<1> QED
  BY <1>2, <1>3, <1>4 DEF RingInv

\* The slot that is written is behind the entries.
LEMMA WritingRing ==
    ASSUME TypeOK, OwnerInv, RingInv, Writing, ~overrun'
    PROVE  RingInv'
<1>0. PICK i \in Threads : i = alloc_thnum
  BY WritingFacts
<1>1. PICK w \in Nat : w = thread[i].write_ptr
  BY FrontFacts
<1> DEFINE s == Index(w)
<1>2. /\ s \in Slots /\ s = NewSlot(i) /\ Request \in DOMAIN reqs
      /\ \A k \in Threads :
            /\ thread'[k].read_ptr = thread[k].read_ptr
            /\ thread'[k].write_ptr = thread[k].write_ptr
            /\ \A t \in Slots : ~(k = i /\ t = s) => thread'[k].q[t] = thread[k].q[t]
      /\ UNCHANGED <<alloc_thnum, worker, reqs>>
  BY <1>0, <1>1, WritingFacts
<1>3. /\ main \in {"enqueue", "rcvbuf", "time"} /\ main' \in {"rcvbuf", "time", "publish"}
      /\ Allocating /\ Chosen
  BY DEF Writing, WriteUserOffset, WriteRcvbuf, WriteTime, Allocating, Chosen
<1>4. /\ thread[i].read_ptr \in Nat /\ MAX_THREAD_QUE_SIZE \in Nat
      /\ Entries(i) \in 0 .. MAX_THREAD_QUE_SIZE
  BY FrontFacts, ConstantFacts DEF RingInv, EntryInv, SizeKept
<1>5. Entries(i) < MAX_THREAD_QUE_SIZE
  <2>1. CASE main \in {"rcvbuf", "time"}
    BY <1>0, <2>1 DEF RingInv, NewEntry, NewSlotFree
  <2>2. CASE main = "enqueue"
    <3>1. Entries(i) # MAX_THREAD_QUE_SIZE
      BY <1>0, <2>2 DEF Writing, WriteUserOffset, WriteRcvbuf, WriteTime
    <3> QED
      BY <1>4, <3>1
  <2> QED
    BY <1>3, <2>1, <2>2
<1>6. ASSUME NEW k \in Threads, NEW j \in Ring(k)
      PROVE  Slot(k, j)' = Slot(k, j)
  <2>1. Index(j) \in Slots /\ j \in Nat /\ thread[k].read_ptr <= j /\ j < thread[k].write_ptr
    BY RingEntry
  <2>2. ~(k = i /\ Index(j) = s)
    <3>1. CASE k # i
      BY <3>1
    <3>2. CASE k = i
      <4>1. j # w /\ j - w < MAX_THREAD_QUE_SIZE /\ w - j < MAX_THREAD_QUE_SIZE
        BY <1>1, <1>4, <1>5, <2>1, <3>2 DEF Entries
      <4> QED
        BY <2>1, <4>1, IndexApart
    <3> QED
      BY <3>1, <3>2
  <2> QED
    BY <1>2, <2>1, <2>2 DEF Slot
<1>7. SameEntries
  BY <1>2, <1>6 DEF SameEntries, Queued
<1>8. EntryInv'
  BY <1>7, SameEntriesStep DEF RingInv
<1>9. Searched'
  <2> SUFFICES ASSUME NEW k \in Threads, NEW l \in Ring(k), Readable(k, l)',
                      Group(k, l)' = reqs[Request].account_group
               PROVE  k = i
    BY <1>0, <1>2, <1>3, <1>7, SameEntriesView DEF Searched, Request
  <2>1. Readable(k, l) /\ Group(k, l) = reqs[Request].account_group
    BY <1>2, <1>6 DEF Readable, Group
  <2> QED
    BY <1>0, <1>3, <2>1, SearchedEntry DEF RingInv
<1>10. PassedIsNull' /\ Counted'
  BY <1>2, <1>3 DEF PassedIsNull, RingInv, Counted, Allocating
<1>11. NewState' /\ NewSlotFree'
  <2>1. NewState'
    BY <1>2, <1>3 DEF RingInv, NewEntry, NewState, Request
  <2>2. Entries(i)' = Entries(i)
    BY <1>7, SameEntriesView
  <2> QED
    BY <1>0, <1>2, <1>5, <2>1, <2>2 DEF NewSlotFree
<1>12. NewSlotWritten'
  <2> DEFINE e == thread[i].q[s]
             f == thread'[i].q[s]
  <2>1. Slot(i, w) = e /\ Slot(alloc_thnum, thread[alloc_thnum].write_ptr)' = f
    BY <1>0, <1>1, <1>2 DEF Slot
  <2>2. /\ main \in {"rcvbuf", "time"} => e.user_offset = reqs[Request].user_offset
        /\ main = "time" => e.memory = "live" /\ e.rcvbuf = Request
    BY <1>0, <1>1, <2>1 DEF RingInv, NewEntry, NewSlotWritten
  <2>3. f.user_offset = reqs[Request].user_offset
    <3>1. CASE WriteUserOffset
      BY <1>0, <1>2, <3>1, WritingFacts
    <3>2. CASE WriteRcvbuf \/ WriteTime
      <4>1. f.user_offset = e.user_offset
        BY <1>0, <1>2, <3>2, WritingFacts
      <4>2. main \in {"rcvbuf", "time"}
        BY <3>2 DEF WriteRcvbuf, WriteTime
      <4> QED
        BY <2>2, <4>1, <4>2
    <3> QED
      BY <3>1, <3>2 DEF Writing
  <2>4. main' \in {"time", "publish"} => f.memory = "live" /\ f.rcvbuf = Request
    <3>1. CASE WriteUserOffset
      BY <3>1 DEF WriteUserOffset
    <3>2. CASE WriteRcvbuf
      BY <1>0, <1>2, <3>2, WritingFacts
    <3>3. CASE WriteTime
      <4>1. f.memory = e.memory /\ f.rcvbuf = e.rcvbuf
        BY <1>0, <1>2, <3>3, WritingFacts
      <4>2. main = "time"
        BY <3>3 DEF WriteTime
      <4> QED
        BY <2>2, <4>1, <4>2
    <3> QED
      BY <3>1, <3>2, <3>3 DEF Writing
  <2> HIDE DEF e, f
  <2> QED
    BY <1>2, <2>1, <2>3, <2>4 DEF NewSlotWritten, Request
<1> QED
  BY <1>8, <1>9, <1>10, <1>11, <1>12 DEF RingInv, NewEntry

----------------------------------------------------------------------------
(* The steps that change the head of one ring and what it names *)

HeadStep(i) ==
    /\ Busy(i)
    /\ \A k \in Threads :
          /\ thread'[k].read_ptr = thread[k].read_ptr
          /\ thread'[k].write_ptr = thread[k].write_ptr
          /\ k # i => worker'[k] = worker[k]
          /\ \A t \in Slots : ~(k = i /\ t = Index(thread[i].read_ptr))
                                => thread'[k].q[t] = thread[k].q[t]
          /\ \A j \in Ring(k) : k # i \/ j # thread[i].read_ptr => Slot(k, j)' = Slot(k, j)
    /\ Front(i)'.rcvbuf \in {Front(i).rcvbuf, 0}
    /\ Front(i)'.memory \in {"live", "freed"} =>
          Front(i).memory \in {"live", "freed"} /\ Front(i)'.rcvbuf = Front(i).rcvbuf
    /\ DOMAIN reqs' = DOMAIN reqs
    /\ \A r \in DOMAIN reqs :
          /\ reqs'[r].account_group = reqs[r].account_group
          /\ reqs'[r].user_offset = reqs[r].user_offset
          /\ r # Front(i).rcvbuf => reqs'[r].state = reqs[r].state

\* No other entry names the request at the head.
LEMMA HeadAlone ==
    ASSUME TypeOK, EntryInv, NEW i \in Threads, Busy(i), NEW k \in Threads, NEW j \in Ring(k),
           k # i \/ j # thread[i].read_ptr, Slot(k, j).rcvbuf # 0
    PROVE  Slot(k, j).rcvbuf # Front(i).rcvbuf
<1>1. /\ thread[i].read_ptr \in Ring(i) /\ Front(i) = Slot(i, thread[i].read_ptr)
      /\ Front(i).rcvbuf \in Nat
  BY HeadEntry, RingEntry
<1>2. CASE k = i
  <2>1. thread[i].read_ptr < j
    <3>1. j \in Ring(i) /\ j # thread[i].read_ptr
      BY <1>2
    <3>2. thread[i].read_ptr \in Nat /\ j \in Nat /\ thread[i].read_ptr <= j
      BY <3>1, RingEntry
    <3> QED
      BY <3>1, <3>2
  <2>2. Slot(i, thread[i].read_ptr).rcvbuf < Slot(i, j).rcvbuf
    BY <1>1, <1>2, <2>1 DEF EntryInv, EntryOrder
  <2>3. Slot(i, j).rcvbuf \in Nat
    BY <1>2, RingEntry
  <2> QED
    BY <1>1, <1>2, <2>2, <2>3
<1>3. CASE k # i
  BY <1>1, <1>3 DEF EntryInv, OneEntry
<1> QED
  BY <1>2, <1>3

LEMMA HeadStepView ==
    ASSUME TypeOK, NEW i \in Threads, HeadStep(i), NEW k \in Threads
    PROVE  /\ Ring(k)' = Ring(k)
           /\ \A j \in Ring(k) :
                 /\ Slot(k, j)'.rcvbuf \in {Slot(k, j).rcvbuf, 0}
                 /\ k # i \/ j # thread[i].read_ptr =>
                       Slot(k, j)' = Slot(k, j) /\ Stage(k, j)' = Stage(k, j)
                 /\ Readable(k, j)' => Readable(k, j) /\ Slot(k, j)'.rcvbuf = Slot(k, j).rcvbuf
<1>1. Ring(k)' = Ring(k)
  BY DEF HeadStep, Ring
<1>2. ASSUME NEW j \in Ring(k), k # i \/ j # thread[i].read_ptr
      PROVE  Slot(k, j)' = Slot(k, j) /\ Stage(k, j)' = Stage(k, j)
  BY <1>2 DEF HeadStep, Stage
<1>3. ASSUME NEW j \in Ring(k), k = i, j = thread[i].read_ptr
      PROVE  /\ Slot(k, j)'.rcvbuf \in {Slot(k, j).rcvbuf, 0}
             /\ Readable(k, j)' => Readable(k, j) /\ Slot(k, j)'.rcvbuf = Slot(k, j).rcvbuf
  <2>1. Slot(k, j)' = Front(i)' /\ Slot(k, j) = Front(i)
    BY <1>3 DEF HeadStep, Front, Slot
  <2> QED
    BY <2>1 DEF HeadStep, Readable
<1>4. ASSUME NEW j \in Ring(k)
      PROVE  /\ Slot(k, j)'.rcvbuf \in {Slot(k, j).rcvbuf, 0}
             /\ Readable(k, j)' => Readable(k, j) /\ Slot(k, j)'.rcvbuf = Slot(k, j).rcvbuf
  <2>1. CASE k = i /\ j = thread[i].read_ptr
    BY <1>3, <2>1
  <2>2. CASE k # i \/ j # thread[i].read_ptr
    BY <1>2, <2>2 DEF Readable
  <2> QED
    BY <2>1, <2>2
<1> QED
  BY <1>1, <1>2, <1>4

\* What is left to show of a step is how it treats the head.
LEMMA HeadStepEntries ==
    ASSUME TypeOK, EntryInv, NEW i \in Threads, HeadStep(i),
           \A j \in Ring(i) : j = thread[i].read_ptr => EntryOK(i, j)',
           WorkerAtFront', Queued' \subseteq Queued,
           Front(i).rcvbuf \in Queued' => Front(i)'.rcvbuf = Front(i).rcvbuf
    PROVE  EntryInv'
<1>1. SizeKept'
  BY DEF EntryInv, SizeKept, Entries, HeadStep
<1>2. EntryState'
  <2> SUFFICES ASSUME NEW k \in Threads, NEW j \in Ring(k)
               PROVE  EntryOK(k, j)'
    BY HeadStepView DEF EntryState
  <2>1. CASE k = i /\ j = thread[i].read_ptr
    BY <2>1
  <2>2. CASE k # i \/ j # thread[i].read_ptr
    <3>1. EntryOK(k, j)
      BY DEF EntryInv, EntryState
    <3>2. Slot(k, j)' = Slot(k, j) /\ Stage(k, j)' = Stage(k, j)
      BY <2>2, HeadStepView
    <3>3. Slot(k, j).rcvbuf \in DOMAIN reqs =>
             /\ Slot(k, j).rcvbuf \in DOMAIN reqs'
             /\ reqs'[Slot(k, j).rcvbuf].user_offset = reqs[Slot(k, j).rcvbuf].user_offset
             /\ reqs'[Slot(k, j).rcvbuf].state = reqs[Slot(k, j).rcvbuf].state
      <4>1. 0 \notin DOMAIN reqs
        BY TypeParts, ReqFacts
      <4>2. Slot(k, j).rcvbuf \in DOMAIN reqs => Slot(k, j).rcvbuf # Front(i).rcvbuf
        BY <2>2, <4>1, HeadAlone DEF HeadStep
      <4> QED
        BY <4>2 DEF HeadStep
    <3> QED
      BY <3>1, <3>2, <3>3 DEF EntryOK
  <2> QED
    BY <2>1, <2>2
<1>3. EntryOrder'
  <2> SUFFICES ASSUME NEW k \in Threads, NEW j \in Ring(k), NEW l \in Ring(k), j < l
               PROVE  Slot(k, j)'.rcvbuf < Slot(k, l)'.rcvbuf
    BY HeadStepView DEF EntryOrder
  <2>1. Slot(k, j).rcvbuf < Slot(k, l).rcvbuf
    BY DEF EntryInv, EntryOrder
  <2>2. Slot(k, j).rcvbuf \in Nat /\ Slot(k, l).rcvbuf \in Nat
    BY RingEntry
  <2>3. Slot(k, l)' = Slot(k, l)
    <3>1. k # i \/ l # thread[i].read_ptr
      BY RingEntry
    <3> QED
      BY <3>1, HeadStepView
  <2> QED
    BY <2>1, <2>2, <2>3, HeadStepView
<1>4. OneEntry'
  <2> SUFFICES ASSUME NEW k \in Threads, NEW m \in Threads, NEW j \in Ring(k), NEW l \in Ring(m),
                      Slot(k, j)'.rcvbuf = Slot(m, l)'.rcvbuf, Slot(k, j)'.rcvbuf # 0
               PROVE  k = m
    BY HeadStepView DEF OneEntry
  <2>1. Slot(k, j)'.rcvbuf = Slot(k, j).rcvbuf /\ Slot(m, l)'.rcvbuf = Slot(m, l).rcvbuf
    BY HeadStepView
  <2> QED
    BY <2>1 DEF EntryInv, OneEntry
<1>5. QueuedInRing'
  <2> SUFFICES ASSUME NEW r \in Queued'
               PROVE  \E k \in Threads : \E j \in Ring(k) : Slot(k, j)'.rcvbuf = r
    BY HeadStepView DEF QueuedInRing
  <2>0. PICK k \in Threads : \E j \in Ring(k) : Slot(k, j).rcvbuf = r
    BY DEF EntryInv, QueuedInRing
  <2>1. PICK j \in Ring(k) : Slot(k, j).rcvbuf = r
    BY <2>0
  <2>2. Slot(k, j)'.rcvbuf = r
    <3>1. CASE k = i /\ j = thread[i].read_ptr
      <4>1. Slot(k, j)' = Front(i)' /\ Slot(k, j) = Front(i)
        BY <3>1 DEF HeadStep, Front, Slot
      <4> QED
        BY <2>1, <4>1
    <3>2. CASE k # i \/ j # thread[i].read_ptr
      BY <2>1, <3>2, HeadStepView
    <3> QED
      BY <3>1, <3>2
  <2> QED
    BY <2>2
<1>6. GroupInOneRing'
  <2> SUFFICES ASSUME NEW k \in Threads, NEW m \in Threads, NEW j \in Ring(k), NEW l \in Ring(m),
                      Readable(k, j)', Readable(m, l)', Group(k, j)' = Group(m, l)'
               PROVE  k = m
    BY HeadStepView DEF GroupInOneRing
  <2>1. /\ Readable(k, j) /\ Slot(k, j)'.rcvbuf = Slot(k, j).rcvbuf
        /\ Readable(m, l) /\ Slot(m, l)'.rcvbuf = Slot(m, l).rcvbuf
    BY HeadStepView
  <2>2. Slot(k, j).rcvbuf \in DOMAIN reqs /\ Slot(m, l).rcvbuf \in DOMAIN reqs
    BY <2>1, ReadableEntry DEF EntryInv
  <2>3. Group(k, j)' = Group(k, j) /\ Group(m, l)' = Group(m, l)
    BY <2>1, <2>2 DEF HeadStep, Group
  <2> QED
    BY <2>1, <2>3 DEF EntryInv, GroupInOneRing
<1> QED
  BY <1>1, <1>2, <1>3, <1>4, <1>5, <1>6 DEF EntryInv

\* A head that can be read after the step could be read before.
LEMMA HeadStepSearched ==
    ASSUME TypeOK, EntryState, Searched, NEW i \in Threads, HeadStep(i),
           UNCHANGED <<main, alloc_thnum>>, Len(reqs') = Len(reqs),
           Allocating => Request \in DOMAIN reqs,
           \/ at' = at
           \/ at' = <<at[1], at[2] + 1>> /\ main = "search"
              /\ thread'[at[1]].q[Index(at[2])].memory \notin {"live", "freed"}
    PROVE  Searched'
<1> SUFFICES ASSUME NEW k \in Threads, NEW j \in Ring(k), Readable(k, j)', Allocating',
                    Group(k, j)' = (reqs[Request].account_group)'
             PROVE  (/\ main = "search" => k > at[1] \/ (k = at[1] /\ j >= at[2])
                     /\ main # "pick"
                     /\ Chosen => k = alloc_thnum)'
  BY HeadStepView DEF Searched, EntryInv
<1>1. Readable(k, j) /\ Slot(k, j)'.rcvbuf = Slot(k, j).rcvbuf
  BY HeadStepView
<1>2. Group(k, j) = reqs[Request].account_group /\ Allocating
  <2>1. Allocating /\ Request' = Request
    BY DEF Allocating, Request
  <2>2. Slot(k, j).rcvbuf \in DOMAIN reqs
    BY <1>1, ReadableEntry
  <2> QED
    BY <1>1, <2>1, <2>2 DEF Group, HeadStep
<1>3. /\ main = "search" => k > at[1] \/ (k = at[1] /\ j >= at[2])
      /\ main # "pick"
      /\ Chosen => k = alloc_thnum
  BY <1>1, <1>2, SearchedEntry
<1>4. CASE at' = at
  BY <1>3, <1>4 DEF Chosen
<1>5. CASE at' = <<at[1], at[2] + 1>> /\ main = "search"
              /\ thread'[at[1]].q[Index(at[2])].memory \notin {"live", "freed"}
  <2>1. ~(k = at[1] /\ j = at[2])
    BY <1>5 DEF Readable, Slot
  <2>2. j \in Nat /\ at[2] \in Nat
    BY RingEntry, TypeParts
  <2>3. k > at[1] \/ (k = at[1] /\ j >= at[2] + 1)
    BY <1>3, <1>5, <2>1, <2>2
  <2>4. main' = "search" /\ at'[1] = at[1] /\ at'[2] = at[2] + 1
    BY <1>5
  <2> QED
    BY <1>3, <2>3, <2>4 DEF Chosen
<1> QED
  BY <1>4, <1>5

\* The slot behind the ring of a busy worker is not the one at its head.
LEMMA HeadStepNewEntry ==
    ASSUME TypeOK, OwnerInv, EntryInv, NewEntry, NEW i \in Threads, HeadStep(i),
           UNCHANGED <<main, alloc_thnum>>, Len(reqs') = Len(reqs)
    PROVE  NewEntry'
<1>1. Request' = Request /\ Allocating' = Allocating
  BY DEF Request, Allocating
<1>2. Allocating => Request \in DOMAIN reqs
  BY TypeParts, ReqFacts DEF OwnerInv, Control, Request
<1>3. Allocating => reqs'[Request].user_offset = reqs[Request].user_offset
  BY <1>2 DEF HeadStep
<1>4. NewState'
  <2> SUFFICES ASSUME Allocating
               PROVE  reqs'[Request].state = "new"
    BY <1>1 DEF NewState
  <2>1. Slot(i, thread[i].read_ptr).rcvbuf < Request /\ Front(i) = Slot(i, thread[i].read_ptr)
    BY HeadEntry, EntryIsOld DEF NewEntry, EntryInv, HeadStep
  <2>2. Front(i).rcvbuf # Request
    BY <2>1, FrontFacts, SlotTypeFacts
  <2> QED
    BY <1>2, <2>2 DEF HeadStep, NewEntry, NewState
<1>5. PICK k \in Threads : k = alloc_thnum
  BY TypeParts
<1>6. thread'[k].read_ptr = thread[k].read_ptr /\ thread'[k].write_ptr = thread[k].write_ptr
  BY DEF HeadStep
<1>7. NewSlotFree'
  BY <1>5, <1>6 DEF NewEntry, NewSlotFree, Entries
<1>8. NewSlotWritten'
  <2> SUFFICES ASSUME main \in {"rcvbuf", "time", "publish"}
               PROVE  Slot(k, thread[k].write_ptr)' = Slot(k, thread[k].write_ptr)
    BY <1>1, <1>3, <1>5 DEF NewEntry, NewSlotWritten, Allocating
  <2>1. PICK w \in Nat : w = thread[k].write_ptr
    BY FrontFacts
  <2>2. Index(w) \in Slots
    BY IndexIsSlot
  <2>3. ~(k = i /\ Index(w) = Index(thread[i].read_ptr))
    <3>1. CASE k # i
      BY <3>1
    <3>2. CASE k = i
      <4>1. PICK f \in Nat : f = thread[i].read_ptr
        BY FrontFacts
      <4>2. f < w /\ w - f < MAX_THREAD_QUE_SIZE
        BY <1>5, <2>1, <3>2, <4>1 DEF HeadStep, Busy, NewEntry, NewSlotFree, Entries
      <4>3. f # w /\ f - w < MAX_THREAD_QUE_SIZE
        BY <4>2, ConstantFacts
      <4> QED
        BY <4>1, <4>2, <4>3, IndexApart
    <3> QED
      BY <3>1, <3>2
  <2>4. thread'[k].q[Index(w)] = thread[k].q[Index(w)]
    BY <2>2, <2>3 DEF HeadStep
  <2> QED
    BY <1>6, <2>1, <2>4 DEF Slot
<1> QED
  BY <1>4, <1>7, <1>8 DEF NewEntry

\* When only the slot at the head is written, the other entries stay.
LEMMA HeadSlotOnly ==
    ASSUME TypeOK, SizeKept, NEW i \in Threads, Busy(i),
           \A k \in Threads :
              /\ thread'[k].read_ptr = thread[k].read_ptr
              /\ \A t \in Slots : ~(k = i /\ t = Index(thread[i].read_ptr))
                                    => thread'[k].q[t] = thread[k].q[t]
    PROVE  /\ \A k \in Threads : \A j \in Ring(k) :
                 k # i \/ j # thread[i].read_ptr => Slot(k, j)' = Slot(k, j)
           /\ Front(i)' = thread'[i].q[Index(thread[i].read_ptr)]
<1>1. ASSUME NEW k \in Threads, NEW j \in Ring(k), k # i \/ j # thread[i].read_ptr
      PROVE  Slot(k, j)' = Slot(k, j)
  <2>1. Index(j) \in Slots
    BY RingEntry
  <2>2. ~(k = i /\ Index(j) = Index(thread[i].read_ptr))
    BY <1>1, HeadEntry, EntriesApart
  <2> QED
    BY <2>1, <2>2 DEF Slot
<1> QED
  BY <1>1 DEF Front, Slot

LEMMA TakeRing ==
    ASSUME TypeOK, OwnerInv, RingInv, NEW i \in Threads, Take(i) \/ Dispatch(i)
    PROVE  RingInv'
<1>1. /\ thread' = thread /\ reqs' = reqs /\ UNCHANGED <<main, at, alloc_thnum>>
      /\ \A k \in Threads \ {i} : worker'[k] = worker[k]
  BY TakeFacts, DispatchFacts
<1>2. /\ worker[i].pc \in {"idle", "dispatch"} /\ worker'[i].pc \in {"dispatch", "call"}
      /\ Busy(i) /\ worker'[i].rcvbuf = Front(i).rcvbuf
  <2>1. CASE Take(i)
    BY <2>1, TakeFacts
  <2>2. CASE Dispatch(i)
    <3>1. worker[i].pc = "dispatch" /\ worker'[i].pc = "call" /\ worker'[i].rcvbuf = worker[i].rcvbuf
      BY <2>2, DispatchFacts
    <3>2. Busy(i) /\ Front(i).rcvbuf = worker[i].rcvbuf
      BY <3>1 DEF RingInv, EntryInv, WorkerAtFront, Cleared
    <3> QED
      BY <3>1, <3>2
  <2> QED
    BY <2>1, <2>2
<1>3. HeadStep(i)
  BY <1>1, <1>2 DEF HeadStep, Slot, Front
<1>4. ASSUME NEW j \in Ring(i), j = thread[i].read_ptr
      PROVE  EntryOK(i, j)'
  <2>1. EntryOK(i, j)
    BY DEF RingInv, EntryInv, EntryState
  <2>2. /\ Stage(i, j) \in {"idle", "dispatch"} /\ Stage(i, j)' \in {"dispatch", "call"}
        /\ Slot(i, j)' = Slot(i, j)
    BY <1>1, <1>2, <1>4 DEF Stage, Slot
  <2> QED
    BY <1>1, <2>1, <2>2 DEF EntryOK, Cleared
<1>5. WorkerAtFront'
  BY <1>1, <1>2 DEF RingInv, EntryInv, WorkerAtFront, Busy, Front, Slot
<1>6. EntryInv'
  BY <1>1, <1>3, <1>4, <1>5, HeadStepEntries DEF RingInv, Queued, Front, Slot
<1>7. Searched'
  BY <1>1 DEF RingInv, Searched, Ring, Readable, Group, Slot, Allocating, Chosen, Request
<1>8. PassedIsNull' /\ Counted'
  BY <1>1 DEF RingInv, PassedIsNull, Counted, Slot, Allocating
<1>9. NewEntry'
  BY <1>1, <1>3, HeadStepNewEntry DEF RingInv
<1> QED
  BY <1>6, <1>7, <1>8, <1>9 DEF RingInv

LEMMA AnswerRing ==
    ASSUME TypeOK, OwnerInv, RingInv, NEW i \in Threads, Answer(i)
    PROVE  RingInv'
<1>1. /\ thread' = thread /\ UNCHANGED <<main, at, alloc_thnum>>
      /\ worker[i].pc = "call" /\ worker'[i].pc = "free" /\ worker'[i].rcvbuf = worker[i].rcvbuf
      /\ \A k \in Threads \ {i} : worker'[k] = worker[k]
      /\ DOMAIN reqs' = DOMAIN reqs /\ Len(reqs') = Len(reqs) /\ worker[i].rcvbuf \in DOMAIN reqs
      /\ \A r \in DOMAIN reqs :
            /\ reqs'[r].account_group = reqs[r].account_group
            /\ reqs'[r].user_offset = reqs[r].user_offset
            /\ reqs'[r].state = IF r = worker[i].rcvbuf THEN "done" ELSE reqs[r].state
  BY AnswerFacts
<1>2. Busy(i) /\ Front(i).rcvbuf = worker[i].rcvbuf
  BY <1>1 DEF RingInv, EntryInv, WorkerAtFront, Cleared
<1>3. HeadStep(i)
  BY <1>1, <1>2 DEF HeadStep, Slot, Front
<1>4. ASSUME NEW j \in Ring(i), j = thread[i].read_ptr
      PROVE  EntryOK(i, j)'
  <2>1. EntryOK(i, j)
    BY DEF RingInv, EntryInv, EntryState
  <2>2. Stage(i, j) = "call" /\ Stage(i, j)' = "free" /\ Slot(i, j)' = Slot(i, j)
    BY <1>1, <1>4 DEF Stage, Slot
  <2>3. Slot(i, j) = Front(i)
    BY <1>4 DEF Front
  <2> QED
    BY <1>1, <1>2, <2>1, <2>2, <2>3 DEF EntryOK, Cleared
<1>5. WorkerAtFront'
  BY <1>1, <1>2 DEF RingInv, EntryInv, WorkerAtFront, Busy, Front, Slot
<1>6. Queued' \subseteq Queued
  BY <1>1 DEF Queued
<1>7. EntryInv'
  BY <1>1, <1>3, <1>4, <1>5, <1>6, HeadStepEntries DEF RingInv, Front, Slot
<1>8. Searched'
  <2>1. Allocating => Request \in DOMAIN reqs
    BY TypeParts, ReqFacts DEF OwnerInv, Control, Request
  <2> QED
    BY <1>1, <1>3, <2>1, HeadStepSearched DEF RingInv, EntryInv
<1>9. PassedIsNull' /\ Counted'
  BY <1>1 DEF RingInv, PassedIsNull, Counted, Slot, Allocating
<1>10. NewEntry'
  BY <1>1, <1>3, HeadStepNewEntry DEF RingInv
<1> QED
  BY <1>7, <1>8, <1>9, <1>10 DEF RingInv

LEMMA FreeRing ==
    ASSUME TypeOK, OwnerInv, RingInv, NEW i \in Threads, Free(i)
    PROVE  RingInv'
<1> DEFINE s == Index(thread[i].read_ptr)
<1>1. /\ reqs' = reqs /\ UNCHANGED <<main, at, alloc_thnum>>
      /\ worker[i].pc = "free" /\ worker'[i].pc = "clear" /\ worker'[i].rcvbuf = worker[i].rcvbuf
      /\ \A k \in Threads \ {i} : worker'[k] = worker[k]
      /\ \A k \in Threads :
            /\ thread'[k].read_ptr = thread[k].read_ptr
            /\ thread'[k].write_ptr = thread[k].write_ptr
            /\ \A t \in Slots : ~(k = i /\ t = s) => thread'[k].q[t] = thread[k].q[t]
      /\ thread'[i].q[s].memory = "freed" /\ thread'[i].q[s].rcvbuf = thread[i].q[s].rcvbuf
      /\ thread'[i].q[s].user_offset = thread[i].q[s].user_offset
  BY FreeFacts
<1>2. Busy(i) /\ Front(i).rcvbuf = worker[i].rcvbuf
  BY <1>1 DEF RingInv, EntryInv, WorkerAtFront, Cleared
<1>3. /\ \A k \in Threads : \A j \in Ring(k) :
            k # i \/ j # thread[i].read_ptr => Slot(k, j)' = Slot(k, j)
      /\ Front(i)' = thread'[i].q[s]
  BY <1>1, <1>2, HeadSlotOnly DEF RingInv, EntryInv
<1>4. /\ Front(i)'.memory = "freed" /\ Front(i)'.rcvbuf = Front(i).rcvbuf
      /\ Front(i)'.user_offset = Front(i).user_offset
  BY <1>1, <1>3, FrontFacts
<1>5. thread[i].read_ptr \in Ring(i) /\ Front(i).memory = "live"
  <2>1. thread[i].read_ptr \in Ring(i) /\ Front(i) = Slot(i, thread[i].read_ptr)
    BY <1>2, HeadEntry
  <2>2. EntryOK(i, thread[i].read_ptr)
    BY <2>1 DEF RingInv, EntryInv, EntryState
  <2> QED
    BY <1>1, <2>1, <2>2 DEF EntryOK, Stage
<1>6. HeadStep(i)
  BY <1>1, <1>2, <1>3, <1>4, <1>5 DEF HeadStep
<1>7. ASSUME NEW j \in Ring(i), j = thread[i].read_ptr
      PROVE  EntryOK(i, j)'
  <2>1. EntryOK(i, j)
    BY DEF RingInv, EntryInv, EntryState
  <2>2. Stage(i, j) = "free" /\ Stage(i, j)' = "clear"
    BY <1>1, <1>7 DEF Stage
  <2>3. Slot(i, j) = Front(i) /\ Slot(i, j)' = Front(i)'
    BY <1>1, <1>7 DEF Front, Slot
  <2> QED
    BY <1>1, <1>4, <2>1, <2>2, <2>3 DEF EntryOK, Cleared
<1>8. WorkerAtFront'
  <2> SUFFICES ASSUME NEW k \in Threads, worker'[k].pc # "idle"
               PROVE  Busy(k)' /\ (worker'[k].pc \notin Cleared => Front(k)'.rcvbuf = worker'[k].rcvbuf)
    BY DEF WorkerAtFront
  <2>1. CASE k = i
    BY <1>1, <1>2, <1>4, <2>1 DEF Busy
  <2>2. CASE k # i
    <3>1. worker'[k] = worker[k] /\ Busy(k)
      BY <1>1, <2>2 DEF RingInv, EntryInv, WorkerAtFront
    <3>2. Busy(k)' /\ Front(k)' = Front(k)
      BY <1>1, <1>3, <2>2, <3>1, HeadEntry DEF Busy, Front, Slot
    <3> QED
      BY <3>1, <3>2 DEF RingInv, EntryInv, WorkerAtFront
  <2> QED
    BY <2>1, <2>2
<1>9. EntryInv'
  BY <1>1, <1>4, <1>6, <1>7, <1>8, HeadStepEntries DEF RingInv, Queued
<1>10. Searched'
  <2>1. Allocating => Request \in DOMAIN reqs
    BY TypeParts, ReqFacts DEF OwnerInv, Control, Request
  <2> QED
    BY <1>1, <1>6, <2>1, HeadStepSearched DEF RingInv, EntryInv
<1>11. PassedIsNull'
  <2> SUFFICES ASSUME main = "search"
               PROVE  /\ thread[at[1]].write_ptr - at[2] <= MAX_THREAD_QUE_SIZE
                      /\ \A j \in at[2] .. thread[at[1]].read_ptr - 1 :
                            thread'[at[1]].q[Index(j)].memory = "null"
    BY <1>1 DEF PassedIsNull, Slot, OwnerInv, Control
  <2>1. /\ thread[at[1]].write_ptr - at[2] <= MAX_THREAD_QUE_SIZE
        /\ \A j \in at[2] .. thread[at[1]].read_ptr - 1 : thread[at[1]].q[Index(j)].memory = "null"
    BY DEF RingInv, PassedIsNull, Slot
  <2>2. ASSUME NEW j \in at[2] .. thread[at[1]].read_ptr - 1
        PROVE  thread'[at[1]].q[Index(j)].memory = "null"
    <3>1. at[1] \in Threads /\ at[2] \in Nat
      BY TypeParts DEF OwnerInv, Control
    <3>2. j \in Nat /\ at[2] <= j /\ j < thread[at[1]].read_ptr
      BY <3>1, FrontFacts
    <3>3. Index(j) \in Slots
      BY <3>2, IndexIsSlot
    <3>4. ~(at[1] = i /\ Index(j) = s)
      <4>1. CASE at[1] # i
        BY <4>1
      <4>2. CASE at[1] = i
        <5>1. thread[i].read_ptr - j < MAX_THREAD_QUE_SIZE /\ j - thread[i].read_ptr < MAX_THREAD_QUE_SIZE
          BY <1>2, <2>1, <3>1, <3>2, <4>2, FrontFacts, ConstantFacts DEF Busy
        <5> QED
          BY <3>2, <4>2, <5>1, FrontFacts, IndexApart
      <4> QED
        BY <4>1, <4>2
    <3>5. thread'[at[1]].q[Index(j)] = thread[at[1]].q[Index(j)]
      BY <1>1, <3>1, <3>3, <3>4
    <3> QED
      BY <2>1, <3>5
  <2> QED
    BY <2>1, <2>2
<1>12. Counted'
  BY <1>1 DEF RingInv, Counted, Allocating
<1>13. NewEntry'
  BY <1>1, <1>6, HeadStepNewEntry DEF RingInv
<1> QED
  BY <1>9, <1>10, <1>11, <1>12, <1>13 DEF RingInv

LEMMA ClearRing ==
    ASSUME TypeOK, OwnerInv, RingInv, NEW i \in Threads, Clear(i)
    PROVE  RingInv'
<1> DEFINE s == Index(thread[i].read_ptr)
<1>1. /\ reqs' = reqs /\ UNCHANGED <<main, at, alloc_thnum>>
      /\ worker[i].pc \in {"clear", "offset", "time"} /\ worker'[i].pc \in Cleared
      /\ \A k \in Threads \ {i} : worker'[k] = worker[k]
      /\ \A k \in Threads :
            /\ thread'[k].read_ptr = thread[k].read_ptr
            /\ thread'[k].write_ptr = thread[k].write_ptr
            /\ \A t \in Slots : ~(k = i /\ t = s) => thread'[k].q[t] = thread[k].q[t]
      /\ IF worker[i].pc = "clear"
         THEN thread'[i].q[s].memory = "null" /\ thread'[i].q[s].rcvbuf = 0
         ELSE /\ thread'[i].q[s].memory = thread[i].q[s].memory
              /\ thread'[i].q[s].rcvbuf = thread[i].q[s].rcvbuf
  BY ClearFacts
<1>2. Busy(i)
  BY <1>1 DEF RingInv, EntryInv, WorkerAtFront
<1>3. /\ \A k \in Threads : \A j \in Ring(k) :
            k # i \/ j # thread[i].read_ptr => Slot(k, j)' = Slot(k, j)
      /\ Front(i)' = thread'[i].q[s]
  BY <1>1, <1>2, HeadSlotOnly DEF RingInv, EntryInv
<1>4. /\ worker[i].pc = "clear" => Front(i).rcvbuf \notin Queued
      /\ worker[i].pc # "clear" => Front(i).memory = "null" /\ Front(i).rcvbuf = 0
  <2>1. thread[i].read_ptr \in Ring(i) /\ Front(i) = Slot(i, thread[i].read_ptr)
    BY <1>2, HeadEntry
  <2>2. EntryOK(i, thread[i].read_ptr)
    BY <2>1 DEF RingInv, EntryInv, EntryState
  <2> QED
    BY <1>1, <2>1, <2>2 DEF EntryOK, Stage, Queued, Cleared
<1>5. /\ thread'[i].q[s].memory = "null" /\ thread'[i].q[s].rcvbuf = 0
      /\ Front(i)'.memory = "null" /\ Front(i)'.rcvbuf = 0
      /\ Front(i).rcvbuf \notin Queued
  <2>1. Front(i) = thread[i].q[s] /\ 0 \notin Queued
    BY FrontFacts, TypeParts, ReqFacts DEF Queued
  <2> QED
    BY <1>1, <1>3, <1>4, <2>1
<1>6. HeadStep(i)
  BY <1>1, <1>2, <1>3, <1>5 DEF HeadStep
<1>7. ASSUME NEW j \in Ring(i), j = thread[i].read_ptr
      PROVE  EntryOK(i, j)'
  <2>1. Stage(i, j)' \in Cleared
    BY <1>1, <1>7 DEF Stage
  <2>2. Slot(i, j)' = Front(i)'
    BY <1>1, <1>7 DEF Front, Slot
  <2> QED
    BY <1>5, <2>1, <2>2 DEF EntryOK, Cleared
<1>8. WorkerAtFront'
  <2> SUFFICES ASSUME NEW k \in Threads, worker'[k].pc # "idle"
               PROVE  Busy(k)' /\ (worker'[k].pc \notin Cleared => Front(k)'.rcvbuf = worker'[k].rcvbuf)
    BY DEF WorkerAtFront
  <2>1. CASE k = i
    BY <1>1, <1>2, <2>1 DEF Busy
  <2>2. CASE k # i
    <3>1. worker'[k] = worker[k] /\ Busy(k)
      BY <1>1, <2>2 DEF RingInv, EntryInv, WorkerAtFront
    <3>2. Busy(k)' /\ Front(k)' = Front(k)
      BY <1>1, <1>3, <2>2, <3>1, HeadEntry DEF Busy, Front, Slot
    <3> QED
      BY <3>1, <3>2 DEF RingInv, EntryInv, WorkerAtFront
  <2> QED
    BY <2>1, <2>2
<1>9. EntryInv'
  BY <1>1, <1>5, <1>6, <1>7, <1>8, HeadStepEntries DEF RingInv, Queued
<1>10. Searched'
  <2>1. Allocating => Request \in DOMAIN reqs
    BY TypeParts, ReqFacts DEF OwnerInv, Control, Request
  <2> QED
    BY <1>1, <1>6, <2>1, HeadStepSearched DEF RingInv, EntryInv
<1>11. PassedIsNull'
  <2> SUFFICES ASSUME main = "search"
               PROVE  /\ thread[at[1]].write_ptr - at[2] <= MAX_THREAD_QUE_SIZE
                      /\ \A j \in at[2] .. thread[at[1]].read_ptr - 1 :
                            thread'[at[1]].q[Index(j)].memory = "null"
    BY <1>1 DEF PassedIsNull, Slot, OwnerInv, Control
  <2>1. /\ thread[at[1]].write_ptr - at[2] <= MAX_THREAD_QUE_SIZE
        /\ \A j \in at[2] .. thread[at[1]].read_ptr - 1 : thread[at[1]].q[Index(j)].memory = "null"
    BY DEF RingInv, PassedIsNull, Slot
  <2>2. ASSUME NEW j \in at[2] .. thread[at[1]].read_ptr - 1
        PROVE  thread'[at[1]].q[Index(j)].memory = "null"
    <3>1. at[1] \in Threads /\ at[2] \in Nat
      BY TypeParts DEF OwnerInv, Control
    <3>2. Index(j) \in Slots
      BY <3>1, FrontFacts, IndexIsSlot
    <3>3. CASE at[1] = i /\ Index(j) = s
      BY <1>5, <3>3
    <3>4. CASE ~(at[1] = i /\ Index(j) = s)
      BY <1>1, <2>1, <3>1, <3>2, <3>4
    <3> QED
      BY <3>3, <3>4
  <2> QED
    BY <2>1, <2>2
<1>12. Counted'
  BY <1>1 DEF RingInv, Counted, Allocating
<1>13. NewEntry'
  BY <1>1, <1>6, HeadStepNewEntry DEF RingInv
<1> QED
  BY <1>9, <1>10, <1>11, <1>12, <1>13 DEF RingInv

\* What is found overwritten is the entry that is just being freed.
LEMMA SearchFreedRing ==
    ASSUME TypeOK, OwnerInv, RingInv, SearchFreed
    PROVE  RingInv'
<1>0. PICK i \in Threads : i = at[1]
  BY SearchFreedFacts
<1> DEFINE s == Index(at[2])
<1>1. /\ at[2] \in Nat /\ s \in Slots
      /\ main = "search" /\ at' = <<i, at[2] + 1>> /\ at[2] < thread[i].write_ptr
      /\ thread[i].q[s].memory \in {"freed", "garbled"}
      /\ \A k \in Threads :
            /\ thread'[k].read_ptr = thread[k].read_ptr
            /\ thread'[k].write_ptr = thread[k].write_ptr
            /\ \A t \in Slots : ~(k = i /\ t = s) => thread'[k].q[t] = thread[k].q[t]
      /\ thread'[i].q[s].memory = "garbled" /\ thread'[i].q[s].rcvbuf = thread[i].q[s].rcvbuf
      /\ thread'[i].q[s].user_offset = thread[i].q[s].user_offset
      /\ UNCHANGED <<main, alloc_thnum, worker, reqs>>
  BY <1>0, SearchFreedFacts
<1>2. thread[i].read_ptr \in Nat /\ thread[i].write_ptr \in Nat
  BY FrontFacts
<1>3. at[2] \in Ring(i)
  <2>1. ~(at[2] < thread[i].read_ptr)
    BY <1>0, <1>1, <1>2 DEF RingInv, PassedIsNull, Slot
  <2> QED
    BY <1>1, <1>2, <2>1 DEF Ring
<1>4. EntryOK(i, at[2])
  BY <1>3 DEF RingInv, EntryInv, EntryState
<1>5. at[2] = thread[i].read_ptr /\ worker[i].pc = "clear" /\ Busy(i)
  <2>1. Slot(i, at[2]).memory \in {"freed", "garbled"}
    BY <1>1 DEF Slot
  <2>2. worker[i].pc \in WorkerPcs
    BY FrontFacts DEF WorkerRec
  <2>3. at[2] = thread[i].read_ptr /\ worker[i].pc = "clear"
    BY <1>4, <2>1, <2>2 DEF EntryOK, Stage, WorkerPcs, Cleared
  <2> QED
    BY <1>1, <2>3 DEF Busy
<1>6. /\ \A k \in Threads : \A j \in Ring(k) :
            k # i \/ j # thread[i].read_ptr => Slot(k, j)' = Slot(k, j)
      /\ Front(i)' = thread'[i].q[s]
  BY <1>1, <1>5, HeadSlotOnly DEF RingInv, EntryInv
<1>7. /\ Front(i)'.memory = "garbled" /\ Front(i)'.rcvbuf = Front(i).rcvbuf
      /\ Front(i)'.user_offset = Front(i).user_offset /\ Front(i) = thread[i].q[s]
  BY <1>1, <1>5, <1>6, FrontFacts
<1>8. HeadStep(i)
  BY <1>1, <1>5, <1>6, <1>7 DEF HeadStep
<1>9. ASSUME NEW j \in Ring(i), j = thread[i].read_ptr
      PROVE  EntryOK(i, j)'
  <2>1. Slot(i, j) = Front(i) /\ Slot(i, j)' = Front(i)'
    BY <1>1, <1>9 DEF Front, Slot
  <2>2. Stage(i, j) = "clear" /\ Stage(i, j)' = "clear" /\ EntryOK(i, j)
    BY <1>1, <1>4, <1>5, <1>9 DEF Stage
  <2> QED
    BY <1>1, <1>7, <2>1, <2>2 DEF EntryOK, Cleared
<1>10. WorkerAtFront'
  <2> SUFFICES ASSUME NEW k \in Threads, worker[k].pc # "idle"
               PROVE  Busy(k)' /\ (worker[k].pc \notin Cleared => Front(k)'.rcvbuf = worker[k].rcvbuf)
    BY <1>1 DEF WorkerAtFront
  <2>0. Busy(k) /\ (worker[k].pc \notin Cleared => Front(k).rcvbuf = worker[k].rcvbuf)
    BY DEF RingInv, EntryInv, WorkerAtFront
  <2>1. CASE k = i
    BY <1>1, <1>7, <2>0, <2>1 DEF Busy
  <2>2. CASE k # i
    BY <1>1, <1>6, <2>0, <2>2, HeadEntry DEF Busy, Front, Slot
  <2> QED
    BY <2>1, <2>2
<1>11. EntryInv'
  BY <1>1, <1>7, <1>8, <1>9, <1>10, HeadStepEntries DEF RingInv, Queued
<1>12. Searched'
  <2>1. Allocating => Request \in DOMAIN reqs
    BY TypeParts, ReqFacts DEF OwnerInv, Control, Request
  <2>2. at' = <<at[1], at[2] + 1>> /\ thread'[at[1]].q[Index(at[2])].memory \notin {"live", "freed"}
    BY <1>0, <1>1
  <2> QED
    BY <1>1, <1>8, <2>1, <2>2, HeadStepSearched DEF RingInv, EntryInv
<1>13. PassedIsNull'
  <2>1. at'[1] = i /\ at'[2] = at[2] + 1
    BY <1>1
  <2>2. thread[i].write_ptr - at[2] <= MAX_THREAD_QUE_SIZE
    BY <1>0, <1>1 DEF RingInv, PassedIsNull
  <2>3. at[2] + 1 .. thread[i].read_ptr - 1 = {}
    BY <1>1, <1>2, <1>5
  <2>4. thread[i].write_ptr - (at[2] + 1) <= MAX_THREAD_QUE_SIZE
    BY <1>1, <1>2, <2>2, ConstantFacts
  <2> QED
    BY <1>1, <2>1, <2>3, <2>4 DEF PassedIsNull
<1>14. Counted'
  BY <1>1 DEF RingInv, Counted, Allocating
<1>15. NewEntry'
  BY <1>1, <1>8, HeadStepNewEntry DEF RingInv
<1> QED
  BY <1>11, <1>12, <1>13, <1>14, <1>15 DEF RingInv

\* The head that is left behind is empty, and the rest of the ring stays.
LEMMA AdvanceRing ==
    ASSUME TypeOK, OwnerInv, RingInv, NEW i \in Threads, Advance(i)
    PROVE  RingInv'
<1>1. /\ worker[i].pc = "advance" /\ worker'[i].pc = "idle"
      /\ \A k \in Threads \ {i} : worker'[k] = worker[k]
      /\ \A k \in Threads :
            /\ thread'[k].read_ptr = thread[k].read_ptr + (IF k = i THEN 1 ELSE 0)
            /\ thread'[k].write_ptr = thread[k].write_ptr
            /\ thread'[k].q = thread[k].q
      /\ UNCHANGED <<main, at, alloc_thnum, reqs>>
  BY AdvanceStepFacts
<1>2. Busy(i) /\ thread[i].read_ptr \in Ring(i)
  BY <1>1, HeadEntry DEF RingInv, EntryInv, WorkerAtFront
<1>3. Slot(i, thread[i].read_ptr).memory = "null" /\ Slot(i, thread[i].read_ptr).rcvbuf = 0
  <2>1. EntryOK(i, thread[i].read_ptr)
    BY <1>2 DEF RingInv, EntryInv, EntryState
  <2> QED
    BY <1>1, <2>1 DEF EntryOK, Stage, Cleared
<1>4. ASSUME NEW k \in Threads
      PROVE  /\ Ring(k)' = IF k = i THEN Ring(k) \ {thread[i].read_ptr} ELSE Ring(k)
             /\ Ring(k)' \subseteq Ring(k)
  <2>0. /\ thread[k].read_ptr \in Nat /\ thread[k].write_ptr \in Nat
        /\ thread'[k].write_ptr = thread[k].write_ptr
    BY <1>1, FrontFacts
  <2>1. CASE k = i
    <3>1. thread'[k].read_ptr = thread[i].read_ptr + 1
      BY <1>1, <2>1
    <3> QED
      BY <2>0, <2>1, <3>1 DEF Ring
  <2>2. CASE k # i
    <3>1. thread'[k].read_ptr = thread[k].read_ptr
      BY <1>1, <2>0, <2>2
    <3> QED
      BY <2>0, <2>2, <3>1 DEF Ring
  <2> QED
    BY <2>1, <2>2
<1>5. \A k, j : k \in Threads => Slot(k, j)' = Slot(k, j)
  BY <1>1 DEF Slot
<1>6. SizeKept'
  <2> SUFFICES ASSUME NEW k \in Threads PROVE Entries(k)' \in 0 .. MAX_THREAD_QUE_SIZE
    BY DEF SizeKept
  <2>1. Entries(k) \in 0 .. MAX_THREAD_QUE_SIZE
    BY DEF RingInv, EntryInv, SizeKept
  <2>2. CASE k = i
    BY <1>1, <1>2, <2>1, <2>2, FrontFacts, ConstantFacts DEF Entries, Busy
  <2>3. CASE k # i
    BY <1>1, <2>1, <2>3, FrontFacts DEF Entries
  <2> QED
    BY <2>2, <2>3
<1>7. WorkerAtFront'
  <2> SUFFICES ASSUME NEW k \in Threads, worker'[k].pc # "idle"
               PROVE  Busy(k)' /\ (worker'[k].pc \notin Cleared => Front(k)'.rcvbuf = worker'[k].rcvbuf)
    BY DEF WorkerAtFront
  <2>1. k # i /\ worker'[k] = worker[k]
    BY <1>1
  <2>2. thread'[k].read_ptr = thread[k].read_ptr
    BY <1>1, <2>1, FrontFacts
  <2>3. Busy(k)' = Busy(k) /\ Front(k)' = Front(k)
    BY <1>1, <2>2 DEF Busy, Front, Slot
  <2> QED
    BY <2>1, <2>3 DEF RingInv, EntryInv, WorkerAtFront
<1>8. EntryState'
  <2> SUFFICES ASSUME NEW k \in Threads, NEW j \in Ring(k)'
               PROVE  EntryOK(k, j)'
    BY DEF EntryState
  <2>1. j \in Ring(k) /\ ~(k = i /\ j = thread[i].read_ptr)
    BY <1>4
  <2>2. Stage(k, j)' = Stage(k, j)
    <3>1. CASE k = i
      BY <1>1, <2>1, <3>1 DEF Stage
    <3>2. CASE k # i
      BY <1>1, <3>2, FrontFacts DEF Stage
    <3> QED
      BY <3>1, <3>2
  <2>3. EntryOK(k, j)
    BY <2>1 DEF RingInv, EntryInv, EntryState
  <2> QED
    BY <1>1, <1>5, <2>2, <2>3 DEF EntryOK
<1>9. EntryOrder' /\ OneEntry'
  BY <1>4, <1>5 DEF RingInv, EntryInv, EntryOrder, OneEntry
<1>10. QueuedInRing'
  <2> SUFFICES ASSUME NEW r \in Queued
               PROVE  \E k \in Threads : \E j \in Ring(k)' : Slot(k, j)'.rcvbuf = r
    BY <1>1 DEF QueuedInRing, Queued
  <2>1. PICK k \in Threads : \E j \in Ring(k) : Slot(k, j).rcvbuf = r
    BY DEF RingInv, EntryInv, QueuedInRing
  <2>2. PICK j \in Ring(k) : Slot(k, j).rcvbuf = r
    BY <2>1
  <2>3. r # 0
    BY TypeParts, ReqFacts DEF Queued
  <2>4. j \in Ring(k)'
    BY <1>3, <1>4, <2>2, <2>3
  <2> QED
    BY <1>5, <2>2, <2>4
<1>11. GroupInOneRing'
  BY <1>1, <1>4, <1>5 DEF RingInv, EntryInv, GroupInOneRing, Readable, Group
<1>12. Searched'
  BY <1>1, <1>4, <1>5 DEF RingInv, Searched, Readable, Group, Allocating, Chosen, Request
<1>13. PassedIsNull'
  <2> SUFFICES ASSUME main = "search"
               PROVE  /\ thread[at[1]].write_ptr - at[2] <= MAX_THREAD_QUE_SIZE
                      /\ \A j \in at[2] .. thread'[at[1]].read_ptr - 1 :
                            Slot(at[1], j).memory = "null"
    BY <1>1 DEF PassedIsNull, Slot, OwnerInv, Control
  <2>1. /\ thread[at[1]].write_ptr - at[2] <= MAX_THREAD_QUE_SIZE
        /\ \A j \in at[2] .. thread[at[1]].read_ptr - 1 : Slot(at[1], j).memory = "null"
    BY DEF RingInv, PassedIsNull
  <2>2. at[1] \in Threads /\ at[2] \in Nat
    BY TypeParts DEF OwnerInv, Control
  <2>3. ASSUME NEW j \in at[2] .. thread'[at[1]].read_ptr - 1
        PROVE  Slot(at[1], j).memory = "null"
    <3>1. CASE at[1] = i /\ j = thread[i].read_ptr
      BY <1>3, <3>1
    <3>2. CASE ~(at[1] = i /\ j = thread[i].read_ptr)
      <4>1. j \in at[2] .. thread[at[1]].read_ptr - 1
        <5>1. thread[at[1]].read_ptr \in Nat
          BY <2>2, FrontFacts
        <5>2. CASE at[1] = i
          <6>1. thread'[at[1]].read_ptr = thread[at[1]].read_ptr + 1
            BY <1>1, <5>2
          <6> QED
            BY <2>2, <3>2, <5>1, <5>2, <6>1
        <5>3. CASE at[1] # i
          <6>1. thread'[at[1]].read_ptr = thread[at[1]].read_ptr
            BY <1>1, <2>2, <5>1, <5>3
          <6> QED
            BY <6>1
        <5> QED
          BY <5>2, <5>3
      <4> QED
        BY <2>1, <4>1
    <3> QED
      BY <3>1, <3>2
  <2> QED
    BY <2>1, <2>3
<1>14. Counted'
  BY <1>1 DEF RingInv, Counted, Allocating
<1>15. NewEntry'
  <2>1. PICK k \in Threads : k = alloc_thnum
    BY TypeParts
  <2>2. thread'[k].write_ptr = thread[k].write_ptr
    BY <1>1
  <2>3. NewSlotFree'
    <3>1. Entries(k)' \in {Entries(k), Entries(k) - 1} /\ Entries(k) \in Int
      <4>1. /\ thread'[k].read_ptr \in {thread[k].read_ptr, thread[k].read_ptr + 1}
            /\ thread[k].read_ptr \in Nat /\ thread[k].write_ptr \in Nat
        BY <1>1, FrontFacts
      <4> QED
        BY <2>2, <4>1 DEF Entries
    <3>2. main \in {"rcvbuf", "time", "publish"} => Entries(k) < MAX_THREAD_QUE_SIZE
      BY <2>1 DEF RingInv, NewEntry, NewSlotFree
    <3>3. main \in {"rcvbuf", "time", "publish"} => Entries(k)' < MAX_THREAD_QUE_SIZE
      BY <3>1, <3>2, ConstantFacts
    <3> QED
      BY <1>1, <2>1, <3>3 DEF NewSlotFree
  <2>4. NewState' /\ NewSlotWritten'
    BY <1>1, <1>5, <2>1, <2>2 DEF RingInv, NewEntry, NewState, NewSlotWritten, Allocating, Request
  <2> QED
    BY <2>3, <2>4 DEF NewEntry
<1> QED
  BY <1>6, <1>7, <1>8, <1>9, <1>10, <1>11, <1>12, <1>13, <1>14, <1>15 DEF RingInv, EntryInv
----------------------------------------------------------------------------
(* Publish adds an entry behind the others. *)

\* The entry is what was written in the slot behind the ring.
LEMMA PublishView ==
    ASSUME TypeOK, OwnerInv, RingInv, Publish, NEW i \in Threads, i = alloc_thnum,
           NEW w \in Nat, w = thread[i].write_ptr
    PROVE  /\ Entries(i) < MAX_THREAD_QUE_SIZE
           /\ Ring(i)' = Ring(i) \cup {w} /\ w \notin Ring(i)
           /\ \A k \in Threads \ {i} : Ring(k)' = Ring(k)
           /\ \A k \in Threads : \A j \in Ring(k) :
                 Slot(k, j)' = Slot(k, j) /\ Stage(k, j)' = Stage(k, j)
           /\ Slot(i, w)'.memory = "live" /\ Slot(i, w)'.rcvbuf = Request
           /\ Slot(i, w)'.user_offset = reqs[Request].user_offset
           /\ Stage(i, w)' = "idle"
<1>1. /\ main = "publish" /\ worker' = worker
      /\ \A k \in Threads :
            /\ thread'[k].read_ptr = thread[k].read_ptr
            /\ thread'[k].write_ptr = thread[k].write_ptr + (IF k = i THEN 1 ELSE 0)
            /\ thread'[k].q = thread[k].q
  BY PublishStepFacts
<1>2. /\ thread[i].read_ptr \in Nat /\ MAX_THREAD_QUE_SIZE \in Nat
      /\ Entries(i) \in 0 .. MAX_THREAD_QUE_SIZE
  BY FrontFacts, ConstantFacts DEF RingInv, EntryInv, SizeKept
<1>3. Entries(i) < MAX_THREAD_QUE_SIZE /\ thread[i].read_ptr <= w
  <2>1. Entries(i) < MAX_THREAD_QUE_SIZE
    BY <1>1 DEF RingInv, NewEntry, NewSlotFree
  <2> QED
    BY <1>2, <2>1 DEF Entries
<1>4. Ring(i)' = Ring(i) \cup {w} /\ w \notin Ring(i)
  <2>1. thread'[i].read_ptr = thread[i].read_ptr /\ thread'[i].write_ptr = w + 1
    BY <1>1
  <2> QED
    BY <1>2, <1>3, <2>1 DEF Ring
<1>5. ASSUME NEW k \in Threads \ {i}
      PROVE  Ring(k)' = Ring(k)
  <2>1. thread'[k].read_ptr = thread[k].read_ptr /\ thread'[k].write_ptr = thread[k].write_ptr
    BY <1>1, FrontFacts
  <2> QED
    BY <2>1 DEF Ring
<1>6. ASSUME NEW k \in Threads, NEW j \in Ring(k)
      PROVE  Slot(k, j)' = Slot(k, j) /\ Stage(k, j)' = Stage(k, j)
  BY <1>1 DEF Slot, Stage
<1>7. /\ Slot(i, w)'.memory = "live" /\ Slot(i, w)'.rcvbuf = Request
      /\ Slot(i, w)'.user_offset = reqs[Request].user_offset
  <2>1. Slot(i, w)' = Slot(i, w)
    BY <1>1 DEF Slot
  <2> QED
    BY <1>1, <2>1 DEF RingInv, NewEntry, NewSlotWritten
<1>8. Stage(i, w)' = "idle"
  <2>1. thread'[i].read_ptr = thread[i].read_ptr /\ worker'[i].pc = worker[i].pc
    BY <1>1
  <2>2. w = thread[i].read_ptr => worker[i].pc = "idle"
    <3>1. w = thread[i].read_ptr => ~Busy(i)
      BY <1>2 DEF Busy
    <3> QED
      BY <3>1 DEF RingInv, EntryInv, WorkerAtFront
  <2> QED
    BY <2>1, <2>2 DEF Stage
<1> QED
  BY <1>3, <1>4, <1>5, <1>6, <1>7, <1>8

LEMMA PublishRing ==
    ASSUME TypeOK, OwnerInv, RingInv, Publish
    PROVE  RingInv'
<1>1. PICK i \in Threads : i = alloc_thnum
  BY PublishStepFacts
<1>2. PICK w \in Nat : w = thread[i].write_ptr
  BY FrontFacts
<1>3. PICK n \in DOMAIN reqs : n = Request
  BY PublishStepFacts
<1>4. /\ main = "publish" /\ main' = "wait" /\ Len(reqs') = Len(reqs) /\ DOMAIN reqs' = DOMAIN reqs
      /\ \A r \in DOMAIN reqs :
            /\ reqs'[r].account_group = reqs[r].account_group
            /\ reqs'[r].user_offset = reqs[r].user_offset
            /\ reqs'[r].state = IF r = n THEN "queued" ELSE reqs[r].state
      /\ worker' = worker
      /\ \A k \in Threads :
            /\ thread'[k].read_ptr = thread[k].read_ptr
            /\ thread'[k].write_ptr = thread[k].write_ptr + (IF k = i THEN 1 ELSE 0)
  BY <1>1, <1>3, PublishStepFacts
<1>5. /\ Entries(i) < MAX_THREAD_QUE_SIZE
      /\ Ring(i)' = Ring(i) \cup {w} /\ w \notin Ring(i)
      /\ \A k \in Threads \ {i} : Ring(k)' = Ring(k)
      /\ \A k \in Threads : \A j \in Ring(k) :
            Slot(k, j)' = Slot(k, j) /\ Stage(k, j)' = Stage(k, j)
      /\ Slot(i, w)'.memory = "live" /\ Slot(i, w)'.rcvbuf = n
      /\ Slot(i, w)'.user_offset = reqs[n].user_offset
      /\ Stage(i, w)' = "idle"
  BY <1>1, <1>2, <1>3, PublishView
<1>6. /\ Allocating /\ Chosen /\ NewState /\ reqs[n].state = "new" /\ n # 0
  BY <1>3, <1>4, TypeParts, ReqFacts DEF Allocating, Chosen, RingInv, NewEntry, NewState
<1>7. ASSUME NEW k \in Threads, NEW j \in Ring(k)
      PROVE  Slot(k, j)'.rcvbuf < n /\ Slot(k, j)'.rcvbuf # n
  BY <1>3, <1>5, <1>6, EntryIsOld, RingEntry, TypeParts, ReqFacts DEF RingInv, EntryInv
\* An entry afterwards is the new one or an old one.
<1>8. ASSUME NEW k \in Threads, NEW j \in Ring(k)'
      PROVE  j \in Ring(k) \/ (k = i /\ j = w)
  BY <1>5
<1>9. SizeKept'
  <2> SUFFICES ASSUME NEW k \in Threads PROVE Entries(k)' \in 0 .. MAX_THREAD_QUE_SIZE
    BY DEF SizeKept
  <2>1. /\ Entries(k) \in 0 .. MAX_THREAD_QUE_SIZE
        /\ thread[k].read_ptr \in Nat /\ thread[k].write_ptr \in Nat
    BY FrontFacts DEF RingInv, EntryInv, SizeKept
  <2>2. Entries(k)' = Entries(k) + (IF k = i THEN 1 ELSE 0)
    BY <1>4, <2>1 DEF Entries
  <2> QED
    BY <1>5, <2>1, <2>2, ConstantFacts
<1>10. WorkerAtFront'
  <2> SUFFICES ASSUME NEW k \in Threads, worker[k].pc # "idle"
               PROVE  Busy(k)' /\ (worker[k].pc \notin Cleared => Front(k)'.rcvbuf = worker[k].rcvbuf)
    BY <1>4 DEF WorkerAtFront
  <2>1. Busy(k) /\ (worker[k].pc \notin Cleared => Front(k).rcvbuf = worker[k].rcvbuf)
    BY DEF RingInv, EntryInv, WorkerAtFront
  <2>2. Busy(k)'
    <3>1. /\ thread[k].read_ptr \in Nat /\ thread[k].write_ptr \in Nat
          /\ thread[k].read_ptr < thread[k].write_ptr
      BY <2>1, FrontFacts DEF Busy
    <3>2. thread'[k].write_ptr >= thread[k].write_ptr
      BY <1>4, <3>1
    <3>3. thread'[k].read_ptr < thread'[k].write_ptr
      BY <1>4, <3>1, <3>2
    <3> QED
      BY <3>3 DEF Busy
  <2>3. Front(k)' = Front(k)
    BY <1>4, <1>5, <2>1, HeadEntry DEF Front, Slot
  <2> QED
    BY <2>1, <2>2, <2>3
<1>11. EntryState'
  <2> SUFFICES ASSUME NEW k \in Threads, NEW j \in Ring(k)'
               PROVE  EntryOK(k, j)'
    BY DEF EntryState
  <2>1. CASE j \in Ring(k)
    <3>1. EntryOK(k, j)
      BY <2>1 DEF RingInv, EntryInv, EntryState
    <3>2. Slot(k, j)' = Slot(k, j) /\ Stage(k, j)' = Stage(k, j) /\ Slot(k, j).rcvbuf # n
      BY <1>5, <1>7, <2>1
    <3> QED
      BY <1>4, <3>1, <3>2 DEF EntryOK
  <2>2. CASE k = i /\ j = w
    BY <1>4, <1>5, <2>2 DEF EntryOK, Cleared
  <2> QED
    BY <1>8, <2>1, <2>2
<1>12. EntryOrder'
  <2> SUFFICES ASSUME NEW k \in Threads, NEW j \in Ring(k)', NEW l \in Ring(k)', j < l
               PROVE  Slot(k, j)'.rcvbuf < Slot(k, l)'.rcvbuf
    BY DEF EntryOrder
  <2>1. CASE l \in Ring(k)
    <3>1. j \in Ring(k)
      <4>1. ~(k = i /\ j = w)
        BY <1>2, <2>1, RingEntry
      <4> QED
        BY <1>8, <4>1
    <3> QED
      BY <1>5, <2>1, <3>1 DEF RingInv, EntryInv, EntryOrder
  <2>2. CASE k = i /\ l = w
    <3>1. j \in Ring(k)
      BY <1>8, <2>2
    <3> QED
      BY <1>5, <1>7, <2>2, <3>1
  <2> QED
    BY <1>8, <2>1, <2>2
<1>13. OneEntry'
  <2> SUFFICES ASSUME NEW k \in Threads, NEW m \in Threads, NEW j \in Ring(k)', NEW l \in Ring(m)',
                      Slot(k, j)'.rcvbuf = Slot(m, l)'.rcvbuf, Slot(k, j)'.rcvbuf # 0
               PROVE  k = m
    BY DEF OneEntry
  <2>1. CASE j \in Ring(k) /\ l \in Ring(m)
    BY <1>5, <2>1 DEF RingInv, EntryInv, OneEntry
  <2>2. CASE k = i /\ j = w /\ l \in Ring(m)
    BY <1>5, <1>7, <2>2
  <2>3. CASE m = i /\ l = w /\ j \in Ring(k)
    BY <1>5, <1>7, <2>3
  <2> QED
    BY <1>8, <2>1, <2>2, <2>3
<1>14. QueuedInRing'
  <2> SUFFICES ASSUME NEW r \in DOMAIN reqs, reqs'[r].state = "queued"
               PROVE  \E k \in Threads : \E j \in Ring(k)' : Slot(k, j)'.rcvbuf = r
    BY <1>4 DEF QueuedInRing, Queued
  <2>1. CASE r = n
    BY <1>5, <2>1
  <2>2. CASE r # n
    <3>1. r \in Queued
      BY <1>4, <2>2 DEF Queued
    <3>2. PICK k \in Threads : \E j \in Ring(k) : Slot(k, j).rcvbuf = r
      BY <3>1 DEF RingInv, EntryInv, QueuedInRing
    <3>3. PICK j \in Ring(k) : Slot(k, j).rcvbuf = r
      BY <3>2
    <3>4. j \in Ring(k)' /\ Slot(k, j)' = Slot(k, j)
      BY <1>5
    <3> QED
      BY <3>3, <3>4
  <2> QED
    BY <2>1, <2>2
<1>15. ASSUME NEW k \in Threads, NEW j \in Ring(k), Readable(k, j)'
       PROVE  /\ Readable(k, j) /\ Group(k, j)' = Group(k, j)
              /\ Group(k, j) = reqs[n].account_group => k = i
  <2>1. Slot(k, j)' = Slot(k, j) /\ Readable(k, j)
    BY <1>5, <1>15 DEF Readable
  <2>2. Slot(k, j).rcvbuf \in DOMAIN reqs
    BY <2>1, ReadableEntry DEF RingInv, EntryInv
  <2>3. Group(k, j)' = Group(k, j)
    BY <1>4, <2>1, <2>2 DEF Group
  <2>4. Group(k, j) = reqs[n].account_group => k = i
    BY <1>1, <1>3, <1>4, <1>6, <2>1, SearchedEntry DEF RingInv
  <2> QED
    BY <2>1, <2>3, <2>4
<1>16. GroupInOneRing'
  <2> SUFFICES ASSUME NEW k \in Threads, NEW m \in Threads, NEW j \in Ring(k)', NEW l \in Ring(m)',
                      Readable(k, j)', Readable(m, l)', Group(k, j)' = Group(m, l)'
               PROVE  k = m
    BY DEF GroupInOneRing
  <2>0. Group(i, w)' = reqs[n].account_group
    BY <1>4, <1>5 DEF Group
  <2>1. CASE j \in Ring(k) /\ l \in Ring(m)
    BY <1>15, <2>1 DEF RingInv, EntryInv, GroupInOneRing
  <2>2. CASE k = i /\ j = w /\ l \in Ring(m)
    BY <1>15, <2>0, <2>2
  <2>3. CASE m = i /\ l = w /\ j \in Ring(k)
    BY <1>15, <2>0, <2>3
  <2> QED
    BY <1>8, <2>1, <2>2, <2>3
<1>17. Searched' /\ PassedIsNull'
  BY <1>4 DEF Searched, PassedIsNull, Allocating
<1>18. Counted'
  <2> SUFFICES ASSUME NEW k \in Threads PROVE thread'[k].write_ptr <= Len(reqs)
    BY <1>4 DEF Counted, Allocating
  <2>1. thread[k].write_ptr < Len(reqs)
    BY <1>6 DEF RingInv, Counted
  <2>2. thread[k].write_ptr \in Nat /\ Len(reqs) \in Nat
    BY FrontFacts, TypeParts, ReqFacts
  <2>3. thread'[k].write_ptr \in {thread[k].write_ptr, thread[k].write_ptr + 1}
    BY <1>4, <2>2
  <2> QED
    BY <2>1, <2>2, <2>3
<1>19. NewEntry'
  BY <1>4, NothingWritten DEF NewState, Allocating
<1> QED
  BY <1>9, <1>10, <1>11, <1>12, <1>13, <1>14, <1>16, <1>17, <1>18, <1>19 DEF RingInv, EntryInv
----------------------------------------------------------------------------
(* Who is answered, as long as no full ring was written *)

\* Most steps take no user_offset and answer nobody.
SameAnswers ==
    /\ \A k \in Threads : worker'[k].pc = "call" =>
          worker[k].pc = "call" /\ worker'[k].rcvbuf = worker[k].rcvbuf
                              /\ worker'[k].user_offset = worker[k].user_offset
    /\ \A r \in DOMAIN reqs :
          /\ r \in DOMAIN reqs' /\ reqs'[r].client = reqs[r].client
          /\ reqs'[r].user_offset = reqs[r].user_offset
          /\ reqs'[r].answered = reqs[r].answered
    /\ \A r \in DOMAIN reqs' : r \in DOMAIN reqs \/ reqs'[r].answered = 0
    /\ gone \subseteq gone'

LEMMA SameAnswersStep ==
    ASSUME TypeOK, OwnerInv, AnswerInv, ~overrun, SameAnswers
    PROVE  AnswerInv'
<1>1. WorkerOwner'
  <2> SUFFICES ASSUME NEW k \in Threads, worker'[k].pc = "call"
               PROVE  worker'[k].user_offset = reqs'[worker'[k].rcvbuf].user_offset
    BY DEF WorkerOwner
  <2>1. /\ worker[k].pc = "call" /\ worker'[k].rcvbuf = worker[k].rcvbuf
        /\ worker'[k].user_offset = worker[k].user_offset
    BY DEF SameAnswers
  <2>2. worker[k].rcvbuf \in DOMAIN reqs
    BY <2>1 DEF OwnerInv, WorkerKnown
  <2>3. worker[k].user_offset = reqs[worker[k].rcvbuf].user_offset
    BY <2>1 DEF AnswerInv, WorkerOwner
  <2> QED
    BY <2>1, <2>2, <2>3 DEF SameAnswers
<1>2. AnswerToClient'
  <2> SUFFICES ASSUME NEW r \in DOMAIN reqs'
               PROVE  reqs'[r].answered \in {0, reqs'[r].client} \/ reqs'[r].client \in gone'
    BY DEF AnswerToClient
  <2>1. CASE r \in DOMAIN reqs
    <3>1. reqs[r].answered \in {0, reqs[r].client} \/ reqs[r].client \in gone
      BY <2>1 DEF AnswerInv, AnswerToClient
    <3> QED
      BY <2>1, <3>1 DEF SameAnswers
  <2>2. CASE r \notin DOMAIN reqs
    BY <2>2 DEF SameAnswers
  <2> QED
    BY <2>1, <2>2
<1> QED
  BY <1>1, <1>2 DEF AnswerInv

\* The steps of the main thread
LEMMA MainAnswers ==
    ASSUME TypeOK, OwnerInv,
           \/ \E u \in Users, g \in Groups : ReceiveRequest(u, g)
           \/ \E u \in Users : RemoveUser(u)
           \/ UNCHANGED <<worker, reqs, gone>>
           \/ Refuse \/ Publish
    PROVE  SameAnswers
<1>0. reqs \in Seq(ReqRec) /\ DOMAIN reqs = 1 .. Len(reqs) /\ Len(reqs) \in Nat
  BY TypeParts, ReqFacts
<1>1. ASSUME NEW u \in Users, NEW g \in Groups, ReceiveRequest(u, g)
      PROVE  SameAnswers
  <2>1. UNCHANGED <<worker, gone>>
    BY <1>1, ReceiveFacts
  <2>2. \A r \in DOMAIN reqs : r \in DOMAIN reqs' /\ reqs'[r] = reqs[r]
    BY <1>0, <1>1, ReceiveFacts
  <2>3. \A r \in DOMAIN reqs' : r \in DOMAIN reqs \/ reqs'[r].answered = 0
    <3>1. DOMAIN reqs' = 1 .. (Len(reqs) + 1) /\ reqs'[Len(reqs) + 1].answered = 0
      BY <1>1, ReceiveFacts
    <3> QED
      BY <1>0, <3>1
  <2> QED
    BY <2>1, <2>2, <2>3 DEF SameAnswers
<1>2. ASSUME NEW u \in Users, RemoveUser(u)
      PROVE  SameAnswers
  BY <1>2 DEF RemoveUser, SameAnswers
<1>3. CASE UNCHANGED <<worker, reqs, gone>>
  BY <1>3 DEF SameAnswers
<1>4. CASE Refuse
  BY <1>4, RefuseFacts DEF SameAnswers
<1>5. CASE Publish
  BY <1>5, PublishStepFacts DEF SameAnswers
<1> QED
  BY <1>1, <1>2, <1>3, <1>4, <1>5

\* What a worker takes from its slot is its request's,
LEMMA DispatchAnswer ==
    ASSUME TypeOK, OwnerInv, RingInv, AnswerInv, ~overrun', NEW i \in Threads, Dispatch(i)
    PROVE  AnswerInv'
<1>1. /\ worker[i].pc = "dispatch" /\ worker'[i].rcvbuf = worker[i].rcvbuf
      /\ worker'[i].user_offset = Front(i).user_offset
      /\ \A k \in Threads \ {i} : worker'[k] = worker[k]
      /\ UNCHANGED <<reqs, gone, overrun>>
  BY DispatchFacts
<1>2. Busy(i) /\ Front(i).rcvbuf = worker[i].rcvbuf
  BY <1>1 DEF RingInv, EntryInv, WorkerAtFront, Cleared
<1>3. Front(i).user_offset = reqs[worker[i].rcvbuf].user_offset
  <2>1. thread[i].read_ptr \in Ring(i) /\ Front(i) = Slot(i, thread[i].read_ptr)
    BY <1>2, HeadEntry
  <2>2. EntryOK(i, thread[i].read_ptr)
    BY <2>1 DEF RingInv, EntryInv, EntryState
  <2> QED
    BY <1>1, <1>2, <2>1, <2>2 DEF EntryOK, Stage, Cleared
<1>4. WorkerOwner'
  BY <1>1, <1>3 DEF AnswerInv, WorkerOwner
<1>5. AnswerToClient'
  BY <1>1 DEF AnswerInv, AnswerToClient
<1> QED
  BY <1>4, <1>5 DEF AnswerInv

\* and that user's slot holds the client that asked, unless it is gone.
LEMMA AnswerAnswer ==
    ASSUME TypeOK, OwnerInv, AnswerInv, ~overrun', NEW i \in Threads, Answer(i)
    PROVE  AnswerInv'
<1>1. PICK n \in DOMAIN reqs : n = worker[i].rcvbuf
  BY AnswerFacts
<1>2. /\ worker[i].pc = "call" /\ worker'[i].pc = "free"
      /\ \A k \in Threads \ {i} : worker'[k] = worker[k]
      /\ DOMAIN reqs' = DOMAIN reqs
      /\ \A r \in DOMAIN reqs :
            /\ reqs'[r].client = reqs[r].client
            /\ reqs'[r].user_offset = reqs[r].user_offset
            /\ r # n => reqs'[r].answered = reqs[r].answered
      /\ reqs'[n].answered \in {0, Reader(i)}
      /\ UNCHANGED <<gone, overrun>>
  BY <1>1, AnswerFacts
<1>3. WorkerOwner'
  <2> SUFFICES ASSUME NEW k \in Threads, worker'[k].pc = "call"
               PROVE  worker'[k].user_offset = reqs'[worker'[k].rcvbuf].user_offset
    BY DEF WorkerOwner
  <2>1. k # i /\ worker'[k] = worker[k]
    BY <1>2
  <2>2. worker[k].rcvbuf \in DOMAIN reqs
    BY <2>1 DEF OwnerInv, WorkerKnown
  <2> QED
    BY <1>2, <2>1, <2>2 DEF AnswerInv, WorkerOwner
<1>4. AnswerToClient'
  <2> SUFFICES ASSUME NEW r \in DOMAIN reqs
               PROVE  reqs'[r].answered \in {0, reqs[r].client} \/ reqs[r].client \in gone
    BY <1>2 DEF AnswerToClient
  <2>1. CASE r = n
    <3>1. Reader(i) = inquiry_user[reqs[n].user_offset]
      BY <1>1, <1>2 DEF AnswerInv, WorkerOwner, Reader
    <3>2. reqs[n].client = inquiry_user[reqs[n].user_offset] \/ reqs[n].client \in gone
      BY DEF OwnerInv, ClientThere
    <3> QED
      BY <1>2, <2>1, <3>1, <3>2
  <2>2. CASE r # n
    BY <1>2, <2>2 DEF AnswerInv, AnswerToClient
  <2> QED
    BY <2>1, <2>2
<1> QED
  BY <1>3, <1>4 DEF AnswerInv

\* The other steps of a worker
LEMMA WorkerAnswers ==
    ASSUME TypeOK, OwnerInv, NEW i \in Threads, Take(i) \/ Free(i) \/ Clear(i) \/ Advance(i)
    PROVE  SameAnswers
<1>1. UNCHANGED <<reqs, gone>> /\ \A k \in Threads \ {i} : worker'[k] = worker[k]
  BY TakeFacts, FreeFacts, ClearFacts, AdvanceStepFacts
<1>2. worker'[i].pc # "call"
  BY TakeFacts, FreeFacts, ClearFacts, AdvanceStepFacts DEF Cleared
<1> QED
  BY <1>1, <1>2 DEF SameAnswers
----------------------------------------------------------------------------
(* The theorems *)

LEMMA IInvStep ==
    ASSUME IInv, [Next]_vars
    PROVE  IInv'
<1>1. TypeOK' /\ OwnerInv'
  BY OwnerStep DEF IInv
<1>2. CASE Stop \/ SearchFaults \/ \E i \in Threads : TakeFaults(i)
  BY <1>2, StopInv DEF SearchFaults, TakeFaults
<1>3. CASE overrun'
  BY <1>1, <1>3 DEF IInv
<1>4. CASE ~overrun' /\ ~(Stop \/ SearchFaults \/ \E i \in Threads : TakeFaults(i))
  <2>1. ~overrun
    <3>1. CASE WriteUserOffset
      BY <1>4, <3>1 DEF WriteUserOffset
    <3>2. CASE ~WriteUserOffset
      BY <1>4, <3>2 DEF Next, AllocateThread, Worker, InitServer, AcceptUser, RemoveUser,
         ReceiveRequest, Search, SearchFreed, NextRing, Pick, Refuse, Enqueue, WriteRcvbuf,
         WriteTime, Publish, Take, Dispatch, Answer, Free, Clear, ClearRcvbuf, ClearOffset,
         ClearTime, Advance, vars
    <3> QED
      BY <3>1, <3>2
  <2>2. TypeOK /\ OwnerInv /\ RingInv /\ AnswerInv
    BY <2>1 DEF IInv
  <2> DEFINE Kept == RingInv' /\ AnswerInv'
  <2>3. SUFFICES Kept
    BY <1>1 DEF IInv
  <2>4. CASE \/ InitServer \/ UNCHANGED vars
             \/ \E c \in Fds : AcceptUser(c)
             \/ \E u \in Users : RemoveUser(u)
    <3>1. /\ UNCHANGED <<thread, worker, reqs>>
          /\ UNCHANGED <<main, at, alloc_thnum>> \/ main' = "wait"
      BY <2>4 DEF InitServer, AcceptUser, RemoveUser, vars, search
    <3>2. UNCHANGED <<worker, reqs, gone>> \/ \E u \in Users : RemoveUser(u)
      BY <2>4 DEF InitServer, AcceptUser, vars
    <3> QED
      BY <2>1, <2>2, <3>1, <3>2, QuietRing, MainAnswers, SameAnswersStep
  <2>5. CASE \E u \in Users, g \in Groups : ReceiveRequest(u, g)
    BY <2>1, <2>2, <2>5, ReceiveRequestRing, MainAnswers, SameAnswersStep
  <2>6. CASE Search \/ SearchFreed \/ NextRing \/ Pick
    <3>1. UNCHANGED <<worker, reqs, gone>>
      BY <2>2, <2>6, SearchFacts, SearchFreedFacts
    <3>2. RingInv'
      BY <2>2, <2>6, SearchRing, SearchFreedRing, NextRingRing, PickRing
    <3> QED
      BY <2>1, <2>2, <3>1, <3>2, MainAnswers, SameAnswersStep
  <2>7. CASE Writing
    <3>1. UNCHANGED <<worker, reqs, gone>>
      BY <2>2, <2>7, WritingFacts
    <3>2. RingInv'
      BY <1>4, <2>2, <2>7, WritingRing
    <3> QED
      BY <2>1, <2>2, <3>1, <3>2, MainAnswers, SameAnswersStep
  <2>8. CASE Refuse \/ Publish
    BY <2>1, <2>2, <2>8, RefuseRing, PublishRing, MainAnswers, SameAnswersStep
  <2>9. ASSUME NEW i \in Threads,
               Take(i) \/ Dispatch(i) \/ Answer(i) \/ Free(i) \/ Clear(i) \/ Advance(i)
        PROVE  Kept
    <3>1. RingInv'
      BY <2>2, <2>9, TakeRing, AnswerRing, FreeRing, ClearRing, AdvanceRing
    <3>2. CASE Dispatch(i) \/ Answer(i)
      BY <1>4, <2>2, <3>1, <3>2, DispatchAnswer, AnswerAnswer
    <3>3. CASE Take(i) \/ Free(i) \/ Clear(i) \/ Advance(i)
      BY <2>1, <2>2, <3>1, <3>3, WorkerAnswers, SameAnswersStep
    <3> QED
      BY <2>9, <3>2, <3>3
  <2> HIDE DEF Kept
  <2> QED
    BY <1>4, <2>4, <2>5, <2>6, <2>7, <2>8, <2>9
       DEF Next, AllocateThread, Enqueue, Writing, Worker
<1> QED
  BY <1>2, <1>3, <1>4

LEMMA InquiryInvariant == Spec => []IInv
<1>1. IInv /\ [Next]_vars => IInv'
  BY IInvStep
<1> QED
  BY <1>1, InitInv, PTL DEF Spec

\* All variables of the inquiry server keep their types: among others no index
\* leaves a ring, and the threads' pointers never become negative.
THEOREM InquiryTypeCorrect == Spec => []TypeOK
<1>1. IInv => TypeOK
  BY DEF IInv
<1> QED
  BY <1>1, InquiryInvariant, PTL

\* Unless AllocateThread wrote a full ring, an answer reaches another client than
\* the one that asked only if that one is gone: the user_offset that a worker reads
\* from its slot, without a lock, is that of the request it took there before, and
\* a user's slot changes hands only when its client goes.
THEOREM InquiryAnswerToClient == Spec => []AnswerToClient
<1>1. IInv => AnswerToClient
  BY DEF IInv, AnswerInv, AnswerToClient
<1> QED
  BY <1>1, InquiryInvariant, PTL

\* Unless AllocateThread wrote a full ring, each entry of a ring holds a request
\* that is still allocated, but for the one its worker is just clearing.
THEOREM InquiryRingIntact == Spec => []RingIntact
<1>1. IInv => RingIntact
  <2> SUFFICES ASSUME IInv, ~overrun, NEW i \in Threads
               PROVE  /\ Entries(i) \in 0 .. MAX_THREAD_QUE_SIZE
                      /\ \A j \in Ring(i) :
                            \/ Slot(i, j).memory = "live"
                            \/ j = thread[i].read_ptr /\ worker[i].pc \in Clearing
    BY DEF RingIntact
  <2>1. TypeOK /\ EntryInv
    BY DEF IInv, RingInv
  <2>2. Entries(i) \in 0 .. MAX_THREAD_QUE_SIZE
    BY <2>1 DEF EntryInv, SizeKept
  <2>3. ASSUME NEW j \in Ring(i)
        PROVE  \/ Slot(i, j).memory = "live"
               \/ j = thread[i].read_ptr /\ worker[i].pc \in Clearing
    <3>1. EntryOK(i, j)
      BY <2>1 DEF EntryInv, EntryState
    <3>2. worker[i].pc \in WorkerPcs
      BY <2>1, FrontFacts DEF WorkerRec
    <3> QED
      BY <3>1, <3>2 DEF EntryOK, Stage, WorkerPcs, Clearing
  <2> QED
    BY <2>2, <2>3
<1> QED
  BY <1>1, InquiryInvariant, PTL

\* Unless AllocateThread wrote a full ring, a queued request is in exactly one
\* entry of one ring: the main thread's write_ptr and the workers' read_ptr, which
\* no lock protects, lose none and double none.
THEOREM InquiryNothingLost == Spec => []NothingLost
<1>1. IInv => NothingLost
  <2> SUFFICES ASSUME IInv, ~overrun, NEW r \in Queued
               PROVE  Cardinality({e \in Threads \X (0 .. MaxRequests) :
                          e[2] \in Ring(e[1]) /\ Slot(e[1], e[2]).rcvbuf = r}) = 1
    BY DEF NothingLost
  <2> DEFINE E == {e \in Threads \X (0 .. MaxRequests) :
                      e[2] \in Ring(e[1]) /\ Slot(e[1], e[2]).rcvbuf = r}
  <2>1. TypeOK /\ OwnerInv /\ EntryInv /\ Counted
    BY DEF IInv, RingInv
  <2>2. PICK i \in Threads : \E j \in Ring(i) : Slot(i, j).rcvbuf = r
    BY <2>1 DEF EntryInv, QueuedInRing
  <2>3. PICK j \in Ring(i) : Slot(i, j).rcvbuf = r
    BY <2>2
  <2>4. r # 0
    BY <2>1, TypeParts, ReqFacts DEF Queued
  <2>5. j \in 0 .. MaxRequests
    <3>1. j \in Nat /\ j < thread[i].write_ptr /\ thread[i].write_ptr \in Nat
      BY <2>1, RingEntry
    <3>2. thread[i].write_ptr <= Len(reqs) /\ Len(reqs) <= MaxRequests
      BY <2>1 DEF Counted, OwnerInv, Control
    <3>3. Len(reqs) \in Nat /\ MaxRequests \in Nat
      BY <2>1, TypeParts, ReqFacts, ConstantFacts
    <3> QED
      BY <3>1, <3>2, <3>3
  <2>6. <<i, j>> \in E
    BY <2>3, <2>5
  <2>7. ASSUME NEW e \in E
        PROVE  e = <<i, j>>
    <3>1. PICK k \in Threads, l \in 0 .. MaxRequests : e = <<k, l>>
      OBVIOUS
    <3>2. l \in Ring(k) /\ Slot(k, l).rcvbuf = r
      BY <3>1
    <3>3. k = i
      BY <2>1, <2>3, <2>4, <3>2 DEF EntryInv, OneEntry
    <3>4. ~(l < j) /\ ~(j < l)
      <4>1. Slot(i, l).rcvbuf = r /\ l \in Ring(i) /\ r \in Nat
        BY <2>1, <2>3, <3>2, <3>3, RingEntry
      <4> QED
        BY <2>1, <2>3, <4>1 DEF EntryInv, EntryOrder
    <3>5. l \in Nat /\ j \in Nat
      BY <2>5
    <3> QED
      BY <3>1, <3>3, <3>4, <3>5
  <2> HIDE DEF E
  <2>8. E = {<<i, j>>}
    BY <2>6, <2>7
  <2>9. Cardinality(E) = 1
    BY <2>8, FS_Singleton
  <2> QED
    BY <2>9 DEF E
<1> QED
  BY <1>1, InquiryInvariant, PTL

\* Requests of an account group are processed in the order they came in, and
\* never two at a time, although AllocateThread's search reads rings that the
\* workers are changing.
THEOREM InquiryGroupInOrder == Spec => []GroupInOrder
<1>1. IInv => GroupInOrder
  <2> SUFFICES ASSUME IInv, ~overrun, NEW i \in Threads,
                      worker[i].pc \in {"dispatch", "call"}, NEW r \in Queued,
                      reqs[r].account_group = reqs[worker[i].rcvbuf].account_group
               PROVE  r >= worker[i].rcvbuf
    BY DEF GroupInOrder
  <2>1. TypeOK /\ EntryInv
    BY DEF IInv, RingInv
  <2> DEFINE f == thread[i].read_ptr
  <2>2. Busy(i) /\ Front(i).rcvbuf = worker[i].rcvbuf
    BY <2>1 DEF EntryInv, WorkerAtFront, Cleared
  <2>3. f \in Ring(i) /\ Slot(i, f).rcvbuf = worker[i].rcvbuf
    BY <2>1, <2>2, HeadEntry
  <2>4. Readable(i, f)
    <3>1. EntryOK(i, f)
      BY <2>1, <2>3 DEF EntryInv, EntryState
    <3> QED
      BY <3>1 DEF EntryOK, Stage, Readable
  <2>5. PICK k \in Threads : \E j \in Ring(k) : Slot(k, j).rcvbuf = r
    BY <2>1 DEF EntryInv, QueuedInRing
  <2>6. PICK j \in Ring(k) : Slot(k, j).rcvbuf = r
    BY <2>5
  <2>7. Readable(k, j)
    <3>1. EntryOK(k, j)
      BY <2>1 DEF EntryInv, EntryState
    <3>2. r \in DOMAIN reqs /\ reqs[r].state = "queued" /\ r # 0
      BY <2>1, TypeParts, ReqFacts DEF Queued
    <3> QED
      BY <2>6, <3>1, <3>2 DEF EntryOK, Readable, Stage, Cleared
  <2>8. k = i
    BY <2>1, <2>3, <2>4, <2>6, <2>7 DEF EntryInv, GroupInOneRing, Group
  <2>9. f <= j /\ f \in Nat /\ j \in Nat
    BY <2>1, <2>8, RingEntry
  <2>10. Slot(i, f).rcvbuf \in Nat /\ r \in Nat
    BY <2>1, <2>3, <2>6, RingEntry
  <2>11. CASE f = j
    BY <2>3, <2>6, <2>8, <2>10, <2>11
  <2>12. CASE f < j
    BY <2>1, <2>3, <2>6, <2>8, <2>10, <2>12 DEF EntryInv, EntryOrder
  <2> QED
    BY <2>9, <2>11, <2>12
<1> QED
  BY <1>1, InquiryInvariant, PTL
=============================================================================
